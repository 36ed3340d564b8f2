--------------------------- MODULE TransfersProofs --------------------------
(***************************************************************************)
(* Proofs about the transfer saga for every set of customers, intents and  *)
(* confirmations and every attempt limit that ConstantsOK admits.          *)
(*                                                                         *)
(* The properties are not inductive: they follow from what a confirmation  *)
(* is entitled to while it waits (Entitled), from the two unique indexes   *)
(* (OnePerIntent, OnePerKey), from what a call to the Ledger knows         *)
(* (RepliesTrue) and from where a row's attempt counter stands against its *)
(* status (Counted).                                                       *)
(***************************************************************************)
EXTENDS Transfers, Sums

\* A confirmation past its first reads, and every row, has an authorized
\* intent: authorization is never taken back.
Entitled ==
    \A t \in Confirmations :
        pc[t] \in {"enforced", "begun", "holding"} \/ Exists(t) =>
            intent[IntentOf[t]].authorized

\* The unique indexes of the transfers table.
OnePerIntent ==
    \A t, u \in Confirmations :
        Exists(t) /\ Exists(u) /\ IntentOf[t] = IntentOf[u] => t = u

OnePerKey ==
    \A t, u \in Confirmations :
        /\ Exists(t) /\ Exists(u)
        /\ Sender(t) = Sender(u) /\ ClientKeyOf[t] = ClientKeyOf[u]
        => t = u

\* An answer names a row of the same intent and client key.
AnswersNameRows ==
    \A t \in Confirmations :
        answer[t] # NoRow =>
            /\ answer[t] \in Confirmations
            /\ Exists(answer[t])
            /\ IntentOf[answer[t]] = IntentOf[t]
            /\ ClientKeyOf[answer[t]] = ClientKeyOf[t]

ConsumedHasRow ==
    \A i \in Intents :
        intent[i].consumed =>
            \E t \in Confirmations : IntentOf[t] = i /\ Exists(t)

\* A reply that reports a journal reports one that exists.
RepliesTrue ==
    \A t \in Confirmations, n \in Attempts :
        call[t][n] = "posted" => Posted(t)

PostedHasRow == \A t \in Confirmations : Posted(t) => Exists(t)

\* Where the attempt counter of a row stands in each status.
Counted ==
    \A t \in Confirmations :
        /\ row[t].status = "NONE" => row[t].attempts = 0
        /\ row[t].status = "PROCESSING" =>
               row[t].attempts < MaxProcessingAttempts

\* Every run that met a row in PROCESSING used up one of its attempts.
PassesCounted == \A t \in Confirmations : passes[t] = row[t].attempts

Solvent == \A c \in Customers : balance[c] >= 0

IInv ==
    /\ TypeOK
    /\ Entitled
    /\ OnePerIntent
    /\ OnePerKey
    /\ AnswersNameRows
    /\ ConsumedHasRow
    /\ RepliesTrue
    /\ PostedHasRow
    /\ Counted
    /\ PassesCounted
    /\ CompletedIsPosted
    /\ AttemptsAccounted
    /\ Solvent

-----------------------------------------------------------------------------
\* What posting a transfer does to the Ledger's state: the key was unused,
\* becomes the row's own, and no wallet goes below zero.
LEMMA SettleEffect ==
    ASSUME ConstantsOK, TypeOK, NEW t \in Confirmations, Ledger!Settle(t)
    PROVE  /\ settled[t] = NoRow
           /\ settled' = [settled EXCEPT ![t] = t]
           /\ balance' \in [Customers -> Int]
           /\ \A c \in Customers : balance'[c] >= 0
  <1>1. Ledger!Applied(t) \in [Customers -> Int]
    BY DEF ConstantsOK, TypeOK, Ledger!Applied, Sender, Amount
  <1>2. \A c \in Customers : Ledger!Applied(t)[c] >= 0
    BY DEF Ledger!Settle, Ledger!Covered
  <1>3. QED
    BY <1>1, <1>2 DEF Ledger!Settle

\* Intent and transfer rows stay rows when one of their columns is written.
IntentRows ==
    [Intents -> [known : BOOLEAN, authorized : BOOLEAN,
                 consumed : BOOLEAN, expired : BOOLEAN]]

TransferRows ==
    [Confirmations -> [status : Statuses, journal : BOOLEAN,
                       failure : BOOLEAN,
                       attempts : 0 .. MaxProcessingAttempts]]

LEMMA IntentWritten ==
    ASSUME NEW f \in IntentRows, NEW i \in Intents
    PROVE  /\ [f EXCEPT ![i].known = TRUE] \in IntentRows
           /\ [f EXCEPT ![i].authorized = TRUE] \in IntentRows
           /\ [f EXCEPT ![i].consumed = TRUE] \in IntentRows
           /\ [f EXCEPT ![i].expired = TRUE] \in IntentRows
  BY DEF IntentRows

LEMMA TransferWritten ==
    ASSUME NEW f \in TransferRows, NEW t \in Confirmations,
           NEW s \in Statuses, NEW n \in 0 .. MaxProcessingAttempts
    PROVE  /\ [f EXCEPT ![t].status = s] \in TransferRows
           /\ [f EXCEPT ![t].attempts = n] \in TransferRows
           /\ [f EXCEPT ![t].status = s, ![t].attempts = n] \in TransferRows
           /\ [f EXCEPT ![t].status = s, ![t].journal = TRUE] \in TransferRows
           /\ [f EXCEPT ![t].status = s, ![t].failure = TRUE] \in TransferRows
  BY DEF TransferRows

LEMMA InitInv == ASSUME ConstantsOK PROVE Init => IInv
  <1> SUFFICES ASSUME Init PROVE IInv
    OBVIOUS
  <1> USE DEF Init, Ledger!ServiceInit, ConstantsOK
  <1>1. TypeOK
    BY DEF TypeOK, Statuses, CallStates, Attempts
  <1>2. \A t \in Confirmations : ~Exists(t) /\ ~Posted(t)
    BY DEF Exists, Posted
  <1>3. Entitled /\ AnswersNameRows /\ ConsumedHasRow /\ RepliesTrue
    BY <1>2 DEF Entitled, AnswersNameRows, ConsumedHasRow, RepliesTrue
  <1>4. OnePerIntent /\ OnePerKey /\ PostedHasRow
    BY <1>2 DEF OnePerIntent, OnePerKey, PostedHasRow
  <1>5. /\ Counted /\ PassesCounted /\ CompletedIsPosted
        /\ AttemptsAccounted /\ Solvent
    BY <1>2 DEF Counted, PassesCounted, CompletedIsPosted, AttemptsAccounted, Solvent
  <1>6. QED
    BY <1>1, <1>3, <1>4, <1>5 DEF IInv

-----------------------------------------------------------------------------
\* Steps on an intent: authorization and consumption are only ever added,
\* and rows, calls and the Ledger are left alone.
LEMMA IntentStepInv ==
    ASSUME ConstantsOK, IInv, NEW i \in Intents, IntentStep(i)
    PROVE  IInv'
  <1> USE DEF IInv, ConstantsOK, ledgerVars, confirmVars
  <1>1. UNCHANGED <<balance, settled, row, pc, sawConsumed, answer, call,
                  passes>>
    BY DEF IntentStep, createIntent, authorize, Expire
  <1>2. /\ intent' \in IntentRows
        /\ \A j \in Intents :
               /\ intent[j].authorized => intent'[j].authorized
               /\ intent'[j].consumed => intent[j].consumed
    <2>0. intent \in IntentRows
      BY DEF TypeOK, IntentRows
    <2>1. CASE createIntent(i)
      <3>1. intent' \in IntentRows
        BY <2>1, <2>0, IntentWritten DEF createIntent
      <3>2. QED
        BY <2>1, <2>0, <3>1 DEF createIntent, IntentRows
    <2>2. CASE authorize(i)
      <3>1. intent' \in IntentRows
        BY <2>2, <2>0, IntentWritten DEF authorize
      <3>2. QED
        BY <2>2, <2>0, <3>1 DEF authorize, IntentRows
    <2>3. CASE Expire(i)
      <3>1. intent' \in IntentRows
        BY <2>3, <2>0, IntentWritten DEF Expire
      <3>2. QED
        BY <2>3, <2>0, <3>1 DEF Expire, IntentRows
    <2>4. QED
      BY <2>1, <2>2, <2>3 DEF IntentStep
  <1>3. TypeOK'
    BY <1>1, <1>2 DEF TypeOK, IntentRows
  <1>4. Entitled' /\ ConsumedHasRow'
    BY <1>1, <1>2 DEF Entitled, ConsumedHasRow, Exists
  <1>5. OnePerIntent' /\ OnePerKey' /\ AnswersNameRows'
    BY <1>1 DEF OnePerIntent, OnePerKey, AnswersNameRows, Exists
  <1>6. RepliesTrue' /\ PostedHasRow' /\ Counted' /\ PassesCounted'
    BY <1>1 DEF RepliesTrue, PostedHasRow, Counted, PassesCounted, Exists,
                Posted
  <1>7. CompletedIsPosted' /\ AttemptsAccounted' /\ Solvent'
    BY <1>1 DEF CompletedIsPosted, AttemptsAccounted, Solvent, Exists, Posted
  <1>8. QED
    BY <1>3, <1>4, <1>5, <1>6, <1>7

\* Steps of a confirmation before its commit, and its rollback: only the
\* confirmation's own place and answer change.
LEMMA ConfirmWaitsInv ==
    ASSUME ConstantsOK, IInv, NEW t \in Confirmations,
           \/ ConfirmPreflight(t) \/ ConfirmBegin(t)
           \/ ConfirmCheck(t) \/ ConfirmAbort(t)
    PROVE  IInv'
  <1> USE DEF IInv, ConstantsOK, ledgerVars, confirmVars
  <1>1. UNCHANGED <<balance, settled, intent, row, call, passes>>
    BY DEF ConfirmPreflight, ConfirmBegin, ConfirmCheck, ConfirmAbort
  <1>2. sawConsumed' \in [Confirmations -> BOOLEAN]
    BY DEF ConfirmPreflight, ConfirmBegin, ConfirmCheck, ConfirmAbort, TypeOK
  <1>3. \E p \in {"enforced", "begun", "holding", "done"} :
            pc' = [pc EXCEPT ![t] = p]
    BY DEF ConfirmPreflight, ConfirmBegin, ConfirmCheck, ConfirmAbort,
           AnswerExisting, Stop
  <1>4. \/ answer' = answer
        \/ \E u \in Keyed(t) :
               answer' = [answer EXCEPT ![t] =
                              IF IntentOf[u] = IntentOf[t] THEN u ELSE NoRow]
    BY DEF ConfirmPreflight, ConfirmBegin, ConfirmCheck, ConfirmAbort,
           AnswerExisting, Stop
  <1>5. intent[IntentOf[t]].authorized
    BY DEF ConfirmPreflight, ConfirmBegin, ConfirmCheck, ConfirmAbort, Entitled
  <1>6. TypeOK'
    <2>1. pc' \in [Confirmations -> {"idle", "enforced", "begun", "holding",
                                     "done"}]
      BY <1>3 DEF TypeOK
    <2>2. answer' \in [Confirmations -> Confirmations \cup {NoRow}]
      BY <1>4 DEF TypeOK, Keyed
    <2>3. QED
      BY <1>1, <1>2, <2>1, <2>2 DEF TypeOK
  <1>7. Entitled'
    BY <1>1, <1>3, <1>5 DEF Entitled, Exists, TypeOK
  <1>8. AnswersNameRows'
    BY <1>1, <1>4 DEF AnswersNameRows, Exists, Keyed, TypeOK
  <1>9. OnePerIntent' /\ OnePerKey' /\ ConsumedHasRow'
    BY <1>1 DEF OnePerIntent, OnePerKey, ConsumedHasRow, Exists
  <1>10. RepliesTrue' /\ PostedHasRow' /\ Counted' /\ PassesCounted'
    BY <1>1 DEF RepliesTrue, PostedHasRow, Counted, PassesCounted, Exists,
                Posted
  <1>11. CompletedIsPosted' /\ AttemptsAccounted' /\ Solvent'
    BY <1>1 DEF CompletedIsPosted, AttemptsAccounted, Solvent, Exists, Posted
  <1>12. QED
    BY <1>6, <1>7, <1>8, <1>9, <1>10, <1>11

\* The commit of a confirmation: the unique indexes had room for its row.
LEMMA ConfirmCommitInv ==
    ASSUME ConstantsOK, IInv, NEW t \in Confirmations, ConfirmCommit(t)
    PROVE  IInv'
  <1> USE DEF IInv, ConstantsOK, ledgerVars, confirmVars
  <1>1. /\ ~Exists(t)
        /\ \A u \in Confirmations : Exists(u) =>
               /\ IntentOf[u] # IntentOf[t]
               /\ ~(Sender(u) = Sender(t) /\ ClientKeyOf[u] = ClientKeyOf[t])
    BY DEF ConfirmCommit, UniqueViolation, Keyed
  <1>2. /\ row' = [row EXCEPT ![t].status = "PROCESSING"]
        /\ intent' = [intent EXCEPT ![IntentOf[t]].consumed = TRUE]
        /\ pc' = [pc EXCEPT ![t] = "done"]
        /\ answer' = [answer EXCEPT ![t] = t]
        /\ call' = [call EXCEPT ![t][0] = "sent"]
        /\ UNCHANGED <<balance, settled, sawConsumed, passes>>
    BY DEF ConfirmCommit
  <1>3. /\ IntentOf[t] \in Intents
        /\ intent[IntentOf[t]].authorized
    BY DEF ConfirmCommit, Entitled
  <1>4. /\ \A u \in Confirmations : Exists(u)' <=> Exists(u) \/ u = t
        /\ \A j \in Intents : /\ intent'[j].authorized = intent[j].authorized
                              /\ intent'[j].consumed =>
                                     intent[j].consumed \/ j = IntentOf[t]
    BY <1>2 DEF Exists, TypeOK
  <1>5. TypeOK'
    <2>1. intent' \in IntentRows
      BY <1>2, <1>3, IntentWritten DEF TypeOK, IntentRows
    <2>2. row' \in TransferRows
      <3>1. /\ row \in TransferRows
            /\ "PROCESSING" \in Statuses
            /\ 0 \in 0 .. MaxProcessingAttempts
        BY DEF TypeOK, TransferRows, Statuses
      <3>2. QED
        BY <1>2, <3>1, TransferWritten
    <2>3. call' \in [Confirmations -> [Attempts -> CallStates]]
      BY <1>2 DEF TypeOK, CallStates, Attempts
    <2>4. QED
      BY <1>2, <2>1, <2>2, <2>3 DEF TypeOK, IntentRows, TransferRows
  <1>6. Entitled'
    BY <1>2, <1>3, <1>4 DEF Entitled, TypeOK
  <1>7. OnePerIntent' /\ OnePerKey'
    BY <1>1, <1>4 DEF OnePerIntent, OnePerKey
  <1>8. AnswersNameRows'
    BY <1>2, <1>4 DEF AnswersNameRows, TypeOK
  <1>9. ConsumedHasRow'
    BY <1>3, <1>4 DEF ConsumedHasRow
  <1>10. RepliesTrue'
    BY <1>2 DEF RepliesTrue, Posted, TypeOK
  <1>11. PostedHasRow'
    BY <1>2, <1>4 DEF PostedHasRow, Posted
  <1>12. Counted' /\ PassesCounted' /\ CompletedIsPosted'
    BY <1>1, <1>2 DEF Counted, PassesCounted, CompletedIsPosted, Posted, Exists, TypeOK
  <1>13. AttemptsAccounted'
    <2>1. /\ row[t].attempts = 0 /\ row'[t].attempts = 0
          /\ row'[t].status = "PROCESSING"
          /\ \A u \in Confirmations \ {t} : row'[u] = row[u]
      BY <1>1, <1>2 DEF Counted, Exists, TypeOK
    <2>2. \A u \in Confirmations, n \in Attempts :
              call'[u][n] # "none" <=> call[u][n] # "none" \/ (u = t /\ n = 0)
      BY <1>2 DEF TypeOK
    <2>3. \A n \in Attempts : n \in Int /\ 0 <= n
      BY DEF Attempts
    <2>4. QED
      BY <1>1, <1>4, <2>1, <2>2, <2>3 DEF AttemptsAccounted
  <1>14. Solvent'
    BY <1>2 DEF Solvent
  <1>15. QED
    BY <1>5, <1>6, <1>7, <1>8, <1>9, <1>10, <1>11, <1>12, <1>13, <1>14

-----------------------------------------------------------------------------
\* A reply moves the call to one of two states, whoever still waits for it.
LEMMA AnsweredCall ==
    ASSUME TypeOK, NEW t \in Confirmations, NEW n \in Attempts, NEW what,
           Answered(t, n, what)
    PROVE  \E x \in {what, "over"} : call' = [call EXCEPT ![t][n] = x]
  <1> DEFINE x == IF call[t][n] = "sent" THEN what ELSE "over"
  <1>1. call' = [call EXCEPT ![t][n] = x]
    BY DEF Answered, TypeOK
  <1>2. QED
    BY <1>1

\* A step of a call that leaves the rows alone: the call moves on, and only
\* the Ledger's own post changes balances or journals.
LEMMA LedgerSideInv ==
    ASSUME ConstantsOK, IInv, NEW t \in Confirmations, NEW n \in Attempts,
           \/ LedgerPosts(t, n) \/ LedgerReplays(t, n)
           \/ LedgerRefuses(t, n) \/ Timeout(t, n) \/ CallLost(t, n)
    PROVE  IInv'
  <1> USE DEF IInv, ledgerVars, confirmVars, paymentsRows
  <1>1. UNCHANGED <<intent, row, pc, sawConsumed, answer, passes>>
    BY DEF LedgerPosts, LedgerReplays, LedgerRefuses, Timeout, CallLost
  <1>2. call[t][n] # "none"
    BY DEF LedgerPosts, LedgerReplays, LedgerRefuses, Timeout, CallLost,
           AtLedger
  <1>3. /\ settled' \in [Confirmations -> Confirmations \cup {NoRow}]
        /\ balance' \in [Customers -> Int]
        /\ \A c \in Customers : balance'[c] >= 0
        /\ \A u \in Confirmations \ {t} : settled'[u] = settled[u]
        /\ Posted(t) => Posted(t)'
    <2>1. CASE LedgerPosts(t, n)
      BY <2>1, SettleEffect DEF LedgerPosts, Posted, TypeOK
    <2>2. CASE UNCHANGED <<balance, settled>>
      BY <2>2 DEF Posted, TypeOK, Solvent
    <2>3. QED
      BY <2>1, <2>2 DEF LedgerReplays, LedgerRefuses, Timeout, CallLost
  <1>4. PICK x \in CallStates \ {"none"} :
            /\ call' = [call EXCEPT ![t][n] = x]
            /\ x = "posted" => Posted(t)'
    <2>1. CASE LedgerPosts(t, n)
      <3>1. Posted(t)'
        BY <2>1, SettleEffect DEF LedgerPosts, Posted, TypeOK
      <3>2. QED
        BY <2>1, <3>1, AnsweredCall DEF LedgerPosts, CallStates
    <2>2. CASE LedgerReplays(t, n)
      BY <2>2, AnsweredCall DEF LedgerReplays, CallStates, Posted
    <2>3. CASE LedgerRefuses(t, n)
      BY <2>3, AnsweredCall DEF LedgerRefuses, CallStates
    <2>4. CASE Timeout(t, n) \/ CallLost(t, n)
      BY <2>4 DEF Timeout, CallLost, CallStates
    <2>5. QED
      BY <2>1, <2>2, <2>3, <2>4
  <1>5. call' \in [Confirmations -> [Attempts -> CallStates]]
    BY <1>4 DEF TypeOK
  <1>6. TypeOK'
    BY <1>1, <1>3, <1>5 DEF TypeOK
  <1>7. Exists(t)
    BY <1>2 DEF AttemptsAccounted
  <1>8. \A u \in Confirmations :
            /\ Exists(u)' <=> Exists(u)
            /\ Posted(u) => Posted(u)'
            /\ u # t => (Posted(u)' <=> Posted(u))
    BY <1>1, <1>3 DEF Exists, Posted
  <1>9. Entitled' /\ OnePerIntent' /\ OnePerKey' /\ Counted' /\ PassesCounted'
    BY <1>1 DEF Entitled, OnePerIntent, OnePerKey, Counted, PassesCounted,
                Exists
  <1>10. AnswersNameRows' /\ ConsumedHasRow'
    BY <1>1 DEF AnswersNameRows, ConsumedHasRow, Exists
  <1>11. RepliesTrue'
    BY <1>4, <1>8 DEF RepliesTrue, TypeOK
  <1>12. PostedHasRow' /\ CompletedIsPosted'
    BY <1>1, <1>7, <1>8 DEF PostedHasRow, CompletedIsPosted
  <1>13. AttemptsAccounted'
    <2>1. \A u \in Confirmations, m \in Attempts :
              call'[u][m] # "none" <=> call[u][m] # "none"
      BY <1>2, <1>4 DEF TypeOK
    <2>2. QED
      BY <1>1, <1>8, <2>1 DEF AttemptsAccounted
  <1>14. Solvent'
    BY <1>3 DEF Solvent
  <1>15. QED
    BY <1>6, <1>9, <1>10, <1>11, <1>12, <1>13, <1>14

\* settle writes the verdict its reply carries.
LEMMA SettleInv ==
    ASSUME ConstantsOK, IInv, NEW t \in Confirmations, NEW n \in Attempts,
           SettleCompleted(t, n) \/ SettleFailed(t, n)
    PROVE  IInv'
  <1> USE DEF IInv, ledgerVars, confirmVars
  <1>1. /\ UNCHANGED <<balance, settled, intent, pc, sawConsumed, answer,
                       passes>>
        /\ call' = [call EXCEPT ![t][n] = "over"]
        /\ call[t][n] # "none"
    BY DEF SettleCompleted, SettleFailed
  <1>2. /\ Exists(t)
        /\ SettleCompleted(t, n) => Posted(t)
    BY <1>1 DEF AttemptsAccounted, RepliesTrue, SettleCompleted
  <1>3. /\ row' \in TransferRows
        /\ row'[t].status = "COMPLETED" => row'[t].journal /\ Posted(t)
        /\ row'[t].status \in {"COMPLETED", "FAILED"}
        /\ row'[t].attempts = row[t].attempts
        /\ \A u \in Confirmations \ {t} : row'[u] = row[u]
    <2>0. row \in TransferRows /\ 0 \in 0 .. MaxProcessingAttempts
      BY DEF TypeOK, TransferRows, ConstantsOK
    <2>1. CASE SettleCompleted(t, n)
      <3>1. row' \in TransferRows
        BY <2>0, <2>1, TransferWritten DEF SettleCompleted, Statuses
      <3>2. QED
        BY <1>2, <2>0, <2>1, <3>1 DEF SettleCompleted, TransferRows
    <2>2. CASE SettleFailed(t, n)
      <3>1. row' \in TransferRows
        BY <2>0, <2>2, TransferWritten DEF SettleFailed, Statuses
      <3>2. QED
        BY <2>0, <2>2, <3>1 DEF SettleFailed, TransferRows
    <2>3. QED
      BY <2>1, <2>2
  <1>4. call' \in [Confirmations -> [Attempts -> CallStates]]
    BY <1>1 DEF TypeOK, CallStates
  <1>5. TypeOK'
    BY <1>1, <1>3, <1>4 DEF TypeOK, TransferRows
  <1>6. \A u \in Confirmations : (Exists(u)' <=> Exists(u))
                                 /\ (Posted(u)' <=> Posted(u))
    BY <1>1, <1>2, <1>3 DEF Exists, Posted
  <1>7. Entitled' /\ OnePerIntent' /\ OnePerKey'
    BY <1>1, <1>6 DEF Entitled, OnePerIntent, OnePerKey
  <1>8. AnswersNameRows' /\ ConsumedHasRow'
    BY <1>1, <1>6 DEF AnswersNameRows, ConsumedHasRow
  <1>9. RepliesTrue'
    BY <1>1, <1>6 DEF RepliesTrue, TypeOK
  <1>10. PostedHasRow'
    BY <1>6 DEF PostedHasRow
  <1>11. CompletedIsPosted' /\ Counted' /\ PassesCounted'
    BY <1>1, <1>3, <1>6 DEF CompletedIsPosted, Counted, PassesCounted
  <1>12. AttemptsAccounted'
    <2>1. \A u \in Confirmations, m \in Attempts :
              call'[u][m] # "none" <=> call[u][m] # "none"
      BY <1>1 DEF TypeOK
    <2>2. QED
      BY <1>3, <1>6, <2>1 DEF AttemptsAccounted
  <1>13. Solvent'
    BY <1>1 DEF Solvent
  <1>14. QED
    BY <1>5, <1>7, <1>8, <1>9, <1>10, <1>11, <1>12, <1>13

\* A run that claims the row counts the attempt, and either sends it or gives
\* the row up.
LEMMA ClaimInv ==
    ASSUME ConstantsOK, IInv, NEW t \in Confirmations, recover(t), Due(t)
    PROVE  IInv'
  <1> USE DEF IInv, ledgerVars, confirmVars
  <1> DEFINE next == row[t].attempts + 1
  <1>1. /\ row[t].status = "PROCESSING"
        /\ row[t].attempts \in Nat
        /\ row[t].attempts < MaxProcessingAttempts
        /\ MaxProcessingAttempts \in Nat
        /\ next \in 0 .. MaxProcessingAttempts
        /\ UNCHANGED <<balance, settled, intent, pc, sawConsumed, answer>>
        /\ passes' = [passes EXCEPT ![t] = @ + 1]
    BY DEF recover, Due, Counted, TypeOK, ConstantsOK
  <1>2. row \in TransferRows
    BY DEF TypeOK, TransferRows
  <1>3. /\ row' \in TransferRows
        /\ row'[t].attempts = next
        /\ row'[t].status \in {"PROCESSING", "REQUIRES_REVIEW"}
        /\ row'[t].status = "REQUIRES_REVIEW" <=> next = MaxProcessingAttempts
        /\ \A u \in Confirmations \ {t} : row'[u] = row[u]
        /\ \/ next = MaxProcessingAttempts /\ call' = call
           \/ next \in Attempts /\ call' = [call EXCEPT ![t][next] = "sent"]
    <2>1. CASE Exhausted(next)
      <3>1. row' = [row EXCEPT ![t].status = "REQUIRES_REVIEW",
                               ![t].attempts = next]
            /\ call' = call
        BY <2>1 DEF recover
      <3>2. row' \in TransferRows
        BY <1>1, <1>2, <3>1, TransferWritten DEF Statuses
      <3>3. next = MaxProcessingAttempts
        BY <1>1, <2>1 DEF Exhausted
      <3>4. QED
        BY <1>2, <3>1, <3>2, <3>3 DEF TransferRows
    <2>2. CASE ~Exhausted(next)
      <3>1. row' = [row EXCEPT ![t].attempts = next]
            /\ call' = [call EXCEPT ![t][next] = "sent"]
        BY <2>2 DEF recover
      <3>2. row' \in TransferRows
        BY <1>1, <1>2, <3>1, TransferWritten DEF Statuses
      <3>3. next # MaxProcessingAttempts /\ next \in Attempts
        BY <1>1, <2>2 DEF Exhausted, Attempts
      <3>4. QED
        BY <1>1, <1>2, <3>1, <3>2, <3>3 DEF TransferRows
    <2>3. QED
      BY <2>1, <2>2
  <1> HIDE DEF next
  <1>4. /\ call' \in [Confirmations -> [Attempts -> CallStates]]
        /\ \A u \in Confirmations, m \in Attempts :
               call'[u][m] \in {call[u][m], "sent"}
    <2>1. CASE call' = call
      BY <2>1 DEF TypeOK
    <2>2. CASE next \in Attempts /\ call' = [call EXCEPT ![t][next] = "sent"]
      BY <2>2 DEF TypeOK, CallStates
    <2>3. QED
      BY <1>3, <2>1, <2>2
  <1>5. TypeOK' /\ PassesCounted'
    <2>1. /\ passes' \in [Confirmations -> Nat]
          /\ passes'[t] = next
          /\ \A u \in Confirmations \ {t} : passes'[u] = passes[u]
      BY <1>1 DEF TypeOK, PassesCounted, next
    <2>2. QED
      BY <1>1, <1>3, <1>4, <2>1 DEF TypeOK, TransferRows, PassesCounted
  <1>6. \A u \in Confirmations : (Exists(u)' <=> Exists(u))
                                 /\ (Posted(u)' <=> Posted(u))
    BY <1>1, <1>3 DEF Exists, Posted
  <1>7. Entitled' /\ OnePerIntent' /\ OnePerKey'
    BY <1>1, <1>6 DEF Entitled, OnePerIntent, OnePerKey
  <1>8. AnswersNameRows' /\ ConsumedHasRow'
    BY <1>1, <1>6 DEF AnswersNameRows, ConsumedHasRow
  <1>9. RepliesTrue'
    BY <1>4, <1>6 DEF RepliesTrue
  <1>10. PostedHasRow'
    BY <1>6 DEF PostedHasRow
  <1>11. CompletedIsPosted' /\ Counted'
    BY <1>1, <1>3, <1>6 DEF CompletedIsPosted, Counted, next
  <1>12. AttemptsAccounted'
    <2>1. \A u \in Confirmations \ {t}, m \in Attempts :
              call'[u][m] = call[u][m]
      BY <1>3 DEF TypeOK
    <2>2. Exists(t)
      BY <1>1 DEF Exists
    <2>3. \A m \in Attempts : call'[t][m] # "none" <=> m <= next
      <3>1. \A m \in Attempts :
                /\ m \in Int /\ m < MaxProcessingAttempts
                /\ call[t][m] # "none" <=> m <= row[t].attempts
        BY <1>1, <2>2 DEF AttemptsAccounted, Attempts
      <3>2. CASE next = MaxProcessingAttempts /\ call' = call
        BY <1>1, <3>1, <3>2 DEF next
      <3>3. CASE next \in Attempts /\ call' = [call EXCEPT ![t][next] = "sent"]
        <4>1. \A m \in Attempts :
                  call'[t][m] = IF m = next THEN "sent" ELSE call[t][m]
          BY <3>3 DEF TypeOK
        <4>2. QED
          BY <1>1, <3>1, <4>1 DEF next
      <3>4. QED
        BY <1>3, <3>2, <3>3
    <2>4. QED
      BY <1>1, <1>3, <1>6, <2>1, <2>2, <2>3 DEF AttemptsAccounted, next
  <1>13. Solvent'
    BY <1>1 DEF Solvent
  <1>14. QED
    BY <1>5, <1>7, <1>8, <1>9, <1>10, <1>11, <1>12, <1>13

\* The invariant is about the variables only.
LEMMA StutterInv == ASSUME IInv, UNCHANGED vars PROVE IInv'
  BY DEF vars, IInv, TypeOK, Entitled, OnePerIntent, OnePerKey,
         AnswersNameRows, ConsumedHasRow, RepliesTrue, PostedHasRow, Counted,
         PassesCounted, CompletedIsPosted, AttemptsAccounted, Solvent, Exists,
         Posted

\* A run passes over a row that is decided already and leaves everything as
\* it was.
LEMMA RecoverInv ==
    ASSUME ConstantsOK, IInv, NEW t \in Confirmations, recover(t)
    PROVE  IInv'
  <1>1. CASE Due(t)
    BY <1>1, ClaimInv
  <1>2. CASE ~Due(t)
    <2>1. UNCHANGED vars
      BY <1>2 DEF recover, Due, vars, ledgerVars, confirmVars
    <2>2. QED
      BY <1>2, <2>1, StutterInv
  <1>3. QED
    BY <1>1, <1>2

-----------------------------------------------------------------------------
LEMMA NextInv == ASSUME ConstantsOK PROVE IInv /\ [Next]_vars => IInv'
  <1> SUFFICES ASSUME IInv, [Next]_vars PROVE IInv'
    OBVIOUS
  <1>1. CASE UNCHANGED vars
    BY <1>1, StutterInv
  <1>2. CASE Next
    BY <1>2, IntentStepInv, ConfirmWaitsInv, ConfirmCommitInv, LedgerSideInv,
       SettleInv, RecoverInv DEF Next, ConfirmStep, CallStep
  <1>3. QED
    BY <1>1, <1>2

\* The inductive invariant holds in every reachable state of the saga.
THEOREM SagaInv == ASSUME ConstantsOK PROVE Spec => []IInv
  BY InitInv, NextInv, PTL DEF Spec

\* However confirm requests, retries and late calls overlap, an intent is
\* turned into at most one row and one journal (confirm reads consumedAt
\* before it waits for the lock; the unique index decides).
THEOREM TransferIntentSpentOnce ==
    ASSUME ConstantsOK PROVE Spec => []IntentSpentOnce
  <1>1. IInv => IntentSpentOnce
    BY DEF IInv, IntentSpentOnce, OnePerIntent, PostedHasRow
  <1>2. QED
    BY SagaInv, <1>1, PTL

\* Rows, intents, answers, calls and journals agree at every step: COMPLETED
\* has its journal, money has an authorized intent, a consumed intent its
\* row, one client key one answer, and review only exhausted rows.
THEOREM TransferMoneyTraced == ASSUME ConstantsOK PROVE Spec => []MoneyTraced
  <1>1. ASSUME IInv PROVE MoneyTraced
    <2> USE <1>1 DEF IInv
    <2>1. MoneyHasProvenance
      BY DEF MoneyHasProvenance, PostedHasRow, Entitled, ConsumedHasRow
    <2>2. ReplayIsConsistent
      BY DEF ReplayIsConsistent, AnswersNameRows, OnePerKey, Sender
    <2>3. QED
      BY <2>1, <2>2 DEF MoneyTraced
  <1>2. QED
    BY SagaInv, <1>1, PTL

\* Recovery is bounded: as many runs over a row as the limit allows attempts
\* decide it or hand it to review, whatever happens to its calls.
THEOREM TransferRecoveryBounded ==
    ASSUME ConstantsOK PROVE Spec => []RecoveryBounded
  <1>1. ASSUME IInv PROVE RecoveryBounded
    BY <1>1 DEF IInv, Counted, PassesCounted, AttemptsAccounted,
                RecoveryBounded
  <1>2. QED
    BY SagaInv, <1>1, PTL

-----------------------------------------------------------------------------
(* The totals.  The daily limit is kept by the advisory lock: while a      *)
(* confirmation holds it nobody of the same sender adds a row, so the room *)
(* it found is still there when it commits.  Refused rows may come back as *)
(* COMPLETED, which is why the limit speaks of rows never refused.         *)

\* A refusal stays on record.
RefusalMarked ==
    \A t \in Confirmations : row[t].status = "FAILED" => row[t].failure

OneHolder ==
    \A t, u \in Confirmations :
        pc[t] = "holding" /\ pc[u] = "holding" /\ Sender(t) = Sender(u) => t = u

RoomKept ==
    \A t \in Confirmations :
        pc[t] = "holding" =>
            Outgoing(Unrefused(Sender(t))) + Amount(t) <= DailyOutgoingLimit

LimitInv == RefusalMarked /\ OneHolder /\ RoomKept /\ DailyLimitHolds

\* Amounts are positive, and a sum of them grows with the rows summed.
LEMMA OutgoingGrows ==
    ASSUME ConstantsOK, NEW S \in SUBSET Confirmations, NEW R \in SUBSET S
    PROVE  /\ Outgoing(R) \in Nat /\ Outgoing(S) \in Nat
           /\ Outgoing(R) <= Outgoing(S)
           /\ \A t \in Confirmations : Amount(t) \in Nat /\ Sender(t) \in Customers
  <1> DEFINE f == [t \in Confirmations |-> Amount(t)]
  <1>1. \A t \in Confirmations : Amount(t) \in Nat /\ Sender(t) \in Customers
    BY DEF ConstantsOK, Amount, Sender
  <1>2. IsFiniteSet(S) /\ \A t \in S : f[t] \in Nat
    BY <1>1, FS_Subset DEF ConstantsOK
  <1> HIDE DEF f
  <1>3. /\ SumFunctionOnSet(f, R) \in Nat /\ SumFunctionOnSet(f, S) \in Nat
        /\ SumFunctionOnSet(f, R) <= SumFunctionOnSet(f, S)
    BY <1>2, SumGrows
  <1>4. QED
    BY <1>1, <1>3 DEF f, Outgoing

\* One row more adds at most its own amount.
LEMMA OutgoingAdds ==
    ASSUME ConstantsOK, NEW R \in SUBSET Confirmations, NEW t \in Confirmations,
           NEW S \in SUBSET (R \cup {t})
    PROVE  Outgoing(S) <= Outgoing(R) + Amount(t)
  <1> DEFINE f == [u \in Confirmations |-> Amount(u)]
             T == R \cup {t}
  <1>1. /\ Outgoing(S) <= Outgoing(T) /\ Outgoing(S) \in Nat /\ Outgoing(T) \in Nat
        /\ Outgoing(T \ {t}) <= Outgoing(R) /\ Outgoing(R) \in Nat
        /\ Outgoing(T \ {t}) \in Nat
        /\ \A u \in Confirmations : Amount(u) \in Nat
    <2>1. T \in SUBSET Confirmations /\ S \in SUBSET T /\ T \ {t} \in SUBSET R
      OBVIOUS
    <2> HIDE DEF T
    <2>2. QED
      BY <2>1, OutgoingGrows
  <1>2. IsFiniteSet(T) /\ t \in T /\ \A u \in T : f[u] \in Int
    BY <1>1, FS_Subset DEF ConstantsOK
  <1>3. f[t] = Amount(t)
    OBVIOUS
  <1> HIDE DEF f, T
  <1>4. SumFunctionOnSet(f, T) = f[t] + SumFunctionOnSet(f, T \ {t})
    BY <1>2, SumElement
  <1>5. Outgoing(T) = Amount(t) + Outgoing(T \ {t})
    BY <1>3, <1>4 DEF f, Outgoing
  <1>6. QED
    BY <1>1, <1>5

\* A step that adds no row and grants no lock keeps the limit.
LEMMA LimitStays ==
    ASSUME ConstantsOK, LimitInv, RefusalMarked',
           \A c \in Customers : Unrefused(c)' \subseteq Unrefused(c),
           \A t \in Confirmations : pc'[t] = "holding" => pc[t] = "holding"
    PROVE  LimitInv'
  <1> USE DEF LimitInv
  <1>1. ASSUME NEW c \in Customers
        PROVE  /\ Outgoing(Unrefused(c)') <= Outgoing(Unrefused(c))
               /\ Outgoing(Unrefused(c)') \in Nat /\ Outgoing(Unrefused(c)) \in Nat
    <2>1. Unrefused(c) \in SUBSET Confirmations
      BY DEF Unrefused
    <2>2. QED
      BY <2>1, OutgoingGrows
  <1>2. DailyLimitHolds'
    <2> SUFFICES ASSUME NEW c \in Customers
                 PROVE  Outgoing(Unrefused(c)') <= DailyOutgoingLimit
      BY DEF DailyLimitHolds, Outgoing
    <2>1. QED
      BY <1>1 DEF DailyLimitHolds, ConstantsOK
  <1>3. RoomKept'
    <2> SUFFICES ASSUME NEW t \in Confirmations, pc'[t] = "holding"
                 PROVE  Outgoing(Unrefused(Sender(t))') + Amount(t)
                            <= DailyOutgoingLimit
      BY DEF RoomKept, Outgoing, Amount, Sender
    <2>1. Sender(t) \in Customers /\ Amount(t) \in Nat
      BY DEF ConstantsOK, Sender, Amount
    <2>2. Outgoing(Unrefused(Sender(t))) + Amount(t) <= DailyOutgoingLimit
      BY DEF RoomKept
    <2>3. QED
      BY <1>1, <2>1, <2>2 DEF ConstantsOK
  <1>4. OneHolder'
    BY DEF OneHolder, Sender
  <1>5. QED
    BY <1>2, <1>3, <1>4

\* The check under the lock grants it to one confirmation of a sender, and
\* only where the row still fits.
LEMMA LimitCheck ==
    ASSUME ConstantsOK, TypeOK, LimitInv, NEW t \in Confirmations, ConfirmCheck(t)
    PROVE  LimitInv'
  <1> USE DEF LimitInv
  <1>1. UNCHANGED row
    BY DEF ConfirmCheck
  <1>2. /\ RefusalMarked'
        /\ \A c \in Customers : Unrefused(c)' = Unrefused(c)
    BY <1>1 DEF RefusalMarked, Unrefused, Exists, Sender
  <1>3. CASE pc'[t] # "holding"
    <2>1. \A u \in Confirmations : pc'[u] = "holding" => pc[u] = "holding"
      BY <1>3 DEF ConfirmCheck, AnswerExisting, Stop, TypeOK
    <2>2. QED
      BY <1>2, <2>1, LimitStays
  <1>4. CASE pc'[t] = "holding"
    <2>1. /\ pc' = [pc EXCEPT ![t] = "holding"]
          /\ LockFree(t)
          /\ ~(Reserved(Sender(t)) + Amount(t) > DailyOutgoingLimit)
      BY <1>4 DEF ConfirmCheck, AnswerExisting, Stop, TypeOK
    <2>2. OneHolder'
      BY <2>1 DEF OneHolder, LockFree, TypeOK, Sender
    <2>3. Unrefused(Sender(t)) \subseteq Counting(Sender(t))
      BY DEF Unrefused, Counting, Exists, RefusalMarked, TypeOK, Statuses
    <2>4. Outgoing(Unrefused(Sender(t))) + Amount(t) <= DailyOutgoingLimit
      <3>1. Counting(Sender(t)) \in SUBSET Confirmations
        BY DEF Counting
      <3>2. /\ Outgoing(Unrefused(Sender(t))) <= Outgoing(Counting(Sender(t)))
            /\ Outgoing(Unrefused(Sender(t))) \in Nat
            /\ Outgoing(Counting(Sender(t))) \in Nat
            /\ Amount(t) \in Nat
        BY <2>3, <3>1, OutgoingGrows
      <3>3. QED
        BY <2>1, <3>2 DEF Reserved, ConstantsOK
    <2>5. RoomKept'
      <3> SUFFICES ASSUME NEW u \in Confirmations, pc'[u] = "holding"
                   PROVE  Outgoing(Unrefused(Sender(u))') + Amount(u)
                              <= DailyOutgoingLimit
        BY DEF RoomKept, Outgoing, Amount, Sender
      <3>1. Unrefused(Sender(u))' = Unrefused(Sender(u))
        BY <1>2 DEF ConstantsOK, Sender
      <3>2. QED
        BY <2>1, <2>4, <3>1 DEF RoomKept, TypeOK
    <2>6. DailyLimitHolds'
      BY <1>2 DEF DailyLimitHolds, Outgoing
    <2>7. QED
      BY <1>2, <2>2, <2>5, <2>6
  <1>5. QED
    BY <1>3, <1>4

\* The commit adds its own row, in the room that was kept for it.
LEMMA LimitCommit ==
    ASSUME ConstantsOK, TypeOK, LimitInv, NEW t \in Confirmations, ConfirmCommit(t)
    PROVE  LimitInv'
  <1> USE DEF LimitInv
  <1>1. /\ pc[t] = "holding" /\ pc' = [pc EXCEPT ![t] = "done"]
        /\ row' = [row EXCEPT ![t].status = "PROCESSING"]
    BY DEF ConfirmCommit
  <1>2. /\ row'[t].status = "PROCESSING" /\ row'[t].failure = row[t].failure
        /\ \A u \in Confirmations : u # t => row'[u] = row[u]
    BY <1>1 DEF TypeOK
  <1>3. RefusalMarked'
    BY <1>2 DEF RefusalMarked
  <1>4. \A c \in Customers :
            /\ Unrefused(c) \in SUBSET Confirmations
            /\ Unrefused(c)' \subseteq Unrefused(c) \cup {t}
            /\ c # Sender(t) => Unrefused(c)' \subseteq Unrefused(c)
    BY <1>2 DEF Unrefused, Exists, Sender
  <1>5. Sender(t) \in Customers
    BY DEF ConstantsOK, Sender
  <1>6. ASSUME NEW c \in Customers
        PROVE  /\ c = Sender(t) => Outgoing(Unrefused(c)') <= Outgoing(Unrefused(c)) + Amount(t)
               /\ c # Sender(t) => Outgoing(Unrefused(c)') <= Outgoing(Unrefused(c))
               /\ Outgoing(Unrefused(c)') \in Nat /\ Outgoing(Unrefused(c)) \in Nat
    <2>1. Unrefused(c)' \in SUBSET Confirmations /\ Unrefused(c) \in SUBSET Confirmations
      BY <1>4
    <2>2. Outgoing(Unrefused(c)') <= Outgoing(Unrefused(c)) + Amount(t)
      BY <1>4, OutgoingAdds
    <2>3. c # Sender(t) => Outgoing(Unrefused(c)') <= Outgoing(Unrefused(c))
      BY <1>4, <2>1, OutgoingGrows
    <2>4. Outgoing(Unrefused(c)') \in Nat /\ Outgoing(Unrefused(c)) \in Nat
      BY <2>1, OutgoingGrows
    <2>5. QED
      BY <2>2, <2>3, <2>4
  <1>7. DailyLimitHolds'
    <2> SUFFICES ASSUME NEW c \in Customers
                 PROVE  Outgoing(Unrefused(c)') <= DailyOutgoingLimit
      BY DEF DailyLimitHolds, Outgoing
    <2>1. Outgoing(Unrefused(Sender(t))) + Amount(t) <= DailyOutgoingLimit
      BY <1>1 DEF RoomKept
    <2>2. Outgoing(Unrefused(c)) <= DailyOutgoingLimit /\ Amount(t) \in Nat
      BY DEF DailyLimitHolds, ConstantsOK, Amount
    <2>3. CASE c = Sender(t)
      BY <1>5, <1>6, <2>1, <2>2, <2>3 DEF ConstantsOK
    <2>4. CASE c # Sender(t)
      BY <1>6, <2>2, <2>4 DEF ConstantsOK
    <2>5. QED
      BY <2>3, <2>4
  <1>8. OneHolder'
    BY <1>1 DEF OneHolder, Sender, TypeOK
  <1>9. RoomKept'
    <2> SUFFICES ASSUME NEW u \in Confirmations, pc'[u] = "holding"
                 PROVE  Outgoing(Unrefused(Sender(u))') + Amount(u)
                            <= DailyOutgoingLimit
      BY DEF RoomKept, Outgoing, Amount, Sender
    <2>1. u # t /\ pc[u] = "holding"
      BY <1>1 DEF TypeOK
    <2>2. Sender(u) # Sender(t)
      BY <1>1, <2>1 DEF OneHolder
    <2>3. Sender(u) \in Customers /\ Amount(u) \in Nat
      BY DEF ConstantsOK, Sender, Amount
    <2>4. Outgoing(Unrefused(Sender(u))) + Amount(u) <= DailyOutgoingLimit
      BY <2>1 DEF RoomKept
    <2>5. QED
      BY <1>6, <2>2, <2>3, <2>4 DEF ConstantsOK
  <1>10. QED
    BY <1>3, <1>7, <1>8, <1>9

\* settle and recover write rows that exist, and never clear a refusal.
LEMMA LimitRows ==
    ASSUME ConstantsOK, IInv, LimitInv, NEW t \in Confirmations,
           recover(t) \/ \E n \in Attempts : SettleCompleted(t, n) \/ SettleFailed(t, n)
    PROVE  LimitInv'
  <1> USE DEF LimitInv
  <1>1. UNCHANGED pc
    BY DEF recover, SettleCompleted, SettleFailed, confirmVars
  <1>2. Exists(t)
    <2>1. CASE recover(t)
      BY <2>1 DEF recover
    <2>2. ASSUME NEW n \in Attempts, call[t][n] # "none" PROVE Exists(t)
      BY <2>2 DEF IInv, AttemptsAccounted
    <2>3. QED
      BY <2>1, <2>2 DEF SettleCompleted, SettleFailed
  <1>3. /\ \A u \in Confirmations : u # t => row'[u] = row[u]
        /\ row[t].failure => row'[t].failure
        /\ row'[t].status = "FAILED" => row'[t].failure
    <2>1. CASE recover(t)
      <3>1. CASE Due(t)
        BY <2>1, <3>1 DEF recover, Due, IInv, TypeOK
      <3>2. CASE ~Due(t)
        BY <2>1, <3>2 DEF recover, RefusalMarked
      <3>3. QED
        BY <3>1, <3>2
    <2>2. CASE \E n \in Attempts : SettleCompleted(t, n)
      BY <2>2 DEF SettleCompleted, IInv, TypeOK
    <2>3. CASE \E n \in Attempts : SettleFailed(t, n)
      BY <2>3 DEF SettleFailed, IInv, TypeOK
    <2>4. QED
      BY <2>1, <2>2, <2>3
  <1>4. RefusalMarked'
    BY <1>3 DEF RefusalMarked
  <1>5. \A c \in Customers : Unrefused(c)' \subseteq Unrefused(c)
    BY <1>2, <1>3 DEF Unrefused, Exists, Sender
  <1>6. QED
    BY <1>1, <1>4, <1>5, LimitStays

LEMMA LimitInit == ASSUME ConstantsOK, Init PROVE LimitInv
  <1>1. RefusalMarked /\ OneHolder /\ RoomKept
    BY DEF Init, RefusalMarked, OneHolder, RoomKept
  <1>2. DailyLimitHolds
    <2>1. \A c \in Customers : Unrefused(c) = {}
      BY DEF Init, Unrefused, Exists
    <2>2. Outgoing({}) = 0
      BY SumEmpty DEF Outgoing
    <2>3. QED
      BY <2>1, <2>2 DEF DailyLimitHolds, ConstantsOK
  <1>3. QED
    BY <1>1, <1>2 DEF LimitInv

LEMMA LimitNext ==
    ASSUME ConstantsOK, IInv, LimitInv, [Next]_vars
    PROVE  LimitInv'
  <1> USE DEF ledgerVars, confirmVars
  <1>1. ASSUME UNCHANGED row,
               \A t \in Confirmations : pc'[t] = "holding" => pc[t] = "holding"
        PROVE  LimitInv'
    <2>1. /\ RefusalMarked'
          /\ \A c \in Customers : Unrefused(c)' \subseteq Unrefused(c)
      BY <1>1 DEF LimitInv, RefusalMarked, Unrefused, Exists, Sender
    <2>2. QED
      BY <1>1, <2>1, LimitStays
  <1>2. ASSUME NEW i \in Intents, IntentStep(i) PROVE LimitInv'
    BY <1>1, <1>2 DEF IntentStep, createIntent, authorize, Expire
  <1>3. ASSUME NEW t \in Confirmations,
               ConfirmPreflight(t) \/ ConfirmBegin(t) \/ ConfirmAbort(t)
        PROVE  LimitInv'
    <2>1. \A u \in Confirmations : pc'[u] = "holding" => pc[u] = "holding"
      BY <1>3 DEF ConfirmPreflight, ConfirmBegin, ConfirmAbort, AnswerExisting,
                  Stop, IInv, TypeOK
    <2>2. QED
      BY <1>1, <1>3, <2>1 DEF ConfirmPreflight, ConfirmBegin, ConfirmAbort
  <1>4. ASSUME NEW t \in Confirmations, ConfirmStep(t) PROVE LimitInv'
    BY <1>3, <1>4, LimitCheck, LimitCommit DEF ConfirmStep, IInv
  <1>5. ASSUME NEW t \in Confirmations, NEW n \in Attempts, CallStep(t, n)
        PROVE  LimitInv'
    BY <1>1, <1>5, LimitRows
    DEF CallStep, LedgerPosts, LedgerReplays, LedgerRefuses, Timeout, CallLost,
        paymentsRows
  <1>6. CASE UNCHANGED vars
    BY <1>1, <1>6 DEF vars
  <1>7. QED
    BY <1>2, <1>4, <1>5, <1>6, LimitRows DEF Next

\* Money is only moved: what posting takes from the sender the recipient gets.
LEMMA SettleConserves ==
    ASSUME ConstantsOK, TypeOK, NEW t \in Confirmations, Ledger!Settle(t)
    PROVE  SumFunctionOnSet(balance', Customers) = SumFunctionOnSet(balance, Customers)
  <1> DEFINE s == Sender(t)
             d == RecipientOf[IntentOf[t]]
             n == Amount(t)
             paid == [balance EXCEPT ![s] = @ - n]
  <1>1. /\ s \in Customers /\ d \in Customers /\ s # d /\ n \in Int
        /\ IsFiniteSet(Customers) /\ balance \in [Customers -> Int]
    BY DEF ConstantsOK, Sender, Amount, TypeOK
  <1>2. \A c \in Customers :
            balance'[c] = IF c = s THEN balance[c] - n
                          ELSE IF c = d THEN balance[c] + n ELSE balance[c]
    BY <1>1 DEF Ledger!Settle, Ledger!Applied
  <1> HIDE DEF s, d, n
  <1>3. \A c \in Customers : paid[c] \in Int
    BY <1>1
  <1>4. /\ balance[s] = paid[s] + n
        /\ \A c \in Customers \ {s} : balance[c] = paid[c]
    BY <1>1
  <1>5. /\ balance'[d] = paid[d] + n
        /\ \A c \in Customers \ {d} : balance'[c] = paid[c]
    BY <1>1, <1>2
  <1>6. n \in Int /\ s \in Customers /\ d \in Customers /\ IsFiniteSet(Customers)
    BY <1>1
  <1> HIDE DEF paid
  <1>7. SumFunctionOnSet(balance, Customers) = SumFunctionOnSet(paid, Customers) + n
    BY <1>3, <1>4, <1>6, SumUpdate
  <1>8. SumFunctionOnSet(balance', Customers) = SumFunctionOnSet(paid, Customers) + n
    BY <1>3, <1>5, <1>6, SumUpdate
  <1>9. QED
    BY <1>7, <1>8

SumKept ==
    SumFunctionOnSet(balance, Customers) = SumFunctionOnSet(OpeningBalance, Customers)

LEMMA SumNext ==
    ASSUME ConstantsOK, IInv, SumKept, [Next]_vars
    PROVE  SumKept'
  <1> USE DEF SumKept
  <1>1. ASSUME NEW t \in Confirmations, Ledger!Settle(t) PROVE SumKept'
    BY <1>1, SettleConserves DEF IInv
  <1>2. CASE UNCHANGED balance
    BY <1>2
  <1>3. \/ UNCHANGED balance
        \/ \E t \in Confirmations : Ledger!Settle(t)
    BY DEF Next, IntentStep, createIntent, authorize, Expire, ConfirmStep,
           ConfirmPreflight, ConfirmBegin, ConfirmCheck, ConfirmCommit,
           ConfirmAbort, recover, CallStep, LedgerPosts, LedgerReplays,
           LedgerRefuses, Timeout, CallLost, SettleCompleted, SettleFailed,
           ledgerVars, vars
  <1>4. QED
    BY <1>1, <1>2, <1>3

\* However confirmations overlap and calls repeat, for any number of
\* customers: no wallet is overdrawn, no money appears or is lost, and the
\* rows of a sender that were never refused stay within the daily limit.
THEOREM TransferTotalsKept == ASSUME ConstantsOK PROVE Spec => []TotalsKept
  <1>1. Init => LimitInv /\ SumKept
    BY LimitInit DEF Init, Ledger!ServiceInit, SumKept
  <1>2. IInv /\ LimitInv /\ SumKept /\ [Next]_vars => LimitInv' /\ SumKept'
    BY LimitNext, SumNext
  <1>3. IInv /\ LimitInv /\ SumKept => TotalsKept
    BY DEF IInv, Solvent, LimitInv, SumKept, TotalsKept, MoneyConserved
  <1>4. QED
    BY SagaInv, <1>1, <1>2, <1>3, PTL DEF Spec

-----------------------------------------------------------------------------
\* No step of confirm, settle or recover takes a row with a verdict back to
\* PROCESSING, and recover escalates only rows without one.
THEOREM TransferNeverReopened ==
    ASSUME ConstantsOK PROVE Spec => NeverReopened
  <1>1. ASSUME IInv, [Next]_vars PROVE [VerdictStep]_vars
    <2> USE DEF ledgerVars, confirmVars
    <2>1. ASSUME NEW i \in Intents, IntentStep(i) PROVE VerdictStep
      BY <2>1 DEF IntentStep, createIntent, authorize, Expire, VerdictStep
    <2>2. ASSUME NEW t \in Confirmations,
                 \/ ConfirmPreflight(t) \/ ConfirmBegin(t)
                 \/ ConfirmCheck(t) \/ ConfirmAbort(t)
          PROVE  VerdictStep
      BY <2>2 DEF ConfirmPreflight, ConfirmBegin, ConfirmCheck, ConfirmAbort,
                  VerdictStep
    <2>3. ASSUME NEW t \in Confirmations, ConfirmCommit(t) PROVE VerdictStep
      BY <1>1, <2>3 DEF ConfirmCommit, UniqueViolation, Exists, VerdictStep,
                        IInv, TypeOK
    <2>4. ASSUME NEW t \in Confirmations, recover(t) PROVE VerdictStep
      <3>1. CASE Due(t)
        BY <1>1, <2>4, <3>1 DEF recover, Due, VerdictStep, IInv, TypeOK
      <3>2. CASE ~Due(t)
        BY <2>4, <3>2 DEF recover, VerdictStep
      <3>3. QED
        BY <3>1, <3>2
    <2>5. ASSUME NEW t \in Confirmations, NEW n \in Attempts, CallStep(t, n)
          PROVE  VerdictStep
      <3>1. CASE SettleCompleted(t, n) \/ SettleFailed(t, n)
        <4>1. \A u \in Confirmations :
                  \/ row'[u].status = row[u].status
                  \/ row'[u].status \in {"COMPLETED", "FAILED"}
          <5>1. CASE SettleCompleted(t, n)
            BY <1>1, <5>1 DEF SettleCompleted, IInv, TypeOK
          <5>2. CASE SettleFailed(t, n)
            BY <1>1, <5>2 DEF SettleFailed, IInv, TypeOK
          <5>3. QED
            BY <3>1, <5>1, <5>2
        <4>2. QED
          BY <4>1 DEF VerdictStep
      <3>2. CASE UNCHANGED row
        BY <3>2 DEF VerdictStep
      <3>3. QED
        BY <2>5, <3>1, <3>2 DEF CallStep, LedgerPosts, LedgerReplays,
               LedgerRefuses, Timeout, CallLost, paymentsRows
    <2>6. CASE UNCHANGED vars
      BY <2>6
    <2>7. QED
      BY <1>1, <2>1, <2>2, <2>3, <2>4, <2>5, <2>6 DEF Next, ConfirmStep
  <1>2. QED
    BY SagaInv, <1>1, PTL DEF Spec, NeverReopened
============================================================================
