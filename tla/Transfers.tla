----------------------------- MODULE Transfers ------------------------------
(***************************************************************************)
(* The Payments transfer saga: createIntent, authorize, confirm, settle    *)
(* and recover of TransfersService, calling the Ledger through             *)
(* LedgerClient over a network that delays and loses.                      *)
(*                                                                         *)
(* A confirmation is one HTTP request to confirm; the transfer row it may  *)
(* create carries its name.  Settle call n of a row is the call made at    *)
(* attemptCount n: 0 by confirm, the rest by recover.  Times of day are    *)
(* abstracted: an intent may expire and a PROCESSING row may become due    *)
(* for recovery at any moment (recover claims up to 20 rows under one      *)
(* lease and settles them in turn, so a lease can lapse while its call is  *)
(* still to be made).  Everything happens on one calendar day.             *)
(***************************************************************************)
EXTENDS Integers, FiniteSets, Functions

CONSTANTS
    Customers,               \* each with one wallet
    Intents,
    SenderOf, RecipientOf,   \* of an intent
    AmountOf,                \* of an intent, in minor units
    Confirmations,           \* confirm requests, and the rows they create
    IntentOf,                \* intent a confirmation names
    ClientKeyOf,             \* idempotency key a confirmation carries
    OpeningBalance,
    MinTransfer, MaxTransfer, DailyOutgoingLimit,   \* policy, in minor units
    MaxProcessingAttempts,
    NoRow                    \* null for rows

Sender(t) == SenderOf[IntentOf[t]]
Amount(t) == AmountOf[IntentOf[t]]
Attempts == 0 .. MaxProcessingAttempts - 1

ConstantsOK ==
    /\ IsFiniteSet(Customers) /\ IsFiniteSet(Confirmations)
    /\ SenderOf \in [Intents -> Customers]
    /\ RecipientOf \in [Intents -> Customers]
    /\ \A i \in Intents : SenderOf[i] # RecipientOf[i]
    /\ AmountOf \in [Intents -> Nat \ {0}]
    /\ IntentOf \in [Confirmations -> Intents]
    /\ OpeningBalance \in [Customers -> Nat]
    /\ MinTransfer \in Nat
    /\ MaxTransfer \in Nat
    /\ DailyOutgoingLimit \in Nat
    /\ MaxProcessingAttempts \in Nat \ {0}
    /\ NoRow \notin Confirmations

-----------------------------------------------------------------------------
VARIABLES
    balance, settled,   \* the Ledger: wallet balances, journal of each key
    intent,             \* intent rows
    row,                \* transfer rows
    pc,                 \* where each confirmation is
    sawConsumed,        \* consumedAt as its transaction read it
    answer,             \* row each confirmation was answered with
    call,               \* settle calls
    passes              \* recovery runs that came upon the row in PROCESSING

vars == <<balance, settled, intent, row, pc, sawConsumed, answer, call, passes>>
ledgerVars == <<balance, settled>>
confirmVars == <<pc, sawConsumed, answer>>

\* The Ledger, seen through its promise: the key of a row is its own.
Ledger ==
    INSTANCE LedgerService WITH
        Accounts      <- Customers,
        AllowNegative <- {},
        Requests      <- Confirmations,
        Keys          <- Confirmations,
        KeyOf         <- [t \in Confirmations |-> t],
        Effect        <- [t \in Confirmations |-> [c \in Customers |->
                             CASE c = Sender(t) -> 0 - Amount(t)
                               [] c = RecipientOf[IntentOf[t]] -> Amount(t)
                               [] OTHER -> 0]],
        Opening       <- OpeningBalance,
        NoRequest     <- NoRow

Statuses == {"NONE", "PROCESSING", "COMPLETED", "FAILED", "REQUIRES_REVIEW"}
CallStates == {"none", "sent", "abandoned", "posted", "refused", "over"}

TypeOK ==
    /\ balance \in [Customers -> Int]
    /\ settled \in [Confirmations -> Confirmations \cup {NoRow}]
    /\ intent \in [Intents -> [known : BOOLEAN, authorized : BOOLEAN,
                               consumed : BOOLEAN, expired : BOOLEAN]]
    /\ row \in [Confirmations -> [status : Statuses, journal : BOOLEAN,
                                  failure : BOOLEAN,
                                  attempts : 0 .. MaxProcessingAttempts]]
    /\ pc \in [Confirmations -> {"idle", "enforced", "begun", "holding",
                                 "done"}]
    /\ sawConsumed \in [Confirmations -> BOOLEAN]
    /\ answer \in [Confirmations -> Confirmations \cup {NoRow}]
    /\ call \in [Confirmations -> [Attempts -> CallStates]]
    /\ passes \in [Confirmations -> Nat]

Init ==
    /\ Ledger!ServiceInit
    /\ intent = [i \in Intents |-> [known |-> FALSE, authorized |-> FALSE,
                                    consumed |-> FALSE, expired |-> FALSE]]
    /\ row = [t \in Confirmations |-> [status |-> "NONE", journal |-> FALSE,
                                       failure |-> FALSE, attempts |-> 0]]
    /\ pc = [t \in Confirmations |-> "idle"]
    /\ sawConsumed = [t \in Confirmations |-> FALSE]
    /\ answer = [t \in Confirmations |-> NoRow]
    /\ call = [t \in Confirmations |-> [n \in Attempts |-> "none"]]
    /\ passes = [t \in Confirmations |-> 0]

-----------------------------------------------------------------------------
(* Intents *)

\* assertAmount, and a Ledger preview that found both wallets.
createIntent(i) ==
    /\ ~intent[i].known
    /\ AmountOf[i] \in MinTransfer .. MaxTransfer
    /\ intent' = [intent EXCEPT ![i].known = TRUE]
    /\ UNCHANGED <<ledgerVars, row, confirmVars, call, passes>>

\* A consumed or expired intent is refused (or answered without a write).
authorize(i) ==
    /\ intent[i].known
    /\ ~intent[i].consumed
    /\ ~intent[i].expired
    /\ intent' = [intent EXCEPT ![i].authorized = TRUE]
    /\ UNCHANGED <<ledgerVars, row, confirmVars, call, passes>>

\* The clock passes expiresAt.
Expire(i) ==
    /\ intent[i].known
    /\ ~intent[i].expired
    /\ intent' = [intent EXCEPT ![i].expired = TRUE]
    /\ UNCHANGED <<ledgerVars, row, confirmVars, call, passes>>

-----------------------------------------------------------------------------
(* confirm *)

Exists(t) == row[t].status # "NONE"

\* The row that (sender, client key) names, if any.
Keyed(t) ==
    {u \in Confirmations : /\ Exists(u)
                           /\ Sender(u) = Sender(t)
                           /\ ClientKeyOf[u] = ClientKeyOf[t]}

\* An existing row is returned when it was made for the same intent (the
\* request hash); otherwise IDEMPOTENCY_CONFLICT, which names no row (the
\* mutant does not compare).
AnswerAny(t) ==
    \E u \in Keyed(t) : /\ pc' = [pc EXCEPT ![t] = "done"]
                        /\ answer' = [answer EXCEPT ![t] = u]
AnswerExisting(t) ==
    \E u \in Keyed(t) :
        /\ pc' = [pc EXCEPT ![t] = "done"]
        /\ answer' = [answer EXCEPT ![t] =
                          IF IntentOf[u] = IntentOf[t] THEN u ELSE NoRow]

Stop(t) ==
    /\ pc' = [pc EXCEPT ![t] = "done"]
    /\ UNCHANGED answer

\* The reads before the transaction, then risk.enforce, which may refuse.
ConfirmPreflight(t) ==
    /\ pc[t] = "idle"
    /\ intent[IntentOf[t]].authorized
    /\ \/ AnswerExisting(t)
       \/ /\ Keyed(t) = {}
          /\ \/ Stop(t)
             \/ pc' = [pc EXCEPT ![t] = "enforced"] /\ UNCHANGED answer
    /\ UNCHANGED <<ledgerVars, intent, row, sawConsumed, call, passes>>

\* The transaction reads the intent before it waits for the advisory lock.
ConfirmBegin(t) ==
    /\ pc[t] = "enforced"
    /\ pc' = [pc EXCEPT ![t] = "begun"]
    /\ sawConsumed' = [sawConsumed EXCEPT ![t] = intent[IntentOf[t]].consumed]
    /\ UNCHANGED <<ledgerVars, intent, row, answer, call, passes>>

\* pg_advisory_xact_lock(sender, day) is free (no lock in the mutant).
NoLock(t) == TRUE
LockFree(t) ==
    \A u \in Confirmations : pc[u] = "holding" => Sender(u) # Sender(t)

\* Today's outgoing amount that still counts against the sender's limit.
Outgoing(rows) == SumFunctionOnSet([t \in Confirmations |-> Amount(t)], rows)
Counting(c) ==
    {t \in Confirmations :
         /\ Sender(t) = c
         /\ row[t].status \in {"PROCESSING", "COMPLETED", "REQUIRES_REVIEW"}}
Reserved(c) == Outgoing(Counting(c))

\* Under the lock: replay, INTENT_EXPIRED, LIMIT_EXCEEDED, or go on to write.
ConfirmCheck(t) ==
    LET stale == \/ sawConsumed[t]
                 \/ intent[IntentOf[t]].expired
                 \/ ~intent[IntentOf[t]].authorized
        over == Reserved(Sender(t)) + Amount(t) > DailyOutgoingLimit
    IN  /\ pc[t] = "begun"
        /\ LockFree(t)
        /\ \/ AnswerExisting(t)
           \/ Keyed(t) = {} /\ (stale \/ over) /\ Stop(t)
           \/ /\ Keyed(t) = {} /\ ~stale /\ ~over
              /\ pc' = [pc EXCEPT ![t] = "holding"]
              /\ UNCHANGED answer
        /\ UNCHANGED <<ledgerVars, intent, row, sawConsumed, call, passes>>

\* The unique indexes on intent_id (missing in the mutant) and on
\* (sender, client key).
KeyIndexOnly(t) == Keyed(t) # {}
UniqueViolation(t) ==
    \/ Keyed(t) # {}
    \/ \E u \in Confirmations : Exists(u) /\ IntentOf[u] = IntentOf[t]

\* COMMIT: the row appears, its intent is consumed and settle begins.
ConfirmCommit(t) ==
    /\ pc[t] = "holding"
    /\ ~UniqueViolation(t)
    /\ row' = [row EXCEPT ![t].status = "PROCESSING"]
    /\ intent' = [intent EXCEPT ![IntentOf[t]].consumed = TRUE]
    /\ pc' = [pc EXCEPT ![t] = "done"]
    /\ answer' = [answer EXCEPT ![t] = t]
    /\ call' = [call EXCEPT ![t][0] = "sent"]
    /\ UNCHANGED <<ledgerVars, sawConsumed, passes>>

\* A unique index, a crash or a lost connection: ROLLBACK (the mutant consumed
\* the intent outside the transaction).
AbortLeavesConsumed(t) ==
    /\ pc[t] \in {"enforced", "begun", "holding"}
    /\ Stop(t)
    /\ intent' = [intent EXCEPT ![IntentOf[t]].consumed = TRUE]
    /\ UNCHANGED <<ledgerVars, row, sawConsumed, call, passes>>
ConfirmAbort(t) ==
    /\ pc[t] \in {"enforced", "begun", "holding"}
    /\ Stop(t)
    /\ UNCHANGED <<ledgerVars, intent, row, sawConsumed, call, passes>>

-----------------------------------------------------------------------------
(* settle, and the Ledger's side of the call *)

AtLedger(t, n) == call[t][n] \in {"sent", "abandoned"}

\* The reply reaches a client that still waits, or nobody.
Answered(t, n, what) ==
    call' = [call EXCEPT ![t][n] = IF @ = "sent" THEN what ELSE "over"]

paymentsRows == <<intent, row, confirmVars, passes>>

LedgerPosts(t, n) ==
    /\ AtLedger(t, n)
    /\ Ledger!Settle(t)
    /\ Answered(t, n, "posted")
    /\ UNCHANGED paymentsRows

\* A key that has settled answers with its journal (the mutant posts again).
LedgerRepeats(t, n) ==
    /\ AtLedger(t, n)
    /\ settled[t] = t
    /\ balance' = Ledger!Applied(t)
    /\ Answered(t, n, "posted")
    /\ UNCHANGED <<settled, paymentsRows>>
LedgerReplays(t, n) ==
    /\ AtLedger(t, n)
    /\ settled[t] = t
    /\ Answered(t, n, "posted")
    /\ UNCHANGED <<ledgerVars, paymentsRows>>

\* CustomerTransferService.transfer compares the balance before it looks for
\* the stored journal, so a retry of a posted transfer can be refused too.
LedgerRefuses(t, n) ==
    /\ AtLedger(t, n)
    /\ balance[Sender(t)] < Amount(t)
    /\ Answered(t, n, "refused")
    /\ UNCHANGED <<ledgerVars, paymentsRows>>

\* The fetch is aborted by its timer: the Ledger may still run the request.
Timeout(t, n) ==
    /\ call[t][n] = "sent"
    /\ call' = [call EXCEPT ![t][n] = "abandoned"]
    /\ UNCHANGED <<ledgerVars, paymentsRows>>

\* A request or a reply is lost, either process dies, or the Ledger answers
\* 5xx: settle returns the row as it was.
CallLost(t, n) ==
    /\ call[t][n] \in {"sent", "abandoned", "posted", "refused"}
    /\ call' = [call EXCEPT ![t][n] = "over"]
    /\ UNCHANGED <<ledgerVars, paymentsRows>>

\* Both updates are unconditional, and COMPLETED keeps any failureCode (the
\* mutant takes a timeout for success).
SettleOptimistic(t, n) ==
    /\ call[t][n] \in {"posted", "abandoned"}
    /\ row' = [row EXCEPT ![t].status = "COMPLETED", ![t].journal = TRUE]
    /\ call' = [call EXCEPT ![t][n] = "over"]
    /\ UNCHANGED <<ledgerVars, intent, confirmVars, passes>>
SettleCompleted(t, n) ==
    /\ call[t][n] = "posted"
    /\ row' = [row EXCEPT ![t].status = "COMPLETED", ![t].journal = TRUE]
    /\ call' = [call EXCEPT ![t][n] = "over"]
    /\ UNCHANGED <<ledgerVars, intent, confirmVars, passes>>

SettleFailed(t, n) ==
    /\ call[t][n] = "refused"
    /\ row' = [row EXCEPT ![t].status = "FAILED", ![t].failure = TRUE]
    /\ call' = [call EXCEPT ![t][n] = "over"]
    /\ UNCHANGED <<ledgerVars, intent, confirmVars, passes>>

-----------------------------------------------------------------------------
(* recover *)

\* The rows the claim selects; its mutants take any row, and only rows with
\* attempts left.
DueAny(t) == Exists(t) /\ row[t].attempts < MaxProcessingAttempts
DueRetryable(t) ==
    row[t].status = "PROCESSING" /\ row[t].attempts + 1 < MaxProcessingAttempts
Due(t) == row[t].status = "PROCESSING"

\* The attempt at which a row is escalated, and its neighbours.
ExhaustedLate(n) == n > MaxProcessingAttempts
ExhaustedEarly(n) == n >= MaxProcessingAttempts - 1
Exhausted(n) == n >= MaxProcessingAttempts

\* One run of recovery over a row that is stale, unlocked and among the first
\* twenty.  Claimed under FOR UPDATE SKIP LOCKED, it is escalated at the last
\* attempt and settled again before it.  A run is a single call (recover.mjs
\* or POST recovery/run): nothing in the repository repeats it.
recover(t) ==
    LET next == row[t].attempts + 1
    IN  /\ Exists(t)
        /\ passes' = IF row[t].status = "PROCESSING"
                     THEN [passes EXCEPT ![t] = @ + 1]
                     ELSE passes
        /\ \/ ~Due(t) /\ UNCHANGED <<row, call>>
           \/ /\ Due(t) /\ Exhausted(next)
              /\ row' = [row EXCEPT ![t].status = "REQUIRES_REVIEW",
                                    ![t].attempts = next]
              /\ UNCHANGED call
           \/ /\ Due(t) /\ ~Exhausted(next)
              /\ row' = [row EXCEPT ![t].attempts = next]
              /\ call' = [call EXCEPT ![t][next] = "sent"]
        /\ UNCHANGED <<ledgerVars, intent, confirmVars>>

-----------------------------------------------------------------------------
IntentStep(i) == createIntent(i) \/ authorize(i) \/ Expire(i)

ConfirmStep(t) ==
    \/ ConfirmPreflight(t)
    \/ ConfirmBegin(t)
    \/ ConfirmCheck(t)
    \/ ConfirmCommit(t)
    \/ ConfirmAbort(t)

CallStep(t, n) ==
    \/ LedgerPosts(t, n)
    \/ LedgerReplays(t, n)
    \/ LedgerRefuses(t, n)
    \/ Timeout(t, n)
    \/ CallLost(t, n)
    \/ SettleCompleted(t, n)
    \/ SettleFailed(t, n)

Next ==
    \/ \E i \in Intents : IntentStep(i)
    \/ \E t \in Confirmations :
           \/ ConfirmStep(t)
           \/ recover(t)
           \/ \E n \in Attempts : CallStep(t, n)

Spec == Init /\ [][Next]_vars

-----------------------------------------------------------------------------
Posted(t) == settled[t] = t

\* Whatever confirm requests, retries and late calls do, an intent moves money
\* at most once and by at most one row, although each transaction reads
\* consumedAt before it waits for the lock.
IntentSpentOnce ==
    \A t, u \in Confirmations :
        /\ IntentOf[t] = IntentOf[u]
        /\ Exists(t) \/ Posted(t)
        /\ Exists(u) \/ Posted(u)
        => t = u

\* COMPLETED is never claimed without a journal: the Ledger really holds one
\* under the row's key (COMPLETED_TRANSFER_LEDGER_DATA_MISSING).
CompletedIsPosted ==
    \A t \in Confirmations :
        row[t].status = "COMPLETED" => row[t].journal /\ Posted(t)

\* Money moves only for a row that consumed an authorized intent, and a
\* consumed intent has its row (CONSUMED_INTENT_WITHOUT_TRANSFER).
MoneyHasProvenance ==
    /\ \A t \in Confirmations :
           Posted(t) => Exists(t) /\ intent[IntentOf[t]].authorized
    /\ \A i \in Intents :
           intent[i].consumed =>
               \E t \in Confirmations : IntentOf[t] = i /\ Exists(t)

\* A retried confirmation is answered with the row its key created for the
\* same intent, and no two callers with one key see different rows.
ReplayIsConsistent ==
    \A t, u \in Confirmations :
        /\ answer[t] # NoRow => /\ Exists(answer[t])
                               /\ IntentOf[answer[t]] = IntentOf[t]
                               /\ ClientKeyOf[answer[t]] = ClientKeyOf[t]
        /\ /\ answer[t] # NoRow /\ answer[u] # NoRow
           /\ Sender(t) = Sender(u) /\ ClientKeyOf[t] = ClientKeyOf[u]
           => answer[t] = answer[u]

\* The rows of a sender that the Ledger never refused.
Unrefused(c) ==
    {t \in Confirmations : Exists(t) /\ Sender(t) = c /\ ~row[t].failure}

\* Concurrent confirmations cannot slip past the daily limit together: rows
\* that were never refused add up to at most the limit.
DailyLimitHolds ==
    \A c \in Customers : Outgoing(Unrefused(c)) <= DailyOutgoingLimit

\* No wallet is overdrawn and no money appears, however often calls repeat.
MoneyConserved ==
    /\ \A c \in Customers : balance[c] >= 0
    /\ SumFunctionOnSet(balance, Customers)
           = SumFunctionOnSet(OpeningBalance, Customers)

\* Review is only for rows that used up their attempts, and an attempt the
\* row has not reached was never sent (maxProcessingAttempts).
AttemptsAccounted ==
    \A t \in Confirmations :
        /\ row[t].status = "REQUIRES_REVIEW" =>
               row[t].attempts = MaxProcessingAttempts
        /\ \A n \in Attempts :
               call[t][n] # "none" <=> Exists(t) /\ n <= row[t].attempts

\* Rows, intents, answers, calls and the Ledger agree on every transfer, at
\* any step of confirm, settle and recover.
MoneyTraced ==
    /\ TypeOK
    /\ CompletedIsPosted
    /\ MoneyHasProvenance
    /\ ReplayIsConsistent
    /\ AttemptsAccounted

\* The totals survive overlapping confirmations and repeated calls: balances
\* add up, stay non-negative, and the day's outgoing sum keeps its limit.
TotalsKept == MoneyConserved /\ DailyLimitHolds

\* A row that reached a verdict is never taken back into processing, and
\* recovery never escalates a row that already has one.
VerdictStep ==
    \A t \in Confirmations :
        row[t].status \in {"COMPLETED", "FAILED", "REQUIRES_REVIEW"} =>
            /\ row'[t].status # "PROCESSING"
            /\ row'[t].status = "REQUIRES_REVIEW" =>
                   row[t].status = "REQUIRES_REVIEW"
NeverReopened == [][VerdictStep]_vars

\* Bounded recovery, although nothing schedules it: however many calls are
\* lost, abandoned or answered late, a row still PROCESSING was met by fewer
\* recovery runs than the attempt limit, so that many runs always decide it or
\* hand it to review; and the Ledger was asked again only by such a run.
RecoveryBounded ==
    \A t \in Confirmations :
        /\ row[t].status = "PROCESSING" => passes[t] < MaxProcessingAttempts
        /\ \A n \in Attempts : call[t][n] # "none" => n <= passes[t]

\* What the docs promise of a lost response: its retry returns the original
\* journal, so a posted transfer is never recorded as FAILED.
FailedIsUnposted ==
    \A t \in Confirmations : row[t].status = "FAILED" => ~Posted(t)

\* What the documents promise of verdicts: recovery preserves FAILED, and
\* REQUIRES_REVIEW is a terminal queue state.
VerdictsPreserved ==
    [][\A t \in Confirmations :
           row[t].status \in {"FAILED", "REQUIRES_REVIEW"} =>
               row'[t].status = row[t].status]_vars
============================================================================
