--------------------------- MODULE ChannelsProofs ---------------------------
(***************************************************************************)
(* Proofs about the channels for every value of the constants, component   *)
(* by component and then for the composed specification.                   *)
(*                                                                         *)
(* QR payments: what makes the books traceable is who wrote what.  A       *)
(* redemption row's status was written by a confirmation of its scan whose *)
(* Ledger call returned accordingly (Settled), its key by one that went on *)
(* to settle (KeyOwned), and the unique index leaves a payer one row per   *)
(* key (KeyAlone).                                                         *)
(*                                                                         *)
(* Reconciliations: faults only shrink while the run goes on, every        *)
(* standing fault asked about is reported (AskedIsReported), each script's *)
(* PASS keeps its meaning (PassMeans), and an add() leaves half of the     *)
(* room, so that six of them leave no code out.                            *)
(*                                                                         *)
(* Forms: a record was made by a request and is what that request was told *)
(* (MadeByCall), one opening has one key (OneKeyPerMount), and what nobody *)
(* waits for or gave up on was told (StandingIsKnown, AnnouncedIsTold).    *)
(*                                                                         *)
(* Sign-in screens: a request belongs to the flow on screen (KindsOfFlow), *)
(* access was granted with a cookie (GrantedByCookie), a code is asked for *)
(* with phone and PIN at hand (AsksWithPin).                               *)
(*                                                                         *)
(* Wallets: a key and a customer are reserved by one transaction at a time *)
(* (WalletKeyAlone, WalletLockAlone).                                      *)
(*                                                                         *)
(* Ledger channels: every settlement moves its amount between two          *)
(* different accounts, so wallets minus float stay (ChannelInv).           *)
(*                                                                         *)
(* Agent cash: a status was written by a confirmation whose call returned  *)
(* accordingly (CashWho); without overlap one operation is open, and the   *)
(* day it counts on has room for it (CashRoom).                            *)
(***************************************************************************)
EXTENDS Channels, Sums

\* The confirmation has written its key into the row.
Wrote(c) == pc[c] = "settling" \/ reply[c] # "none"

OneRowPerCode ==
    \A s, t \in Scans : /\ CodeOf[s] = CodeOf[t]
                        /\ rows[s].status # "none" /\ rows[t].status # "none"
                        => s = t

\* A row is whole, and is there before a confirmation works on it and before
\* the Ledger posts it.
RowFirst ==
    /\ \A s \in Scans : rows[s].status = "none" <=> rows[s].key = "none"
    /\ \A c \in Confirms : pc[c] \notin {"idle", "done"} \/ reply[c] # "none"
                              => rows[ScanOf[c]].status # "none"
    /\ \A s \in posted : rows[s].status # "none"

\* The place of a confirmation says what its Ledger call returned.
Places ==
    \A c \in Confirms :
      /\ pc[c] \in {"idle", "found", "settling"} => reply[c] = "none"
      /\ pc[c] \in {"posted", "marked", "redeemed"} => reply[c] = "posted"
      /\ pc[c] \in {"rejected", "failed"} => reply[c] = "rejected"
      /\ pc[c] # "done" => answer[c] = "none"
      /\ reply[c] = "posted" => ScanOf[c] \in posted

Settled ==
    /\ \A s \in Scans :
         /\ rows[s].status = "COMPLETED" =>
               \E e \in Confirms : ScanOf[e] = s /\ reply[e] = "posted"
         /\ rows[s].status = "FAILED" =>
               \E e \in Confirms : ScanOf[e] = s /\ reply[e] = "rejected"
         /\ s \in posted =>
               \E e \in Confirms : ScanOf[e] = s /\ reply[e] \in {"posted", "unknown"}
    /\ \A c \in Confirms :
         /\ answer[c] = "COMPLETED" =>
               \E e \in Confirms : ScanOf[e] = ScanOf[c] /\ reply[e] = "posted"
         /\ /\ reply[c] = "posted"
            /\ pc[c] \in {"marked", "redeemed"} \/ answer[c] = "COMPLETED"
            => rows[ScanOf[c]].status \in {"COMPLETED", "FAILED"}

KeyOwned ==
    \A c \in Confirms : Wrote(c) =>
      \E e \in Confirms : /\ ScanOf[e] = ScanOf[c] /\ Wrote(e)
                          /\ rows[ScanOf[c]].key = KeyOf[e]

KeyAlone ==
    \A s, t \in Scans : /\ PayerOf[s] = PayerOf[t] /\ rows[s].key = rows[t].key
                        /\ rows[s].key \notin {"none", TempKey}
                        => s = t

RedeemedFirst ==
    \A c \in Confirms : pc[c] = "redeemed" => codes[CodeOf[ScanOf[c]]] = "REDEEMED"

IInv ==
    /\ TypeOK
    /\ OneRowPerCode
    /\ RowFirst
    /\ Places
    /\ Settled
    /\ KeyOwned
    /\ KeyAlone
    /\ RedeemedFirst
    /\ CodeFollowsMoney

-----------------------------------------------------------------------------
LEMMA InitInv == ASSUME ConstantsOK, Init PROVE IInv
  <1> USE DEF Init, NoRow
  <1>1. TypeOK
    BY DEF TypeOK, Statuses, Keys
  <1>2. OneRowPerCode /\ RowFirst /\ Places
    BY DEF OneRowPerCode, RowFirst, Places, ConstantsOK
  <1>3. Settled /\ KeyOwned /\ KeyAlone
    BY DEF Settled, KeyOwned, KeyAlone, Wrote, ConstantsOK
  <1>4. RedeemedFirst /\ CodeFollowsMoney
    BY DEF RedeemedFirst, CodeFollowsMoney, ConstantsOK
  <1>5. QED
    BY <1>1, <1>2, <1>3, <1>4 DEF IInv

\* Issuing a code, the clock and a preview's checks touch no row, no
\* confirmation and no paid code.
LEMMA QuietInv ==
    ASSUME ConstantsOK, IInv,
           \/ \E q \in Codes : issue(q) \/ Expire(q)
           \/ \E s \in Scans : Preview(s)
    PROVE  IInv'
  <1> USE DEF IInv
  <1>1. UNCHANGED <<rows, posted, pc, reply, answer>>
    BY DEF issue, Expire, Preview
  <1>2. TypeOK'
    BY DEF TypeOK, issue, Expire, Preview
  <1>3. OneRowPerCode' /\ RowFirst' /\ Places'
    BY <1>1 DEF OneRowPerCode, RowFirst, Places
  <1>4. Settled' /\ KeyOwned' /\ KeyAlone'
    BY <1>1 DEF Settled, KeyOwned, KeyAlone, Wrote
  <1>5. /\ \A q \in Codes : codes[q] = "REDEEMED" <=> codes'[q] = "REDEEMED"
        /\ \A q \in Codes : "COMPLETED" \in events'[q] <=> "COMPLETED" \in events[q]
    BY DEF TypeOK, issue, Expire, Preview
  <1>6. RedeemedFirst' /\ CodeFollowsMoney'
    BY <1>1, <1>5 DEF RedeemedFirst, CodeFollowsMoney, ConstantsOK
  <1>7. QED
    BY <1>2, <1>3, <1>4, <1>6

\* The insert gives a code its one row.
LEMMA InsertInv ==
    ASSUME ConstantsOK, IInv, NEW s \in Scans, InsertRedemption(s)
    PROVE  IInv'
  <1> USE DEF IInv
  <1>1. UNCHANGED <<codes, posted, pc, reply, answer>>
    BY DEF InsertRedemption
  <1>2. TypeOK' /\ \A q \in Codes : "COMPLETED" \in events'[q] <=> "COMPLETED" \in events[q]
    <2>1. CodeOf[s] \in Codes
      BY DEF ConstantsOK
    <2>2. [status |-> "PROCESSING", key |-> TempKey] \in [status : Statuses, key : Keys]
      BY DEF Statuses, Keys
    <2>3. CASE CodeFree(s)
      <3>1. /\ scans' = [scans EXCEPT ![s] = "previewed"]
            /\ rows' = [rows EXCEPT ![s] = [status |-> "PROCESSING", key |-> TempKey]]
            /\ events' = [events EXCEPT ![CodeOf[s]] = @ \cup {"QR_SCANNED"}]
            /\ UNCHANGED <<codes, expired, posted, pc, reply, answer>>
        BY <2>3 DEF InsertRedemption
      <3>2. rows' \in [Scans -> [status : Statuses, key : Keys]]
        BY <2>2, <3>1 DEF TypeOK
      <3>3. QED
        BY <2>1, <3>1, <3>2 DEF TypeOK
    <2>4. CASE ~CodeFree(s)
      BY <2>4 DEF InsertRedemption, TypeOK
    <2>5. QED
      BY <2>3, <2>4
  <1>4. RedeemedFirst' /\ CodeFollowsMoney'
    BY <1>1, <1>2 DEF RedeemedFirst, CodeFollowsMoney
  <1>5. CASE UNCHANGED rows
    <2>1. OneRowPerCode' /\ RowFirst' /\ Places'
      BY <1>1, <1>5 DEF OneRowPerCode, RowFirst, Places
    <2>2. Settled' /\ KeyOwned' /\ KeyAlone'
      BY <1>1, <1>5 DEF Settled, KeyOwned, KeyAlone, Wrote
    <2>3. QED
      BY <1>2, <1>4, <2>1, <2>2
  <1>6. CASE ~UNCHANGED rows
    <2>1. /\ \A t \in Scans : CodeOf[t] = CodeOf[s] => rows[t].status = "none"
          /\ rows'[s].status = "PROCESSING" /\ rows'[s].key = TempKey
          /\ rows[s].status = "none"
          /\ \A t \in Scans : t # s => rows'[t] = rows[t]
      BY <1>6 DEF InsertRedemption, CodeFree, NoRow, TypeOK
    <2>2. TempKey # "none"
      BY DEF TempKey
    <2>3. OneRowPerCode' /\ RowFirst' /\ Places'
      <3>1. OneRowPerCode'
        BY <2>1 DEF OneRowPerCode
      <3>2. RowFirst'
        <4>1. \A t \in posted : rows'[t].status # "none"
          BY <2>1 DEF RowFirst, TypeOK
        <4>2. \A c \in Confirms : rows[ScanOf[c]].status # "none" =>
                                    rows'[ScanOf[c]].status # "none"
          BY <2>1 DEF ConstantsOK
        <4>3. QED
          BY <1>1, <2>1, <2>2, <4>1, <4>2 DEF RowFirst
      <3>3. Places'
        BY <1>1 DEF Places
      <3>4. QED
        BY <3>1, <3>2, <3>3
    <2>4. s \notin posted /\ \A c \in Confirms : ScanOf[c] = s => ~Wrote(c)
      BY <2>1 DEF RowFirst, Wrote
    <2>5. Settled'
      BY <1>1, <2>1, <2>4 DEF Settled, Wrote, ConstantsOK
    <2>6. KeyOwned'
      BY <1>1, <2>1, <2>4 DEF KeyOwned, Wrote, ConstantsOK
    <2>7. KeyAlone'
      BY <2>1 DEF KeyAlone
    <2>8. QED
      BY <1>2, <1>4, <2>3, <2>5, <2>6, <2>7
  <1>7. QED
    BY <1>5, <1>6

\* An answer taken from a row is the row's status.
LEMMA ReadInv ==
    ASSUME ConstantsOK, IInv, NEW c \in Confirms, ConfirmRead(c)
    PROVE  IInv'
  <1> USE DEF IInv
  <1>1. /\ UNCHANGED <<codes, expired, scans, rows, events, posted, reply>>
        /\ pc[c] = "idle" /\ ScanOf[c] \in Scans
    BY DEF ConfirmRead, ConstantsOK
  <1>2. \/ /\ pc' = [pc EXCEPT ![c] = "done"]
           /\ \/ answer' = [answer EXCEPT ![c] = "error"]
              \/ answer' = [answer EXCEPT ![c] = rows[ScanOf[c]].status]
        \/ /\ pc' = [pc EXCEPT ![c] = "found"] /\ answer' = answer
           /\ rows[ScanOf[c]].status = "PROCESSING"
    BY DEF ConfirmRead, Finish, Goto, Known
  <1>3. /\ pc'[c] \in {"done", "found"} /\ reply[c] = "none"
        /\ pc'[c] = "found" => /\ rows[ScanOf[c]].status = "PROCESSING"
                               /\ answer'[c] = "none"
        /\ answer'[c] = "COMPLETED" => rows[ScanOf[c]].status = "COMPLETED"
        /\ \A d \in Confirms : d # c => pc'[d] = pc[d] /\ answer'[d] = answer[d]
    BY <1>1, <1>2 DEF TypeOK, Places
  <1>4. TypeOK'
    <2>1. rows[ScanOf[c]].status \in {"none", "PROCESSING", "COMPLETED", "FAILED"}
      BY <1>1 DEF TypeOK, Statuses
    <2>2. answer' \in [Confirms -> {"none", "error", "PROCESSING", "COMPLETED", "FAILED"}]
      BY <1>2, <2>1 DEF TypeOK
    <2>3. QED
      BY <1>1, <1>2, <2>2 DEF TypeOK
  <1>5. OneRowPerCode' /\ KeyAlone' /\ CodeFollowsMoney'
    BY <1>1 DEF OneRowPerCode, KeyAlone, CodeFollowsMoney
  <1>6. RowFirst' /\ Places'
    BY <1>1, <1>3 DEF RowFirst, Places
  <1>7. Settled'
    BY <1>1, <1>3 DEF Settled
  <1>8. KeyOwned' /\ RedeemedFirst'
    <2>1. \A d \in Confirms : Wrote(d)' <=> Wrote(d)
      BY <1>1, <1>3 DEF Wrote
    <2>2. QED
      BY <1>1, <1>3, <2>1 DEF KeyOwned, RedeemedFirst
  <1>9. QED
    BY <1>4, <1>5, <1>6, <1>7, <1>8

\* The unique index keeps a payer's keys apart, and the key written is the
\* writer's.
LEMMA WriteInv ==
    ASSUME ConstantsOK, IInv, NEW c \in Confirms, ConfirmWrite(c)
    PROVE  IInv'
  <1> USE DEF IInv
  <1>1. /\ UNCHANGED <<codes, expired, scans, events, posted, reply>>
        /\ pc[c] = "found" /\ ScanOf[c] \in Scans /\ reply[c] = "none"
        /\ rows[ScanOf[c]].status # "none"
    BY DEF ConfirmWrite, ConstantsOK, Places, RowFirst
  <1>2. CASE ~(Known(c) \subseteq {ScanOf[c]})
    <2>1. /\ pc' = [pc EXCEPT ![c] = "done"]
          /\ answer' = [answer EXCEPT ![c] = "error"] /\ rows' = rows
      BY <1>2 DEF ConfirmWrite, Finish
    <2>2. /\ pc'[c] = "done" /\ answer'[c] = "error"
          /\ \A d \in Confirms : d # c => pc'[d] = pc[d] /\ answer'[d] = answer[d]
      BY <2>1 DEF TypeOK
    <2>3. TypeOK'
      BY <1>1, <2>1 DEF TypeOK
    <2>4. OneRowPerCode' /\ KeyAlone' /\ CodeFollowsMoney'
      BY <1>1, <2>1 DEF OneRowPerCode, KeyAlone, CodeFollowsMoney
    <2>5. RowFirst' /\ Places' /\ Settled'
      BY <1>1, <2>1, <2>2 DEF RowFirst, Places, Settled
    <2>6. \A d \in Confirms : Wrote(d)' <=> Wrote(d)
      BY <1>1, <2>2 DEF Wrote
    <2>7. KeyOwned' /\ RedeemedFirst'
      BY <1>1, <2>1, <2>2, <2>6 DEF KeyOwned, RedeemedFirst
    <2>8. QED
      BY <2>3, <2>4, <2>5, <2>7
  <1>3. CASE Known(c) \subseteq {ScanOf[c]}
    <2>1. /\ pc' = [pc EXCEPT ![c] = "settling"] /\ answer' = answer
          /\ rows' = [rows EXCEPT ![ScanOf[c]].key = KeyOf[c]]
      BY <1>3 DEF ConfirmWrite, Goto, StoredKey
    <2>2. /\ rows'[ScanOf[c]].key = KeyOf[c]
          /\ rows'[ScanOf[c]].status = rows[ScanOf[c]].status
          /\ \A t \in Scans : t # ScanOf[c] => rows'[t] = rows[t]
          /\ \A t \in Scans : rows'[t].status = rows[t].status
          /\ pc'[c] = "settling"
          /\ \A d \in Confirms : d # c => pc'[d] = pc[d]
      BY <1>1, <2>1 DEF TypeOK
    <2>3. KeyOf[c] # "none" /\ KeyOf[c] # TempKey /\ KeyOf[c] \in Keys
      BY DEF ConstantsOK, Keys
    <2>4. TypeOK'
      BY <1>1, <2>1, <2>3 DEF TypeOK
    <2>5. OneRowPerCode' /\ CodeFollowsMoney'
      BY <1>1, <2>2 DEF OneRowPerCode, CodeFollowsMoney
    <2>6. RowFirst' /\ Places'
      BY <1>1, <2>1, <2>2, <2>3 DEF RowFirst, Places, ConstantsOK
    <2>7. Settled'
      BY <1>1, <2>1, <2>2 DEF Settled, ConstantsOK
    <2>8. KeyOwned'
      <3>1. Wrote(c)' /\ \A d \in Confirms : d # c => (Wrote(d)' <=> Wrote(d))
        BY <1>1, <2>2 DEF Wrote
      <3>2. QED
        BY <2>2, <3>1 DEF KeyOwned, ConstantsOK
    <2>9. KeyAlone'
      <3>1. \A t \in Scans : /\ PayerOf[t] = PayerOf[ScanOf[c]]
                             /\ rows[t].key = KeyOf[c]
                             => t = ScanOf[c]
        BY <1>3 DEF Known
      <3>2. QED
        BY <2>2, <3>1 DEF KeyAlone
    <2>10. RedeemedFirst'
      BY <1>1, <2>2 DEF RedeemedFirst
    <2>11. QED
      BY <2>4, <2>5, <2>6, <2>7, <2>8, <2>9, <2>10
  <1>4. QED
    BY <1>2, <1>3

\* A Ledger call returns once for each confirmation, and what it posts it
\* answers, unless its answer is lost.
LEMMA PostInv ==
    ASSUME ConstantsOK, IInv, NEW c \in Confirms, Post(c)
    PROVE  IInv'
  <1> USE DEF IInv
  <1>1. PICK outcome \in {"posted", "rejected", "unknown"} :
          /\ reply' = [reply EXCEPT ![c] = outcome]
          /\ \/ outcome = "posted" /\ posted' = posted \cup {ScanOf[c]}
             \/ outcome = "rejected" /\ posted' = posted
             \/ outcome = "unknown" /\ posted' \in {posted, posted \cup {ScanOf[c]}}
          /\ IF AfterCall(outcome) = "done" THEN Finish(c, "PROCESSING")
                                            ELSE Goto(c, AfterCall(outcome))
    BY DEF Post
  <1>2. /\ UNCHANGED <<codes, expired, scans, rows, events>>
        /\ pc[c] = "settling" /\ ScanOf[c] \in Scans
        /\ reply[c] = "none" /\ answer[c] = "none" /\ Wrote(c)
        /\ rows[ScanOf[c]].status # "none"
    BY DEF Post, ConstantsOK, Places, RowFirst, Wrote
  <1>3. /\ pc'[c] \in {"posted", "rejected", "done"}
        /\ pc'[c] = "posted" => outcome = "posted"
        /\ pc'[c] = "rejected" => outcome = "rejected"
        /\ answer'[c] \in {"none", "PROCESSING"}
        /\ pc'[c] # "done" => answer'[c] = "none"
        /\ \A d \in Confirms : d # c => /\ pc'[d] = pc[d] /\ answer'[d] = answer[d]
                                        /\ reply'[d] = reply[d]
        /\ reply'[c] = outcome
    BY <1>1, <1>2 DEF TypeOK, AfterCall, Finish, Goto
  <1>4. /\ posted \subseteq posted' /\ posted' \subseteq posted \cup {ScanOf[c]}
        /\ outcome = "posted" => ScanOf[c] \in posted'
        /\ ScanOf[c] \in posted' => ScanOf[c] \in posted \/ outcome \in {"posted", "unknown"}
    BY <1>1
  <1>5. TypeOK'
    BY <1>1, <1>2, <1>4 DEF TypeOK, AfterCall, Finish, Goto
  <1>6. OneRowPerCode' /\ KeyAlone'
    BY <1>2 DEF OneRowPerCode, KeyAlone
  <1>7. RowFirst'
    BY <1>2, <1>3, <1>4 DEF RowFirst
  <1>8. Places'
    BY <1>3, <1>4 DEF Places
  <1>9. Settled'
    <2>1. ASSUME NEW s \in Scans
          PROVE  /\ rows'[s].status = "COMPLETED" =>
                       \E e \in Confirms : ScanOf[e] = s /\ reply'[e] = "posted"
                 /\ rows'[s].status = "FAILED" =>
                       \E e \in Confirms : ScanOf[e] = s /\ reply'[e] = "rejected"
      BY <1>2, <1>3 DEF Settled
    <2>2. ASSUME NEW s \in posted'
          PROVE  \E e \in Confirms : ScanOf[e] = s /\ reply'[e] \in {"posted", "unknown"}
      <3>1. CASE s \in posted
        BY <1>2, <1>3, <3>1 DEF Settled, TypeOK
      <3>2. CASE s \notin posted
        BY <1>3, <1>4, <2>2, <3>2
      <3>3. QED
        BY <3>1, <3>2
    <2>3. ASSUME NEW d \in Confirms
          PROVE  /\ answer'[d] = "COMPLETED" =>
                       \E e \in Confirms : ScanOf[e] = ScanOf[d] /\ reply'[e] = "posted"
                 /\ /\ reply'[d] = "posted"
                    /\ pc'[d] \in {"marked", "redeemed"} \/ answer'[d] = "COMPLETED"
                    => rows'[ScanOf[d]].status \in {"COMPLETED", "FAILED"}
      BY <1>2, <1>3 DEF Settled
    <2>4. QED
      BY <2>1, <2>2, <2>3 DEF Settled
  <1>10. KeyOwned'
    <2>1. \A d \in Confirms : Wrote(d)' <=> Wrote(d)
      BY <1>2, <1>3 DEF Wrote
    <2>2. QED
      BY <1>2, <2>1 DEF KeyOwned
  <1>11. RedeemedFirst' /\ CodeFollowsMoney'
    BY <1>2, <1>3, <1>4 DEF RedeemedFirst, CodeFollowsMoney
  <1>12. QED
    BY <1>5, <1>6, <1>7, <1>8, <1>9, <1>10, <1>11

\* The status a settlement writes is the one its Ledger call returned.
LEMMA MarkInv ==
    ASSUME ConstantsOK, IInv, NEW c \in Confirms, MarkCompleted(c) \/ MarkFailed(c)
    PROVE  IInv'
  <1> USE DEF IInv
  <1>1. PICK v \in {"COMPLETED", "FAILED"} :
          /\ rows' = [rows EXCEPT ![ScanOf[c]].status = v]
          /\ v = "COMPLETED" => pc[c] = "posted" /\ pc' = [pc EXCEPT ![c] = "marked"]
          /\ v = "FAILED" => pc[c] = "rejected" /\ pc' = [pc EXCEPT ![c] = "failed"]
    BY DEF MarkCompleted, MarkFailed, Goto
  <1>2. /\ UNCHANGED <<codes, expired, scans, events, posted, reply, answer>>
        /\ ScanOf[c] \in Scans /\ rows[ScanOf[c]].status # "none"
        /\ pc[c] \in {"posted", "rejected"} /\ answer[c] = "none"
        /\ v = "COMPLETED" => reply[c] = "posted"
        /\ v = "FAILED" => reply[c] = "rejected"
    BY <1>1 DEF MarkCompleted, MarkFailed, Goto, ConstantsOK, RowFirst, Places
  <1>3. /\ rows'[ScanOf[c]].status = v
        /\ \A t \in Scans : rows'[t].key = rows[t].key
        /\ \A t \in Scans : t # ScanOf[c] => rows'[t] = rows[t]
        /\ pc'[c] = IF v = "COMPLETED" THEN "marked" ELSE "failed"
        /\ \A d \in Confirms : d # c => pc'[d] = pc[d]
    BY <1>1, <1>2 DEF TypeOK
  <1>4. TypeOK'
    <2>1. v \in Statuses
      BY DEF Statuses
    <2>2. rows' \in [Scans -> [status : Statuses, key : Keys]]
      BY <1>1, <2>1 DEF TypeOK
    <2>3. pc' \in [Confirms -> {"idle", "found", "settling", "posted", "marked",
                                "redeemed", "rejected", "failed", "done"}]
      BY <1>1 DEF TypeOK
    <2>4. QED
      BY <1>2, <2>2, <2>3 DEF TypeOK
  <1>5. \A t \in Scans : rows'[t].status = "none" <=> rows[t].status = "none"
    BY <1>2, <1>3
  <1>6. OneRowPerCode' /\ KeyAlone'
    BY <1>3, <1>5 DEF OneRowPerCode, KeyAlone
  <1>7. RowFirst'
    <2>1. \A d \in Confirms : ScanOf[d] \in Scans
      BY DEF ConstantsOK
    <2>2. \A t \in posted : t \in Scans
      BY DEF TypeOK
    <2>3. QED
      BY <1>2, <1>3, <1>5, <2>1, <2>2 DEF RowFirst
  <1>8. Places'
    BY <1>2, <1>3 DEF Places
  <1>9. Settled'
    <2>1. ASSUME NEW s \in Scans
          PROVE  /\ rows'[s].status = "COMPLETED" =>
                       \E e \in Confirms : ScanOf[e] = s /\ reply'[e] = "posted"
                 /\ rows'[s].status = "FAILED" =>
                       \E e \in Confirms : ScanOf[e] = s /\ reply'[e] = "rejected"
                 /\ s \in posted' =>
                       \E e \in Confirms : ScanOf[e] = s /\ reply'[e] \in {"posted", "unknown"}
      <3>1. CASE s = ScanOf[c]
        BY <1>2, <1>3, <3>1 DEF Settled
      <3>2. CASE s # ScanOf[c]
        BY <1>2, <1>3, <3>2 DEF Settled
      <3>3. QED
        BY <3>1, <3>2
    <2>2. ASSUME NEW d \in Confirms
          PROVE  /\ answer'[d] = "COMPLETED" =>
                       \E e \in Confirms : ScanOf[e] = ScanOf[d] /\ reply'[e] = "posted"
                 /\ /\ reply'[d] = "posted"
                    /\ pc'[d] \in {"marked", "redeemed"} \/ answer'[d] = "COMPLETED"
                    => rows'[ScanOf[d]].status \in {"COMPLETED", "FAILED"}
      <3>1. ScanOf[d] \in Scans
        BY DEF ConstantsOK
      <3>2. CASE ScanOf[d] = ScanOf[c]
        BY <1>2, <1>3, <3>2 DEF Settled
      <3>3. CASE ScanOf[d] # ScanOf[c]
        BY <1>2, <1>3, <3>1, <3>3 DEF Settled
      <3>4. QED
        BY <3>2, <3>3
    <2>3. QED
      BY <2>1, <2>2 DEF Settled
  <1>10. KeyOwned'
    <2>1. \A d \in Confirms : Wrote(d)' <=> Wrote(d)
      BY <1>2, <1>3 DEF Wrote
    <2>2. QED
      BY <1>3, <2>1 DEF KeyOwned, ConstantsOK
  <1>11. RedeemedFirst' /\ CodeFollowsMoney'
    BY <1>2, <1>3 DEF RedeemedFirst, CodeFollowsMoney
  <1>12. QED
    BY <1>4, <1>6, <1>7, <1>8, <1>9, <1>10, <1>11

\* The paid code is the one whose journal was posted.
LEMMA MarkRedeemedInv ==
    ASSUME ConstantsOK, IInv, NEW c \in Confirms, MarkRedeemed(c)
    PROVE  IInv'
  <1> DEFINE q == CodeOf[ScanOf[c]]
  <1> USE DEF IInv
  <1>1. /\ pc[c] = "marked" /\ codes' = [codes EXCEPT ![q] = "REDEEMED"]
        /\ pc' = [pc EXCEPT ![c] = "redeemed"]
        /\ UNCHANGED <<expired, scans, rows, events, posted, reply, answer>>
    BY DEF MarkRedeemed, Goto, PaidStatus
  <1>2. /\ q \in Codes /\ reply[c] = "posted" /\ ScanOf[c] \in posted
        /\ answer[c] = "none"
    BY <1>1 DEF ConstantsOK, Places
  <1>3. /\ codes'[q] = "REDEEMED"
        /\ \A p \in Codes : p # q => codes'[p] = codes[p]
        /\ pc'[c] = "redeemed"
        /\ \A d \in Confirms : d # c => pc'[d] = pc[d]
    BY <1>1, <1>2 DEF TypeOK
  <1>4. TypeOK'
    BY <1>1, <1>2 DEF TypeOK
  <1>5. OneRowPerCode' /\ KeyAlone'
    BY <1>1 DEF OneRowPerCode, KeyAlone
  <1>6. RowFirst' /\ Places'
    BY <1>1, <1>2, <1>3 DEF RowFirst, Places
  <1>7. Settled'
    BY <1>1, <1>3 DEF Settled
  <1>8. KeyOwned'
    <2>1. \A d \in Confirms : Wrote(d)' <=> Wrote(d)
      BY <1>1, <1>3 DEF Wrote
    <2>2. QED
      BY <1>1, <2>1 DEF KeyOwned
  <1>9. RedeemedFirst'
    BY <1>3 DEF RedeemedFirst, ConstantsOK
  <1>10. CodeFollowsMoney'
    BY <1>1, <1>2, <1>3 DEF CodeFollowsMoney
  <1>11. QED
    BY <1>4, <1>5, <1>6, <1>7, <1>8, <1>9, <1>10

\* The last write of a settlement, or its end without it: COMPLETED is told
\* after the code was marked.
LEMMA FinishInv ==
    ASSUME ConstantsOK, IInv, NEW c \in Confirms,
           RecordCompleted(c) \/ RecordFailed(c) \/ Abandon(c)
    PROVE  IInv'
  <1> USE DEF IInv
  <1>1. PICK v \in {"COMPLETED", "FAILED", "PROCESSING", "error"} :
          /\ pc' = [pc EXCEPT ![c] = "done"] /\ answer' = [answer EXCEPT ![c] = v]
          /\ v = "COMPLETED" => pc[c] = "redeemed"
    BY DEF RecordCompleted, RecordFailed, Abandon, Finish
  <1>2. /\ UNCHANGED <<codes, expired, scans, rows, posted, reply>>
        /\ pc[c] \in {"posted", "marked", "redeemed", "rejected", "failed"}
        /\ CodeOf[ScanOf[c]] \in Codes
    BY DEF RecordCompleted, RecordFailed, Abandon, ConstantsOK
  <1>3. /\ pc'[c] = "done" /\ answer'[c] = v
        /\ \A d \in Confirms : d # c => pc'[d] = pc[d] /\ answer'[d] = answer[d]
        /\ v = "COMPLETED" => reply[c] = "posted"
    BY <1>1 DEF TypeOK, Places
  <1>4. \/ events' = events
        \/ events' = [events EXCEPT ![CodeOf[ScanOf[c]]] = @ \cup {"FAILED"}]
        \/ /\ events' = [events EXCEPT ![CodeOf[ScanOf[c]]] = @ \cup {"COMPLETED"}]
           /\ codes[CodeOf[ScanOf[c]]] = "REDEEMED"
    BY DEF RecordCompleted, RecordFailed, Abandon, RedeemedFirst
  <1>5. TypeOK'
    BY <1>1, <1>2, <1>4 DEF TypeOK
  <1>6. OneRowPerCode' /\ KeyAlone'
    BY <1>2 DEF OneRowPerCode, KeyAlone
  <1>7. RowFirst' /\ Places'
    BY <1>2, <1>3 DEF RowFirst, Places
  <1>8. Settled'
    BY <1>1, <1>2, <1>3 DEF Settled
  <1>9. KeyOwned' /\ RedeemedFirst'
    <2>1. \A d \in Confirms : Wrote(d)' <=> Wrote(d)
      BY <1>2, <1>3 DEF Wrote
    <2>2. QED
      BY <1>2, <1>3, <2>1 DEF KeyOwned, RedeemedFirst
  <1>10. CodeFollowsMoney'
    <2>1. \A q \in Codes : "COMPLETED" \in events'[q] =>
                              "COMPLETED" \in events[q] \/ codes[q] = "REDEEMED"
      BY <1>2, <1>4 DEF TypeOK
    <2>2. QED
      BY <1>2, <2>1 DEF CodeFollowsMoney
  <1>11. QED
    BY <1>5, <1>6, <1>7, <1>8, <1>9, <1>10

LEMMA NextInv == ASSUME ConstantsOK, IInv, [Next]_vars PROVE IInv'
  <1>1. CASE Next
    <2>1. CASE \/ \E q \in Codes : issue(q) \/ Expire(q)
               \/ \E s \in Scans : Preview(s)
      BY <2>1, QuietInv
    <2>2. CASE \E s \in Scans : InsertRedemption(s)
      BY <2>2, InsertInv
    <2>3. CASE \E c \in Confirms : ConfirmRead(c) \/ ConfirmWrite(c) \/ Post(c)
      BY <2>3, ReadInv, WriteInv, PostInv
    <2>4. CASE \E c \in Confirms : MarkCompleted(c) \/ MarkFailed(c) \/ MarkRedeemed(c)
      BY <2>4, MarkInv, MarkRedeemedInv
    <2>5. CASE \E c \in Confirms : RecordCompleted(c) \/ RecordFailed(c) \/ Abandon(c)
      BY <2>5, FinishInv
    <2>6. QED
      BY <1>1, <2>1, <2>2, <2>3, <2>4, <2>5 DEF Next
  <1>2. CASE UNCHANGED vars
    BY <1>2 DEF vars, IInv, TypeOK, OneRowPerCode, RowFirst, Places, Settled,
                KeyOwned, Wrote, KeyAlone, RedeemedFirst, CodeFollowsMoney
  <1>3. QED
    BY <1>1, <1>2

-----------------------------------------------------------------------------
LEMMA InvTraced == ASSUME ConstantsOK, IInv PROVE Traced
  <1> USE DEF IInv
  <1>1. OnePaymentPerCode
    BY DEF OnePaymentPerCode, OneRowPerCode, RowFirst, TypeOK
  <1>2. CompletedIsPosted
    BY DEF CompletedIsPosted, Settled, Places
  <1>3. FailedMoneyNeedsTwoSettlements
    BY DEF FailedMoneyNeedsTwoSettlements, Settled, TypeOK
  <1>4. QED
    BY <1>1, <1>2, <1>3 DEF Traced

\* A confirmation that was told COMPLETED and is the only one of its scan to
\* have written owns the row: its key is in it, and so is COMPLETED.
LEMMA AloneOwnsRow ==
    ASSUME ConstantsOK, IInv, NEW c \in Confirms, answer[c] = "COMPLETED",
           \A e \in Confirms \ {c} : ScanOf[e] = ScanOf[c] => ~Wrote(e)
    PROVE  /\ rows[ScanOf[c]].key = KeyOf[c]
           /\ rows[ScanOf[c]].status = "COMPLETED"
  <1> USE DEF IInv
  <1>1. reply[c] = "posted"
    BY DEF Settled, Wrote
  <1>2. rows[ScanOf[c]].key = KeyOf[c]
    BY <1>1 DEF KeyOwned, Wrote
  <1>3. rows[ScanOf[c]].status # "FAILED"
    BY <1>1 DEF Settled, Wrote, ConstantsOK
  <1>4. QED
    BY <1>1, <1>2, <1>3 DEF Settled

LEMMA InvRetry == ASSUME ConstantsOK, IInv, [Next]_vars PROVE RetryStep
  <1> SUFFICES ASSUME NEW c \in Confirms, NEW d \in Confirms,
                      answer[c] = "COMPLETED", pc[d] = "idle", pc'[d] # "idle",
                      ScanOf[c] = ScanOf[d], KeyOf[c] = KeyOf[d],
                      \A e \in Confirms \ {c} : ScanOf[e] = ScanOf[c] =>
                           reply[e] = "none" /\ pc[e] # "settling"
               PROVE  answer'[d] = "COMPLETED"
    BY DEF RetryStep
  <1>1. /\ rows[ScanOf[d]].key = KeyOf[d] /\ rows[ScanOf[d]].status = "COMPLETED"
        /\ ScanOf[d] \in Scans /\ KeyOf[d] \notin {"none", TempKey}
    BY AloneOwnsRow DEF Wrote, ConstantsOK
  <1>2. Known(d) = {ScanOf[d]}
    BY <1>1 DEF Known, IInv, KeyAlone
  <1>3. ConfirmRead(d)
    <2>1. ASSUME NEW e \in Confirms, e # d, pc' # pc,
                 \/ ConfirmRead(e) \/ ConfirmWrite(e) \/ Post(e)
                 \/ MarkCompleted(e) \/ MarkRedeemed(e) \/ RecordCompleted(e)
                 \/ MarkFailed(e) \/ RecordFailed(e) \/ Abandon(e)
          PROVE  FALSE
      <3>1. \E l : pc' = [pc EXCEPT ![e] = l]
        <4>1. CASE ConfirmRead(e) \/ ConfirmWrite(e)
          BY <4>1 DEF ConfirmRead, ConfirmWrite, Finish, Goto
        <4>2. CASE Post(e)
          <5>1. PICK outcome \in {"posted", "rejected", "unknown"} :
                   IF AfterCall(outcome) = "done" THEN Finish(e, "PROCESSING")
                                                  ELSE Goto(e, AfterCall(outcome))
            BY <4>2 DEF Post
          <5>2. QED
            BY <5>1 DEF Finish, Goto
        <4>3. CASE MarkCompleted(e) \/ MarkRedeemed(e) \/ MarkFailed(e)
          BY <4>3 DEF MarkCompleted, MarkRedeemed, MarkFailed, Goto
        <4>4. CASE RecordCompleted(e) \/ RecordFailed(e) \/ Abandon(e)
          BY <4>4 DEF RecordCompleted, RecordFailed, Abandon, Finish
        <4>5. QED
          BY <2>1, <4>1, <4>2, <4>3, <4>4
      <3>2. pc'[d] = pc[d]
        BY <2>1, <3>1 DEF IInv, TypeOK
      <3>3. QED
        BY <3>2
    <2>2. pc' # pc
      OBVIOUS
    <2>3. PICK e \in Confirms :
                 \/ ConfirmRead(e) \/ ConfirmWrite(e) \/ Post(e)
                 \/ MarkCompleted(e) \/ MarkRedeemed(e) \/ RecordCompleted(e)
                 \/ MarkFailed(e) \/ RecordFailed(e) \/ Abandon(e)
      BY <2>2 DEF Next, vars, issue, Expire, Preview, InsertRedemption
    <2>4. e = d
      BY <2>1, <2>2, <2>3
    <2>5. QED
      BY <2>3, <2>4 DEF ConfirmWrite, Post, MarkCompleted, MarkRedeemed,
                        RecordCompleted, MarkFailed, RecordFailed, Abandon
  <1>4. Finish(d, "COMPLETED")
    BY <1>1, <1>2, <1>3 DEF ConfirmRead
  <1>5. QED
    BY <1>4 DEF Finish, IInv, TypeOK

\* Every step of issuing, scanning, confirming and settling keeps the
\* inductive invariant (QrService).
THEOREM QrInv == ASSUME ConstantsOK PROVE Spec => []IInv
  <1>1. Init => IInv
    BY InitInv
  <1>2. IInv /\ [Next]_vars => IInv'
    BY NextInv
  <1>3. QED
    BY <1>1, <1>2, PTL DEF Spec

\* For any codes, scans and retried confirmations: a code pays once, COMPLETED
\* is never ahead of the journal, FAILED over a journal needs two settlements
\* of one scan, code and event follow the money through crashes, and a retry
\* is told what the first request was told (QrService preview, confirm and
\* settle).
THEOREM QrPaysOnceAndTellsTheSame == ASSUME ConstantsOK PROVE Spec => QrMoneyTraced
  <1>1. IInv => Traced
    BY InvTraced
  <1>2. IInv /\ [Next]_vars => [RetryStep]_vars
    BY InvRetry
  <1>3. QED
    BY <1>1, <1>2, QrInv, PTL DEF Spec, QrMoneyTraced, RetryToldTheSame

-----------------------------------------------------------------------------
(* The reconciliations *)

\* One add() pushes an issue when there is one and there is room, never more
\* than there are, and takes at most half of the room, rounded up.
LEMMA PushedBounds ==
  ASSUME NEW n \in Nat, NEW room \in Nat
  PROVE  /\ Reconcile!Pushed(n, room) \in 0 .. room
         /\ 2 * Reconcile!Pushed(n, room) <= room + 1
         /\ Reconcile!Pushed(n, room) <= n
         /\ n > 0 /\ room > 0 => Reconcile!Pushed(n, room) > 0
  <1> DEFINE Fits(i) == /\ i >= Reconcile!Smaller(n, room - i)
                        /\ i > 0 => i - 1 < Reconcile!Smaller(n, room - (i - 1))
  <1>1. \E i \in 0 .. room : Fits(i)
    <2>1. CASE 2 * n <= room
      <3>1. n \in 0 .. room /\ Fits(n)
        BY <2>1 DEF Reconcile!Smaller
      <3>2. QED
        BY <3>1
    <2>2. CASE 2 * n > room
      <3>1. PICK h \in 0 .. room : 2 * h = room \/ 2 * h = room + 1
        <4>1. PICK q \in Nat : room = 2 * q \/ room = 2 * q + 1
          <5>1. room \div 2 \in Nat /\ (room = 2 * (room \div 2) \/ room = 2 * (room \div 2) + 1)
            OBVIOUS
          <5>2. QED
            BY <5>1
        <4>2. CASE room = 2 * q
          BY <4>2
        <4>3. CASE room = 2 * q + 1
          <5>1. q + 1 \in 0 .. room /\ 2 * (q + 1) = room + 1
            BY <4>3
          <5>2. QED
            BY <5>1
        <4>4. QED
          BY <4>1, <4>2, <4>3
      <3>2. Fits(h)
        BY <2>2, <3>1 DEF Reconcile!Smaller
      <3>3. QED
        BY <3>1, <3>2
    <2>3. QED
      BY <2>1, <2>2
  <1>2. Reconcile!Pushed(n, room) = CHOOSE i \in 0 .. room : Fits(i)
    BY DEF Reconcile!Pushed
  <1>3. Reconcile!Pushed(n, room) \in 0 .. room /\ Fits(Reconcile!Pushed(n, room))
    BY <1>1, <1>2
  <1> DEFINE i == Reconcile!Pushed(n, room)
  <1>4. i \in 0 .. room /\ Fits(i)
    BY <1>3
  <1> HIDE DEF i
  <1>5. 2 * i <= room + 1
    BY <1>4 DEF Reconcile!Smaller
  <1>6. i <= n /\ (n > 0 /\ room > 0 => i > 0)
    BY <1>4 DEF Reconcile!Smaller
  <1>7. QED
    BY <1>4, <1>5, <1>6 DEF i

\* An add() into enough room leaves half of it.
LEMMA OneAdd ==
  ASSUME NEW n \in Nat, NEW room \in Nat, NEW low \in Nat, low >= 1, room >= 2 * low
  PROVE  /\ Reconcile!Pushed(n, room) \in Nat
         /\ room - Reconcile!Pushed(n, room) \in Nat
         /\ room - Reconcile!Pushed(n, room) >= low
         /\ Reconcile!Pushed(n, room) <= n
         /\ n > 0 => Reconcile!Pushed(n, room) > 0
  <1> DEFINE i == Reconcile!Pushed(n, room)
  <1>1. /\ i \in 0 .. room /\ 2 * i <= room + 1 /\ i <= n
        /\ n > 0 /\ room > 0 => i > 0
    BY PushedBounds
  <1> HIDE DEF i
  <1>2. i \in Nat /\ room - i \in Nat /\ room - i >= low /\ i <= n /\ (n > 0 => i > 0)
    BY <1>1
  <1>3. QED
    BY <1>2 DEF i

\* The bounded list drops no code: five times half of the room leaves one.
LEMMA ListHoldsEveryCode ==
  ASSUME Reconcile!ConstantsOK, NEW counts \in [Reconcile!PaymentsChecks -> Nat],
         NEW p, p = Reconcile!PushedAt(counts)
  PROVE  /\ \A i \in Reconcile!PaymentsChecks :
                p[i] \in Nat /\ p[i] <= counts[i] /\ (counts[i] > 0 => p[i] > 0)
         /\ p[1] + p[2] + p[3] + p[4] + p[5] + p[6] <= MaxIssues
  <1>1. MaxIssues \in Nat /\ MaxIssues >= 2 * 16 /\ counts \in [1 .. 6 -> Nat]
    BY DEF Reconcile!ConstantsOK, Reconcile!PaymentsChecks
  <1>2. /\ counts[1] \in Nat /\ counts[2] \in Nat /\ counts[3] \in Nat
        /\ counts[4] \in Nat /\ counts[5] \in Nat /\ counts[6] \in Nat
    BY <1>1
  <1>3. PICK p1, p2, p3, p4, p5, p6, r1, r2, r3, r4, r5 :
          /\ p1 = Reconcile!Pushed(counts[1], MaxIssues) /\ r1 = MaxIssues - p1
          /\ p2 = Reconcile!Pushed(counts[2], r1) /\ r2 = r1 - p2
          /\ p3 = Reconcile!Pushed(counts[3], r2) /\ r3 = r2 - p3
          /\ p4 = Reconcile!Pushed(counts[4], r3) /\ r4 = r3 - p4
          /\ p5 = Reconcile!Pushed(counts[5], r4) /\ r5 = r4 - p5
          /\ p6 = Reconcile!Pushed(counts[6], r5)
    OBVIOUS
  <1>4. p = <<p1, p2, p3, p4, p5, p6>>
    BY <1>3, Zenon DEF Reconcile!PushedAt
  <1>5. /\ p1 \in Nat /\ r1 \in Nat /\ r1 >= 16 /\ r1 = MaxIssues - p1
        /\ p1 <= counts[1] /\ (counts[1] > 0 => p1 > 0)
    <2>1. 16 \in Nat /\ 16 >= 1
      OBVIOUS
    <2>2. p1 = Reconcile!Pushed(counts[1], MaxIssues) /\ r1 = MaxIssues - p1 /\ counts[1] \in Nat
      BY <1>2, <1>3, Zenon
    <2>3. QED
      BY <2>1, <2>2, <1>1, OneAdd
  <1>6. /\ p2 \in Nat /\ r2 \in Nat /\ r2 >= 8 /\ r2 = r1 - p2
        /\ p2 <= counts[2] /\ (counts[2] > 0 => p2 > 0)
    <2>1. 8 \in Nat /\ 8 >= 1 /\ r1 >= 2 * 8
      BY <1>5
    <2>2. p2 = Reconcile!Pushed(counts[2], r1) /\ r2 = r1 - p2 /\ counts[2] \in Nat
      BY <1>2, <1>3, Zenon
    <2>3. QED
      BY <2>1, <2>2, <1>5, OneAdd
  <1>7. /\ p3 \in Nat /\ r3 \in Nat /\ r3 >= 4 /\ r3 = r2 - p3
        /\ p3 <= counts[3] /\ (counts[3] > 0 => p3 > 0)
    <2>1. 4 \in Nat /\ 4 >= 1 /\ r2 >= 2 * 4
      BY <1>6
    <2>2. p3 = Reconcile!Pushed(counts[3], r2) /\ r3 = r2 - p3 /\ counts[3] \in Nat
      BY <1>2, <1>3, Zenon
    <2>3. QED
      BY <2>1, <2>2, <1>6, OneAdd
  <1>8. /\ p4 \in Nat /\ r4 \in Nat /\ r4 >= 2 /\ r4 = r3 - p4
        /\ p4 <= counts[4] /\ (counts[4] > 0 => p4 > 0)
    <2>1. 2 \in Nat /\ 2 >= 1 /\ r3 >= 2 * 2
      BY <1>7
    <2>2. p4 = Reconcile!Pushed(counts[4], r3) /\ r4 = r3 - p4 /\ counts[4] \in Nat
      BY <1>2, <1>3, Zenon
    <2>3. QED
      BY <2>1, <2>2, <1>7, OneAdd
  <1>9. /\ p5 \in Nat /\ r5 \in Nat /\ r5 >= 1 /\ r5 = r4 - p5
        /\ p5 <= counts[5] /\ (counts[5] > 0 => p5 > 0)
    <2>1. 1 \in Nat /\ 1 >= 1 /\ r4 >= 2 * 1
      BY <1>8
    <2>2. p5 = Reconcile!Pushed(counts[5], r4) /\ r5 = r4 - p5 /\ counts[5] \in Nat
      BY <1>2, <1>3, Zenon
    <2>3. QED
      BY <2>1, <2>2, <1>8, OneAdd
  <1>10. p6 \in Nat /\ p6 <= r5 /\ p6 <= counts[6] /\ (counts[6] > 0 => p6 > 0)
    <2>1. r5 > 0
      BY <1>9
    <2>2. /\ p6 \in 0 .. r5 /\ p6 <= counts[6]
          /\ counts[6] > 0 => p6 > 0
      BY <1>2, <1>3, <1>9, <2>1, PushedBounds, Zenon
    <2>3. QED
      BY <1>9, <2>2
  <1>11. p1 + p2 + p3 + p4 + p5 + p6 <= MaxIssues
    BY <1>1, <1>5, <1>6, <1>7, <1>8, <1>9, <1>10
  <1>12. /\ p[1] = p1 /\ p[2] = p2 /\ p[3] = p3 /\ p[4] = p4 /\ p[5] = p5 /\ p[6] = p6
    BY <1>4
  <1>13. ASSUME NEW i \in Reconcile!PaymentsChecks
         PROVE  p[i] \in Nat /\ p[i] <= counts[i] /\ (counts[i] > 0 => p[i] > 0)
    <2>1. i \in {1, 2, 3, 4, 5, 6}
      BY DEF Reconcile!PaymentsChecks
    <2>2. QED
      BY <2>1, <1>5, <1>6, <1>7, <1>8, <1>9, <1>10, <1>12, Zenon
  <1>14. QED
    BY <1>11, <1>12, <1>13, Zenon

LEMMA ReportSizes == Len(Reconcile!Scripts) = 4 /\ Len(Reconcile!LedgerChecks) = 9
  BY DEF Reconcile!Scripts, Reconcile!LedgerChecks

LEMMA ReportScripts ==
  /\ Reconcile!Scripts[1] = "ledger" /\ Reconcile!Scripts[2] = "payments"
  /\ Reconcile!Scripts[3] = "risk" /\ Reconcile!Scripts[4] = "resilience"
  BY DEF Reconcile!Scripts

\* Which script runs, and what its end appends.
LEMMA ReportRunning ==
  ASSUME Reconcile!Typed
  PROVE  /\ Len(results) \in Nat /\ Len(results) <= 4
         /\ Reconcile!Running("ledger") => Len(results) = 0
         /\ Reconcile!Running("payments") => Len(results) = 1
         /\ Reconcile!Running("risk") => Len(results) = 2
         /\ Reconcile!Running("resilience") => Len(results) = 3
  <1>1. Len(results) <= Len(Reconcile!Scripts) /\ results \in Seq({"PASS", "FAIL", "TIMEOUT"})
    BY DEF Reconcile!Typed
  <1>2. Len(results) \in Nat /\ Len(results) <= 4
    BY <1>1, ReportSizes
  <1>3. ASSUME NEW s, Reconcile!Running(s)
        PROVE  \E m \in {1, 2, 3, 4} : m = Len(results) + 1 /\ Reconcile!Scripts[m] = s
    <2>1. Len(results) < 4 /\ Reconcile!Scripts[Len(results) + 1] = s
      BY <1>3, ReportSizes, Zenon DEF Reconcile!Running
    <2>2. Len(results) + 1 \in {1, 2, 3, 4}
      BY <1>2, <2>1
    <2>3. QED
      BY <2>1, <2>2, Zenon
  <1>4. ASSUME NEW s \in {"ledger", "payments", "risk", "resilience"}, Reconcile!Running(s)
        PROVE  Len(results) = (IF s = "ledger" THEN 0 ELSE IF s = "payments" THEN 1
                               ELSE IF s = "risk" THEN 2 ELSE 3)
    <2>1. PICK m \in {1, 2, 3, 4} : m = Len(results) + 1 /\ Reconcile!Scripts[m] = s
      BY <1>3, <1>4
    <2>2. CASE m = 1
      BY <1>2, <2>1, <2>2, ReportScripts
    <2>3. CASE m = 2
      <3>1. s = "payments" /\ 2 = Len(results) + 1
        BY <2>1, <2>3, ReportScripts, Zenon
      <3>2. \A k \in Nat : 2 = k + 1 => k = 1
        OBVIOUS
      <3>3. Len(results) = 1
        BY <1>2, <3>1, <3>2, Zenon
      <3>4. QED
        BY <3>1, <3>3
    <2>4. CASE m = 3
      <3>1. s = "risk" /\ 3 = Len(results) + 1
        BY <2>1, <2>4, ReportScripts, Zenon
      <3>2. \A k \in Nat : 3 = k + 1 => k = 2
        OBVIOUS
      <3>3. Len(results) = 2
        BY <1>2, <3>1, <3>2, Zenon
      <3>4. QED
        BY <3>1, <3>3
    <2>5. CASE m = 4
      <3>1. s = "resilience" /\ 4 = Len(results) + 1
        BY <2>1, <2>5, ReportScripts, Zenon
      <3>2. \A k \in Nat : 4 = k + 1 => k = 3
        OBVIOUS
      <3>3. Len(results) = 3
        BY <1>2, <3>1, <3>2, Zenon
      <3>4. QED
        BY <3>1, <3>3
    <2>6. QED
      BY <2>1, <2>2, <2>3, <2>4, <2>5
  <1>5. QED
    BY <1>2, <1>4

LEMMA ReportEnd ==
  ASSUME Reconcile!Typed, NEW s \in {"PASS", "FAIL", "TIMEOUT"}, Len(results) < 4,
         Reconcile!End(s)
  PROVE  /\ results' \in Seq({"PASS", "FAIL", "TIMEOUT"})
         /\ Len(results') = Len(results) + 1
         /\ \A i \in 1 .. Len(results) : results'[i] = results[i]
         /\ results'[Len(results) + 1] = s
  <1>1. results' = Append(results, s) /\ results \in Seq({"PASS", "FAIL", "TIMEOUT"})
    BY DEF Reconcile!End, Reconcile!Typed
  <1>2. QED
    BY <1>1

LEMMA ReportInit == ASSUME Reconcile!ConstantsOK, Reconcile!Init PROVE Reconcile!IInv
  <1> USE DEF Reconcile!Init
  <1>1. Len(results) = 0
    OBVIOUS
  <1>2. payments \in [Reconcile!PaymentsChecks -> Nat]
    OBVIOUS
  <1>3. Reconcile!Typed
    <2>1. faults \in [LedgerFaults -> Nat]
      BY DEF Reconcile!ConstantsOK
    <2>2. QED
      BY <1>1, <1>2, <2>1, ReportSizes DEF Reconcile!Typed
  <1>4. /\ Reconcile!FaultsShrink /\ Reconcile!NoFalseAlarm /\ Reconcile!RoomTaken
        /\ Reconcile!LedgerLosesOnlyWhenFull
    BY DEF Reconcile!FaultsShrink, Reconcile!NoFalseAlarm, Reconcile!RoomTaken,
           Reconcile!LedgerLosesOnlyWhenFull, Reconcile!Broken, Reconcile!BrokenAtStart,
           Reconcile!ConstantsOK
  <1>5. Reconcile!AskedIsReported
    <2>1. DOMAIN Reconcile!LedgerChecks = 1 .. 9
      BY DEF Reconcile!LedgerChecks
    <2>2. QED
      BY <2>1 DEF Reconcile!AskedIsReported
  <1>6. Reconcile!PassMeans
    BY <1>1 DEF Reconcile!PassMeans
  <1>7. Reconcile!EveryCodeReported /\ Reconcile!PushedWereCounted
    <2>1. \A i \in 1 .. 6 : payments[i] = 0 /\ pushed[i] = 0
      BY DEF Reconcile!PaymentsChecks
    <2>2. MaxIssues \in Nat
      BY DEF Reconcile!ConstantsOK
    <2>3. /\ pushed[1] = 0 /\ pushed[2] = 0 /\ pushed[3] = 0
          /\ pushed[4] = 0 /\ pushed[5] = 0 /\ pushed[6] = 0
      BY <2>1
    <2>4. pushed[1] + pushed[2] + pushed[3] + pushed[4] + pushed[5] + pushed[6] <= MaxIssues
      BY <2>2, <2>3
    <2>5. \A i \in Reconcile!PaymentsChecks : payments[i] > 0 => pushed[i] > 0
      BY <2>1 DEF Reconcile!PaymentsChecks
    <2>6. Reconcile!PushedWereCounted
      BY <2>1 DEF Reconcile!PushedWereCounted, Reconcile!PaymentsChecks
    <2>7. QED
      BY <2>4, <2>5, <2>6 DEF Reconcile!EveryCodeReported
  <1>8. QED
    BY <1>3, <1>4, <1>5, <1>6, <1>7 DEF Reconcile!IInv

LEMMA ReportStutters ==
  ASSUME Reconcile!IInv, UNCHANGED Reconcile!vars
  PROVE  Reconcile!IInv'
  BY DEF Reconcile!IInv, Reconcile!vars, Reconcile!Typed, Reconcile!FaultsShrink,
         Reconcile!NoFalseAlarm, Reconcile!AskedIsReported, Reconcile!PassMeans,
         Reconcile!EveryCodeReported, Reconcile!RoomTaken, Reconcile!PushedWereCounted,
         Reconcile!LedgerLosesOnlyWhenFull, Reconcile!Broken, Reconcile!BrokenAtStart

\* A journal that commits disturbs nothing: it moves both counters.
LEMMA ReportPostJournal ==
  ASSUME Reconcile!IInv, Reconcile!PostJournal PROVE Reconcile!IInv'
  <1> USE DEF Reconcile!PostJournal
  <1>1. Reconcile!Typed'
    BY DEF Reconcile!IInv, Reconcile!Typed
  <1>2. /\ Reconcile!FaultsShrink' /\ Reconcile!NoFalseAlarm' /\ Reconcile!AskedIsReported'
        /\ Reconcile!PassMeans' /\ Reconcile!EveryCodeReported' /\ Reconcile!RoomTaken'
        /\ Reconcile!LedgerLosesOnlyWhenFull' /\ Reconcile!PushedWereCounted'
    BY DEF Reconcile!IInv, Reconcile!FaultsShrink, Reconcile!NoFalseAlarm,
           Reconcile!AskedIsReported, Reconcile!PassMeans, Reconcile!EveryCodeReported,
           Reconcile!RoomTaken, Reconcile!PushedWereCounted,
           Reconcile!LedgerLosesOnlyWhenFull, Reconcile!Broken, Reconcile!BrokenAtStart
  <1>3. QED
    BY <1>1, <1>2 DEF Reconcile!IInv

LEMMA ReportRepair ==
  ASSUME Reconcile!IInv, NEW f \in LedgerFaults, Reconcile!Repair(f) PROVE Reconcile!IInv'
  <1> USE DEF Reconcile!Repair
  <1>1. /\ Reconcile!Typed' /\ Reconcile!EveryCodeReported' /\ Reconcile!RoomTaken'
        /\ Reconcile!PushedWereCounted'
    BY DEF Reconcile!IInv, Reconcile!Typed, Reconcile!EveryCodeReported,
           Reconcile!RoomTaken, Reconcile!PushedWereCounted
  <1>2. Reconcile!Broken' \subseteq Reconcile!Broken
    BY DEF Reconcile!Broken, Reconcile!IInv, Reconcile!Typed
  <1>3. Reconcile!BrokenAtStart' = Reconcile!BrokenAtStart
    BY DEF Reconcile!BrokenAtStart
  <1>4. /\ Reconcile!FaultsShrink' /\ Reconcile!NoFalseAlarm'
        /\ Reconcile!AskedIsReported' /\ Reconcile!LedgerLosesOnlyWhenFull'
    BY <1>2, <1>3 DEF Reconcile!IInv, Reconcile!FaultsShrink, Reconcile!NoFalseAlarm,
           Reconcile!AskedIsReported, Reconcile!LedgerLosesOnlyWhenFull
  <1>5. Reconcile!PassMeans'
    BY <1>2 DEF Reconcile!IInv, Reconcile!PassMeans
  <1>6. QED
    BY <1>1, <1>4, <1>5 DEF Reconcile!IInv

\* A query reports its code if the fault stands and there is room; drift never
\* shows, because a journal and its projections commit together.
LEMMA ReportLedgerQuery ==
  ASSUME Reconcile!ConstantsOK, Reconcile!IInv, Reconcile!LedgerQuery PROVE Reconcile!IInv'
  <1> DEFINE code == Reconcile!LedgerChecks[query]
             took == IF query = 0 THEN 0 ELSE Reconcile!Takes(Reconcile!Sees(code), ledgerRoom)
  <1>1. /\ query \in 0 .. 10 /\ query <= 9 /\ projected = journals
        /\ faults \in [LedgerFaults -> Nat] /\ ledgerRoom \in 0 .. MaxIssues
        /\ MaxIssues \in Nat
    BY ReportSizes DEF Reconcile!IInv, Reconcile!Typed, Reconcile!RoomTaken,
                       Reconcile!ConstantsOK, Reconcile!LedgerQuery
  <1>2. /\ query' = query + 1 /\ ledgerRoom' = ledgerRoom - took
        /\ ledgerIssues' = IF took > 0 THEN ledgerIssues \cup {code} ELSE ledgerIssues
        /\ Reconcile!Running("ledger")
        /\ UNCHANGED <<journals, projected, faults, atStart, payments, pushed, risk,
                       resilience, results>>
    BY Zenon DEF Reconcile!LedgerQuery
  <1>3. /\ Reconcile!Sees(code) \in Nat
        /\ Reconcile!Sees(code) > 0 <=> code \in Reconcile!Broken
    BY <1>1 DEF Reconcile!Sees, Reconcile!Rows, Reconcile!Broken
  <1>4. /\ took \in Nat /\ took <= ledgerRoom
        /\ took > 0 => code \in Reconcile!Broken
        /\ query > 0 /\ code \in Reconcile!Broken => took > 0 \/ ledgerRoom = 0
    BY <1>1, <1>3 DEF Reconcile!Takes, Reconcile!Smaller
  <1>5. Reconcile!Broken' = Reconcile!Broken /\ Reconcile!BrokenAtStart' = Reconcile!BrokenAtStart
    BY <1>2 DEF Reconcile!Broken, Reconcile!BrokenAtStart
  <1> HIDE DEF code, took
  <1>6. Reconcile!Typed'
    <2>1. query' \in 0 .. 10
      BY <1>1, <1>2
    <2>2. QED
      BY <1>2, <2>1, ReportSizes DEF Reconcile!IInv, Reconcile!Typed
  <1>7. /\ Reconcile!FaultsShrink' /\ Reconcile!PassMeans' /\ Reconcile!EveryCodeReported'
        /\ Reconcile!PushedWereCounted'
    BY <1>2, <1>5 DEF Reconcile!IInv, Reconcile!FaultsShrink, Reconcile!PassMeans,
           Reconcile!EveryCodeReported, Reconcile!PushedWereCounted
  <1>8. ledgerIssues \subseteq ledgerIssues' /\ (took > 0 => code \in ledgerIssues')
    BY <1>2
  <1>9. ledgerRoom' \in 0 .. MaxIssues /\ (ledgerRoom = 0 => ledgerRoom' = 0)
    BY <1>1, <1>2, <1>4
  <1>10. Reconcile!RoomTaken'
    <2>1. CASE took > 0
      BY <1>8, <1>9, <2>1 DEF Reconcile!RoomTaken
    <2>2. CASE ~(took > 0)
      <3>1. ledgerRoom' = ledgerRoom
        BY <1>1, <1>2, <1>4, <2>2
      <3>2. QED
        BY <1>8, <1>9, <3>1 DEF Reconcile!RoomTaken, Reconcile!IInv
    <2>3. QED
      BY <2>1, <2>2
  <1>11. Reconcile!NoFalseAlarm'
    BY <1>2, <1>4, <1>5
    DEF Reconcile!IInv, Reconcile!NoFalseAlarm, Reconcile!FaultsShrink
  <1>12. Reconcile!AskedIsReported'
    <2> SUFFICES ASSUME Len(results) = 0, NEW i \in DOMAIN Reconcile!LedgerChecks,
                        i < query + 1, Reconcile!LedgerChecks[i] \in Reconcile!Broken
                 PROVE  Reconcile!LedgerChecks[i] \in ledgerIssues' \/ ledgerRoom' = 0
      BY <1>2, <1>5 DEF Reconcile!AskedIsReported
    <2>1. i \in 1 .. 9
      BY DEF Reconcile!LedgerChecks
    <2>2. CASE i < query
      BY <1>8, <1>9, <2>2 DEF Reconcile!IInv, Reconcile!AskedIsReported
    <2>3. CASE ~(i < query)
      <3>1. i = query /\ query > 0
        BY <1>1, <2>1, <2>3
      <3>2. QED
        BY <1>4, <1>8, <1>9, <3>1 DEF code
    <2>4. QED
      BY <2>2, <2>3
  <1>13. Reconcile!LedgerLosesOnlyWhenFull'
    <2>1. Len(results) = 0 /\ results \in Seq({"PASS", "FAIL", "TIMEOUT"})
      BY <1>2, ReportRunning DEF Reconcile!IInv, Reconcile!Typed
    <2>2. results' = <<>>
      BY <1>2, <2>1
    <2>3. QED
      BY <2>2 DEF Reconcile!LedgerLosesOnlyWhenFull
  <1>14. QED
    BY <1>6, <1>7, <1>10, <1>11, <1>12, <1>13 DEF Reconcile!IInv

\* The Ledger's script passes only when it has asked everything and found
\* nothing.
LEMMA ReportLedgerEnds ==
  ASSUME Reconcile!ConstantsOK, Reconcile!IInv, Reconcile!LedgerEnds PROVE Reconcile!IInv'
  <1> USE DEF Reconcile!LedgerEnds
  <1>1. Reconcile!Typed
    BY DEF Reconcile!IInv
  <1>2. Len(results) = 0 /\ query = 10
    BY <1>1, ReportRunning, ReportSizes
  <1>3. PICK s \in {"PASS", "FAIL", "TIMEOUT"} :
          Reconcile!End(s) /\ (s = "PASS" => ledgerIssues = {})
    OBVIOUS
  <1>4. /\ results' \in Seq({"PASS", "FAIL", "TIMEOUT"}) /\ Len(results') = 1
        /\ results'[1] = s
    <2>1. /\ results' \in Seq({"PASS", "FAIL", "TIMEOUT"})
          /\ Len(results') = Len(results) + 1 /\ results'[Len(results) + 1] = s
      BY <1>1, <1>2, <1>3, ReportEnd
    <2>2. Len(results) + 1 = 1
      BY <1>2
    <2>3. QED
      BY <2>1, <2>2
  <1>5. Reconcile!Typed'
    BY <1>1, <1>4, ReportSizes DEF Reconcile!Typed
  <1>6. /\ Reconcile!Broken' = Reconcile!Broken
        /\ Reconcile!BrokenAtStart' = Reconcile!BrokenAtStart
    BY DEF Reconcile!Broken, Reconcile!BrokenAtStart
  <1>7. /\ Reconcile!FaultsShrink' /\ Reconcile!NoFalseAlarm' /\ Reconcile!EveryCodeReported'
        /\ Reconcile!RoomTaken' /\ Reconcile!PushedWereCounted'
    BY <1>6 DEF Reconcile!IInv, Reconcile!FaultsShrink, Reconcile!NoFalseAlarm,
           Reconcile!EveryCodeReported, Reconcile!RoomTaken, Reconcile!PushedWereCounted
  <1>8. Reconcile!AskedIsReported'
    BY <1>4 DEF Reconcile!AskedIsReported
  <1>9. \A f \in Reconcile!Broken : f \in ledgerIssues \/ ledgerRoom = 0
    <2> SUFFICES ASSUME NEW f \in Reconcile!Broken
                 PROVE  f \in ledgerIssues \/ ledgerRoom = 0
      OBVIOUS
    <2>1. f \in {Reconcile!LedgerChecks[i] : i \in DOMAIN Reconcile!LedgerChecks}
      BY DEF Reconcile!Broken, Reconcile!ConstantsOK
    <2>2. PICK i \in DOMAIN Reconcile!LedgerChecks : f = Reconcile!LedgerChecks[i]
      BY <2>1
    <2>3. i < query
      <3>1. i \in 1 .. 9
        BY DEF Reconcile!LedgerChecks
      <3>2. QED
        BY <1>2, <3>1
    <2>4. QED
      BY <1>2, <2>2, <2>3 DEF Reconcile!IInv, Reconcile!AskedIsReported
  <1>10. Reconcile!LedgerLosesOnlyWhenFull'
    BY <1>6, <1>9 DEF Reconcile!LedgerLosesOnlyWhenFull
  <1>11. s = "PASS" => Reconcile!Broken = {}
    <2> SUFFICES ASSUME s = "PASS" PROVE Reconcile!Broken = {}
      OBVIOUS
    <2>1. ledgerIssues = {}
      BY <1>3
    <2>2. ledgerRoom # 0
      BY <2>1 DEF Reconcile!IInv, Reconcile!RoomTaken, Reconcile!ConstantsOK
    <2>3. QED
      BY <1>9, <2>1, <2>2
  <1>12. Reconcile!PassMeans'
    BY <1>4, <1>6, <1>11 DEF Reconcile!PassMeans
  <1>13. QED
    BY <1>5, <1>7, <1>8, <1>10, <1>12 DEF Reconcile!IInv

\* What a script that is not the Ledger's leaves as it was.
LEMMA ReportLater ==
  ASSUME Reconcile!IInv, NEW s \in {"PASS", "FAIL", "TIMEOUT"}, Len(results) \in {1, 2, 3},
         Reconcile!End(s), UNCHANGED <<journals, projected, faults, atStart, query, counted,
                                       ledgerIssues, ledgerRoom>>
  PROVE  /\ results' \in Seq({"PASS", "FAIL", "TIMEOUT"}) /\ Len(results') = Len(results) + 1
         /\ results'[1] = results[1]
         /\ Len(results) >= 2 => results'[2] = results[2]
         /\ Len(results) >= 3 => results'[3] = results[3]
         /\ results'[Len(results) + 1] = s
         /\ Reconcile!FaultsShrink' /\ Reconcile!NoFalseAlarm' /\ Reconcile!AskedIsReported'
         /\ Reconcile!RoomTaken' /\ Reconcile!LedgerLosesOnlyWhenFull'
         /\ Reconcile!Broken' = Reconcile!Broken /\ faults' \in [LedgerFaults -> Nat]
         /\ Len(results') <= 4 /\ query' \in 0 .. Len(Reconcile!LedgerChecks) + 1
         /\ journals' \in Nat /\ projected' = journals'
  <1>1. Reconcile!Typed /\ Len(results) < 4
    <2>1. Reconcile!Typed
      BY DEF Reconcile!IInv
    <2>2. 1 < 4 /\ 2 < 4 /\ 3 < 4
      OBVIOUS
    <2>3. QED
      BY <2>1, <2>2, Zenon
  <1>2. /\ results' \in Seq({"PASS", "FAIL", "TIMEOUT"})
        /\ Len(results') = Len(results) + 1
        /\ \A i \in 1 .. Len(results) : results'[i] = results[i]
        /\ results'[Len(results) + 1] = s
    BY <1>1, ReportEnd
  <1>3. /\ results'[1] = results[1]
        /\ Len(results) >= 2 => results'[2] = results[2]
        /\ Len(results) >= 3 => results'[3] = results[3]
        /\ Len(results') <= 4 /\ Len(results') # 0
    BY <1>2
  <1>4. Reconcile!AskedIsReported'
    BY <1>3 DEF Reconcile!AskedIsReported
  <1>5. /\ Reconcile!Broken' = Reconcile!Broken
        /\ Reconcile!BrokenAtStart' = Reconcile!BrokenAtStart
    BY DEF Reconcile!Broken, Reconcile!BrokenAtStart
  <1>6. /\ Reconcile!FaultsShrink' /\ Reconcile!NoFalseAlarm' /\ Reconcile!RoomTaken'
        /\ query' \in 0 .. Len(Reconcile!LedgerChecks) + 1 /\ faults' \in [LedgerFaults -> Nat]
        /\ journals' \in Nat /\ projected' = journals'
    BY <1>5 DEF Reconcile!IInv, Reconcile!FaultsShrink, Reconcile!NoFalseAlarm, Reconcile!Typed,
                Reconcile!RoomTaken
  <1>7. Reconcile!LedgerLosesOnlyWhenFull'
    <2>1. results # <<>>
      OBVIOUS
    <2>2. QED
      BY <1>3, <1>5, <2>1 DEF Reconcile!IInv, Reconcile!LedgerLosesOnlyWhenFull
  <1>8. QED
    BY <1>2, <1>3, <1>4, <1>5, <1>6, <1>7

LEMMA ReportPaymentsRun ==
  ASSUME Reconcile!ConstantsOK, Reconcile!IInv, Reconcile!PaymentsRun PROVE Reconcile!IInv'
  <1> USE DEF Reconcile!PaymentsRun
  <1>1. Reconcile!Typed
    BY DEF Reconcile!IInv
  <1>2. Len(results) = 1
    BY <1>1, ReportRunning
  <1>3. payments' \in [Reconcile!PaymentsChecks -> Nat]
    BY DEF Reconcile!ConstantsOK
  <1>4. pushed' = Reconcile!PushedAt(payments')
    OBVIOUS
  <1>5. /\ \A i \in Reconcile!PaymentsChecks :
             /\ pushed'[i] \in Nat /\ pushed'[i] <= payments'[i]
             /\ payments'[i] > 0 => pushed'[i] > 0
        /\ pushed'[1] + pushed'[2] + pushed'[3] + pushed'[4] + pushed'[5] + pushed'[6]
             <= MaxIssues
    BY <1>3, <1>4, ListHoldsEveryCode, Zenon
  <1>6. PICK s \in {"PASS", "FAIL", "TIMEOUT"} :
          /\ Reconcile!End(s)
          /\ s = "PASS" => ~\E i \in Reconcile!PaymentsChecks \ Reconcile!Warnings : pushed'[i] > 0
    OBVIOUS
  <1>7. s = "PASS" => \A i \in Reconcile!PaymentsChecks \ Reconcile!Warnings : payments'[i] = 0
    <2> SUFFICES ASSUME s = "PASS", NEW i \in Reconcile!PaymentsChecks \ Reconcile!Warnings
                 PROVE  payments'[i] = 0
      OBVIOUS
    <2>1. ~(pushed'[i] > 0) /\ (payments'[i] > 0 => pushed'[i] > 0)
      BY <1>5, <1>6
    <2>2. payments'[i] \in Nat
      BY <1>3
    <2>3. QED
      BY <2>1, <2>2
  <1>8. /\ results' \in Seq({"PASS", "FAIL", "TIMEOUT"}) /\ Len(results') = 2
        /\ results'[1] = results[1] /\ results'[2] = s
        /\ Reconcile!FaultsShrink' /\ Reconcile!NoFalseAlarm' /\ Reconcile!AskedIsReported'
        /\ Reconcile!RoomTaken' /\ Reconcile!LedgerLosesOnlyWhenFull'
        /\ Reconcile!Broken' = Reconcile!Broken /\ faults' \in [LedgerFaults -> Nat]
        /\ query' \in 0 .. Len(Reconcile!LedgerChecks) + 1
        /\ journals' \in Nat /\ projected' = journals'
    <2>1. Len(results) \in {1, 2, 3} /\ Len(results) + 1 = 2
      BY <1>2
    <2>2. QED
      BY <1>6, <2>1, ReportLater, Zenon
  <1>9. Reconcile!Typed'
    BY <1>3, <1>8, ReportSizes DEF Reconcile!Typed
  <1>10. Reconcile!EveryCodeReported' /\ Reconcile!PushedWereCounted'
    BY <1>5, Zenon DEF Reconcile!EveryCodeReported, Reconcile!PushedWereCounted
  <1>11. Reconcile!PassMeans'
    <2>1. results[1] = "PASS" => Reconcile!Broken = {}
      BY <1>2 DEF Reconcile!IInv, Reconcile!PassMeans
    <2>2. Reconcile!Broken' = Reconcile!Broken
      BY <1>8
    <2>3. QED
      BY <1>7, <1>8, <2>1, <2>2 DEF Reconcile!PassMeans
  <1>12. QED
    BY <1>8, <1>9, <1>10, <1>11 DEF Reconcile!IInv

LEMMA ReportRiskRun ==
  ASSUME Reconcile!IInv, Reconcile!RiskRun PROVE Reconcile!IInv'
  <1> USE DEF Reconcile!RiskRun
  <1>1. Reconcile!Typed
    BY DEF Reconcile!IInv
  <1>2. Len(results) = 2
    BY <1>1, ReportRunning
  <1>3. PICK s \in {"PASS", "FAIL", "TIMEOUT"} : Reconcile!End(s) /\ (s = "PASS" => risk' = 0)
    OBVIOUS
  <1>4. /\ results' \in Seq({"PASS", "FAIL", "TIMEOUT"}) /\ Len(results') = 3
        /\ results'[1] = results[1] /\ results'[2] = results[2] /\ results'[3] = s
        /\ Reconcile!FaultsShrink' /\ Reconcile!NoFalseAlarm' /\ Reconcile!AskedIsReported'
        /\ Reconcile!RoomTaken' /\ Reconcile!LedgerLosesOnlyWhenFull'
        /\ Reconcile!Broken' = Reconcile!Broken /\ faults' \in [LedgerFaults -> Nat]
        /\ query' \in 0 .. Len(Reconcile!LedgerChecks) + 1
        /\ journals' \in Nat /\ projected' = journals'
    <2>1. Len(results) \in {1, 2, 3} /\ Len(results) + 1 = 3 /\ Len(results) >= 2
      BY <1>2
    <2>2. QED
      BY <1>3, <2>1, ReportLater, Zenon
  <1>5. Reconcile!Typed'
    BY <1>1, <1>4, ReportSizes DEF Reconcile!Typed
  <1>6. Reconcile!EveryCodeReported' /\ Reconcile!PushedWereCounted'
    BY DEF Reconcile!IInv, Reconcile!EveryCodeReported, Reconcile!PushedWereCounted
  <1>7. Reconcile!PassMeans'
    <2>1. /\ results[1] = "PASS" => Reconcile!Broken = {}
          /\ results[2] = "PASS" =>
                \A i \in Reconcile!PaymentsChecks \ Reconcile!Warnings : payments[i] = 0
      BY <1>2 DEF Reconcile!IInv, Reconcile!PassMeans
    <2>2. Reconcile!Broken' = Reconcile!Broken /\ payments' = payments
      BY <1>4
    <2>3. QED
      BY <1>3, <1>4, <2>1, <2>2 DEF Reconcile!PassMeans
  <1>8. QED
    BY <1>4, <1>5, <1>6, <1>7 DEF Reconcile!IInv

LEMMA ReportResilienceRun ==
  ASSUME Reconcile!IInv, Reconcile!ResilienceRun PROVE Reconcile!IInv'
  <1> USE DEF Reconcile!ResilienceRun
  <1>1. Reconcile!Typed
    BY DEF Reconcile!IInv
  <1>2. Len(results) = 3
    BY <1>1, ReportRunning
  <1>3. PICK s \in {"PASS", "FAIL", "TIMEOUT"} :
          Reconcile!End(s) /\ (s = "PASS" => Reconcile!Critical \notin resilience')
    BY DEF Reconcile!Fails
  <1>4. /\ results' \in Seq({"PASS", "FAIL", "TIMEOUT"}) /\ Len(results') = 4
        /\ results'[1] = results[1] /\ results'[2] = results[2]
        /\ results'[3] = results[3] /\ results'[4] = s
        /\ Reconcile!FaultsShrink' /\ Reconcile!NoFalseAlarm' /\ Reconcile!AskedIsReported'
        /\ Reconcile!RoomTaken' /\ Reconcile!LedgerLosesOnlyWhenFull'
        /\ Reconcile!Broken' = Reconcile!Broken /\ faults' \in [LedgerFaults -> Nat]
        /\ query' \in 0 .. Len(Reconcile!LedgerChecks) + 1
        /\ journals' \in Nat /\ projected' = journals'
    <2>1. /\ Len(results) \in {1, 2, 3} /\ Len(results) + 1 = 4
          /\ Len(results) >= 2 /\ Len(results) >= 3
      BY <1>2
    <2>2. QED
      BY <1>3, <2>1, ReportLater, Zenon
  <1>5. Reconcile!Typed'
    BY <1>1, <1>4, ReportSizes DEF Reconcile!Typed
  <1>6. Reconcile!EveryCodeReported' /\ Reconcile!PushedWereCounted'
    BY DEF Reconcile!IInv, Reconcile!EveryCodeReported, Reconcile!PushedWereCounted
  <1>7. Reconcile!PassMeans'
    <2>1. /\ results[1] = "PASS" => Reconcile!Broken = {}
          /\ results[2] = "PASS" =>
                \A i \in Reconcile!PaymentsChecks \ Reconcile!Warnings : payments[i] = 0
          /\ results[3] = "PASS" => risk = 0
      BY <1>2 DEF Reconcile!IInv, Reconcile!PassMeans
    <2>2. Reconcile!Broken' = Reconcile!Broken /\ payments' = payments /\ risk' = risk
      BY <1>4
    <2>3. QED
      BY <1>3, <1>4, <2>1, <2>2 DEF Reconcile!PassMeans
  <1>8. QED
    BY <1>4, <1>5, <1>6, <1>7 DEF Reconcile!IInv

\* A script that is killed passes nothing.
LEMMA ReportTimeout ==
  ASSUME Reconcile!IInv, Reconcile!Timeout PROVE Reconcile!IInv'
  <1> USE DEF Reconcile!Timeout
  <1>1. Reconcile!Typed /\ Len(results) < 4
    BY ReportSizes DEF Reconcile!IInv
  <1>2. /\ results' \in Seq({"PASS", "FAIL", "TIMEOUT"})
        /\ Len(results') = Len(results) + 1
        /\ \A i \in 1 .. Len(results) : results'[i] = results[i]
        /\ results'[Len(results) + 1] = "TIMEOUT"
    BY <1>1, ReportEnd
  <1>3. Len(results) \in {0, 1, 2, 3}
    <2>1. \A n \in Nat : n < 4 => n \in {0, 1, 2, 3}
      OBVIOUS
    <2>2. QED
      BY <1>1, <2>1, ReportRunning, Zenon
  <1>4. \A i \in {1, 2, 3, 4} :
          Len(results') >= i /\ results'[i] = "PASS" => Len(results) >= i /\ results[i] = "PASS"
    <2> SUFFICES ASSUME NEW i \in {1, 2, 3, 4}, Len(results') >= i, results'[i] = "PASS"
                 PROVE  Len(results) >= i /\ results[i] = "PASS"
      OBVIOUS
    <2>1. i # Len(results) + 1
      BY <1>2
    <2>2. i <= Len(results)
      BY <1>2, <1>3, <2>1
    <2>3. i \in 1 .. Len(results)
      BY <1>3, <2>2
    <2>4. QED
      BY <1>2, <1>3, <2>2, <2>3
  <1>5. Len(results') <= 4 /\ Len(results') # 0
    BY <1>2, <1>3
  <1>6. Reconcile!Typed'
    BY <1>1, <1>2, <1>5, ReportSizes DEF Reconcile!Typed
  <1>7. Reconcile!AskedIsReported'
    BY <1>5 DEF Reconcile!AskedIsReported
  <1>8. /\ Reconcile!Broken' = Reconcile!Broken
        /\ Reconcile!BrokenAtStart' = Reconcile!BrokenAtStart
    BY DEF Reconcile!Broken, Reconcile!BrokenAtStart
  <1>9. /\ Reconcile!FaultsShrink' /\ Reconcile!NoFalseAlarm' /\ Reconcile!EveryCodeReported'
        /\ Reconcile!RoomTaken' /\ Reconcile!PushedWereCounted'
    BY <1>8 DEF Reconcile!IInv, Reconcile!FaultsShrink, Reconcile!NoFalseAlarm,
           Reconcile!EveryCodeReported, Reconcile!RoomTaken, Reconcile!PushedWereCounted
  <1>10. Reconcile!PassMeans'
    <2>1. Reconcile!PassMeans /\ UNCHANGED <<payments, risk, resilience>>
      BY DEF Reconcile!IInv
    <2>2. QED
      BY <1>4, <1>8, <2>1 DEF Reconcile!PassMeans
  <1>11. Reconcile!LedgerLosesOnlyWhenFull'
    <2>1. CASE Len(results) = 0
      <3>1. results'[1] = "TIMEOUT"
        BY <1>2, <2>1
      <3>2. QED
        BY <3>1 DEF Reconcile!LedgerLosesOnlyWhenFull
    <2>2. CASE Len(results) # 0
      <3>1. results # <<>> /\ results'[1] = results[1]
        BY <1>2, <1>3, <2>2
      <3>2. QED
        BY <1>8, <3>1 DEF Reconcile!IInv, Reconcile!LedgerLosesOnlyWhenFull
    <2>3. QED
      BY <2>1, <2>2
  <1>12. QED
    BY <1>6, <1>7, <1>9, <1>10, <1>11 DEF Reconcile!IInv

LEMMA ReportNext ==
  ASSUME Reconcile!ConstantsOK, Reconcile!IInv, Reconcile!Next
  PROVE  Reconcile!IInv'
  BY ReportPostJournal, ReportRepair, ReportLedgerQuery, ReportLedgerEnds,
     ReportPaymentsRun, ReportRiskRun, ReportResilienceRun, ReportTimeout
  DEF Reconcile!Next

LEMMA ReportTrue ==
  ASSUME Reconcile!ConstantsOK, Reconcile!IInv
  PROVE  /\ Reconcile!NoFalseAlarm /\ Reconcile!AllPassIsTrue
         /\ Reconcile!LedgerLosesOnlyWhenFull /\ Reconcile!EveryCodeReported
         /\ Reconcile!PrintedUnlessCrowded
  <1>1. ASSUME results = [i \in DOMAIN Reconcile!Scripts |-> "PASS"]
        PROVE  /\ Len(results) = 4
               /\ results[1] = "PASS" /\ results[2] = "PASS"
               /\ results[3] = "PASS" /\ results[4] = "PASS"
    <2>1. DOMAIN Reconcile!Scripts = 1 .. 4
      BY DEF Reconcile!Scripts
    <2>2. results = [i \in 1 .. 4 |-> "PASS"]
      BY <1>1, <2>1
    <2>3. /\ results[1] = "PASS" /\ results[2] = "PASS"
          /\ results[3] = "PASS" /\ results[4] = "PASS"
      BY <2>2
    <2>4. Len(results) \in Nat /\ DOMAIN results = 1 .. Len(results)
      BY DEF Reconcile!IInv, Reconcile!Typed
    <2>5. DOMAIN results = 1 .. 4
      BY <2>2
    <2>6. Len(results) = 4
      <3>1. \A n \in Nat : 1 .. n = 1 .. 4 => n = 4
        OBVIOUS
      <3>2. QED
        BY <2>4, <2>5, <3>1, Zenon
    <2>7. QED
      BY <2>3, <2>6
  <1>2. Reconcile!AllPassIsTrue
    BY <1>1 DEF Reconcile!AllPassIsTrue, Reconcile!IInv, Reconcile!PassMeans
  <1>3. Reconcile!PrintedUnlessCrowded
    <2> SUFFICES ASSUME NEW i \in Reconcile!PaymentsChecks, payments[i] > 0,
                        ~(Reconcile!Before(payments, i) >= MaxPrinted)
                 PROVE  Reconcile!Printed(i)
      BY DEF Reconcile!PrintedUnlessCrowded
    <2>1. pushed[i] > 0
      BY DEF Reconcile!IInv, Reconcile!EveryCodeReported
    <2>2. \A k \in 1 .. 6 : /\ pushed[k] \in Nat /\ payments[k] \in Nat
                           /\ pushed[k] <= payments[k]
      BY DEF Reconcile!IInv, Reconcile!PushedWereCounted, Reconcile!Typed,
             Reconcile!PaymentsChecks
    <2>3. /\ pushed[1] \in Nat /\ payments[1] \in Nat /\ pushed[1] <= payments[1]
          /\ pushed[2] \in Nat /\ payments[2] \in Nat /\ pushed[2] <= payments[2]
          /\ pushed[3] \in Nat /\ payments[3] \in Nat /\ pushed[3] <= payments[3]
          /\ pushed[4] \in Nat /\ payments[4] \in Nat /\ pushed[4] <= payments[4]
          /\ pushed[5] \in Nat /\ payments[5] \in Nat /\ pushed[5] <= payments[5]
      BY <2>2
    <2>4. /\ Reconcile!Before(pushed, i) \in Nat /\ Reconcile!Before(payments, i) \in Nat
          /\ Reconcile!Before(pushed, i) <= Reconcile!Before(payments, i)
      <3>1. i \in {1, 2, 3, 4, 5, 6}
        BY DEF Reconcile!PaymentsChecks
      <3>2. CASE i = 1
        BY <3>2 DEF Reconcile!Before
      <3>3. CASE i = 2
        BY <2>3, <3>3 DEF Reconcile!Before
      <3>4. CASE i = 3
        BY <2>3, <3>4 DEF Reconcile!Before
      <3>5. CASE i = 4
        BY <2>3, <3>5 DEF Reconcile!Before
      <3>6. CASE i = 5
        BY <2>3, <3>6 DEF Reconcile!Before
      <3>7. CASE i = 6
        BY <2>3, <3>7 DEF Reconcile!Before
      <3>8. QED
        BY <3>1, <3>2, <3>3, <3>4, <3>5, <3>6, <3>7
    <2>5. MaxPrinted \in Nat
      BY DEF Reconcile!ConstantsOK
    <2>6. Reconcile!Before(pushed, i) < MaxPrinted
      BY <2>4, <2>5
    <2>7. QED
      BY <2>1, <2>6 DEF Reconcile!Printed
  <1>4. QED
    BY <1>2, <1>3 DEF Reconcile!IInv

-----------------------------------------------------------------------------
(* The forms *)

LEMMA FormsFinite == \A S : Forms!IsFiniteSet(S) <=> IsFiniteSet(S)
  BY DEF Forms!IsFiniteSet, IsFiniteSet

LEMMA FormsSameCount == \A S : Forms!Cardinality(S) = Cardinality(S)
  BY DEF Forms!Cardinality, Cardinality

LEMMA FormsCount ==
  ASSUME NEW S, Forms!IsFiniteSet(S)
  PROVE  Forms!Cardinality(S) \in Nat
  BY FormsFinite, FormsSameCount, FS_CardinalityType

LEMMA FormsCountMore ==
  ASSUME NEW S, NEW x, Forms!IsFiniteSet(S), x \notin S
  PROVE  /\ Forms!IsFiniteSet(S \cup {x})
         /\ Forms!Cardinality(S \cup {x}) = Forms!Cardinality(S) + 1
  <1>1. IsFiniteSet(S)
    BY FormsFinite, Zenon
  <1>2. IsFiniteSet(S \cup {x}) /\ Cardinality(S \cup {x}) = Cardinality(S) + 1
    BY <1>1, FS_AddElement
  <1>3. QED
    BY <1>2, FormsFinite, FormsSameCount, Zenon

\* A request that is answered keeps its place.
LEMMA FormsCountSame ==
  ASSUME NEW S, NEW x \in S, NEW y, Forms!IsFiniteSet(S), y \notin S \ {x}
  PROVE  /\ Forms!IsFiniteSet((S \ {x}) \cup {y})
         /\ Forms!Cardinality((S \ {x}) \cup {y}) = Forms!Cardinality(S)
  <1>1. IsFiniteSet(S) /\ Cardinality(S) \in Nat
    BY FormsFinite, FS_CardinalityType, Zenon
  <1>2. IsFiniteSet(S \ {x}) /\ Cardinality(S \ {x}) = Cardinality(S) - 1
    BY <1>1, FS_RemoveElement
  <1>3. /\ IsFiniteSet((S \ {x}) \cup {y})
        /\ Cardinality((S \ {x}) \cup {y}) = Cardinality(S \ {x}) + 1
    BY <1>2, FS_AddElement
  <1>4. Cardinality((S \ {x}) \cup {y}) = Cardinality(S)
    BY <1>1, <1>2, <1>3
  <1>5. QED
    BY <1>3, <1>4, FormsFinite, FormsSameCount, Zenon

LEMMA FormsCountLess ==
  ASSUME NEW S, NEW T, Forms!IsFiniteSet(S), T \subseteq S
  PROVE  /\ Forms!IsFiniteSet(T) /\ Forms!Cardinality(T) \in Nat
         /\ Forms!Cardinality(T) <= Forms!Cardinality(S)
  <1>1. IsFiniteSet(S) /\ T \in SUBSET S
    BY FormsFinite, Zenon
  <1>2. IsFiniteSet(T) /\ Cardinality(T) <= Cardinality(S)
    BY <1>1, FS_Subset
  <1>3. Cardinality(T) \in Nat
    BY <1>2, FS_CardinalityType
  <1>4. QED
    BY <1>2, <1>3, FormsFinite, FormsSameCount, Zenon

\* Which requests a form sends.
LEMMA FormKinds ==
  /\ form = "transfer" => Forms!KindsOn(form) = {"preview", "confirm"}
  /\ form = "account" => Forms!KindsOn(form) = {"provision"}
  /\ form = "drill" => Forms!KindsOn(form) = {"plan"}
  BY DEF Forms!KindsOn

LEMMA FormsInit == ASSUME Forms!Init PROVE Forms!IInv
  <1> USE DEF Forms!Init
  <1>1. Forms!IsFiniteSet({}) /\ Forms!Cardinality({}) = 0
    BY FormsFinite, FormsSameCount, FS_EmptySet
  <1>2. Forms!Typed
    <2>1. formError \in BOOLEAN /\ done \in BOOLEAN
      BY Zenon
    <2>2. form \in Forms!Forms /\ mount \in Nat \ {0} /\ told \in Nat
      OBVIOUS
    <2>3. QED
      BY <1>1, <2>1, <2>2, Zenon DEF Forms!Typed
  <1>3. Forms!Announced = {}
    BY DEF Forms!Announced
  <1>4. Forms!AnnouncedIsTold
    BY <1>1, <1>3 DEF Forms!AnnouncedIsTold
  <1>5. /\ Forms!Numbered /\ Forms!Awaited /\ Forms!ErrorLine /\ Forms!MadeByCall
        /\ Forms!OneKeyPerMount /\ Forms!StandingIsKnown
    BY DEF Forms!Numbered, Forms!Awaited, Forms!ErrorLine, Forms!MadeByCall,
           Forms!OneKeyPerMount, Forms!StandingIsKnown
  <1>6. QED
    BY <1>2, <1>4, <1>5 DEF Forms!IInv

\* Neither what is typed nor the review screen matters.
LEMMA FormsLocal ==
  ASSUME Forms!IInv, UNCHANGED <<form, mount, key, waiting, formError, done, formCalls,
                                 made, told, lost>>
  PROVE  Forms!IInv'
  <1>1. Forms!Typed'
    BY DEF Forms!IInv, Forms!Typed
  <1>2. Forms!AnnouncedIsTold'
    <2>1. Forms!Announced' = Forms!Announced
      BY DEF Forms!Announced
    <2>2. QED
      BY <2>1 DEF Forms!IInv, Forms!AnnouncedIsTold
  <1>3. /\ Forms!Numbered' /\ Forms!Awaited' /\ Forms!ErrorLine' /\ Forms!MadeByCall'
        /\ Forms!OneKeyPerMount' /\ Forms!StandingIsKnown'
    BY DEF Forms!IInv, Forms!Numbered, Forms!Awaited, Forms!ErrorLine, Forms!MadeByCall,
           Forms!OneKeyPerMount, Forms!StandingIsKnown
  <1>4. QED
    BY <1>1, <1>2, <1>3 DEF Forms!IInv

\* The facts every step uses: what a request and the maker of a record are.
LEMMA FormsFacts ==
  ASSUME Forms!IInv
  PROVE  /\ \A c \in formCalls : c.id \in Nat /\ c.id # 0 /\ c.id <= Forms!Cardinality(formCalls)
         /\ Forms!Cardinality(formCalls) \in Nat
         /\ \A r \in made : \E c \in formCalls :
               /\ c.id = r.id /\ c.kind = r.kind /\ c.mount = r.mount
               /\ c.key = r.key /\ c.answer = r.status /\ c.answer # "none"
         /\ \A r \in made : r.id # 0 /\ r.id \in Nat /\ r.id <= Forms!Cardinality(formCalls)
         /\ mount \in Nat /\ mount >= 1
         /\ \A c \in formCalls : c.mount \in Nat /\ c.mount <= mount
  <1>1. Forms!Cardinality(formCalls) \in Nat
    BY FormsCount DEF Forms!IInv, Forms!Typed
  <1>2. \A c \in formCalls : c.id \in Nat /\ c.id # 0 /\ c.id <= Forms!Cardinality(formCalls)
    BY <1>1 DEF Forms!IInv, Forms!Numbered
  <1>3. \A r \in made : \E c \in formCalls :
          /\ c.id = r.id /\ c.kind = r.kind /\ c.mount = r.mount
          /\ c.key = r.key /\ c.answer = r.status /\ c.answer # "none"
    BY DEF Forms!IInv, Forms!MadeByCall
  <1>4. \A r \in made : r.id # 0 /\ r.id \in Nat /\ r.id <= Forms!Cardinality(formCalls)
    BY <1>2, <1>3, Zenon
  <1>5. mount \in Nat /\ mount >= 1
    BY DEF Forms!IInv, Forms!Typed
  <1>6. \A c \in formCalls : c.mount \in Nat /\ c.mount <= mount
    BY <1>5 DEF Forms!IInv, Forms!Typed
  <1>7. QED
    BY <1>1, <1>2, <1>3, <1>4, <1>5, <1>6

-----------------------------------------------------------------------------
\* A press: the new request has the next number, belongs to this opening and
\* is awaited; a confirmation carries the key of the opening.
LEMMA FormsSend ==
  ASSUME Forms!IInv, NEW kind \in Forms!KindsOn(form), NEW k, Forms!Send(kind, k),
         waiting = 0, ~done, kind = "confirm" => k = key' /\ k # 0,
         \A c \in formCalls : c.kind = "confirm" /\ c.mount = mount => c.key = key'
  PROVE  Forms!IInv'
  <1> DEFINE n == Forms!NextNumber
             new == [id |-> n, kind |-> kind, key |-> k, intent |-> preview,
                     amount |-> typed, mount |-> mount, answer |-> "none"]
  <1>1. /\ formCalls' = formCalls \cup {new} /\ waiting' = n /\ formError' = FALSE
        /\ UNCHANGED <<form, mount, done, made, told, lost>>
    BY DEF Forms!Send
  <1>2. n = Forms!Cardinality(formCalls) + 1
    BY DEF Forms!NextNumber
  <1> HIDE DEF n
  <1>3. n \in Nat /\ n # 0 /\ \A c \in formCalls : c.id # n /\ c.id \in Nat /\ c.id # 0 /\ c.id <= n
    BY <1>2, FormsFacts
  <1>4. \A r \in made : r.id # n /\ r.id # 0
    BY <1>2, FormsFacts
  <1>5. /\ new.id = n /\ new.kind = kind /\ new.key = k /\ new.mount = mount
        /\ new.answer = "none"
        /\ new = [id |-> new.id, kind |-> new.kind, key |-> new.key, intent |-> new.intent,
                  amount |-> new.amount, mount |-> new.mount, answer |-> new.answer]
    OBVIOUS
  <1> HIDE DEF new
  <1>6. new \notin formCalls
    BY <1>3, <1>5
  <1>7. Forms!IsFiniteSet(formCalls') /\ Forms!Cardinality(formCalls') = n
    BY <1>1, <1>2, <1>6, FormsCountMore DEF Forms!IInv, Forms!Typed
  <1>8. Forms!Typed'
    <2>1. formError' \in BOOLEAN /\ done' \in BOOLEAN
      BY <1>1, Zenon DEF Forms!IInv, Forms!Typed
    <2>2. \A c \in formCalls' :
            /\ c = [id |-> c.id, kind |-> c.kind, key |-> c.key, intent |-> c.intent,
                    amount |-> c.amount, mount |-> c.mount, answer |-> c.answer]
            /\ c.kind \in Forms!KindsOn(form)' /\ c.mount \in 1..mount'
      <3>1. mount \in 1..mount
        BY FormsFacts
      <3>2. Forms!KindsOn(form)' = Forms!KindsOn(form)
        BY <1>1 DEF Forms!KindsOn
      <3>3. QED
        BY <1>1, <1>5, <3>1, <3>2 DEF Forms!IInv, Forms!Typed
    <2>3. \A r \in made' : r.kind \in Forms!KindsOn(form)'
      BY <1>1 DEF Forms!IInv, Forms!Typed, Forms!KindsOn
    <2>4. /\ form' \in Forms!Forms /\ mount' \in Nat \ {0} /\ told' \in Nat
          /\ Forms!IsFiniteSet(made') /\ Forms!IsFiniteSet(lost')
      BY <1>1 DEF Forms!IInv, Forms!Typed
    <2>5. QED
      BY <1>7, <2>1, <2>2, <2>3, <2>4, Zenon DEF Forms!Typed
  <1>9. Forms!Numbered'
    <2>1. \A c \in formCalls' : c.id \in 1 .. Forms!Cardinality(formCalls')
      BY <1>1, <1>3, <1>5, <1>7
    <2>2. \A c, d \in formCalls' : c.id = d.id => c = d
      BY <1>1, <1>3, <1>5 DEF Forms!IInv, Forms!Numbered
    <2>3. QED
      BY <2>1, <2>2 DEF Forms!Numbered
  <1>10. Forms!Awaited'
    BY <1>1, <1>3, <1>5 DEF Forms!IInv, Forms!Awaited
  <1>11. Forms!ErrorLine'
    BY <1>1 DEF Forms!ErrorLine
  <1>12. Forms!MadeByCall'
    BY <1>1 DEF Forms!IInv, Forms!MadeByCall
  <1>13. Forms!OneKeyPerMount'
    <2>1. \A c \in formCalls' : c.kind = "confirm" /\ c.mount = mount' => c.key = key' /\ key' # 0
      BY <1>1, <1>5 DEF Forms!IInv, Forms!OneKeyPerMount
    <2>2. \A c, d \in formCalls' : c.kind = "confirm" /\ d.kind = "confirm" /\ c.mount = d.mount
                                    => c.key = d.key
      BY <1>1, <1>5, <2>1 DEF Forms!IInv, Forms!OneKeyPerMount
    <2>3. QED
      BY <1>1, <2>1, <2>2 DEF Forms!IInv, Forms!OneKeyPerMount
  <1>14. Forms!StandingIsKnown'
    BY <1>1, <1>4 DEF Forms!IInv, Forms!StandingIsKnown
  <1>15. Forms!AnnouncedIsTold'
    <2>1. Forms!Announced' = Forms!Announced
      BY <1>1, <1>4 DEF Forms!Announced
    <2>2. QED
      BY <1>1, <2>1 DEF Forms!IInv, Forms!AnnouncedIsTold
  <1>16. QED
    BY <1>8, <1>9, <1>10, <1>11, <1>12, <1>13, <1>14, <1>15 DEF Forms!IInv

\* The key made at the first press is kept: KeyFor.
LEMMA FormsPress ==
  ASSUME Forms!IInv,
         Forms!review \/ Forms!confirm \/ Forms!createAccount \/ Forms!planDrill
  PROVE  Forms!IInv'
  <1>1. \A c \in formCalls : c.kind = "confirm" /\ c.mount = mount => c.key = key /\ key # 0
    BY DEF Forms!IInv, Forms!OneKeyPerMount
  <1>2. Forms!NextNumber # 0
    BY FormsFacts DEF Forms!NextNumber
  <1>3. \A c \in formCalls : c.kind \in Forms!KindsOn(form)
    BY DEF Forms!IInv, Forms!Typed
  <1>4. CASE Forms!review
    <2>1. /\ "preview" \in Forms!KindsOn(form) /\ waiting = 0 /\ ~done
          /\ Forms!Send("preview", 0) /\ key' = key
      BY <1>4, FormKinds DEF Forms!review
    <2>2. QED
      BY <1>1, <2>1, FormsSend
  <1>5. CASE Forms!confirm
    <2>1. /\ "confirm" \in Forms!KindsOn(form) /\ waiting = 0 /\ ~done
          /\ Forms!Send("confirm", Forms!KeyFor(key)) /\ key' = Forms!KeyFor(key)
      BY <1>5, FormKinds DEF Forms!confirm
    <2>2. Forms!KeyFor(key) # 0 /\ (key # 0 => Forms!KeyFor(key) = key)
      BY <1>2 DEF Forms!KeyFor
    <2>3. QED
      BY <1>1, <2>1, <2>2, FormsSend
  <1>6. CASE Forms!createAccount
    <2>1. /\ Forms!KindsOn(form) = {"provision"} /\ waiting = 0 /\ ~done
          /\ Forms!Send("provision", Forms!KeyFor(key))
      BY <1>6, FormKinds DEF Forms!createAccount
    <2>2. QED
      BY <1>3, <2>1, FormsSend
  <1>7. CASE Forms!planDrill
    <2>1. /\ Forms!KindsOn(form) = {"plan"} /\ waiting = 0 /\ form = "drill"
          /\ Forms!Send("plan", 0)
      BY <1>7, FormKinds DEF Forms!planDrill, Forms!Enabled
    <2>2. ~done
      BY <2>1 DEF Forms!IInv, Forms!ErrorLine
    <2>3. QED
      BY <1>3, <2>1, <2>2, FormsSend
  <1>8. QED
    BY <1>4, <1>5, <1>6, <1>7

-----------------------------------------------------------------------------
\* An answer replaces a request that had none; makers of records stay.
LEMMA FormsAnswered ==
  ASSUME Forms!IInv, NEW c \in formCalls, NEW d, c.answer = "none", d.answer # "none",
         d = [id |-> c.id, kind |-> c.kind, key |-> c.key, intent |-> d.intent,
              amount |-> c.amount, mount |-> c.mount, answer |-> d.answer],
         formCalls' = (formCalls \ {c}) \cup {d},
         UNCHANGED <<form, mount, key, waiting, formError, done, told, lost>>
  PROVE  /\ Forms!IsFiniteSet(formCalls')
         /\ \A e \in formCalls' :
               /\ e = [id |-> e.id, kind |-> e.kind, key |-> e.key, intent |-> e.intent,
                       amount |-> e.amount, mount |-> e.mount, answer |-> e.answer]
               /\ e.kind \in Forms!KindsOn(form)' /\ e.mount \in 1..mount'
         /\ Forms!Numbered' /\ Forms!Awaited' /\ Forms!ErrorLine'
         /\ \A e, f \in formCalls' : e.kind = "confirm" /\ f.kind = "confirm" /\ e.mount = f.mount
                                     => e.key = f.key
         /\ \A e \in formCalls' : e.kind = "confirm" /\ e.mount = mount' => e.key = key' /\ key' # 0
         /\ \A r \in made : \E e \in formCalls' :
               /\ e.id = r.id /\ e.kind = r.kind /\ e.mount = r.mount
               /\ e.key = r.key /\ e.answer = r.status
         /\ \A r \in made : r.id # c.id
  <1>1. d.id = c.id /\ d.kind = c.kind /\ d.key = c.key /\ d.mount = c.mount
          /\ d.amount = c.amount
    OBVIOUS
  <1>2. \A e, f \in formCalls : e.id = f.id => e = f
    BY DEF Forms!IInv, Forms!Numbered
  <1>3. d \notin formCalls \ {c}
    BY <1>1, <1>2
  <1>4. /\ Forms!IsFiniteSet(formCalls')
        /\ Forms!Cardinality(formCalls') = Forms!Cardinality(formCalls)
    BY <1>3, FormsCountSame DEF Forms!IInv, Forms!Typed
  <1>5. Forms!KindsOn(form)' = Forms!KindsOn(form)
    BY DEF Forms!KindsOn
  <1>6. \A e \in formCalls' :
          /\ e = [id |-> e.id, kind |-> e.kind, key |-> e.key, intent |-> e.intent,
                  amount |-> e.amount, mount |-> e.mount, answer |-> e.answer]
          /\ e.kind \in Forms!KindsOn(form)' /\ e.mount \in 1..mount'
    <2>1. c.kind \in Forms!KindsOn(form) /\ c.mount \in 1..mount
      BY DEF Forms!IInv, Forms!Typed
    <2>2. d = [id |-> d.id, kind |-> d.kind, key |-> d.key, intent |-> d.intent,
               amount |-> d.amount, mount |-> d.mount, answer |-> d.answer]
      BY <1>1
    <2>3. QED
      BY <1>1, <1>5, <2>1, <2>2 DEF Forms!IInv, Forms!Typed
  <1>7. Forms!Numbered'
    <2>1. \A e \in formCalls' : e.id \in 1 .. Forms!Cardinality(formCalls')
      BY <1>1, <1>4 DEF Forms!IInv, Forms!Numbered
    <2>2. \A e, f \in formCalls' : e.id = f.id => e = f
      BY <1>1, <1>2
    <2>3. QED
      BY <2>1, <2>2 DEF Forms!Numbered
  <1>8. Forms!Awaited'
    <2>1. waiting' # 0 => \E e \in formCalls' : e.id = waiting'
      BY <1>1 DEF Forms!IInv, Forms!Awaited
    <2>2. \A e \in formCalls' :
            /\ e.id = waiting' => e.mount = mount'
            /\ e.answer = "none" => e.id = waiting' \/ <<e.mount, e.id>> \in lost'
      BY <1>1 DEF Forms!IInv, Forms!Awaited
    <2>3. QED
      BY <2>1, <2>2 DEF Forms!Awaited
  <1>9. Forms!ErrorLine'
    BY DEF Forms!IInv, Forms!ErrorLine
  <1>10. \A e, f \in formCalls' : e.kind = "confirm" /\ f.kind = "confirm" /\ e.mount = f.mount
                                  => e.key = f.key
    BY <1>1 DEF Forms!IInv, Forms!OneKeyPerMount
  <1>11. \A e \in formCalls' : e.kind = "confirm" /\ e.mount = mount' => e.key = key' /\ key' # 0
    BY <1>1 DEF Forms!IInv, Forms!OneKeyPerMount
  <1>12. ASSUME NEW r \in made
         PROVE  /\ r.id # c.id
                /\ \E e \in formCalls' : /\ e.id = r.id /\ e.kind = r.kind /\ e.mount = r.mount
                                         /\ e.key = r.key /\ e.answer = r.status
    <2>1. PICK e \in formCalls : /\ e.id = r.id /\ e.kind = r.kind /\ e.mount = r.mount
                                 /\ e.key = r.key /\ e.answer = r.status /\ e.answer # "none"
      BY FormsFacts
    <2>2. e # c
      BY <2>1
    <2>3. e \in formCalls' /\ e.id # c.id
      BY <1>2, <2>2
    <2>4. QED
      BY <2>1, <2>3
  <1>13. QED
    BY <1>4, <1>6, <1>7, <1>8, <1>9, <1>10, <1>11, <1>12

\* An answer that makes no record.
LEMMA FormsAnsweredOnly ==
  ASSUME Forms!IInv, NEW c \in formCalls, NEW d, c.answer = "none", d.answer # "none",
         d = [id |-> c.id, kind |-> c.kind, key |-> c.key, intent |-> d.intent,
              amount |-> c.amount, mount |-> c.mount, answer |-> d.answer],
         formCalls' = (formCalls \ {c}) \cup {d},
         UNCHANGED <<form, mount, key, waiting, formError, done, told, lost, made>>
  PROVE  Forms!IInv'
  <1>1. /\ Forms!IsFiniteSet(formCalls')
        /\ \A e \in formCalls' :
              /\ e = [id |-> e.id, kind |-> e.kind, key |-> e.key, intent |-> e.intent,
                      amount |-> e.amount, mount |-> e.mount, answer |-> e.answer]
              /\ e.kind \in Forms!KindsOn(form)' /\ e.mount \in 1..mount'
        /\ Forms!Numbered' /\ Forms!Awaited' /\ Forms!ErrorLine'
        /\ \A e, f \in formCalls' : e.kind = "confirm" /\ f.kind = "confirm" /\ e.mount = f.mount
                                    => e.key = f.key
        /\ \A e \in formCalls' : e.kind = "confirm" /\ e.mount = mount' => e.key = key' /\ key' # 0
        /\ \A r \in made : \E e \in formCalls' :
              /\ e.id = r.id /\ e.kind = r.kind /\ e.mount = r.mount
              /\ e.key = r.key /\ e.answer = r.status
    BY FormsAnswered, Zenon
  <1>2. Forms!Typed'
    <2>1. /\ form' \in Forms!Forms /\ mount' \in Nat \ {0} /\ told' \in Nat
          /\ Forms!IsFiniteSet(made') /\ Forms!IsFiniteSet(lost')
          /\ \A r \in made' : r.kind \in Forms!KindsOn(form)'
      BY DEF Forms!IInv, Forms!Typed, Forms!KindsOn
    <2>2. formError' \in BOOLEAN /\ done' \in BOOLEAN
      BY Zenon DEF Forms!IInv, Forms!Typed
    <2>3. QED
      BY <1>1, <2>1, <2>2, Zenon DEF Forms!Typed
  <1>3. Forms!MadeByCall'
    BY <1>1 DEF Forms!IInv, Forms!MadeByCall
  <1>4. Forms!OneKeyPerMount'
    BY <1>1 DEF Forms!IInv, Forms!OneKeyPerMount
  <1>5. Forms!StandingIsKnown'
    BY DEF Forms!IInv, Forms!StandingIsKnown
  <1>6. Forms!AnnouncedIsTold'
    <2>1. Forms!Announced' = Forms!Announced
      BY DEF Forms!Announced
    <2>2. QED
      BY <2>1 DEF Forms!IInv, Forms!AnnouncedIsTold
  <1>7. QED
    BY <1>1, <1>2, <1>3, <1>4, <1>5, <1>6 DEF Forms!IInv

\* An answer that makes a record: its request is awaited or was given up on,
\* so nobody has been told of it yet.
LEMMA FormsAnsweredMade ==
  ASSUME Forms!IInv, NEW c \in formCalls, NEW d, c.answer = "none",
         d = [id |-> c.id, kind |-> c.kind, key |-> c.key, intent |-> d.intent,
              amount |-> c.amount, mount |-> c.mount, answer |-> d.answer],
         d.answer \in {"COMPLETED", "PROCESSING", "FAILED"},
         form = "drill" => d.answer = "COMPLETED",
         formCalls' = (formCalls \ {c}) \cup {d},
         NEW i, made' = made \cup {[id |-> c.id, kind |-> c.kind, key |-> c.key,
                                    mount |-> c.mount, intent |-> i, status |-> d.answer]},
         c.kind = "confirm" => \A r \in made : r.key # c.key,
         UNCHANGED <<form, mount, key, waiting, formError, done, told, lost>>
  PROVE  Forms!IInv'
  <1> DEFINE new == [id |-> c.id, kind |-> c.kind, key |-> c.key,
                     mount |-> c.mount, intent |-> i, status |-> d.answer]
  <1>1. d.answer # "none"
    OBVIOUS
  <1>2. /\ Forms!IsFiniteSet(formCalls')
        /\ \A e \in formCalls' :
              /\ e = [id |-> e.id, kind |-> e.kind, key |-> e.key, intent |-> e.intent,
                      amount |-> e.amount, mount |-> e.mount, answer |-> e.answer]
              /\ e.kind \in Forms!KindsOn(form)' /\ e.mount \in 1..mount'
        /\ Forms!Numbered' /\ Forms!Awaited' /\ Forms!ErrorLine'
        /\ \A e, f \in formCalls' : e.kind = "confirm" /\ f.kind = "confirm" /\ e.mount = f.mount
                                    => e.key = f.key
        /\ \A e \in formCalls' : e.kind = "confirm" /\ e.mount = mount' => e.key = key' /\ key' # 0
        /\ \A r \in made : \E e \in formCalls' :
              /\ e.id = r.id /\ e.kind = r.kind /\ e.mount = r.mount
              /\ e.key = r.key /\ e.answer = r.status
        /\ \A r \in made : r.id # c.id
    BY <1>1, FormsAnswered, Zenon
  <1>3. /\ made' = made \cup {new} /\ new.id = c.id /\ new.kind = c.kind /\ new.key = c.key
        /\ new.mount = c.mount /\ new.status = d.answer
    OBVIOUS
  <1>4. d.id = c.id /\ d.kind = c.kind /\ d.key = c.key /\ d.mount = c.mount /\ d \in formCalls'
    OBVIOUS
  <1> HIDE DEF new
  <1>5. new \notin made
    BY <1>2, <1>3
  <1>6. Forms!Typed'
    <2>1. Forms!IsFiniteSet(made')
      BY <1>3, <1>5, FormsCountMore DEF Forms!IInv, Forms!Typed
    <2>2. /\ form' \in Forms!Forms /\ mount' \in Nat \ {0} /\ told' \in Nat
          /\ Forms!IsFiniteSet(lost')
      BY DEF Forms!IInv, Forms!Typed
    <2>3. \A r \in made' : r.kind \in Forms!KindsOn(form)'
      BY <1>3 DEF Forms!IInv, Forms!Typed, Forms!KindsOn
    <2>4. formError' \in BOOLEAN /\ done' \in BOOLEAN
      BY Zenon DEF Forms!IInv, Forms!Typed
    <2>5. QED
      BY <1>2, <2>1, <2>2, <2>3, <2>4, Zenon DEF Forms!Typed
  <1>7. Forms!MadeByCall'
    <2>1. \A r \in made' : \E e \in formCalls' :
            /\ e.id = r.id /\ e.kind = r.kind /\ e.mount = r.mount
            /\ e.key = r.key /\ e.answer = r.status
      BY <1>2, <1>3, <1>4
    <2>2. \A r \in made' : r.status \in {"COMPLETED", "PROCESSING", "FAILED"}
      BY <1>3 DEF Forms!IInv, Forms!MadeByCall
    <2>3. form' = "drill" => \A r \in made' : r.status = "COMPLETED"
      BY <1>3 DEF Forms!IInv, Forms!MadeByCall
    <2>4. \A r, s \in made' : r.id = s.id => r = s
      BY <1>2, <1>3 DEF Forms!IInv, Forms!MadeByCall
    <2>5. QED
      BY <2>1, <2>2, <2>3, <2>4 DEF Forms!MadeByCall
  <1>8. Forms!OneKeyPerMount'
    <2>1. \A r, s \in made' : r.kind = "confirm" /\ s.kind = "confirm" /\ r.key = s.key => r = s
      BY <1>3 DEF Forms!IInv, Forms!OneKeyPerMount
    <2>2. QED
      BY <1>2, <2>1 DEF Forms!OneKeyPerMount
  <1>9. c.id = waiting \/ <<c.mount, c.id>> \in lost
    BY DEF Forms!IInv, Forms!Awaited
  <1>10. Forms!StandingIsKnown'
    <2>1. <<c.mount, c.id>> \in lost => \E l \in lost : l[1] = c.mount
      OBVIOUS
    <2>2. QED
      BY <1>3, <1>9, <2>1 DEF Forms!IInv, Forms!StandingIsKnown
  <1>11. Forms!AnnouncedIsTold'
    <2>1. Forms!Announced' = Forms!Announced
      BY <1>3, <1>9 DEF Forms!Announced
    <2>2. QED
      BY <2>1 DEF Forms!IInv, Forms!AnnouncedIsTold
  <1>12. QED
    BY <1>2, <1>6, <1>7, <1>8, <1>10, <1>11 DEF Forms!IInv

LEMMA FormsServe ==
  ASSUME Forms!IInv, NEW c \in formCalls, Forms!Serve(c)
  PROVE  Forms!IInv'
  <1>1. /\ c.answer = "none"
        /\ UNCHANGED <<form, mount, key, waiting, formError, done, told, lost>>
    BY DEF Forms!Serve
  <1>2. /\ c = [id |-> c.id, kind |-> c.kind, key |-> c.key, intent |-> c.intent,
                amount |-> c.amount, mount |-> c.mount, answer |-> c.answer]
        /\ c.kind \in Forms!KindsOn(form) /\ form \in {"transfer", "account", "drill"}
    BY DEF Forms!IInv, Forms!Typed, Forms!Forms
  <1> DEFINE heard(result) == [c EXCEPT !.answer = result]
  <1>3. ASSUME NEW s
        PROVE  /\ heard(s).answer = s
               /\ heard(s) = [id |-> c.id, kind |-> c.kind, key |-> c.key,
                             intent |-> heard(s).intent, amount |-> c.amount,
                             mount |-> c.mount, answer |-> heard(s).answer]
    BY <1>2
  <1>4. ASSUME NEW s, s # "none", Forms!Answer(c, s), made' = made
        PROVE  Forms!IInv'
    <2>1. formCalls' = (formCalls \ {c}) \cup {heard(s)}
      BY <1>4 DEF Forms!Answer
    <2> HIDE DEF heard
    <2>2. QED
      BY <1>1, <1>3, <1>4, <2>1, FormsAnsweredOnly
  <1>5. CASE Forms!Refuse(c)
    <2>1. Forms!Answer(c, "refused") /\ made' = made /\ "refused" # "none"
      BY <1>5 DEF Forms!Refuse
    <2>2. QED
      BY <1>4, <2>1
  <1>6. CASE Forms!ServePreview(c)
    <2>1. PICK m : /\ made' = made
                   /\ formCalls' = (formCalls \ {c})
                        \cup {[c EXCEPT !.answer = "intent", !.intent = m]}
      BY <1>6 DEF Forms!ServePreview
    <2> DEFINE d == [c EXCEPT !.answer = "intent", !.intent = m]
    <2>2. /\ d.answer # "none"
          /\ d = [id |-> c.id, kind |-> c.kind, key |-> c.key, intent |-> d.intent,
                  amount |-> c.amount, mount |-> c.mount, answer |-> d.answer]
      <3>1. d = [id |-> c.id, kind |-> c.kind, key |-> c.key, intent |-> m,
                 amount |-> c.amount, mount |-> c.mount, answer |-> "intent"]
        <4> DEFINE e == [c EXCEPT !.answer = "intent"]
        <4>1. d = [e EXCEPT !.intent = m]
          OBVIOUS
        <4>2. e = [id |-> c.id, kind |-> c.kind, key |-> c.key, intent |-> c.intent,
                   amount |-> c.amount, mount |-> c.mount, answer |-> "intent"]
          BY <1>2
        <4> HIDE DEF d, e
        <4>3. QED
          BY <4>1, <4>2
      <3> HIDE DEF d
      <3>2. d.answer = "intent" /\ d.intent = m
        BY <3>1
      <3>3. QED
        BY <3>1, <3>2
    <2>3. formCalls' = (formCalls \ {c}) \cup {d} /\ made' = made
      BY <2>1
    <2> HIDE DEF d
    <2>4. QED
      BY <1>1, <2>2, <2>3, FormsAnsweredOnly
  <1>7. CASE Forms!ServeConfirm(c)
    <2>1. c.kind = "confirm" /\ form # "drill"
      BY <1>2, <1>7, FormKinds DEF Forms!ServeConfirm
    <2>2. CASE \E r \in made : r.key = c.key /\ r.intent = c.intent /\ Forms!Answer(c, r.status)
                                 /\ made' = made
      <3>1. PICK r \in made : Forms!Answer(c, r.status) /\ made' = made
        BY <2>2
      <3>2. r.status # "none"
        BY DEF Forms!IInv, Forms!MadeByCall
      <3>3. QED
        BY <1>4, <3>1, <3>2
    <2>3. CASE /\ ~\E r \in made : r.key = c.key \/ r.intent = c.intent
               /\ \E status \in {"COMPLETED", "PROCESSING", "FAILED"} :
                    /\ made' = made \cup
                         {[id |-> c.id, kind |-> c.kind, key |-> c.key, mount |-> c.mount,
                           intent |-> c.intent, status |-> status]}
                    /\ Forms!Answer(c, status)
      <3>1. PICK status \in {"COMPLETED", "PROCESSING", "FAILED"} :
              /\ made' = made \cup
                   {[id |-> c.id, kind |-> c.kind, key |-> c.key, mount |-> c.mount,
                     intent |-> c.intent, status |-> status]}
              /\ Forms!Answer(c, status)
        BY <2>3
      <3>2. formCalls' = (formCalls \ {c}) \cup {heard(status)}
        BY <3>1 DEF Forms!Answer
      <3>3. \A r \in made : r.key # c.key
        BY <2>3
      <3>4. /\ heard(status).answer = status
            /\ heard(status) = [id |-> c.id, kind |-> c.kind, key |-> c.key,
                               intent |-> heard(status).intent, amount |-> c.amount,
                               mount |-> c.mount, answer |-> heard(status).answer]
        BY <1>3
      <3> HIDE DEF heard
      <3>5. QED
        BY <1>1, <2>1, <3>1, <3>2, <3>3, <3>4, FormsAnsweredMade
    <2>4. CASE Forms!Refuse(c)
      BY <1>5, <2>4
    <2>5. QED
      BY <1>7, <2>2, <2>3, <2>4 DEF Forms!ServeConfirm
  <1>8. CASE Forms!ServeRecord(c)
    <2>1. Forms!Answer(c, "COMPLETED") /\ c.kind # "confirm"
      BY <1>8 DEF Forms!ServeRecord
    <2>2. CASE made' = made
      BY <1>4, <2>1, <2>2
    <2>3. CASE made' = made \cup {[id |-> c.id, kind |-> c.kind, key |-> c.key,
                                   mount |-> c.mount, intent |-> 0, status |-> "COMPLETED"]}
      <3>1. formCalls' = (formCalls \ {c}) \cup {heard("COMPLETED")}
        BY <2>1 DEF Forms!Answer
      <3>2. /\ heard("COMPLETED").answer = "COMPLETED"
            /\ heard("COMPLETED") = [id |-> c.id, kind |-> c.kind, key |-> c.key,
                               intent |-> heard("COMPLETED").intent, amount |-> c.amount,
                               mount |-> c.mount, answer |-> heard("COMPLETED").answer]
        BY <1>3
      <3> HIDE DEF heard
      <3>3. QED
        BY <1>1, <2>1, <2>3, <3>1, <3>2, FormsAnsweredMade
    <2>4. QED
      BY <1>8, <2>2, <2>3 DEF Forms!ServeRecord
  <1>9. QED
    BY <1>5, <1>6, <1>7, <1>8 DEF Forms!Serve

\* The answer that is awaited arrives.
LEMMA FormsReceive ==
  ASSUME Forms!IInv, NEW c \in formCalls, Forms!Receive(c)
  PROVE  Forms!IInv'
  <1>1. /\ c.id = waiting /\ c.answer # "none" /\ waiting' = 0
        /\ UNCHANGED <<form, mount, formCalls, made, lost>>
    BY DEF Forms!Receive
  <1>2. waiting # 0 /\ ~done
    BY <1>1, FormsFacts DEF Forms!IInv, Forms!ErrorLine
  <1>3. \A e \in formCalls : e.id = waiting => e = c
    BY <1>1 DEF Forms!IInv, Forms!Numbered
  <1>4. \A r \in made : r.id = waiting => r.status = c.answer
    BY <1>3, FormsFacts
  <1>5. Forms!Typed'
    <2>1. formError' \in BOOLEAN /\ done' \in BOOLEAN
      BY Zenon DEF Forms!Receive
    <2>2. told' \in Nat
      BY DEF Forms!Receive, Forms!IInv, Forms!Typed
    <2>3. QED
      BY <1>1, <2>1, <2>2, Zenon DEF Forms!IInv, Forms!Typed, Forms!KindsOn
  <1>6. Forms!Numbered'
    BY <1>1 DEF Forms!IInv, Forms!Numbered
  <1>7. Forms!Awaited'
    <2>1. \A e \in formCalls : e.id # 0
      BY FormsFacts
    <2>2. \A e \in formCalls : e.answer = "none" => <<e.mount, e.id>> \in lost
      BY <1>1, <1>3 DEF Forms!IInv, Forms!Awaited
    <2>3. QED
      BY <1>1, <2>1, <2>2 DEF Forms!Awaited
  <1>8. Forms!ErrorLine'
    <2>1. done' => ~formError' /\ form' # "drill"
      BY <1>1, Zenon DEF Forms!Receive
    <2>2. QED
      BY <1>1, <2>1, Zenon DEF Forms!ErrorLine
  <1>9. Forms!MadeByCall'
    BY <1>1 DEF Forms!IInv, Forms!MadeByCall
  <1>10. Forms!OneKeyPerMount'
    <2>1. CASE form = "account"
      <3>1. \A e \in formCalls : e.kind # "confirm"
        BY <2>1, FormKinds DEF Forms!IInv, Forms!Typed
      <3>2. QED
        BY <1>1, <3>1 DEF Forms!IInv, Forms!OneKeyPerMount
    <2>2. CASE form # "account"
      <3>1. key' = key
        BY <2>2 DEF Forms!Receive
      <3>2. QED
        BY <1>1, <3>1 DEF Forms!IInv, Forms!OneKeyPerMount
    <2>3. QED
      BY <2>1, <2>2
  <1>11. Forms!StandingIsKnown'
    <2> SUFFICES ASSUME form = "transfer", NEW r \in made, r.mount = mount,
                        r.status # "FAILED", ~done'
                 PROVE  \E l \in lost : l[1] = mount
      BY <1>1 DEF Forms!StandingIsKnown
    <2>1. r.id # waiting
      <3>1. r.status \in {"COMPLETED", "PROCESSING"}
        BY DEF Forms!IInv, Forms!MadeByCall
      <3>2. SUFFICES ASSUME r.id = waiting PROVE FALSE
        OBVIOUS
      <3>3. Forms!Accepted(c.answer)
        BY <1>4, <3>1, <3>2 DEF Forms!Accepted
      <3>4. done' = TRUE
        <4>1. done' = (form # "drill" /\ Forms!Accepted(c.answer))
          BY DEF Forms!Receive
        <4>2. form # "drill"
          OBVIOUS
        <4>3. QED
          BY <3>3, <4>1, <4>2, Zenon
      <3>5. QED
        BY <3>4
    <2>2. QED
      BY <1>2, <2>1 DEF Forms!IInv, Forms!StandingIsKnown
  <1>12. Forms!AnnouncedIsTold'
    <2> SUFFICES ASSUME form = "drill" PROVE Forms!Cardinality(Forms!Announced') <= told'
      BY <1>1 DEF Forms!AnnouncedIsTold
    <2>1. /\ Forms!Cardinality(Forms!Announced) <= told /\ told \in Nat
          /\ Forms!IsFiniteSet(made)
      BY DEF Forms!IInv, Forms!AnnouncedIsTold, Forms!Typed
    <2>2. /\ Forms!IsFiniteSet(Forms!Announced) /\ Forms!Cardinality(Forms!Announced) \in Nat
      BY <2>1, FormsCountLess DEF Forms!Announced
    <2>3. told' \in Nat /\ told' >= told
      BY <2>1 DEF Forms!Receive
    <2>4. CASE \E r \in made : r.id = waiting /\ <<r.mount, r.id>> \notin lost
      <3>1. PICK r \in made : r.id = waiting /\ <<r.mount, r.id>> \notin lost
        BY <2>4
      <3>2. \A s \in made : s.id = waiting => s = r
        BY <3>1 DEF Forms!IInv, Forms!MadeByCall
      <3>3. \A s \in made : s.id # 0
        BY FormsFacts
      <3>4. Forms!Announced' = Forms!Announced \cup {r} /\ r \notin Forms!Announced
        BY <1>1, <3>1, <3>2, <3>3 DEF Forms!Announced
      <3>5. told' = told + 1
        <4>1. c.answer = "COMPLETED"
          BY <1>4, <3>1 DEF Forms!IInv, Forms!MadeByCall
        <4>2. QED
          BY <2>1, <4>1 DEF Forms!Receive, Forms!Accepted
      <3>6. Forms!Cardinality(Forms!Announced') = Forms!Cardinality(Forms!Announced) + 1
        BY <2>2, <3>4, FormsCountMore
      <3>7. QED
        BY <2>1, <2>2, <3>5, <3>6
    <2>5. CASE ~\E r \in made : r.id = waiting /\ <<r.mount, r.id>> \notin lost
      <3>1. \A s \in made : s.id # 0
        BY FormsFacts
      <3>2. Forms!Announced' = Forms!Announced
        BY <1>1, <2>5, <3>1 DEF Forms!Announced
      <3>3. QED
        BY <2>1, <2>2, <2>3, <3>2
    <2>6. QED
      BY <2>4, <2>5
  <1>13. QED
    BY <1>5, <1>6, <1>7, <1>8, <1>9, <1>10, <1>11, <1>12 DEF Forms!IInv

\* Announcements never come undone when less is announced than before.
LEMMA FormsAnnounceNoMore ==
  ASSUME Forms!IInv, Forms!Announced' \subseteq Forms!Announced, UNCHANGED <<form, told>>
  PROVE  Forms!AnnouncedIsTold'
  <1> SUFFICES ASSUME form = "drill" PROVE Forms!Cardinality(Forms!Announced') <= told
    BY DEF Forms!AnnouncedIsTold
  <1>1. Forms!IsFiniteSet(made) /\ Forms!Announced \subseteq made /\ told \in Nat
    BY DEF Forms!IInv, Forms!Typed, Forms!Announced
  <1>2. Forms!IsFiniteSet(Forms!Announced) /\ Forms!Cardinality(Forms!Announced) \in Nat
    BY <1>1, FormsCountLess
  <1>3. /\ Forms!Cardinality(Forms!Announced') \in Nat
        /\ Forms!Cardinality(Forms!Announced') <= Forms!Cardinality(Forms!Announced)
    BY <1>2, FormsCountLess
  <1>4. QED
    BY <1>1, <1>2, <1>3 DEF Forms!IInv, Forms!AnnouncedIsTold

\* The browser gives up on the request it waits for.
LEMMA FormsGiveUp ==
  ASSUME Forms!IInv, Forms!GiveUp
  PROVE  Forms!IInv'
  <1>1. /\ waiting # 0 /\ waiting' = 0 /\ formError' = TRUE
        /\ lost' = lost \cup {<<mount, waiting>>}
        /\ UNCHANGED <<form, mount, key, done, formCalls, made, told>>
    BY DEF Forms!GiveUp
  <1>2. Forms!Typed'
    <2>1. formError' \in BOOLEAN /\ done' \in BOOLEAN
      BY <1>1, Zenon DEF Forms!IInv, Forms!Typed
    <2>2. Forms!IsFiniteSet(lost')
      <3>1. IsFiniteSet(lost)
        BY FormsFinite, Zenon DEF Forms!IInv, Forms!Typed
      <3>2. IsFiniteSet(lost')
        BY <1>1, <3>1, FS_AddElement
      <3>3. QED
        BY <3>2, FormsFinite, Zenon
    <2>3. QED
      BY <1>1, <2>1, <2>2, Zenon DEF Forms!IInv, Forms!Typed, Forms!KindsOn
  <1>3. Forms!Numbered' /\ Forms!MadeByCall' /\ Forms!OneKeyPerMount'
    BY <1>1 DEF Forms!IInv, Forms!Numbered, Forms!MadeByCall, Forms!OneKeyPerMount
  <1>4. \A e \in formCalls : e.id # 0
    BY FormsFacts
  <1>5. Forms!Awaited'
    BY <1>1, <1>4 DEF Forms!IInv, Forms!Awaited
  <1>6. ~done
    BY <1>1 DEF Forms!IInv, Forms!ErrorLine
  <1>7. Forms!ErrorLine'
    BY <1>1, <1>6 DEF Forms!ErrorLine
  <1>8. Forms!StandingIsKnown'
    <2>1. <<mount, waiting>> \in lost' /\ <<mount, waiting>>[1] = mount
      BY <1>1
    <2>2. QED
      BY <1>1, <2>1 DEF Forms!StandingIsKnown
  <1>9. Forms!AnnouncedIsTold'
    <2>1. \A r \in made : r.id = waiting => r.mount = mount
      BY FormsFacts DEF Forms!IInv, Forms!Awaited
    <2>2. Forms!Announced' \subseteq Forms!Announced
      BY <1>1, <2>1 DEF Forms!Announced
    <2>3. QED
      BY <1>1, <2>2, FormsAnnounceNoMore
  <1>10. QED
    BY <1>2, <1>3, <1>5, <1>7, <1>8, <1>9 DEF Forms!IInv

\* A new opening has sent nothing and made nothing; what the old one waited
\* for is given up on.
LEMMA FormsReopen ==
  ASSUME Forms!IInv, Forms!Reopen
  PROVE  Forms!IInv'
  <1>1. /\ mount' = mount + 1 /\ key' = 0 /\ formError' = FALSE /\ done' = FALSE /\ waiting' = 0
        /\ lost' = (IF waiting = 0 THEN lost ELSE lost \cup {<<mount, waiting>>})
        /\ UNCHANGED <<form, formCalls, made, told>>
    BY DEF Forms!Reopen
  <1>2. mount' \in Nat \ {0} /\ \A e \in formCalls : e.mount # mount' /\ e.mount \in 1..mount'
    <2>1. mount \in Nat \ {0} /\ \A e \in formCalls : e.mount \in 1..mount
      BY DEF Forms!IInv, Forms!Typed
    <2>2. QED
      BY <1>1, <2>1
  <1>3. \A e \in formCalls : e.id # 0
    BY FormsFacts
  <1>4. \A r \in made : r.mount # mount' /\ r.id # 0
    BY <1>2, FormsFacts
  <1>5. \A r \in made : r.id = waiting => r.mount = mount
    BY FormsFacts DEF Forms!IInv, Forms!Awaited
  <1>6. Forms!Typed'
    <2>1. formError' \in BOOLEAN /\ done' \in BOOLEAN
      BY <1>1, Zenon
    <2>2. Forms!IsFiniteSet(lost')
      <3>1. IsFiniteSet(lost)
        BY FormsFinite, Zenon DEF Forms!IInv, Forms!Typed
      <3>2. IsFiniteSet(lost')
        BY <1>1, <3>1, FS_AddElement
      <3>3. QED
        BY <3>2, FormsFinite, Zenon
    <2>3. QED
      BY <1>1, <1>2, <2>1, <2>2, Zenon DEF Forms!IInv, Forms!Typed, Forms!KindsOn
  <1>7. Forms!Numbered' /\ Forms!MadeByCall'
    BY <1>1 DEF Forms!IInv, Forms!Numbered, Forms!MadeByCall
  <1>8. Forms!OneKeyPerMount'
    BY <1>1, <1>2 DEF Forms!IInv, Forms!OneKeyPerMount
  <1>9. Forms!Awaited'
    BY <1>1, <1>3 DEF Forms!IInv, Forms!Awaited
  <1>10. Forms!ErrorLine'
    BY <1>1 DEF Forms!ErrorLine
  <1>11. Forms!StandingIsKnown'
    BY <1>1, <1>4 DEF Forms!StandingIsKnown
  <1>12. Forms!AnnouncedIsTold'
    <2>1. Forms!Announced' \subseteq Forms!Announced
      BY <1>1, <1>4, <1>5 DEF Forms!Announced
    <2>2. QED
      BY <1>1, <2>1, FormsAnnounceNoMore
  <1>13. QED
    BY <1>6, <1>7, <1>8, <1>9, <1>10, <1>11, <1>12 DEF Forms!IInv

LEMMA FormsNext ==
  ASSUME Forms!IInv, Forms!Next
  PROVE  Forms!IInv'
  <1>1. CASE \E a \in FormAmounts : Forms!Type(a)
    BY <1>1, FormsLocal DEF Forms!Type
  <1>2. CASE Forms!Edit
    BY <1>2, FormsLocal DEF Forms!Edit
  <1>3. QED
    BY <1>1, <1>2, FormsPress, FormsServe, FormsReceive, FormsGiveUp, FormsReopen
    DEF Forms!Next

-----------------------------------------------------------------------------
\* One opening pays once: its confirmations carry one key.
LEMMA FormsPayOnce == ASSUME Forms!IInv PROVE Forms!PaysOncePerForm
  <1> SUFFICES ASSUME NEW r \in made, NEW s \in made, r.kind = "confirm",
                      s.kind = "confirm", r.mount = s.mount
               PROVE  r = s
    BY DEF Forms!PaysOncePerForm
  <1>1. PICK c \in formCalls : c.kind = r.kind /\ c.mount = r.mount /\ c.key = r.key
    BY FormsFacts
  <1>2. PICK d \in formCalls : d.kind = s.kind /\ d.mount = s.mount /\ d.key = s.key
    BY FormsFacts
  <1>3. r.key = s.key
    BY <1>1, <1>2 DEF Forms!IInv, Forms!OneKeyPerMount
  <1>4. QED
    BY <1>3 DEF Forms!IInv, Forms!OneKeyPerMount

LEMMA FormsTellTheTruth == ASSUME Forms!IInv PROVE Forms!ErrorMeansUnpaid
  <1> SUFFICES ASSUME form = "transfer", formError, NEW r \in made, r.mount = mount,
                      r.status # "FAILED"
               PROVE  \E l \in lost : l[1] = mount
    BY DEF Forms!ErrorMeansUnpaid
  <1>1. ~done /\ waiting = 0
    BY DEF Forms!IInv, Forms!ErrorLine
  <1>2. r.id # 0
    BY FormsFacts
  <1>3. QED
    BY <1>1, <1>2 DEF Forms!IInv, Forms!StandingIsKnown

\* The drills given up on are no more than the requests given up on: a drill
\* has the number of its request.
LEMMA FormsAccount == ASSUME Forms!IInv PROVE Forms!DrillsAccountedFor
  <1> SUFFICES ASSUME form = "drill"
               PROVE  Forms!Cardinality(made)
                        <= told + Forms!Cardinality(lost) + (IF waiting = 0 THEN 0 ELSE 1)
    BY DEF Forms!DrillsAccountedFor
  <1> DEFINE A == Forms!Announced
             W == {r \in made : r.id = waiting}
             L == {r \in made : <<r.mount, r.id>> \in lost}
  <1>1. IsFiniteSet(made) /\ IsFiniteSet(lost) /\ told \in Nat
    BY FormsFinite, Zenon DEF Forms!IInv, Forms!Typed
  <1>2. Cardinality(A) <= told
    BY FormsSameCount DEF Forms!IInv, Forms!AnnouncedIsTold
  <1>3. made = (A \cup W) \cup L
    BY DEF Forms!Announced
  <1>4. IsFiniteSet(A) /\ IsFiniteSet(W) /\ IsFiniteSet(L)
    <2>1. A \subseteq made /\ W \subseteq made /\ L \subseteq made
      BY DEF Forms!Announced
    <2> HIDE DEF A, W, L
    <2>2. QED
      BY <1>1, <2>1, FS_Subset
  <1>5. \A r, s \in made : r.id = s.id => r = s
    BY DEF Forms!IInv, Forms!MadeByCall
  <1>6. Cardinality(W) <= (IF waiting = 0 THEN 0 ELSE 1)
    <2>1. CASE W = {}
      <3>1. Cardinality(W) = 0
        BY <2>1, FS_EmptySet
      <3> HIDE DEF W
      <3>2. QED
        BY <3>1
    <2>2. CASE W # {}
      <3>1. PICK r \in made : r.id = waiting
        BY <2>2
      <3>2. waiting # 0
        BY <3>1, FormsFacts
      <3>3. W = {r}
        BY <1>5, <3>1
      <3>4. Cardinality(W) = 1
        BY <3>3, FS_Singleton
      <3> HIDE DEF W
      <3>5. QED
        BY <3>2, <3>4
    <2>3. QED
      BY <2>1, <2>2
  <1>7. Cardinality(L) <= Cardinality(lost)
    <2> DEFINE f == [r \in L |-> <<r.mount, r.id>>]
    <2>1. f \in [L -> lost]
      OBVIOUS
    <2>2. \A r, s \in L : f[r] = f[s] => r = s
      BY <1>5
    <2>3. f \in Injection(L, lost)
      <3> HIDE DEF f, L
      <3>1. QED
        BY <2>1, <2>2 DEF Injection, IsInjective
    <2> HIDE DEF f, L
    <2>4. QED
      BY <1>1, <2>3, FS_Injection
  <1> HIDE DEF A, W, L
  <1>8. Cardinality(made) <= Cardinality(A) + Cardinality(W) + Cardinality(L)
    <2>1. /\ IsFiniteSet(A \cup W)
          /\ Cardinality(A \cup W) = Cardinality(A) + Cardinality(W) - Cardinality(A \cap W)
      BY <1>4, FS_Union
    <2>2. Cardinality(made) = Cardinality(A \cup W) + Cardinality(L)
                                - Cardinality((A \cup W) \cap L)
      BY <1>3, <1>4, <2>1, FS_Union
    <2>3. IsFiniteSet(A \cap W) /\ IsFiniteSet((A \cup W) \cap L)
      BY <1>4, <2>1, FS_Intersection
    <2>4. /\ Cardinality(A) \in Nat /\ Cardinality(W) \in Nat /\ Cardinality(L) \in Nat
          /\ Cardinality(A \cap W) \in Nat /\ Cardinality((A \cup W) \cap L) \in Nat
      BY <1>4, <2>3, FS_CardinalityType
    <2>5. QED
      BY <2>1, <2>2, <2>4
  <1>9. /\ Cardinality(A) \in Nat /\ Cardinality(W) \in Nat /\ Cardinality(L) \in Nat
        /\ Cardinality(lost) \in Nat /\ Cardinality(made) \in Nat
    BY <1>1, <1>4, FS_CardinalityType
  <1>10. Cardinality(made) <= told + Cardinality(lost) + (IF waiting = 0 THEN 0 ELSE 1)
    BY <1>1, <1>2, <1>6, <1>7, <1>8, <1>9
  <1>11. QED
    BY <1>10, FormsSameCount

-----------------------------------------------------------------------------
(* The sign-in screens *)

LEMMA ScreensInit == Browser!Init => Browser!IInv
  <1> SUFFICES ASSUME Browser!Init PROVE Browser!IInv
    OBVIOUS
  <1>1. /\ call = [kind |-> "none", challenge |-> 0, answer |-> "none"]
        /\ step = 0 /\ otp = 0 /\ place = "here"
    BY DEF Browser!Init, Browser!NoCall
  <1>2. Browser!Typed
    <2>1. otpStep \in BOOLEAN /\ left \in BOOLEAN /\ phone \in BOOLEAN /\ pin \in BOOLEAN
      BY Zenon DEF Browser!Init
    <2>2. challenge = 0 /\ issued = 0
      BY DEF Browser!Init
    <2>3. call \in [kind : Browser!Kinds, challenge : Nat, answer : {"none", "ok", "refused"}]
      BY <1>1 DEF Browser!Kinds
    <2>4. QED
      BY <1>1, <2>1, <2>2, <2>3 DEF Browser!Typed
  <1>3. Browser!KindsOfFlow /\ Browser!GrantedByCookie /\ Browser!AsksWithPin
    BY <1>1 DEF Browser!KindsOfFlow, Browser!GrantedByCookie, Browser!AsksWithPin
  <1>4. QED
    BY <1>1, <1>2, <1>3 DEF Browser!IInv, Browser!CodeMatchesChallenge,
         Browser!AccessIsHeld, Browser!CodeScreenCompletable, Browser!Init

\* A request that is sent belongs to the flow on screen, and is a fallback
\* only with phone and PIN, an enrolment only with the cookie.
LEMMA ScreensSend ==
  ASSUME Browser!IInv, NEW k \in Browser!Kinds, Browser!Send(k),
         k \in {"request", "verify", "create", "enroll"} => flow = "onboarding",
         k \in {"fallback", "login", "assert"} => flow = "signin",
         k \notin {"none", "session"},
         k = "enroll" => step = 3,
         k = "fallback" => phone /\ pin
  PROVE  Browser!IInv'
  <1>1. /\ call' = [kind |-> k, challenge |-> challenge, answer |-> "none"]
        /\ UNCHANGED <<flow, step, fallback, otpStep, left, phone, pin, otp, challenge,
                       token, cookie, place, issued>>
    BY DEF Browser!Send, Browser!screen, Browser!form, Browser!browser, Browser!server
  <1>2. Browser!Typed'
    BY <1>1 DEF Browser!IInv, Browser!Typed
  <1>3. Browser!KindsOfFlow' /\ Browser!AsksWithPin'
    BY <1>1 DEF Browser!KindsOfFlow, Browser!AsksWithPin
  <1>4. Browser!GrantedByCookie'
    BY <1>1 DEF Browser!IInv, Browser!AccessIsHeld, Browser!GrantedByCookie
  <1>5. Browser!CodeMatchesChallenge' /\ Browser!AccessIsHeld' /\ Browser!CodeScreenCompletable'
    BY <1>1 DEF Browser!IInv, Browser!CodeMatchesChallenge, Browser!AccessIsHeld,
                Browser!CodeScreenCompletable
  <1>6. QED
    BY <1>2, <1>3, <1>4, <1>5 DEF Browser!IInv

LEMMA ScreensPress ==
  ASSUME Browser!IInv,
         \/ Browser!requestOtp \/ Browser!verifyOtp \/ Browser!resendOtp
         \/ Browser!createPin \/ Browser!addPasskey \/ Browser!passkeySignIn
         \/ Browser!requestFallback \/ Browser!completeFallback
  PROVE  Browser!IInv'
  <1>1. \E k \in Browser!Kinds :
          /\ Browser!Send(k)
          /\ k \in {"request", "verify", "create", "enroll"} => flow = "onboarding"
          /\ k \in {"fallback", "login", "assert"} => flow = "signin"
          /\ k \notin {"none", "session"}
          /\ k = "enroll" => step = 3
          /\ k = "fallback" => phone /\ pin
    BY Zenon DEF Browser!requestOtp, Browser!verifyOtp, Browser!resendOtp, Browser!createPin,
           Browser!addPasskey, Browser!passkeySignIn, Browser!requestFallback,
           Browser!completeFallback, Browser!Kinds
  <1>2. QED
    BY <1>1, ScreensSend

\* What the customer does on a screen without sending a request.
LEMMA ScreensLocal ==
  ASSUME Browser!IInv,
         \/ Browser!FillForm \/ Browser!skipNow \/ Browser!useFallback
         \/ Browser!backPasskey \/ Browser!CooldownEnds \/ Browser!finish
  PROVE  Browser!IInv'
  <1> USE DEF Browser!IInv, Browser!Typed, Browser!KindsOfFlow, Browser!GrantedByCookie,
              Browser!AsksWithPin, Browser!CodeMatchesChallenge, Browser!AccessIsHeld,
              Browser!CodeScreenCompletable, Browser!screen, Browser!form,
              Browser!server, Browser!browser
  <1>1. CASE Browser!FillForm
    <2>1. /\ call = [kind |-> "none", challenge |-> 0, answer |-> "none"]
          /\ UNCHANGED <<flow, step, fallback, otpStep, left, challenge, call, place, cookie,
                         issued>>
      BY <1>1 DEF Browser!FillForm, Browser!loading, Browser!NoCall
    <2>2. CASE phone' = TRUE /\ pin' = (flow = "signin") /\ UNCHANGED otp
      BY <2>1, <2>2
    <2>3. CASE otp' = challenge /\ UNCHANGED <<phone, pin>>
      BY <2>1, <2>3
    <2>4. CASE flow = "onboarding" /\ pin' = TRUE /\ UNCHANGED <<phone, otp>>
      BY <2>1, <2>4
    <2>5. QED
      BY <1>1, <2>2, <2>3, <2>4 DEF Browser!FillForm
  <1>2. CASE Browser!skipNow
    BY <1>2 DEF Browser!skipNow
  <1>3. CASE Browser!useFallback
    BY <1>3 DEF Browser!useFallback
  <1>4. CASE Browser!backPasskey
    BY <1>4 DEF Browser!backPasskey
  <1>5. CASE Browser!CooldownEnds
    BY <1>5 DEF Browser!CooldownEnds
  <1>6. CASE Browser!finish
    BY <1>6 DEF Browser!finish
  <1>7. QED
    BY <1>1, <1>2, <1>3, <1>4, <1>5, <1>6

\* What Identity does with a request, awaited or not.
LEMMA ScreensServe ==
  ASSUME Browser!IInv, Browser!Serve \/ \E c \in stray : Browser!ServeStray(c)
  PROVE  Browser!IInv'
  <1> USE DEF Browser!IInv, Browser!Typed, Browser!KindsOfFlow, Browser!GrantedByCookie,
              Browser!AsksWithPin, Browser!CodeMatchesChallenge, Browser!AccessIsHeld,
              Browser!CodeScreenCompletable, Browser!screen, Browser!form,
              Browser!server, Browser!browser
  <1>1. CASE Browser!Serve
    <2>1. CASE /\ Browser!Runnable(call) /\ Browser!Runs(call)
               /\ call' = [call EXCEPT !.answer = "ok",
                                       !.challenge = IF call.kind \in {"request", "fallback"}
                                                     THEN issued + 1 ELSE @]
      <3>1. /\ call'.kind = call.kind /\ call'.answer = "ok"
            /\ call' \in [kind : Browser!Kinds, challenge : Nat, answer : {"none", "ok", "refused"}]
        <4>1. PICK x \in Nat : call' = [call EXCEPT !.answer = "ok", !.challenge = x]
          <5>1. (IF call.kind \in {"request", "fallback"} THEN issued + 1 ELSE call.challenge) \in Nat
            OBVIOUS
          <5>2. QED
            BY <2>1, <5>1
        <4>2. QED
          BY <4>1
      <3>2. issued' \in Nat
        BY <2>1 DEF Browser!Runs
      <3>3. UNCHANGED <<flow, step, fallback, otpStep, left, phone, pin, otp, challenge, cookie,
                        place>>
        BY <1>1 DEF Browser!Serve
      <3>4. call.kind = "session" => cookie
        BY <2>1 DEF Browser!Runnable
      <3>5. QED
        BY <3>1, <3>2, <3>3, <3>4
    <2>2. CASE call' = [call EXCEPT !.answer = "refused"] /\ UNCHANGED Browser!server
      BY <1>1, <2>2 DEF Browser!Serve
    <2>3. QED
      BY <1>1, <2>1, <2>2 DEF Browser!Serve
  <1>2. ASSUME NEW c \in stray, Browser!ServeStray(c)
        PROVE  Browser!IInv'
    BY <1>2 DEF Browser!ServeStray, Browser!Runs
  <1>3. QED
    BY <1>1, <1>2

\* An answer arrives, or the request is given up, or the page is reloaded.
LEMMA ScreensReceive ==
  ASSUME Browser!IInv, Browser!Receive \/ Browser!GiveUp \/ Browser!Reload
  PROVE  Browser!IInv'
  <1> USE DEF Browser!IInv, Browser!Typed, Browser!KindsOfFlow, Browser!GrantedByCookie,
              Browser!AsksWithPin, Browser!CodeMatchesChallenge, Browser!AccessIsHeld,
              Browser!CodeScreenCompletable, Browser!screen, Browser!form,
              Browser!server, Browser!browser, Browser!NoCall
  <1>0. "none" \in Browser!Kinds /\ "session" \in Browser!Kinds
    BY DEF Browser!Kinds
  <1>1. CASE call.answer = "ok" /\ Browser!Challenged
    BY <1>0, <1>1 DEF Browser!Challenged, Browser!CodeCleared, Browser!PinKept
  <1>2. CASE call.answer = "ok" /\ Browser!Verified
    BY <1>0, <1>2 DEF Browser!Verified
  <1>3. CASE call.answer = "ok" /\ Browser!SignedIn
    <2>1. cookie => cookie'
      BY <1>3, Zenon DEF Browser!SignedIn
    <2>2. /\ call' = [kind |-> "session", challenge |-> 0, answer |-> "none"]
          /\ UNCHANGED <<flow, step, fallback, otpStep, left, phone, pin, otp, challenge, place,
                         issued>>
      BY <1>3 DEF Browser!SignedIn, Browser!Confirming
    <2>3. QED
      BY <1>0, <2>1, <2>2
  <1>4. CASE call.answer = "ok" /\ Browser!Finished
    <2>1. /\ call' = [kind |-> "none", challenge |-> 0, answer |-> "none"]
          /\ phone' = FALSE /\ pin' = FALSE /\ otp' = 0 /\ challenge' = 0
          /\ UNCHANGED <<flow, fallback, otpStep, left, cookie, issued>>
      BY <1>4 DEF Browser!Finished
    <2>2. step' \in 0..4 /\ (flow = "signin" => place' = "app")
      BY <1>4 DEF Browser!Finished
    <2>3. cookie
      BY <1>4 DEF Browser!Finished
    <2>4. phone' \in BOOLEAN /\ pin' \in BOOLEAN
      BY <2>1, Zenon
    <2>5. QED
      BY <1>0, <2>1, <2>2, <2>3, <2>4
  <1>5. CASE Browser!Failed
    <2>1. pin' \in BOOLEAN /\ (flow = "signin" => pin' = pin)
      BY <1>5, Zenon DEF Browser!Failed
    <2>2. /\ call' = [kind |-> "none", challenge |-> 0, answer |-> "none"]
          /\ UNCHANGED <<flow, step, fallback, otpStep, left, phone, otp, challenge, cookie, place,
                         issued>>
      BY <1>5 DEF Browser!Failed
    <2>3. QED
      BY <1>0, <2>1, <2>2
  <1>6. CASE Browser!Reload
    <2>1. /\ call' = [kind |-> "none", challenge |-> 0, answer |-> "none"]
          /\ step' = 0 /\ otp' = 0 /\ challenge' = 0
          /\ place' = IF cookie THEN "app" ELSE "here"
          /\ UNCHANGED <<flow, cookie, issued>>
      BY <1>6 DEF Browser!Reload
    <2>2. /\ phone' \in BOOLEAN /\ pin' \in BOOLEAN /\ left' \in BOOLEAN
          /\ otpStep' \in BOOLEAN /\ ~otpStep'
      BY <1>6, Zenon DEF Browser!Reload
    <2>3. QED
      BY <1>0, <2>1, <2>2
  <1>7. QED
    BY <1>1, <1>2, <1>3, <1>4, <1>5, <1>6 DEF Browser!Receive, Browser!GiveUp

LEMMA ScreensNext ==
  ASSUME Browser!IInv, [Browser!Next]_Browser!vars
  PROVE  Browser!IInv'
  <1>1. CASE UNCHANGED Browser!vars
    BY <1>1 DEF Browser!vars, Browser!IInv, Browser!Typed, Browser!KindsOfFlow,
              Browser!GrantedByCookie, Browser!AsksWithPin, Browser!CodeMatchesChallenge,
              Browser!AccessIsHeld, Browser!CodeScreenCompletable
  <1>2. CASE Browser!Next
    BY <1>2, ScreensPress, ScreensLocal, ScreensServe, ScreensReceive DEF Browser!Next
  <1>3. QED
    BY <1>1, <1>2

-----------------------------------------------------------------------------
(* USSD sessions: whatever copy of the session a handler holds, a copy that *)
(* asks for consent or for the PIN names a screen that was composed; and    *)
(* while deliveries do not overlap there is one current copy, and a PIN     *)
(* prompt in it stands for a consent not yet paid, or for a session that    *)
(* was paid and could not be deleted.                                       *)

SessionStates == {"WELCOME", "BALANCE", "MAIN_MENU", "SEND_MONEY_RECIPIENT",
         "SEND_MONEY_AMOUNT", "SEND_MONEY_CONFIRM", "SEND_MONEY_PIN"}
SessionBlobs == [state : SessionStates \cup {"none", "end"}, recipient : Payees \cup {Ussd!Unset},
          typed : Nat, amountMinor : Nat]

SessionsTyped ==
    /\ session \in SessionBlobs /\ read \in [Handlers -> SessionBlobs]
    /\ ussdPc \in [Handlers -> {"idle", "reacting", "saving"}]
    /\ paid \in Seq(SessionBlobs) /\ consents \in Nat /\ ussdOverlapped \in BOOLEAN
    /\ undeleted \in Nat

\* Redis holds a session that goes on, or none; a handler reacts to one.
SessionStages ==
    /\ session = Ussd!Gone \/ session.state \in SessionStates
    /\ \A h \in Handlers : /\ ussdPc[h] = "reacting" => read[h].state \in SessionStates
                           /\ ussdPc[h] = "saving" => read[h].state # "none"

\* From the confirmation on, the amount is the one the handler computed.
AsksPayer(b) == b.state \in {"SEND_MONEY_CONFIRM", "SEND_MONEY_PIN"}
AmountFilled(b) == AsksPayer(b) => b.typed \in UssdAmounts /\ b.amountMinor = Float100[b.typed]
AmountsFilled == AmountFilled(session) /\ \A h \in Handlers : AmountFilled(read[h])

ScreenOf(b) == [recipient |-> b.recipient, amount |-> b.typed]
Composed == shown \cup unsent
AsksOnScreen ==
    /\ AsksPayer(session) => ScreenOf(session) \in Composed
    /\ \A h \in Handlers :
         /\ ussdPc[h] = "reacting" /\ AsksPayer(read[h]) => ScreenOf(read[h]) \in Composed
         /\ read[h].state = "SEND_MONEY_PIN" => ScreenOf(read[h]) \in Composed

\* h has an ended session yet to delete.
Ending(h) == ussdPc[h] = "saving" /\ read[h].state = "end"

ConsentUnspent ==
    ~ussdOverlapped =>
      /\ Len(paid) <= consents + undeleted
      /\ \A h, k \in Handlers : ussdPc[h] # "idle" /\ ussdPc[k] # "idle" => h = k
      /\ /\ \A h \in Handlers : ~Ending(h)
         /\ session.state = "SEND_MONEY_PIN"
         => Len(paid) < consents + undeleted
      /\ \A h \in Handlers : ussdPc[h] # "idle" /\ read[h].state = "SEND_MONEY_PIN"
                                => Len(paid) < consents + undeleted

SessionsInv ==
    /\ SessionsTyped
    /\ SessionStages
    /\ AmountsFilled
    /\ AsksOnScreen
    /\ ConsentUnspent
    /\ Ussd!PaidAsShown

-----------------------------------------------------------------------------
LEMMA SessionsInit == ASSUME Ussd!ConstantsOK, Ussd!Init PROVE SessionsInv
  <1> USE DEF Ussd!Init, Ussd!Gone, Ussd!Blob, Composed, Ending
  <1>1. SessionsTyped
    <2>1. session \in SessionBlobs /\ read \in [Handlers -> SessionBlobs]
      BY DEF SessionBlobs
    <2>2. paid \in Seq(SessionBlobs)
      OBVIOUS
    <2>3. QED
      BY <2>1, <2>2 DEF SessionsTyped
  <1>2. SessionStages /\ AmountsFilled /\ AsksOnScreen
    BY DEF SessionStages, AmountsFilled, AmountFilled, AsksOnScreen, AsksPayer
  <1>3. ConsentUnspent /\ Ussd!PaidAsShown
    BY DEF ConsentUnspent, Ussd!PaidAsShown
  <1>4. QED
    BY <1>1, <1>2, <1>3 DEF SessionsInv

LEMMA SessionsExpire == ASSUME SessionsInv, Ussd!Expire PROVE SessionsInv'
  <1> USE DEF SessionsInv, Ussd!Expire, Composed, Ending
  <1>1. /\ session' = Ussd!Gone /\ Ussd!Gone \in SessionBlobs /\ Ussd!Gone.state = "none"
        /\ UNCHANGED <<messages, ussdPc, read, shown, consents, paid, ussdOverlapped,
                       unsent, undeleted>>
    BY DEF Ussd!failures, Ussd!Gone, Ussd!Blob, SessionBlobs
  <1>2. SessionsTyped' /\ SessionStages'
    BY <1>1 DEF SessionsTyped, SessionStages
  <1>3. AmountsFilled' /\ AsksOnScreen'
    BY <1>1 DEF AmountsFilled, AmountFilled, AsksOnScreen, AsksPayer
  <1>4. ConsentUnspent' /\ Ussd!PaidAsShown'
    BY <1>1 DEF ConsentUnspent, Ussd!PaidAsShown
  <1>5. QED
    BY <1>2, <1>3, <1>4

\* A handler starts with the session as stored, or a new one.
LEMMA SessionsReceive == ASSUME SessionsInv, NEW h \in Handlers, Ussd!Receive(h) PROVE SessionsInv'
  <1> DEFINE b == IF session = Ussd!Gone THEN Ussd!Blob("WELCOME") ELSE session
  <1> USE DEF SessionsInv, Composed, Ending
  <1>1. /\ ussdPc[h] = "idle" /\ ussdPc' = [ussdPc EXCEPT ![h] = "reacting"]
        /\ read' = [read EXCEPT ![h] = b]
        /\ ussdOverlapped' = (ussdOverlapped
             \/ \E e \in Handlers : ussdPc[e] \in {"reacting", "saving"})
        /\ UNCHANGED <<session, shown, consents, paid, unsent, undeleted>>
    BY DEF Ussd!Receive, Ussd!failures
  <1>2. /\ b \in SessionBlobs /\ b.state \in SessionStates
        /\ b = session \/ b.state = "WELCOME"
    BY DEF Ussd!Blob, SessionBlobs, SessionStates, SessionsTyped, SessionStages
  <1> HIDE DEF b
  <1>3. /\ ussdPc'[h] = "reacting" /\ read'[h] = b
        /\ \A k \in Handlers : k # h => ussdPc'[k] = ussdPc[k] /\ read'[k] = read[k]
    BY <1>1 DEF SessionsTyped
  <1>4. SessionsTyped'
    BY <1>1, <1>2 DEF SessionsTyped
  <1>5. SessionStages'
    BY <1>1, <1>2, <1>3 DEF SessionStages
  <1>6. AmountsFilled' /\ AsksOnScreen'
    BY <1>1, <1>2, <1>3 DEF AmountsFilled, AmountFilled, AsksOnScreen, AsksPayer
  <1>7. ConsentUnspent'
    <2> SUFFICES ASSUME ~ussdOverlapped' PROVE ConsentUnspent'
      BY DEF ConsentUnspent
    <2>1. ~ussdOverlapped /\ \A k \in Handlers : ussdPc[k] = "idle"
      BY <1>1 DEF SessionsTyped
    <2>2. QED
      BY <1>1, <1>2, <1>3, <2>1 DEF ConsentUnspent
  <1>8. Ussd!PaidAsShown'
    BY <1>1 DEF Ussd!PaidAsShown
  <1>9. QED
    BY <1>4, <1>5, <1>6, <1>7, <1>8

\* What the switch makes of a session: it is typed, keeps what was on the
\* screen once consent is given, and asks for the PIN only after asking for
\* consent.
LEMMA SessionReactions ==
    ASSUME Ussd!ConstantsOK, NEW b \in SessionBlobs, b.state \in SessionStates, AmountFilled(b),
           NEW n \in Ussd!Reactions(b)
    PROVE  /\ n \in SessionBlobs /\ n.state # "none" /\ AmountFilled(n)
           /\ n.state = "SEND_MONEY_PIN" =>
                 b.state = "SEND_MONEY_CONFIRM" /\ ScreenOf(n) = ScreenOf(b)
  <1> USE DEF Ussd!To, AmountFilled, AsksPayer
  <1>1. CASE b.state \in {"WELCOME", "BALANCE"}
    <2>1. n = Ussd!To(b, "MAIN_MENU")
      BY <1>1 DEF Ussd!Reactions
    <2>2. QED
      BY <2>1 DEF SessionBlobs, SessionStates
  <1>2. CASE b.state = "MAIN_MENU"
    <2>1. n \in {Ussd!To(b, "BALANCE"), Ussd!To(b, "SEND_MONEY_RECIPIENT"), Ussd!To(b, "end")}
      BY <1>2 DEF Ussd!Reactions
    <2>2. QED
      BY <2>1 DEF SessionBlobs, SessionStates
  <1>3. CASE b.state = "SEND_MONEY_RECIPIENT"
    <2>1. n \in {b} \cup {[Ussd!To(b, "SEND_MONEY_AMOUNT") EXCEPT !.recipient = r] : r \in Payees}
      BY <1>3 DEF Ussd!Reactions
    <2>2. QED
      BY <1>3, <2>1 DEF SessionBlobs, SessionStates
  <1>4. CASE b.state = "SEND_MONEY_AMOUNT"
    <2>1. n = b \/ \E a \in UssdAmounts :
                      n = [Ussd!To(b, "SEND_MONEY_CONFIRM") EXCEPT !.typed = a,
                                                              !.amountMinor = Float100[a]]
      BY <1>4 DEF Ussd!Reactions, Ussd!Minor
    <2>2. CASE n = b
      BY <1>4, <2>2
    <2>3. ASSUME NEW a \in UssdAmounts,
                 n = [Ussd!To(b, "SEND_MONEY_CONFIRM") EXCEPT !.typed = a,
                                                         !.amountMinor = Float100[a]]
          PROVE  /\ n \in SessionBlobs /\ n.state = "SEND_MONEY_CONFIRM"
                 /\ n.typed = a /\ n.amountMinor = Float100[a]
      <3>1. a \in Nat /\ Float100[a] \in Nat
        BY DEF Ussd!ConstantsOK
      <3>2. QED
        BY <2>3, <3>1 DEF SessionBlobs, SessionStates
    <2>4. QED
      BY <1>4, <2>1, <2>2, <2>3
  <1>5. CASE b.state = "SEND_MONEY_CONFIRM"
    <2>1. n \in {Ussd!To(b, "SEND_MONEY_PIN"), Ussd!To(b, "end")}
      BY <1>5 DEF Ussd!Reactions
    <2>2. QED
      BY <1>5, <2>1 DEF SessionBlobs, SessionStates, ScreenOf
  <1>6. CASE b.state = "SEND_MONEY_PIN"
    <2>1. n = Ussd!To(b, "end")
      BY <1>6 DEF Ussd!Reactions
    <2>2. QED
      BY <2>1 DEF SessionBlobs, SessionStates
  <1>7. QED
    BY <1>1, <1>2, <1>3, <1>4, <1>5, <1>6 DEF SessionStates

\* A reaction pays from a PIN prompt whose screen was sent, and spends it.
LEMMA SessionsReact ==
    ASSUME Ussd!ConstantsOK, SessionsInv, NEW h \in Handlers, Ussd!React(h)
    PROVE  SessionsInv'
  <1> DEFINE b == read[h]
  <1> USE DEF SessionsInv, Composed, Ending
  <1>1. PICK n \in Ussd!Reactions(b) : read' = [read EXCEPT ![h] = n]
    BY DEF Ussd!React
  <1>2. /\ ussdPc[h] = "reacting" /\ ussdPc' = [ussdPc EXCEPT ![h] = "saving"]
        /\ \/ b.state = "SEND_MONEY_PIN" /\ paid' = Append(paid, b)
           \/ paid' = paid
        /\ UNCHANGED <<session, messages, shown, ussdOverlapped, unsent, undeleted>>
    BY DEF Ussd!React, Ussd!failures
  <1>3. /\ b \in SessionBlobs /\ b.state \in SessionStates /\ AmountFilled(b)
        /\ AsksPayer(b) => ScreenOf(b) \in Composed
    BY <1>2 DEF SessionsTyped, SessionStages, AmountsFilled, AsksOnScreen
  <1>4. /\ n \in SessionBlobs /\ n.state # "none" /\ AmountFilled(n)
        /\ n.state = "SEND_MONEY_PIN" =>
              b.state = "SEND_MONEY_CONFIRM" /\ ScreenOf(n) = ScreenOf(b)
    BY <1>3, SessionReactions
  <1>5. /\ ussdPc'[h] = "saving" /\ read'[h] = n
        /\ \A k \in Handlers : k # h => ussdPc'[k] = ussdPc[k] /\ read'[k] = read[k]
        /\ consents' = IF n.state = "SEND_MONEY_PIN" THEN consents + 1 ELSE consents
    BY <1>1, <1>2 DEF SessionsTyped, Ussd!React
  <1>6. SessionsTyped'
    BY <1>1, <1>2, <1>3, <1>4, <1>5 DEF SessionsTyped
  <1>7. SessionStages' /\ AmountsFilled'
    BY <1>2, <1>4, <1>5 DEF SessionStages, AmountsFilled
  <1>8. AsksOnScreen'
    BY <1>2, <1>3, <1>4, <1>5 DEF AsksOnScreen, AsksPayer
  <1>9. ConsentUnspent'
    <2> SUFFICES ASSUME ~ussdOverlapped PROVE ConsentUnspent'
      BY <1>2 DEF ConsentUnspent
    <2>1. /\ Len(paid) \in Nat /\ consents \in Nat /\ undeleted \in Nat
          /\ Len(paid) <= consents + undeleted
          /\ b.state = "SEND_MONEY_PIN" => Len(paid) < consents + undeleted
          /\ session.state = "SEND_MONEY_PIN" => Len(paid) < consents + undeleted
          /\ \A k \in Handlers : k # h => ussdPc[k] = "idle"
      BY <1>2 DEF ConsentUnspent, SessionsTyped
    <2>2. \/ b.state = "SEND_MONEY_PIN" /\ Len(paid') = Len(paid) + 1
          \/ Len(paid') = Len(paid)
      BY <1>2, <1>3 DEF SessionsTyped
    <2>3. /\ Len(paid') <= consents' + undeleted
          /\ n.state = "SEND_MONEY_PIN" => Len(paid') < consents' + undeleted
      BY <1>4, <1>5, <2>1, <2>2
    <2>4. /\ n.state # "end"
          /\ session.state = "SEND_MONEY_PIN"
          => Len(paid') < consents' + undeleted
      <3>1. b.state = "SEND_MONEY_PIN" => n.state = "end"
        <4> SUFFICES ASSUME b.state = "SEND_MONEY_PIN" PROVE n.state = "end"
          OBVIOUS
        <4>1. n = Ussd!To(b, "end")
          BY <1>1 DEF Ussd!Reactions
        <4>2. QED
          BY <1>3, <4>1 DEF Ussd!To, SessionBlobs
      <3>2. QED
        BY <1>5, <2>1, <2>2, <3>1
    <2>5. QED
      BY <1>2, <1>5, <2>1, <2>3, <2>4 DEF ConsentUnspent
  <1>10. Ussd!PaidAsShown'
    <2>1. CASE paid' = paid
      BY <1>2, <2>1 DEF Ussd!PaidAsShown
    <2>2. CASE b.state = "SEND_MONEY_PIN" /\ paid' = Append(paid, b)
      <3>1. /\ ScreenOf(b) \in Composed /\ ScreenOf(b).recipient = b.recipient
            /\ b.amountMinor \in {ScreenOf(b).amount - 1, ScreenOf(b).amount}
        BY <1>3, <2>2 DEF AmountFilled, AsksPayer, ScreenOf, Ussd!ConstantsOK
      <3>2. ASSUME NEW i \in DOMAIN paid'
            PROVE  paid'[i] = b \/ (i \in DOMAIN paid /\ paid'[i] = paid[i])
        BY <1>3, <2>2 DEF SessionsTyped
      <3>3. QED
        BY <1>2, <3>1, <3>2 DEF Ussd!PaidAsShown
    <2>3. QED
      BY <1>2, <2>1, <2>2
  <1>11. QED
    BY <1>6, <1>7, <1>8, <1>9, <1>10

\* What a handler that is done leaves behind: a session that goes on, or none,
\* and with a confirmation its screen.
LEMMA SessionsLeave ==
    ASSUME SessionsInv, NEW h \in Handlers, ussdPc[h] = "saving",
           ussdPc' = [ussdPc EXCEPT ![h] = "idle"],
           read' = [read EXCEPT ![h] = Ussd!Gone],
           session' = Ussd!Stored(read[h]),
           Composed' = Composed \cup Ussd!Screen(read[h]),
           UNCHANGED <<messages, consents, paid, ussdOverlapped, undeleted>>
    PROVE  SessionsInv'
  <1> DEFINE b == read[h]
  <1> USE DEF SessionsInv, Ending
  <1>1. /\ b \in SessionBlobs /\ b.state \in SessionStates \cup {"end"} /\ AmountFilled(b)
        /\ b.state = "SEND_MONEY_PIN" => ScreenOf(b) \in Composed
        /\ Ussd!Gone \in SessionBlobs /\ Ussd!Gone.state = "none"
    BY DEF SessionsTyped, SessionStages, AmountsFilled, AsksOnScreen,
           SessionBlobs, Ussd!Gone, Ussd!Blob
  <1>2. \/ session' = Ussd!Gone
        \/ session' = b /\ b.state \in SessionStates
    BY <1>1 DEF Ussd!Stored
  <1>3. /\ ussdPc'[h] = "idle" /\ read'[h] = Ussd!Gone
        /\ \A k \in Handlers : k # h => ussdPc'[k] = ussdPc[k] /\ read'[k] = read[k]
    BY DEF SessionsTyped
  <1>4. /\ Composed \subseteq Composed'
        /\ b.state = "SEND_MONEY_CONFIRM" => ScreenOf(b) \in Composed'
    BY DEF Ussd!Screen, ScreenOf
  <1>5. SessionsTyped'
    BY <1>1, <1>2 DEF SessionsTyped
  <1>6. SessionStages'
    BY <1>2, <1>3 DEF SessionStages
  <1>7. AmountsFilled' /\ AsksOnScreen'
    BY <1>1, <1>2, <1>3, <1>4 DEF AmountsFilled, AmountFilled, AsksOnScreen, AsksPayer
  <1>8. ConsentUnspent'
    BY <1>1, <1>2, <1>3 DEF ConsentUnspent
  <1>9. Ussd!PaidAsShown'
    BY <1>4 DEF Ussd!PaidAsShown, Composed
  <1>10. QED
    BY <1>5, <1>6, <1>7, <1>8, <1>9

LEMMA SessionsSave == ASSUME SessionsInv, NEW h \in Handlers, Ussd!Save(h) PROVE SessionsInv'
  BY SessionsLeave DEF Ussd!Save, Ussd!failures, Composed

\* A handler that fails stored its session, or leaves the one there was: if
\* that one should be gone, the failure is counted.
LEMMA SessionsFail == ASSUME SessionsInv, NEW h \in Handlers, Ussd!Fail(h) PROVE SessionsInv'
  <1> USE DEF SessionsInv
  <1>1. CASE session' = Ussd!Stored(read[h]) /\ unsent' = unsent \cup Ussd!Screen(read[h])
             /\ ussdPc[h] = "saving" /\ UNCHANGED undeleted
    BY <1>1, SessionsLeave DEF Ussd!Fail, Composed
  <1>2. CASE /\ undeleted' = IF read[h].state = "end" THEN undeleted + 1 ELSE undeleted
             /\ UNCHANGED <<session, unsent>>
    <2>1. /\ ussdPc[h] \in {"reacting", "saving"}
          /\ UNCHANGED <<messages, shown, consents, paid, ussdOverlapped>>
          /\ Ussd!Gone \in SessionBlobs /\ Ussd!Gone.state = "none"
      BY DEF Ussd!Fail, SessionBlobs, Ussd!Gone, Ussd!Blob
    <2>2. /\ ussdPc' \in [Handlers -> {"idle", "reacting", "saving"}]
          /\ read' \in [Handlers -> SessionBlobs]
          /\ ussdPc'[h] = "idle" /\ read'[h] = Ussd!Gone
          /\ \A k \in Handlers : k # h => ussdPc'[k] = ussdPc[k] /\ read'[k] = read[k]
      BY <2>1 DEF Ussd!Fail, SessionsTyped
    <2>3. SessionsTyped' /\ SessionStages'
      BY <1>2, <2>1, <2>2 DEF SessionsTyped, SessionStages
    <2>4. AmountsFilled' /\ AsksOnScreen'
      BY <1>2, <2>1, <2>2 DEF AmountsFilled, AmountFilled, AsksOnScreen, AsksPayer, Composed
    <2>5. ConsentUnspent'
      <3> SUFFICES ASSUME ~ussdOverlapped PROVE ConsentUnspent'
        BY <2>1 DEF ConsentUnspent
      <3>1. /\ Len(paid) \in Nat /\ consents \in Nat /\ undeleted \in Nat
            /\ Len(paid) <= consents + undeleted
            /\ \A k \in Handlers : k # h => ussdPc[k] = "idle"
        BY <2>1 DEF ConsentUnspent, SessionsTyped
      <3>2. CASE read[h].state = "end"
        BY <1>2, <2>1, <2>2, <3>1, <3>2 DEF ConsentUnspent
      <3>3. CASE read[h].state # "end"
        BY <1>2, <2>1, <2>2, <3>1, <3>3 DEF ConsentUnspent, Ending
      <3>4. QED
        BY <3>2, <3>3
    <2>6. Ussd!PaidAsShown'
      BY <1>2, <2>1 DEF Ussd!PaidAsShown
    <2>7. QED
      BY <2>3, <2>4, <2>5, <2>6
  <1>3. QED
    BY <1>1, <1>2 DEF Ussd!Fail

-----------------------------------------------------------------------------
\* Every delivery, reaction, save, failure and expiry keeps the inductive invariant,
\* however they interleave (UssdService.handleWebhook).
LEMMA SessionsHold == ASSUME Ussd!ConstantsOK PROVE Ussd!Spec => []SessionsInv
  <1>1. Ussd!Init => SessionsInv
    BY SessionsInit
  <1>2. SessionsInv /\ [Ussd!Next]_(Ussd!vars) => SessionsInv'
    <2> SUFFICES ASSUME SessionsInv, [Ussd!Next]_(Ussd!vars) PROVE SessionsInv'
      OBVIOUS
    <2>1. CASE Ussd!Next
      BY <2>1, SessionsExpire, SessionsReceive, SessionsReact, SessionsSave,
         SessionsFail DEF Ussd!Next
    <2>2. CASE UNCHANGED Ussd!vars
      BY <2>2 DEF Ussd!vars, Ussd!failures, Composed, Ending, SessionsInv, SessionsTyped,
                  SessionStages, AmountsFilled, AmountFilled, AsksPayer, AsksOnScreen, ScreenOf, ConsentUnspent, Ussd!PaidAsShown
    <2>3. QED
      BY <2>1, <2>2
  <1>3. QED
    BY <1>1, <1>2, PTL DEF Ussd!Spec

\* For any number of overlapping, repeated or failing deliveries: a USSD
\* payment goes to the recipient of a composed confirmation screen, for its
\* amount or one minor unit less, and deliveries that do not overlap pay at
\* most once per "1. Confirm" and per session that could not be deleted.
LEMMA SessionsSafe ==
    ASSUME Ussd!ConstantsOK
    PROVE  Ussd!Spec => []Ussd!UssdPaysAsConfirmed
  <1>1. SessionsInv => Ussd!UssdPaysAsConfirmed
    BY DEF SessionsInv, ConsentUnspent, Ussd!UssdPaysAsConfirmed, Ussd!ConsentPerPayment
  <1>2. QED
    BY <1>1, SessionsHold, PTL

-----------------------------------------------------------------------------
(* Wallets.  Two reservations carry the argument: the index slot of a key  *)
(* is held by one transaction and only while the key has no record         *)
(* (WalletKeyAlone, WalletKeyFresh), the advisory lock of a customer by    *)
(* one transaction, and past the look-up only while the customer has no    *)
(* wallet (WalletLockAlone, WalletMissing).  Records then name the wallet  *)
(* they were made for (WalletRecordsTrue), and the one that created it is  *)
(* unique (OneWalletCreator).                                              *)

HoldsWalletKey(r) == walletPc[r] \in {"locking", "finding", "drawing", "inserting"}
HoldsWalletLock(r) == walletPc[r] \in {"finding", "drawing", "inserting"}

WalletKeyAlone ==
    \A r, s \in WalletRequests :
        HoldsWalletKey(r) /\ HoldsWalletKey(s) /\ WalletKeyOf[r] = WalletKeyOf[s] => r = s

WalletKeyFresh ==
    \A r \in WalletRequests : HoldsWalletKey(r) => records[WalletKeyOf[r]] = Provision!NoResult

WalletLockAlone ==
    \A r, s \in WalletRequests :
        HoldsWalletLock(r) /\ HoldsWalletLock(s) /\ CustomerOf[r] = CustomerOf[s] => r = s

\* Between the look-up and the insert nobody else creates the wallet.
WalletMissing ==
    \A r \in WalletRequests :
        walletPc[r] \in {"drawing", "inserting"} => wallets[CustomerOf[r]] = Provision!None

DrawnToInsert == \A r \in WalletRequests : walletPc[r] = "inserting" => ref[r] \in References

DrawsLeft ==
    \A r \in WalletRequests : walletPc[r] # "done" => attempts[r] < MaxReferenceAttempts

\* A record is about a customer with a wallet and names its reference.
WalletRecordsTrue ==
    \A k \in WalletKeys :
        records[k] # Provision!NoResult =>
            /\ records[k] \in Provision!Results
            /\ records[k].reference = wallets[records[k].customer]

WalletCreator(k, c) == records[k].customer = c /\ records[k].created

\* A wallet has exactly one key whose record says "created".
OneWalletCreator ==
    \A c \in Customers :
        wallets[c] # Provision!None =>
            \E k \in WalletKeys : /\ WalletCreator(k, c)
                                  /\ \A j \in WalletKeys : WalletCreator(j, c) => j = k

WalletsInv ==
    /\ Provision!TypeOK
    /\ WalletKeyAlone
    /\ WalletKeyFresh
    /\ WalletLockAlone
    /\ WalletMissing
    /\ DrawnToInsert
    /\ DrawsLeft
    /\ WalletRecordsTrue
    /\ OneWalletCreator
    /\ Provision!ReferenceUnique

WalletAnswers == Provision!Results \cup {Provision!Without(code) : code \in {Provision!None,
"conflict", "error"}}

\* A request that ends tells its caller something and is done; the others
\* stay where they are.
LEMMA WalletFinishEffect ==
    ASSUME Provision!TypeOK, NEW r \in WalletRequests, NEW said \in WalletAnswers,
           Provision!Finish(r, said)
    PROVE  /\ walletPc' \in [WalletRequests -> {"idle", "reserving", "locking", "finding",
                                    "drawing", "inserting", "done"}]
           /\ walletAnswer' \in [WalletRequests -> WalletAnswers]
           /\ ref' \in [WalletRequests -> References \cup {Provision!None}]
           /\ walletPc'[r] = "done"
           /\ \A s \in WalletRequests \ {r} : walletPc'[s] = walletPc[s] /\ ref'[s] = ref[s]
  BY DEF Provision!Finish, Provision!TypeOK, WalletAnswers

\* What a stored record answers is something to tell.
LEMMA WalletReplayEffect ==
    ASSUME Provision!ConstantsOK, Provision!TypeOK, NEW r \in WalletRequests,
           Provision!Replay(r)
    PROVE  \E said \in WalletAnswers : Provision!Finish(r, said)
  <1> DEFINE said == IF records[WalletKeyOf[r]].customer = CustomerOf[r]
                     THEN records[WalletKeyOf[r]] ELSE Provision!Without("conflict")
  <1>1. records[WalletKeyOf[r]] \in Provision!Results \cup {Provision!NoResult}
    BY DEF Provision!ConstantsOK, Provision!TypeOK
  <1>2. said \in WalletAnswers
    BY <1>1 DEF WalletAnswers, Provision!NoResult
  <1>3. QED
    BY <1>2 DEF Provision!Replay

LEMMA WalletInit == ASSUME Provision!ConstantsOK PROVE Provision!Init => WalletsInv
  <1> SUFFICES ASSUME Provision!Init PROVE WalletsInv
    OBVIOUS
  <1> USE DEF Provision!Init
  <1>1. Provision!TypeOK
    BY DEF Provision!TypeOK, Provision!NoResult, Provision!ConstantsOK
  <1>2. WalletKeyAlone /\ WalletKeyFresh /\ WalletLockAlone /\ WalletMissing
    BY DEF WalletKeyAlone, WalletKeyFresh, WalletLockAlone, WalletMissing, HoldsWalletKey,
           HoldsWalletLock
  <1>3. DrawnToInsert /\ DrawsLeft /\ WalletRecordsTrue /\ OneWalletCreator
    BY DEF DrawnToInsert, DrawsLeft, WalletRecordsTrue, OneWalletCreator, Provision!ConstantsOK
  <1>4. Provision!ReferenceUnique
    BY DEF Provision!ReferenceUnique
  <1>5. QED
    BY <1>1, <1>2, <1>3, <1>4 DEF WalletsInv

\* A step of r that commits nothing: a reservation or a lock is taken only
\* when it is free, and r goes on only where it may.
WalletQuiet(r) ==
    /\ UNCHANGED <<wallets, records>>
    /\ \A s \in WalletRequests \ {r} :
           walletPc'[s] = walletPc[s] /\ ref'[s] = ref[s] /\ attempts'[s] = attempts[s]
    /\ HoldsWalletKey(r)' =>
           \/ HoldsWalletKey(r)
           \/ /\ Provision!Reserved(WalletKeyOf[r]) = {}
              /\ records[WalletKeyOf[r]] = Provision!NoResult
    /\ HoldsWalletLock(r)' => HoldsWalletLock(r) \/ Provision!Locked(CustomerOf[r]) = {}
    /\ walletPc'[r] \in {"drawing", "inserting"} => wallets[CustomerOf[r]] = Provision!None
    /\ walletPc'[r] = "inserting" => ref'[r] \in References
    /\ walletPc'[r] # "done" => attempts'[r] < MaxReferenceAttempts

LEMMA WalletQuietInv ==
    ASSUME Provision!ConstantsOK, WalletsInv, NEW r \in WalletRequests,
           WalletQuiet(r), Provision!TypeOK'
    PROVE  WalletsInv'
  <1> USE DEF WalletsInv, WalletQuiet
  <1>1. \A s \in WalletRequests \ {r} : (HoldsWalletKey(s)' <=> HoldsWalletKey(s))
                                  /\ (HoldsWalletLock(s)' <=> HoldsWalletLock(s))
    BY DEF HoldsWalletKey, HoldsWalletLock
  <1>2. WalletKeyAlone'
    <2>1. ASSUME NEW s \in WalletRequests \ {r}, HoldsWalletKey(s), HoldsWalletKey(r)',
                 WalletKeyOf[r] = WalletKeyOf[s]
          PROVE  FALSE
      BY <2>1 DEF WalletKeyAlone, Provision!Reserved, HoldsWalletKey
    <2>2. QED
      BY <1>1, <2>1 DEF WalletKeyAlone
  <1>3. WalletKeyFresh'
    BY <1>1 DEF WalletKeyFresh
  <1>4. WalletLockAlone'
    <2>1. ASSUME NEW s \in WalletRequests \ {r}, HoldsWalletLock(s), HoldsWalletLock(r)',
                 CustomerOf[r] = CustomerOf[s]
          PROVE  FALSE
      BY <2>1 DEF WalletLockAlone, Provision!Locked, HoldsWalletLock
    <2>2. QED
      BY <1>1, <2>1 DEF WalletLockAlone
  <1>5. WalletMissing' /\ DrawnToInsert' /\ DrawsLeft'
    BY DEF WalletMissing, DrawnToInsert, DrawsLeft
  <1>6. WalletRecordsTrue' /\ OneWalletCreator' /\ Provision!ReferenceUnique'
    BY DEF WalletRecordsTrue, OneWalletCreator, Provision!ReferenceUnique, WalletCreator
  <1>7. QED
    BY <1>2, <1>3, <1>4, <1>5, <1>6

\* Ending without a commit is a quiet step.
LEMMA WalletFinishQuiet ==
    ASSUME Provision!ConstantsOK, WalletsInv, NEW r \in WalletRequests, NEW said \in WalletAnswers,
           Provision!Finish(r, said), UNCHANGED <<wallets, records>>,
           attempts' \in [WalletRequests -> 0 .. MaxReferenceAttempts],
           \A s \in WalletRequests \ {r} : attempts'[s] = attempts[s]
    PROVE  WalletsInv'
  <1> USE DEF WalletsInv
  <1>1. Provision!TypeOK'
    BY WalletFinishEffect DEF Provision!TypeOK, WalletAnswers
  <1>2. WalletQuiet(r)
    BY WalletFinishEffect DEF WalletQuiet, HoldsWalletKey, HoldsWalletLock
  <1>3. QED
    BY <1>1, <1>2, WalletQuietInv

LEMMA WalletReplayInv ==
    ASSUME Provision!ConstantsOK, WalletsInv, NEW r \in WalletRequests, Provision!Replay(r),
           UNCHANGED <<wallets, records, attempts>>
    PROVE  WalletsInv'
  <1>1. PICK said \in WalletAnswers : Provision!Finish(r, said)
    BY WalletReplayEffect DEF WalletsInv
  <1>2. attempts' \in [WalletRequests -> 0 .. MaxReferenceAttempts]
    BY DEF WalletsInv, Provision!TypeOK
  <1>3. QED
    BY <1>1, <1>2, WalletFinishQuiet

\* Going on to a place where the request may be is a quiet step.
LEMMA WalletGotoInv ==
    ASSUME Provision!ConstantsOK, WalletsInv, NEW r \in WalletRequests,
           NEW l \in {"reserving", "locking", "finding", "drawing"},
           Provision!Goto(r, l), walletPc[r] # "done",
           UNCHANGED <<wallets, records, ref, attempts>>,
           l \in {"locking", "finding", "drawing"} =>
               \/ HoldsWalletKey(r)
               \/ /\ Provision!Reserved(WalletKeyOf[r]) = {}
                  /\ records[WalletKeyOf[r]] = Provision!NoResult,
           l \in {"finding", "drawing"} =>
               HoldsWalletLock(r) \/ Provision!Locked(CustomerOf[r]) = {},
           l = "drawing" => wallets[CustomerOf[r]] = Provision!None
    PROVE  WalletsInv'
  <1> USE DEF WalletsInv
  <1>1. walletPc' = [walletPc EXCEPT ![r] = l] /\ walletAnswer' = walletAnswer
    BY DEF Provision!Goto
  <1>2. Provision!TypeOK'
    BY <1>1 DEF Provision!TypeOK
  <1>3. walletPc'[r] = l /\ \A s \in WalletRequests \ {r} : walletPc'[s] = walletPc[s]
    BY <1>1 DEF Provision!TypeOK
  <1>4. WalletQuiet(r)
    BY <1>3 DEF WalletQuiet, HoldsWalletKey, HoldsWalletLock, DrawsLeft
  <1>5. QED
    BY <1>2, <1>4, WalletQuietInv

LEMMA WalletReserveInv ==
    ASSUME Provision!ConstantsOK, WalletsInv, NEW r \in WalletRequests,
           Provision!replayIfSettled(r) \/ Provision!Reserve(r) \/ Provision!Lock(r)
    PROVE  WalletsInv'
  <1>1. CASE Provision!replayIfSettled(r)
    BY <1>1, WalletReplayInv, WalletGotoInv DEF Provision!replayIfSettled
  <1>2. CASE Provision!Reserve(r)
    BY <1>2, WalletReplayInv, WalletGotoInv DEF Provision!Reserve
  <1>3. CASE Provision!Lock(r)
    <2>1. HoldsWalletKey(r) /\ Provision!Locked(CustomerOf[r]) = {} /\ walletPc[r] # "done"
      BY <1>3 DEF Provision!Lock, Provision!LockFree, HoldsWalletKey
    <2>2. QED
      BY <1>3, <2>1, WalletGotoInv DEF Provision!Lock
  <1>4. QED
    BY <1>1, <1>2, <1>3

\* A drawn reference is free when it is drawn, and the draws are counted.
LEMMA WalletDrawInv ==
    ASSUME Provision!ConstantsOK, WalletsInv, NEW r \in WalletRequests,
           Provision!DrawReference(r)
    PROVE  WalletsInv'
  <1> USE DEF WalletsInv
  <1>1. PICK f \in References :
            \/ /\ ref' = [ref EXCEPT ![r] = f]
               /\ Provision!Goto(r, "inserting") /\ UNCHANGED attempts
            \/ /\ attempts' = [attempts EXCEPT ![r] = @ + 1]
               /\ IF Provision!Exhausted(attempts'[r])
                  THEN Provision!Finish(r, Provision!Without("error"))
                  ELSE UNCHANGED <<walletPc, walletAnswer, ref>>
    BY DEF Provision!DrawReference
  <1>2. /\ walletPc[r] = "drawing"
        /\ UNCHANGED <<wallets, records>>
        /\ wallets[CustomerOf[r]] = Provision!None
        /\ HoldsWalletKey(r) /\ HoldsWalletLock(r)
        /\ attempts[r] \in Nat /\ attempts[r] < MaxReferenceAttempts
        /\ MaxReferenceAttempts \in Nat
    BY DEF Provision!DrawReference, WalletMissing, HoldsWalletKey, HoldsWalletLock, DrawsLeft,
           Provision!TypeOK,
           Provision!ConstantsOK
  <1>3. CASE /\ ref' = [ref EXCEPT ![r] = f]
             /\ Provision!Goto(r, "inserting") /\ UNCHANGED attempts
    <2>1. /\ walletPc' = [walletPc EXCEPT ![r] = "inserting"]
          /\ UNCHANGED <<walletAnswer, attempts>>
      BY <1>3 DEF Provision!Goto
    <2>2. Provision!TypeOK'
      BY <1>2, <1>3, <2>1 DEF Provision!TypeOK
    <2>3. WalletQuiet(r)
      BY <1>2, <1>3, <2>1 DEF WalletQuiet, HoldsWalletKey, HoldsWalletLock, Provision!TypeOK
    <2>4. QED
      BY <2>2, <2>3, WalletQuietInv
  <1>4. CASE /\ attempts' = [attempts EXCEPT ![r] = @ + 1]
             /\ Provision!Exhausted(attempts'[r])
             /\ Provision!Finish(r, Provision!Without("error"))
    <2>1. attempts' \in [WalletRequests -> 0 .. MaxReferenceAttempts]
      BY <1>2, <1>4 DEF Provision!TypeOK
    <2>2. \A s \in WalletRequests \ {r} : attempts'[s] = attempts[s]
      BY <1>4 DEF Provision!TypeOK
    <2>3. QED
      BY <1>2, <1>4, <2>1, <2>2, WalletFinishQuiet DEF WalletAnswers
  <1>5. CASE /\ attempts' = [attempts EXCEPT ![r] = @ + 1]
             /\ ~Provision!Exhausted(attempts'[r])
             /\ UNCHANGED <<walletPc, walletAnswer, ref>>
    <2>1. attempts' \in [WalletRequests -> 0 .. MaxReferenceAttempts]
      BY <1>2, <1>5 DEF Provision!TypeOK
    <2>2. Provision!TypeOK'
      BY <1>2, <1>5, <2>1 DEF Provision!TypeOK
    <2>3. /\ attempts'[r] < MaxReferenceAttempts
          /\ \A s \in WalletRequests \ {r} : attempts'[s] = attempts[s]
      BY <1>2, <1>5 DEF Provision!TypeOK, Provision!Exhausted
    <2>4. WalletQuiet(r)
      BY <1>2, <1>5, <2>3 DEF WalletQuiet, HoldsWalletKey, HoldsWalletLock
    <2>5. QED
      BY <2>2, <2>4, WalletQuietInv
  <1>6. QED
    BY <1>1, <1>3, <1>4, <1>5

\* What the commit of r leaves: its record is the only new one, and it is the
\* creator's exactly when the wallet is new.
LEMMA WalletCommitInv ==
    ASSUME Provision!ConstantsOK, WalletsInv, NEW r \in WalletRequests, HoldsWalletLock(r),
           NEW result \in Provision!Results, Provision!Commit(r, result),
           result.customer = CustomerOf[r],
           UNCHANGED attempts,
           wallets' \in [Customers -> References \cup {Provision!None}],
           wallets'[CustomerOf[r]] = result.reference,
           \A c \in Customers \ {CustomerOf[r]} : wallets'[c] = wallets[c],
           IF result.created THEN wallets[CustomerOf[r]] = Provision!None
                             ELSE wallets'[CustomerOf[r]] = wallets[CustomerOf[r]],
           Provision!ReferenceUnique'
    PROVE  WalletsInv'
  <1> USE DEF WalletsInv
  <1> DEFINE c == CustomerOf[r]
             k == WalletKeyOf[r]
  <1>1. /\ c \in Customers /\ k \in WalletKeys
        /\ records[k] = Provision!NoResult
        /\ Provision!NoResult.customer = Provision!None /\ Provision!None \notin Customers
        /\ Provision!None \notin References
        /\ result.reference \in References
    BY DEF Provision!ConstantsOK, WalletKeyFresh, HoldsWalletKey, HoldsWalletLock,
           Provision!NoResult, Provision!Without,
           Provision!Results
  <1>2. /\ records' = [records EXCEPT ![k] = result]
        /\ Provision!Finish(r, result)
    BY DEF Provision!Commit
  <1>3. /\ records'[k] = result
        /\ \A j \in WalletKeys \ {k} : records'[j] = records[j]
        /\ records' \in [WalletKeys -> Provision!Results \cup {Provision!NoResult}]
    BY <1>1, <1>2 DEF Provision!TypeOK
  <1>4. /\ walletPc'[r] = "done"
        /\ \A s \in WalletRequests \ {r} : walletPc'[s] = walletPc[s] /\ ref'[s] = ref[s]
    BY <1>2, WalletFinishEffect DEF WalletAnswers
  <1>5. Provision!TypeOK'
    BY <1>2, <1>3, WalletFinishEffect DEF Provision!TypeOK, WalletAnswers
  <1>6. /\ ~HoldsWalletKey(r)' /\ ~HoldsWalletLock(r)'
        /\ \A s \in WalletRequests \ {r} : (HoldsWalletKey(s)' <=> HoldsWalletKey(s))
                                     /\ (HoldsWalletLock(s)' <=> HoldsWalletLock(s))
    BY <1>4 DEF HoldsWalletKey, HoldsWalletLock
  <1>7. WalletKeyAlone' /\ WalletLockAlone'
    BY <1>6 DEF WalletKeyAlone, WalletLockAlone
  <1>8. WalletKeyFresh'
    <2>1. \A s \in WalletRequests \ {r} : HoldsWalletKey(s) => WalletKeyOf[s] # k
      BY DEF WalletKeyAlone, HoldsWalletKey, HoldsWalletLock
    <2>2. QED
      BY <1>3, <1>6, <2>1 DEF WalletKeyFresh, Provision!ConstantsOK
  <1>9. WalletMissing'
    <2>1. \A s \in WalletRequests \ {r} : HoldsWalletLock(s) => CustomerOf[s] # c
      BY DEF WalletLockAlone
    <2>2. QED
      BY <1>4, <2>1 DEF WalletMissing, Provision!ConstantsOK, HoldsWalletLock
  <1>10. DrawnToInsert' /\ DrawsLeft'
    BY <1>4 DEF DrawnToInsert, DrawsLeft
  <1>11. WalletRecordsTrue'
    <2>1. ASSUME NEW j \in WalletKeys \ {k}, records[j] # Provision!NoResult
          PROVE  records[j] \in Provision!Results
                 /\ records[j].reference = wallets'[records[j].customer]
      <3>1. /\ records[j] \in Provision!Results
            /\ records[j].reference = wallets[records[j].customer]
            /\ records[j].reference \in References
            /\ records[j].customer \in Customers
        BY <2>1 DEF WalletRecordsTrue, Provision!Results
      <3>2. CASE records[j].customer = c
        BY <1>1, <3>1, <3>2
      <3>3. QED
        BY <3>1, <3>2
    <2>2. QED
      BY <1>1, <1>3, <2>1 DEF WalletRecordsTrue
  <1>12. OneWalletCreator'
    <2>1. \A j \in WalletKeys \ {k}, d \in Customers :
             WalletCreator(j, d)' <=> WalletCreator(j, d)
      BY <1>3 DEF WalletCreator
    <2>2. \A d \in Customers : WalletCreator(k, d)' <=> d = c /\ result.created
      BY <1>3 DEF WalletCreator, Provision!Results
    <2>3. \A d \in Customers : ~WalletCreator(k, d)
      BY <1>1 DEF WalletCreator
    <2>4. ASSUME NEW d \in Customers \ {c}, wallets'[d] # Provision!None
          PROVE  \E j \in WalletKeys : /\ WalletCreator(j, d)'
                                       /\ \A i \in WalletKeys : WalletCreator(i, d)' => i = j
      BY <2>1, <2>2, <2>3, <2>4 DEF OneWalletCreator
    <2>5. CASE result.created
      <3>1. \A j \in WalletKeys : ~WalletCreator(j, c)
        BY <1>1, <2>5 DEF WalletCreator, WalletRecordsTrue, Provision!Results
      <3>2. \A j \in WalletKeys : WalletCreator(j, c)' <=> j = k
        BY <1>1, <2>1, <2>2, <2>5, <3>1
      <3>3. QED
        BY <1>1, <2>4, <3>2 DEF OneWalletCreator
    <2>6. CASE ~result.created
      <3>1. wallets[c] # Provision!None
        BY <1>1, <2>6
      <3>2. \A j \in WalletKeys : WalletCreator(j, c)' <=> WalletCreator(j, c)
        BY <1>1, <2>1, <2>2, <2>3, <2>6
      <3>3. QED
        BY <1>1, <2>4, <3>1, <3>2 DEF OneWalletCreator
    <2>7. QED
      BY <2>5, <2>6
  <1>13. QED
    BY <1>5, <1>7, <1>8, <1>9, <1>10, <1>11, <1>12

LEMMA WalletFindInv ==
    ASSUME Provision!ConstantsOK, WalletsInv, NEW r \in WalletRequests,
           Provision!FindExisting(r)
    PROVE  WalletsInv'
  <1> DEFINE c == CustomerOf[r]
             result == Provision!Wallet(c, FALSE)
  <1>1. /\ walletPc[r] = "finding" /\ HoldsWalletLock(r) /\ HoldsWalletKey(r)
        /\ c \in Customers
        /\ UNCHANGED <<wallets, attempts>>
    BY DEF Provision!FindExisting, HoldsWalletLock, HoldsWalletKey, Provision!ConstantsOK
  <1>2. CASE wallets[c] # Provision!None /\ Provision!Commit(r, result)
    <2>1. /\ result \in Provision!Results
          /\ result.customer = c /\ result.reference = wallets[c]
          /\ ~result.created
      BY <1>1, <1>2 DEF Provision!Wallet, Provision!Results, WalletsInv, Provision!TypeOK
    <2>2. /\ wallets' \in [Customers -> References \cup {Provision!None}]
          /\ Provision!ReferenceUnique'
      BY <1>1 DEF WalletsInv, Provision!TypeOK, Provision!ReferenceUnique
    <2> HIDE DEF result
    <2>3. QED
      BY <1>1, <1>2, <2>1, <2>2, WalletCommitInv
  <1>3. CASE /\ wallets[c] = Provision!None /\ Provision!Goto(r, "drawing")
             /\ UNCHANGED <<records, ref>>
    BY <1>1, <1>3, WalletGotoInv
  <1>4. QED
    BY <1>2, <1>3 DEF Provision!FindExisting

LEMMA WalletInsertInv ==
    ASSUME Provision!ConstantsOK, WalletsInv, NEW r \in WalletRequests, Provision!Insert(r)
    PROVE  WalletsInv'
  <1> DEFINE c == CustomerOf[r]
             result == [customer |-> c, reference |-> ref[r],
                        created |-> Provision!Created(c)]
  <1>1. /\ walletPc[r] = "inserting" /\ HoldsWalletLock(r)
        /\ c \in Customers /\ ref[r] \in References
        /\ UNCHANGED attempts
    BY DEF Provision!Insert, HoldsWalletLock, Provision!ConstantsOK, WalletsInv, DrawnToInsert
  <1>2. CASE /\ Provision!IndexesAllow(r)
             /\ wallets' = [wallets EXCEPT ![c] = ref[r]]
             /\ Provision!Commit(r, result)
    <2>1. /\ result \in Provision!Results /\ result.customer = c
          /\ result.reference = ref[r] /\ result.created
      BY <1>1 DEF Provision!Results, Provision!Created
    <2>2. /\ wallets' \in [Customers -> References \cup {Provision!None}]
          /\ wallets'[c] = ref[r]
          /\ \A d \in Customers \ {c} : wallets'[d] = wallets[d]
          /\ wallets[c] = Provision!None
          /\ \A d \in Customers : wallets[d] # ref[r]
      BY <1>1, <1>2 DEF WalletsInv, Provision!TypeOK, Provision!IndexesAllow
    <2>3. Provision!ReferenceUnique'
      BY <2>2 DEF Provision!ReferenceUnique, WalletsInv
    <2> HIDE DEF result
    <2>4. QED
      BY <1>1, <1>2, <2>1, <2>2, <2>3, WalletCommitInv
  <1>3. CASE /\ Provision!Finish(r, Provision!Without("error"))
             /\ UNCHANGED <<wallets, records>>
    BY <1>1, <1>3, WalletFinishQuiet DEF WalletAnswers, WalletsInv, Provision!TypeOK
  <1>4. QED
    BY <1>2, <1>3 DEF Provision!Insert

LEMMA WalletCrashInv ==
    ASSUME Provision!ConstantsOK, WalletsInv, NEW r \in WalletRequests, Provision!Crash(r)
    PROVE  WalletsInv'
  BY WalletFinishQuiet DEF Provision!Crash, WalletAnswers, WalletsInv, Provision!TypeOK

LEMMA WalletNext ==
    ASSUME Provision!ConstantsOK
    PROVE  WalletsInv /\ [Provision!Next]_(Provision!vars) => WalletsInv'
  <1> SUFFICES ASSUME WalletsInv, [Provision!Next]_(Provision!vars) PROVE WalletsInv'
    OBVIOUS
  <1>1. CASE UNCHANGED Provision!vars
    BY <1>1 DEF Provision!vars, WalletsInv, Provision!TypeOK, WalletKeyAlone, WalletKeyFresh,
                WalletLockAlone,
                WalletMissing, DrawnToInsert, DrawsLeft, WalletRecordsTrue,
                OneWalletCreator, Provision!ReferenceUnique, HoldsWalletKey, HoldsWalletLock,
                WalletCreator
  <1>2. CASE Provision!Next
    BY <1>2, WalletReserveInv, WalletDrawInv, WalletFindInv, WalletInsertInv,
    WalletCrashInv DEF Provision!Next
  <1>3. QED
    BY <1>1, <1>2

\* The instance's cardinalities are those of FiniteSetTheorems.
LEMMA WalletCounts == ASSUME NEW S PROVE Provision!Cardinality(S) = Cardinality(S)
  BY DEF Provision!Cardinality, Cardinality

\* What the invariant says of the records of a customer, counted.
LEMMA WalletCreatedCounted ==
    ASSUME Provision!ConstantsOK, WalletsInv
    PROVE  Provision!CreatedOnce
  <1> SUFFICES ASSUME NEW c \in Customers
               PROVE  LET mine == {k \in WalletKeys : records[k].customer = c}
                      IN  /\ Provision!Cardinality({k \in mine : records[k].created})
                                 = IF wallets[c] = Provision!None THEN 0 ELSE 1
                          /\ \A k \in mine : records[k].reference = wallets[c]
    BY DEF Provision!CreatedOnce
  <1> DEFINE mine == {k \in WalletKeys : records[k].customer = c}
             creators == {k \in mine : records[k].created}
  <1>1. \A k \in mine : /\ records[k].reference = wallets[c]
                        /\ wallets[c] # Provision!None
    BY DEF WalletsInv, WalletRecordsTrue, Provision!NoResult, Provision!Without,
           Provision!ConstantsOK, Provision!Results
  <1>2. CASE wallets[c] = Provision!None
    <2>1. creators = {}
      BY <1>1, <1>2
    <2>2. QED
      BY <1>1, <1>2, <2>1, FS_EmptySet, WalletCounts
  <1>3. CASE wallets[c] # Provision!None
    <2>1. PICK k \in WalletKeys : /\ WalletCreator(k, c)
                                  /\ \A j \in WalletKeys : WalletCreator(j, c) => j = k
      BY <1>3 DEF WalletsInv, OneWalletCreator
    <2>2. creators = {k}
      BY <2>1 DEF WalletCreator
    <2>3. Provision!Cardinality(creators) = 1
      BY <2>2, FS_Singleton, WalletCounts
    <2>4. QED
      BY <1>1, <1>3, <2>3
  <1>4. QED
    BY <1>2, <1>3

LEMMA WalletInserts == ASSUME WalletsInv PROVE Provision!InsertsAlone
  <1> SUFFICES ASSUME NEW r \in WalletRequests, walletPc[r] = "inserting"
               PROVE  /\ wallets[CustomerOf[r]] = Provision!None
                      /\ Provision!Locked(CustomerOf[r]) = {r}
    BY DEF Provision!InsertsAlone
  <1>1. wallets[CustomerOf[r]] = Provision!None
    BY DEF WalletsInv, WalletMissing
  <1>2. Provision!Locked(CustomerOf[r]) = {r}
    BY DEF WalletsInv, WalletLockAlone, HoldsWalletLock, Provision!Locked
  <1>3. QED
    BY <1>1, <1>2

-----------------------------------------------------------------------------
(* The Ledger's channel operations: a journal is admitted only between two *)
(* different accounts, its key is settled once and for good, and what it   *)
(* moves leaves wallets minus float where they were.                       *)

ChannelTyped ==
    /\ balance \in [Channel!Accounts -> Int]
    /\ settled \in [LedgerKeys -> LedgerRequests \cup {Channel!NoRequest}]
    /\ ledgerPc \in [LedgerRequests -> {"idle", "posting", "refused", "answered"}]

\* Admission looked at the two ends of a payment.
EndsDiffer ==
    \A r \in LedgerRequests :
        ledgerPc[r] = "posting" /\ KindOf[r] = "qr" => WalletOf[r] # PayeeOf[r]

ChannelInv ==
    /\ ChannelTyped
    /\ EndsDiffer
    /\ Channel!FloatBacksWallets
    /\ Channel!StaleCheckIsHarmless

\* The instance's sums are the sums of Sums.
LEMMA ChannelSums ==
    ASSUME NEW f, NEW S
    PROVE  Channel!SumFunctionOnSet(f, S) = SumFunctionOnSet(f, S)
  BY DEF Channel!SumFunctionOnSet, Channel!FoldFunctionOnSet, Channel!MapThenFoldSet,
         SumFunctionOnSet, FoldFunctionOnSet, MapThenFoldSet

LEMMA ChannelFacts ==
    ASSUME Channel!ConstantsOK
    PROVE  /\ IsFiniteSet(Wallets) /\ Channel!Float \notin Wallets
           /\ Channel!Accounts = Wallets \cup {Channel!Float}
           /\ \A r \in LedgerRequests :
                  /\ WalletOf[r] \in Wallets /\ PayeeOf[r] \in Wallets
                  /\ LedgerAmountOf[r] \in Int /\ LedgerKeyOf[r] \in LedgerKeys
                  /\ KindOf[r] \in {"qr", "in", "out"} /\ r # Channel!NoRequest
  <1>1. IsFiniteSet(Wallets)
    BY DEF Channel!ConstantsOK, Channel!IsFiniteSet, IsFiniteSet
  <1>2. QED
    BY <1>1 DEF Channel!ConstantsOK, Channel!Accounts

LEMMA ChannelInitInv == ASSUME Channel!ConstantsOK, Channel!Init PROVE ChannelInv
  <1> USE ChannelFacts DEF Channel!Init, Channel!Journals!ServiceInit
  <1>1. /\ balance = Channel!Openings
        /\ settled = [k \in LedgerKeys |-> Channel!NoRequest]
        /\ ledgerPc = [r \in LedgerRequests |-> "idle"]
    OBVIOUS
  <1>2. Opening \in [Wallets -> Nat]
    BY DEF Channel!ConstantsOK
  <1>3. /\ balance[Channel!Float] = 0
        /\ \A w \in Wallets : balance[w] = Opening[w] /\ balance[w] \in Nat
    BY <1>1, <1>2 DEF Channel!Openings
  <1>4. ChannelTyped
    BY <1>1, <1>2 DEF ChannelTyped, Channel!Openings
  <1>5. Channel!FloatBacksWallets
    <2>1. SumFunctionOnSet(balance, Wallets) = SumFunctionOnSet(Opening, Wallets)
      BY <1>3, SumSame
    <2>2. SumFunctionOnSet(balance, Wallets) \in Int
      BY <1>3, SumType
    <2>3. QED
      BY <1>3, <2>1, <2>2, ChannelSums DEF Channel!FloatBacksWallets
  <1>6. EndsDiffer /\ Channel!StaleCheckIsHarmless
    BY <1>1, <1>3 DEF EndsDiffer, Channel!StaleCheckIsHarmless
  <1>7. QED
    BY <1>4, <1>5, <1>6 DEF ChannelInv

LEMMA CheckHolds ==
    ASSUME Channel!ConstantsOK, ChannelInv, NEW r \in LedgerRequests, Channel!Check(r)
    PROVE  ChannelInv'
  <1> USE DEF ChannelInv, ChannelTyped
  <1>1. /\ ledgerPc' \in {[ledgerPc EXCEPT ![r] = "posting"],
                          [ledgerPc EXCEPT ![r] = "refused"]}
        /\ ledgerPc'[r] = "posting" /\ KindOf[r] = "qr" => WalletOf[r] # PayeeOf[r]
        /\ UNCHANGED <<balance, settled, active, floats>>
    BY DEF Channel!Check, Channel!Admits
  <1>2. ChannelTyped'
    BY <1>1
  <1>3. EndsDiffer'
    BY <1>1 DEF EndsDiffer
  <1>4. Channel!FloatBacksWallets'
    BY <1>1 DEF Channel!FloatBacksWallets
  <1>5. Channel!StaleCheckIsHarmless'
    BY <1>1 DEF Channel!StaleCheckIsHarmless
  <1>6. QED
    BY <1>2, <1>3, <1>4, <1>5

\* What a journal moves: from one wallet to another, or between a wallet and
\* the float.
LEMMA SettleMoves ==
    ASSUME Channel!ConstantsOK, ChannelInv, NEW r \in LedgerRequests,
           ledgerPc[r] = "posting", Channel!Journals!Settle(r)
    PROVE  /\ balance' \in [Channel!Accounts -> Int]
           /\ \A w \in Wallets : balance'[w] >= 0
           /\ Channel!FloatBacksWallets'
  <1> DEFINE a == WalletOf[r]
             b == PayeeOf[r]
             n == LedgerAmountOf[r]
             F == Channel!Float
  <1>1. /\ a \in Wallets /\ b \in Wallets /\ n \in Int /\ F \notin Wallets
        /\ KindOf[r] \in {"qr", "in", "out"} /\ IsFiniteSet(Wallets)
        /\ Channel!Accounts = Wallets \cup {F}
        /\ balance \in [Channel!Accounts -> Int]
    BY ChannelFacts DEF ChannelInv, ChannelTyped
  <1>2. \A x \in Wallets \cup {F} : balance'[x] = balance[x] + Channel!Change(r, x)
    BY <1>1 DEF Channel!Journals!Settle, Channel!Journals!Applied, Channel!Effects
  <1>3. \A w \in Wallets : balance'[w] >= 0
    BY <1>1 DEF Channel!Journals!Settle, Channel!Journals!Covered
  <1>4. balance' = [x \in Channel!Accounts |-> balance'[x]]
    BY DEF Channel!Journals!Settle, Channel!Journals!Applied
  <1>5. \A x \in Wallets \cup {F} : Channel!Change(r, x) \in Int
    BY <1>1 DEF Channel!Change
  <1>6. balance' \in [Channel!Accounts -> Int]
    BY <1>1, <1>2, <1>4, <1>5
  <1>7. \A w \in Wallets : balance[w] \in Int /\ balance'[w] \in Int
    BY <1>1, <1>6
  <1> DEFINE before == SumFunctionOnSet(balance, Wallets)
             after == SumFunctionOnSet(balance', Wallets)
  <1>8. before \in Int
    BY <1>1, <1>7, SumType
  <1>9. after - balance'[F] = before - balance[F]
    <2>1. CASE KindOf[r] = "qr"
      <3> DEFINE debited == [balance EXCEPT ![a] = @ - n]
      <3>1. a # b
        BY <2>1 DEF ChannelInv, EndsDiffer
      <3>2. /\ Channel!Change(r, a) = -n /\ Channel!Change(r, b) = n
            /\ Channel!Change(r, F) = 0
            /\ \A w \in Wallets \ {a, b} : Channel!Change(r, w) = 0
        BY <1>1, <2>1, <3>1 DEF Channel!Change
      <3>3. /\ balance[a] = debited[a] + n
            /\ \A w \in Wallets \ {a} : balance[w] = debited[w]
        BY <1>1
      <3>4. \A w \in Wallets : debited[w] \in Int
        BY <1>1
      <3>5. /\ balance'[b] = debited[b] + n
            /\ \A w \in Wallets \ {b} : balance'[w] = debited[w]
        <4>1. balance'[a] = balance[a] + (-n) /\ balance'[b] = balance[b] + n
          BY <1>1, <1>2, <3>2
        <4>2. \A w \in Wallets \ {a, b} : balance'[w] = balance[w]
          BY <1>2, <1>7, <3>2
        <4>3. QED
          BY <1>1, <3>1, <4>1, <4>2
      <3>6. balance'[F] = balance[F]
        BY <1>1, <1>2, <3>2
      <3>7. n \in Int /\ a \in Wallets /\ b \in Wallets /\ IsFiniteSet(Wallets)
        BY <1>1
      <3> HIDE DEF debited, a, b, n, F
      <3>8. SumFunctionOnSet(balance, Wallets) = SumFunctionOnSet(debited, Wallets) + n
        BY <3>3, <3>4, <3>7, SumUpdate
      <3>9. SumFunctionOnSet(balance', Wallets) = SumFunctionOnSet(debited, Wallets) + n
        BY <3>4, <3>5, <3>7, SumUpdate
      <3>10. QED
        BY <3>6, <3>8, <3>9
    <2>2. CASE KindOf[r] # "qr"
      <3> DEFINE m == Channel!Change(r, a)
      <3>1. /\ m \in Int /\ Channel!Change(r, F) = m
            /\ \A w \in Wallets \ {a} : Channel!Change(r, w) = 0
        BY <1>1, <2>2 DEF Channel!Change
      <3>2. /\ balance'[a] = balance[a] + m /\ balance'[F] = balance[F] + m
            /\ balance[F] \in Int
        BY <1>1, <1>2, <3>1
      <3>3. \A w \in Wallets \ {a} : balance'[w] = balance[w]
        BY <1>2, <1>7, <3>1
      <3>4. m \in Int /\ a \in Wallets /\ IsFiniteSet(Wallets)
        BY <1>1, <3>1
      <3>5. \A w \in Wallets : balance[w] \in Int
        BY <1>7
      <3> HIDE DEF m, a, F
      <3>6. SumFunctionOnSet(balance', Wallets) = SumFunctionOnSet(balance, Wallets) + m
        BY <3>2, <3>3, <3>4, <3>5, SumUpdate
      <3> HIDE DEF before, after
      <3>7. after = before + m
        BY <3>6 DEF before, after
      <3>8. QED
        BY <1>8, <3>2, <3>4, <3>7
    <2>3. QED
      BY <2>1, <2>2
  <1>10. Channel!FloatBacksWallets'
    <2>1. before - balance[F] = SumFunctionOnSet(Opening, Wallets)
      BY ChannelSums DEF ChannelInv, Channel!FloatBacksWallets
    <2>2. QED
      BY <1>9, <2>1, ChannelSums DEF Channel!FloatBacksWallets
  <1>11. QED
    BY <1>3, <1>6, <1>10

LEMMA PostHolds ==
    ASSUME Channel!ConstantsOK, ChannelInv, NEW r \in LedgerRequests,
           Channel!PostJournal(r)
    PROVE  ChannelInv'
  <1> DEFINE k == LedgerKeyOf[r]
  <1>1. k \in LedgerKeys /\ r # Channel!NoRequest
    BY ChannelFacts
  <1>2. CASE Channel!Journals!Settle(r) /\ ledgerPc' = [ledgerPc EXCEPT ![r] = "answered"]
    <2>1. /\ ledgerPc[r] = "posting" /\ settled[k] = Channel!NoRequest
          /\ settled' = [settled EXCEPT ![k] = r]
      BY <1>2 DEF Channel!PostJournal, Channel!Journals!Settle
    <2>2. /\ balance' \in [Channel!Accounts -> Int]
          /\ \A w \in Wallets : balance'[w] >= 0
          /\ Channel!FloatBacksWallets'
      BY <1>2, <2>1, SettleMoves
    <2>3. ChannelTyped' /\ EndsDiffer'
      BY <1>1, <1>2, <2>1, <2>2 DEF ChannelInv, ChannelTyped, EndsDiffer
    <2>4. ASSUME NEW q \in LedgerRequests, ledgerPc'[q] = "answered"
          PROVE  /\ settled'[LedgerKeyOf[q]] # Channel!NoRequest
                 /\ Channel!Effects[settled'[LedgerKeyOf[q]]] = Channel!Effects[q]
      <3>1. LedgerKeyOf[q] \in LedgerKeys
        BY ChannelFacts
      <3>2. CASE q = r
        BY <1>1, <2>1, <3>2 DEF ChannelInv, ChannelTyped
      <3>3. CASE q # r
        <4>1. /\ settled[LedgerKeyOf[q]] # Channel!NoRequest
              /\ Channel!Effects[settled[LedgerKeyOf[q]]] = Channel!Effects[q]
          BY <1>2, <2>4, <3>3 DEF ChannelInv, ChannelTyped, Channel!StaleCheckIsHarmless
        <4>2. LedgerKeyOf[q] # k
          BY <2>1, <4>1
        <4>3. QED
          BY <2>1, <3>1, <4>1, <4>2 DEF ChannelInv, ChannelTyped
      <3>4. QED
        BY <3>2, <3>3
    <2>5. QED
      BY <2>2, <2>3, <2>4 DEF ChannelInv, Channel!StaleCheckIsHarmless
  <1>3. CASE UNCHANGED <<balance, settled>>
    <2>1. /\ ledgerPc' \in {[ledgerPc EXCEPT ![r] = "answered"],
                            [ledgerPc EXCEPT ![r] = "refused"]}
          /\ ledgerPc'[r] = "answered" =>
                /\ settled[k] # Channel!NoRequest
                /\ Channel!Effects[r] = Channel!Effects[settled[k]]
      <3>1. ASSUME Channel!Journals!Settle(r) PROVE FALSE
        BY <1>1, <1>3, <3>1 DEF Channel!Journals!Settle, ChannelInv, ChannelTyped
      <3>2. QED
        BY <3>1 DEF Channel!PostJournal, Channel!SamePayload, ChannelInv, ChannelTyped
    <2>2. ChannelTyped' /\ EndsDiffer'
      BY <1>3, <2>1 DEF ChannelInv, ChannelTyped, EndsDiffer
    <2>3. Channel!FloatBacksWallets' /\ \A w \in Wallets : balance'[w] >= 0
      BY <1>3 DEF ChannelInv, Channel!FloatBacksWallets, Channel!StaleCheckIsHarmless
    <2>4. ASSUME NEW q \in LedgerRequests, ledgerPc'[q] = "answered"
          PROVE  /\ settled'[LedgerKeyOf[q]] # Channel!NoRequest
                 /\ Channel!Effects[settled'[LedgerKeyOf[q]]] = Channel!Effects[q]
      <3>1. CASE q = r
        BY <1>3, <2>1, <2>4, <3>1
      <3>2. CASE q # r
        <4>1. ledgerPc[q] = "answered"
          BY <2>1, <2>4, <3>2 DEF ChannelInv, ChannelTyped
        <4>2. QED
          BY <1>3, <4>1 DEF ChannelInv, Channel!StaleCheckIsHarmless
      <3>3. QED
        BY <3>1, <3>2
    <2>5. QED
      BY <2>2, <2>3, <2>4 DEF ChannelInv, Channel!StaleCheckIsHarmless
  <1>4. QED
    BY <1>2, <1>3 DEF Channel!PostJournal

LEMMA ChannelNextInv ==
    ASSUME Channel!ConstantsOK, ChannelInv, [Channel!Next]_(Channel!vars)
    PROVE  ChannelInv'
  <1>1. CASE UNCHANGED <<balance, settled, ledgerPc>>
    BY <1>1 DEF ChannelInv, ChannelTyped, EndsDiffer, Channel!FloatBacksWallets,
                Channel!StaleCheckIsHarmless
  <1>2. CASE \E w \in Wallets : Channel!Deactivate(w)
    BY <1>1, <1>2 DEF Channel!Deactivate
  <1>3. QED
    BY <1>1, <1>2, CheckHolds, PostHolds DEF Channel!Next, Channel!vars

-----------------------------------------------------------------------------
(* Agent cash.  A row exists from its creation on and leaves               *)
(* PENDING_CONFIRMATION for good when a confirmation is written            *)
(* (CashCreated); its status was written by a confirmation whose Ledger    *)
(* call returned accordingly (CashWho), and a COMPLETED that was told      *)
(* stands unless another confirmation settles too (CashStands).  Without   *)
(* overlap there is one open operation, and the day it will count on has   *)
(* room for it (CashRoom).                                                 *)

CashStatuses == {"none", "PENDING_CONFIRMATION", "PROCESSING", "COMPLETED", "FAILED"}
CashTypes == {"OPERATION_CREATED", "CUSTOMER_CONFIRMED", "COMPLETED", "FAILED"}
CashKeys == {CashKeyOf[c] : c \in CashConfirms} \cup {"none", "temp"}

CashTyped ==
    /\ day \in Nat /\ cashOverlapped \in BOOLEAN
    /\ previews \in [Operations -> {"new", "allowed", "refused", "created"}]
    /\ cashRows \in [Operations -> [status : CashStatuses, key : CashKeys, day : Nat]]
    /\ cashEvents \in [Operations -> SUBSET CashTypes]
    /\ cashPc \in [CashConfirms -> {"idle", "found", "settling", "posted", "rejected",
                                    "marked", "failed", "done"}]
    /\ cashReply \in [CashConfirms -> {"none", "posted", "rejected", "unknown"}]
    /\ cashAnswer \in [CashConfirms -> CashStatuses \cup {"error"}]

CashCreated ==
    /\ \A o \in Operations :
         /\ previews[o] # "created" => cashRows[o] = Agent!NoRow /\ cashEvents[o] = {}
         /\ previews[o] = "created" => cashRows[o].status # "none" /\ cashRows[o].day <= day
         /\ "CUSTOMER_CONFIRMED" \in cashEvents[o] =>
               cashRows[o].status \in {"PROCESSING", "COMPLETED", "FAILED"}
    /\ \A c \in CashConfirms :
         cashPc[c] \notin {"idle", "done"} => previews[OpOf[c]] = "created"

\* Where a confirmation is says what its Ledger call returned.
CashPlaces ==
    \A c \in CashConfirms :
        /\ cashPc[c] \in {"idle", "found", "settling"} => cashReply[c] = "none"
        /\ cashPc[c] \in {"posted", "marked"} => cashReply[c] = "posted"
        /\ cashPc[c] \in {"rejected", "failed"} => cashReply[c] = "rejected"
        /\ cashPc[c] # "done" => cashAnswer[c] = "none"
        /\ cashAnswer[c] = "COMPLETED" => cashReply[c] \in {"none", "posted"}

CashWho ==
    \A o \in Operations :
        /\ cashRows[o].status = "COMPLETED" =>
              \E c \in CashConfirms : OpOf[c] = o /\ cashReply[c] = "posted"
        /\ cashRows[o].status = "FAILED" =>
              \E c \in CashConfirms : OpOf[c] = o /\ cashReply[c] = "rejected"
        /\ o \in cashPosted =>
              \E c \in CashConfirms : OpOf[c] = o /\ cashReply[c] \in {"posted", "unknown"}

\* Another confirmation of c's operation settles it, or did.
CashRivalled(c) ==
    \E d \in CashConfirms \ {c} :
        OpOf[d] = OpOf[c] /\ (cashPc[d] = "settling" \/ cashReply[d] # "none")

CashStands ==
    \A c \in CashConfirms :
        cashReply[c] = "posted" /\ (cashPc[c] = "marked" \/ cashAnswer[c] = "COMPLETED") =>
            cashRows[OpOf[c]].status = "COMPLETED" \/ CashRivalled(c)

CashHistory == CashTyped /\ CashCreated /\ CashPlaces /\ CashWho /\ CashStands

\* One open operation, and room for it on the day it counts on.
CashRoom ==
    ~cashOverlapped =>
      /\ \A d \in Nat : Agent!Total(Agent!CompletedOn(d)) <= DailyLimit
      /\ \A o, p \in Operations : Agent!Open(o) /\ Agent!Open(p) => o = p
      /\ \A o \in Operations :
           /\ previews[o] = "allowed" =>
                \A d \in Nat : day <= d =>
                    Agent!Total(Agent!CompletedOn(d)) + CashAmountOf[o] <= DailyLimit
           /\ previews[o] = "created" /\ Agent!Open(o) =>
                Agent!Total(Agent!CompletedOn(cashRows[o].day) \ {o}) + CashAmountOf[o]
                    <= DailyLimit

LEMMA AgentFacts ==
    ASSUME Agent!ConstantsOK
    PROVE  /\ IsFiniteSet(Operations) /\ DailyLimit \in Nat /\ LastDay \in Nat
           /\ \A o \in Operations : CashAmountOf[o] \in Nat
           /\ \A c \in CashConfirms : OpOf[c] \in Operations /\ CashKeyOf[c] \in CashKeys
  <1>1. IsFiniteSet(Operations)
    BY DEF Agent!ConstantsOK, Agent!IsFiniteSet, IsFiniteSet
  <1>2. QED
    BY <1>1 DEF Agent!ConstantsOK, CashKeys

LEMMA CashInit ==
    ASSUME Agent!ConstantsOK, Agent!Init
    PROVE  CashHistory
  <1> USE DEF Agent!Init, Agent!NoRow
  <1>1. CashTyped
    BY DEF CashTyped, CashStatuses, CashKeys
  <1>2. CashCreated /\ CashPlaces
    BY AgentFacts DEF CashCreated, CashPlaces
  <1>3. CashWho /\ CashStands
    BY AgentFacts DEF CashWho, CashStands
  <1>4. QED
    BY <1>1, <1>2, <1>3 DEF CashHistory

\* Midnight, an expiry and a preview write no row.
LEMMA CashPreview ==
    ASSUME Agent!ConstantsOK, CashHistory, NEW o \in Operations,
           Agent!Midnight \/ Agent!Expire(o) \/ Agent!CheckLimits(o)
    PROVE  CashHistory'
  <1> USE DEF CashHistory
  <1>1. /\ day' \in Nat /\ day <= day' /\ cashOverlapped' \in BOOLEAN
        /\ UNCHANGED <<cashRows, cashEvents, cashPosted, cashPc, cashReply, cashAnswer>>
    <2>1. CASE Agent!Midnight \/ Agent!Expire(o)
      BY <2>1 DEF CashTyped, Agent!Midnight, Agent!Expire
    <2>2. CASE Agent!CheckLimits(o)
      <3>1. cashOverlapped' \in BOOLEAN
        BY <2>2, Zenon DEF CashTyped, Agent!CheckLimits
      <3>2. QED
        BY <2>2, <3>1 DEF CashTyped, Agent!CheckLimits
    <2>3. QED
      BY <2>1, <2>2
  <1>2. /\ previews' \in [Operations -> {"new", "allowed", "refused", "created"}]
        /\ \A p \in Operations : previews'[p] = "created" <=> previews[p] = "created"
    BY DEF CashTyped, Agent!Midnight, Agent!Expire, Agent!CheckLimits
  <1>3. CashTyped'
    BY <1>1, <1>2 DEF CashTyped
  <1>4. CashCreated'
    BY <1>1, <1>2, AgentFacts DEF CashTyped, CashCreated
  <1>5. CashPlaces' /\ CashWho' /\ CashStands'
    BY <1>1 DEF CashPlaces, CashWho, CashStands, CashRivalled
  <1>6. QED
    BY <1>3, <1>4, <1>5

LEMMA CashCreate ==
    ASSUME Agent!ConstantsOK, CashHistory, NEW o \in Operations,
           Agent!CreateOperation(o)
    PROVE  CashHistory'
  <1> USE DEF CashHistory
  <1>1. /\ previews[o] = "allowed" /\ previews' = [previews EXCEPT ![o] = "created"]
        /\ cashRows' = [cashRows EXCEPT ![o] = [status |-> "PENDING_CONFIRMATION",
                                                key |-> "temp", day |-> day]]
        /\ cashEvents' = [cashEvents EXCEPT ![o] = @ \cup {"OPERATION_CREATED"}]
        /\ UNCHANGED <<day, cashPosted, cashPc, cashReply, cashAnswer, cashOverlapped>>
    BY DEF Agent!CreateOperation
  <1>2. CashTyped'
    BY <1>1 DEF CashTyped, CashStatuses, CashKeys, CashTypes
  <1>3. /\ cashEvents[o] = {} /\ cashRows[o].status = "none"
        /\ cashRows'[o].status = "PENDING_CONFIRMATION" /\ cashRows'[o].day = day
        /\ previews'[o] = "created" /\ cashEvents'[o] = {"OPERATION_CREATED"}
        /\ \A p \in Operations : p # o =>
              /\ cashRows'[p] = cashRows[p] /\ previews'[p] = previews[p]
              /\ cashEvents'[p] = cashEvents[p]
    BY <1>1 DEF CashTyped, CashCreated, Agent!NoRow
  <1>4. CashCreated'
    BY <1>1, <1>3, AgentFacts DEF CashTyped, CashCreated
  <1>5. CashPlaces' /\ CashWho'
    BY <1>1, <1>3 DEF CashPlaces, CashWho
  <1>6. CashStands'
    BY <1>1, <1>3, AgentFacts DEF CashStands, CashRivalled
  <1>7. QED
    BY <1>2, <1>4, <1>5, <1>6

\* What every step of one confirmation leaves alone.
LEMMA CashLocal ==
    ASSUME CashHistory, NEW c \in CashConfirms,
           \/ Agent!ConfirmRead(c) \/ Agent!ConfirmWrite(c) \/ Agent!Post(c)
           \/ Agent!MarkCompleted(c) \/ Agent!MarkFailed(c)
           \/ Agent!RecordEvent(c) \/ Agent!Abandon(c)
    PROVE  /\ UNCHANGED <<day, previews, cashOverlapped>>
           /\ \A d \in CashConfirms : d # c =>
                 /\ cashPc'[d] = cashPc[d] /\ cashReply'[d] = cashReply[d]
                 /\ cashAnswer'[d] = cashAnswer[d]
  BY DEF CashHistory, CashTyped, Agent!ConfirmRead, Agent!ConfirmWrite, Agent!Post,
         Agent!MarkCompleted, Agent!MarkFailed, Agent!RecordEvent, Agent!Abandon,
         Agent!Finish, Agent!Goto

LEMMA CashRead ==
    ASSUME Agent!ConstantsOK, CashHistory, NEW c \in CashConfirms, Agent!ConfirmRead(c)
    PROVE  CashHistory'
  <1> USE DEF CashHistory
  <1>1. /\ cashPc[c] = "idle"
        /\ UNCHANGED <<day, previews, cashRows, cashEvents, cashPosted, cashReply,
                       cashOverlapped>>
    BY DEF Agent!ConfirmRead
  <1>2. \A d \in CashConfirms : d # c =>
           cashPc'[d] = cashPc[d] /\ cashAnswer'[d] = cashAnswer[d]
    BY CashLocal
  <1>3. \/ /\ cashPc' = [cashPc EXCEPT ![c] = "done"]
           /\ \E outcome \in CashStatuses \cup {"error"} :
                 cashAnswer' = [cashAnswer EXCEPT ![c] = outcome]
        \/ /\ cashPc' = [cashPc EXCEPT ![c] = "found"] /\ cashAnswer' = cashAnswer
           /\ cashRows[OpOf[c]].status = "PENDING_CONFIRMATION"
    BY DEF Agent!ConfirmRead, Agent!Finish, Agent!Goto, Agent!Known, Agent!Confirmable,
           CashTyped
  <1>4. CashTyped'
    BY <1>1, <1>3 DEF CashTyped
  <1>5. /\ cashReply[c] = "none" /\ cashAnswer[c] = "none"
        /\ \/ cashPc'[c] = "done"
           \/ /\ cashPc'[c] = "found" /\ cashAnswer'[c] = "none"
              /\ cashRows[OpOf[c]].status = "PENDING_CONFIRMATION"
    BY <1>1, <1>3 DEF CashTyped, CashPlaces
  <1>6. CashCreated'
    <2>1. cashPc'[c] = "found" => previews[OpOf[c]] = "created"
      BY <1>5, AgentFacts DEF CashCreated, Agent!NoRow
    <2>2. QED
      BY <1>1, <1>2, <1>5, <2>1 DEF CashCreated
  <1>7. CashPlaces'
    BY <1>1, <1>2, <1>5 DEF CashPlaces
  <1>8. CashWho'
    BY <1>1 DEF CashWho
  <1>9. CashStands'
    BY <1>1, <1>2, <1>5 DEF CashStands, CashRivalled
  <1>10. QED
    BY <1>4, <1>6, <1>7, <1>8, <1>9

LEMMA CashWrite ==
    ASSUME Agent!ConstantsOK, CashHistory, NEW c \in CashConfirms, Agent!ConfirmWrite(c)
    PROVE  CashHistory'
  <1> DEFINE o == OpOf[c]
  <1> USE DEF CashHistory
  <1>1. /\ cashPc[c] = "found"
        /\ UNCHANGED <<day, previews, cashPosted, cashReply, cashOverlapped>>
        /\ o \in Operations /\ CashKeyOf[c] \in CashKeys
    BY AgentFacts DEF Agent!ConfirmWrite
  <1>2. \A d \in CashConfirms : d # c =>
           cashPc'[d] = cashPc[d] /\ cashAnswer'[d] = cashAnswer[d]
    BY CashLocal
  <1>3. cashReply[c] = "none" /\ cashAnswer[c] = "none" /\ previews[o] = "created"
    BY <1>1 DEF CashPlaces, CashCreated
  <1>4. CASE /\ cashRows' = [cashRows EXCEPT ![o].status = "PROCESSING",
                                             ![o].key = CashKeyOf[c]]
             /\ cashEvents' = [cashEvents EXCEPT ![o] = @ \cup {"CUSTOMER_CONFIRMED"}]
             /\ cashPc' = [cashPc EXCEPT ![c] = "settling"] /\ cashAnswer' = cashAnswer
    <2>1. CashTyped'
      <3>1. cashRows' \in [Operations -> [status : CashStatuses, key : CashKeys, day : Nat]]
        BY <1>1, <1>4 DEF CashTyped, CashStatuses
      <3>2. cashEvents' \in [Operations -> SUBSET CashTypes]
        BY <1>1, <1>4 DEF CashTyped, CashTypes
      <3>3. QED
        BY <1>1, <1>4, <3>1, <3>2 DEF CashTyped
    <2>2. /\ cashRows'[o].status = "PROCESSING" /\ cashRows'[o].day = cashRows[o].day
          /\ cashPc'[c] = "settling" /\ cashAnswer'[c] = "none"
          /\ \A p \in Operations : p # o =>
                cashRows'[p] = cashRows[p] /\ cashEvents'[p] = cashEvents[p]
      BY <1>1, <1>3, <1>4 DEF CashTyped
    <2>3. CashCreated'
      BY <1>1, <1>2, <1>3, <2>2 DEF CashCreated
    <2>4. CashPlaces' /\ CashWho'
      BY <1>1, <1>2, <1>3, <2>2 DEF CashPlaces, CashWho
    <2>5. CashStands'
      BY <1>1, <1>2, <1>3, <2>2, AgentFacts DEF CashStands, CashRivalled
    <2>6. QED
      BY <2>1, <2>3, <2>4, <2>5
  <1>5. CASE /\ UNCHANGED <<cashRows, cashEvents>>
             /\ cashPc' = [cashPc EXCEPT ![c] = "done"]
             /\ cashAnswer' = [cashAnswer EXCEPT ![c] = "error"]
    <2>1. CashTyped'
      BY <1>1, <1>5 DEF CashTyped
    <2>2. cashPc'[c] = "done" /\ cashAnswer'[c] = "error"
      BY <1>5 DEF CashTyped
    <2>3. CashCreated' /\ CashPlaces' /\ CashWho'
      BY <1>1, <1>2, <1>3, <1>5, <2>2 DEF CashCreated, CashPlaces, CashWho
    <2>4. CashStands'
      BY <1>1, <1>2, <1>3, <1>5, <2>2 DEF CashStands, CashRivalled
    <2>5. QED
      BY <2>1, <2>3, <2>4
  <1>6. QED
    BY <1>4, <1>5 DEF Agent!ConfirmWrite, Agent!Goto, Agent!Finish

LEMMA CashPost ==
    ASSUME Agent!ConstantsOK, CashHistory, NEW c \in CashConfirms, Agent!Post(c)
    PROVE  CashHistory'
  <1> DEFINE o == OpOf[c]
  <1> USE DEF CashHistory
  <1>1. PICK outcome \in {"posted", "rejected", "unknown"} :
            /\ cashReply' = [cashReply EXCEPT ![c] = outcome]
            /\ outcome = "rejected" => cashPosted' = cashPosted
            /\ cashPosted' \in {cashPosted, cashPosted \cup {o}}
            /\ IF outcome = "unknown" THEN Agent!Finish(c, "PROCESSING")
                                   ELSE Agent!Goto(c, outcome)
    BY DEF Agent!Post
  <1>2. /\ cashPc[c] = "settling"
        /\ UNCHANGED <<day, previews, cashRows, cashEvents, cashOverlapped>>
    BY DEF Agent!Post
  <1>3. \A d \in CashConfirms : d # c =>
           /\ cashPc'[d] = cashPc[d] /\ cashAnswer'[d] = cashAnswer[d]
           /\ cashReply'[d] = cashReply[d]
    BY CashLocal
  <1>4. CashTyped'
    BY <1>1, <1>2 DEF CashTyped, Agent!Finish, Agent!Goto, CashStatuses
  <1>5. /\ cashReply[c] = "none" /\ cashReply'[c] = outcome /\ previews[o] = "created"
        /\ \/ outcome = "unknown" /\ cashPc'[c] = "done" /\ cashAnswer'[c] = "PROCESSING"
           \/ outcome # "unknown" /\ cashPc'[c] = outcome /\ cashAnswer'[c] = "none"
    BY <1>1, <1>2 DEF CashTyped, CashPlaces, CashCreated, Agent!Finish, Agent!Goto
  <1>6. CashCreated'
    BY <1>2, <1>3, <1>5 DEF CashCreated
  <1>7. CashPlaces'
    BY <1>2, <1>3, <1>5 DEF CashPlaces
  <1>8. CashWho'
    <2>1. \A d \in CashConfirms : cashReply[d] # "none" => cashReply'[d] = cashReply[d]
      BY <1>3, <1>5
    <2>2. o \in cashPosted' /\ o \notin cashPosted => cashReply'[c] \in {"posted", "unknown"}
      BY <1>1, <1>5
    <2>3. QED
      BY <1>1, <1>2, <2>1, <2>2 DEF CashWho
  <1>9. CashStands'
    <2>1. \A d \in CashConfirms : CashRivalled(d) => CashRivalled(d)'
      BY <1>1, <1>3, <1>5 DEF CashRivalled
    <2>2. QED
      BY <1>1, <1>2, <1>3, <1>5, <2>1 DEF CashStands
  <1>10. QED
    BY <1>4, <1>6, <1>7, <1>8, <1>9

LEMMA CashMark ==
    ASSUME Agent!ConstantsOK, CashHistory, NEW c \in CashConfirms,
           Agent!MarkCompleted(c) \/ Agent!MarkFailed(c)
    PROVE  CashHistory'
  <1> DEFINE o == OpOf[c]
  <1> USE DEF CashHistory
  <1>1. PICK s \in {"COMPLETED", "FAILED"} :
            /\ cashRows' = [cashRows EXCEPT ![o].status = s]
            /\ s = "COMPLETED" => /\ cashPc[c] = "posted"
                                  /\ cashPc' = [cashPc EXCEPT ![c] = "marked"]
            /\ s = "FAILED" => /\ cashPc[c] = "rejected"
                               /\ cashPc' = [cashPc EXCEPT ![c] = "failed"]
    BY DEF Agent!MarkCompleted, Agent!MarkFailed, Agent!Goto
  <1>2. /\ UNCHANGED <<day, previews, cashEvents, cashPosted, cashReply, cashAnswer,
                       cashOverlapped>>
        /\ o \in Operations
    BY AgentFacts DEF Agent!MarkCompleted, Agent!MarkFailed, Agent!Goto
  <1>3. \A d \in CashConfirms : d # c => cashPc'[d] = cashPc[d]
    BY CashLocal
  <1>4. CashTyped'
    BY <1>1, <1>2 DEF CashTyped, CashStatuses
  <1>5. /\ cashRows'[o].status = s /\ cashRows'[o].day = cashRows[o].day
        /\ \A p \in Operations : p # o => cashRows'[p] = cashRows[p]
        /\ previews[o] = "created" /\ cashAnswer[c] = "none"
        /\ s = "COMPLETED" => cashReply[c] = "posted" /\ cashPc'[c] = "marked"
        /\ s = "FAILED" => cashReply[c] = "rejected" /\ cashPc'[c] = "failed"
    BY <1>1, <1>2 DEF CashTyped, CashPlaces, CashCreated
  <1>6. CashCreated' /\ CashPlaces'
    BY <1>2, <1>3, <1>5 DEF CashCreated, CashPlaces
  <1>7. CashWho'
    BY <1>2, <1>5 DEF CashWho
  <1>8. CashStands'
    <2>1. ASSUME NEW d \in CashConfirms, CashRivalled(d) PROVE CashRivalled(d)'
      BY <1>1, <1>2, <1>3, <1>5, <2>1 DEF CashRivalled, CashTyped
    <2>2. ASSUME NEW d \in CashConfirms, d # c, OpOf[d] = o PROVE CashRivalled(d)'
      BY <1>2, <1>5, <2>2 DEF CashRivalled
    <2>3. QED
      BY <1>2, <1>3, <1>5, <2>1, <2>2, AgentFacts DEF CashStands
  <1>9. QED
    BY <1>4, <1>6, <1>7, <1>8

LEMMA CashTell ==
    ASSUME Agent!ConstantsOK, CashHistory, NEW c \in CashConfirms,
           Agent!RecordEvent(c) \/ Agent!Abandon(c)
    PROVE  CashHistory'
  <1> DEFINE o == OpOf[c]
  <1> USE DEF CashHistory
  <1>1. /\ UNCHANGED <<day, previews, cashRows, cashPosted, cashReply, cashOverlapped>>
        /\ cashPc' = [cashPc EXCEPT ![c] = "done"]
        /\ o \in Operations
    BY AgentFacts DEF Agent!RecordEvent, Agent!Abandon, Agent!Finish, Agent!LeftBehind
  <1>2. \A d \in CashConfirms : d # c =>
           cashPc'[d] = cashPc[d] /\ cashAnswer'[d] = cashAnswer[d]
    BY CashLocal
  <1>3. PICK outcome \in {"COMPLETED", "FAILED", "PROCESSING", "error"} :
            /\ cashAnswer' = [cashAnswer EXCEPT ![c] = outcome]
            /\ outcome = "COMPLETED" => cashPc[c] = "marked"
    BY DEF Agent!RecordEvent, Agent!Abandon, Agent!Finish
  <1>4. /\ cashPc[c] \in {"posted", "marked", "rejected", "failed"}
        /\ \/ cashEvents' = cashEvents
           \/ \E e \in {"COMPLETED", "FAILED"} :
                 cashEvents' = [cashEvents EXCEPT ![o] = @ \cup {e}]
    BY DEF Agent!RecordEvent, Agent!Abandon
  <1>5. CashTyped'
    BY <1>1, <1>3, <1>4 DEF CashTyped, CashTypes, CashStatuses
  <1>6. /\ cashPc'[c] = "done" /\ cashAnswer'[c] = outcome /\ previews[o] = "created"
        /\ outcome = "COMPLETED" => cashReply[c] = "posted"
        /\ \A p \in Operations :
              /\ "CUSTOMER_CONFIRMED" \in cashEvents'[p] =>
                    "CUSTOMER_CONFIRMED" \in cashEvents[p]
              /\ p # o => cashEvents'[p] = cashEvents[p]
    BY <1>1, <1>3, <1>4 DEF CashTyped, CashPlaces, CashCreated
  <1>7. CashCreated'
    BY <1>1, <1>2, <1>6 DEF CashCreated
  <1>8. CashPlaces' /\ CashWho'
    BY <1>1, <1>2, <1>6 DEF CashPlaces, CashWho
  <1>9. CashStands'
    <2>1. ASSUME NEW d \in CashConfirms, CashRivalled(d) PROVE CashRivalled(d)'
      BY <1>1, <1>2, <1>4, <2>1 DEF CashRivalled, CashPlaces
    <2>2. QED
      BY <1>1, <1>2, <1>3, <1>6, <2>1 DEF CashStands
  <1>10. QED
    BY <1>5, <1>7, <1>8, <1>9

LEMMA CashHistoryNext ==
    ASSUME Agent!ConstantsOK, CashHistory, [Agent!Next]_(Agent!vars)
    PROVE  CashHistory'
  <1>1. CASE UNCHANGED Agent!vars
    BY <1>1 DEF Agent!vars, CashHistory, CashTyped, CashCreated, CashPlaces, CashWho,
                CashStands, CashRivalled
  <1>2. CASE Agent!Midnight
    <2>1. CASE Operations = {}
      BY <1>2, <2>1, AgentFacts
      DEF Agent!Midnight, CashHistory, CashTyped, CashCreated, CashPlaces, CashWho,
          CashStands, CashRivalled
    <2>2. QED
      BY <1>2, <2>1, CashPreview
  <1>3. QED
    BY <1>1, <1>2, CashPreview, CashCreate, CashRead, CashWrite, CashPost, CashMark,
       CashTell DEF Agent!Next

\* What history makes of an operation that one request alone has settled.
LEMMA CashSole == ASSUME CashHistory PROVE Agent!SoleSettlementIsFinal
  <1> USE DEF CashHistory
  <1> SUFFICES ASSUME NEW o \in Operations, NEW c \in CashConfirms,
                      OpOf[c] = o, cashReply[c] # "none",
                      \A d \in CashConfirms \ {c} :
                          OpOf[d] = o => cashReply[d] = "none" /\ cashPc[d] # "settling"
               PROVE  /\ cashAnswer[c] = "COMPLETED" => cashRows[o].status = "COMPLETED"
                      /\ cashRows[o].status = "FAILED" => o \notin cashPosted
    BY DEF Agent!SoleSettlementIsFinal
  <1>1. ~CashRivalled(c)
    BY DEF CashRivalled
  <1>2. cashAnswer[c] = "COMPLETED" => cashRows[o].status = "COMPLETED"
    BY <1>1 DEF CashPlaces, CashStands
  <1>3. cashRows[o].status = "FAILED" => cashReply[c] = "rejected"
    BY DEF CashWho
  <1>4. o \in cashPosted => cashReply[c] \in {"posted", "unknown"}
    BY DEF CashWho
  <1>5. QED
    BY <1>2, <1>3, <1>4

LEMMA CashLate ==
    ASSUME Agent!ConstantsOK, CashHistory, [Agent!Next]_(Agent!vars)
    PROVE  Agent!LateConfirmStep
  <1> SUFFICES ASSUME NEW c \in CashConfirms, cashPc[c] = "idle",
                      "CUSTOMER_CONFIRMED" \in cashEvents[OpOf[c]],
                      cashPc'[c] \notin {"idle", "done"}
               PROVE  FALSE
    BY DEF Agent!LateConfirmStep
  <1> USE DEF CashHistory
  <1>1. CASE UNCHANGED cashPc
    BY <1>1
  <1>2. ASSUME NEW d \in CashConfirms, d # c,
               \/ Agent!ConfirmRead(d) \/ Agent!ConfirmWrite(d) \/ Agent!Post(d)
               \/ Agent!MarkCompleted(d) \/ Agent!MarkFailed(d)
               \/ Agent!RecordEvent(d) \/ Agent!Abandon(d)
        PROVE  FALSE
    BY <1>1, <1>2, CashLocal
  <1>3. CASE Agent!ConfirmRead(c)
    <2>1. cashRows[OpOf[c]].status = "PENDING_CONFIRMATION"
      BY <1>3 DEF Agent!ConfirmRead, Agent!Finish, Agent!Confirmable, CashTyped
    <2>2. QED
      BY <2>1, AgentFacts DEF CashCreated
  <1>4. QED
    BY <1>1, <1>2, <1>3
    DEF Agent!Next, Agent!vars, Agent!Midnight, Agent!Expire, Agent!CheckLimits,
        Agent!CreateOperation, Agent!ConfirmWrite, Agent!Post, Agent!MarkCompleted,
        Agent!MarkFailed, Agent!RecordEvent, Agent!Abandon

\* The instance's sums are the sums of Sums.
LEMMA AgentSums ==
    ASSUME NEW f, NEW S
    PROVE  Agent!SumFunctionOnSet(f, S) = SumFunctionOnSet(f, S)
  BY DEF Agent!SumFunctionOnSet, Agent!FoldFunctionOnSet, Agent!MapThenFoldSet,
         SumFunctionOnSet, FoldFunctionOnSet, MapThenFoldSet

\* A smaller set of operations has no larger total.
LEMMA TotalGrows ==
    ASSUME Agent!ConstantsOK, NEW S \in SUBSET Operations, NEW R \in SUBSET S
    PROVE  /\ Agent!Total(R) \in Nat /\ Agent!Total(S) \in Nat
           /\ Agent!Total(R) <= Agent!Total(S)
  <1>1. IsFiniteSet(S) /\ \A x \in S : CashAmountOf[x] \in Nat
    BY AgentFacts, FS_Subset
  <1>2. SumFunctionOnSet(CashAmountOf, S) \in Nat
    BY <1>1, SumGrows
  <1>3. /\ SumFunctionOnSet(CashAmountOf, R) \in Nat
        /\ SumFunctionOnSet(CashAmountOf, R) <= SumFunctionOnSet(CashAmountOf, S)
    BY <1>1, SumGrows
  <1>4. QED
    BY <1>2, <1>3, AgentSums DEF Agent!Total

LEMMA TotalWith ==
    ASSUME Agent!ConstantsOK, NEW S \in SUBSET Operations, NEW o \in S
    PROVE  Agent!Total(S) = CashAmountOf[o] + Agent!Total(S \ {o})
  <1>1. IsFiniteSet(S) /\ \A x \in S : CashAmountOf[x] \in Int
    BY AgentFacts, FS_Subset
  <1>2. QED
    BY <1>1, SumElement, AgentSums DEF Agent!Total

LEMMA TotalNone == Agent!Total({}) = 0
  BY SumEmpty, AgentSums DEF Agent!Total

LEMMA RoomInit == ASSUME Agent!ConstantsOK, Agent!Init PROVE CashRoom
  <1> USE DEF Agent!Init, Agent!NoRow
  <1>1. \A d \in Nat : Agent!CompletedOn(d) = {}
    BY DEF Agent!CompletedOn
  <1>2. \A o \in Operations : ~Agent!Open(o) /\ previews[o] = "new"
    BY DEF Agent!Open
  <1>3. \A d \in Nat : Agent!Total(Agent!CompletedOn(d)) <= DailyLimit
    <2> SUFFICES ASSUME NEW d \in Nat
                 PROVE  Agent!Total(Agent!CompletedOn(d)) <= DailyLimit
      OBVIOUS
    <2> HIDE DEF Agent!Init, Agent!NoRow
    <2>1. Agent!Total(Agent!CompletedOn(d)) = 0
      BY <1>1, TotalNone
    <2>2. QED
      BY <2>1, AgentFacts
  <1> HIDE DEF Agent!Init
  <1>4. QED
    BY <1>2, <1>3 DEF CashRoom

\* A step that opens nothing, completes nothing and moves no row to another
\* day leaves the room there is.
LEMMA RoomStays ==
    ASSUME Agent!ConstantsOK, CashTyped, CashRoom,
           cashOverlapped' = cashOverlapped, day' \in Nat, day <= day',
           \A o \in Operations :
               /\ Agent!Open(o)' => Agent!Open(o)
               /\ previews'[o] \in {"allowed", "created"} => previews[o] = previews'[o]
               /\ cashRows'[o].day = cashRows[o].day
               /\ cashRows'[o].status = "COMPLETED" => cashRows[o].status = "COMPLETED"
    PROVE  CashRoom'
  <1> SUFFICES ASSUME ~cashOverlapped' PROVE CashRoom'
    BY DEF CashRoom
  <1>1. ASSUME NEW d \in Nat
        PROVE  /\ Agent!CompletedOn(d) \in SUBSET Operations
               /\ Agent!CompletedOn(d)' \in SUBSET Agent!CompletedOn(d)
    BY DEF Agent!CompletedOn
  <1>2. ASSUME NEW d \in Nat
        PROVE  /\ Agent!Total(Agent!CompletedOn(d)) \in Nat
               /\ Agent!Total(Agent!CompletedOn(d)') \in Nat
               /\ Agent!Total(Agent!CompletedOn(d)') <= Agent!Total(Agent!CompletedOn(d))
    BY <1>1, TotalGrows
  <1>3. \A d \in Nat : Agent!Total(Agent!CompletedOn(d)') = Agent!Total(Agent!CompletedOn(d))'
    BY DEF Agent!Total
  <1>4. \A d \in Nat : Agent!Total(Agent!CompletedOn(d))' <= DailyLimit
    BY <1>2, <1>3, AgentFacts DEF CashRoom
  <1>5. ASSUME NEW o \in Operations, previews'[o] = "allowed", NEW d \in Nat, day' <= d
        PROVE  Agent!Total(Agent!CompletedOn(d))' + CashAmountOf[o] <= DailyLimit
    <2>1. day <= d
      BY <1>5 DEF CashTyped
    <2>2. Agent!Total(Agent!CompletedOn(d)) + CashAmountOf[o] <= DailyLimit
      BY <1>5, <2>1 DEF CashRoom
    <2>3. QED
      BY <1>2, <1>3, <2>2, AgentFacts
  <1>6. ASSUME NEW o \in Operations, previews'[o] = "created", Agent!Open(o)'
        PROVE  Agent!Total(Agent!CompletedOn(cashRows[o].day) \ {o})' + CashAmountOf[o]
                   <= DailyLimit
    <2> DEFINE d == cashRows[o].day
    <2>1. d \in Nat /\ cashRows'[o].day = d
      BY DEF CashTyped
    <2>2. Agent!Total(Agent!CompletedOn(d) \ {o}) + CashAmountOf[o] <= DailyLimit
      BY <1>6 DEF CashRoom
    <2>3. /\ Agent!CompletedOn(d) \ {o} \in SUBSET Operations
          /\ Agent!CompletedOn(d)' \ {o} \in SUBSET (Agent!CompletedOn(d) \ {o})
      BY <1>1, <2>1
    <2>4. /\ Agent!Total(Agent!CompletedOn(d)' \ {o}) \in Nat
          /\ Agent!Total(Agent!CompletedOn(d) \ {o}) \in Nat
          /\ Agent!Total(Agent!CompletedOn(d)' \ {o})
                 <= Agent!Total(Agent!CompletedOn(d) \ {o})
      BY <2>3, TotalGrows
    <2>5. Agent!Total(Agent!CompletedOn(cashRows[o].day) \ {o})'
              = Agent!Total(Agent!CompletedOn(d)' \ {o})
      BY <2>1 DEF Agent!Total, Agent!CompletedOn
    <2>6. QED
      BY <2>2, <2>4, <2>5, AgentFacts
  <1>7. \A o, p \in Operations : Agent!Open(o)' /\ Agent!Open(p)' => o = p
    BY DEF CashRoom
  <1>8. QED
    BY <1>4, <1>5, <1>6, <1>7 DEF CashRoom

\* A preview admits an operation when nothing else is open and the day has
\* room for it; no row is of a later day.
LEMMA RoomAllowed ==
    ASSUME Agent!ConstantsOK, CashHistory, CashRoom, NEW o \in Operations,
           Agent!CheckLimits(o)
    PROVE  CashRoom'
  <1> USE DEF CashHistory
  <1>1. CASE ~Agent!WithinLimit(o) \/ CashAmountOf[o] \notin MinTransfer .. MaxTransfer
    <2>1. /\ previews' = [previews EXCEPT ![o] = "refused"]
          /\ UNCHANGED <<day, cashRows, cashPc, cashOverlapped>>
      BY <1>1 DEF Agent!CheckLimits
    <2>2. \A p \in Operations :
             previews'[p] \in {"allowed", "created"} => previews[p] = previews'[p]
      BY <2>1 DEF CashTyped
    <2>3. \A p \in Operations : Agent!Open(p)' => Agent!Open(p)
      BY <2>1, <2>2 DEF Agent!Open
    <2>4. QED
      BY <2>1, <2>2, <2>3, RoomStays DEF CashTyped
  <1>2. CASE Agent!WithinLimit(o) /\ CashAmountOf[o] \in MinTransfer .. MaxTransfer
    <2>1. /\ previews' = [previews EXCEPT ![o] = "allowed"]
          /\ UNCHANGED <<day, cashRows, cashPc>>
          /\ cashOverlapped' = (cashOverlapped \/ \E p \in Operations : Agent!Open(p))
      BY <1>2 DEF Agent!CheckLimits
    <2> SUFFICES ASSUME ~cashOverlapped' PROVE CashRoom'
      BY DEF CashRoom
    <2>2. ~cashOverlapped /\ \A p \in Operations : ~Agent!Open(p)
      BY <2>1
    <2>3. /\ previews'[o] = "allowed"
          /\ \A p \in Operations : p # o => previews'[p] = previews[p]
      BY <2>1 DEF CashTyped
    <2>4. \A p \in Operations : Agent!Open(p)' => p = o
      BY <2>1, <2>2, <2>3 DEF Agent!Open
    <2>5. \A d \in Nat : Agent!CompletedOn(d)' = Agent!CompletedOn(d)
      BY <2>1 DEF Agent!CompletedOn
    <2>6. \A d \in Nat : Agent!Total(Agent!CompletedOn(d))' = Agent!Total(Agent!CompletedOn(d))
      BY <2>5 DEF Agent!Total
    <2>7. \A d \in Nat : Agent!Total(Agent!CompletedOn(d)) <= DailyLimit
      BY <2>2 DEF CashRoom
    <2>8. ASSUME NEW d \in Nat, day <= d
          PROVE  Agent!Total(Agent!CompletedOn(d)) + CashAmountOf[o] <= DailyLimit
      <3>1. Agent!Total(Agent!CompletedOn(day)) + CashAmountOf[o] <= DailyLimit
        BY <1>2 DEF Agent!WithinLimit
      <3>2. day \in Nat /\ Agent!CompletedOn(day) \in SUBSET Operations
        BY DEF CashTyped, Agent!CompletedOn
      <3>3. Agent!Total(Agent!CompletedOn(day)) \in Nat
        BY <3>2, TotalGrows
      <3>4. CASE d = day
        BY <3>1, <3>4
      <3>5. CASE d # day
        <4>1. Agent!CompletedOn(d) = {}
          BY <2>8, <3>2, <3>5 DEF Agent!CompletedOn, CashCreated, CashTyped, Agent!NoRow
        <4>2. QED
          BY <3>1, <3>3, <4>1, TotalNone, AgentFacts
      <3>6. QED
        BY <3>4, <3>5
    <2>9. \A p \in Operations : previews'[p] = "allowed" => p = o
      BY <2>4 DEF Agent!Open
    <2>10. QED
      BY <2>1, <2>3, <2>4, <2>6, <2>7, <2>8, <2>9 DEF CashRoom
  <1>3. QED
    BY <1>1, <1>2

\* The row counts on the day it is created, for which the preview left room.
LEMMA RoomCreated ==
    ASSUME Agent!ConstantsOK, CashHistory, CashRoom, NEW o \in Operations,
           Agent!CreateOperation(o)
    PROVE  CashRoom'
  <1> USE DEF CashHistory
  <1>1. /\ previews[o] = "allowed" /\ previews' = [previews EXCEPT ![o] = "created"]
        /\ cashRows' = [cashRows EXCEPT ![o] = [status |-> "PENDING_CONFIRMATION",
                                                key |-> "temp", day |-> day]]
        /\ UNCHANGED <<day, cashPc, cashOverlapped>>
    BY DEF Agent!CreateOperation
  <1> SUFFICES ASSUME ~cashOverlapped PROVE CashRoom'
    BY <1>1 DEF CashRoom
  <1>2. /\ cashRows[o].status = "none" /\ day \in Nat /\ previews'[o] = "created"
        /\ cashRows'[o].status = "PENDING_CONFIRMATION" /\ cashRows'[o].day = day
        /\ \A p \in Operations : p # o =>
              cashRows'[p] = cashRows[p] /\ previews'[p] = previews[p]
    BY <1>1 DEF CashTyped, CashCreated, Agent!NoRow
  <1>3. \A d \in Nat : Agent!CompletedOn(d)' = Agent!CompletedOn(d)
    BY <1>2 DEF Agent!CompletedOn
  <1>4. \A d \in Nat : Agent!Total(Agent!CompletedOn(d))' = Agent!Total(Agent!CompletedOn(d))
    BY <1>3 DEF Agent!Total
  <1>5. \A p \in Operations : Agent!Open(p) => p = o
    BY <1>1 DEF CashRoom, Agent!Open
  <1>6. \A p \in Operations : Agent!Open(p)' => p = o
    BY <1>1, <1>2, <1>5 DEF Agent!Open
  <1>7. \A p \in Operations : previews'[p] # "allowed"
    BY <1>2, <1>6 DEF Agent!Open
  <1>8. Agent!Total(Agent!CompletedOn(cashRows[o].day) \ {o})' + CashAmountOf[o] <= DailyLimit
    <2>0. \A d \in Nat : day <= d =>
              Agent!Total(Agent!CompletedOn(d)) + CashAmountOf[o] <= DailyLimit
      BY <1>1 DEF CashRoom
    <2>1. Agent!Total(Agent!CompletedOn(day)) + CashAmountOf[o] <= DailyLimit
      BY <1>2, <2>0
    <2>2. (Agent!CompletedOn(cashRows[o].day) \ {o})' = Agent!CompletedOn(day)
      BY <1>2 DEF Agent!CompletedOn
    <2>3. QED
      BY <2>1, <2>2 DEF Agent!Total
  <1>9. QED
    BY <1>4, <1>6, <1>7, <1>8 DEF CashRoom

\* The one open operation completes on a day that has room for it.
LEMMA RoomCompleted ==
    ASSUME Agent!ConstantsOK, CashHistory, CashRoom, NEW c \in CashConfirms,
           Agent!MarkCompleted(c)
    PROVE  CashRoom'
  <1> DEFINE o == OpOf[c]
  <1> USE DEF CashHistory
  <1>1. /\ cashPc[c] = "posted" /\ cashPc' = [cashPc EXCEPT ![c] = "marked"]
        /\ cashRows' = [cashRows EXCEPT ![o].status = "COMPLETED"]
        /\ UNCHANGED <<day, previews, cashOverlapped>>
        /\ o \in Operations
    BY AgentFacts DEF Agent!MarkCompleted, Agent!Goto
  <1> SUFFICES ASSUME ~cashOverlapped PROVE CashRoom'
    BY <1>1 DEF CashRoom
  <1>a. PICK d0 \in Nat : cashRows[o].day = d0
    BY <1>1 DEF CashTyped
  <1>2. /\ cashRows'[o].status = "COMPLETED" /\ cashRows'[o].day = d0
        /\ \A p \in Operations : p # o => cashRows'[p] = cashRows[p]
        /\ previews[o] = "created"
    BY <1>1, <1>a DEF CashTyped, CashCreated
  <1>3. Agent!Open(o)
    BY <1>1 DEF Agent!Open
  <1>4. \A p \in Operations : Agent!Open(p) => p = o
    BY <1>1, <1>3 DEF CashRoom
  <1>5. \A p \in Operations : Agent!Open(p)' => p = o
    BY <1>1, <1>2, <1>4 DEF Agent!Open, CashTyped
  <1>6. Agent!Total(Agent!CompletedOn(d0) \ {o}) + CashAmountOf[o] <= DailyLimit
    BY <1>1, <1>a, <1>2, <1>3 DEF CashRoom
  <1>7. /\ \A d \in Nat : d # d0 => Agent!CompletedOn(d)' = Agent!CompletedOn(d)
        /\ o \in Agent!CompletedOn(d0)' /\ Agent!CompletedOn(d0)' \in SUBSET Operations
        /\ Agent!CompletedOn(d0)' \ {o} = Agent!CompletedOn(d0) \ {o}
    BY <1>1, <1>a, <1>2 DEF Agent!CompletedOn
  <1>8. Agent!Total(Agent!CompletedOn(d0)') <= DailyLimit
    <2>1. Agent!Total(Agent!CompletedOn(d0)')
              = CashAmountOf[o] + Agent!Total(Agent!CompletedOn(d0)' \ {o})
      BY <1>7, TotalWith
    <2>2. Agent!Total(Agent!CompletedOn(d0) \ {o}) \in Nat
      <3>1. Agent!CompletedOn(d0) \ {o} \in SUBSET Operations
        BY DEF Agent!CompletedOn
      <3>2. QED
        BY <3>1, TotalGrows
    <2>3. Agent!CompletedOn(d0)' \ {o} = Agent!CompletedOn(d0) \ {o}
      BY <1>7
    <2>4. CashAmountOf[o] \in Nat /\ DailyLimit \in Nat
      BY <1>1, AgentFacts
    <2> DEFINE whole == Agent!Total(Agent!CompletedOn(d0)')
               others == Agent!Total(Agent!CompletedOn(d0) \ {o})
    <2>5. whole = CashAmountOf[o] + others
      BY <2>1, <2>3
    <2>6. others \in Nat /\ others + CashAmountOf[o] <= DailyLimit
      BY <1>6, <2>2
    <2> HIDE DEF whole, others
    <2>7. whole <= DailyLimit
      BY <2>4, <2>5, <2>6
    <2>8. QED
      BY <2>7 DEF whole
  <1>9. \A d \in Nat : Agent!Total(Agent!CompletedOn(d))' <= DailyLimit
    <2> SUFFICES ASSUME NEW d \in Nat
                 PROVE  Agent!Total(Agent!CompletedOn(d)') <= DailyLimit
      BY DEF Agent!Total
    <2>1. CASE d = d0
      BY <1>8, <2>1
    <2>2. CASE d # d0
      <3>1. Agent!CompletedOn(d)' = Agent!CompletedOn(d)
        BY <1>7, <2>2
      <3>2. Agent!Total(Agent!CompletedOn(d)) <= DailyLimit
        BY DEF CashRoom
      <3>3. QED
        BY <3>1, <3>2
    <2>3. QED
      BY <2>1, <2>2
  <1>10. Agent!Total(Agent!CompletedOn(cashRows[o].day) \ {o})' + CashAmountOf[o]
             <= DailyLimit
    <2>1. (Agent!CompletedOn(cashRows[o].day) \ {o})' = Agent!CompletedOn(d0) \ {o}
      BY <1>2, <1>7 DEF Agent!CompletedOn
    <2>2. QED
      BY <1>6, <2>1 DEF Agent!Total
  <1>11. \A p \in Operations : previews'[p] # "allowed"
    BY <1>1, <1>2, <1>4 DEF Agent!Open
  <1>12. QED
    BY <1>5, <1>9, <1>10, <1>11 DEF CashRoom

\* Every other step closes operations and takes rows out of the sums.
LEMMA RoomLocal ==
    ASSUME Agent!ConstantsOK, CashHistory, CashRoom, NEW c \in CashConfirms,
           \/ Agent!ConfirmRead(c) \/ Agent!ConfirmWrite(c) \/ Agent!Post(c)
           \/ Agent!MarkFailed(c) \/ Agent!RecordEvent(c) \/ Agent!Abandon(c)
    PROVE  CashRoom'
  <1> DEFINE o == OpOf[c]
  <1> USE DEF CashHistory
  <1>1. /\ UNCHANGED <<day, previews, cashOverlapped>> /\ day \in Nat /\ o \in Operations
        /\ \A d \in CashConfirms : d # c => cashPc'[d] = cashPc[d]
    BY CashLocal, AgentFacts DEF CashTyped
  <1>2. /\ \A p \in Operations : p # o => cashRows'[p] = cashRows[p]
        /\ cashRows'[o].day = cashRows[o].day
        /\ cashRows'[o].status = "COMPLETED" => cashRows[o].status = "COMPLETED"
    BY <1>1 DEF CashTyped, Agent!ConfirmRead, Agent!ConfirmWrite, Agent!Post,
         Agent!MarkFailed, Agent!RecordEvent, Agent!Abandon, Agent!LeftBehind
  <1>3. Agent!Open(o) \/ cashPc'[c] = "done"
    <2>1. CASE cashPc[c] # "idle"
      <3>1. cashPc[c] \notin {"idle", "done"}
        BY <2>1 DEF Agent!ConfirmRead, Agent!ConfirmWrite, Agent!Post,
                    Agent!MarkFailed, Agent!RecordEvent, Agent!Abandon
      <3>2. QED
        BY <3>1 DEF Agent!Open
    <2>2. CASE cashPc[c] = "idle"
      <3>1. Agent!ConfirmRead(c)
        BY <2>2 DEF Agent!ConfirmWrite, Agent!Post,
                    Agent!MarkFailed, Agent!RecordEvent, Agent!Abandon
      <3>2. QED
        BY <3>1 DEF Agent!ConfirmRead, Agent!Confirmable, Agent!Finish, Agent!Open, CashTyped
    <2>3. QED
      BY <2>1, <2>2
  <1>4. ~Agent!Open(o) => cashRows'[o] = cashRows[o]
    BY <1>1 DEF Agent!Open, Agent!ConfirmRead, Agent!ConfirmWrite, Agent!Post,
         Agent!MarkFailed, Agent!RecordEvent, Agent!Abandon, Agent!LeftBehind
  <1>5. \A p \in Operations : Agent!Open(p)' => Agent!Open(p)
    BY <1>1, <1>2, <1>3, <1>4 DEF Agent!Open
  <1>6. QED
    BY <1>1, <1>2, <1>5, RoomStays

LEMMA RoomNext ==
    ASSUME Agent!ConstantsOK, CashHistory, CashRoom, [Agent!Next]_(Agent!vars)
    PROVE  CashRoom'
  <1> USE DEF CashHistory
  <1>1. CASE UNCHANGED Agent!vars \/ Agent!Midnight \/ \E o \in Operations : Agent!Expire(o)
    <2>1. /\ UNCHANGED <<previews, cashRows, cashPc, cashOverlapped>>
          /\ day' \in Nat /\ day <= day'
      BY <1>1 DEF Agent!vars, Agent!Midnight, Agent!Expire, CashTyped
    <2>2. \A o \in Operations : Agent!Open(o)' => Agent!Open(o)
      BY <2>1 DEF Agent!Open
    <2>3. QED
      BY <2>1, <2>2, RoomStays
  <1>2. QED
    BY <1>1, RoomAllowed, RoomCreated, RoomCompleted, RoomLocal DEF Agent!Next

LEMMA RoomLimits ==
    ASSUME Agent!ConstantsOK, CashRoom PROVE Agent!LimitHoldsUnlessOverlapped
  BY AgentFacts DEF CashRoom, Agent!LimitHoldsUnlessOverlapped

-----------------------------------------------------------------------------
(* From the components to the channels *)

LEMMA PartStays == [ChannelNext]_channelVars => part' = part
  BY DEF ChannelNext, OthersStand, channelVars

LEMMA OfUssd ==
  ASSUME part = "ussd"
  PROVE /\ ChannelInit => Ussd!Init
        /\ [ChannelNext]_channelVars => [Ussd!Next]_(Ussd!vars)
  BY DEF ChannelInit, ChannelNext, channelVars, ussdVars, Ussd!vars,
         Ussd!failures

\* However deliveries overlap, repeat or fail, a USSD payment goes to the
\* recipient of a composed confirmation screen, for its amount or a minor unit
\* less, and has a consent of its own unless two deliveries were handled at
\* once or an ended session could not be deleted (UssdService).
THEOREM UssdPaysWhatWasConfirmed ==
    ASSUME ChannelsOK
    PROVE  ChannelSpec => []UssdPaysAsConfirmed
  <1> DEFINE Here == part = "ussd"
  <1>1. Here /\ [ChannelNext]_channelVars => Here' /\ [Ussd!Next]_(Ussd!vars)
    BY OfUssd, PartStays
  <1>2. ~Here /\ [ChannelNext]_channelVars => ~Here'
    BY PartStays
  <1>3. Here /\ ChannelInit => Ussd!Init
    BY OfUssd
  <1>4. Ussd!Spec => []Ussd!UssdPaysAsConfirmed
    BY SessionsSafe DEF ChannelsOK
  <1>5. Ussd!UssdPaysAsConfirmed => UssdPaysAsConfirmed
    BY DEF UssdPaysAsConfirmed
  <1>6. ~Here => UssdPaysAsConfirmed
    BY DEF UssdPaysAsConfirmed
  <1> HIDE DEF Here
  <1>7. QED
    BY <1>1, <1>2, <1>3, <1>4, <1>5, <1>6, PTL DEF ChannelSpec, Ussd!Spec

LEMMA OfWallets ==
  ASSUME part = "wallets"
  PROVE /\ ChannelInit => Provision!Init
        /\ [ChannelNext]_channelVars => [Provision!Next]_(Provision!vars)
  BY DEF ChannelInit, ChannelNext, channelVars, walletVars, Provision!vars

\* However requests under any keys overlap, are retried or crash, a customer
\* gets one wallet, one request is told that it made it, and no two wallets
\* share a reference (AccountService.provisionDefault).
THEOREM CustomersHaveOneWallet ==
    ASSUME ChannelsOK
    PROVE  ChannelSpec => []OneWalletPerCustomer
  <1> DEFINE Good == part = "wallets" => WalletsInv
  <1>1. ChannelInit => Good
    BY OfWallets, WalletInit DEF ChannelsOK
  <1>2. Good /\ [ChannelNext]_channelVars => Good'
    BY OfWallets, PartStays, WalletNext DEF ChannelsOK
  <1>3. Good => OneWalletPerCustomer
    BY WalletCreatedCounted, WalletInserts
       DEF OneWalletPerCustomer, Provision!OneWalletPerCustomer, WalletsInv, ChannelsOK
  <1>4. QED
    BY <1>1, <1>2, <1>3, PTL DEF ChannelSpec

LEMMA OfChannel ==
  ASSUME part = "channel"
  PROVE /\ ChannelInit => Channel!Init
        /\ [ChannelNext]_channelVars => [Channel!Next]_(Channel!vars)
  BY DEF ChannelInit, ChannelNext, channelVars, ledgerVars, Channel!vars

\* However QR payments, cash-in and cash-out journals of any wallets interleave
\* and are retried, the wallets minus the agent float stay where they began,
\* and the funds check made before the locks overdraws no wallet
\* (ChannelOperationsService).
THEOREM ChannelBooksAlwaysHold ==
    ASSUME ChannelsOK
    PROVE  ChannelSpec => []ChannelBooksHold
  <1> DEFINE Good == part = "channel" => ChannelInv
  <1>1. ChannelInit => Good
    BY OfChannel, ChannelInitInv DEF ChannelsOK
  <1>2. Good /\ [ChannelNext]_channelVars => Good'
    BY OfChannel, PartStays, ChannelNextInv DEF ChannelsOK
  <1>3. Good => ChannelBooksHold
    BY DEF ChannelBooksHold, ChannelInv
  <1>4. QED
    BY <1>1, <1>2, <1>3, PTL DEF ChannelSpec

LEMMA OfAgent ==
  ASSUME part = "agent"
  PROVE /\ ChannelInit => Agent!Init
        /\ [ChannelNext]_channelVars => [Agent!Next]_(Agent!vars)
  BY DEF ChannelInit, ChannelNext, channelVars, cashVars, Agent!vars

\* However previews, confirmations, expiries and midnights interleave and
\* whichever write fails: an agent's completed sum of a day exceeds the limit
\* only if a preview took its sum while another operation was open, an
\* operation that one request settled keeps what its caller was told, and a
\* request that arrives after the first confirmation settles nothing
\* (AgentService preview, confirm, settle).
THEOREM AgentCashAlwaysTraced ==
    ASSUME ChannelsOK
    PROVE  ChannelSpec => AgentCashTraced
  <1> DEFINE Good == part = "agent" => CashHistory /\ CashRoom
             Holds == part = "agent" =>
                        /\ Agent!LimitHoldsUnlessOverlapped
                        /\ Agent!SoleSettlementIsFinal
             Late == part = "agent" => Agent!LateConfirmStep
  <1>1. ChannelInit => Good
    BY OfAgent, CashInit, RoomInit DEF ChannelsOK
  <1>2. Good /\ [ChannelNext]_channelVars => Good'
    BY OfAgent, PartStays, CashHistoryNext, RoomNext DEF ChannelsOK
  <1>3. Good => Holds
    BY RoomLimits, CashSole DEF ChannelsOK
  <1>4. Good /\ [ChannelNext]_channelVars => Late
    BY OfAgent, CashLate DEF ChannelsOK
  <1>5. AgentCashTraced <=> []Holds /\ [][Late]_channelVars
    BY DEF AgentCashTraced
  <1> HIDE DEF Good, Holds, Late
  <1>6. QED
    BY <1>1, <1>2, <1>3, <1>4, <1>5, PTL DEF ChannelSpec

LEMMA OfReconcile ==
  ASSUME part = "reconcile"
  PROVE /\ ChannelInit => Reconcile!Init
        /\ [ChannelNext]_channelVars => [Reconcile!Next]_Reconcile!vars
  BY DEF ChannelInit, ChannelNext, channelVars, reportVars, Reconcile!vars

\* Whatever commits or is repaired between the queries and whichever script is
\* killed: the Ledger's run raises no false alarm, four PASS results leave
\* nothing broken behind, the Ledger's list drops a code only when it is full,
\* the Payments one with room for 32 entries none, and the aggregate report
\* omits a Payments code only when the counts before it fill the printed part
\* (the ReconciliationServices, reconcile-all.mjs).
THEOREM ReportsAreTrue ==
    ASSUME ChannelsOK
    PROVE  ChannelSpec => []ReportIsTrue
  <1> DEFINE Good == part = "reconcile" => Reconcile!IInv
  <1>1. ChannelInit => Good
    BY OfReconcile, ReportInit DEF ChannelsOK
  <1>2. Good /\ [ChannelNext]_channelVars => Good'
    BY OfReconcile, PartStays, ReportNext, ReportStutters DEF ChannelsOK
  <1>3. Good => ReportIsTrue
    BY ReportTrue DEF ReportIsTrue, ChannelsOK
  <1>4. QED
    BY <1>1, <1>2, <1>3, PTL DEF ChannelSpec

LEMMA OfForms ==
  ASSUME part = "forms"
  PROVE /\ ChannelInit => Forms!Init
        /\ [ChannelNext]_channelVars => [Forms!Next]_Forms!vars
  BY DEF ChannelInit, ChannelNext, channelVars, formVars, Forms!vars

\* Whatever is pressed, edited, given up on and opened again, and whenever the
\* services answer: one opening of the transfer form makes at most one
\* transfer, its error line never denies money that moved unless an answer was
\* lost, and every drill on record was announced, is awaited or was given up on
\* (transfer-form.tsx, account-panel.tsx, recovery-console.tsx).
THEOREM FormsActOnlyOnce == ChannelSpec => []FormsActOnce
  <1> DEFINE Good == part = "forms" => Forms!IInv
  <1>1. ChannelInit => Good
    BY OfForms, FormsInit
  <1>2. Good /\ [ChannelNext]_channelVars => Good'
    <2>1. ASSUME Forms!IInv, UNCHANGED Forms!vars PROVE Forms!IInv'
      BY <2>1, FormsLocal DEF Forms!vars
    <2>2. QED
      BY <2>1, OfForms, PartStays, FormsNext
  <1>3. Good => FormsActOnce
    BY FormsPayOnce, FormsTellTheTruth, FormsAccount DEF FormsActOnce
  <1>4. QED
    BY <1>1, <1>2, <1>3, PTL DEF ChannelSpec

LEMMA OfBrowser ==
  ASSUME part = "browser"
  PROVE /\ ChannelInit => Browser!Init
        /\ [ChannelNext]_channelVars => [Browser!Next]_Browser!vars
  BY DEF ChannelInit, ChannelNext, channelVars, screenVars, Browser!vars

\* Whatever is pressed, refused, lost or reloaded, the browser sends a code
\* with the challenge it was typed for, announces access only with a session it
\* holds, and asks for a code only while it can still send phone and PIN, or
\* "back" was pressed meanwhile (onboarding-flow.tsx, sign-in-flow.tsx).
THEOREM ScreensStayUsable == ChannelSpec => []ScreensUsable
  <1> DEFINE Good == part = "browser" => Browser!IInv
  <1>1. ChannelInit => Good
    BY OfBrowser, ScreensInit
  <1>2. Good /\ [ChannelNext]_channelVars => Good'
    BY OfBrowser, PartStays, ScreensNext
  <1>3. Good => ScreensUsable
    BY DEF ScreensUsable, Browser!IInv
  <1>4. QED
    BY <1>1, <1>2, <1>3, PTL DEF ChannelSpec

\* The guarantee of the QR payments holds of the channels: no other part
\* touches a code, a row or a posting of theirs (QrService).
COROLLARY ChannelQrMoneyTraced == ASSUME ChannelsOK PROVE ChannelSpec => QrMoneyTraced
  <1>1. ChannelInit => Init
    BY DEF ChannelInit
  <1>2. [ChannelNext]_channelVars => [Next]_vars
    BY DEF ChannelNext, OthersStand, channelVars
  <1>3. Spec => QrMoneyTraced
    BY QrPaysOnceAndTellsTheSame DEF ChannelsOK
  <1>4. QED
    BY <1>1, <1>2, <1>3, PTL DEF ChannelSpec, Spec
=============================================================================
