----------------------------- MODULE QrPayments -----------------------------
(***************************************************************************)
(* QR payments of the Payments service (qr.service.ts).  A code is issued, *)
(* scanned by payers (preview) and paid once (confirm, then settle).  A    *)
(* scan stands for its intent token and for the redemption row it inserts. *)
(* The Ledger is another service: a command is idempotent in its key       *)
(* `qr-pay:<redemption>`, and an answer may be lost after the journal      *)
(* committed.  settle handles every answer and so does the model, although *)
(* the Ledger's command schema of this commit refuses every AEGIS-QRP      *)
(* reference.  Prisma transactions run at Read Committed, so confirm's     *)
(* reads and its write are two steps.                                      *)
(***************************************************************************)
EXTENDS Naturals, FiniteSets

CONSTANTS Codes,        \* QR payment requests
          Dynamic,      \* the codes of type DYNAMIC; the others are STATIC
          Scans,        \* previews, each with its own intent token
          Confirms,     \* confirm requests, retries included
          CodeOf,       \* [Scans -> Codes]
          PayerOf,      \* [Scans -> customers]
          OwnerOf,      \* [Codes -> customers]
          ScanOf,       \* [Confirms -> Scans]: the intent token sent
          KeyOf         \* [Confirms -> idempotency keys]

VARIABLES codes,        \* [Codes -> status of the qrPaymentRequest row]
          expired,      \* the codes whose expiresAt has passed
          scans,        \* [Scans -> progress of the preview]
          rows,         \* [Scans -> qrRedemption row]
          events,       \* [Codes -> types of the qrPaymentEvent rows]
          posted,       \* the scans whose Ledger journal is committed
          pc,           \* [Confirms -> where the request is]
          reply,        \* [Confirms -> what the Ledger call returned]
          answer        \* [Confirms -> what the caller was told]

vars == <<codes, expired, scans, rows, events, posted, pc, reply, answer>>

NoRow == [status |-> "none", key |-> "none"]
Statuses == {"none", "PROCESSING", "COMPLETED", "FAILED"}
TempKey == "temp"       \* sha256(`temp-${intentToken}`), equal to no client key
Keys == {KeyOf[c] : c \in Confirms} \cup {"none", TempKey}

ConstantsOK ==
    /\ IsFiniteSet(Codes) /\ Dynamic \subseteq Codes
    /\ CodeOf \in [Scans -> Codes] /\ ScanOf \in [Confirms -> Scans]
    /\ \A c \in Confirms : KeyOf[c] \notin {"none", TempKey}

TypeOK ==
    /\ codes \in [Codes -> {"unissued", "ACTIVE", "REDEEMED"}]
    /\ expired \subseteq Codes
    /\ scans \in [Scans -> {"new", "checked", "previewed", "refused"}]
    /\ rows \in [Scans -> [status : Statuses, key : Keys]]
    /\ events \in [Codes -> SUBSET {"QR_ISSUED", "QR_SCANNED", "COMPLETED", "FAILED"}]
    /\ posted \subseteq Scans
    /\ pc \in [Confirms -> {"idle", "found", "settling", "posted", "marked",
                            "redeemed", "rejected", "failed", "done"}]
    /\ reply \in [Confirms -> {"none", "posted", "rejected", "unknown"}]
    /\ answer \in [Confirms -> {"none", "error", "PROCESSING", "COMPLETED", "FAILED"}]

Init ==
    /\ codes = [q \in Codes |-> "unissued"]
    /\ expired = {}
    /\ scans = [s \in Scans |-> "new"]
    /\ rows = [s \in Scans |-> NoRow]
    /\ events = [q \in Codes |-> {}]
    /\ posted = {}
    /\ pc = [c \in Confirms |-> "idle"]
    /\ reply = [c \in Confirms |-> "none"]
    /\ answer = [c \in Confirms |-> "none"]

-----------------------------------------------------------------------------
(* issue and the clock *)

issue(q) ==
    /\ codes[q] = "unissued"
    /\ codes' = [codes EXCEPT ![q] = "ACTIVE"]
    /\ events' = [events EXCEPT ![q] = @ \cup {"QR_ISSUED"}]
    /\ UNCHANGED <<expired, scans, rows, posted, pc, reply, answer>>

Expire(q) ==
    /\ codes[q] # "unissued" /\ q \notin expired
    /\ expired' = expired \cup {q}
    /\ UNCHANGED <<codes, scans, rows, events, posted, pc, reply, answer>>

-----------------------------------------------------------------------------
(* preview: checks on the code as read, then one insert *)

\* Only a DYNAMIC code is refused for being REDEEMED.
Scannable(s) ==
    LET q == CodeOf[s] IN
    /\ codes[q] # "unissued" /\ q \notin expired
    /\ ~(q \in Dynamic /\ codes[q] = "REDEEMED")
    /\ OwnerOf[q] # PayerOf[s]

Preview(s) ==
    /\ scans[s] = "new"
    /\ scans' = [scans EXCEPT ![s] = IF Scannable(s) THEN "checked" ELSE "refused"]
    /\ UNCHANGED <<codes, expired, rows, events, posted, pc, reply, answer>>

\* qr_redemptions_qr_payment_request_id_key: one redemption per code (the
\* mutant refuses a code only once it is paid).
CodeUnpaid(s) == codes[CodeOf[s]] # "REDEEMED"
CodeFree(s) == \A t \in Scans : CodeOf[t] = CodeOf[s] => rows[t] = NoRow

InsertRedemption(s) ==
    /\ scans[s] = "checked"
    /\ \/ /\ CodeFree(s)
          /\ scans' = [scans EXCEPT ![s] = "previewed"]
          /\ rows' = [rows EXCEPT ![s] = [status |-> "PROCESSING", key |-> TempKey]]
          /\ events' = [events EXCEPT ![CodeOf[s]] = @ \cup {"QR_SCANNED"}]
       \/ /\ ~CodeFree(s)
          /\ scans' = [scans EXCEPT ![s] = "refused"]
          /\ UNCHANGED <<rows, events>>
    /\ UNCHANGED <<codes, expired, posted, pc, reply, answer>>

-----------------------------------------------------------------------------
(* confirm: read, write, settle *)

Finish(c, told) ==
    /\ pc' = [pc EXCEPT ![c] = "done"]
    /\ answer' = [answer EXCEPT ![c] = told]

Goto(c, label) == pc' = [pc EXCEPT ![c] = label] /\ UNCHANGED answer

\* The sender's row under this client key; the unique index leaves at most one.
Known(c) == {s \in Scans : /\ PayerOf[s] = PayerOf[ScanOf[c]]
                           /\ rows[s].key = KeyOf[c]}

ConfirmRead(c) ==
    /\ pc[c] = "idle"
    /\ LET s == ScanOf[c] IN
       \/ \E t \in Known(c) :
             Finish(c, IF t = s THEN rows[t].status ELSE "error")
       \/ /\ Known(c) = {}
          /\ rows[s].status = "PROCESSING" /\ CodeOf[s] \notin expired
          /\ Goto(c, "found")
       \/ /\ Known(c) = {}
          /\ rows[s].status # "PROCESSING" \/ CodeOf[s] \in expired
          /\ Finish(c, "error")
    /\ UNCHANGED <<codes, expired, scans, rows, events, posted, reply>>

\* The key the update stores (the mutant leaves the one preview made up).
KeepsTempKey(c) == TempKey
StoredKey(c) == KeyOf[c]

\* The update names the row by id only: the key it held is overwritten, the
\* status is not looked at again.
ConfirmWrite(c) ==
    /\ pc[c] = "found"
    /\ \/ /\ Known(c) \subseteq {ScanOf[c]}
          /\ rows' = [rows EXCEPT ![ScanOf[c]].key = StoredKey(c)]
          /\ Goto(c, "settling")
       \/ /\ ~(Known(c) \subseteq {ScanOf[c]})
          /\ Finish(c, "error") /\ UNCHANGED rows
    /\ UNCHANGED <<codes, expired, scans, events, posted, reply>>

\* What the catch makes of a call that failed: error.status < 500 is final,
\* anything else leaves the row as it is (the mutant takes any failure for
\* final, or a timeout for success).
FailedOnAnyError(told) == IF told = "posted" THEN "posted" ELSE "rejected"
TimeoutIsSuccess(told) == IF told = "rejected" THEN "rejected" ELSE "posted"
AfterCall(told) ==
    CASE told = "posted" -> "posted" [] told = "rejected" -> "rejected" [] OTHER -> "done"

\* The Ledger posts, or answers with the journal it posted before; or it
\* refuses, which for want of funds it does before it looks at the key, so
\* also when the journal exists; or its answer does not arrive (5xx, timeout).
Post(c) ==
    LET s == ScanOf[c] IN
    /\ pc[c] = "settling"
    /\ \E told \in {"posted", "rejected", "unknown"} :
          /\ reply' = [reply EXCEPT ![c] = told]
          /\ \/ told = "posted" /\ posted' = posted \cup {s}
             \/ told = "rejected" /\ UNCHANGED posted
             \/ told = "unknown" /\ posted' \in {posted, posted \cup {s}}
          /\ IF AfterCall(told) = "done" THEN Finish(c, "PROCESSING")
                                         ELSE Goto(c, AfterCall(told))
    /\ UNCHANGED <<codes, expired, scans, rows, events>>

MarkCompleted(c) ==
    /\ pc[c] = "posted"
    /\ rows' = [rows EXCEPT ![ScanOf[c]].status = "COMPLETED"]
    /\ Goto(c, "marked")
    /\ UNCHANGED <<codes, expired, scans, events, posted, reply>>

\* The status the paid code takes (the mutants keep STATIC codes ACTIVE, and
\* confuse the status with the redemption's).
StaticStaysActive(q) == IF q \in Dynamic THEN "REDEEMED" ELSE codes[q]
RedemptionStatus(q) == "COMPLETED"
PaidStatus(q) == "REDEEMED"

MarkRedeemed(c) ==
    /\ pc[c] = "marked"
    /\ codes' = [codes EXCEPT ![CodeOf[ScanOf[c]]] = PaidStatus(CodeOf[ScanOf[c]])]
    /\ Goto(c, "redeemed")
    /\ UNCHANGED <<expired, scans, rows, events, posted, reply>>

RecordCompleted(c) ==
    /\ pc[c] = "redeemed"
    /\ events' = [events EXCEPT ![CodeOf[ScanOf[c]]] = @ \cup {"COMPLETED"}]
    /\ Finish(c, "COMPLETED")
    /\ UNCHANGED <<codes, expired, scans, rows, posted, reply>>

MarkFailed(c) ==
    /\ pc[c] = "rejected"
    /\ rows' = [rows EXCEPT ![ScanOf[c]].status = "FAILED"]
    /\ Goto(c, "failed")
    /\ UNCHANGED <<codes, expired, scans, events, posted, reply>>

RecordFailed(c) ==
    /\ pc[c] = "failed"
    /\ events' = [events EXCEPT ![CodeOf[ScanOf[c]]] = @ \cup {"FAILED"}]
    /\ Finish(c, "FAILED")
    /\ UNCHANGED <<codes, expired, scans, rows, posted, reply>>

\* A database write after the Ledger's answer fails, or the process stops.
\* On the posted path the catch swallows the error and returns the row as
\* confirm read it; on the other the error reaches the caller.
Abandon(c) ==
    /\ \/ pc[c] \in {"posted", "marked", "redeemed"} /\ Finish(c, "PROCESSING")
       \/ pc[c] \in {"rejected", "failed"} /\ Finish(c, "error")
    /\ UNCHANGED <<codes, expired, scans, rows, events, posted, reply>>

Next ==
    \/ \E q \in Codes : issue(q) \/ Expire(q)
    \/ \E s \in Scans : Preview(s) \/ InsertRedemption(s)
    \/ \E c \in Confirms :
          \/ ConfirmRead(c) \/ ConfirmWrite(c) \/ Post(c)
          \/ MarkCompleted(c) \/ MarkRedeemed(c) \/ RecordCompleted(c)
          \/ MarkFailed(c) \/ RecordFailed(c) \/ Abandon(c)

Spec == Init /\ [][Next]_vars

-----------------------------------------------------------------------------
(* A code pays once, whoever scans it and however often a confirmation is  *)
(* retried, STATIC codes included (preview lets those through when         *)
(* REDEEMED).                                                              *)
OnePaymentPerCode ==
    \A s, t \in posted : CodeOf[s] = CodeOf[t] => s = t

(* COMPLETED, in the row or in an answer, is never ahead of the journal,   *)
(* whatever the Ledger call returned and whichever write failed.           *)
CompletedIsPosted ==
    /\ \A s \in Scans : rows[s].status = "COMPLETED" => s \in posted
    /\ \A c \in Confirms : answer[c] = "COMPLETED" => ScanOf[c] \in posted

(* A row may say FAILED although its journal committed, but only when two  *)
(* confirmations of one scan settled it: one was refused, another's        *)
(* command was executed, and the refusal was written last.                 *)
FailedMoneyNeedsTwoSettlements ==
    \A s \in posted : rows[s].status = "FAILED" =>
        \E c, d \in Confirms : /\ ScanOf[c] = s /\ ScanOf[d] = s
                               /\ reply[c] = "rejected"
                               /\ reply[d] \in {"posted", "unknown"}

(* settle's three writes keep their order under crashes: the COMPLETED     *)
(* event implies a REDEEMED code, and a REDEEMED code a committed journal. *)
CodeFollowsMoney ==
    \A q \in Codes :
        /\ "COMPLETED" \in events[q] => codes[q] = "REDEEMED"
        /\ codes[q] = "REDEEMED" => \E s \in posted : CodeOf[s] = q

(* A retry under the key of a request that was told COMPLETED is told      *)
(* COMPLETED, unless a second settlement of the scan took the row: another *)
(* key overwrites the first one's, a refusal overwrites the status.        *)
RetryStep ==
    \A c, d \in Confirms :
      /\ answer[c] = "COMPLETED" /\ pc[d] = "idle" /\ pc'[d] # "idle"
      /\ ScanOf[c] = ScanOf[d] /\ KeyOf[c] = KeyOf[d]
      /\ \A e \in Confirms \ {c} : ScanOf[e] = ScanOf[c] => reply[e] = "none" /\ pc[e] # "settling"
      => answer'[d] = "COMPLETED"
RetryToldTheSame == [][RetryStep]_vars

(* The money of a QR payment can be traced from every record of it: the    *)
(* code, the redemption row, the events and what the callers were told.    *)
Traced ==
    /\ TypeOK
    /\ OnePaymentPerCode
    /\ CompletedIsPosted
    /\ FailedMoneyNeedsTwoSettlements
    /\ CodeFollowsMoney
QrMoneyTraced == []Traced /\ RetryToldTheSame
=============================================================================
