------------------------------ MODULE AgentCash -----------------------------
(***************************************************************************)
(* Agent cash-in and cash-out (agent.service.ts): preview, confirm and     *)
(* settle for one agent.  The daily limit is a sum over COMPLETED          *)
(* operations taken at preview, before the operation's row exists;         *)
(* confirm reads the row and then updates it by id, in one Read Committed  *)
(* transaction, so two confirmations may both have read                    *)
(* PENDING_CONFIRMATION.  The Ledger answers as in QrPayments.             *)
(***************************************************************************)
EXTENDS Naturals, FiniteSets, Functions

CONSTANTS Operations,   \* previewed operations
          Confirms,     \* confirm requests, retries included
          AmountOf,     \* [Operations -> amount in minor units]
          OpOf,         \* [Confirms -> Operations]: the intent token sent
          KeyOf,        \* [Confirms -> idempotency keys]
          MinTransfer, MaxTransfer, DailyLimit,
          LastDay       \* bound on the calendar

VARIABLES day,          \* the UTC calendar day
          previews,     \* [Operations -> progress of the preview]
          rows,         \* [Operations -> agentCashOperation row]
          expired,      \* the operations whose expiresAt has passed
          events,       \* [Operations -> types of its agentCashEvent rows]
          posted,       \* the operations whose Ledger journal is committed
          pc, reply, answer,    \* [Confirms -> ...], as in QrPayments
          overlapped    \* history: a preview's sum missed an open operation

vars == <<day, previews, rows, expired, events, posted, pc, reply, answer, overlapped>>

ConstantsOK ==
    /\ IsFiniteSet(Operations) /\ AmountOf \in [Operations -> Nat]
    /\ OpOf \in [Confirms -> Operations] /\ DOMAIN KeyOf = Confirms
    /\ MinTransfer <= MaxTransfer /\ DailyLimit \in Nat /\ LastDay \in Nat

NoRow == [status |-> "none", key |-> "none", day |-> 0]

Init ==
    /\ day = 0
    /\ previews = [o \in Operations |-> "new"]
    /\ rows = [o \in Operations |-> NoRow]
    /\ expired = {} /\ posted = {}
    /\ events = [o \in Operations |-> {}]
    /\ pc = [c \in Confirms |-> "idle"]
    /\ reply = [c \in Confirms |-> "none"]
    /\ answer = [c \in Confirms |-> "none"]
    /\ overlapped = FALSE

-----------------------------------------------------------------------------
Midnight ==
    /\ day < LastDay /\ day' = day + 1
    /\ UNCHANGED <<previews, rows, expired, events, posted, pc, reply, answer, overlapped>>

Expire(o) ==
    /\ rows[o].status # "none" /\ o \notin expired
    /\ expired' = expired \cup {o}
    /\ UNCHANGED <<day, previews, rows, events, posted, pc, reply, answer, overlapped>>

CompletedOn(d) == {o \in Operations : rows[o].status = "COMPLETED" /\ rows[o].day = d}
Total(ops) == SumFunctionOnSet(AmountOf, ops)

\* dailyTotal + amount > limit refuses (the mutant forgets the amount).
WithinLimitBefore(o) == Total(CompletedOn(day)) <= DailyLimit
WithinLimit(o) == Total(CompletedOn(day)) + AmountOf[o] <= DailyLimit

\* An operation that can still become COMPLETED without being in the sum.
Open(o) ==
    \/ previews[o] = "allowed"
    \/ rows[o].status \in {"PENDING_CONFIRMATION", "PROCESSING"}
    \/ \E c \in Confirms : OpOf[c] = o /\ pc[c] \notin {"idle", "done"}

CheckLimits(o) ==
    /\ previews[o] = "new"
    /\ \/ /\ AmountOf[o] \in MinTransfer .. MaxTransfer /\ WithinLimit(o)
          /\ previews' = [previews EXCEPT ![o] = "allowed"]
          /\ overlapped' = (overlapped \/ \E p \in Operations : Open(p))
       \/ /\ ~(AmountOf[o] \in MinTransfer .. MaxTransfer /\ WithinLimit(o))
          /\ previews' = [previews EXCEPT ![o] = "refused"]
          /\ UNCHANGED overlapped
    /\ UNCHANGED <<day, rows, expired, events, posted, pc, reply, answer>>

CreateOperation(o) ==
    /\ previews[o] = "allowed"
    /\ previews' = [previews EXCEPT ![o] = "created"]
    /\ rows' = [rows EXCEPT ![o] = [status |-> "PENDING_CONFIRMATION",
                                    key |-> "temp", day |-> day]]
    /\ events' = [events EXCEPT ![o] = @ \cup {"OPERATION_CREATED"}]
    /\ UNCHANGED <<day, expired, posted, pc, reply, answer, overlapped>>

-----------------------------------------------------------------------------
Finish(c, told) ==
    /\ pc' = [pc EXCEPT ![c] = "done"]
    /\ answer' = [answer EXCEPT ![c] = told]

Goto(c, label) == pc' = [pc EXCEPT ![c] = label] /\ UNCHANGED answer

Known(c) == {o \in Operations : rows[o].key = KeyOf[c]}

\* The row must still be open (the mutant also takes one that is settling).
NotFinished(o) == rows[o].status \in {"PENDING_CONFIRMATION", "PROCESSING"}
Confirmable(o) == rows[o].status = "PENDING_CONFIRMATION"

ConfirmRead(c) ==
    /\ pc[c] = "idle"
    /\ LET o == OpOf[c] IN
       \/ \E p \in Known(c) : Finish(c, IF p = o THEN rows[p].status ELSE "error")
       \/ /\ Known(c) = {} /\ Confirmable(o) /\ o \notin expired
          /\ Goto(c, "found")
       \/ /\ Known(c) = {} /\ ~(Confirmable(o) /\ o \notin expired)
          /\ Finish(c, "error")
    /\ UNCHANGED <<day, previews, rows, expired, events, posted, reply, overlapped>>

ConfirmWrite(c) ==
    /\ pc[c] = "found"
    /\ \/ /\ Known(c) \subseteq {OpOf[c]}
          /\ rows' = [rows EXCEPT ![OpOf[c]].status = "PROCESSING",
                                  ![OpOf[c]].key = KeyOf[c]]
          /\ events' = [events EXCEPT ![OpOf[c]] = @ \cup {"CUSTOMER_CONFIRMED"}]
          /\ Goto(c, "settling")
       \/ /\ ~(Known(c) \subseteq {OpOf[c]})
          /\ Finish(c, "error") /\ UNCHANGED <<rows, events>>
    /\ UNCHANGED <<day, previews, expired, posted, reply, overlapped>>

Post(c) ==
    LET o == OpOf[c] IN
    /\ pc[c] = "settling"
    /\ \E told \in {"posted", "rejected", "unknown"} :
          /\ reply' = [reply EXCEPT ![c] = told]
          /\ \/ told = "posted" /\ posted' = posted \cup {o}
             \/ told = "rejected" /\ UNCHANGED posted
             \/ told = "unknown" /\ posted' \in {posted, posted \cup {o}}
          /\ IF told = "unknown" THEN Finish(c, "PROCESSING") ELSE Goto(c, told)
    /\ UNCHANGED <<day, previews, rows, expired, events, overlapped>>

MarkCompleted(c) ==
    /\ pc[c] = "posted"
    /\ rows' = [rows EXCEPT ![OpOf[c]].status = "COMPLETED"]
    /\ Goto(c, "marked")
    /\ UNCHANGED <<day, previews, expired, events, posted, reply, overlapped>>

MarkFailed(c) ==
    /\ pc[c] = "rejected"
    /\ rows' = [rows EXCEPT ![OpOf[c]].status = "FAILED"]
    /\ Goto(c, "failed")
    /\ UNCHANGED <<day, previews, expired, events, posted, reply, overlapped>>

RecordEvent(c) ==
    /\ \/ /\ pc[c] = "marked" /\ Finish(c, "COMPLETED")
          /\ events' = [events EXCEPT ![OpOf[c]] = @ \cup {"COMPLETED"}]
       \/ /\ pc[c] = "failed" /\ Finish(c, "FAILED")
          /\ events' = [events EXCEPT ![OpOf[c]] = @ \cup {"FAILED"}]
    /\ UNCHANGED <<day, previews, rows, expired, posted, reply, overlapped>>

\* What a write that fails after the Ledger's answer leaves: the row as it is
\* (the mutant's catch does not ask whether the Ledger refused).
FailsAnyway(c) == [rows EXCEPT ![OpOf[c]].status = "FAILED"]
LeftBehind(c) == rows

Abandon(c) ==
    /\ \/ pc[c] \in {"posted", "marked"} /\ Finish(c, "PROCESSING")
          /\ rows' = LeftBehind(c)
       \/ pc[c] \in {"rejected", "failed"} /\ Finish(c, "error") /\ UNCHANGED rows
    /\ UNCHANGED <<day, previews, expired, events, posted, reply, overlapped>>

Next ==
    \/ Midnight
    \/ \E o \in Operations : Expire(o) \/ CheckLimits(o) \/ CreateOperation(o)
    \/ \E c \in Confirms :
          \/ ConfirmRead(c) \/ ConfirmWrite(c) \/ Post(c) \/ MarkCompleted(c)
          \/ MarkFailed(c) \/ RecordEvent(c) \/ Abandon(c)

Spec == Init /\ [][Next]_vars

-----------------------------------------------------------------------------
(* The agent's completed operations of a day exceed the daily limit only   *)
(* if some preview took its sum while another operation was open: the sum  *)
(* counts COMPLETED rows alone, and nothing repeats the check at confirm.  *)
LimitHoldsUnlessOverlapped ==
    ~overlapped => \A d \in 0 .. LastDay : Total(CompletedOn(d)) <= DailyLimit

(* An operation that one request alone has settled keeps what its caller   *)
(* was told: answered COMPLETED, the row is COMPLETED; and it is never     *)
(* FAILED over a committed journal, whichever write failed after the       *)
(* Ledger's answer.                                                        *)
SoleSettlementIsFinal ==
    \A o \in Operations : \A c \in Confirms :
        /\ OpOf[c] = o /\ reply[c] # "none"
        /\ \A d \in Confirms \ {c} :
              OpOf[d] = o => reply[d] = "none" /\ pc[d] # "settling"
        => /\ answer[c] = "COMPLETED" => rows[o].status = "COMPLETED"
           /\ rows[o].status = "FAILED" => o \notin posted

(* Two requests settle one operation only if both read it before either    *)
(* wrote: a request that arrives after the first confirmation, under its   *)
(* key, another key or another operation's key, settles nothing.           *)
LateConfirmStep ==
    \A c \in Confirms :
      pc[c] = "idle" /\ "CUSTOMER_CONFIRMED" \in events[OpOf[c]]
         => pc'[c] \in {"idle", "done"}
LateConfirmSettlesNothing == [][LateConfirmStep]_vars
=============================================================================
