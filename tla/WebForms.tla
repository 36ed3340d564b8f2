------------------------------ MODULE WebForms ------------------------------
(***************************************************************************)
(* The browser forms that make the platform do something once: the         *)
(* transfer form (apps/web transfer-form.tsx), the default-account panel   *)
(* (account-panel.tsx) and the recovery console's "plan a drill" button    *)
(* (recovery-console.tsx).  A request is abandoned by the browser after a  *)
(* timeout or a network error (http.ts) while the server may still run it, *)
(* and the customer may press again, edit, or leave and come back.         *)
(***************************************************************************)
EXTENDS Naturals, FiniteSets

CONSTANTS Amounts,    \* amounts a customer types
          MaxCalls,   \* bound on requests sent
          MaxMounts   \* bound on times the form is opened

VARIABLES form,      \* which component is on screen
          mount,     \* how often it has been opened
          typed,     \* amount in the input field
          preview,   \* intent on the review screen, 0 for none
          key,       \* idempotencyKey ref, 0 while undefined
          waiting,   \* number of the awaited request, 0 when not busy
          error,     \* an error message is on screen
          done,      \* the component has shown success
          calls,     \* requests sent by the browser
          intents,   \* server: amount of each intent, by number
          records,   \* server: transfers, accounts or drills made
          told,      \* drills the operator was told of
          lost       \* mounts that gave up on a request

vars == <<form, mount, typed, preview, key, waiting, error, done, calls,
          intents, records, told, lost>>

Forms == {"transfer", "account", "drill"}
Kinds == {"preview", "confirm", "provision", "plan"}

Init ==
    /\ form \in Forms /\ mount = 1
    /\ typed \in Amounts /\ preview = 0 /\ key = 0 /\ waiting = 0
    /\ error = FALSE /\ done = FALSE
    /\ calls = {} /\ intents = <<>> /\ records = {}
    /\ told = 0 /\ lost = {}

NextNumber == Cardinality(calls) + 1

(* http.ts request: one fetch, awaited by the handler that sent it. *)
Send(kind, k) ==
    /\ NextNumber <= MaxCalls
    /\ calls' = calls \cup {[id |-> NextNumber, kind |-> kind, key |-> k,
                             intent |-> preview, amount |-> typed,
                             mount |-> mount, answer |-> "none"]}
    /\ waiting' = NextNumber
    /\ error' = FALSE
    /\ UNCHANGED <<form, mount, typed, preview, done, intents, records, told, lost>>

(* The key of one attempt: (the mutant) a fresh key for every press. *)
FreshKey(held) == NextNumber

(* key.current ??= create...Key(): made at the first press, then kept. *)
KeyFor(held) == IF held = 0 THEN NextNumber ELSE held

(* The amount field stays editable while a preview is being fetched. *)
Type(a) ==
    /\ form = "transfer" /\ preview = 0 /\ ~done /\ a # typed
    /\ typed' = a
    /\ UNCHANGED <<form, mount, preview, key, waiting, error, done, calls,
                   intents, records, told, lost>>

review ==
    /\ form = "transfer" /\ preview = 0 /\ waiting = 0 /\ ~done
    /\ Send("preview", 0)
    /\ UNCHANGED key

confirm ==
    /\ form = "transfer" /\ preview # 0 /\ waiting = 0 /\ ~done
    /\ key' = KeyFor(key)
    /\ Send("confirm", KeyFor(key))

(* The Edit button: only the preview is dropped. *)
Edit ==
    /\ form = "transfer" /\ preview # 0 /\ waiting = 0 /\ ~done
    /\ preview' = 0
    /\ UNCHANGED <<form, mount, typed, key, waiting, error, done, calls,
                   intents, records, told, lost>>

createAccount ==
    /\ form = "account" /\ waiting = 0 /\ ~done
    /\ key' = KeyFor(key)
    /\ Send("provision", KeyFor(key))

(* Whether the button answers a press: (the mutant) while a request runs. *)
AlwaysEnabled == TRUE

(* disabled={busy} *)
Enabled == waiting = 0

planDrill ==
    /\ form = "drill" /\ Enabled
    /\ Send("plan", 0)
    /\ UNCHANGED key

-----------------------------------------------------------------------------
(* What the services do with a request, whether or not anybody waits.      *)

Answer(c, result) ==
    calls' = (calls \ {c}) \cup {[c EXCEPT !.answer = result]}

Refuse(c) ==
    /\ Answer(c, "refused")
    /\ UNCHANGED <<intents, records>>

(* Payments keeps the intent with the amount that was sent. *)
ServePreview(c) ==
    /\ c.kind = "preview"
    /\ LET n == Cardinality(DOMAIN intents) + 1
       IN /\ intents' = [i \in 1..n |-> IF i = n THEN c.amount ELSE intents[i]]
          /\ calls' = (calls \ {c})
                        \cup {[c EXCEPT !.answer = "intent", !.intent = n]}
    /\ UNCHANGED records

(* Payments confirm: a known key replays its transfer or is a conflict, a  *)
(* spent intent is refused, otherwise the transfer is made.                *)
ServeConfirm(c) ==
    /\ c.kind = "confirm"
    /\ \/ /\ \E r \in records : r.key = c.key /\ r.intent = c.intent
                                  /\ Answer(c, r.status)
          /\ UNCHANGED <<intents, records>>
       \/ /\ \E r \in records : (r.key = c.key) # (r.intent = c.intent)
          /\ Refuse(c)
       \/ /\ ~\E r \in records : r.key = c.key \/ r.intent = c.intent
          /\ \E status \in {"COMPLETED", "PROCESSING", "FAILED"} :
                /\ records' = records \cup
                     {[id |-> c.id, kind |-> c.kind, key |-> c.key, mount |-> c.mount,
                       intent |-> c.intent, status |-> status]}
                /\ Answer(c, status)
          /\ UNCHANGED intents

(* The Ledger returns the existing default account or creates it; the      *)
(* Resilience service records a drill for every POST.                      *)
ServeRecord(c) ==
    /\ c.kind \in {"provision", "plan"}
    /\ records' = IF c.kind = "provision" /\ records # {} THEN records
                  ELSE records \cup
                     {[id |-> c.id, kind |-> c.kind, key |-> c.key, mount |-> c.mount,
                       intent |-> 0, status |-> "COMPLETED"]}
    /\ Answer(c, "COMPLETED")
    /\ UNCHANGED intents

Serve(c) ==
    /\ c.answer = "none"
    /\ ServePreview(c) \/ ServeConfirm(c) \/ ServeRecord(c) \/ Refuse(c)
    /\ UNCHANGED <<form, mount, typed, preview, key, waiting, error, done, told, lost>>

-----------------------------------------------------------------------------
(* Which answers the transfer form takes for success: (the mutant) only a  *)
(* transfer that is already complete.                                      *)
OnlyCompleted(answer) == answer = "COMPLETED"

(* result.status === 'COMPLETED' || result.status === 'PROCESSING' *)
Accepted(answer) == answer \in {"COMPLETED", "PROCESSING"}

(* The rest of the handler that awaits request c. *)
Receive(c) ==
    /\ c.id = waiting /\ c.answer # "none"
    /\ waiting' = 0
    /\ preview' = IF c.answer = "intent" THEN c.intent ELSE preview
    /\ done' = (form # "drill" /\ Accepted(c.answer))
    /\ told' = told + (IF form = "drill" /\ Accepted(c.answer) THEN 1 ELSE 0)
    /\ key' = IF form = "account" /\ Accepted(c.answer) THEN 0 ELSE key
    /\ error' = ~(c.answer = "intent" \/ Accepted(c.answer))
    /\ UNCHANGED <<form, mount, typed, calls, intents, records, lost>>

(* REQUEST_TIMEOUT_MS passes or the network fails: the handler's catch.     *)
GiveUp ==
    /\ waiting # 0
    /\ waiting' = 0 /\ error' = TRUE
    /\ lost' = lost \cup {<<mount, waiting>>}
    /\ UNCHANGED <<form, mount, typed, preview, key, done, calls, intents, records, told>>

(* The page is left and opened again: every useState and useRef is new.     *)
Reopen ==
    /\ mount < MaxMounts
    /\ mount' = mount + 1
    /\ preview' = 0 /\ key' = 0 /\ error' = FALSE /\ done' = FALSE
    /\ waiting' = 0
    /\ lost' = IF waiting = 0 THEN lost ELSE lost \cup {<<mount, waiting>>}
    /\ UNCHANGED <<form, typed, calls, intents, records, told>>

Next ==
    \/ \E a \in Amounts : Type(a)
    \/ review \/ confirm \/ Edit \/ createAccount \/ planDrill
    \/ \E c \in calls : Serve(c) \/ Receive(c)
    \/ GiveUp \/ Reopen

Spec == Init /\ [][Next]_vars

-----------------------------------------------------------------------------
(* One opening of the transfer form makes at most one transfer, whatever   *)
(* is retried, edited and confirmed again after answers were lost: the key *)
(* survives Edit, so a second intent under it is refused (transfer-form    *)
(* confirm).                                                               *)
PaysOncePerForm ==
    \A r, s \in records :
        r.kind = "confirm" /\ s.kind = "confirm" /\ r.mount = s.mount => r = s

(* An error on screen while a transfer of this form stands or is still     *)
(* being settled means that some answer was lost: an answer that arrived   *)
(* never reports a failure of money that moved (transfer-form confirm).    *)
ErrorMeansUnpaid ==
    (form = "transfer" /\ error) =>
        \A r \in records :
            r.mount = mount /\ r.status # "FAILED" => \E l \in lost : l[1] = mount

(* Every drill on record was announced to the operator, is the answer      *)
(* being waited for, or belongs to a request that was given up on - the    *)
(* console says "Nothing was changed" only in that last case wrongly       *)
(* (recovery-console planDrill).                                           *)
DrillsAccountedFor ==
    form = "drill" =>
        Cardinality(records)
            <= told + Cardinality(lost) + (IF waiting = 0 THEN 0 ELSE 1)

-----------------------------------------------------------------------------
(* The inductive invariant behind the three properties. *)

KindsOn(f) == CASE f = "transfer" -> {"preview", "confirm"}
               [] f = "account" -> {"provision"}
               [] f = "drill" -> {"plan"}

Typed ==
    /\ form \in Forms /\ mount \in Nat \ {0} /\ told \in Nat
    /\ error \in BOOLEAN /\ done \in BOOLEAN
    /\ IsFiniteSet(calls) /\ IsFiniteSet(records) /\ IsFiniteSet(lost)
    /\ \A c \in calls :
          /\ c = [id |-> c.id, kind |-> c.kind, key |-> c.key, intent |-> c.intent,
                  amount |-> c.amount, mount |-> c.mount, answer |-> c.answer]
          /\ c.kind \in KindsOn(form) /\ c.mount \in 1..mount
    /\ \A r \in records : r.kind \in KindsOn(form)

\* Requests are numbered as they are sent.
Numbered ==
    /\ \A c \in calls : c.id \in 1 .. Cardinality(calls)
    /\ \A c, d \in calls : c.id = d.id => c = d

\* A request without an answer is awaited or was given up on; the awaited one
\* belongs to this opening of the form.
Awaited ==
    /\ waiting # 0 => \E c \in calls : c.id = waiting
    /\ \A c \in calls :
          /\ c.id = waiting => c.mount = mount
          /\ c.answer = "none" => c.id = waiting \/ <<c.mount, c.id>> \in lost

\* The error line is empty while a request runs and after success, which the
\* console shows in other ways.
ErrorLine ==
    /\ waiting # 0 => ~error /\ ~done
    /\ done => ~error /\ form # "drill"

\* A record was made by a request and is what that request was told.
MadeByCall ==
    /\ \A r \in records : \E c \in calls :
          /\ c.id = r.id /\ c.kind = r.kind /\ c.mount = r.mount
          /\ c.key = r.key /\ c.answer = r.status
    /\ \A r \in records : r.status \in {"COMPLETED", "PROCESSING", "FAILED"}
    /\ form = "drill" => \A r \in records : r.status = "COMPLETED"
    /\ \A r, s \in records : r.id = s.id => r = s

\* The confirmations of one opening carry one key, under which there is one
\* record.
OneKeyPerMount ==
    /\ \A c \in calls : c.kind = "confirm" /\ c.mount = mount => c.key = key /\ key # 0
    /\ \A c, d \in calls : c.kind = "confirm" /\ d.kind = "confirm" /\ c.mount = d.mount
                              => c.key = d.key
    /\ \A r, s \in records : r.kind = "confirm" /\ s.kind = "confirm" /\ r.key = s.key
                              => r = s

\* A transfer of this opening that stands was told, is awaited or was lost.
StandingIsKnown ==
    form = "transfer" =>
        \A r \in records :
            r.mount = mount /\ r.status # "FAILED" =>
                done \/ waiting = r.id \/ \E l \in lost : l[1] = mount

\* The drills that are neither awaited nor given up on were announced.
Announced == {r \in records : r.id # waiting /\ <<r.mount, r.id>> \notin lost}
AnnouncedIsTold == form = "drill" => Cardinality(Announced) <= told

IInv ==
    /\ Typed
    /\ Numbered
    /\ Awaited
    /\ ErrorLine
    /\ MadeByCall
    /\ OneKeyPerMount
    /\ StandingIsKnown
    /\ AnnouncedIsTold
=============================================================================
