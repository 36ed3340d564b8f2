------------------------------ MODULE Gateway ------------------------------
(***************************************************************************)
(* The API gateway between the browser and the services: a request passes  *)
(* the session, validation, control, step-up and verdict stages of its     *)
(* controller in order and then calls Payments or Ledger, directly or      *)
(* through SABCL.  One customer session may be logged out and one security *)
(* control applied or lifted while requests are under way; every call may  *)
(* fail, be lost or be answered after the gateway has given up on it.      *)
(***************************************************************************)
EXTENDS Integers, Sequences, FiniteSets

CONSTANTS Requests,
          MaxLogouts    \* bound on the clicks on "log out"

\* The awaited calls of a controller, in order.  "channel" stands for the QR
\* and agent confirmations, "issue" for QR codes and the channels' previews,
\* "write" for the transfer preview and account provisioning, "webhook" for
\* the USSD callback, which has no session.
TransferStages == <<"resolve", "check", "stepUp", "evaluate", "authorize", "submit">>
ChannelStages  == <<"resolve", "stepUp", "submit">>
IssueStages    == <<"resolve", "submit">>
WriteStages    == <<"resolve", "submit">>
WebhookStages  == <<"submit">>

Stages(kind) ==
  CASE kind = "transfer" -> TransferStages
    [] kind = "channel"  -> ChannelStages
    [] kind = "issue"    -> IssueStages
    [] kind = "write"    -> WriteStages
    [] kind = "webhook"  -> WebhookStages

Routes == {"transfer", "channel", "issue", "write", "webhook"}

\* SABCL_CAPABILITIES: the recipient serves a call only on a path it lists; the
\* channels' paths are sent under payments.transfer, which lists none of them.
Listed(kind) == kind \in {"transfer", "write"}

ConstantsOK == MaxLogouts \in Nat

VARIABLES mode,       \* SABCL_MODE, fixed at start
          route,      \* [Requests -> kind of route], fixed per behaviour
          session,    \* the session stands at Identity
          control,    \* a blocking control is in force at Risk
          cookies,    \* the browser still holds the session cookies
          stage,      \* [Requests -> 0 before arrival, else index in Stages]
          waiting,    \* [Requests -> transport awaited: "none", "sabcl", "direct"]
          flight,     \* [Requests -> calls sent and not yet dispatched]
          answer,     \* [Requests -> answer on its way: "none", "ok", "refused"]
          told,       \* [Requests -> "none", "ok", "refused", "unavailable"]
          ran,        \* [Requests -> times the service ran the submission]
          approved,   \* intents Payments has authorised
          proved,     \* requests whose PIN Identity verified
          stopped,    \* requests a control or a dead session stood against
                      \* from their arrival on
          logouts, failed, revoked  \* clicks; one failed; one was told revoked

vars == <<mode, route, session, control, cookies, stage, waiting, flight, answer, told, ran,
          approved, proved, stopped, logouts, failed, revoked>>

Init == /\ mode \in {"off", "compatible", "strict"}
        /\ route \in [Requests -> Routes]
        /\ session = TRUE /\ control \in BOOLEAN /\ cookies = TRUE
        /\ stage = [r \in Requests |-> 0]
        /\ waiting = [r \in Requests |-> "none"]
        /\ flight = [r \in Requests |-> {}]
        /\ answer = [r \in Requests |-> "none"]
        /\ told = [r \in Requests |-> "none"]
        /\ ran = [r \in Requests |-> 0]
        /\ approved = {} /\ proved = {} /\ stopped = {}
        /\ logouts = 0 /\ failed = FALSE /\ revoked = FALSE

At(r, name) == /\ stage[r] > 0 /\ told[r] = "none" /\ waiting[r] = "none"
               /\ Stages(route[r])[stage[r]] = name
Pass(r)     == /\ stage' = [stage EXCEPT ![r] = @ + 1]
               /\ UNCHANGED told
Tell(r, t)  == /\ told' = [told EXCEPT ![r] = t]
               /\ UNCHANGED stage

fixed    == <<mode, route>>
world    == <<fixed, session, control, cookies>>
calls    == <<waiting, flight, answer, ran, approved>>
clicks   == <<logouts, failed, revoked>>

\* A controller starts with the cookies the browser sends.
Barred(r) == \/ ~session /\ route[r] # "webhook"
             \/ control /\ route[r] = "transfer"
Arrive(r) ==
  /\ stage[r] = 0
  /\ cookies \/ route[r] = "webhook"
  /\ stage' = [stage EXCEPT ![r] = 1]
  /\ stopped' = IF Barred(r) THEN stopped \union {r} ELSE stopped
  /\ UNCHANGED <<world, calls, clicks, told, proved>>

\* sessions.resolve, then the CSRF, body, key and cookie checks, which await
\* no one: the first that fails ends the request.
Resolve(r) ==
  /\ At(r, "resolve")
  /\ \/ Tell(r, "unavailable")
     \/ Tell(r, "refused")
     \/ session /\ Pass(r)
  /\ UNCHANGED <<world, calls, clicks, proved, stopped>>

\* (the mutant) a Risk outage lets the request through
RiskFailsOpen(r) == Pass(r)
RiskFails(r) == Tell(r, "unavailable")

\* risk.check and risk.evaluate read the controls at different times.
RiskStage(r, name) ==
  /\ At(r, name)
  /\ \/ RiskFails(r)
     \/ IF control THEN Tell(r, "refused") ELSE Pass(r)
  /\ UNCHANGED <<world, calls, clicks, proved, stopped>>
Check(r)    == RiskStage(r, "check")
Evaluate(r) == RiskStage(r, "evaluate")

\* (the mutant) the PIN is checked without asking for the session
PinOnly(r) == TRUE
StepUpPasses(r) == session

\* The PIN sent along may be wrong.
StepUp(r) ==
  /\ At(r, "stepUp")
  /\ \/ /\ StepUpPasses(r)
        /\ Pass(r)
        /\ proved' = IF session THEN proved \union {r} ELSE proved
     \/ /\ \/ Tell(r, "refused")
           \/ Tell(r, "unavailable")
        /\ UNCHANGED proved
  /\ UNCHANGED <<world, calls, clicks, stopped>>

Service == {"authorize", "submit"}

\* PaymentsClient.request and LedgerClient.request: through SABCL whenever it
\* is configured.
Call(r, name) ==
  LET t == IF mode = "off" THEN "direct" ELSE "sabcl" IN
  /\ At(r, name)
  /\ waiting' = [waiting EXCEPT ![r] = t]
  /\ flight' = [flight EXCEPT ![r] = @ \union {<<name, t>>}]
  /\ UNCHANGED <<world, clicks, stage, told, answer, ran, approved, proved, stopped>>

\* The service runs a call that arrives, however late; it may refuse it.
Dispatch(r, m) ==
  /\ m \in flight[r]
  /\ m[2] = "sabcl" => Listed(route[r])
  /\ flight' = [flight EXCEPT ![r] = @ \ {m}]
  /\ \E ok \in BOOLEAN :
       /\ m[1] = "submit" /\ route[r] = "transfer" /\ ok => r \in approved
       /\ ran' = IF ok /\ m[1] = "submit" THEN [ran EXCEPT ![r] = @ + 1] ELSE ran
       /\ approved' = IF ok /\ m[1] = "authorize" THEN approved \union {r} ELSE approved
       /\ answer' = IF waiting[r] = m[2] /\ Stages(route[r])[stage[r]] = m[1]
                    THEN [answer EXCEPT ![r] = IF ok THEN "ok" ELSE "refused"]
                    ELSE answer
  /\ UNCHANGED <<world, clicks, stage, told, waiting, proved, stopped>>

\* A call that never arrives.
Lose(r, m) ==
  /\ m \in flight[r]
  /\ flight' = [flight EXCEPT ![r] = @ \ {m}]
  /\ UNCHANGED <<world, clicks, stage, told, waiting, answer, ran, approved,
                 proved, stopped>>

\* The answer is read: an error status ends the request, the last stage's
\* body is the browser's answer.
Return(r) ==
  /\ waiting[r] # "none" /\ answer[r] # "none"
  /\ waiting' = [waiting EXCEPT ![r] = "none"]
  /\ answer' = [answer EXCEPT ![r] = "none"]
  /\ IF answer[r] = "refused" THEN Tell(r, "refused")
     ELSE IF stage[r] = Len(Stages(route[r])) THEN Tell(r, "ok") ELSE Pass(r)
  /\ UNCHANGED <<world, clicks, flight, ran, approved, proved, stopped>>

\* (the mutant) every SABCL error is retried on the direct path
AlwaysFallsBack(t) == t = "sabcl"
FallsBack(t) == t = "sabcl" /\ mode # "strict"

\* (the mutant) an unreadable answer is passed on
PassedOn == "ok"
NoAnswer == "unavailable"

\* A timeout, a refusal on the way or a body that does not parse: the answer is
\* lost, the call is not undone.
Fail(r) ==
  LET name == Stages(route[r])[stage[r]] IN
  /\ waiting[r] # "none"
  /\ answer' = [answer EXCEPT ![r] = "none"]
  /\ IF FallsBack(waiting[r])
     THEN /\ waiting' = [waiting EXCEPT ![r] = "direct"]
          /\ flight' = [flight EXCEPT ![r] = @ \union {<<name, "direct">>}]
          /\ UNCHANGED <<stage, told>>
     ELSE /\ waiting' = [waiting EXCEPT ![r] = "none"]
          /\ Tell(r, NoAnswer)
          /\ UNCHANGED flight
  /\ UNCHANGED <<world, clicks, ran, approved, proved, stopped>>

-----------------------------------------------------------------------------
\* (the mutant) any failure of Identity is taken for a dead session
AnyFailure(outcome) == TRUE
Swallowed(outcome) == outcome \in {"done", "unauthenticated"}

\* logout: without a cookie there is nothing to revoke; otherwise Identity's
\* 401 is swallowed, other failures are thrown, and the cookies are cleared in
\* every case.  A lost answer leaves the session revoked.
Logout ==
  /\ logouts < MaxLogouts
  /\ logouts' = logouts + 1
  /\ cookies' = FALSE
  /\ \E outcome \in IF ~cookies THEN {"done"}
                    ELSE IF session THEN {"done", "lost", "down"}
                    ELSE {"unauthenticated", "down"} :
       /\ session' = (session /\ (~cookies \/ outcome = "down"))
       /\ revoked' = (revoked \/ Swallowed(outcome))
       /\ failed' = (failed \/ ~Swallowed(outcome))
  /\ UNCHANGED <<fixed, control, calls, stage, told, proved, stopped>>

\* Sessions expire and operators apply and release controls at any time.
Expire == /\ session
          /\ session' = FALSE
          /\ UNCHANGED <<fixed, control, cookies, calls, clicks, stage, told, proved, stopped>>
Apply == /\ ~control
         /\ control' = TRUE
         /\ UNCHANGED <<fixed, session, cookies, calls, clicks, stage, told, proved, stopped>>
Release ==
  /\ control
  /\ control' = FALSE
  /\ stopped' = IF session THEN {} ELSE {r \in stopped : route[r] # "transfer"}
  /\ UNCHANGED <<fixed, session, cookies, calls, clicks, stage, told, proved>>

Next == \/ Logout \/ Expire \/ Apply \/ Release
        \/ \E r \in Requests :
             \/ Arrive(r) \/ Resolve(r) \/ Check(r) \/ StepUp(r) \/ Evaluate(r)
             \/ \E name \in Service : Call(r, name)
             \/ \E m \in flight[r] : Dispatch(r, m) \/ Lose(r, m)
             \/ Return(r) \/ Fail(r)

Spec == Init /\ [][Next]_vars

-----------------------------------------------------------------------------
\* A call reaches its service twice only by the compatible mode's fallback
\* after the SABCL call had arrived and its answer was lost; strict mode and
\* the direct path never repeat a call.
TwiceNeedsFallback ==
  \A r \in Requests : /\ ran[r] <= 2
                      /\ ran[r] = 2 => mode = "compatible"

\* What the browser is told was done was done: an answer of success means the
\* service ran the submission, whichever transport answered.
ToldOkRan == \A r \in Requests : told[r] = "ok" => ran[r] > 0

\* A transfer against which a control stood, or any request whose session was
\* dead, from its arrival on never reaches the service, also through outages.
StoppedNeverRuns == \A r \in stopped : ran[r] = 0

\* No confirmation reaches Payments unless Identity verified the PIN of that
\* very request while the session stood.
MoneyNeedsStepUp ==
  \A r \in Requests : ran[r] > 0 /\ route[r] \in {"transfer", "channel"} => r \in proved

\* A session lives on after a logout was told "revoked" only when an earlier
\* logout of the same browser had failed and cleared its cookies.
RevokedUnlessFailed == revoked /\ session => failed

\* A request runs as often as its mode allows, as its answer says, not while
\* it is barred, and not without its PIN; a logout that was told revoked (the
\* controllers, clients and the logout handler).
RequestsGuarded ==
  /\ TwiceNeedsFallback
  /\ ToldOkRan
  /\ StoppedNeverRuns
  /\ MoneyNeedsStepUp
  /\ RevokedUnlessFailed
=============================================================================
