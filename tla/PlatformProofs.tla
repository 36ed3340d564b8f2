--------------------------- MODULE PlatformProofs ---------------------------
(***************************************************************************)
(* Proofs about what the financial services stand on, each part for every  *)
(* value of its constants.                                                 *)
(*                                                                         *)
(* A component's section shows that its inductive invariant, written with  *)
(* the component, holds initially, is kept by every step and gives its     *)
(* properties.  The last section carries that to Platform: while a         *)
(* behaviour is about a part, a step of the platform is a step of the part *)
(* or leaves its variables as they are.                                    *)
(*                                                                         *)
(* In the gateway a submission is counted where it can be: what has run    *)
(* and what is still in flight together never exceed what the transport in *)
(* use may have sent (Budget).  What a request has passed shows in its     *)
(* stage, and an answer on its way is the answer to the stage's own call.  *)
(***************************************************************************)
EXTENDS Platform, Sums

-----------------------------------------------------------------------------
(* The gateway's proxy pipeline *)

Transports == {"sabcl", "direct"}
Last(r) == Len(Stages(route[r]))
Name(r) == Stages(route[r])[stage[r]]

Typed ==
  /\ mode \in {"off", "compatible", "strict"}
  /\ route \in [Requests -> Routes]
  /\ session \in BOOLEAN /\ control \in BOOLEAN /\ cookies \in BOOLEAN
  /\ stage \in [Requests -> Nat]
  /\ waiting \in [Requests -> Transports \union {"none"}]
  /\ flight \in [Requests -> SUBSET (Service \X Transports)]
  /\ answer \in [Requests -> {"none", "ok", "refused"}]
  /\ told \in [Requests -> {"none", "ok", "refused", "unavailable"}]
  /\ ran \in [Requests -> Nat]
  /\ proved \subseteq Requests /\ stopped \subseteq Requests
  /\ failed \in BOOLEAN /\ revoked \in BOOLEAN

\* A request is at one of its stages, and waits only for a service's call.
OnTheWay(r) ==
  /\ stage[r] <= Last(r)
  /\ waiting[r] # "none" =>
        stage[r] > 0 /\ told[r] = "none" /\ Name(r) \in Service
  /\ told[r] # "none" => stage[r] > 0
  /\ mode = "off" => waiting[r] # "sabcl"

InFlight(r, t) == IF <<"submit", t>> \in flight[r] THEN 1 ELSE 0

\* The submissions a request can have sent so far.
Sent(r) ==
  IF stage[r] < Last(r) \/ (waiting[r] = "none" /\ told[r] = "none") THEN 0
  ELSE IF mode = "compatible" /\ waiting[r] # "sabcl" THEN 2 ELSE 1

Budget(r) == ran[r] + InFlight(r, "sabcl") + InFlight(r, "direct") <= Sent(r)

\* An answer on its way belongs to the call of the present stage, and the
\* answer given is the one that came.
AnswerTrue(r) ==
  /\ waiting[r] = "none" => answer[r] = "none"
  /\ answer[r] = "ok" /\ stage[r] = Last(r) => ran[r] > 0
  /\ told[r] = "ok" => ran[r] > 0

\* A confirmation past its step-up has had its PIN verified.
Passed(r) ==
  /\ route[r] = "transfer" /\ stage[r] > 3 => r \in proved
  /\ route[r] = "channel" /\ stage[r] > 2 => r \in proved

\* A stopped request is still barred, and has not come further than the
\* stage that bars it.
HeldBack(r) ==
  r \in stopped =>
     /\ Barred(r)
     /\ stage[r] = 1 \/ (stage[r] = 2 /\ control /\ route[r] = "transfer")
     /\ waiting[r] = "none"

Fine(r) ==
  /\ OnTheWay(r)
  /\ Budget(r)
  /\ AnswerTrue(r)
  /\ Passed(r)
  /\ HeldBack(r)

\* Cookies are gone only with the session, or after a logout that failed.
CookiesCleared == ~cookies /\ session => failed

IInv ==
  /\ Typed
  /\ \A r \in Requests : Fine(r)
  /\ CookiesCleared
  /\ RevokedUnlessFailed

-----------------------------------------------------------------------------
\* The stages of every route: the submission is the last and nowhere else,
\* and each other name stands where its route has it.
LEMMA StageNames ==
    ASSUME NEW k \in Routes
    PROVE  /\ Len(Stages(k)) \in Nat /\ Len(Stages(k)) > 0
           /\ Stages(k)[Len(Stages(k))] = "submit"
           /\ \A i \in 1 .. Len(Stages(k)) :
                 /\ Stages(k)[i] = "submit" => i = Len(Stages(k))
                 /\ Stages(k)[i] = "resolve" => i = 1 /\ k # "webhook"
                 /\ Stages(k)[i] = "check" => i = 2 /\ k = "transfer"
                 /\ Stages(k)[i] = "evaluate" => i = 4 /\ k = "transfer"
                 /\ Stages(k)[i] = "authorize" => i = 5 /\ k = "transfer"
                 /\ Stages(k)[i] = "stepUp" =>
                       \/ k = "transfer" /\ i = 3
                       \/ k = "channel" /\ i = 2
           /\ k # "webhook" => Stages(k)[1] = "resolve" /\ Len(Stages(k)) > 1
           /\ k = "transfer" => Stages(k)[2] = "check" /\ Len(Stages(k)) = 6
           /\ k = "channel" => Len(Stages(k)) = 3
  <1>1. CASE k = "transfer"
    <2>1. Stages(k) = TransferStages
      BY <1>1 DEF Stages
    <2>2. /\ Len(TransferStages) = 6
          /\ TransferStages[1] = "resolve" /\ TransferStages[2] = "check"
          /\ TransferStages[3] = "stepUp" /\ TransferStages[4] = "evaluate"
          /\ TransferStages[5] = "authorize" /\ TransferStages[6] = "submit"
      BY DEF TransferStages
    <2>3. ASSUME NEW i \in 1 .. 6
          PROVE  /\ TransferStages[i] = "submit" => i = 6
                 /\ TransferStages[i] = "resolve" => i = 1
                 /\ TransferStages[i] = "check" => i = 2
                 /\ TransferStages[i] = "evaluate" => i = 4
                 /\ TransferStages[i] = "authorize" => i = 5
                 /\ TransferStages[i] = "stepUp" => i = 3
      BY <2>2
    <2>4. QED
      BY <1>1, <2>1, <2>2, <2>3
  <1>2. CASE k = "channel"
    BY <1>2 DEF Stages, ChannelStages
  <1>3. CASE k = "issue"
    BY <1>3 DEF Stages, IssueStages
  <1>4. CASE k = "write"
    BY <1>4 DEF Stages, WriteStages
  <1>5. CASE k = "webhook"
    BY <1>5 DEF Stages, WebhookStages
  <1>6. QED
    BY <1>1, <1>2, <1>3, <1>4, <1>5 DEF Routes

\* The same about a request, wherever it is.
LEMMA Where ==
    ASSUME Typed, NEW r \in Requests
    PROVE  /\ Last(r) \in Nat /\ Last(r) > 0 /\ stage[r] \in Nat
           /\ route[r] # "webhook" => Last(r) > 1
           /\ route[r] = "transfer" => Last(r) = 6
           /\ route[r] = "channel" => Last(r) = 3
           /\ stage[r] = Last(r) => Name(r) = "submit"
           /\ stage[r] > 0 /\ stage[r] <= Last(r) =>
                 /\ Name(r) = "submit" => stage[r] = Last(r)
                 /\ Name(r) = "resolve" => stage[r] = 1 /\ route[r] # "webhook"
                 /\ Name(r) = "check" => stage[r] = 2 /\ route[r] = "transfer"
                 /\ Name(r) = "evaluate" => stage[r] = 4 /\ route[r] = "transfer"
                 /\ Name(r) = "authorize" => stage[r] = 5 /\ route[r] = "transfer"
                 /\ Name(r) = "stepUp" =>
                       \/ route[r] = "transfer" /\ stage[r] = 3
                       \/ route[r] = "channel" /\ stage[r] = 2
           /\ stage[r] = 1 /\ route[r] # "webhook" => Name(r) = "resolve"
           /\ stage[r] = 2 /\ route[r] = "transfer" => Name(r) = "check"
  <1>1. route[r] \in Routes /\ stage[r] \in Nat
    BY DEF Typed
  <1>2. stage[r] > 0 /\ stage[r] <= Last(r) => stage[r] \in 1 .. Last(r)
    BY <1>1, StageNames DEF Last
  <1>3. QED
    BY <1>1, <1>2, StageNames DEF Last, Name

LEMMA InitInv == Init => IInv
  <1> SUFFICES ASSUME Init PROVE IInv
    OBVIOUS
  <1> USE DEF Init
  <1>1. Typed
    BY DEF Typed
  <1>2. ASSUME NEW r \in Requests PROVE Fine(r)
    <2>1. OnTheWay(r)
      BY <1>1, Where DEF OnTheWay
    <2>2. Budget(r)
      <3>1. Sent(r) = 0 /\ InFlight(r, "sabcl") = 0 /\ InFlight(r, "direct") = 0
        BY DEF Sent, InFlight
      <3>2. QED
        BY <3>1 DEF Budget
    <2>3. AnswerTrue(r) /\ Passed(r) /\ HeldBack(r)
      BY DEF AnswerTrue, Passed, HeldBack
    <2>4. QED
      BY <2>1, <2>2, <2>3 DEF Fine
  <1>3. CookiesCleared /\ RevokedUnlessFailed
    BY DEF CookiesCleared, RevokedUnlessFailed
  <1>4. QED
    BY <1>1, <1>2, <1>3 DEF IInv

-----------------------------------------------------------------------------
requestVars == <<mode, route, stage, waiting, flight, answer, told, ran,
                 proved>>

\* A step of the world that leaves every request where it is: what barred
\* the stopped ones still bars those that stay stopped.
LEMMA WorldInv ==
    ASSUME IInv, Logout \/ Expire \/ Apply \/ Release
    PROVE  IInv'
  <1> USE DEF IInv
  <1>1. UNCHANGED requestVars
    BY DEF Logout, Expire, Apply, Release, requestVars, fixed, calls, clicks
  <1>2. /\ session' \in BOOLEAN /\ control' \in BOOLEAN /\ cookies' \in BOOLEAN
        /\ failed' \in BOOLEAN /\ revoked' \in BOOLEAN
        /\ stopped' \subseteq stopped
    BY DEF Logout, Expire, Apply, Release, Typed, clicks
  <1>3. CookiesCleared' /\ RevokedUnlessFailed'
    <2>1. CASE Logout
      <3>1. PICK outcome \in IF ~cookies THEN {"done"}
                             ELSE IF session THEN {"done", "lost", "down"}
                             ELSE {"unauthenticated", "down"} :
                /\ session' = (session /\ (~cookies \/ outcome = "down"))
                /\ revoked' = (revoked \/ Swallowed(outcome))
                /\ failed' = (failed \/ ~Swallowed(outcome))
        BY <2>1 DEF Logout
      <3>2. QED
        BY <2>1, <3>1 DEF Logout, Swallowed, CookiesCleared,
                          RevokedUnlessFailed
    <2>2. CASE Expire \/ Apply \/ Release
      BY <2>2 DEF Expire, Apply, Release, clicks, CookiesCleared,
                  RevokedUnlessFailed
    <2>3. QED
      BY <2>1, <2>2
  <1>4. ASSUME NEW r \in Requests PROVE HeldBack(r)'
    <2>0. HeldBack(r)
      BY DEF Fine
    <2>1. CASE Logout \/ Expire \/ Apply
      <3>1. (session' => session) /\ (control => control') /\ stopped' = stopped
        BY <2>1 DEF Logout, Expire, Apply, Typed
      <3>2. QED
        BY <1>1, <2>0, <3>1 DEF HeldBack, Barred, requestVars
    <2>2. CASE Release
      <3>1. /\ session' = session
            /\ r \in stopped' => ~session /\ r \in stopped /\ route[r] # "transfer"
        BY <2>2 DEF Release
      <3>2. QED
        BY <1>1, <2>0, <3>1 DEF HeldBack, Barred, requestVars
    <2>3. QED
      BY <2>1, <2>2
  <1>5. Typed'
    BY <1>1, <1>2 DEF Typed, requestVars
  <1>6. ASSUME NEW r \in Requests PROVE Fine(r)'
    <2>1. OnTheWay(r)' /\ AnswerTrue(r)' /\ Passed(r)'
      BY <1>1 DEF Fine, OnTheWay, AnswerTrue, Passed, requestVars, Last, Name
    <2>2. Budget(r)'
      BY <1>1 DEF Fine, Budget, Sent, InFlight, Last, requestVars
    <2>3. QED
      BY <1>4, <2>1, <2>2 DEF Fine
  <1>7. QED
    BY <1>3, <1>5, <1>6

-----------------------------------------------------------------------------
\* A step of one request: the world and every other request stay as they are.
OnlyMoves(r) ==
  /\ UNCHANGED <<mode, route, session, control, cookies, failed, revoked>>
  /\ \A q \in Requests \ {r} :
        /\ stage'[q] = stage[q] /\ waiting'[q] = waiting[q]
        /\ flight'[q] = flight[q] /\ answer'[q] = answer[q]
        /\ told'[q] = told[q] /\ ran'[q] = ran[q]
        /\ (q \in proved' <=> q \in proved)
        /\ (q \in stopped' <=> q \in stopped)

\* Such a step keeps the invariant when it keeps the types and the request's
\* own part.
LEMMA OwnStep ==
    ASSUME IInv, NEW r \in Requests, OnlyMoves(r), Typed', Fine(r)'
    PROVE  IInv'
  <1>1. CookiesCleared' /\ RevokedUnlessFailed'
    BY DEF IInv, CookiesCleared, RevokedUnlessFailed, OnlyMoves
  <1>2. ASSUME NEW q \in Requests, q # r PROVE Fine(q)'
    <2>1. Fine(q)
      BY DEF IInv
    <2>2. Last(q)' = Last(q) /\ Name(q)' = Name(q)
      BY <1>2 DEF Last, Name, OnlyMoves
    <2>3. Sent(q)' = Sent(q)
      BY <1>2, <2>2 DEF Sent, OnlyMoves
    <2>4. InFlight(q, "sabcl")' = InFlight(q, "sabcl")
          /\ InFlight(q, "direct")' = InFlight(q, "direct")
      BY <1>2 DEF InFlight, OnlyMoves
    <2>5. Budget(q)'
      BY <1>2, <2>1, <2>3, <2>4 DEF Fine, Budget, OnlyMoves
    <2>6. OnTheWay(q)' /\ AnswerTrue(q)'
      BY <1>2, <2>1, <2>2 DEF Fine, OnTheWay, AnswerTrue, OnlyMoves
    <2>7. Passed(q)' /\ HeldBack(q)'
      BY <1>2, <2>1 DEF Fine, Passed, HeldBack, Barred, OnlyMoves
    <2>8. QED
      BY <2>5, <2>6, <2>7 DEF Fine
  <1>3. QED
    BY <1>1, <1>2 DEF IInv

\* A stage that calls no service is walked through, or ends the request with
\* something other than success.
LEMMA Walk ==
    ASSUME IInv, NEW r \in Requests, NEW name, name \notin Service,
           At(r, name),
           Pass(r) \/ Tell(r, "refused") \/ Tell(r, "unavailable"),
           UNCHANGED <<world, calls, clicks, stopped>>,
           proved \subseteq proved', proved' \subseteq proved \union {r},
           Passed(r)', HeldBack(r)'
    PROVE  IInv'
  <1> USE DEF IInv
  <1>1. Typed'
    BY DEF Typed, Pass, Tell, world, fixed, calls, clicks
  <1>2. OnlyMoves(r)
    BY DEF Typed, Pass, Tell, world, fixed, calls, clicks, OnlyMoves
  <1>3. /\ stage[r] \in Nat /\ stage[r] > 0 /\ stage[r] < Last(r)
        /\ waiting[r] = "none" /\ told[r] = "none" /\ Last(r)' = Last(r)
        /\ Last(r) \in Nat
    BY Where DEF Fine, OnTheWay, At, Name, Service, world, fixed, Last
  <1>4. /\ waiting'[r] = "none" /\ ran'[r] = ran[r] /\ flight'[r] = flight[r]
        /\ answer'[r] = answer[r] /\ answer[r] = "none"
        /\ told'[r] \in {"none", "refused", "unavailable"}
        /\ \/ stage'[r] = stage[r]
           \/ stage'[r] = stage[r] + 1 /\ told'[r] = "none"
    BY <1>3 DEF calls, Typed, Pass, Tell, Fine, AnswerTrue
  <1>5. OnTheWay(r)'
    BY <1>3, <1>4 DEF OnTheWay
  <1>6. Budget(r)'
    <2>1. Sent(r) = 0 /\ Sent(r)' = 0
      BY <1>3, <1>4 DEF Sent
    <2>2. /\ InFlight(r, "sabcl")' = InFlight(r, "sabcl")
          /\ InFlight(r, "direct")' = InFlight(r, "direct")
      BY <1>4 DEF InFlight
    <2>3. QED
      BY <1>4, <2>1, <2>2 DEF Fine, Budget
  <1>7. AnswerTrue(r)'
    BY <1>4 DEF AnswerTrue
  <1>8. Fine(r)'
    BY <1>5, <1>6, <1>7 DEF Fine
  <1>9. QED
    BY <1>1, <1>2, <1>8, OwnStep

\* Arrival is the only step that may stop a request, at its first stage.
LEMMA ArriveInv ==
    ASSUME IInv, NEW r \in Requests, Arrive(r)
    PROVE  IInv'
  <1> USE DEF IInv, Arrive
  <1>1. Typed'
    BY DEF Typed, world, fixed, calls, clicks
  <1>2. OnlyMoves(r)
    BY DEF Typed, world, fixed, calls, clicks, OnlyMoves
  <1>3. /\ stage[r] = 0 /\ stage'[r] = 1 /\ Last(r)' = Last(r) /\ Last(r) \in Nat
        /\ Last(r) > 0
    BY Where DEF Typed, world, fixed, Last
  <1>4. /\ waiting[r] = "none" /\ told[r] = "none" /\ waiting'[r] = "none"
        /\ told'[r] = "none" /\ ran'[r] = ran[r] /\ flight'[r] = flight[r]
        /\ answer'[r] = "none"
    BY <1>3 DEF Fine, OnTheWay, AnswerTrue, calls
  <1>5. OnTheWay(r)' /\ AnswerTrue(r)'
    BY <1>3, <1>4 DEF OnTheWay, AnswerTrue
  <1>6. Budget(r)'
    <2>1. Sent(r) = 0 /\ Sent(r)' = 0
      BY <1>3, <1>4 DEF Sent
    <2>2. /\ InFlight(r, "sabcl")' = InFlight(r, "sabcl")
          /\ InFlight(r, "direct")' = InFlight(r, "direct")
      BY <1>4 DEF InFlight
    <2>3. QED
      BY <1>4, <2>1, <2>2 DEF Fine, Budget
  <1>7. Passed(r)'
    BY <1>3 DEF Passed
  <1>8. HeldBack(r)'
    <2>1. r \in stopped' => Barred(r)
      BY <1>3 DEF Fine, HeldBack
    <2>2. QED
      BY <1>3, <1>4, <2>1 DEF HeldBack, Barred, world, fixed
  <1>9. QED
    BY <1>1, <1>2, <1>5, <1>6, <1>7, <1>8, OwnStep DEF Fine

LEMMA ResolveInv ==
    ASSUME IInv, NEW r \in Requests, Resolve(r)
    PROVE  IInv'
  <1> USE DEF IInv, Resolve
  <1>1. /\ stage[r] = 1 /\ stage[r] \in Nat /\ Fine(r)
        /\ \/ stage'[r] = 1
           \/ stage'[r] = 2 /\ session
    BY Where DEF Fine, OnTheWay, At, Name, Typed, Pass, Tell
  <1>2. Passed(r)'
    BY <1>1 DEF Passed
  <1>3. HeldBack(r)'
    BY <1>1 DEF Fine, HeldBack, Barred, world, fixed, calls
  <1>4. QED
    BY <1>2, <1>3, Walk DEF Service

LEMMA RiskStageInv ==
    ASSUME IInv, NEW r \in Requests, NEW name \in {"check", "evaluate"},
           RiskStage(r, name)
    PROVE  IInv'
  <1> USE DEF IInv, RiskStage, RiskFails
  <1>1. /\ stage[r] \in Nat /\ Fine(r) /\ route[r] = "transfer"
        /\ stage[r] = 2 \/ stage[r] = 4
        /\ \/ stage'[r] = stage[r]
           \/ stage'[r] = stage[r] + 1 /\ ~control
    BY Where DEF Fine, OnTheWay, At, Name, Typed, Pass, Tell
  <1>2. Passed(r)'
    BY <1>1 DEF Fine, Passed, world, fixed
  <1>3. HeldBack(r)'
    BY <1>1 DEF Fine, HeldBack, Barred, world, fixed, calls
  <1>4. QED
    BY <1>2, <1>3, Walk DEF Service

LEMMA StepUpInv ==
    ASSUME IInv, NEW r \in Requests, StepUp(r)
    PROVE  IInv'
  <1> USE DEF IInv, StepUp, StepUpPasses
  <1>1. /\ stage[r] \in Nat /\ Fine(r)
        /\ \/ route[r] = "transfer" /\ stage[r] = 3
           \/ route[r] = "channel" /\ stage[r] = 2
    BY Where DEF Fine, OnTheWay, At, Name
  <1>2. /\ proved \subseteq proved' /\ proved' \subseteq proved \union {r}
        /\ stage'[r] = stage[r] \/ r \in proved'
        /\ route'[r] = route[r]
    BY DEF Pass, Tell, world, fixed
  <1>3. Passed(r)'
    BY <1>1, <1>2 DEF Fine, Passed
  <1>4. HeldBack(r)'
    BY <1>1 DEF Fine, HeldBack
  <1>5. QED
    BY <1>2, <1>3, <1>4, Walk DEF Service

\* A stopped request waits at a stage that calls no service.
LEMMA StoppedCallsNoOne ==
    ASSUME IInv, NEW r \in Requests, stage[r] > 0, Name(r) \in Service
    PROVE  r \notin stopped
  <1>1. Fine(r) /\ Typed
    BY DEF IInv
  <1>2. QED
    BY <1>1, Where DEF Fine, HeldBack, Barred, Service

\* The call of the submission is the first one sent.
LEMMA CallInv ==
    ASSUME IInv, NEW r \in Requests, NEW name \in Service, Call(r, name)
    PROVE  IInv'
  <1> DEFINE t == IF mode = "off" THEN "direct" ELSE "sabcl"
  <1> USE DEF IInv
  <1>1. /\ At(r, name)
        /\ waiting' = [waiting EXCEPT ![r] = t]
        /\ flight' = [flight EXCEPT ![r] = @ \union {<<name, t>>}]
        /\ UNCHANGED <<world, clicks, stage, told, answer, ran, approved, proved, stopped>>
    BY DEF Call
  <1>2. t \in Transports /\ (mode = "off" <=> t # "sabcl")
    BY DEF Transports
  <1> HIDE DEF t
  <1>3. Typed'
    <2>1. <<name, t>> \in Service \X Transports
      BY <1>2
    <2>2. QED
      BY <1>1, <1>2, <2>1 DEF Typed, world, fixed, clicks
  <1>4. OnlyMoves(r)
    BY <1>1 DEF Typed, world, fixed, clicks, OnlyMoves
  <1>5. /\ stage[r] \in Nat /\ stage[r] > 0 /\ stage[r] <= Last(r) /\ Last(r) \in Nat
        /\ waiting[r] = "none" /\ told[r] = "none" /\ answer[r] = "none"
        /\ Name(r) = name /\ Fine(r)
        /\ (name = "submit" <=> stage[r] = Last(r))
    BY <1>1, Where DEF Fine, OnTheWay, AnswerTrue, At, Name
  <1>6. /\ stage'[r] = stage[r] /\ Last(r)' = Last(r) /\ Name(r)' = Name(r)
        /\ waiting'[r] = t /\ told'[r] = "none" /\ answer'[r] = "none"
        /\ ran'[r] = ran[r] /\ flight'[r] = flight[r] \union {<<name, t>>}
        /\ mode' = mode /\ ran[r] \in Nat
    BY <1>1, <1>5 DEF Typed, world, fixed, Last, Name
  <1>7. OnTheWay(r)' /\ AnswerTrue(r)'
    BY <1>2, <1>5, <1>6 DEF OnTheWay, AnswerTrue, Transports
  <1>8. Budget(r)'
    <2>1. Sent(r) = 0
      BY <1>5 DEF Sent
    <2>2. ran[r] = 0 /\ InFlight(r, "sabcl") = 0 /\ InFlight(r, "direct") = 0
      <3>1. InFlight(r, "sabcl") \in {0, 1} /\ InFlight(r, "direct") \in {0, 1}
        BY DEF InFlight
      <3>2. QED
        BY <1>5, <1>6, <2>1, <3>1 DEF Fine, Budget
    <2>3. <<"submit", "sabcl">> \notin flight[r] /\ <<"submit", "direct">> \notin flight[r]
      BY <2>2 DEF InFlight
    <2>4. CASE name = "submit"
      <3>1. Sent(r)' = 1
        BY <1>2, <1>5, <1>6, <2>4 DEF Sent, Transports
      <3>2. \/ t = "sabcl" /\ InFlight(r, "sabcl")' = 1 /\ InFlight(r, "direct")' = 0
            \/ t = "direct" /\ InFlight(r, "sabcl")' = 0 /\ InFlight(r, "direct")' = 1
        BY <1>2, <1>6, <2>3, <2>4 DEF InFlight, Transports
      <3>3. QED
        BY <1>6, <2>2, <3>1, <3>2 DEF Budget
    <2>5. CASE name # "submit"
      <3>1. InFlight(r, "sabcl")' = 0 /\ InFlight(r, "direct")' = 0
        BY <1>6, <2>3, <2>5 DEF InFlight
      <3>2. Sent(r)' = 0
        BY <1>5, <1>6, <2>5 DEF Sent
      <3>3. QED
        BY <1>6, <2>2, <3>1, <3>2 DEF Budget
    <2>6. QED
      BY <2>4, <2>5
  <1>9. Passed(r)' /\ HeldBack(r)'
    BY <1>1, <1>5, StoppedCallsNoOne DEF Fine, Passed, HeldBack, world, fixed
  <1>10. QED
    BY <1>3, <1>4, <1>7, <1>8, <1>9, OwnStep DEF Fine

\* A call leaves the flight once: it runs there and then, is refused, or is
\* lost.
LEMMA FlightInv ==
    ASSUME IInv, NEW r \in Requests, NEW m \in flight[r],
           Dispatch(r, m) \/ Lose(r, m)
    PROVE  IInv'
  <1> USE DEF IInv
  <1>1. Typed
    OBVIOUS
  <1>2. m \in Service \X Transports
    BY DEF Typed
  <1>3. PICK n \in Service, t \in Transports : m = <<n, t>>
    BY <1>2
  <1>4. /\ flight' = [flight EXCEPT ![r] = @ \ {m}]
        /\ UNCHANGED <<world, clicks, stage, told, waiting, proved, stopped>>
        /\ \/ ran' = ran
           \/ ran' = [ran EXCEPT ![r] = @ + 1] /\ n = "submit"
        /\ \/ answer' = answer
           \/ /\ waiting[r] = t /\ Name(r) = n
              /\ answer' = [answer EXCEPT ![r] = "refused"]
           \/ /\ waiting[r] = t /\ Name(r) = n
              /\ answer' = [answer EXCEPT ![r] = "ok"]
              /\ n = "submit" => ran' = [ran EXCEPT ![r] = @ + 1]
    <2>1. CASE Dispatch(r, m)
      <3>1. PICK ok \in BOOLEAN :
               /\ ran' = IF ok /\ m[1] = "submit" THEN [ran EXCEPT ![r] = @ + 1] ELSE ran
               /\ answer' = IF waiting[r] = m[2] /\ Stages(route[r])[stage[r]] = m[1]
                            THEN [answer EXCEPT ![r] = IF ok THEN "ok" ELSE "refused"]
                            ELSE answer
        BY <2>1 DEF Dispatch
      <3>2. m[1] = n /\ m[2] = t
        BY <1>3
      <3>3. CASE ok
        BY <2>1, <3>1, <3>2, <3>3 DEF Dispatch, Name
      <3>4. CASE ~ok
        BY <2>1, <3>1, <3>2, <3>4 DEF Dispatch, Name
      <3>5. QED
        BY <3>3, <3>4
    <2>2. CASE Lose(r, m)
      BY <2>2 DEF Lose
    <2>3. QED
      BY <2>1, <2>2
  <1>5. Typed'
    BY <1>4 DEF Typed, world, fixed, clicks
  <1>6. OnlyMoves(r)
    BY <1>1, <1>4 DEF Typed, world, fixed, clicks, OnlyMoves
  <1>7. /\ stage'[r] = stage[r] /\ Last(r)' = Last(r) /\ Name(r)' = Name(r)
        /\ waiting'[r] = waiting[r] /\ told'[r] = told[r] /\ mode' = mode
        /\ flight'[r] = flight[r] \ {<<n, t>>}
        /\ ran[r] \in Nat
        /\ ran'[r] = ran[r] \/ (ran'[r] = ran[r] + 1 /\ n = "submit")
        /\ Fine(r)
    BY <1>3, <1>4 DEF Typed, world, fixed, Last, Name
  <1>8. OnTheWay(r)'
    BY <1>7 DEF Fine, OnTheWay
  <1>9. AnswerTrue(r)'
    <2>1. /\ waiting[r] = "none" => answer'[r] = answer[r]
          /\ answer'[r] = "ok" => \/ answer[r] = "ok"
                                  \/ Name(r) = n /\ (n = "submit" => ran'[r] = ran[r] + 1)
      BY <1>4 DEF Typed, Transports
    <2>2. QED
      BY <1>7, <2>1, <1>1, Where DEF Fine, AnswerTrue
  <1>10. Budget(r)'
    <2>1. Sent(r)' = Sent(r)
      BY <1>7 DEF Sent
    <2>2. CASE n = "submit"
      <3>1. \/ /\ t = "sabcl" /\ InFlight(r, "sabcl") = 1 /\ InFlight(r, "sabcl")' = 0
               /\ InFlight(r, "direct")' = InFlight(r, "direct")
            \/ /\ t = "direct" /\ InFlight(r, "direct") = 1 /\ InFlight(r, "direct")' = 0
               /\ InFlight(r, "sabcl")' = InFlight(r, "sabcl")
        BY <1>3, <1>7, <2>2 DEF InFlight, Transports
      <3>2. InFlight(r, "sabcl") \in {0, 1} /\ InFlight(r, "direct") \in {0, 1}
            /\ Sent(r) \in Nat
        BY DEF InFlight, Sent
      <3>3. QED
        BY <1>7, <2>1, <3>1, <3>2 DEF Fine, Budget
    <2>3. CASE n # "submit"
      <3>1. InFlight(r, "direct")' = InFlight(r, "direct")
            /\ InFlight(r, "sabcl")' = InFlight(r, "sabcl")
        BY <1>7, <2>3 DEF InFlight
      <3>2. QED
        BY <1>7, <2>1, <2>3, <3>1 DEF Fine, Budget
    <2>4. QED
      BY <2>2, <2>3
  <1>11. Passed(r)' /\ HeldBack(r)'
    BY <1>4, <1>7 DEF Fine, Passed, HeldBack, Barred, world, fixed
  <1>12. QED
    BY <1>5, <1>6, <1>8, <1>9, <1>10, <1>11, OwnStep DEF Fine

\* The answer read ends the request, as it came, or passes it on to the stage
\* behind the one that called.
LEMMA ReturnInv ==
    ASSUME IInv, NEW r \in Requests, Return(r)
    PROVE  IInv'
  <1> USE DEF IInv
  <1>1. /\ waiting[r] # "none" /\ answer[r] # "none"
        /\ waiting' = [waiting EXCEPT ![r] = "none"]
        /\ answer' = [answer EXCEPT ![r] = "none"]
        /\ \/ Tell(r, "refused")
           \/ answer[r] # "refused" /\ stage[r] = Last(r) /\ Tell(r, "ok")
           \/ stage[r] # Last(r) /\ Pass(r)
        /\ UNCHANGED <<world, clicks, flight, ran, approved, proved, stopped>>
    BY DEF Return, Last
  <1>2. Typed'
    BY <1>1 DEF Typed, Tell, Pass, world, fixed, clicks
  <1>3. OnlyMoves(r)
    BY <1>1 DEF Typed, Tell, Pass, world, fixed, clicks, OnlyMoves
  <1>4. /\ stage[r] \in Nat /\ stage[r] > 0 /\ stage[r] <= Last(r) /\ Last(r) \in Nat
        /\ told[r] = "none" /\ Name(r) \in Service /\ Fine(r)
        /\ answer[r] \in {"none", "ok", "refused"}
    BY <1>1, Where DEF Fine, OnTheWay, Typed
  <1>5. /\ Last(r)' = Last(r) /\ waiting'[r] = "none" /\ answer'[r] = "none"
        /\ ran'[r] = ran[r] /\ flight'[r] = flight[r] /\ mode' = mode
        /\ \/ stage'[r] = stage[r] /\ told'[r] = "refused"
           \/ /\ stage'[r] = stage[r] /\ told'[r] = "ok" /\ stage[r] = Last(r)
              /\ answer[r] = "ok"
           \/ stage'[r] = stage[r] + 1 /\ told'[r] = "none" /\ stage[r] < Last(r)
    BY <1>1, <1>4 DEF Typed, Tell, Pass, world, fixed, Last
  <1>6. OnTheWay(r)' /\ AnswerTrue(r)'
    BY <1>4, <1>5 DEF Fine, OnTheWay, AnswerTrue
  <1>7. Budget(r)'
    <2>1. Sent(r) \in Nat /\ Sent(r)' \in Nat /\ Sent(r) <= Sent(r)'
      BY <1>1, <1>4, <1>5 DEF Sent
    <2>2. /\ InFlight(r, "sabcl")' = InFlight(r, "sabcl")
          /\ InFlight(r, "direct")' = InFlight(r, "direct")
          /\ InFlight(r, "sabcl") \in Nat /\ InFlight(r, "direct") \in Nat
      BY <1>5 DEF InFlight
    <2>3. ran[r] \in Nat
      BY DEF Typed
    <2>4. QED
      BY <1>4, <1>5, <2>1, <2>2, <2>3 DEF Fine, Budget
  <1>8. Passed(r)'
    <2>1. /\ route'[r] = route[r] /\ proved' = proved
      BY <1>1 DEF world, fixed
    <2>2. stage[r] < Last(r) => stage[r] = 5 /\ route[r] = "transfer"
      BY <1>4, Where DEF Service
    <2>3. QED
      BY <1>4, <1>5, <2>1, <2>2 DEF Fine, Passed
  <1>9. HeldBack(r)'
    BY <1>1, <1>4, StoppedCallsNoOne DEF HeldBack
  <1>10. QED
    BY <1>2, <1>3, <1>6, <1>7, <1>8, <1>9, OwnStep DEF Fine

\* Only a call that went through SABCL in the compatible mode is sent again.
LEMMA FailInv ==
    ASSUME IInv, NEW r \in Requests, Fail(r)
    PROVE  IInv'
  <1> USE DEF IInv
  <1>1. /\ stage[r] \in Nat /\ stage[r] > 0 /\ stage[r] <= Last(r) /\ Last(r) \in Nat
        /\ told[r] = "none" /\ waiting[r] # "none" /\ Name(r) \in Service /\ Fine(r)
        /\ (Name(r) = "submit" <=> stage[r] = Last(r))
        /\ ran[r] \in Nat
    BY Where DEF Fail, Fine, OnTheWay, Typed
  <1>2. /\ answer' = [answer EXCEPT ![r] = "none"]
        /\ UNCHANGED <<world, clicks, ran, approved, proved, stopped, stage>>
    BY DEF Fail, Tell
  <1>3. Passed(r)' /\ HeldBack(r)'
    BY <1>1, <1>2, StoppedCallsNoOne DEF Fine, Passed, HeldBack, world, fixed
  <1>4. /\ stage'[r] = stage[r] /\ Last(r)' = Last(r) /\ Name(r)' = Name(r)
        /\ answer'[r] = "none" /\ ran'[r] = ran[r] /\ mode' = mode
    BY <1>2 DEF Typed, world, fixed, Last, Name
  <1>5. InFlight(r, "sabcl") \in {0, 1} /\ InFlight(r, "direct") \in {0, 1}
    BY DEF InFlight
  <1>6. CASE FallsBack(waiting[r])
    <2>1. /\ waiting' = [waiting EXCEPT ![r] = "direct"]
          /\ flight' = [flight EXCEPT ![r] = @ \union {<<Name(r), "direct">>}]
          /\ UNCHANGED told
      BY <1>6 DEF Fail, Name
    <2>2. waiting[r] = "sabcl" /\ mode = "compatible"
      BY <1>1, <1>6 DEF FallsBack, Fine, OnTheWay, Typed
    <2>3. Typed'
      <3>1. <<Name(r), "direct">> \in Service \X Transports
        BY <1>1 DEF Transports
      <3>2. QED
        BY <1>2, <2>1, <3>1 DEF Typed, world, fixed, clicks, Transports
    <2>4. OnlyMoves(r)
      BY <1>2, <2>1 DEF Typed, world, fixed, clicks, OnlyMoves
    <2>5. /\ waiting'[r] = "direct" /\ told'[r] = "none"
          /\ flight'[r] = flight[r] \union {<<Name(r), "direct">>}
      BY <1>1, <2>1 DEF Typed
    <2>6. OnTheWay(r)' /\ AnswerTrue(r)'
      BY <1>1, <1>4, <2>2, <2>5 DEF Fine, OnTheWay, AnswerTrue
    <2>7. Budget(r)'
      <3>1. InFlight(r, "sabcl")' = InFlight(r, "sabcl")
            /\ InFlight(r, "direct")' \in {0, 1}
        BY <2>5 DEF InFlight
      <3>2. CASE stage[r] = Last(r)
        <4>1. Sent(r) = 1 /\ Sent(r)' = 2
          BY <1>1, <1>4, <2>2, <2>5, <3>2 DEF Sent
        <4>2. QED
          BY <1>1, <1>4, <1>5, <3>1, <4>1 DEF Fine, Budget
      <3>3. CASE stage[r] < Last(r)
        <4>1. Sent(r) = 0 /\ Sent(r)' = 0
          BY <1>4, <3>3 DEF Sent
        <4>2. InFlight(r, "direct")' = InFlight(r, "direct")
          BY <1>1, <2>5, <3>3 DEF InFlight
        <4>3. QED
          BY <1>1, <1>4, <3>1, <4>1, <4>2 DEF Fine, Budget
      <3>4. QED
        BY <1>1, <3>2, <3>3
    <2>8. QED
      BY <1>3, <2>3, <2>4, <2>6, <2>7, OwnStep DEF Fine
  <1>7. CASE ~FallsBack(waiting[r])
    <2>1. /\ waiting' = [waiting EXCEPT ![r] = "none"]
          /\ told' = [told EXCEPT ![r] = "unavailable"]
          /\ UNCHANGED flight
      BY <1>7 DEF Fail, Tell, NoAnswer
    <2>2. Typed'
      BY <1>2, <2>1 DEF Typed, world, fixed, clicks
    <2>3. OnlyMoves(r)
      BY <1>2, <2>1 DEF Typed, world, fixed, clicks, OnlyMoves
    <2>4. /\ waiting'[r] = "none" /\ told'[r] = "unavailable"
          /\ flight'[r] = flight[r]
      BY <2>1 DEF Typed
    <2>5. OnTheWay(r)' /\ AnswerTrue(r)'
      BY <1>1, <1>4, <2>4 DEF Fine, OnTheWay, AnswerTrue
    <2>6. Budget(r)'
      <3>1. Sent(r) \in Nat /\ Sent(r)' \in Nat /\ Sent(r) <= Sent(r)'
        BY <1>1, <1>4, <2>4 DEF Sent
      <3>2. /\ InFlight(r, "sabcl")' = InFlight(r, "sabcl")
            /\ InFlight(r, "direct")' = InFlight(r, "direct")
        BY <2>4 DEF InFlight
      <3>3. QED
        BY <1>1, <1>4, <1>5, <3>1, <3>2 DEF Fine, Budget
    <2>7. QED
      BY <1>3, <2>2, <2>3, <2>5, <2>6, OwnStep DEF Fine
  <1>8. QED
    BY <1>6, <1>7

LEMMA StutterInv == IInv /\ UNCHANGED vars => IInv'
  <1> SUFFICES ASSUME IInv, UNCHANGED vars PROVE IInv'
    OBVIOUS
  <1> USE DEF IInv, vars
  <1>1. Typed' /\ CookiesCleared' /\ RevokedUnlessFailed'
    BY DEF Typed, CookiesCleared, RevokedUnlessFailed
  <1>2. ASSUME NEW r \in Requests PROVE Fine(r)'
    BY DEF Fine, OnTheWay, Budget, AnswerTrue, Passed, HeldBack, Barred, Sent,
           InFlight, Last, Name
  <1>3. QED
    BY <1>1, <1>2

-----------------------------------------------------------------------------
\* Every step of the gateway, its browser, Identity and Risk keeps the
\* inductive invariant (the controllers and clients of the API gateway).
THEOREM GatewayInv == Spec => []IInv
  <1>1. IInv /\ [Next]_vars => IInv'
    <2> SUFFICES ASSUME IInv, [Next]_vars PROVE IInv'
      OBVIOUS
    <2>1. CASE Logout \/ Expire \/ Apply \/ Release
      BY <2>1, WorldInv
    <2>2. ASSUME NEW r \in Requests,
                 \/ Arrive(r) \/ Resolve(r) \/ Check(r) \/ StepUp(r) \/ Evaluate(r)
                 \/ \E name \in Service : Call(r, name)
                 \/ \E m \in flight[r] : Dispatch(r, m) \/ Lose(r, m)
                 \/ Return(r) \/ Fail(r)
          PROVE  IInv'
      <3>1. CASE Arrive(r) \/ Resolve(r) \/ StepUp(r)
        BY <3>1, ArriveInv, ResolveInv, StepUpInv
      <3>2. CASE Check(r) \/ Evaluate(r)
        BY <3>2, RiskStageInv DEF Check, Evaluate
      <3>3. CASE \E name \in Service : Call(r, name)
        BY <3>3, CallInv
      <3>4. CASE \E m \in flight[r] : Dispatch(r, m) \/ Lose(r, m)
        BY <3>4, FlightInv
      <3>5. CASE Return(r) \/ Fail(r)
        BY <3>5, ReturnInv, FailInv
      <3>6. QED
        BY <2>2, <3>1, <3>2, <3>3, <3>4, <3>5
    <2>3. CASE UNCHANGED vars
      BY <2>3, StutterInv
    <2>4. QED
      BY <2>1, <2>2, <2>3 DEF Next
  <1>2. QED
    BY <1>1, InitInv, PTL DEF Spec

\* However many requests are under way, whatever is lost, late or answered
\* after the gateway gave up: a submission runs twice only by the compatible
\* mode's fallback and never more often, success is told only of what ran, a
\* request barred since its arrival never runs, no confirmation runs without
\* the PIN of that request, and a session survives a logout told "revoked"
\* only after an earlier logout failed (the proxy controllers, their clients
\* and the logout handler).
THEOREM GatewayRequestsGuarded == Spec => []RequestsGuarded
  <1>1. IInv => RequestsGuarded
    <2> SUFFICES ASSUME IInv PROVE RequestsGuarded
      OBVIOUS
    <2> USE DEF IInv
    <2>1. ASSUME NEW r \in Requests
          PROVE  /\ ran[r] <= Sent(r) /\ ran[r] \in Nat
                 /\ Sent(r) \in {0, 1, 2}
                 /\ Sent(r) = 2 => mode = "compatible"
                 /\ Sent(r) > 0 => ~(stage[r] < Last(r))
      <3>1. InFlight(r, "sabcl") \in {0, 1} /\ InFlight(r, "direct") \in {0, 1}
        BY DEF InFlight
      <3>2. Sent(r) \in {0, 1, 2} /\ (Sent(r) = 2 => mode = "compatible")
            /\ (Sent(r) > 0 => ~(stage[r] < Last(r)))
        BY DEF Sent
      <3>3. ran[r] \in Nat /\ Budget(r)
        BY DEF Typed, Fine
      <3>4. QED
        BY <3>1, <3>2, <3>3 DEF Budget
    <2>2. TwiceNeedsFallback
      BY <2>1 DEF TwiceNeedsFallback
    <2>3. ToldOkRan
      BY DEF Fine, AnswerTrue, ToldOkRan
    <2>4. StoppedNeverRuns
      <3> SUFFICES ASSUME NEW r \in stopped PROVE ran[r] = 0
        BY DEF StoppedNeverRuns
      <3>1. r \in Requests /\ Typed /\ Fine(r)
        BY DEF Typed
      <3>2. stage[r] < Last(r)
        BY <3>1, Where DEF Fine, HeldBack, Barred
      <3>3. QED
        BY <2>1, <3>1, <3>2
    <2>5. MoneyNeedsStepUp
      <3> SUFFICES ASSUME NEW r \in Requests, ran[r] > 0,
                          route[r] \in {"transfer", "channel"}
                   PROVE  r \in proved
        BY DEF MoneyNeedsStepUp
      <3>1. Typed /\ Fine(r)
        OBVIOUS
      <3>2. ~(stage[r] < Last(r))
        BY <2>1
      <3>3. QED
        BY <3>1, <3>2, Where DEF Fine, Passed
    <2>6. QED
      BY <2>2, <2>3, <2>4, <2>5 DEF RequestsGuarded
  <1>2. QED
    BY <1>1, GatewayInv, PTL

-----------------------------------------------------------------------------
(* RiskControls *)

LEMMA CurbsInit ==
    ASSUME Curbs!ConstantsOK, Curbs!Init
    PROVE  Curbs!IInv
  BY DEF Curbs!ConstantsOK, Curbs!Init, Curbs!IInv, Curbs!TypeOK, Curbs!Shaped,
         Curbs!RowsStay, Curbs!Weighed, Curbs!RevokeToldIsDone,
         Curbs!RestrictedIsRefused, Curbs!StepUpLifts, Curbs!EvaluatedOnce,
         Curbs!ResolutionIsCurrent, Curbs!Rows, Curbs!Verdicts, Curbs!Actions,
         Curbs!Progress, Curbs!NoRow, Curbs!NoIncident, Curbs!Blank, Curbs!IncidentStatuses

\* An insert leaves the other rows, and what was read of them, alone.
LEMMA CurbsNewRow ==
    ASSUME Curbs!ConstantsOK, Curbs!IInv, NEW c \in Curbs!Actions,
           row[c] = Curbs!NoRow, row' = [row EXCEPT ![c] = Curbs!NewRow],
           UNCHANGED <<now, live, sweep, release>>
    PROVE  Curbs!TypeOK' /\ Curbs!RowsStay' /\ row' \in [Curbs!Actions -> Curbs!Rows]
  <1> USE DEF Curbs!ConstantsOK, Curbs!IInv, Curbs!TypeOK, Curbs!Shaped,
              Curbs!RowsStay
  <1>1. /\ Curbs!NewRow \in Curbs!Rows /\ Curbs!NewRow.status = "ACTIVE"
        /\ Curbs!NewRow # Curbs!NoRow
    BY DEF Curbs!NewRow, Curbs!Rows, Curbs!NoRow
  <1>2. row' \in [Curbs!Actions -> Curbs!Rows]
    BY <1>1
  <1>3. Curbs!NoRow.status = "none"
    BY DEF Curbs!NoRow
  <1>4. Curbs!TypeOK'
    BY <1>1, <1>3
  <1>5. Curbs!RowsStay'
    BY <1>1, <1>3
  <1>6. QED
    BY <1>2, <1>4, <1>5

\* The decision is the one the rows call for.
LEMMA CurbsOwed ==
    ASSUME Curbs!ConstantsOK, NEW s \in Scores, NEW v \in BOOLEAN,
           NEW taken \in Curbs!Fetched
    PROVE  LET d == Curbs!Decision(s, Curbs!ExistingRiskState(taken, v), v)
               o == Curbs!Owed(s, v)
           IN  /\ d \in Curbs!Verdicts \ {"none"} /\ o \in {"any", "HOLD", "ALLOW"}
               /\ o # "any" => d = o
  <1> DEFINE known == Curbs!ExistingRiskState(taken, v)
             bound == \E c \in Curbs!StandingOnes : Curbs!Binds(c, v)
  <1>1. taken \subseteq Curbs!StandingOnes
    BY DEF Curbs!Fetched
  <1>2. Curbs!Cardinality(Curbs!StandingOnes) <= MaxTaken => taken = Curbs!StandingOnes
    BY DEF Curbs!Fetched
  <1>3. /\ known \in BOOLEAN /\ bound \in BOOLEAN
        /\ ~bound => (known <=> Curbs!Unresolved # {})
        /\ Curbs!Owed(s, v) = "HOLD" => known
    BY <1>1, <1>2 DEF Curbs!ExistingRiskState, Curbs!Owed
  <1>4. /\ Curbs!Owed(s, v) \in {"any", "HOLD", "ALLOW"}
        /\ Curbs!Owed(s, v) = "ALLOW" => ~known /\ v /\ s < 50
    BY <1>3 DEF Curbs!Owed
  <1>5. s \in Nat
    BY DEF Curbs!ConstantsOK
  <1> HIDE DEF known, bound
  <1>6. /\ Curbs!Decision(s, known, v) \in Curbs!Verdicts \ {"none"}
        /\ known => Curbs!Decision(s, known, v) = "HOLD"
        /\ ~known /\ v /\ s < 50 => Curbs!Decision(s, known, v) = "ALLOW"
    BY <1>3, <1>5 DEF Curbs!Decision, Curbs!Verdicts
  <1>7. QED
    BY <1>3, <1>4, <1>6 DEF known

LEMMA CurbsProgress ==
    ASSUME NEW x \in Curbs!Progress
    PROVE  /\ [x EXCEPT !.at = "new"] \in Curbs!Progress
           /\ [x EXCEPT !.at = "repeated"] \in Curbs!Progress
           /\ [x EXCEPT !.at = "stored", !.decision = "none"] \in Curbs!Progress
  BY DEF Curbs!Progress, Curbs!Verdicts

LEMMA CurbsNext ==
    ASSUME Curbs!ConstantsOK, Curbs!IInv, [Curbs!Next]_Curbs!vars
    PROVE  Curbs!IInv'
  <1> USE DEF Curbs!ConstantsOK, Curbs!IInv, Curbs!TypeOK, Curbs!Shaped,
              Curbs!RowsStay, Curbs!Weighed, Curbs!RevokeToldIsDone,
              Curbs!RestrictedIsRefused, Curbs!StepUpLifts, Curbs!EvaluatedOnce,
              Curbs!ResolutionIsCurrent, Curbs!Rows, Curbs!Verdicts, Curbs!Progress,
              Curbs!NoRow, Curbs!NoIncident, Curbs!Blank, Curbs!IncidentStatuses
  <1>1. CASE Curbs!Tick
    BY <1>1 DEF Curbs!Tick
  <1>2. CASE Curbs!ExpireRead
    BY <1>2 DEF Curbs!ExpireRead, Curbs!Due
  <1>3. ASSUME NEW c \in Curbs!Actions, Curbs!ExpireWrite(c)
        PROVE  Curbs!IInv'
    BY <1>3 DEF Curbs!ExpireWrite, Curbs!Write
  <1>4. ASSUME NEW r \in Applications, Curbs!ApplyRead(r)
        PROVE  Curbs!IInv'
    BY <1>4 DEF Curbs!ApplyRead, Curbs!ApplyNext, Curbs!NeedsRevoke
  <1>5. ASSUME NEW r \in Applications, Curbs!ApplyCreate(r)
        PROVE  Curbs!IInv'
    <2>1. CASE UNCHANGED row /\ apply' = [apply EXCEPT ![r] = "failed"]
      BY <1>5, <2>1 DEF Curbs!ApplyCreate
    <2>2. CASE /\ row[KeyOf[r]] = Curbs!NoRow
               /\ row' = [row EXCEPT ![KeyOf[r]] = Curbs!NewRow]
      <3>1. KeyOf[r] \in Curbs!Actions /\ KeyOf[r] \notin Evaluations
        BY DEF Curbs!Actions
      <3>2. Curbs!TypeOK' /\ Curbs!RowsStay' /\ row' \in [Curbs!Actions -> Curbs!Rows]
        BY <1>5, <2>2, <3>1, CurbsNewRow DEF Curbs!ApplyCreate
      <3>3. apply' \in [Applications -> {"idle", "creating", "revoking", "applied", "failed"}]
              /\ Curbs!RevokeToldIsDone'
        <4>1. /\ apply' = [apply EXCEPT ![r] =
                             IF KeyOf[r] \in Revokes THEN "revoking" ELSE "applied"]
              /\ UNCHANGED live
          <5> HIDE DEF Curbs!IInv, Curbs!ConstantsOK
          <5>1. QED
            BY <1>5, <2>2 DEF Curbs!ApplyCreate, Curbs!ApplyNext, Curbs!NeedsRevoke, Curbs!KeyFree
        <4>2. QED
          BY <4>1
      <3>4. Curbs!EvaluatedOnce'
        <4>1. \A e \in Evaluations : row'[e] = row[e]
          BY <2>2, <3>1 DEF Curbs!Actions
        <4>2. UNCHANGED <<eval, verdict, incident>>
          BY <1>5 DEF Curbs!ApplyCreate
        <4>3. QED
          BY <4>1, <4>2
      <3>5. QED
        BY <1>5, <3>2, <3>3, <3>4 DEF Curbs!ApplyCreate
    <2>3. QED
      BY <1>5, <2>1, <2>2 DEF Curbs!ApplyCreate, Curbs!KeyFree
  <1>6. ASSUME NEW r \in Applications, Curbs!ApplyRevoke(r)
        PROVE  Curbs!IInv'
    BY <1>6 DEF Curbs!ApplyRevoke
  <1>7. ASSUME NEW r \in Releases, NEW c \in Curbs!Actions, Curbs!ReleaseRead(r, c)
        PROVE  Curbs!IInv'
    BY <1>7 DEF Curbs!ReleaseRead
  <1>8. ASSUME NEW r \in Releases, Curbs!ReleaseWrite(r)
        PROVE  Curbs!IInv'
    <2> DEFINE c == release[r].c
    <2>1. /\ c \in Curbs!Actions /\ row[c].status # "none" /\ release[r].at = "read"
          /\ row' = [row EXCEPT ![c].status = "RELEASED"]
          /\ release' = [release EXCEPT ![r].at = "written"]
          /\ UNCHANGED <<now, live, apply, sweep, eval, verdict, incident>>
      BY <1>8 DEF Curbs!ReleaseWrite, Curbs!Write
    <2> HIDE DEF c
    <2>2. row' \in [Curbs!Actions -> Curbs!Rows]
      BY <2>1
    <2>3. \A d \in Curbs!Actions :
             /\ row'[d].ends = row[d].ends
             /\ row'[d].status = IF d = c THEN "RELEASED" ELSE row[d].status
             /\ row'[d].status = "none" <=> row[d].status = "none"
      BY <2>1
    <2>4. \A q \in Releases : release'[q].c = release[q].c
                             /\ (release'[q].at = "read" => release[q].at = "read")
      BY <2>1
    <2>5. Curbs!TypeOK'
      BY <2>1, <2>3
    <2>9. Curbs!Shaped'
      <3>1. release' \in [Releases -> [at : {"idle", "read", "written"}, c : Curbs!Actions]]
        <4>1. release \in [Releases -> [at : {"idle", "read", "written"}, c : Curbs!Actions]]
          OBVIOUS
        <4> HIDE DEF Curbs!IInv
        <4>2. QED
          BY <2>1, <4>1
      <3>2. QED
        BY <2>1, <2>2, <3>1
    <2>6. Curbs!RowsStay'
      <3>1. \A d \in Curbs!Actions : d # c => row'[d] = row[d]
        BY <2>1
      <3>2. QED
        BY <2>1, <2>3, <2>4, <3>1
    <2>7. Curbs!EvaluatedOnce'
      BY <2>1, <2>3 DEF Curbs!Actions
    <2>8. QED
      BY <2>1, <2>5, <2>6, <2>7, <2>9
  <1>9. ASSUME NEW k \in Calls, Curbs!EvaluateFind(k)
        PROVE  Curbs!IInv'
    <2>1. PICK a \in {"new", "repeated"} :
            /\ eval' = [eval EXCEPT ![k].at = a]
            /\ UNCHANGED <<now, row, live, apply, release, sweep, verdict, incident>>
      BY <1>9 DEF Curbs!EvaluateFind
    <2>2. Curbs!Shaped'
      <3>1. eval[k] \in Curbs!Progress /\ eval \in [Calls -> Curbs!Progress]
        OBVIOUS
      <3>2. [eval[k] EXCEPT !.at = a] \in Curbs!Progress
        BY <3>1, CurbsProgress
      <3>3. eval' \in [Calls -> Curbs!Progress]
        BY <2>1, <3>1, <3>2
      <3>4. QED
        BY <2>1, <3>3
    <2>3. (\A j \in Calls \ {k} : eval'[j] = eval[j]) /\ eval'[k].at = a
      BY <2>1
    <2>4. Curbs!Weighed' /\ Curbs!RestrictedIsRefused' /\ Curbs!StepUpLifts'
      BY <2>1, <2>3
    <2>5. Curbs!EvaluatedOnce'
      BY <2>1, <2>3
    <2>6. QED
      BY <2>1, <2>2, <2>4, <2>5
  <1>10. ASSUME NEW k \in Calls, Curbs!EvaluateRead(k)
         PROVE  Curbs!IInv'
    <2>1. PICK d \in Curbs!Verdicts \ {"none"}, o \in {"any", "HOLD", "ALLOW"} :
             /\ eval' = [eval EXCEPT ![k] = [at |-> "read", decision |-> d, owed |-> o]]
             /\ o # "any" => d = o
      <3> HIDE DEF Curbs!IInv, Curbs!ConstantsOK, Curbs!Verdicts
      <3>1. PICK s \in Scores, v \in BOOLEAN, taken \in Curbs!Fetched :
              eval' = [eval EXCEPT ![k] =
                [at |-> "read",
                 decision |-> Curbs!Decision(s, Curbs!ExistingRiskState(taken, v), v),
                 owed |-> Curbs!Owed(s, v)]]
        BY <1>10 DEF Curbs!EvaluateRead
      <3>2. QED
        BY <3>1, CurbsOwed
    <2>2. Curbs!Shaped' /\ Curbs!Weighed'
      BY <1>10, <2>1 DEF Curbs!EvaluateRead
    <2>3. Curbs!RestrictedIsRefused' /\ Curbs!StepUpLifts' /\ Curbs!EvaluatedOnce'
      BY <1>10, <2>1 DEF Curbs!EvaluateRead
    <2>4. QED
      BY <1>10, <2>2, <2>3 DEF Curbs!EvaluateRead
  <1>11. ASSUME NEW k \in Calls, Curbs!EvaluateStore(k)
         PROVE  Curbs!IInv'
    <2> DEFINE e == EvaluationOf[k]
               d == eval[k].decision
    <2>1. e \in Evaluations /\ e \in Curbs!Actions /\ d \in Curbs!Verdicts \ {"none"}
      BY <1>11 DEF Curbs!EvaluateStore, Curbs!Actions
    <2>2. /\ eval[k].at = "read"
          /\ UNCHANGED <<now, live, apply, release, sweep>>
      BY <1>11 DEF Curbs!EvaluateStore
    <2>3. CASE /\ eval' = [eval EXCEPT ![k] = [Curbs!Blank EXCEPT !.at = "failed"]]
               /\ UNCHANGED <<row, verdict, incident>>
      BY <2>2, <2>3
    <2>4. CASE /\ verdict[e] = "none"
               /\ eval' = [eval EXCEPT ![k] = [@ EXCEPT !.at = "stored", !.decision = "none"]]
               /\ verdict' = [verdict EXCEPT ![e] = d]
               /\ incident' = IF d = "HOLD" THEN [incident EXCEPT ![e] = Curbs!NewIncident]
                              ELSE incident
               /\ row' = IF d = "ALLOW" THEN row ELSE [row EXCEPT ![e] = Curbs!NewRow]
      <3>1. row[e] = Curbs!NoRow /\ incident[e].status = "none"
        BY <2>1, <2>4
      <3>2. Curbs!TypeOK' /\ Curbs!RowsStay' /\ row' \in [Curbs!Actions -> Curbs!Rows]
        <4>1. CASE d = "ALLOW"
          BY <2>2, <2>4, <4>1
        <4>2. CASE d # "ALLOW"
          BY <2>1, <2>2, <2>4, <3>1, <4>2, CurbsNewRow
        <4>3. QED
          BY <4>1, <4>2
      <3>3. Curbs!NewIncident \in [status : {"none"} \union Curbs!IncidentStatuses,
                                  resolvedAt : BOOLEAN, reason : BOOLEAN]
            /\ Curbs!NewIncident.status = "OPEN" /\ ~Curbs!NewIncident.resolvedAt
        BY DEF Curbs!NewIncident
      <3>4. /\ \A j \in Calls \ {k} : eval'[j] = eval[j]
            /\ eval'[k].at = "stored" /\ eval'[k].owed = eval[k].owed
            /\ \A f \in Evaluations \ {e} : /\ verdict'[f] = verdict[f]
                                            /\ incident'[f] = incident[f] /\ row'[f] = row[f]
            /\ verdict'[e] = d
        BY <2>1, <2>4 DEF Curbs!Actions
      <3>5. Curbs!Shaped'
        <4>1. eval' \in [Calls -> Curbs!Progress]
          <5>1. eval[k] \in Curbs!Progress /\ eval \in [Calls -> Curbs!Progress]
            OBVIOUS
          <5>2. [eval[k] EXCEPT !.at = "stored", !.decision = "none"] \in Curbs!Progress
            BY <5>1, CurbsProgress
          <5>3. QED
            BY <2>4, <5>1, <5>2
        <4>2. verdict' \in [Evaluations -> Curbs!Verdicts]
          BY <2>1, <2>4
        <4>3. incident' \in [Evaluations -> [status : {"none"} \union Curbs!IncidentStatuses,
                                   resolvedAt : BOOLEAN, reason : BOOLEAN]]
          BY <2>1, <2>4, <3>3
        <4>4. QED
          BY <2>2, <3>2, <4>1, <4>2, <4>3
      <3>6. \A j \in Calls \ {k} : eval[j].at = "stored" => EvaluationOf[j] # e
        BY <2>4
      <3>7. Curbs!Weighed'
        BY <2>1, <3>4, <3>6
      <3>8. Curbs!RestrictedIsRefused' /\ Curbs!StepUpLifts'
        <4>1. eval[k].owed # "any" => d = eval[k].owed
          BY <2>2
        <4>2. QED
          <5>1. \A j \in Calls \ {k} :
                   eval[j].at = "stored" =>
                     verdict'[EvaluationOf[j]] = verdict[EvaluationOf[j]]
            BY <2>1, <3>4, <3>6
          <5>2. QED
            <6> SUFFICES ASSUME NEW j \in Calls, eval'[j].at = "stored"
                         PROVE  eval'[j].owed # "any" => verdict'[EvaluationOf[j]] = eval'[j].owed
              <7>1. \A j \in Calls : eval'[j].owed \in {"any", "HOLD", "ALLOW"}
                BY <3>5
              <7> HIDE DEF Curbs!IInv
              <7>2. QED
                BY <7>1
            <6>1. CASE j = k
              BY <3>4, <4>1, <6>1
            <6>2. CASE j # k
              <7>1. eval'[j] = eval[j] /\ eval[j].at = "stored"
                BY <3>4, <6>2
              <7>2. eval[j].owed \in {"any", "HOLD", "ALLOW"}
                OBVIOUS
              <7>3. QED
                BY <5>1, <6>2, <7>1, <7>2
            <6>3. QED
              BY <6>1, <6>2
      <3>9. Curbs!EvaluatedOnce'
        <4>1. /\ d = "HOLD" <=> incident'[e].status # "none"
              /\ d # "ALLOW" <=> row'[e].status # "none"
          <5>1. Curbs!NewRow.status = "ACTIVE"
            BY DEF Curbs!NewRow
          <5>2. QED
            BY <2>1, <2>4, <3>1, <3>3, <5>1
        <4>2. QED
          <5>1. \A i, j \in Calls :
                   (/\ eval'[i].at = "stored" /\ eval'[j].at = "stored"
                    /\ EvaluationOf[i] = EvaluationOf[j]) => i = j
            BY <3>4, <3>6
          <5>2. \A f \in Evaluations \ {e} :
                   /\ verdict'[f] = "HOLD" <=> incident'[f].status # "none"
                   /\ verdict'[f] \in {"HOLD", "REQUIRE_STEP_UP"} <=> row'[f].status # "none"
            BY <3>4
          <5>3. verdict'[e] \in {"HOLD", "REQUIRE_STEP_UP"} <=> d # "ALLOW"
            BY <2>1, <3>4
          <5>4. QED
            BY <3>4, <4>1, <5>1, <5>2, <5>3
      <3>10. Curbs!ResolutionIsCurrent'
        BY <2>1, <2>4, <3>3, <3>4
      <3>11. QED
        BY <2>2, <3>2, <3>5, <3>7, <3>8, <3>9, <3>10
    <2>5. QED
      BY <1>11, <2>3, <2>4 DEF Curbs!EvaluateStore, Curbs!IdFree
  <1>12. ASSUME NEW e \in Evaluations, NEW s \in Curbs!IncidentStatuses,
                Curbs!IncidentUpdate(e, s)
         PROVE  Curbs!IInv'
    <2>1. /\ Curbs!ResolvedAt(s, incident[e].resolvedAt) \in BOOLEAN
          /\ s = "OPEN" => ~Curbs!ResolvedAt(s, incident[e].resolvedAt)
          /\ s = "RESOLVED" => Curbs!ResolvedAt(s, incident[e].resolvedAt)
      BY DEF Curbs!ResolvedAt
    <2> DEFINE new == [status |-> s, resolvedAt |-> Curbs!ResolvedAt(s, incident[e].resolvedAt),
                       reason |-> incident[e].reason \/ s \in {"RESOLVED", "FALSE_POSITIVE"}]
    <2>4. (incident[e].reason \/ s \in {"RESOLVED", "FALSE_POSITIVE"}) \in BOOLEAN
      OBVIOUS
    <2>a. /\ new \in [status : {"none"} \union Curbs!IncidentStatuses,
                       resolvedAt : BOOLEAN, reason : BOOLEAN]
          /\ new.status = s
          /\ s = "RESOLVED" => new.reason
          /\ s = "RESOLVED" => new.resolvedAt
          /\ s = "OPEN" => ~new.resolvedAt
      BY <2>1, <2>4
    <2>5. incident' = [incident EXCEPT ![e] = new] /\ incident[e].status # "none"
      BY <1>12 DEF Curbs!IncidentUpdate
    <2> HIDE DEF new
    <2>6. Curbs!Shaped'
      BY <1>12, <2>5, <2>a DEF Curbs!IncidentUpdate
    <2>7. Curbs!EvaluatedOnce'
      <3>1. \A f \in Evaluations : incident'[f].status # "none" <=> incident[f].status # "none"
        BY <2>5, <2>a
      <3>2. UNCHANGED <<eval, verdict, row>>
        BY <1>12 DEF Curbs!IncidentUpdate
      <3>3. QED
        BY <3>1, <3>2
    <2>2. Curbs!ResolutionIsCurrent'
      BY <1>12, <2>5, <2>a DEF Curbs!IncidentUpdate
    <2>3. QED
      BY <1>12, <2>2, <2>6, <2>7 DEF Curbs!IncidentUpdate
  <1>13. CASE UNCHANGED Curbs!vars
    BY <1>13 DEF Curbs!vars
  <1>14. QED
    <2> HIDE DEF Curbs!IInv
    <2>1. QED
    BY <1>1, <1>2, <1>3, <1>4, <1>5, <1>6, <1>7, <1>8, <1>9, <1>10, <1>11, <1>12, <1>13
       DEF Curbs!Next

\* Only an insert makes a row active, and only where there was none.
LEMMA CurbsControlStep ==
    ASSUME Curbs!ConstantsOK, Curbs!IInv, [Curbs!Next]_Curbs!vars
    PROVE  Curbs!ControlStep
  <1> USE DEF Curbs!IInv, Curbs!Shaped, Curbs!Rows, Curbs!ControlStep, Curbs!NoRow
  <1>1. CASE UNCHANGED row
    BY <1>1
  <1>2. ASSUME NEW c \in Curbs!Actions, NEW s \in {"EXPIRED", "RELEASED"},
               Curbs!Write(c, s)
        PROVE  Curbs!ControlStep
    BY <1>2 DEF Curbs!Write
  <1>3. ASSUME NEW c \in Curbs!Actions, row[c] = Curbs!NoRow,
               row' = [row EXCEPT ![c] = Curbs!NewRow]
        PROVE  Curbs!ControlStep
    BY <1>3 DEF Curbs!NewRow
  <1>4. ASSUME NEW k \in Calls, Curbs!EvaluateStore(k)
        PROVE  Curbs!ControlStep
    <2>1. EvaluationOf[k] \in Evaluations /\ EvaluationOf[k] \in Curbs!Actions
      BY DEF Curbs!ConstantsOK, Curbs!Actions
    <2>2. \/ UNCHANGED row
          \/ /\ row[EvaluationOf[k]] = Curbs!NoRow
             /\ row' = [row EXCEPT ![EvaluationOf[k]] = Curbs!NewRow]
      BY <1>4, <2>1 DEF Curbs!EvaluateStore, Curbs!IdFree, Curbs!EvaluatedOnce, Curbs!RowsStay
    <2>3. QED
      BY <1>1, <1>3, <2>1, <2>2
  <1>5. ASSUME NEW r \in Applications, Curbs!ApplyCreate(r)
        PROVE  Curbs!ControlStep
    <2>1. KeyOf[r] \in Curbs!Actions
      BY DEF Curbs!ConstantsOK, Curbs!Actions
    <2>2. QED
      BY <1>1, <1>3, <1>5, <2>1 DEF Curbs!ApplyCreate, Curbs!KeyFree
  <1>6. QED
    BY <1>1, <1>2, <1>4, <1>5
       DEF Curbs!Next, Curbs!vars, Curbs!Tick, Curbs!ExpireRead,
           Curbs!ExpireWrite, Curbs!ApplyRead,
           Curbs!ApplyRevoke, Curbs!ReleaseRead, Curbs!ReleaseWrite, Curbs!EvaluateFind,
           Curbs!EvaluateRead, Curbs!IncidentUpdate, Curbs!TypeOK


LEMMA Counting ==
    ASSUME NEW R, IsFiniteSet(R)
    PROVE  /\ Cardinality({}) = 0
           /\ \A S \in SUBSET R : Cardinality(S) \in Nat
           /\ \A S, T \in SUBSET R : S \subseteq T => Cardinality(S) <= Cardinality(T)
           /\ \A S \in SUBSET R : \A x \in R \ S :
                  Cardinality(S \cup {x}) = Cardinality(S) + 1
  BY FS_Subset, FS_CardinalityType, FS_AddElement, FS_EmptySet

-----------------------------------------------------------------------------
(* RiskEvents *)

LEMMA IngestFinite == \A S : Ingest!IsFiniteSet(S) <=> IsFiniteSet(S)
  BY DEF Ingest!IsFiniteSet, IsFiniteSet

LEMMA IngestSameCount == \A S : Ingest!Cardinality(S) = Cardinality(S)
  BY DEF Ingest!Cardinality, Cardinality

LEMMA IngestCounting ==
    ASSUME Ingest!ConstantsOK
    PROVE  /\ Ingest!Cardinality({}) = 0
           /\ \A S \in SUBSET Posts : Ingest!Cardinality(S) \in Nat
           /\ \A S \in SUBSET Posts : Ingest!Cardinality(S) <= Ingest!Cardinality(Posts)
           /\ \A S \in SUBSET Posts : \A x \in Posts \ S :
                  Ingest!Cardinality(S \cup {x}) = Ingest!Cardinality(S) + 1
  BY IngestFinite, IngestSameCount, Counting DEF Ingest!ConstantsOK

LEMMA IngestInit ==
    ASSUME Ingest!ConstantsOK, Ingest!Init
    PROVE  Ingest!IInv
  <1> USE DEF Ingest!ConstantsOK, Ingest!Init
  <1>1. Ingest!Cardinality(Posts) \in Nat /\ Ingest!Cardinality({}) = 0
    BY IngestCounting
  <1>2. {d \in Posts : pc[d] # "idle"} = {}
    OBVIOUS
  <1>3. {d \in creations : EventOf[d] \in TransferEvents /\ pc[d] = "done"} = {}
    OBVIOUS
  <1>4. Ingest!Placed
    BY <1>1, <1>2 DEF Ingest!Placed
  <1>5. Ingest!TypeOK /\ Ingest!AcceptedIsExact
    BY <1>1 DEF Ingest!TypeOK, Ingest!AcceptedIsExact
  <1>6. Ingest!NeverOvercounted
    BY <1>1, <1>3 DEF Ingest!NeverOvercounted, Ingest!Live
  <1>7. QED
    BY <1>4, <1>5, <1>6
       DEF Ingest!IInv, Ingest!StoredOrRemoved, Ingest!TwiceNeedsRetention

\* The transfers counted, and the deliveries that have taken a slot.
countedTransfers ==
    {d \in creations : EventOf[d] \in TransferEvents /\ pc[d] = "done"}
taken == {d \in Posts : pc[d] # "idle"}

LEMMA IngestTakeSlot ==
    ASSUME Ingest!ConstantsOK, Ingest!IInv, NEW d \in Posts, Ingest!TakeSlot(d)
    PROVE  Ingest!IInv'
  <1> USE DEF Ingest!IInv, Ingest!TypeOK, Ingest!Placed
  <1>1. /\ pc[d] = "idle" /\ slots' = slots + 1
        /\ \/ pc' = [pc EXCEPT ![d] = "limited"]
           \/ pc' = [pc EXCEPT ![d] = "slot"]
        /\ UNCHANGED <<now, stored, accepted, repeated, requests, transfers, ends,
                       counted, creations, removed>>
    BY DEF Ingest!TakeSlot, Ingest!Goto
  <1>2. taken' = taken \cup {d} /\ d \in Posts \ taken /\ taken \in SUBSET Posts
    BY <1>1 DEF taken
  <1>3. /\ slots' \in Nat /\ slots' <= Ingest!Cardinality(taken')
        /\ slots' <= Ingest!Cardinality(Posts)
    <2>1. slots \in Nat /\ slots <= Ingest!Cardinality(taken)
      BY IngestCounting DEF taken
    <2>2. Ingest!Cardinality(taken') = Ingest!Cardinality(taken) + 1
      BY <1>2, IngestCounting
    <2>3. /\ Ingest!Cardinality(taken) \in Nat /\ Ingest!Cardinality(taken') \in Nat
          /\ Ingest!Cardinality(Posts) \in Nat
          /\ Ingest!Cardinality(taken') <= Ingest!Cardinality(Posts)
      BY <1>2, IngestCounting
    <2>4. QED
      BY <1>1, <2>1, <2>2, <2>3
  <1>4. Ingest!Placed'
    BY <1>1, <1>3 DEF taken
  <1>5. Ingest!TypeOK'
    BY <1>1, <1>3, <1>4, IngestCounting
  <1>6. countedTransfers' = countedTransfers
    BY <1>1 DEF countedTransfers
  <1>7. Ingest!NeverOvercounted'
    BY <1>1, <1>6 DEF Ingest!NeverOvercounted, Ingest!Live, countedTransfers
  <1>8. QED
    BY <1>1, <1>4, <1>5, <1>7
       DEF Ingest!StoredOrRemoved, Ingest!AcceptedIsExact, Ingest!TwiceNeedsRetention

\* A transaction that finds its event new makes the delivery a creation.
LEMMA IngestStore ==
    ASSUME Ingest!ConstantsOK, Ingest!IInv, NEW d \in Posts, Ingest!Store(d)
    PROVE  Ingest!IInv'
  <1> USE DEF Ingest!IInv, Ingest!TypeOK, Ingest!Placed
  <1>1. /\ pc[d] = "slot" /\ stored' = stored \union {EventOf[d]}
        /\ UNCHANGED <<now, slots, requests, transfers, ends, counted, removed>>
        /\ \/ /\ EventOf[d] \notin stored /\ pc' = [pc EXCEPT ![d] = "stored"]
              /\ accepted' = accepted + 1 /\ repeated' = repeated
              /\ creations' = creations \union {d}
           \/ /\ pc' = [pc EXCEPT ![d] = "duplicate"]
              /\ accepted' = accepted /\ repeated' = repeated + 1
              /\ creations' = creations
    BY DEF Ingest!Store, Ingest!IsNew, Ingest!CountsAccepted, Ingest!AfterStore, Ingest!Goto
  <1>2. taken' = taken
    BY <1>1 DEF taken
  <1>3. countedTransfers' = countedTransfers
    BY <1>1 DEF countedTransfers
  <1>4. creations \in SUBSET Posts /\ d \in Posts \ creations
    BY <1>1
  <1>5. Ingest!AcceptedIsExact'
    BY <1>1, <1>4, IngestCounting DEF Ingest!AcceptedIsExact
  <1>6. Ingest!Placed'
    BY <1>1, <1>2 DEF taken
  <1>7. Ingest!TypeOK'
    BY <1>1, <1>6 DEF Ingest!ConstantsOK
  <1>8. Ingest!NeverOvercounted'
    BY <1>1, <1>3 DEF Ingest!NeverOvercounted, Ingest!Live, countedTransfers
  <1>9. Ingest!StoredOrRemoved' /\ Ingest!TwiceNeedsRetention'
    BY <1>1 DEF Ingest!StoredOrRemoved, Ingest!TwiceNeedsRetention
  <1>10. QED
    BY <1>5, <1>6, <1>7, <1>8, <1>9

LEMMA IngestCountRequest ==
    ASSUME Ingest!ConstantsOK, Ingest!IInv, NEW d \in Posts, Ingest!CountRequest(d)
    PROVE  Ingest!IInv'
  <1> USE DEF Ingest!IInv, Ingest!TypeOK, Ingest!Placed
  <1>1. /\ pc[d] = "stored" /\ d \in creations
        /\ \/ pc' = [pc EXCEPT ![d] = "requested"] /\ EventOf[d] \in TransferEvents
           \/ pc' = [pc EXCEPT ![d] = "done"] /\ EventOf[d] \notin TransferEvents
        /\ UNCHANGED <<now, slots, stored, accepted, repeated, transfers, creations,
                       removed>>
    BY DEF Ingest!CountRequest, Ingest!Goto
  <1>2. \/ /\ Ingest!Live /\ requests' = requests + 1 /\ ends' = ends
           /\ counted' = counted \union {d}
        \/ /\ ~Ingest!Live /\ requests' = 1 /\ ends' = now + Period
           /\ counted' = {} \union {d}
    BY DEF Ingest!CountRequest, Ingest!Increment
  <1>3. taken' = taken /\ countedTransfers' = countedTransfers
    BY <1>1 DEF taken, countedTransfers
  <1>4. requests' = Ingest!Cardinality(counted')
    <2>1. counted \in SUBSET Posts /\ {} \in SUBSET Posts /\ d \in Posts \ counted
      BY <1>1
    <2>2. QED
      BY <1>2, <2>1, IngestCounting DEF Ingest!NeverOvercounted
  <1>5. Ingest!Placed'
    <2>1. ends' \in Nat
      BY <1>1, <1>2 DEF Ingest!ConstantsOK
    <2>2. \A x \in counted' : pc'[x] \in {"requested", "done"}
      BY <1>1, <1>2
    <2>3. slots' <= Ingest!Cardinality(taken')
      BY <1>1, <1>3 DEF taken
    <2>4. QED
      BY <1>1, <2>1, <2>2, <2>3 DEF taken
  <1>6. Ingest!TypeOK'
    BY <1>1, <1>2, <1>5 DEF Ingest!ConstantsOK
  <1>7. Ingest!NeverOvercounted'
    BY <1>1, <1>3, <1>4, <1>6 DEF Ingest!NeverOvercounted, countedTransfers
  <1>8. QED
    BY <1>1, <1>5, <1>6, <1>7
       DEF Ingest!StoredOrRemoved, Ingest!AcceptedIsExact, Ingest!TwiceNeedsRetention

LEMMA IngestCountTransfer ==
    ASSUME Ingest!ConstantsOK, Ingest!IInv, NEW d \in Posts, Ingest!CountTransfer(d)
    PROVE  Ingest!IInv'
  <1> USE DEF Ingest!IInv, Ingest!TypeOK, Ingest!Placed
  <1>1. /\ pc[d] = "requested" /\ d \in creations /\ EventOf[d] \in TransferEvents
        /\ pc' = [pc EXCEPT ![d] = "done"] /\ transfers' = transfers + 1
        /\ UNCHANGED <<now, slots, stored, accepted, repeated, requests, ends,
                       counted, creations, removed>>
    BY DEF Ingest!CountTransfer, Ingest!Goto
  <1>2. taken' = taken
    BY <1>1 DEF taken
  <1>3. /\ countedTransfers' = countedTransfers \cup {d}
        /\ countedTransfers \in SUBSET Posts /\ d \in Posts \ countedTransfers
    BY <1>1 DEF countedTransfers
  <1>4. transfers' = Ingest!Cardinality(countedTransfers')
    BY <1>1, <1>3, IngestCounting DEF Ingest!NeverOvercounted, countedTransfers
  <1>5. Ingest!Placed'
    BY <1>1, <1>2 DEF taken
  <1>6. Ingest!TypeOK'
    BY <1>1, <1>5
  <1>7. Ingest!NeverOvercounted'
    BY <1>1, <1>4 DEF Ingest!NeverOvercounted, Ingest!Live, countedTransfers
  <1>8. QED
    BY <1>1, <1>5, <1>6, <1>7
       DEF Ingest!StoredOrRemoved, Ingest!AcceptedIsExact, Ingest!TwiceNeedsRetention

LEMMA IngestNext ==
    ASSUME Ingest!ConstantsOK, Ingest!IInv, [Ingest!Next]_Ingest!vars
    PROVE  Ingest!IInv'
  <1>1. ASSUME NEW e \in Events, Ingest!Retain(e)
        PROVE  Ingest!IInv'
    BY <1>1
       DEF Ingest!Retain, Ingest!IInv, Ingest!TypeOK, Ingest!Placed, Ingest!Live,
           Ingest!StoredOrRemoved, Ingest!AcceptedIsExact, Ingest!NeverOvercounted,
           Ingest!TwiceNeedsRetention
  <1>2. CASE Ingest!Tick
    <2>1. slots' \in Nat /\ slots' <= slots
      BY <1>2 DEF Ingest!Tick, Ingest!IInv, Ingest!TypeOK
    <2>2. Ingest!TypeOK' /\ Ingest!Placed'
      <3>1. Ingest!Cardinality(Posts) \in Nat /\ Ingest!Cardinality(taken) \in Nat
        BY IngestCounting DEF taken
      <3>2. QED
        BY <1>2, <2>1, <3>1
           DEF Ingest!Tick, Ingest!IInv, Ingest!TypeOK, Ingest!Placed, taken,
               Ingest!ConstantsOK
    <2>3. Ingest!Live' => Ingest!Live
      BY <1>2 DEF Ingest!Tick, Ingest!Live, Ingest!IInv, Ingest!TypeOK, Ingest!Placed
    <2>4. Ingest!NeverOvercounted'
      BY <1>2, <2>3 DEF Ingest!Tick, Ingest!IInv, Ingest!NeverOvercounted
    <2>5. QED
      BY <1>2, <2>2, <2>4
         DEF Ingest!Tick, Ingest!IInv, Ingest!StoredOrRemoved,
             Ingest!AcceptedIsExact, Ingest!TwiceNeedsRetention
  <1>3. CASE UNCHANGED Ingest!vars
    BY <1>3
       DEF Ingest!vars, Ingest!IInv, Ingest!TypeOK, Ingest!Placed, Ingest!Live,
           Ingest!StoredOrRemoved, Ingest!AcceptedIsExact, Ingest!NeverOvercounted,
           Ingest!TwiceNeedsRetention
  <1>4. QED
    BY <1>1, <1>2, <1>3, IngestTakeSlot, IngestStore, IngestCountRequest,
       IngestCountTransfer DEF Ingest!Next

-----------------------------------------------------------------------------
(* Operator sessions *)

LEMMA ConsolesInit ==
    ASSUME Consoles!ConstantsOK, Consoles!Init
    PROVE  Consoles!IInv
  <1> USE DEF Consoles!ConstantsOK, Consoles!Init, Consoles!NoCall, Consoles!Sessions
  <1>1. Consoles!Shaped
    BY DEF Consoles!Shaped
  <1>2. \A t \in Tabs : Consoles!Pending(t)
    BY DEF Consoles!Pending
  <1>3. Consoles!LoggedOutIsOver /\ \A s \in Consoles!Sessions : ~Consoles!Held(s)
    BY DEF Consoles!LoggedOutIsOver, Consoles!Held
  <1>4. QED
    BY <1>1, <1>2, <1>3 DEF Consoles!IInv

\* Tab t's call becomes this one, and no other tab's call changes.
Awaits(t, kind, s, phase, age) ==
    /\ call'[t].kind = kind /\ call'[t].s = s /\ call'[t].stage = phase /\ call'[t].age = age
    /\ \A u \in Tabs \ {t} : call'[u] = call[u]
    /\ call' = [call EXCEPT ![t] = call'[t]]
    /\ call'[t] = [kind |-> kind, s |-> s, stage |-> phase, age |-> age]

LEMMA ConsolesAwait ==
    ASSUME Consoles!Shaped, NEW t \in Tabs
    PROVE  /\ \A kind : Consoles!Send(t, kind) => Awaits(t, kind, cookie, "sent", 0)
           /\ \A phase : Consoles!Answer(t, phase) =>
                 Awaits(t, call[t].kind, call[t].s, phase, call[t].age)
           /\ Consoles!Bootstrap(t) =>
                 Awaits(t, call[t].kind, made + 1, "made", call[t].age)
           /\ Consoles!Store(t) =>
                 Awaits(t, call[t].kind, call[t].s, "ok", Consoles!MaxAge(call[t].s))
           /\ Consoles!Receive(t) => Awaits(t, "none", 0, "none", 0)
  <1> USE DEF Consoles!Shaped, Awaits
  <1>1. \A kind : Consoles!Send(t, kind) => Awaits(t, kind, cookie, "sent", 0)
    BY DEF Consoles!Send, Consoles!NoCall
  <1>2. \A phase : Consoles!Answer(t, phase) =>
           Awaits(t, call[t].kind, call[t].s, phase, call[t].age)
    BY DEF Consoles!Answer
  <1>3. Consoles!Bootstrap(t) => Awaits(t, call[t].kind, made + 1, "made", call[t].age)
    BY DEF Consoles!Bootstrap
  <1>4. Consoles!Store(t) =>
           Awaits(t, call[t].kind, call[t].s, "ok", Consoles!MaxAge(call[t].s))
    <2> DEFINE rest == Consoles!MaxAge(call[t].s)
    <2>1. Consoles!Store(t) => call' = [call EXCEPT ![t].stage = "ok", ![t].age = rest]
      BY DEF Consoles!Store
    <2> HIDE DEF rest
    <2>2. Consoles!Store(t) => Awaits(t, call[t].kind, call[t].s, "ok", rest)
      BY <2>1
    <2>3. QED
      BY <2>2 DEF rest
  <1>5. Consoles!Receive(t) => Awaits(t, "none", 0, "none", 0)
    BY DEF Consoles!Receive, Consoles!NoCall
  <1>6. QED
    BY <1>1, <1>2, <1>3, <1>4, <1>5

\* What there is to show of a step that moves tab t's call.
ShownOf(t, kind, s, phase, age) ==
    /\ kind \in {"none", "signin", "logout", "request", "open"}
    /\ phase \in {"none", "sent", "made", "revoking", "ok", "refused", "lost"}
    /\ age \in Nat /\ s \in Nat /\ s <= made'
    /\ made' \in 0 .. MaxSessions /\ made <= made'
    /\ cookie' \in 0 .. made' /\ now' \in Nat /\ said' \subseteq 1 .. made'
    /\ expiresAt' \in [Consoles!Sessions -> Nat]
    /\ keyEnds' \in [Consoles!Sessions -> Nat]
    /\ Consoles!Pending(t)' /\ Consoles!LoggedOutIsOver'
    /\ \A u \in Tabs \ {t} :
          /\ call[u].stage = "made" =>
                s # call[u].s /\ cookie' # call[u].s /\ call[u].s \notin said'
          /\ call[u].stage = "ok" /\ call[u].kind = "logout" => keyEnds'[call[u].s] = 0
    /\ \A q \in Consoles!Sessions : Consoles!Held(q)' =>
          \/ cookie' = q \/ q \in gone'
          \/ s = q /\ kind = "signin" /\ phase \in {"made", "ok"}
          \/ \E u \in Tabs \ {t} : /\ call[u].s = q /\ call[u].kind = "signin"
                                   /\ call[u].stage \in {"made", "ok"}

LEMMA ConsolesMove ==
    ASSUME Consoles!ConstantsOK, Consoles!IInv, NEW t \in Tabs,
           NEW kind, NEW s, NEW phase, NEW age,
           Awaits(t, kind, s, phase, age), ShownOf(t, kind, s, phase, age)
    PROVE  Consoles!IInv'
  <1> USE DEF ShownOf
  <1>1. Consoles!Shaped /\ \A u \in Tabs : Consoles!Pending(u)
    BY DEF Consoles!IInv
  <1>2. Consoles!Shaped'
    <2>1. \A u \in Tabs : call'[u] \in
             [kind : {"none", "signin", "logout", "request", "open"}, s : 0 .. made',
              stage : {"none", "sent", "made", "revoking", "ok", "refused", "lost"},
              age : Nat]
      <3>1. call'[t] \in
             [kind : {"none", "signin", "logout", "request", "open"}, s : 0 .. made',
              stage : {"none", "sent", "made", "revoking", "ok", "refused", "lost"},
              age : Nat]
        BY DEF Awaits
      <3>2. \A u \in Tabs \ {t} : call'[u] \in
             [kind : {"none", "signin", "logout", "request", "open"}, s : 0 .. made',
              stage : {"none", "sent", "made", "revoking", "ok", "refused", "lost"},
              age : Nat]
        BY <1>1 DEF Awaits, Consoles!Shaped
      <3>3. QED
        BY <3>1, <3>2
    <2>2. QED
      BY <1>1, <2>1 DEF Awaits, Consoles!Shaped
  <1>3. \A u \in Tabs \ {t} : Consoles!Pending(u)'
    BY <1>1 DEF Awaits, Consoles!Pending
  <1>4. \A q \in Consoles!Sessions : Consoles!Held(q)' => Consoles!Reached(q)'
    BY DEF Awaits, Consoles!Reached
  <1>5. QED
    BY <1>2, <1>3, <1>4 DEF Consoles!IInv, Consoles!Sessions

LEMMA ConsolesSend ==
    ASSUME Consoles!ConstantsOK, Consoles!IInv, NEW t \in Tabs,
           NEW kind \in {"signin", "logout", "request", "open"}, Consoles!Send(t, kind)
    PROVE  Consoles!IInv'
  <1>1. /\ Awaits(t, kind, cookie, "sent", 0)
        /\ call[t] = Consoles!NoCall
        /\ UNCHANGED <<cookie, made, expiresAt, keyEnds, now, said, gone>>
    BY ConsolesAwait DEF Consoles!IInv, Consoles!Send, Consoles!risk
  <1>2. Consoles!Shaped /\ (\A u \in Tabs : Consoles!Pending(u)) /\ Consoles!LoggedOutIsOver
    BY DEF Consoles!IInv
  <1>3. Consoles!Pending(t)' /\ Consoles!LoggedOutIsOver'
    BY <1>1, <1>2 DEF Consoles!Pending, Awaits, Consoles!LoggedOutIsOver
  <1>4. \A q \in Consoles!Sessions : Consoles!Held(q)' =>
              \/ cookie' = q \/ q \in gone'
              \/ \E u \in Tabs \ {t} : /\ call[u].s = q /\ call[u].kind = "signin"
                                       /\ call[u].stage \in {"made", "ok"}
    BY <1>1 DEF Consoles!IInv, Consoles!Held, Consoles!Reached, Consoles!NoCall
  <1>5. ShownOf(t, kind, cookie, "sent", 0)
    BY <1>1, <1>2, <1>3, <1>4 DEF ShownOf, Consoles!Shaped, Consoles!Pending
  <1>6. QED
    BY <1>1, <1>5, ConsolesMove

LEMMA ConsolesBootstrap ==
    ASSUME Consoles!ConstantsOK, Consoles!IInv, NEW t \in Tabs, Consoles!Bootstrap(t)
    PROVE  Consoles!IInv'
  <1>1. /\ Awaits(t, "signin", made + 1, "made", call[t].age)
        /\ call[t].stage = "sent" /\ made < MaxSessions /\ made' = made + 1
        /\ expiresAt' = [expiresAt EXCEPT ![made + 1] = now + OperatorTtl]
        /\ UNCHANGED <<cookie, keyEnds, now, said, gone>>
    BY ConsolesAwait DEF Consoles!IInv, Consoles!Bootstrap
  <1>2. Consoles!Shaped /\ (\A u \in Tabs : Consoles!Pending(u)) /\ Consoles!LoggedOutIsOver
    BY DEF Consoles!IInv
  <1>3. Consoles!Pending(t)' /\ Consoles!LoggedOutIsOver'
    BY <1>1, <1>2 DEF Consoles!Pending, Awaits, Consoles!LoggedOutIsOver, Consoles!Shaped
  <1>4. \A q \in Consoles!Sessions : Consoles!Held(q)' =>
              \/ cookie' = q \/ q \in gone'
              \/ \E u \in Tabs \ {t} : /\ call[u].s = q /\ call[u].kind = "signin"
                                       /\ call[u].stage \in {"made", "ok"}
    BY <1>1 DEF Consoles!IInv, Consoles!Held, Consoles!Reached
  <1>5. /\ made' \in 0 .. MaxSessions /\ made <= made' /\ made + 1 \in Nat /\ made + 1 <= made'
        /\ cookie' \in 0 .. made' /\ now' \in Nat /\ said' \subseteq 1 .. made'
        /\ expiresAt' \in [Consoles!Sessions -> Nat] /\ keyEnds' \in [Consoles!Sessions -> Nat]
        /\ call[t].age \in Nat /\ \A u \in Tabs : call[u].s # made + 1
    BY <1>1, <1>2 DEF Consoles!Shaped, Consoles!Sessions, Consoles!ConstantsOK
  <1>6. \A u \in Tabs \ {t} :
           /\ call[u].stage = "made" =>
                 made + 1 # call[u].s /\ cookie' # call[u].s /\ call[u].s \notin said'
           /\ call[u].stage = "ok" /\ call[u].kind = "logout" => keyEnds'[call[u].s] = 0
    BY <1>1, <1>2, <1>5 DEF Consoles!Pending
  <1>7. ShownOf(t, "signin", made + 1, "made", call[t].age)
    BY <1>1, <1>3, <1>4, <1>5, <1>6 DEF ShownOf
  <1>8. QED
    BY <1>1, <1>7, ConsolesMove

LEMMA ConsolesStore ==
    ASSUME Consoles!ConstantsOK, Consoles!IInv, NEW t \in Tabs, Consoles!Store(t)
    PROVE  Consoles!IInv'
  <1> DEFINE n == call[t].s
             age == Consoles!MaxAge(n)
  <1>1. /\ Awaits(t, call[t].kind, n, "ok", age)
        /\ call[t].stage = "made"
        /\ keyEnds' = [keyEnds EXCEPT ![n] = now + OperatorTtl]
        /\ UNCHANGED <<cookie, made, expiresAt, now, said, gone>>
    BY ConsolesAwait DEF Consoles!IInv, Consoles!Store
  <1>2. Consoles!Shaped /\ (\A u \in Tabs : Consoles!Pending(u)) /\ Consoles!LoggedOutIsOver
    BY DEF Consoles!IInv
  <1>3. /\ call[t].kind = "signin" /\ n \in 1 .. made /\ n \in Consoles!Sessions
        /\ cookie # n /\ n \notin said /\ \A u \in Tabs \ {t} : call[u].s # n
    BY <1>1, <1>2 DEF Consoles!Pending, Consoles!Shaped, Consoles!Sessions, Consoles!ConstantsOK
  <1>4. age \in Nat
    BY <1>2, <1>3 DEF Consoles!MaxAge, Consoles!Shaped
  <1>5. Consoles!Pending(t)' /\ Consoles!LoggedOutIsOver'
    BY <1>1, <1>2, <1>3
       DEF Consoles!Pending, Awaits, Consoles!LoggedOutIsOver, Consoles!Shaped, Consoles!Sessions
  <1> HIDE DEF n, age
  <1>6. \A q \in Consoles!Sessions : Consoles!Held(q)' =>
              \/ cookie' = q \/ q \in gone' \/ n = q
              \/ \E u \in Tabs \ {t} : /\ call[u].s = q /\ call[u].kind = "signin"
                                       /\ call[u].stage \in {"made", "ok"}
    BY <1>1, <1>2, <1>3
       DEF Consoles!IInv, Consoles!Held, Consoles!Reached, n, Consoles!Shaped
  <1>7. /\ keyEnds' \in [Consoles!Sessions -> Nat]
        /\ \A u \in Tabs \ {t} : call[u].s # n => keyEnds'[call[u].s] = keyEnds[call[u].s]
    BY <1>1, <1>2, <1>3 DEF Consoles!Shaped, Consoles!ConstantsOK
  <1>8. /\ made' \in 0 .. MaxSessions /\ made <= made' /\ n \in Nat /\ n <= made'
        /\ cookie' \in 0 .. made' /\ now' \in Nat /\ said' \subseteq 1 .. made'
        /\ expiresAt' \in [Consoles!Sessions -> Nat]
    BY <1>1, <1>2, <1>3 DEF Consoles!Shaped
  <1>9. \A u \in Tabs \ {t} :
           /\ call[u].stage = "made" =>
                 n # call[u].s /\ cookie' # call[u].s /\ call[u].s \notin said'
           /\ call[u].stage = "ok" /\ call[u].kind = "logout" => keyEnds'[call[u].s] = 0
    BY <1>1, <1>2, <1>3, <1>7 DEF Consoles!Pending
  <1>10. ShownOf(t, "signin", n, "ok", age)
    BY <1>1, <1>3, <1>4, <1>5, <1>6, <1>7, <1>8, <1>9 DEF ShownOf
  <1>11. QED
    BY <1>1, <1>3, <1>10, ConsolesMove

LEMMA ConsolesValidate ==
    ASSUME Consoles!ConstantsOK, Consoles!IInv, NEW t \in Tabs, Consoles!Validate(t)
    PROVE  Consoles!IInv'
  <1>1. PICK phase \in {"refused", "revoking", "ok"} :
           /\ Awaits(t, call[t].kind, call[t].s, phase, call[t].age)
           /\ phase # "refused" => Consoles!Current(call[t].s)
           /\ phase = "revoking" <=> phase # "refused" /\ call[t].kind = "logout"
    BY ConsolesAwait DEF Consoles!IInv, Consoles!Validate
  <1>2. Consoles!Shaped /\ (\A u \in Tabs : Consoles!Pending(u)) /\ Consoles!LoggedOutIsOver
    BY DEF Consoles!IInv
  <1>3. /\ call[t].kind \in {"logout", "request", "open"} /\ call[t].stage = "sent"
        /\ UNCHANGED <<cookie, made, expiresAt, keyEnds, now, said, gone>>
    BY DEF Consoles!Validate, Consoles!risk
  <1>4. Consoles!Pending(t)' /\ Consoles!LoggedOutIsOver'
    BY <1>1, <1>2, <1>3
       DEF Consoles!Pending, Awaits, Consoles!LoggedOutIsOver, Consoles!Current, Consoles!Held
  <1>5. \A q \in Consoles!Sessions : Consoles!Held(q)' =>
              \/ cookie' = q \/ q \in gone'
              \/ \E u \in Tabs \ {t} : /\ call[u].s = q /\ call[u].kind = "signin"
                                       /\ call[u].stage \in {"made", "ok"}
    BY <1>3 DEF Consoles!IInv, Consoles!Held, Consoles!Reached
  <1>6. ShownOf(t, call[t].kind, call[t].s, phase, call[t].age)
    BY <1>1, <1>2, <1>3, <1>4, <1>5 DEF ShownOf, Consoles!Shaped, Consoles!Pending
  <1>7. QED
    BY <1>1, <1>6, ConsolesMove

LEMMA ConsolesRevoke ==
    ASSUME Consoles!ConstantsOK, Consoles!IInv, NEW t \in Tabs, Consoles!Revoke(t)
    PROVE  Consoles!IInv'
  <1>1. /\ Awaits(t, call[t].kind, call[t].s, "ok", call[t].age)
        /\ call[t].stage = "revoking"
        /\ keyEnds' = [keyEnds EXCEPT ![call[t].s] = 0]
        /\ UNCHANGED <<cookie, made, expiresAt, now, said, gone>>
    BY ConsolesAwait DEF Consoles!IInv, Consoles!Revoke, Consoles!Revoked
  <1>2. Consoles!Shaped /\ (\A u \in Tabs : Consoles!Pending(u)) /\ Consoles!LoggedOutIsOver
    BY DEF Consoles!IInv
  <1>3. /\ call[t].kind = "logout" /\ call[t].s \in Consoles!Sessions
        /\ keyEnds' \in [Consoles!Sessions -> Nat]
        /\ \A q \in Consoles!Sessions : keyEnds'[q] = IF q = call[t].s THEN 0 ELSE keyEnds[q]
    BY <1>1, <1>2 DEF Consoles!Pending, Consoles!Shaped, Consoles!Sessions, Consoles!ConstantsOK
  <1>4. Consoles!Pending(t)' /\ Consoles!LoggedOutIsOver'
    BY <1>1, <1>2, <1>3
       DEF Consoles!Pending, Awaits, Consoles!LoggedOutIsOver, Consoles!Shaped, Consoles!Sessions
  <1>5. \A q \in Consoles!Sessions : Consoles!Held(q)' =>
              \/ cookie' = q \/ q \in gone'
              \/ \E u \in Tabs \ {t} : /\ call[u].s = q /\ call[u].kind = "signin"
                                       /\ call[u].stage \in {"made", "ok"}
    BY <1>1, <1>2, <1>3 DEF Consoles!IInv, Consoles!Held, Consoles!Reached, Consoles!Shaped
  <1>6. \A u \in Tabs \ {t} :
           /\ call[u].stage = "made" =>
                 call[t].s # call[u].s /\ cookie' # call[u].s /\ call[u].s \notin said'
           /\ call[u].stage = "ok" /\ call[u].kind = "logout" => keyEnds'[call[u].s] = 0
    BY <1>1, <1>2, <1>3 DEF Consoles!Pending, Consoles!Shaped, Consoles!Sessions
  <1>7. ShownOf(t, call[t].kind, call[t].s, "ok", call[t].age)
    BY <1>1, <1>2, <1>3, <1>4, <1>5, <1>6 DEF ShownOf, Consoles!Shaped
  <1>8. QED
    BY <1>1, <1>7, ConsolesMove

LEMMA ConsolesLose ==
    ASSUME Consoles!ConstantsOK, Consoles!IInv, NEW t \in Tabs, Consoles!Lose(t)
    PROVE  Consoles!IInv'
  <1>1. /\ Awaits(t, call[t].kind, call[t].s, "lost", call[t].age)
        /\ call[t].stage \in {"sent", "made", "revoking", "ok"}
        /\ gone' = IF call[t].kind = "signin" /\ call[t].stage # "sent"
                   THEN gone \cup {call[t].s} ELSE gone
        /\ UNCHANGED <<cookie, made, expiresAt, keyEnds, now, said>>
    BY ConsolesAwait DEF Consoles!IInv, Consoles!Lose, Consoles!risk
  <1>2. Consoles!Shaped /\ (\A u \in Tabs : Consoles!Pending(u)) /\ Consoles!LoggedOutIsOver
    BY DEF Consoles!IInv
  <1>3. Consoles!Pending(t)' /\ Consoles!LoggedOutIsOver'
    BY <1>1, <1>2 DEF Consoles!Pending, Awaits, Consoles!LoggedOutIsOver
  <1>4. \A q \in Consoles!Sessions : Consoles!Held(q)' =>
              \/ cookie' = q \/ q \in gone'
              \/ \E u \in Tabs \ {t} : /\ call[u].s = q /\ call[u].kind = "signin"
                                       /\ call[u].stage \in {"made", "ok"}
    BY <1>1 DEF Consoles!IInv, Consoles!Held, Consoles!Reached
  <1>5. ShownOf(t, call[t].kind, call[t].s, "lost", call[t].age)
    BY <1>1, <1>2, <1>3, <1>4 DEF ShownOf, Consoles!Shaped, Consoles!Pending
  <1>6. QED
    BY <1>1, <1>5, ConsolesMove

LEMMA ConsolesReceive ==
    ASSUME Consoles!ConstantsOK, Consoles!IInv, NEW t \in Tabs, Consoles!Receive(t)
    PROVE  Consoles!IInv'
  <1>1. /\ Awaits(t, "none", 0, "none", 0)
        /\ call[t].stage \in {"ok", "refused", "lost"} /\ Consoles!Cookie(call[t])
        /\ said' = IF call[t].kind = "logout" /\ call[t].stage = "ok"
                   THEN said \cup {call[t].s} ELSE said
        /\ UNCHANGED <<made, expiresAt, keyEnds, now>>
    BY ConsolesAwait DEF Consoles!IInv, Consoles!Receive, Consoles!risk
  <1>2. Consoles!Shaped /\ (\A u \in Tabs : Consoles!Pending(u)) /\ Consoles!LoggedOutIsOver
    BY DEF Consoles!IInv
  <1>3. /\ cookie' \in {0, cookie, call[t].s}
        /\ cookie' = call[t].s => cookie' = cookie \/ cookie' = 0 \/ Consoles!SetsCookie(call[t])
        /\ cookie' # cookie => \/ cookie = 0 \/ cookie \in gone' \/ cookie = call[t].s
        /\ call[t].kind = "signin" /\ call[t].stage = "ok" =>
              cookie' = call[t].s \/ call[t].s \in gone'
        /\ cookie' # cookie =>
              call[t].kind \in {"signin", "logout"} /\ call[t].stage = "ok"
        /\ gone \subseteq gone'
    BY <1>1 DEF Consoles!Cookie, Consoles!SetsCookie, Consoles!Clears
  <1>4. /\ call[t].s \in 0 .. made /\ cookie \in 0 .. made
        /\ call[t].kind = "logout" /\ call[t].stage = "ok" =>
              call[t].s # 0 /\ keyEnds[call[t].s] = 0
        /\ \A u \in Tabs \ {t} : call[u].stage = "made" =>
              call[u].s # 0 /\ call[u].s # cookie /\ call[u].s # call[t].s /\ call[u].s \notin said
    BY <1>1, <1>2 DEF Consoles!Pending, Consoles!Shaped
  <1>5. Consoles!Pending(t)' /\ Consoles!LoggedOutIsOver'
    BY <1>1, <1>2, <1>4 DEF Consoles!Pending, Awaits, Consoles!LoggedOutIsOver
  <1>6. \A q \in Consoles!Sessions : Consoles!Held(q)' =>
              \/ cookie' = q \/ q \in gone'
              \/ \E u \in Tabs \ {t} : /\ call[u].s = q /\ call[u].kind = "signin"
                                       /\ call[u].stage \in {"made", "ok"}
    <2> SUFFICES ASSUME NEW q \in Consoles!Sessions, Consoles!Held(q)', cookie' # q,
                        q \notin gone'
                 PROVE  \E u \in Tabs \ {t} : /\ call[u].s = q /\ call[u].kind = "signin"
                                              /\ call[u].stage \in {"made", "ok"}
      OBVIOUS
    <2>1. Consoles!Held(q) /\ keyEnds[q] # 0 /\ q # 0
      BY <1>1, <1>2 DEF Consoles!Held, Consoles!Shaped
    <2>2. Consoles!Reached(q)
      BY <2>1 DEF Consoles!IInv
    <2>3. cookie # q /\ q \notin gone
      BY <1>3, <1>4, <2>1
    <2>4. ~(call[t].s = q /\ call[t].kind = "signin" /\ call[t].stage \in {"made", "ok"})
      BY <1>1, <1>3
    <2>5. QED
      BY <2>2, <2>3, <2>4 DEF Consoles!Reached
  <1>7. ShownOf(t, "none", 0, "none", 0)
    <2>1. cookie' \in 0 .. made' /\ said' \subseteq 1 .. made' /\ made' \in 0 .. MaxSessions
      <3>1. made' = made /\ made \in Nat /\ made \in 0 .. MaxSessions /\ said \subseteq 1 .. made
        BY <1>1, <1>2 DEF Consoles!Shaped, Consoles!ConstantsOK
      <3>2. cookie' \in 0 .. made
        BY <1>3, <1>4, <3>1
      <3>3. said' \subseteq 1 .. made
        BY <1>1, <1>4, <3>1
      <3>4. QED
        BY <3>1, <3>2, <3>3
    <2>2. \A u \in Tabs \ {t} :
             /\ call[u].stage = "made" =>
                   0 # call[u].s /\ cookie' # call[u].s /\ call[u].s \notin said'
             /\ call[u].stage = "ok" /\ call[u].kind = "logout" => keyEnds'[call[u].s] = 0
      BY <1>1, <1>2, <1>3, <1>4 DEF Consoles!Pending
    <2>3. QED
      BY <1>1, <1>2, <1>5, <1>6, <2>1, <2>2 DEF ShownOf, Consoles!Shaped
  <1>8. QED
    BY <1>1, <1>7, ConsolesMove

LEMMA ConsolesNext ==
    ASSUME Consoles!ConstantsOK, Consoles!IInv, [Consoles!Next]_Consoles!vars
    PROVE  Consoles!IInv'
  <1>1. CASE Consoles!Tick
    <2>1. /\ now' = now + 1
          /\ cookie' \in {0, cookie}
          /\ cookie' # cookie => cookie \in gone' \/ cookie = 0
          /\ gone \subseteq gone'
          /\ UNCHANGED <<call, made, expiresAt, keyEnds, said>>
      BY <1>1 DEF Consoles!Tick, Consoles!risk
    <2>2. Consoles!Shaped'
      BY <2>1 DEF Consoles!IInv, Consoles!Shaped
    <2>3. (\A t \in Tabs : Consoles!Pending(t)') /\ Consoles!LoggedOutIsOver'
      BY <2>1 DEF Consoles!IInv, Consoles!Shaped, Consoles!Pending, Consoles!LoggedOutIsOver
    <2>4. ASSUME NEW q \in Consoles!Sessions, Consoles!Held(q)'
          PROVE  Consoles!Reached(q)'
      <3>1. Consoles!Held(q) /\ q # 0
        BY <2>1, <2>4 DEF Consoles!Held, Consoles!IInv, Consoles!Shaped
      <3>2. Consoles!Reached(q)
        BY <3>1 DEF Consoles!IInv
      <3>3. QED
        BY <2>1, <3>1, <3>2 DEF Consoles!Reached
    <2>5. QED
      BY <2>2, <2>3, <2>4 DEF Consoles!IInv, Consoles!Sessions
  <1>2. CASE UNCHANGED Consoles!vars
    BY <1>2 DEF Consoles!vars, Consoles!IInv, Consoles!Shaped, Consoles!Pending,
                Consoles!LoggedOutIsOver, Consoles!Held, Consoles!Reached, Consoles!Sessions
  <1>3. QED
    BY <1>1, <1>2, ConsolesSend, ConsolesBootstrap, ConsolesStore, ConsolesValidate,
       ConsolesRevoke, ConsolesLose, ConsolesReceive
       DEF Consoles!Next, Consoles!signIn, Consoles!logout, Consoles!request, Consoles!open

\* Only validate takes a request that was sent to an acceptance.
LEMMA ConsolesAccept ==
    ASSUME Consoles!ConstantsOK, Consoles!IInv, [Consoles!Next]_Consoles!vars
    PROVE  Consoles!AcceptStep
  <1> SUFFICES ASSUME NEW t \in Tabs, call[t].stage = "sent",
                      call'[t].stage \in {"ok", "revoking"}
               PROVE  now < expiresAt[call[t].s]
    BY DEF Consoles!AcceptStep
  <1>1. Consoles!Shaped
    BY DEF Consoles!IInv
  <1>2. call # call'
    OBVIOUS
  <1>3. ASSUME NEW u \in Tabs, NEW kind, Consoles!Send(u, kind)
        PROVE  FALSE
    BY <1>1, <1>3, ConsolesAwait DEF Awaits
  <1>4. ASSUME NEW u \in Tabs, Consoles!Bootstrap(u) \/ Consoles!Store(u) \/ Consoles!Receive(u)
        PROVE  FALSE
    BY <1>1, <1>4, ConsolesAwait DEF Awaits, Consoles!Store
  <1>5. ASSUME NEW u \in Tabs, Consoles!Revoke(u) \/ Consoles!Lose(u)
        PROVE  FALSE
    <2>1. call[u].stage = "revoking" \/ Consoles!Answer(u, "lost")
      BY <1>5 DEF Consoles!Revoke, Consoles!Lose
    <2>2. Consoles!Answer(u, "ok") \/ Consoles!Answer(u, "lost")
      BY <1>5 DEF Consoles!Revoke, Consoles!Lose
    <2>3. \A phase : Consoles!Answer(u, phase) =>
             Awaits(u, call[u].kind, call[u].s, phase, call[u].age)
      BY <1>1, ConsolesAwait
    <2>4. PICK phase \in {"ok", "lost"} :
             /\ Awaits(u, call[u].kind, call[u].s, phase, call[u].age)
             /\ phase = "lost" \/ call[u].stage = "revoking"
      BY <2>1, <2>2, <2>3
    <2>5. QED
      BY <2>4 DEF Awaits
  <1>6. ASSUME NEW u \in Tabs, Consoles!Validate(u)
        PROVE  now < expiresAt[call[t].s]
    <2>1. PICK phase :
             /\ Awaits(u, call[u].kind, call[u].s, phase, call[u].age)
             /\ phase # "refused" => Consoles!Current(call[u].s)
      BY <1>1, <1>6, ConsolesAwait DEF Consoles!Validate
    <2>2. u = t /\ phase \in {"ok", "revoking"}
      BY <2>1 DEF Awaits
    <2>3. expiresAt[call[t].s] > now
      BY <2>1, <2>2 DEF Consoles!Current
    <2>4. call[t].s \in Consoles!Sessions
      BY <1>1, <2>1, <2>2 DEF Consoles!Current, Consoles!Held, Consoles!Shaped, Consoles!Sessions, Consoles!ConstantsOK
    <2>5. QED
      BY <1>1, <2>3, <2>4 DEF Consoles!Shaped
  <1>7. QED
    BY <1>2, <1>3, <1>4, <1>5, <1>6
       DEF Consoles!Next, Consoles!vars, Consoles!Tick, Consoles!signIn, Consoles!logout,
           Consoles!request, Consoles!open

LEMMA ConsolesSafe ==
    ASSUME Consoles!IInv
    PROVE  Consoles!LoggedOutIsOver /\ Consoles!LiveIsReachable
  BY DEF Consoles!IInv, Consoles!Reached, Consoles!LiveIsReachable

-----------------------------------------------------------------------------
(* Drills *)

LEMMA DrillNames ==
    /\ Len(Drill!Reported) = 7 /\ Drill!Numbers = 1 .. 7
    /\ \A k \in Drill!Numbers : Drill!Reported[k] \in Drill!States \ {"FAILED", "none"}
    /\ \A j, k \in Drill!Numbers : Drill!Reported[j] = Drill!Reported[k] => j = k
    /\ "FAILED" \in Drill!States /\ "none" \notin Drill!States
    /\ \A s \in Drill!States : s = "FAILED" \/ \E k \in Drill!Numbers : s = Drill!Reported[k]
    /\ Drill!Reported[1] = "PLANNED" /\ Drill!Reported[5] = "RECONCILIATION_PASSED"
    /\ Drill!Reported[6] = "PASSED" /\ Drill!Reported[7] = "CLEANED_UP"
    /\ \A k \in 2 .. 7 : Drill!Reported[k] \in Drill!Allowed(Drill!Reported[k - 1])
    /\ \A k \in 3 .. 5 : "FAILED" \in Drill!Allowed(Drill!Reported[k - 1])
  <1>1. /\ Len(Drill!Reported) = 7 /\ Drill!Numbers = 1 .. 7
        /\ Drill!Reported[1] = "PLANNED" /\ Drill!Reported[2] = "RUNNING"
        /\ Drill!Reported[3] = "BACKUP_CREATED" /\ Drill!Reported[4] = "RESTORE_VERIFIED"
        /\ Drill!Reported[5] = "RECONCILIATION_PASSED"
        /\ Drill!Reported[6] = "PASSED" /\ Drill!Reported[7] = "CLEANED_UP"
        /\ DOMAIN Drill!Reported = 1 .. 7
    BY DEF Drill!Reported, Drill!Numbers
  <1>2. Drill!States = {Drill!Reported[k] : k \in 1 .. 7} \union {"FAILED"}
    BY <1>1 DEF Drill!States, Drill!Range
  <1>3. \A k \in 1 .. 7 : k = 1 \/ k = 2 \/ k = 3 \/ k = 4 \/ k = 5 \/ k = 6 \/ k = 7
    OBVIOUS
  <1>4. \A j, k \in Drill!Numbers : Drill!Reported[j] = Drill!Reported[k] => j = k
    BY <1>1, <1>3
  <1>5. \A k \in Drill!Numbers : Drill!Reported[k] \in Drill!States \ {"FAILED", "none"}
    BY <1>1, <1>2, <1>3
  <1>6. \A k \in 2 .. 7 : Drill!Reported[k] \in Drill!Allowed(Drill!Reported[k - 1])
    <2>1. \A k \in 2 .. 7 : k = 2 \/ k = 3 \/ k = 4 \/ k = 5 \/ k = 6 \/ k = 7
      OBVIOUS
    <2>2. QED
      BY <1>1, <2>1 DEF Drill!Allowed
  <1>7. \A k \in 3 .. 5 : "FAILED" \in Drill!Allowed(Drill!Reported[k - 1])
    <2>1. \A k \in 3 .. 5 : k = 3 \/ k = 4 \/ k = 5
      OBVIOUS
    <2>2. QED
      BY <1>1, <2>1 DEF Drill!Allowed
  <1>8. QED
    BY <1>1, <1>2, <1>4, <1>5, <1>6, <1>7

LEMMA DrillInit ==
    ASSUME Drill!ConstantsOK, Drill!Init
    PROVE  Drill!IInv
  <1> USE DrillNames DEF Drill!Init
  <1>1. Drill!Shaped
    <2>1. <<>> \in Seq(Drill!States) /\ 1 \in Drill!Numbers
      OBVIOUS
    <2>2. QED
      BY <2>1 DEF Drill!Shaped
  <1>2. Drill!InOrder /\ Drill!CodeOnlyWhenFailed
    BY DEF Drill!InOrder, Drill!CodeOnlyWhenFailed
  <1>3. Drill!Advancing
    BY DEF Drill!Advancing, Drill!Before
  <1>4. Drill!Failing
    BY DEF Drill!Failing, Drill!Forward
  <1>5. QED
    BY <1>1, <1>2, <1>3, <1>4 DEF Drill!IInv

\* The one call under way, while the script advances and after a clean failure.
LEMMA DrillActive ==
    ASSUME Drill!IInv, NEW s \in Drill!States, call[s] \in {"sent", "read", "written"}
    PROVE  /\ Drill!Forward => s = Drill!Reported[step] /\ script = "waiting"
                               /\ said = "none"
           /\ ~Drill!Forward /\ Drill!Clean =>
                 /\ s = "FAILED" /\ script = "closing" /\ said = "none"
                 /\ step \in 3 .. 5
  BY DrillNames
     DEF Drill!IInv, Drill!Shaped, Drill!Advancing, Drill!Failing, Drill!Forward

LEMMA DrillWork ==
    ASSUME Drill!IInv, Drill!Work
    PROVE  Drill!IInv'
  <1> USE DrillNames DEF Drill!IInv, Drill!Shaped
  <1>1. /\ script = "working" /\ Drill!Forward /\ said = "none"
        /\ UNCHANGED <<state, coded, evidence, events, step, said, lost>>
    BY DEF Drill!Work, Drill!row, Drill!Forward
  <1>2. CASE script' = "waiting"
    <2>1. call' = [call EXCEPT ![Drill!Reported[step]] = "sent"]
      BY <1>2 DEF Drill!Work
    <2>2. Drill!Shaped' /\ Drill!CodeOnlyWhenFailed'
      BY <1>1, <1>2, <2>1 DEF Drill!CodeOnlyWhenFailed
    <2>3. Drill!InOrder'
      BY <1>1, <2>1 DEF Drill!InOrder, Drill!Advancing
    <2>4. Drill!Advancing'
      BY <1>1, <1>2, <2>1 DEF Drill!Advancing, Drill!Before, Drill!Forward
    <2>5. QED
      BY <1>2, <2>2, <2>3, <2>4 DEF Drill!Failing, Drill!Forward
  <1>3. CASE script' = "failing"
    <2>1. call' = call /\ step \in 3 .. 5
      BY <1>3 DEF Drill!Work, Drill!StageEnds
    <2>2. Drill!Shaped' /\ Drill!CodeOnlyWhenFailed' /\ Drill!InOrder'
      BY <1>1, <1>3, <2>1 DEF Drill!CodeOnlyWhenFailed, Drill!InOrder
    <2>3. Drill!Failing'
      BY <1>1, <1>3, <2>1 DEF Drill!Advancing, Drill!Failing, Drill!Before
    <2>4. QED
      BY <1>1, <1>3, <2>2, <2>3 DEF Drill!Advancing, Drill!Forward
  <1>4. QED
    BY <1>2, <1>3 DEF Drill!Work, Drill!StageEnds

LEMMA DrillAnswer ==
    ASSUME Drill!IInv, Drill!Answer
    PROVE  Drill!IInv'
  <1> USE DrillNames DEF Drill!IInv, Drill!Shaped
  <1>1. /\ script = "waiting" /\ Drill!Forward /\ said = "none"
        /\ UNCHANGED <<state, coded, evidence, events, call, lost>>
    BY DEF Drill!Answer, Drill!row, Drill!Forward
  <1>2. Drill!CodeOnlyWhenFailed' /\ Drill!InOrder'
    BY <1>1 DEF Drill!CodeOnlyWhenFailed, Drill!InOrder
  <1>3. CASE call[Drill!Reported[step]] = "done" /\ step = 7
    <2>1. script' = "exited" /\ said' = "PASS" /\ step' = step
      BY <1>3 DEF Drill!Answer, Drill!Accepted
    <2>2. QED
      BY <1>1, <1>2, <1>3, <2>1
         DEF Drill!Advancing, Drill!Failing, Drill!Forward, Drill!Before
  <1>4. CASE call[Drill!Reported[step]] = "done" /\ step # 7
    <2>1. script' = "working" /\ said' = "none" /\ step' = step + 1 /\ step' \in Drill!Numbers
      BY <1>1, <1>4 DEF Drill!Answer, Drill!Accepted
    <2>2. Drill!Advancing'
      BY <1>1, <1>4, <2>1 DEF Drill!Advancing, Drill!Forward, Drill!Before
    <2>3. QED
      BY <1>1, <1>2, <2>1, <2>2 DEF Drill!Failing, Drill!Forward
  <1>5. CASE call[Drill!Reported[step]] # "done"
    <2>1. script' = "failing" /\ UNCHANGED <<said, step>>
      BY <1>5 DEF Drill!Answer, Drill!Accepted
    <2>2. call'[Drill!Reported[step]] = "broken"
      BY <1>1, <1>5 DEF Drill!Answer, Drill!Advancing
    <2>3. ~Drill!Clean'
      BY <2>2 DEF Drill!Clean
    <2>4. QED
      BY <1>1, <1>2, <2>1, <2>3 DEF Drill!Advancing, Drill!Failing, Drill!Forward
  <1>6. QED
    BY <1>3, <1>4, <1>5

LEMMA DrillClose ==
    ASSUME Drill!IInv, Drill!GiveUp \/ Drill!ReportFailure \/ Drill!Exit
    PROVE  Drill!IInv'
  <1> USE DrillNames DEF Drill!IInv, Drill!Shaped
  <1>1. UNCHANGED <<state, coded, evidence, events, step>>
    BY DEF Drill!GiveUp, Drill!ReportFailure, Drill!Exit, Drill!row
  <1>2. CASE Drill!GiveUp
    BY <1>1, <1>2
       DEF Drill!GiveUp, Drill!CodeOnlyWhenFailed, Drill!InOrder, Drill!Advancing,
           Drill!Failing, Drill!Forward, Drill!Clean
  <1>3. CASE Drill!ReportFailure /\ step = 1
    BY <1>1, <1>3
       DEF Drill!ReportFailure, Drill!CodeOnlyWhenFailed, Drill!InOrder,
           Drill!Advancing, Drill!Failing, Drill!Forward, Drill!Clean
  <1>4. CASE Drill!ReportFailure /\ step # 1
    <2>1. /\ script = "failing" /\ script' = "closing" /\ said = "none" /\ said' = "none"
          /\ call' = [call EXCEPT !["FAILED"] = "sent"] /\ lost' = lost
      BY <1>4 DEF Drill!ReportFailure, Drill!Become
    <2>2. ~Drill!Forward /\ ~Drill!Forward'
      BY <2>1 DEF Drill!Forward
    <2>3. Drill!Shaped' /\ Drill!CodeOnlyWhenFailed' /\ Drill!InOrder'
      BY <1>1, <2>1 DEF Drill!CodeOnlyWhenFailed, Drill!InOrder
    <2>4. Drill!Clean' => Drill!Clean
      BY <1>1, <2>1 DEF Drill!Clean, Drill!InOrder
    <2>5. Drill!Failing'
      BY <1>1, <2>1, <2>2, <2>4 DEF Drill!Failing, Drill!Before
    <2>6. QED
      BY <2>2, <2>3, <2>5 DEF Drill!Advancing
  <1>5. CASE Drill!Exit
    <2>1. /\ script = "closing" /\ script' = "exited" /\ said = "none" /\ said' = "FAIL"
          /\ call' = call
          /\ ~lost' => ~lost /\ call["FAILED"] \in {"done", "refused", "broken"}
          /\ lost' \in BOOLEAN
      BY <1>5 DEF Drill!Exit
    <2>2. ~Drill!Forward /\ ~Drill!Forward'
      BY <2>1 DEF Drill!Forward
    <2>3. Drill!Clean' => Drill!Clean /\ call["FAILED"] \in {"done", "refused"}
      BY <1>1, <2>1 DEF Drill!Clean
    <2>4. Drill!Failing'
      BY <1>1, <2>1, <2>2, <2>3 DEF Drill!Failing, Drill!Before
    <2>5. QED
      BY <1>1, <2>1, <2>2, <2>4
         DEF Drill!Advancing, Drill!CodeOnlyWhenFailed, Drill!InOrder
  <1>6. QED
    BY <1>2, <1>3, <1>4, <1>5

\* What a step of the service on call s leaves as it is: mark is where the call
\* is after it.
DrillServed(s, mark) ==
    /\ Drill!Forward' <=> Drill!Forward
    /\ Drill!Clean' => Drill!Clean /\ mark # "broken"
    /\ \A j, k \in Drill!Numbers :
          j < k /\ call'[Drill!Reported[k]] # "idle" => call'[Drill!Reported[j]] = "done"
    /\ Drill!Forward => /\ s = Drill!Reported[step] /\ script = "waiting" /\ said = "none"
                        /\ call'["FAILED"] = "idle"
                        /\ \A j \in Drill!Numbers : j # step =>
                              call'[Drill!Reported[j]] = call[Drill!Reported[j]]
    /\ ~Drill!Forward /\ Drill!Clean =>
          /\ s = "FAILED" /\ script = "closing" /\ said = "none" /\ step \in 3 .. 5
          /\ \A j \in Drill!Numbers :
                call'[Drill!Reported[j]] = call[Drill!Reported[j]]
    /\ script \in {"working", "waiting", "failing"} => call'["FAILED"] = "idle"
    /\ call' \in [Drill!States -> {"idle", "sent", "read", "written", "done",
                                   "refused", "broken"}]
    /\ call'[s] = mark
    /\ step' = step /\ script' = script /\ said' = said /\ lost' = lost

LEMMA DrillService ==
    ASSUME Drill!IInv, NEW s \in Drill!States,
           NEW mark \in {"read", "written", "done", "refused", "broken"},
           call[s] \in {"sent", "read", "written"},
           call' = [call EXCEPT ![s] = mark],
           UNCHANGED <<step, script, said, lost>>
    PROVE  DrillServed(s, mark)
  <1> USE DrillNames DEF Drill!IInv, Drill!Shaped
  <1>1. Drill!Forward' <=> Drill!Forward
    BY DEF Drill!Forward
  <1>2. Drill!Clean' => Drill!Clean /\ mark # "broken"
    BY DEF Drill!Clean
  <1>3. \A j, k \in Drill!Numbers :
           j < k /\ call'[Drill!Reported[k]] # "idle" => call'[Drill!Reported[j]] = "done"
    BY DEF Drill!InOrder
  <1>4. /\ Drill!Forward => s = Drill!Reported[step] /\ script = "waiting" /\ said = "none"
        /\ ~Drill!Forward /\ Drill!Clean =>
              s = "FAILED" /\ script = "closing" /\ said = "none" /\ step \in 3 .. 5
    BY DrillActive
  <1>5. script \in {"working", "waiting", "failing"} => call'["FAILED"] = "idle"
    BY DEF Drill!InOrder
  <1>6. QED
    BY <1>1, <1>2, <1>3, <1>4, <1>5 DEF DrillServed

\* The two halves of the invariant that say where row and events are.
LEMMA DrillHalves ==
    ASSUME Drill!IInv, NEW s \in Drill!States,
           NEW mark \in {"read", "written", "done", "refused", "broken"},
           DrillServed(s, mark),
           Drill!Forward =>
              /\ mark # "refused"
              /\ mark = "read" => state' = Drill!Before(step)
              /\ mark \in {"written", "done"} => state' = Drill!Reported[step]
              /\ Len(events') = IF mark = "done" THEN step ELSE step - 1
              /\ \A i \in 1 .. Len(events') : events'[i] = Drill!Reported[i],
           ~Drill!Forward /\ Drill!Clean /\ mark # "broken" =>
              /\ mark # "refused"
              /\ mark = "read" => state' = Drill!Before(step)
              /\ mark \in {"written", "done"} => state' = "FAILED"
              /\ mark = "done" => events' # <<>> /\ Drill!Last(events') = "FAILED"
    PROVE  Drill!Advancing' /\ Drill!Failing'
  <1> USE DrillNames DEF Drill!IInv, Drill!Shaped, DrillServed
  <1>1. Drill!Before(step)' = Drill!Before(step)
    BY DEF Drill!Before
  <1>2. CASE Drill!Forward
    <2>1. Drill!Forward' /\ step \in Drill!Numbers
      BY <1>2
    <2>2. \A j \in Drill!Numbers : /\ j < step => call'[Drill!Reported[j]] = "done"
                                   /\ j > step => call'[Drill!Reported[j]] = "idle"
      BY <1>2 DEF Drill!Advancing
    <2>3. Drill!Advancing'
      BY <1>1, <1>2, <2>1, <2>2 DEF Drill!Advancing
    <2>4. QED
      BY <2>1, <2>3 DEF Drill!Failing
  <1>3. CASE ~Drill!Forward /\ ~Drill!Clean'
    BY <1>3 DEF Drill!Advancing, Drill!Failing
  <1>4. CASE ~Drill!Forward /\ Drill!Clean'
    <2>1. ~Drill!Forward' /\ Drill!Clean /\ mark # "broken" /\ s = "FAILED"
      BY <1>4
    <2>2. step \in 3 .. 5 /\ script = "closing" /\ said = "none"
      BY <1>4, <2>1
    <2>3. \A j \in Drill!Numbers :
             call'[Drill!Reported[j]] = IF j < step THEN "done" ELSE "idle"
      BY <1>4, <2>1 DEF Drill!Failing
    <2>4. Drill!Failing'
      BY <1>1, <1>4, <2>1, <2>2, <2>3 DEF Drill!Failing
    <2>5. QED
      BY <2>1, <2>4 DEF Drill!Advancing
  <1>5. QED
    BY <1>2, <1>3, <1>4

LEMMA DrillRead ==
    ASSUME Drill!IInv, NEW s \in Drill!States, Drill!Read(s)
    PROVE  Drill!IInv'
  <1> USE DrillNames DEF Drill!IInv, Drill!Shaped
  <1>1. PICK mark \in {"read", "refused"} :
           /\ call' = [call EXCEPT ![s] = mark]
           /\ (state # "none" /\ s \in Drill!Allowed(state)) => mark = "read"
    BY DEF Drill!Read, Drill!Become, Drill!MayFollow
  <1>2. /\ s # "PLANNED" /\ call[s] = "sent"
        /\ UNCHANGED <<state, coded, evidence, events, step, script, said, lost>>
    BY DEF Drill!Read, Drill!row
  <1>3. DrillServed(s, mark)
    BY <1>1, <1>2, DrillService
  <1>4. Drill!Shaped' /\ Drill!CodeOnlyWhenFailed' /\ Drill!InOrder'
    BY <1>1, <1>2, <1>3 DEF DrillServed, Drill!CodeOnlyWhenFailed, Drill!InOrder
  <1>5. ASSUME Drill!Forward
        PROVE  /\ mark = "read" /\ state' = Drill!Before(step)
               /\ Len(events') = step - 1
               /\ \A i \in 1 .. Len(events') : events'[i] = Drill!Reported[i]
    <2>1. s = Drill!Reported[step] /\ step \in 2 .. 7
      BY <1>2, <1>3, <1>5 DEF DrillServed
    <2>2. state = Drill!Reported[step - 1] /\ step - 1 \in Drill!Numbers
      BY <1>2, <1>5, <2>1 DEF Drill!Advancing, Drill!Before
    <2>3. s \in Drill!Allowed(state) /\ state # "none"
      BY <2>1, <2>2
    <2>4. QED
      BY <1>1, <1>2, <1>5, <2>1, <2>3 DEF Drill!Advancing
  <1>6. ASSUME ~Drill!Forward, Drill!Clean
        PROVE  mark = "read" /\ state' = Drill!Before(step)
    <2>1. s = "FAILED" /\ step \in 3 .. 5
      BY <1>3, <1>6 DEF DrillServed
    <2>2. state = Drill!Reported[step - 1] /\ step - 1 \in Drill!Numbers
      BY <1>2, <1>6, <2>1 DEF Drill!Failing, Drill!Before
    <2>3. s \in Drill!Allowed(state) /\ state # "none"
      BY <2>1, <2>2
    <2>4. QED
      BY <1>1, <1>2, <1>6, <2>1, <2>3 DEF Drill!Failing
  <1>7. Drill!Advancing' /\ Drill!Failing'
    BY <1>3, <1>5, <1>6, DrillHalves
  <1>8. QED
    BY <1>4, <1>7

LEMMA DrillWrite ==
    ASSUME Drill!IInv, NEW s \in Drill!States, Drill!Write(s)
    PROVE  Drill!IInv'
  <1> USE DrillNames DEF Drill!IInv, Drill!Shaped
  <1>1. /\ call[s] \in {"sent", "read"} /\ state' = s
        /\ coded' = (s = "FAILED") /\ call' = [call EXCEPT ![s] = "written"]
        /\ UNCHANGED <<evidence, events, step, script, said, lost>>
    BY DEF Drill!Write, Drill!Become, Drill!CodeAfter
  <1>2. DrillServed(s, "written")
    BY <1>1, DrillService
  <1>3. Drill!Shaped' /\ Drill!CodeOnlyWhenFailed' /\ Drill!InOrder'
    <2>1. coded' \in BOOLEAN /\ Drill!CodeOnlyWhenFailed'
      BY <1>1 DEF Drill!CodeOnlyWhenFailed
    <2>2. Drill!Shaped'
      BY <1>1, <1>2, <2>1 DEF DrillServed
    <2>3. Drill!InOrder'
      BY <1>1, <1>2 DEF DrillServed, Drill!InOrder
    <2>4. QED
      BY <2>1, <2>2, <2>3
  <1>4. Drill!Forward => /\ state' = Drill!Reported[step] /\ Len(events') = step - 1
                         /\ \A i \in 1 .. Len(events') : events'[i] = Drill!Reported[i]
    BY <1>1, <1>2 DEF DrillServed, Drill!Advancing
  <1>5. ~Drill!Forward /\ Drill!Clean => state' = "FAILED"
    BY <1>1, <1>2 DEF DrillServed
  <1>6. Drill!Advancing' /\ Drill!Failing'
    BY <1>2, <1>4, <1>5, DrillHalves
  <1>7. QED
    BY <1>3, <1>6

LEMMA DrillAppendEvent ==
    ASSUME Drill!IInv, NEW s \in Drill!States, Drill!AppendEvent(s)
    PROVE  Drill!IInv'
  <1> USE DrillNames DEF Drill!IInv, Drill!Shaped
  <1>1. /\ call[s] = "written" /\ events' = Append(events, s)
        /\ call' = [call EXCEPT ![s] = "done"]
        /\ s = "RECONCILIATION_PASSED" => evidence = Services
        /\ UNCHANGED <<state, coded, evidence, step, script, said, lost>>
    BY DEF Drill!AppendEvent, Drill!Become, Drill!EvidenceDone
  <1>2. /\ events' \in Seq(Drill!States) /\ Len(events') = Len(events) + 1
        /\ events'[Len(events) + 1] = s
        /\ \A i \in 1 .. Len(events) : events'[i] = events[i]
        /\ Len(events) \in Nat
    BY <1>1
  <1>3. DrillServed(s, "done")
    BY <1>1, DrillService
  <1>4. Drill!Shaped' /\ Drill!CodeOnlyWhenFailed' /\ Drill!InOrder'
    BY <1>1, <1>2, <1>3 DEF DrillServed, Drill!CodeOnlyWhenFailed, Drill!InOrder
  <1>5. ASSUME Drill!Forward
        PROVE  /\ state' = Drill!Reported[step] /\ Len(events') = step
               /\ \A i \in 1 .. Len(events') : events'[i] = Drill!Reported[i]
    <2>1. s = Drill!Reported[step] /\ step \in Drill!Numbers
      BY <1>3, <1>5 DEF DrillServed
    <2>2. /\ Len(events) = step - 1 /\ state = Drill!Reported[step]
          /\ \A i \in 1 .. Len(events) : events[i] = Drill!Reported[i]
      BY <1>1, <1>5, <2>1 DEF Drill!Advancing
    <2>3. QED
      BY <1>1, <1>2, <2>1, <2>2
  <1>6. ASSUME ~Drill!Forward, Drill!Clean
        PROVE  state' = "FAILED" /\ events' # <<>> /\ Drill!Last(events') = "FAILED"
    <2>1. s = "FAILED" /\ state = "FAILED"
      BY <1>1, <1>3, <1>6 DEF DrillServed, Drill!Failing
    <2>2. Len(events') # 0 /\ Drill!Last(events') = events'[Len(events')]
      BY <1>2 DEF Drill!Last
    <2>3. events'[Len(events')] = "FAILED" /\ state' = "FAILED"
      BY <1>1, <1>2, <2>1
    <2>4. events' # <<>>
      BY <2>2
    <2>5. QED
      BY <2>2, <2>3, <2>4
  <1>7. Drill!Advancing' /\ Drill!Failing'
    BY <1>3, <1>5, <1>6, DrillHalves
  <1>8. QED
    BY <1>4, <1>7

LEMMA DrillNext ==
    ASSUME Drill!ConstantsOK, Drill!IInv, [Drill!Next]_Drill!vars
    PROVE  Drill!IInv'
  <1>1. ASSUME NEW s \in Drill!States, Drill!Record(s)
        PROVE  Drill!IInv'
    <2>1. /\ evidence' \subseteq Services /\ call["RECONCILIATION_PASSED"] = "written"
          /\ UNCHANGED <<state, coded, events, call, step, script, said, lost>>
      BY <1>1 DEF Drill!Record, Drill!IInv, Drill!Shaped
    <2>2. QED
      BY <2>1
         DEF Drill!IInv, Drill!Shaped, Drill!CodeOnlyWhenFailed, Drill!InOrder,
             Drill!Advancing, Drill!Failing, Drill!Forward, Drill!Clean, Drill!Before
  <1>2. ASSUME NEW s \in Drill!States, Drill!Break(s)
        PROVE  Drill!IInv'
    <2>1. /\ call[s] \in {"sent", "read", "written"}
          /\ call' = [call EXCEPT ![s] = "broken"]
          /\ UNCHANGED <<state, coded, evidence, events, step, script, said, lost>>
      BY <1>2 DEF Drill!Break, Drill!Become, Drill!row
    <2> USE DrillNames DEF Drill!IInv, Drill!Shaped
    <2>2. DrillServed(s, "broken")
      BY <2>1, DrillService
    <2>3. Drill!Shaped' /\ Drill!CodeOnlyWhenFailed' /\ Drill!InOrder'
      BY <2>1, <2>2 DEF DrillServed, Drill!CodeOnlyWhenFailed, Drill!InOrder
    <2>4. Drill!Forward => /\ Len(events') = step - 1
                           /\ \A i \in 1 .. Len(events') : events'[i] = Drill!Reported[i]
      BY <2>1, <2>2 DEF DrillServed, Drill!Advancing
    <2>5. Drill!Advancing' /\ Drill!Failing'
      BY <2>2, <2>4, DrillHalves
    <2>6. QED
      BY <2>3, <2>5
  <1>3. CASE \/ \E o \in Operators : Drill!AcknowledgeRead(o) \/ Drill!AcknowledgeWrite(o)
             \/ UNCHANGED Drill!vars
    <2>1. UNCHANGED <<state, coded, evidence, events, call, step, script, said, lost>>
      BY <1>3 DEF Drill!AcknowledgeRead, Drill!AcknowledgeWrite, Drill!row, Drill!vars
    <2>2. QED
      BY <2>1
         DEF Drill!IInv, Drill!Shaped, Drill!CodeOnlyWhenFailed, Drill!InOrder,
             Drill!Advancing, Drill!Failing, Drill!Forward, Drill!Clean, Drill!Before
  <1>4. QED
    BY <1>1, <1>2, <1>3, DrillWork, DrillAnswer, DrillClose, DrillRead, DrillWrite,
       DrillAppendEvent DEF Drill!Next

LEMMA DrillSafe ==
    ASSUME Drill!IInv
    PROVE  /\ Drill!PassedHasEvidence /\ Drill!CodeOnlyWhenFailed
           /\ Drill!PassIsRecorded /\ Drill!FailureIsShown
  <1> USE DrillNames DEF Drill!IInv, Drill!Shaped
  <1>1. Drill!PassedHasEvidence
    BY DEF Drill!PassedHasEvidence, Drill!InOrder
  <1>2. Drill!PassIsRecorded
    <2> SUFFICES ASSUME said = "PASS"
                 PROVE  state = "CLEANED_UP" /\ events = Drill!Reported
      BY DEF Drill!PassIsRecorded
    <2>1. /\ step = 7 /\ state = "CLEANED_UP" /\ Len(events) = 7
          /\ \A i \in 1 .. 7 : events[i] = Drill!Reported[i]
      <3>1. Drill!Forward /\ step \in Drill!Numbers
        BY DEF Drill!Forward
      <3>2. Drill!Advancing
        OBVIOUS
      <3> HIDE DEF Drill!IInv, Drill!Shaped
      <3>3. step = 7 /\ call[Drill!Reported[step]] = "done"
        BY <3>1, <3>2 DEF Drill!Advancing
      <3>4. /\ state = Drill!Reported[step] /\ Len(events) = step
            /\ \A i \in 1 .. Len(events) : events[i] = Drill!Reported[i]
        BY <3>1, <3>2, <3>3 DEF Drill!Advancing
      <3>5. QED
        BY <3>3, <3>4
    <2>2. /\ Drill!Reported = [i \in 1 .. 7 |-> Drill!Reported[i]]
          /\ events = [i \in 1 .. Len(events) |-> events[i]]
      BY DEF Drill!Reported
    <2>3. [i \in 1 .. 7 |-> Drill!Reported[i]] = [i \in 1 .. 7 |-> events[i]]
      BY <2>1
    <2>4. events = Drill!Reported
      BY <2>1, <2>2, <2>3
    <2>5. QED
      BY <2>1, <2>4
  <1>3. Drill!FailureIsShown
    BY DEF Drill!FailureIsShown, Drill!Failing, Drill!Forward, Drill!Clean
  <1>4. QED
    BY <1>1, <1>2, <1>3

-----------------------------------------------------------------------------
(* Backups and restores *)

\* The databases of restore r counted, before and after one is added.
LEMMA BackupCounting ==
    ASSUME Backup!IsFiniteSet(databases)
    PROVE  /\ Backup!Cardinality({}) = 0
           /\ \A x : Backup!IsFiniteSet(databases \cup {x})
           /\ \A S \in SUBSET databases : Backup!IsFiniteSet(S)
           /\ \A S \in SUBSET databases : Backup!Cardinality(S) \in Nat
           /\ \A S \in SUBSET databases : \A x :
                 x \notin S => Backup!Cardinality(S \cup {x}) = Backup!Cardinality(S) + 1
  <1>1. \A S : Backup!IsFiniteSet(S) <=> IsFiniteSet(S)
    BY DEF Backup!IsFiniteSet, IsFiniteSet
  <1>2. \A S : Backup!Cardinality(S) = Cardinality(S)
    BY DEF Backup!Cardinality, Cardinality
  <1>3. \A S \in SUBSET databases : IsFiniteSet(S)
    BY <1>1, FS_Subset
  <1>4. QED
    BY <1>1, <1>2, <1>3, FS_CardinalityType, FS_AddElement, FS_EmptySet

LEMMA BackupInit ==
    ASSUME Backup!ConstantsOK, Backup!Init
    PROVE  Backup!IInv
  <1> USE DEF Backup!Init, Backup!Nothing
  <1>1. Backup!IsFiniteSet(databases)
    <2>1. Backup!IsFiniteSet({}) <=> IsFiniteSet({})
      BY DEF Backup!IsFiniteSet, IsFiniteSet
    <2>2. QED
      BY <2>1, FS_EmptySet
  <1>2. Backup!Shaped
    <2>1. file \in [Sets -> [Backup!Range(Scope) ->
                               {Backup!Broken} \cup (Sets \X Backup!Range(Scope))]]
      OBVIOUS
    <2>2. QED
      BY <1>1, <2>1 DEF Backup!Shaped, Backup!IsMap, Backup!Published, Backup!Unreadable
  <1>3. Backup!DumpedSince /\ Backup!AsPublished
    BY DEF Backup!DumpedSince, Backup!AsPublished, Backup!Published
  <1>4. \A r \in Backup!Restores : Backup!Chose(r) /\ Backup!Entries(r)
    BY DEF Backup!Chose, Backup!Entries, Backup!Good, Backup!Owned, Backup!Files
  <1>5. QED
    BY <1>2, <1>3, <1>4
       DEF Backup!IInv, Backup!NothingLeftBehind, Backup!LatestIsNewest, Backup!Restores

\* What backups do disturbs no restore: a published set stays as it is.
LEMMA BackupSide ==
    ASSUME Backup!IInv,
           UNCHANGED <<rpc, chosen, rivals, databases, plain, restored, code>>,
           \A b \in Sets : bpc[b] = "published" =>
              bpc'[b] = "published" /\ createdAt'[b] = createdAt[b],
           exchanged \subseteq exchanged',
           \A r \in Backup!Restores, v \in Backup!Range(Scope) :
              rpc[r] \in {"restore", "loaded"} => Backup!Readable(r, v)',
           Backup!Shaped', Backup!DumpedSince', Backup!AsPublished'
    PROVE  Backup!IInv'
  <1> USE DEF Backup!IInv, Backup!Shaped
  <1>1. \A b \in Backup!Published : /\ b \in Backup!Published' /\ b \in Sets
                                    /\ createdAt'[b] = createdAt[b]
    BY DEF Backup!Published
  <1>2. ASSUME NEW r \in Backup!Restores
        PROVE  Backup!Chose(r)' /\ Backup!Entries(r)'
    <2>1. Backup!Chose(r) /\ Backup!Entries(r)
      OBVIOUS
    <2>2. /\ Backup!Good(r)' <=> Backup!Good(r)
          /\ Backup!Made(r)' = Backup!Made(r) /\ Backup!Owned(r)' = Backup!Owned(r)
          /\ Backup!Files(r)' = Backup!Files(r)
          /\ \A n : Backup!Upto(n)' = Backup!Upto(n)
      BY DEF Backup!Good, Backup!Made, Backup!Owned, Backup!Files, Backup!Upto
    <2>3. Backup!Chose(r)'
      BY <1>1, <2>1, <2>2 DEF Backup!Chose
    <2>4. \A d \in Backup!Dumps : d \in Backup!Dumps'
      <3> HIDE DEF Backup!IInv, Backup!Shaped
      <3>1. QED
        BY <1>1 DEF Backup!Dumps
    <2>5. \A s : /\ Backup!Own(r, s)' <=> Backup!Own(r, s)
                 /\ Backup!Swapped(r, s) => Backup!Swapped(r, s)'
      <3> HIDE DEF Backup!IInv, Backup!Shaped
      <3>1. QED
        BY <2>4 DEF Backup!Own, Backup!Swapped
    <2>6. Backup!Entries(r)'
      <3> HIDE DEF Backup!IInv, Backup!Shaped
      <3>1. /\ rpc'[r] \in {"idle", "verify"} =>
                  Backup!Owned(r)' = {} /\ Backup!Files(r)' = {} /\ restored'[r] = Backup!Nothing
            /\ rpc'[r] \in {"restore", "loaded"} =>
                  /\ Backup!Made(r)' \in 0 .. Len(Scope)
                  /\ Backup!Owned(r)' = {<<r, v>> : v \in Backup!Upto(Backup!Made(r))'}
                  /\ \A v \in Backup!Range(Scope) : Backup!Readable(r, v)'
            /\ rpc'[r] = "restore" =>
                  Backup!Files(r)' = {} /\ DOMAIN restored'[r] = Backup!Upto(Backup!Made(r))'
        BY <2>1, <2>2 DEF Backup!Entries, Backup!Nothing
      <3>2. rpc'[r] = "loaded" =>
               /\ Backup!Made(r)' > 0 /\ DOMAIN restored'[r] = Backup!Upto(Backup!Made(r) - 1)'
               /\ \E d \in Backup!Dumps' :
                     /\ Backup!Files(r)' = {<<r, Scope[Backup!Made(r)'], d>>}
                     /\ \/ d = <<chosen'[r], Scope[Backup!Made(r)']>>
                        \/ <<r, Scope[Backup!Made(r)']>> \in exchanged'
        BY <2>1, <2>2, <2>4 DEF Backup!Entries
      <3>3. /\ rpc'[r] \in {"cleanup", "exited"} /\ code'[r] = 0 =>
                  DOMAIN restored'[r] = Backup!Range(Scope)
            /\ Backup!Good(r)' => \A s \in DOMAIN restored'[r] :
                  Backup!Own(r, s)' \/ Backup!Swapped(r, s)'
        BY <2>1, <2>2, <2>5 DEF Backup!Entries
      <3>4. QED
        BY <3>1, <3>2, <3>3 DEF Backup!Entries
    <2>7. QED
      BY <2>3, <2>6
  <1>3. Backup!NothingLeftBehind'
    BY DEF Backup!NothingLeftBehind
  <1>4. Backup!LatestIsNewest'
    <2> SUFFICES ASSUME NEW r \in Latest, chosen'[r] \in rivals'[r],
                        NEW b \in rivals'[r] \ {chosen'[r]}
                 PROVE  createdAt'[b] < createdAt'[chosen'[r]]
      BY DEF Backup!LatestIsNewest
    <2>1. r \in Backup!Restores /\ Backup!Chose(r) /\ b \in rivals[r] \ {chosen[r]}
      BY DEF Backup!Restores
    <2>2. b \in Backup!Published /\ chosen[r] \in Backup!Published
      BY <2>1
    <2>3. createdAt[b] < createdAt[chosen[r]]
      BY <2>1 DEF Backup!LatestIsNewest
    <2>4. QED
      BY <1>1, <2>2, <2>3
  <1>5. QED
    BY <1>2, <1>3, <1>4

\* Steps that leave the dump files alone.
LEMMA BackupQuiet ==
    ASSUME Backup!IInv,
           UNCHANGED <<file, exchanged, rpc, chosen, rivals, databases, plain, restored, code>>,
           \A b \in Sets : bpc[b] = "published" =>
              bpc'[b] = "published" /\ createdAt'[b] = createdAt[b],
           Backup!Shaped', Backup!DumpedSince', Backup!AsPublished'
    PROVE  Backup!IInv'
  <1>1. \A r \in Backup!Restores, v \in Backup!Range(Scope) :
           rpc[r] \in {"restore", "loaded"} => Backup!Readable(r, v)'
    BY DEF Backup!IInv, Backup!Entries, Backup!Readable
  <1>2. QED
    BY <1>1, BackupSide

\* Steps that publish nothing and touch no manifest either.
LEMMA BackupKept ==
    ASSUME Backup!AsPublished, UNCHANGED <<file, manifest, touched>>,
           Backup!Published' = Backup!Published,
           \A b \in Backup!Published : createdAt'[b] = createdAt[b]
    PROVE  Backup!AsPublished'
  <1>1. Backup!Dumps' = Backup!Dumps
    BY DEF Backup!Dumps
  <1>2. QED
    BY <1>1 DEF Backup!AsPublished

LEMMA BackupSteps ==
    ASSUME Backup!ConstantsOK, Backup!IInv,
           \/ Backup!Tick
           \/ \E t \in Transfers : Backup!Settle(t)
           \/ \E b \in Sets : \/ Backup!StartBackup(b) \/ Backup!Dump(b)
                              \/ Backup!Publish(b) \/ Backup!FailBackup(b)
                              \/ \E v \in Backup!Range(Scope),
                                    f \in Backup!Dumps \cup {Backup!Broken} :
                                    Backup!Damage(b, v, f)
                              \/ \E date \in 0 .. BackupTime \cup {Backup!Unreadable} :
                                    Backup!DamageManifest(b, date)
    PROVE  Backup!IInv'
  <1> USE DEF Backup!IInv, Backup!Shaped, Backup!DumpedSince, Backup!restore, Backup!live,
              Backup!backups, Backup!disk, Backup!IsMap
  <1>1. CASE Backup!Tick
    <2>1. now' \in Nat
      BY <1>1 DEF Backup!Tick
    <2>2. Backup!Shaped' /\ Backup!DumpedSince'
      BY <1>1, <2>1 DEF Backup!Tick, Backup!Published
    <2>3. Backup!AsPublished'
      BY <1>1, BackupKept DEF Backup!Tick, Backup!Published
    <2>4. QED
      BY <1>1, <2>2, <2>3, BackupQuiet DEF Backup!Tick
  <1>2. ASSUME NEW t \in Transfers, Backup!Settle(t)
        PROVE  Backup!IInv'
    <2>1. completed \subseteq completed' /\ completed' \subseteq posted'
      BY <1>2 DEF Backup!Settle
    <2>2. Backup!Shaped' /\ Backup!DumpedSince'
      BY <1>2, <2>1 DEF Backup!Settle, Backup!Published
    <2>3. Backup!AsPublished'
      BY <1>2, BackupKept DEF Backup!Settle, Backup!Published
    <2>4. QED
      BY <1>2, <2>2, <2>3, BackupQuiet DEF Backup!Settle
  <1>3. ASSUME NEW b \in Sets, Backup!StartBackup(b)
        PROVE  Backup!IInv'
    <2>0. /\ Backup!Published' = Backup!Published
          /\ \A c \in Backup!Published : createdAt'[c] = createdAt[c]
      BY <1>3 DEF Backup!StartBackup, Backup!Published
    <2>1. Backup!Shaped'
      BY <1>3, <2>0 DEF Backup!StartBackup
    <2>2. Backup!DumpedSince'
      BY <1>3 DEF Backup!StartBackup, Backup!Nothing
    <2>3. Backup!AsPublished'
      BY <1>3, <2>0, BackupKept DEF Backup!StartBackup
    <2>4. QED
      BY <1>3, <2>1, <2>2, <2>3, BackupQuiet DEF Backup!StartBackup
  <1>4. ASSUME NEW b \in Sets, Backup!Dump(b)
        PROVE  Backup!IInv'
    <2> DEFINE v == Scope[Backup!Cardinality(DOMAIN dumps[b]) + 1]
    <2>1. /\ bpc[b] = "dumping"
          /\ dumps' = [dumps EXCEPT ![b] = Backup!Added(dumps[b], v, Backup!Contents(v))]
          /\ UNCHANGED <<now, posted, completed, before, createdAt, bpc, file,
                       manifest, touched, exchanged, rpc,
                         chosen, rivals, databases, plain, restored, code>>
      BY <1>4 DEF Backup!Dump
    <2> HIDE DEF v
    <2>2. v \in {"ledger", "payments"} => before[b] \subseteq Backup!Contents(v)
      BY DEF Backup!Contents
    <2>3. /\ dumps'[b] = Backup!Added(dumps[b], v, Backup!Contents(v))
          /\ \A c \in Sets \ {b} : dumps'[c] = dumps[c]
      BY <2>1
    <2>4. /\ Backup!IsMap(dumps'[b])
          /\ DOMAIN dumps'[b] = DOMAIN dumps[b] \cup {v}
          /\ \A s \in DOMAIN dumps'[b] :
                dumps'[b][s] = IF s = v THEN Backup!Contents(v) ELSE dumps[b][s]
      BY <2>3 DEF Backup!Added
    <2>5. Backup!Shaped'
      <3>1. \A c \in Sets : Backup!IsMap(dumps'[c])
        <4>1. \A c \in Sets : Backup!IsMap(dumps[c])
          OBVIOUS
        <4> HIDE DEF Backup!IsMap, Backup!IInv
        <4>2. QED
          BY <2>3, <2>4, <4>1
      <3>2. dumps' = [c \in Sets |-> dumps'[c]]
        BY <2>1
      <3> HIDE DEF Backup!IsMap, Backup!DumpedSince
      <3>3. QED
        BY <2>1, <3>1, <3>2 DEF Backup!Published
    <2>6. Backup!DumpedSince'
      BY <2>1, <2>2, <2>3, <2>4
    <2>7. Backup!AsPublished'
      BY <2>1, BackupKept DEF Backup!Published
    <2>8. QED
      BY <2>1, <2>5, <2>6, <2>7, BackupQuiet
  <1>5. ASSUME NEW b \in Sets, Backup!Publish(b)
        PROVE  Backup!IInv'
    <2>1. Backup!Published' = Backup!Published \cup {b} /\ b \notin Backup!Published
      BY <1>5 DEF Backup!Publish, Backup!Published
    <2>2. Backup!Shaped'
      <3> HIDE DEF Backup!DumpedSince, Backup!IsMap
      <3>1. QED
        BY <1>5, <2>1 DEF Backup!Publish
    <2>3. Backup!DumpedSince'
      BY <1>5 DEF Backup!Publish, Backup!Staged
    <2>4. \A c \in Sets, v \in Backup!Range(Scope) : file'[c][v] = file[c][v]
      BY <1>5 DEF Backup!Publish
    <2>5. \A d \in Backup!Dumps : d \in Backup!Dumps'
      <3> HIDE DEF Backup!IInv, Backup!Shaped, Backup!DumpedSince
      <3>1. QED
        BY <2>1 DEF Backup!Dumps
    <2>6. \A c \in Backup!Published' \ touched' : manifest'[c] = createdAt'[c]
      BY <1>5, <2>1 DEF Backup!Publish, Backup!AsPublished
    <2>7. Backup!AsPublished'
      <3>1. Backup!AsPublished
        OBVIOUS
      <3> HIDE DEF Backup!IInv, Backup!Shaped, Backup!DumpedSince
      <3>2. QED
        BY <2>1, <2>4, <2>5, <2>6, <3>1 DEF Backup!AsPublished
    <2>8. QED
      BY <1>5, <2>2, <2>3, <2>7, BackupQuiet DEF Backup!Publish
  <1>6. ASSUME NEW b \in Sets, Backup!FailBackup(b)
        PROVE  Backup!IInv'
    <2>1. /\ bpc' = [bpc EXCEPT ![b] = "failed"]
          /\ dumps' = [dumps EXCEPT ![b] = Backup!Nothing]
          /\ UNCHANGED <<now, posted, completed, before, createdAt, file, manifest, touched, exchanged, rpc,
                         chosen, rivals, databases, plain, restored, code>>
      BY <1>6 DEF Backup!FailBackup
    <2>2. DOMAIN Backup!Nothing = {} /\ Backup!IsMap(Backup!Nothing)
      BY DEF Backup!Nothing
    <2>3. Backup!DumpedSince'
      BY <2>1, <2>2
    <2>4. \A c \in Sets : Backup!IsMap(dumps'[c])
      <3>1. dumps'[b] = Backup!Nothing /\ \A c \in Sets \ {b} : dumps'[c] = dumps[c]
        BY <2>1
      <3>2. \A c \in Sets : Backup!IsMap(dumps[c])
        OBVIOUS
      <3> HIDE DEF Backup!IsMap, Backup!IInv
      <3>3. QED
        BY <2>2, <3>1, <3>2
    <2>5. Backup!Shaped'
      <3>1. \A c \in Sets : bpc[c] = "published" => bpc'[c] = "published"
        BY <1>6 DEF Backup!FailBackup
      <3>2. dumps' = [c \in Sets |-> dumps'[c]]
        BY <2>1
      <3>3. /\ rivals' \in [Backup!Restores -> SUBSET Backup!Published']
            /\ touched' \subseteq Backup!Published'
        BY <2>1, <3>1 DEF Backup!Published
      <3> HIDE DEF Backup!IsMap, Backup!DumpedSince
      <3>4. QED
        BY <2>1, <2>4, <3>2, <3>3
    <2>6. Backup!Published' = Backup!Published
      BY <1>6 DEF Backup!FailBackup, Backup!Published
    <2>7. Backup!AsPublished'
      BY <2>1, <2>6, BackupKept
    <2>8. QED
      BY <1>6, <2>1, <2>3, <2>5, <2>7, BackupQuiet DEF Backup!FailBackup
  <1>7. ASSUME NEW b \in Sets, NEW v \in Backup!Range(Scope),
               NEW f \in Backup!Dumps \cup {Backup!Broken}, Backup!Damage(b, v, f)
        PROVE  Backup!IInv'
    <2>1. /\ b \in Backup!Published
          /\ file' = [file EXCEPT ![b] = [file[b] EXCEPT ![v] = f]]
          /\ exchanged' = IF f \in {Backup!Broken, <<b, v>>} THEN exchanged
                          ELSE exchanged \cup {<<r, v>> : r \in Backup!Reading(b)}
          /\ UNCHANGED <<now, posted, completed, before, createdAt, dumps, bpc, manifest,
                         touched, rpc, chosen, rivals, databases, plain, restored, code>>
      BY <1>7 DEF Backup!Damage
    <2>2. /\ Backup!Published' = Backup!Published /\ Backup!Dumps' = Backup!Dumps
          /\ Backup!Dumps \subseteq Sets \X Backup!Range(Scope)
      BY <2>1 DEF Backup!Published, Backup!Dumps
    <2>3. /\ file' \in [Sets -> [Backup!Range(Scope) ->
                                 {Backup!Broken} \cup (Sets \X Backup!Range(Scope))]]
          /\ file'[b][v] = f
          /\ \A c \in Sets, w \in Backup!Range(Scope) :
                <<c, w>> # <<b, v>> => file'[c][w] = file[c][w]
      <3>1. f \in {Backup!Broken} \cup (Sets \X Backup!Range(Scope))
        BY <2>2
      <3>2. file \in [Sets -> [Backup!Range(Scope) ->
                                 {Backup!Broken} \cup (Sets \X Backup!Range(Scope))]]
        OBVIOUS
      <3> HIDE DEF Backup!IInv, Backup!Shaped, Backup!DumpedSince
      <3>3. QED
        BY <2>1, <3>1, <3>2
    <2>4. Backup!Shaped' /\ Backup!DumpedSince'
      <3>1. Backup!Shaped'
        <4> HIDE DEF Backup!DumpedSince, Backup!IsMap
        <4>1. \A c \in Sets : Backup!IsMap(dumps[c])' <=> Backup!IsMap(dumps[c])
          BY <2>1 DEF Backup!IsMap
        <4>2. \A r \in Backup!Restores : Backup!IsMap(restored[r])' <=> Backup!IsMap(restored[r])
          BY <2>1 DEF Backup!IsMap
        <4>3. QED
          BY <2>1, <2>2, <2>3, <4>1, <4>2
      <3>2. QED
        BY <2>1, <3>1
    <2>5. Backup!AsPublished'
      <3>1. Backup!AsPublished
        OBVIOUS
      <3> HIDE DEF Backup!IInv, Backup!Shaped, Backup!DumpedSince
      <3>2. ASSUME NEW c \in Sets, NEW w \in Backup!Range(Scope)
            PROVE  \/ file'[c][w] = <<c, w>>
                   \/ c \in Backup!Published' /\ file'[c][w] \in {Backup!Broken} \cup Backup!Dumps'
        <4>1. CASE <<c, w>> = <<b, v>>
          BY <2>1, <2>2, <2>3, <4>1
        <4>2. CASE <<c, w>> # <<b, v>>
          BY <2>2, <2>3, <3>1, <4>2 DEF Backup!AsPublished
        <4>3. QED
          BY <4>1, <4>2
      <3>3. \A c \in Backup!Published' \ touched' : manifest'[c] = createdAt'[c]
        BY <2>1, <2>2, <3>1 DEF Backup!AsPublished
      <3>4. Backup!Broken' = Backup!Broken
        BY DEF Backup!Broken
      <3>5. QED
        BY <3>2, <3>3, <3>4 DEF Backup!AsPublished
    <2>6. exchanged \subseteq exchanged'
      BY <2>1
    <2>7. ASSUME NEW r \in Backup!Restores, NEW w \in Backup!Range(Scope),
                 rpc[r] \in {"restore", "loaded"}
          PROVE  Backup!Readable(r, w)'
      <3>1. Backup!Readable(r, w) /\ chosen[r] \in Backup!Published
        BY <2>7 DEF Backup!Entries, Backup!Chose, Backup!Good
      <3>2. chosen[r] \in Sets /\ chosen'[r] = chosen[r]
        BY <2>1, <3>1 DEF Backup!Published
      <3> HIDE DEF Backup!IInv, Backup!Shaped, Backup!DumpedSince
      <3>3. CASE <<chosen[r], w>> = <<b, v>>
        <4>1. chosen[r] = b /\ w = v
          BY <3>3
        <4>2. r \in Backup!Reading(b)
          BY <2>7, <4>1 DEF Backup!Reading
        <4>3. file'[chosen'[r]][w] \in {Backup!Broken, <<chosen[r], w>>} \/ <<r, w>> \in exchanged'
          BY <2>1, <2>3, <3>2, <4>1, <4>2
        <4>4. QED
          BY <3>2, <4>3 DEF Backup!Readable, Backup!Broken
      <3>4. CASE <<chosen[r], w>> # <<b, v>>
        <4>1. file'[chosen'[r]][w] = file[chosen[r]][w]
          BY <2>3, <3>2, <3>4
        <4>2. QED
          BY <2>6, <3>1, <3>2, <4>1 DEF Backup!Readable, Backup!Broken
      <3>5. QED
        BY <3>3, <3>4
    <2>8. QED
      BY <2>1, <2>4, <2>5, <2>6, <2>7, BackupSide
  <1>8. ASSUME NEW b \in Sets, NEW date \in 0 .. BackupTime \cup {Backup!Unreadable},
               Backup!DamageManifest(b, date)
        PROVE  Backup!IInv'
    <2>1. /\ b \in Backup!Published /\ touched' = touched \cup {b}
          /\ manifest' = [manifest EXCEPT ![b] = date]
          /\ UNCHANGED <<now, posted, completed, before, createdAt, dumps, bpc, file,
                         exchanged, rpc, chosen, rivals, databases, plain, restored, code>>
      BY <1>8 DEF Backup!DamageManifest
    <2>2. Backup!Published' = Backup!Published /\ date \in Int
      BY <2>1 DEF Backup!Published, Backup!Unreadable, Backup!ConstantsOK
    <2>3. Backup!Shaped' /\ Backup!DumpedSince'
      BY <2>1, <2>2
    <2>4. Backup!AsPublished'
      <3>1. Backup!Dumps' = Backup!Dumps
        BY <2>2 DEF Backup!Dumps
      <3>2. QED
        BY <2>1, <2>2, <3>1 DEF Backup!AsPublished
    <2>5. QED
      BY <2>1, <2>3, <2>4, BackupQuiet
  <1>9. QED
    BY <1>1, <1>2, <1>3, <1>4, <1>5, <1>6, <1>7, <1>8

\* What a step of restore r leaves as it is.
RestoreOnly(r) ==
    /\ UNCHANGED <<now, posted, completed, before, createdAt, dumps, bpc, file, manifest, touched,
                   exchanged>>
    /\ \A q \in Backup!Restores \ {r} :
          /\ rpc'[q] = rpc[q] /\ chosen'[q] = chosen[q] /\ rivals'[q] = rivals[q]
          /\ restored'[q] = restored[q] /\ code'[q] = code[q]
          /\ Backup!Owned(q)' = Backup!Owned(q) /\ Backup!Files(q)' = Backup!Files(q)

LEMMA RestoreSide ==
    ASSUME Backup!IInv, NEW r \in Backup!Restores, RestoreOnly(r), Backup!Shaped',
           Backup!Chose(r)', Backup!Entries(r)',
           rpc'[r] = "exited" =>
              /\ Backup!Files(r)' = {}
              /\ code'[r] = 0 => Backup!Owned(r)' = {},
           r \in Latest /\ chosen'[r] \in rivals'[r] =>
              \A b \in rivals'[r] \ {chosen'[r]} : createdAt[b] < createdAt[chosen'[r]]
    PROVE  Backup!IInv'
  <1> USE DEF RestoreOnly
  <1>1. Backup!DumpedSince' /\ Backup!AsPublished'
    <2>1. Backup!Published' = Backup!Published
      BY DEF Backup!Published
    <2>2. Backup!AsPublished'
      BY <2>1, BackupKept DEF Backup!IInv
    <2>3. QED
      BY <2>2 DEF Backup!IInv, Backup!DumpedSince
  <1>2. ASSUME NEW q \in Backup!Restores \ {r}
        PROVE  Backup!Chose(q)' /\ Backup!Entries(q)'
    <2>1. Backup!Chose(q) /\ Backup!Entries(q)
      BY DEF Backup!IInv
    <2>2. /\ Backup!Made(q)' = Backup!Made(q)
          /\ Backup!Published' = Backup!Published
          /\ Backup!Good(q)' <=> Backup!Good(q)
          /\ \A n : Backup!Upto(n)' = Backup!Upto(n)
      BY DEF Backup!Made, Backup!Owned, Backup!Published, Backup!Good, Backup!Upto
    <2>3. Backup!Chose(q)'
      BY <2>1, <2>2 DEF Backup!Chose
    <2>4. /\ Backup!Dumps' = Backup!Dumps
          /\ \A v : /\ Backup!Readable(q, v)' <=> Backup!Readable(q, v)
                    /\ Backup!Own(q, v)' <=> Backup!Own(q, v)
                    /\ Backup!Swapped(q, v)' <=> Backup!Swapped(q, v)
      BY <2>2 DEF Backup!Dumps, Backup!Readable, Backup!Own, Backup!Swapped, Backup!Broken
    <2>5. Backup!Entries(q)'
      BY <2>1, <2>2, <2>4 DEF Backup!Entries
    <2>6. QED
      BY <2>3, <2>5
  <1>3. Backup!NothingLeftBehind'
    BY DEF Backup!IInv, Backup!NothingLeftBehind, Backup!Owned, Backup!Files
  <1>4. Backup!LatestIsNewest'
    BY DEF Backup!IInv, Backup!LatestIsNewest, Backup!Restores
  <1>5. QED
    BY <1>1, <1>2, <1>3, <1>4 DEF Backup!IInv

LEMMA RestoreSelect ==
    ASSUME Backup!ConstantsOK, Backup!IInv, NEW r \in Backup!Restores, Backup!Select(r)
    PROVE  Backup!IInv'
  <1>1. /\ rpc[r] = "idle" /\ rivals' = [rivals EXCEPT ![r] = Backup!Published \ touched]
        /\ UNCHANGED <<now, posted, completed, before, createdAt, dumps, bpc, file,
                       manifest, touched, exchanged,
                       databases, plain, restored>>
        /\ \/ /\ rpc' = [rpc EXCEPT ![r] = "cleanup"] /\ code' = [code EXCEPT ![r] = 1]
              /\ chosen' = chosen
           \/ /\ rpc' = [rpc EXCEPT ![r] = "verify"] /\ code' = code
              /\ \E b \in Backup!Selectable(r) : chosen' = [chosen EXCEPT ![r] = b]
    BY DEF Backup!Select, Backup!live, Backup!backups, Backup!disk, Backup!Goto
  <1>2. Backup!Shaped /\ Backup!Chose(r) /\ Backup!Entries(r) /\ Backup!Published' = Backup!Published
    BY <1>1 DEF Backup!IInv, Backup!Published
  <1>3. RestoreOnly(r)
    BY <1>1, <1>2 DEF RestoreOnly, Backup!Owned, Backup!Files, Backup!Shaped
  <1>4. Backup!Shaped'
    <2>1. rivals' \in [Backup!Restores -> SUBSET Backup!Published']
      BY <1>1, <1>2 DEF Backup!Shaped
    <2>2. QED
      BY <1>1, <1>2, <2>1 DEF Backup!Shaped
  <1>5. /\ Backup!Owned(r)' = {} /\ Backup!Files(r)' = {} /\ restored'[r] = Backup!Nothing
        /\ DOMAIN restored'[r] = {}
    BY <1>1, <1>2 DEF Backup!Entries, Backup!Owned, Backup!Files, Backup!Nothing
  <1>6. CASE code' = code
    <2>1. PICK b \in Backup!Selectable(r) : chosen' = [chosen EXCEPT ![r] = b]
      BY <1>1, <1>2, <1>6 DEF Backup!Shaped, Backup!Chose
    <2>2. rpc' = [rpc EXCEPT ![r] = "verify"]
      BY <1>1, <1>2, <1>6 DEF Backup!Shaped, Backup!Chose
    <2>3. /\ b \in Backup!Published /\ chosen'[r] = b /\ rpc'[r] = "verify"
          /\ r \in Latest => Backup!SoleNewest(b)
      BY <1>2, <2>1, <2>2 DEF Backup!Selectable, Backup!Shaped, Backup!Listed
    <2>4. Backup!Chose(r)'
      BY <1>2, <1>6, <1>1, <2>3 DEF Backup!Chose
    <2>5. Backup!Entries(r)'
      BY <1>5, <2>3 DEF Backup!Entries
    <2>6. r \in Latest /\ b \in rivals'[r] =>
             \A c \in rivals'[r] \ {b} : createdAt[c] < createdAt[b]
      <3>1. /\ rivals'[r] = Backup!Published \ touched
            /\ \A c \in rivals'[r] : manifest[c] = createdAt[c] /\ createdAt[c] \in Nat
        BY <1>1, <1>2 DEF Backup!IInv, Backup!AsPublished, Backup!Shaped, Backup!Published
      <3>2. \A c \in rivals'[r] : c \in Backup!Listed
        BY <3>1 DEF Backup!Listed, Backup!Unreadable
      <3>3. QED
        BY <2>3, <3>1, <3>2 DEF Backup!SoleNewest
    <2>7. QED
      BY <1>3, <1>4, <2>3, <2>4, <2>5, <2>6, RestoreSide
  <1>7. CASE code' # code
    <2>1. /\ rpc'[r] = "cleanup" /\ code'[r] = 1 /\ chosen'[r] = chosen[r]
      BY <1>1, <1>2, <1>7 DEF Backup!Shaped
    <2>2. Backup!Chose(r)'
      BY <1>2, <2>1 DEF Backup!Chose, Backup!Good
    <2>3. Backup!Entries(r)'
      BY <2>1 DEF Backup!Entries, Backup!Good
    <2>4. chosen'[r] \notin rivals'[r]
      <3>1. chosen'[r] = "none" /\ rivals'[r] \subseteq Sets
        BY <1>1, <1>2, <2>1 DEF Backup!Chose, Backup!Shaped, Backup!Published
      <3>2. QED
        BY <3>1 DEF Backup!ConstantsOK
    <2>5. QED
      BY <1>3, <1>4, <2>1, <2>2, <2>3, <2>4, RestoreSide
  <1>8. QED
    BY <1>6, <1>7

\* A restore that fails has nothing to show, whatever it had done.
LEMMA RestoreFails ==
    ASSUME Backup!IInv, NEW r \in Backup!Restores, RestoreOnly(r), Backup!Shaped',
           rpc[r] \in {"verify", "restore", "loaded"},
           rpc'[r] = "cleanup", code'[r] = 1, UNCHANGED <<chosen, rivals>>
    PROVE  Backup!IInv'
  <1>1. Backup!Chose(r) /\ Backup!LatestIsNewest /\ Backup!Published' = Backup!Published
    BY DEF Backup!IInv, Backup!Published, RestoreOnly
  <1>2. Backup!Chose(r)'
    BY <1>1 DEF Backup!Chose, Backup!Good
  <1>3. Backup!Entries(r)'
    BY DEF Backup!Entries, Backup!Good
  <1>4. r \in Latest /\ chosen'[r] \in rivals'[r] =>
           \A b \in rivals'[r] \ {chosen'[r]} : createdAt[b] < createdAt[chosen'[r]]
    BY <1>1 DEF Backup!LatestIsNewest
  <1>5. QED
    BY <1>2, <1>3, <1>4, RestoreSide

LEMMA RestoreVerify ==
    ASSUME Backup!IInv, NEW r \in Backup!Restores, Backup!Verify(r)
    PROVE  Backup!IInv'
  <1>1. /\ rpc[r] = "verify"
        /\ UNCHANGED <<now, posted, completed, before, createdAt, dumps, bpc, file,
                       manifest, touched, exchanged,
                       chosen, rivals, databases, plain, restored>>
        /\ \/ /\ rpc' = [rpc EXCEPT ![r] = "restore"] /\ code' = code
              /\ Backup!Intact(chosen[r])
           \/ rpc' = [rpc EXCEPT ![r] = "cleanup"] /\ code' = [code EXCEPT ![r] = 1]
    BY DEF Backup!Verify, Backup!Fail, Backup!live, Backup!backups, Backup!disk, Backup!Goto
  <1>2. /\ Backup!Shaped /\ Backup!Chose(r) /\ Backup!Entries(r)
        /\ Backup!Published' = Backup!Published /\ Backup!LatestIsNewest
    BY <1>1 DEF Backup!IInv, Backup!Published
  <1>3. RestoreOnly(r) /\ Backup!Shaped'
    BY <1>1, <1>2 DEF RestoreOnly, Backup!Owned, Backup!Files, Backup!Shaped
  <1>4. CASE rpc'[r] = "restore"
    <2>1. /\ code' = code /\ chosen' = chosen
          /\ Backup!Owned(r)' = {} /\ Backup!Files(r)' = {} /\ DOMAIN restored'[r] = {}
      BY <1>1, <1>2, <1>4
         DEF Backup!Entries, Backup!Owned, Backup!Files, Backup!Nothing, Backup!Shaped
    <2>2. Backup!Made(r)' = 0 /\ Backup!Upto(0)' = {} /\ 0 \in 0 .. Len(Scope)
      <3>1. Backup!Cardinality({}) = 0
        BY <1>2, BackupCounting DEF Backup!Shaped
      <3>2. Len(Scope) \in Nat
        OBVIOUS
      <3>3. QED
        BY <2>1, <3>1, <3>2 DEF Backup!Made, Backup!Owned, Backup!Upto
    <2>3. Backup!Chose(r)'
      BY <1>1, <1>2, <1>4, <2>1 DEF Backup!Chose, Backup!Good
    <2>4. \A v \in Backup!Range(Scope) : Backup!Readable(r, v)'
      <3>1. Backup!Intact(chosen[r])
        BY <1>1, <1>2, <1>4 DEF Backup!Shaped
      <3>2. QED
        BY <1>1, <3>1 DEF Backup!Intact, Backup!Readable
    <2>5. Backup!Entries(r)'
      BY <1>4, <2>1, <2>2, <2>4 DEF Backup!Entries
    <2>6. QED
      BY <1>1, <1>2, <1>3, <1>4, <2>1, <2>3, <2>5, RestoreSide DEF Backup!LatestIsNewest
  <1>5. CASE rpc'[r] # "restore"
    BY <1>1, <1>2, <1>3, <1>5, RestoreFails DEF Backup!Shaped
  <1>6. QED
    BY <1>4, <1>5

LEMMA RestoreLoad ==
    ASSUME Backup!ConstantsOK, Backup!IInv, NEW r \in Backup!Restores, Backup!Load(r)
    PROVE  Backup!IInv'
  <1> DEFINE n == Backup!Made(r)
             v == Scope[n + 1]
             c == file[chosen[r]][v]
             f == <<r, v, c>>
  <1>1. /\ rpc[r] = "restore" /\ n < Len(Scope)
        /\ UNCHANGED <<now, posted, completed, before, createdAt, dumps, bpc, file,
                       manifest, touched, exchanged,
                       chosen, rivals, restored>>
        /\ \/ /\ databases' = databases \cup {<<r, v>>} /\ plain' = plain \cup {f}
              /\ rpc' = [rpc EXCEPT ![r] = "loaded"] /\ code' = code /\ c # Backup!Broken
           \/ /\ databases' \in {databases, databases \cup {<<r, v>>}} /\ plain' = plain
              /\ rpc' = [rpc EXCEPT ![r] = "cleanup"] /\ code' = [code EXCEPT ![r] = 1]
    <2>1. /\ rpc[r] = "restore" /\ n < Len(Scope)
          /\ UNCHANGED <<now, posted, completed, before, createdAt, dumps, bpc, file,
                       manifest, touched, exchanged,
                         chosen, rivals, restored>>
      BY DEF Backup!Load, Backup!live, Backup!backups, Backup!disk
    <2>2. \/ /\ databases' = databases \cup {<<r, v>>} /\ plain' = plain \cup {f}
             /\ rpc' = [rpc EXCEPT ![r] = "loaded"] /\ code' = code /\ c # Backup!Broken
          \/ /\ databases' = databases \cup {<<r, v>>} /\ Backup!Fail(r) /\ plain' = plain
          \/ /\ Backup!Fail(r) /\ databases' = databases /\ plain' = plain
      BY Zenon DEF Backup!Load, Backup!Goto, Backup!Decrypts
    <2>3. QED
      BY <2>1, <2>2 DEF Backup!Fail, Backup!Goto
  <1>2. /\ Backup!Shaped /\ Backup!Chose(r) /\ Backup!Entries(r)
        /\ Backup!Published' = Backup!Published /\ Backup!LatestIsNewest
    BY <1>1 DEF Backup!IInv, Backup!Published
  <1>3. n \in 0 .. Len(Scope) /\ n + 1 \in 1 .. Len(Scope) /\ Len(Scope) \in Nat
    <2>1. Len(Scope) \in Nat
      BY DEF Backup!ConstantsOK
    <2>2. QED
      BY <1>1, <1>2, <2>1 DEF Backup!Entries
  <1> HIDE DEF n
  <1>4. RestoreOnly(r)
    <2>1. <<r, v>>[1] = r /\ f[1] = r
      OBVIOUS
    <2>2. ASSUME NEW q \in Backup!Restores \ {r}
          PROVE  Backup!Owned(q)' = Backup!Owned(q) /\ Backup!Files(q)' = Backup!Files(q)
      <3> HIDE DEF f, v, c
      <3>1. QED
        BY <1>1, <2>1 DEF Backup!Owned, Backup!Files
    <2>3. QED
      BY <1>1, <1>2, <2>2 DEF RestoreOnly, Backup!Shaped
  <1>5. Backup!Shaped'
    <2>1. Backup!IsFiniteSet(databases')
      BY <1>1, <1>2, BackupCounting DEF Backup!Shaped
    <2>2. QED
      BY <1>1, <1>2, <2>1 DEF Backup!Shaped
  <1>6. CASE code' = code
    <2>1. /\ databases' = databases \cup {<<r, v>>} /\ plain' = plain \cup {f}
          /\ rpc'[r] = "loaded" /\ c # Backup!Broken
      BY <1>1, <1>2, <1>6 DEF Backup!Shaped, Backup!Chose
    <2>2. /\ Backup!Owned(r)' = Backup!Owned(r) \cup {<<r, v>>}
          /\ Backup!Files(r)' = {f}
      BY <1>1, <1>2, <2>1 DEF Backup!Owned, Backup!Files, Backup!Entries
    <2>3. v \notin Backup!Upto(n) /\ Backup!Upto(n + 1) = Backup!Upto(n) \cup {v}
      <3>1. \A i \in 1 .. n : i \in DOMAIN Scope /\ i # n + 1 /\ Scope[i] # v
        BY <1>3 DEF Backup!ConstantsOK
      <3>2. 1 .. (n + 1) = (1 .. n) \cup {n + 1}
        BY <1>3
      <3>3. QED
        BY <3>1, <3>2 DEF Backup!Upto
    <2>4. Backup!Owned(r) = {<<r, w>> : w \in Backup!Upto(n)}
      BY <1>1, <1>2 DEF Backup!Entries, n
    <2>5. <<r, v>> \notin Backup!Owned(r)
      BY <2>3, <2>4
    <2>6. Backup!Made(r)' = n + 1
      <3>1. /\ Backup!Owned(r) \in SUBSET databases
            /\ n = Backup!Cardinality(Backup!Owned(r))
            /\ Backup!Made(r)' = Backup!Cardinality(Backup!Owned(r)')
        BY DEF Backup!Made, Backup!Owned, n
      <3>2. QED
        BY <1>2, <2>2, <2>5, <3>1, BackupCounting DEF Backup!Shaped
    <2>7. Backup!Owned(r)' = {<<r, w>> : w \in Backup!Upto(n + 1)}
      BY <2>2, <2>3, <2>4
    <2>8. DOMAIN restored'[r] = Backup!Upto(n)
      BY <1>1, <1>2 DEF Backup!Entries, n
    <2>9. \A k : Backup!Upto(k)' = Backup!Upto(k)
      BY DEF Backup!Upto
    <2>10. Backup!Chose(r)'
      BY <1>1, <1>2, <1>6, <2>1 DEF Backup!Chose, Backup!Good
    <2>11. Backup!Entries(r)'
      <3>1. n + 1 - 1 = n /\ n + 1 > 0
        BY <1>3
      <3>2. /\ Backup!Dumps' = Backup!Dumps
            /\ \A w : /\ Backup!Readable(r, w)' <=> Backup!Readable(r, w)
                      /\ Backup!Own(r, w)' <=> Backup!Own(r, w)
                      /\ Backup!Swapped(r, w)' <=> Backup!Swapped(r, w)
        <4> HIDE DEF v, c, f
        <4>1. QED
          BY <1>1, <1>2 DEF Backup!Dumps, Backup!Readable, Backup!Own, Backup!Swapped,
                            Backup!Broken
      <3>3. \A s \in DOMAIN restored'[r] : Backup!Own(r, s)' \/ Backup!Swapped(r, s)'
        BY <1>1, <1>2, <3>2 DEF Backup!Entries, Backup!Good
      <3>4. \A w \in Backup!Range(Scope) : Backup!Readable(r, w)'
        BY <1>1, <1>2, <3>2 DEF Backup!Entries
      <3>5. /\ c \in Backup!Dumps'
            /\ c = <<chosen'[r], v>> \/ <<r, v>> \in exchanged'
        <4>1. v \in Backup!Range(Scope)
          BY <1>3 DEF Backup!Range, Backup!ConstantsOK
        <4>2. chosen[r] \in Backup!Published /\ chosen[r] \in Sets
          BY <1>1, <1>2 DEF Backup!Chose, Backup!Good, Backup!Published
        <4>3. Backup!AsPublished /\ Backup!Readable(r, v)
          BY <1>1, <1>2, <4>1 DEF Backup!IInv, Backup!Entries
        <4> HIDE DEF v
        <4>4. <<chosen[r], v>> \in Backup!Dumps
          BY <4>1, <4>2 DEF Backup!Dumps
        <4>5. QED
          BY <1>1, <2>1, <3>2, <4>1, <4>2, <4>3, <4>4 DEF Backup!AsPublished, Backup!Readable
      <3> HIDE DEF v, c
      <3>6. Scope[Backup!Made(r)'] = v
        BY <2>6 DEF v
      <3>7. QED
        BY <1>1, <1>3, <2>1, <2>2, <2>6, <2>7, <2>8, <2>9, <3>1, <3>3, <3>4, <3>5, <3>6
           DEF Backup!Entries
    <2>12. QED
      BY <1>1, <1>2, <1>4, <1>5, <2>1, <2>10, <2>11, RestoreSide DEF Backup!LatestIsNewest
  <1>7. CASE code' # code
    BY <1>1, <1>2, <1>4, <1>5, <1>7, RestoreFails DEF Backup!Shaped
  <1>8. QED
    BY <1>6, <1>7

LEMMA RestoreApply ==
    ASSUME Backup!ConstantsOK, Backup!IInv, NEW r \in Backup!Restores, Backup!Apply(r)
    PROVE  Backup!IInv'
  <1> DEFINE n == Backup!Made(r)
             v == Scope[n]
  <1>1. /\ rpc[r] = "loaded"
        /\ UNCHANGED <<now, posted, completed, before, createdAt, dumps, bpc, file,
                       manifest, touched, exchanged,
                       chosen, rivals, databases>>
    BY DEF Backup!Apply, Backup!live, Backup!backups, Backup!disk
  <1>2. /\ Backup!Shaped /\ Backup!Chose(r) /\ Backup!Entries(r)
        /\ Backup!Published' = Backup!Published /\ Backup!LatestIsNewest
    BY <1>1 DEF Backup!IInv, Backup!Published
  <1>3. PICK c \in Backup!Dumps : /\ Backup!Files(r) = {<<r, v, c>>}
                                  /\ c = <<chosen[r], v>> \/ <<r, v>> \in exchanged
    BY <1>1, <1>2 DEF Backup!Entries
  <1>4. \/ /\ restored' = [restored EXCEPT ![r] = Backup!Added(restored[r], v, c)]
           /\ plain' = plain \ {<<r, v, c>>}
           /\ rpc' = [rpc EXCEPT ![r] = "restore"] /\ code' = code
        \/ /\ rpc' = [rpc EXCEPT ![r] = "cleanup"] /\ code' = [code EXCEPT ![r] = 1]
           /\ plain' = plain /\ restored' = restored
    <2>1. \/ Backup!Fail(r) /\ UNCHANGED <<plain, restored>>
          \/ \E f \in Backup!Files(r) :
                /\ restored' = [restored EXCEPT ![r] = Backup!Added(restored[r], f[2], f[3])]
                /\ plain' = plain \ {f}
                /\ rpc' = [rpc EXCEPT ![r] = "restore"] /\ code' = code
      BY DEF Backup!Apply, Backup!Files, Backup!Goto
    <2>2. CASE Backup!Fail(r) /\ UNCHANGED <<plain, restored>>
      BY <2>2 DEF Backup!Fail, Backup!Goto
    <2>3. CASE \E f \in Backup!Files(r) :
                /\ restored' = [restored EXCEPT ![r] = Backup!Added(restored[r], f[2], f[3])]
                /\ plain' = plain \ {f}
                /\ rpc' = [rpc EXCEPT ![r] = "restore"] /\ code' = code
      <3>1. <<r, v, c>>[2] = v /\ <<r, v, c>>[3] = c
        OBVIOUS
      <3> HIDE DEF v
      <3>2. QED
        BY <1>3, <2>3, <3>1
    <2>4. QED
      BY <2>1, <2>2, <2>3
  <1>5. n \in 1 .. Len(Scope) /\ Len(Scope) \in Nat
    <2>1. Len(Scope) \in Nat
      BY DEF Backup!ConstantsOK
    <2>2. QED
      BY <1>1, <1>2, <2>1 DEF Backup!Entries
  <1>6. /\ Backup!Owned(r) = {<<r, w>> : w \in Backup!Upto(n)}
        /\ DOMAIN restored[r] = Backup!Upto(n - 1)
        /\ \A s \in DOMAIN restored[r] : Backup!Own(r, s) \/ Backup!Swapped(r, s)
        /\ \A w \in Backup!Range(Scope) : Backup!Readable(r, w)
    BY <1>1, <1>2 DEF Backup!Entries, Backup!Good
  <1> HIDE DEF n
  <1>7. RestoreOnly(r)
    <2>1. <<r, v, c>>[1] = r
      OBVIOUS
    <2>2. ASSUME NEW q \in Backup!Restores \ {r}
          PROVE  Backup!Owned(q)' = Backup!Owned(q) /\ Backup!Files(q)' = Backup!Files(q)
      <3> HIDE DEF v
      <3>1. QED
        BY <1>1, <1>4, <2>1 DEF Backup!Owned, Backup!Files
    <2>3. QED
      BY <1>1, <1>2, <1>4, <2>2 DEF RestoreOnly, Backup!Shaped
  <1>8. CASE code' = code
    <2>1. /\ restored' = [restored EXCEPT ![r] = Backup!Added(restored[r], v, c)]
          /\ plain' = plain \ {<<r, v, c>>}
          /\ rpc' = [rpc EXCEPT ![r] = "restore"]
      BY <1>1, <1>2, <1>4, <1>8 DEF Backup!Shaped, Backup!Chose
    <2>2. restored'[r] = Backup!Added(restored[r], v, c)
      BY <1>2, <2>1 DEF Backup!Shaped
    <2>3. /\ Backup!IsMap(restored'[r])
          /\ DOMAIN restored'[r] = DOMAIN restored[r] \cup {v}
          /\ \A s \in DOMAIN restored'[r] :
                restored'[r][s] = IF s = v THEN c ELSE restored[r][s]
      <3> HIDE DEF v
      <3>1. QED
        BY <2>2 DEF Backup!Added, Backup!IsMap
    <2>4. Backup!Upto(n) = Backup!Upto(n - 1) \cup {v}
      <3>1. 1 .. n = (1 .. (n - 1)) \cup {n}
        BY <1>5
      <3>2. QED
        BY <3>1 DEF Backup!Upto
    <2>5. Backup!Files(r)' = {}
      <3>1. Backup!Files(r)' = Backup!Files(r) \ {<<r, v, c>>}
        BY <2>1 DEF Backup!Files
      <3>2. QED
        BY <1>3, <3>1
    <2>6. Backup!Shaped'
      <3>1. \A q \in Backup!Restores : Backup!IsMap(restored'[q])
        BY <1>2, <1>7, <2>3 DEF Backup!Shaped, RestoreOnly
      <3>2. /\ restored' = [q \in Backup!Restores |-> restored'[q]]
            /\ code' \in [Backup!Restores -> {0, 1}]
            /\ rpc' \in [Backup!Restores -> {"idle", "verify", "restore", "loaded",
                                              "cleanup", "exited"}]
        BY <1>2, <1>8, <2>1 DEF Backup!Shaped
      <3>3. QED
        BY <1>1, <1>2, <3>1, <3>2 DEF Backup!Shaped
    <2>7. Backup!Made(r)' = n /\ Backup!Owned(r)' = Backup!Owned(r)
      BY <1>1 DEF Backup!Made, Backup!Owned, n
    <2>8. /\ rpc'[r] = "restore" /\ \A k : Backup!Upto(k)' = Backup!Upto(k)
      BY <1>2, <2>1 DEF Backup!Shaped, Backup!Upto
    <2>9. Backup!Chose(r)'
      BY <1>1, <1>2, <1>8, <2>8 DEF Backup!Chose, Backup!Good
    <2>10. /\ \A s \in DOMAIN restored'[r] : Backup!Own(r, s)' \/ Backup!Swapped(r, s)'
           /\ \A w \in Backup!Range(Scope) : Backup!Readable(r, w)'
      <3>1. Backup!Dumps' = Backup!Dumps
        BY <1>2 DEF Backup!Dumps
      <3> HIDE DEF v
      <3>2. \A s \in DOMAIN restored'[r] : Backup!Own(r, s)' \/ Backup!Swapped(r, s)'
        BY <1>1, <1>3, <1>6, <2>3, <3>1 DEF Backup!Own, Backup!Swapped
      <3>3. QED
        BY <1>1, <1>6, <3>2 DEF Backup!Readable, Backup!Broken
    <2>11. Backup!Entries(r)'
      <3> HIDE DEF v
      <3>1. QED
        BY <1>5, <1>6, <2>3, <2>4, <2>5, <2>7, <2>8, <2>10 DEF Backup!Entries
    <2>12. QED
      BY <1>1, <1>2, <1>7, <2>6, <2>8, <2>9, <2>11, RestoreSide DEF Backup!LatestIsNewest
  <1>9. CASE code' # code
    <2>1. Backup!Shaped'
      BY <1>1, <1>2, <1>4, <1>9 DEF Backup!Shaped
    <2>2. QED
      BY <1>1, <1>2, <1>4, <1>7, <1>9, <2>1, RestoreFails DEF Backup!Shaped
  <1>10. QED
    BY <1>8, <1>9

LEMMA RestoreFinish ==
    ASSUME Backup!ConstantsOK, Backup!IInv, NEW r \in Backup!Restores, Backup!Finish(r)
    PROVE  Backup!IInv'
  <1>1. /\ rpc[r] = "restore" /\ Backup!Made(r) = Len(Scope)
        /\ rpc' = [rpc EXCEPT ![r] = "cleanup"]
        /\ UNCHANGED <<now, posted, completed, before, createdAt, dumps, bpc, file,
                       manifest, touched, exchanged,
                       chosen, rivals, databases, plain, restored, code>>
    BY DEF Backup!Finish, Backup!live, Backup!backups, Backup!disk, Backup!Goto
  <1>2. /\ Backup!Shaped /\ Backup!Chose(r) /\ Backup!Entries(r)
        /\ Backup!Published' = Backup!Published /\ Backup!LatestIsNewest
    BY <1>1 DEF Backup!IInv, Backup!Published
  <1>3. RestoreOnly(r) /\ Backup!Shaped' /\ rpc'[r] = "cleanup"
    BY <1>1, <1>2 DEF RestoreOnly, Backup!Owned, Backup!Files, Backup!Shaped
  <1>4. Backup!Upto(Len(Scope)) = Backup!Range(Scope)
    BY DEF Backup!ConstantsOK, Backup!Upto, Backup!Range
  <1>5. Backup!Chose(r)'
    BY <1>1, <1>2, <1>3 DEF Backup!Chose, Backup!Good
  <1>6. Backup!Entries(r)'
    <2>1. \A s : /\ Backup!Own(r, s)' <=> Backup!Own(r, s)
                 /\ Backup!Swapped(r, s)' <=> Backup!Swapped(r, s)
      BY <1>1, <1>2 DEF Backup!Own, Backup!Swapped, Backup!Dumps
    <2>2. QED
      BY <1>1, <1>2, <1>3, <1>4, <2>1 DEF Backup!Entries, Backup!Good
  <1>7. QED
    BY <1>1, <1>2, <1>3, <1>5, <1>6, RestoreSide DEF Backup!LatestIsNewest

LEMMA RestoreCleanup ==
    ASSUME Backup!IInv, NEW r \in Backup!Restores, Backup!Cleanup(r)
    PROVE  Backup!IInv'
  <1>1. PICK left \in SUBSET Backup!Owned(r) :
           /\ databases' = {d \in databases : d[1] # r} \cup left
           /\ code' = IF left = {} THEN code ELSE [code EXCEPT ![r] = 1]
    BY DEF Backup!Cleanup, Backup!Owned, Backup!DropFailed
  <1>2. /\ rpc[r] = "cleanup" /\ plain' = {f \in plain : f[1] # r}
        /\ rpc' = [rpc EXCEPT ![r] = "exited"]
        /\ UNCHANGED <<now, posted, completed, before, createdAt, dumps, bpc, file,
                       manifest, touched, exchanged,
                       chosen, rivals, restored>>
    BY DEF Backup!Cleanup, Backup!live, Backup!backups, Backup!disk, Backup!Goto
  <1>3. /\ Backup!Shaped /\ Backup!Chose(r) /\ Backup!Entries(r)
        /\ Backup!Published' = Backup!Published /\ Backup!LatestIsNewest
    BY <1>2 DEF Backup!IInv, Backup!Published
  <1>4. RestoreOnly(r)
    BY <1>1, <1>2, <1>3 DEF RestoreOnly, Backup!Owned, Backup!Files, Backup!Shaped
  <1>5. Backup!Shaped'
    <2>1. databases' \in SUBSET databases
      BY <1>1 DEF Backup!Owned
    <2>2. Backup!IsFiniteSet(databases')
      BY <1>3, <2>1, BackupCounting DEF Backup!Shaped
    <2>3. QED
      BY <1>1, <1>2, <1>3, <2>2 DEF Backup!Shaped
  <1>6. /\ rpc'[r] = "exited" /\ Backup!Files(r)' = {}
        /\ code'[r] = 0 => code[r] = 0 /\ Backup!Owned(r)' = {}
    BY <1>1, <1>2, <1>3 DEF Backup!Shaped, Backup!Owned, Backup!Files
  <1>7. Backup!Chose(r)'
    BY <1>2, <1>3, <1>6 DEF Backup!Chose, Backup!Good
  <1>8. Backup!Entries(r)'
    <2>1. \A s : /\ Backup!Own(r, s)' <=> Backup!Own(r, s)
                 /\ Backup!Swapped(r, s)' <=> Backup!Swapped(r, s)
      BY <1>2, <1>3 DEF Backup!Own, Backup!Swapped, Backup!Dumps
    <2>2. QED
      BY <1>2, <1>3, <1>6, <2>1 DEF Backup!Entries, Backup!Good
  <1>9. QED
    BY <1>2, <1>3, <1>4, <1>5, <1>6, <1>7, <1>8, RestoreSide DEF Backup!LatestIsNewest

LEMMA BackupNext ==
    ASSUME Backup!ConstantsOK, Backup!IInv, [Backup!Next]_Backup!vars
    PROVE  Backup!IInv'
  <1>1. CASE UNCHANGED Backup!vars
    <2>1. Backup!Shaped' /\ Backup!DumpedSince'
      BY <1>1 DEF Backup!vars, Backup!IInv, Backup!Shaped, Backup!DumpedSince,
                  Backup!Published, Backup!IsMap
    <2>2. Backup!AsPublished'
      BY <1>1, BackupKept DEF Backup!vars, Backup!IInv, Backup!Published
    <2>3. QED
      BY <1>1, <2>1, <2>2, BackupQuiet DEF Backup!vars
  <1>2. QED
    BY <1>1, BackupSteps, RestoreSelect, RestoreVerify, RestoreLoad, RestoreApply,
       RestoreFinish, RestoreCleanup DEF Backup!Next

LEMMA BackupSafe ==
    ASSUME Backup!ConstantsOK, Backup!IInv
    PROVE  /\ Backup!PublishedIsWhole /\ Backup!PassedIsAuthentic
           /\ Backup!NothingLeftBehind /\ Backup!LatestIsNewest
  <1>1. Backup!PublishedIsWhole
    BY DEF Backup!IInv, Backup!DumpedSince, Backup!PublishedIsWhole, Backup!Published,
           Backup!ConstantsOK
  <1>2. Backup!PassedIsAuthentic
    <2> SUFFICES ASSUME NEW r \in Backup!Restores, Backup!Passed(r)
                 PROVE  /\ DOMAIN restored[r] = Backup!Range(Scope)
                        /\ \A v \in Backup!Range(Scope) : Backup!Own(r, v) \/ Backup!Swapped(r, v)
      BY DEF Backup!PassedIsAuthentic
    <2>1. Backup!Good(r) /\ Backup!Entries(r)
      BY DEF Backup!Passed, Backup!Good, Backup!IInv
    <2>2. QED
      BY <2>1 DEF Backup!Entries, Backup!Passed
  <1>3. QED
    BY <1>1, <1>2 DEF Backup!IInv

-----------------------------------------------------------------------------
(* The environment file *)

LEMMA DomainFields ==
    /\ DOMAIN Environment!Domain =
          {"node", "sabcl", "token", "url", "key", "sabclKey", "unread", "bootstrap",
           "demo", "identityPort", "apiPort"}
    /\ Environment!Domain.node = {"development", "production"}
    /\ Environment!Domain.unread = {"bad", "ok"}
    /\ Environment!Domain.demo = {"absent", "false", "true"}
    /\ Environment!Domain.identityPort = {"same", "other"}
    /\ Environment!Domain.apiPort = {"same", "other"}
  BY DEF Environment!Domain

LEMMA FileExists ==
    \A e \in Environment!Files : e # Environment!NoEnv
  <1> SUFFICES ASSUME NEW e \in Environment!Files, e = Environment!NoEnv
               PROVE  FALSE
    OBVIOUS
  <1>1. e.node \in {"development", "production"}
    BY DomainFields DEF Environment!Files
  <1>2. e.node = "none"
    BY DEF Environment!NoEnv
  <1>3. QED
    BY <1>1, <1>2

LEMMA ExampleIsFile ==
    /\ Environment!Example \in Environment!Files
    /\ Environment!Example.password = Environment!Example.urlPassword
  BY DEF Environment!Example, Environment!Files, Environment!Domain

LEMMA InitialisedFile ==
    ASSUME NEW g \in Nat
    PROVE  /\ Environment!initializeEnvironmentText(g) \in Environment!Files
           /\ Environment!initializeEnvironmentText(g).password = g
           /\ Environment!initializeEnvironmentText(g).urlPassword = g
  BY DEF Environment!initializeEnvironmentText, Environment!Example, Environment!Files,
         Environment!Domain, Environment!Rebuilt

LEMMA EditedFile ==
    ASSUME NEW e \in Environment!Files, NEW name \in DOMAIN Environment!Domain,
           NEW value \in Environment!Domain[name]
    PROVE  /\ [e EXCEPT ![name] = value] \in Environment!Files
           /\ [e EXCEPT ![name] = value].password = e.password
           /\ [e EXCEPT ![name] = value].urlPassword = e.urlPassword
  <1> DEFINE d == [e EXCEPT ![name] = value]
  <1>1. /\ DOMAIN e = {"node", "sabcl", "token", "url", "key", "sabclKey", "unread",
                       "bootstrap", "demo", "identityPort", "apiPort", "password",
                       "urlPassword"}
        /\ name \in {"node", "sabcl", "token", "url", "key", "sabclKey", "unread",
                     "bootstrap", "demo", "identityPort", "apiPort"}
    BY DomainFields DEF Environment!Files
  <1>2. \A f \in DOMAIN Environment!Domain : e[f] \in Environment!Domain[f]
    BY DomainFields DEF Environment!Files
  <1>3. /\ DOMAIN d = DOMAIN e
        /\ \A f \in DOMAIN e : d[f] = IF f = name THEN value ELSE e[f]
    OBVIOUS
  <1>4. \A f \in DOMAIN Environment!Domain : d[f] \in Environment!Domain[f]
    BY <1>1, <1>2, <1>3, DomainFields
  <1>5. d.password = e.password /\ d.urlPassword = e.urlPassword
    BY <1>1, <1>3
  <1> DEFINE g == [node |-> d.node, sabcl |-> d.sabcl, token |-> d.token, url |-> d.url,
                  key |-> d.key, sabclKey |-> d.sabclKey, unread |-> d.unread,
                  bootstrap |-> d.bootstrap, demo |-> d.demo,
                  identityPort |-> d.identityPort, apiPort |-> d.apiPort,
                  password |-> d.password, urlPassword |-> d.urlPassword]
  <1>6. d = g
    <2>1. d = [f \in DOMAIN e |-> d[f]]
      BY <1>3
    <2> HIDE DEF d
    <2>2. DOMAIN g = DOMAIN e /\ \A f \in DOMAIN e : g[f] = d[f]
      BY <1>1
    <2>3. g = [f \in DOMAIN g |-> g[f]]
      OBVIOUS
    <2> HIDE DEF g
    <2>4. g = [f \in DOMAIN e |-> d[f]]
      BY <2>2, <2>3
    <2>5. QED
      BY <2>1, <2>4
  <1>7. e.password \in Nat /\ e.urlPassword \in Nat
    BY DEF Environment!Files
  <1> HIDE DEF d
  <1>8. d \in Environment!Files
    BY <1>4, <1>5, <1>6, <1>7, DomainFields DEF Environment!Files
  <1>9. QED
    BY <1>5, <1>8 DEF d

\* The loaders' answer to each service, without the case distinction.
LEMMA LoadsEach ==
    ASSUME NEW c, Environment!Settings(c)
    PROVE  /\ Environment!Loads("identity", c) <=> Environment!LoadsIdentity(c)
           /\ Environment!Loads("ledger", c) <=> Environment!LoadsLedger(c)
           /\ Environment!Loads("payments", c) <=> Environment!LoadsPayments(c)
           /\ Environment!Loads("risk", c) <=> Environment!LoadsRisk(c)
           /\ Environment!Loads("resilience", c) <=> Environment!LoadsResilience(c)
           /\ Environment!Loads("router", c) <=> Environment!LoadsRouter(c)
           /\ Environment!Loads("gateway", c) <=> Environment!LoadsGateway(c)
  BY DEF Environment!Loads

\* What a child sees of a file that lacks none of the checked variables: the
\* file itself, but for the demo login and the sealing keys.
LEMMA OverlaidFile ==
    ASSUME NEW e \in Environment!Files,
           e.token # "absent", e.url # "absent", e.key # "absent"
    PROVE  LET c == Environment!Overlaid(e)
           IN /\ c.node = e.node /\ c.sabcl = e.sabcl /\ c.token = e.token
              /\ c.url = e.url /\ c.key = e.key /\ c.unread = e.unread
              /\ c.bootstrap = e.bootstrap /\ c.urlPassword = e.urlPassword
              /\ c.identityPort = e.identityPort /\ c.apiPort = e.apiPort
              /\ e.sabclKey = "ok" => c.sabclKey = "ok"
              /\ e.demo # "absent" => c.demo = e.demo
  BY DEF Environment!Overlaid, Environment!Files

LEMMA SameFileSameAnswer ==
    ASSUME env' = env, volume' = volume
    PROVE  /\ Environment!checkEnvironment' <=> Environment!checkEnvironment
           /\ Environment!Exists' <=> Environment!Exists
           /\ \A s \in Environment!DemoServices :
                 Environment!Outcome(s, Environment!Overlaid(env))'
                    = Environment!Outcome(s, Environment!Overlaid(env))
  <1>1. /\ Environment!checkEnvironment' <=> Environment!checkEnvironment
        /\ Environment!Exists' <=> Environment!Exists
    BY DEF Environment!checkEnvironment, Environment!Exists, Environment!Missing,
           Environment!production
  <1>2. ASSUME NEW s \in Environment!DemoServices
        PROVE  Environment!Outcome(s, Environment!Overlaid(env))'
                  = Environment!Outcome(s, Environment!Overlaid(env))
    BY DEF Environment!Outcome, Environment!Connects, Environment!HasDatabase
  <1>3. QED
    BY <1>1, <1>2

LEMMA EnvironmentInit ==
    ASSUME Environment!Init
    PROVE  Environment!IInv
  BY DEF Environment!Init, Environment!IInv, Environment!Filed, Environment!Kept,
         Environment!Found, Environment!UrlFollowsPassword, Environment!Exists

\* A step that writes the file: the check and the start are forgotten.
LEMMA FileWritten ==
    ASSUME Environment!IInv, env' \in Environment!Files, volume' = volume,
           checked' = FALSE, attempt' = Environment!NoAttempt,
           forced' \in Nat, inits' \in Nat, edits' \in Nat,
           ~byHand' => env'.urlPassword = env'.password,
           Environment!Found'
    PROVE  Environment!IInv'
  <1>1. Environment!Exists'
    BY FileExists DEF Environment!Exists
  <1>2. QED
    BY <1>1
       DEF Environment!IInv, Environment!Filed, Environment!Kept,
           Environment!UrlFollowsPassword

LEMMA EnvironmentWrites ==
    ASSUME Environment!IInv,
           \/ \E force \in BOOLEAN : Environment!runInit(force)
           \/ Environment!Copy \/ Environment!Edit \/ Environment!EditPassword
    PROVE  Environment!IInv'
  <1>1. ASSUME NEW force \in BOOLEAN, Environment!runInit(force)
        PROVE  Environment!IInv'
    <2>1. inits + 2 \in Nat /\ inits + 1 \in Nat /\ forced \in Nat /\ edits \in Nat
      BY DEF Environment!IInv, Environment!Filed
    <2>2. /\ env' = Environment!initializeEnvironmentText(inits + 2)
          /\ replaced' = IF Environment!Exists THEN env.password ELSE replaced
          /\ forced' = IF Environment!Exists /\ volume # 0 THEN forced + 1 ELSE forced
          /\ checked' = FALSE /\ attempt' = Environment!NoAttempt
          /\ inits' = inits + 1 /\ UNCHANGED <<volume, edits>>
      BY <1>1 DEF Environment!runInit, Environment!Copied
    <2>3. /\ env' \in Environment!Files /\ env'.urlPassword = env'.password
          /\ env'.password = inits + 2
      BY <2>1, <2>2, InitialisedFile
    <2>4. Environment!Found'
      <3> SUFFICES ASSUME volume # 0, edits = 0, forced' \in {0, 1}
                   PROVE  forced' = 1 /\ volume = replaced'
        BY <2>2 DEF Environment!Found
      <3>1. Environment!Exists
        BY DEF Environment!IInv, Environment!Filed
      <3>2. forced = 0
        BY <2>1, <2>2, <3>1
      <3>3. QED
        BY <2>1, <2>2, <3>1, <3>2 DEF Environment!IInv, Environment!Found
    <2>5. forced' \in Nat /\ inits' \in Nat /\ edits' \in Nat
      BY <2>1, <2>2
    <2>6. QED
      BY <2>2, <2>3, <2>4, <2>5, FileWritten
  <1>2. ASSUME NEW e \in Environment!Files, Environment!Edited(e),
               ~byHand' => e.urlPassword = e.password
        PROVE  Environment!IInv'
    <2>1. /\ env' = e /\ checked' = FALSE /\ attempt' = Environment!NoAttempt
          /\ edits' = edits + 1 /\ UNCHANGED <<replaced, volume, inits, forced>>
      BY <1>2 DEF Environment!Edited
    <2>2. forced \in Nat /\ edits \in Nat /\ inits \in Nat
      BY DEF Environment!IInv, Environment!Filed
    <2>3. edits' \in Nat /\ edits' # 0
      BY <2>1, <2>2
    <2>4. Environment!Found'
      BY <2>3 DEF Environment!Found
    <2>5. QED
      BY <1>2, <2>1, <2>2, <2>3, <2>4, FileWritten
  <1>3. CASE Environment!Copy
    BY <1>2, <1>3, ExampleIsFile DEF Environment!Copy
  <1>4. CASE Environment!Edit
    <2>1. Environment!Exists /\ env \in Environment!Files /\ byHand' = byHand
      BY <1>4 DEF Environment!Edit, Environment!IInv, Environment!Filed
    <2>2. ~byHand => env.urlPassword = env.password
      BY <2>1 DEF Environment!IInv, Environment!UrlFollowsPassword
    <2>3. PICK name \in DOMAIN Environment!Domain :
             \E value \in Environment!Domain[name] : Environment!Edited([env EXCEPT ![name] = value])
      BY <1>4 DEF Environment!Edit
    <2>4. PICK value \in Environment!Domain[name] : Environment!Edited([env EXCEPT ![name] = value])
      BY <2>3
    <2> DEFINE e == [env EXCEPT ![name] = value]
    <2>5. e \in Environment!Files /\ e.password = env.password /\ e.urlPassword = env.urlPassword
      BY <2>1, EditedFile
    <2>6. Environment!Edited(e)
      BY <2>4
    <2> HIDE DEF e
    <2>7. QED
      BY <1>2, <2>1, <2>2, <2>5, <2>6
  <1>5. CASE Environment!EditPassword
    <2>1. env \in Environment!Files /\ byHand' = TRUE
      BY <1>5 DEF Environment!EditPassword, Environment!IInv, Environment!Filed
    <2> DEFINE e == [env EXCEPT !.password = @ + 10]
    <2>2. e \in Environment!Files
      BY <2>1 DEF Environment!Files
    <2>3. Environment!Edited(e)
      BY <1>5 DEF Environment!EditPassword
    <2> HIDE DEF e
    <2>4. QED
      BY <1>2, <2>1, <2>2, <2>3
  <1>6. QED
    BY <1>1, <1>3, <1>4, <1>5

LEMMA EnvironmentNext ==
    ASSUME Environment!IInv, [Environment!Next]_Environment!vars
    PROVE  Environment!IInv'
  <1>1. CASE Environment!Up \/ Environment!Reset
    <2>1. /\ env' = env /\ attempt' = Environment!NoAttempt /\ forced' = 0
          /\ UNCHANGED <<replaced, checked, inits, edits, byHand>>
          /\ volume' # 0 => Environment!Exists /\ volume' = env.password
          /\ volume' = 0 \/ Environment!Exists
          /\ volume' \in {0, env.password}
      BY <1>1 DEF Environment!Up, Environment!Reset
    <2>2. Environment!checkEnvironment' <=> Environment!checkEnvironment
      BY <2>1 DEF Environment!checkEnvironment, Environment!Missing, Environment!production
    <2>3. volume' \in Nat
      <3>1. Environment!Exists => env.password \in Nat
        BY DEF Environment!IInv, Environment!Filed, Environment!Files
      <3>2. QED
        BY <2>1, <3>1
    <2>4. QED
      BY <2>1, <2>2, <2>3
         DEF Environment!IInv, Environment!Filed, Environment!Kept, Environment!Found,
             Environment!UrlFollowsPassword, Environment!Exists
  <1>2. ASSUME env' = env, volume' = volume,
               UNCHANGED <<replaced, inits, edits, forced, byHand>>, Environment!Kept'
        PROVE  Environment!IInv'
    BY <1>2
       DEF Environment!IInv, Environment!Filed, Environment!Found,
           Environment!UrlFollowsPassword, Environment!Exists
  <1>3. CASE Environment!runCheck
    <2>1. Environment!Kept'
      BY <1>3, SameFileSameAnswer DEF Environment!runCheck, Environment!IInv, Environment!Kept
    <2>2. QED
      BY <1>2, <1>3, <2>1 DEF Environment!runCheck
  <1>4. ASSUME NEW s \in Environment!DemoServices, NEW c, NEW exported \in BOOLEAN,
               Environment!Started(s, c, exported),
               ~exported => c = Environment!Overlaid(env)
        PROVE  Environment!IInv'
    <2>1. /\ Environment!Exists /\ (s = "router" => c.sabcl # "off")
          /\ attempt' = [service |-> s, outcome |-> Environment!Outcome(s, c),
                         exported |-> exported]
          /\ UNCHANGED <<env, replaced, volume, checked, inits, edits, forced, byHand>>
      BY <1>4 DEF Environment!Started
    <2>2. Environment!Kept'
      <3>1. checked' => Environment!Exists' /\ Environment!checkEnvironment'
        BY <2>1, SameFileSameAnswer DEF Environment!IInv, Environment!Kept
      <3>2. CASE exported
        BY <2>1, <3>1, <3>2 DEF Environment!Kept
      <3>3. CASE ~exported
        <4>1. c = Environment!Overlaid(env) /\ exported = FALSE
          BY <1>4, <3>3
        <4>2. c.sabcl = env.sabcl
          BY <2>1, <4>1 DEF Environment!Overlaid, Environment!IInv, Environment!Filed,
                            Environment!Files
        <4>3. attempt' = [service |-> s, exported |-> FALSE,
                          outcome |-> Environment!Outcome(s, Environment!Overlaid(env))']
          BY <2>1, <4>1, SameFileSameAnswer
        <4>4. QED
          BY <2>1, <3>1, <4>2, <4>3, SameFileSameAnswer DEF Environment!Kept
      <3>4. QED
        BY <3>2, <3>3
    <2>3. QED
      BY <1>2, <2>1, <2>2
  <1>5. CASE Environment!Stop
    <2>1. Environment!Kept'
      BY <1>5, SameFileSameAnswer DEF Environment!Stop, Environment!IInv, Environment!Kept
    <2>2. QED
      BY <1>2, <1>5, <2>1 DEF Environment!Stop
  <1>6. CASE UNCHANGED Environment!vars
    <2>1. Environment!Kept'
      BY <1>6, SameFileSameAnswer DEF Environment!vars, Environment!IInv, Environment!Kept
    <2>2. QED
      BY <1>2, <1>6, <2>1 DEF Environment!vars
  <1>7. ASSUME NEW s \in Environment!DemoServices, Environment!Start(s)
        PROVE  Environment!IInv'
    BY <1>4, <1>7 DEF Environment!Start
  <1>8. ASSUME NEW s \in Environment!DemoServices, Environment!StartExported(s)
        PROVE  Environment!IInv'
    <2>1. PICK c : Environment!Started(s, c, TRUE)
      BY <1>8 DEF Environment!StartExported
    <2>2. QED
      BY <1>4, <2>1
  <1>9. QED
    BY <1>1, <1>3, <1>5, <1>6, <1>7, <1>8, EnvironmentWrites DEF Environment!Next

LEMMA EnvironmentSafe ==
    ASSUME Environment!IInv
    PROVE  /\ Environment!CheckedStarts /\ Environment!UrlFollowsPassword
           /\ Environment!DatabasePasswordFound
  <1>1. Environment!CheckedStarts
    <2> SUFFICES ASSUME checked, ~attempt.exported,
                        attempt.outcome \in {"refused", "unreachable", "unseen"}
                 PROVE  Environment!CheckedStarts
      BY DEF Environment!CheckedStarts
    <2> DEFINE c == Environment!Overlaid(env)
    <2>1. attempt # Environment!NoAttempt
      BY DEF Environment!NoAttempt
    <2>2. PICK s \in Environment!DemoServices :
             /\ s = "router" => env.sabcl # "off"
             /\ attempt = [service |-> s, outcome |-> Environment!Outcome(s, c),
                           exported |-> FALSE]
      BY <2>1 DEF Environment!IInv, Environment!Kept
    <2>3. Environment!Exists /\ Environment!checkEnvironment /\ env \in Environment!Files
      BY DEF Environment!IInv, Environment!Kept, Environment!Filed
    <2>4. /\ env.unread \in {"bad", "ok"} /\ env.identityPort \in {"same", "other"}
          /\ env.apiPort \in {"same", "other"} /\ env.demo \in {"absent", "false", "true"}
      BY <2>3, DomainFields DEF Environment!Files
    <2>5. /\ env.token \notin {"absent", "empty"} /\ env.url \notin {"absent", "empty", "bad"}
          /\ env.key \notin {"absent", "empty", "bad", "placeholder"}
          /\ env.sabcl # "off" => env.sabclKey = "ok"
          /\ env.node = "production" =>
                /\ env.demo # "true" /\ env.bootstrap = "unset" /\ env.sabcl # "compatible"
                /\ env.token # "placeholder"
      BY <2>3 DEF Environment!checkEnvironment, Environment!Missing, Environment!production
    <2>6. /\ c.node = env.node /\ c.sabcl = env.sabcl /\ c.token = env.token
          /\ c.url = env.url /\ c.key = env.key /\ c.unread = env.unread
          /\ c.bootstrap = env.bootstrap /\ c.urlPassword = env.urlPassword
          /\ c.identityPort = env.identityPort /\ c.apiPort = env.apiPort
          /\ env.sabclKey = "ok" => c.sabclKey = "ok"
          /\ env.demo # "absent" => c.demo = env.demo
      BY <2>3, <2>5, OverlaidFile
    <2> HIDE DEF c
    <2>7. ASSUME env.unread # "bad",
                 ~(env.node = "production" /\ (env.url = "placeholder" \/ env.demo = "absent"))
          PROVE  Environment!Loads(s, c)
      <3>1. Environment!Settings(c) /\ Environment!loadSabclEnvironment(c)
        BY <2>4, <2>5, <2>6, <2>7
           DEF Environment!Settings, Environment!loadSabclEnvironment, Environment!Production
      <3>2. /\ Environment!LoadsIdentity(c) /\ Environment!LoadsLedger(c)
            /\ Environment!LoadsPayments(c) /\ Environment!LoadsRisk(c)
            /\ Environment!LoadsResilience(c) /\ Environment!LoadsGateway(c)
            /\ env.sabcl # "off" => Environment!LoadsRouter(c)
        BY <2>4, <2>5, <2>6, <2>7, <3>1
           DEF Environment!LoadsIdentity, Environment!LoadsLedger, Environment!LoadsPayments,
               Environment!LoadsRisk, Environment!LoadsResilience, Environment!LoadsRouter,
               Environment!LoadsGateway, Environment!Unset, Environment!Production
      <3>3. QED
        BY <2>2, <3>1, <3>2, LoadsEach DEF Environment!DemoServices
    <2>8. volume = env.urlPassword => Environment!Connects(s, c)
      BY <2>5, <2>6 DEF Environment!Connects
    <2>9. \/ Environment!Probed(s, c)
          \/ s = "identity" /\ env.identityPort = "other"
          \/ s = "gateway" /\ env.apiPort = "other"
      BY <2>4, <2>6 DEF Environment!Probed
    <2>10. attempt.outcome = Environment!Outcome(s, c) /\ attempt.service = s
      BY <2>2
    <2>11. CASE attempt.outcome = "refused"
      <3>1. ~Environment!Loads(s, c)
        BY <2>10, <2>11 DEF Environment!Outcome
      <3>2. QED
        BY <2>7, <2>11, <3>1 DEF Environment!CheckedStarts, Environment!production
    <2>12. CASE attempt.outcome = "unreachable"
      <3>1. ~Environment!Connects(s, c)
        BY <2>10, <2>12 DEF Environment!Outcome
      <3>2. QED
        BY <2>8, <2>12, <3>1 DEF Environment!CheckedStarts
    <2>13. CASE attempt.outcome = "unseen"
      <3>1. ~Environment!Probed(s, c)
        BY <2>10, <2>13 DEF Environment!Outcome
      <3>2. QED
        BY <2>9, <2>10, <2>13, <3>1 DEF Environment!CheckedStarts
    <2>14. QED
      BY <2>11, <2>12, <2>13
  <1>2. Environment!DatabasePasswordFound
    BY DEF Environment!IInv, Environment!Found, Environment!Filed,
           Environment!DatabasePasswordFound
  <1>3. QED
    BY <1>1, <1>2 DEF Environment!IInv

-----------------------------------------------------------------------------
(* The launcher *)

LEMMA LaunchPlan ==
    ASSUME Launch!ConstantsOK
    PROVE  /\ Launch!First = 6 /\ Launch!Ended = 6 + Len(Order) /\ Len(Order) \in Nat
           /\ Launch!Numbers = 1 .. Len(Order) /\ DOMAIN Order = 1 .. Len(Order)
           /\ Launch!Names = {Order[i] : i \in Launch!Numbers}
           /\ \A s \in Launch!Names : \E i \in Launch!Numbers : s = Order[i]
           /\ \A i \in Launch!Numbers : Order[i] \in Launch!Names
           /\ \A i, j \in Launch!Numbers : Order[i] = Order[j] => i = j
  <1>1. Launch!First = 6
    BY DEF Launch!First, Launch!Steps
  <1>2. Len(Order) \in Nat /\ DOMAIN Order = 1 .. Len(Order)
    BY DEF Launch!ConstantsOK
  <1>3. Launch!Names = {Order[i] : i \in 1 .. Len(Order)}
    BY <1>2 DEF Launch!Names, Launch!ToSet
  <1>4. \A i, j \in 1 .. Len(Order) : Order[i] = Order[j] => i = j
    BY <1>2 DEF Launch!ConstantsOK
  <1>5. QED
    BY <1>1, <1>2, <1>3, <1>4 DEF Launch!Ended, Launch!Numbers

LEMMA LaunchInit ==
    ASSUME Launch!ConstantsOK, Launch!Init
    PROVE  Launch!IInv
  <1> USE LaunchPlan DEF Launch!Init, Launch!Running
  <1>1. Launch!Shaped
    <2>1. <<>> \in Seq(Launch!Names) /\ 1 \in 1 .. Launch!Ended
      OBVIOUS
    <2>2. QED
      BY <2>1 DEF Launch!Shaped
  <1>2. Launch!Loop /\ Launch!Listed /\ Launch!Stopping
    BY DEF Launch!Loop, Launch!Listed, Launch!Stopping
  <1>3. Launch!OrphanWasLate /\ Launch!StartedInOrder /\ Launch!StoppedInReverse
    BY DEF Launch!OrphanWasLate, Launch!StartedInOrder, Launch!StoppedInReverse, Launch!Numbers
  <1>4. QED
    BY <1>1, <1>2, <1>3 DEF Launch!IInv

\* Data goes with a reset whose volumes were found to be ours, and a volume
\* never becomes another project's.
LEMMA LaunchData ==
    ASSUME Launch!IInv, [Launch!Next]_Launch!vars
    PROVE  /\ volume' \in {"none", "ours", "foreign"}
           /\ reset' = "checked" => volume' # "foreign"
           /\ Launch!DataStep
  <1> USE DEF Launch!DataStep, Launch!Brought, Launch!Owned
  <1>1. volume \in {"none", "ours", "foreign"} /\ (reset = "checked" => volume # "foreign")
    BY DEF Launch!IInv, Launch!Shaped
  <1>2. CASE Launch!runReset
    BY <1>1, <1>2 DEF Launch!runReset
  <1>3. CASE UNCHANGED reset /\ (Launch!Brought \/ UNCHANGED <<containers, volume>> \/ volume' = volume)
    BY <1>1, <1>3
  <1>4. QED
    BY <1>1, <1>2, <1>3
       DEF Launch!Next, Launch!Prepare, Launch!Skip, Launch!Spawn, Launch!StartFails,
           Launch!Probe, Launch!Proceed, Launch!Child, Launch!Signal, Launch!Terminate,
           Launch!Waited, Launch!Exit, Launch!runStop, Launch!infra, Launch!vars

\* What remains to be shown of a step.
LaunchRest ==
    /\ at' \in 1 .. Launch!Ended /\ probed' \in BOOLEAN
    /\ stopping' \in BOOLEAN /\ exited' \in BOOLEAN /\ hurried' \in BOOLEAN
    /\ status' \in [Launch!Names -> {"none", "booting", "ready", "exited", "signalled"}]
    /\ spawned' \in Seq(Launch!Names) /\ queue' \in Seq(Launch!Names)
    /\ Launch!Loop' /\ Launch!Listed' /\ Launch!Stopping'
    /\ Launch!OrphanWasLate' /\ Launch!StartedInOrder' /\ Launch!StoppedInReverse'

\* The start loop's own steps, but for a spawn.
LoopStep ==
    /\ UNCHANGED <<sabcl, status, spawned, stopping, queue, term, hurried, late>>
    /\ at' \in 1 .. Launch!Ended /\ probed' \in BOOLEAN /\ exited' \in BOOLEAN
    /\ seen \subseteq seen'
    /\ \/ at < Launch!First
       \/ at' = at /\ exited' = exited
       \/ /\ at < Launch!Ended /\ at' = at + 1 /\ exited' = exited
          /\ \/ Order[at - Launch!First + 1] \in seen'
             \/ Order[at - Launch!First + 1] \in Optional /\ ~sabcl
    /\ at < Launch!First => at' = at + 1 \/ at' = Launch!Ended

LEMMA LaunchLoopStep ==
    ASSUME Launch!ConstantsOK, Launch!IInv,
           Launch!Prepare \/ Launch!Skip \/ Launch!Probe \/ Launch!Proceed
    PROVE  LoopStep
  <1> USE LaunchPlan DEF Launch!IInv, Launch!Shaped, Launch!children, Launch!stop, LoopStep
  <1>1. CASE Launch!Prepare
    <2>1. /\ at < Launch!First
          /\ UNCHANGED <<sabcl, status, spawned, stopping, queue, term, hurried, late, seen,
                         probed>>
      BY <1>1 DEF Launch!Prepare
    <2>2. (at' = at + 1 /\ exited' = exited) \/ (at' = Launch!Ended /\ exited' = TRUE)
      BY <1>1 DEF Launch!Prepare
    <2>3. exited' \in BOOLEAN /\ probed' \in BOOLEAN
      BY <2>1, <2>2
    <2>4. QED
      BY <2>1, <2>2, <2>3
  <1>2. CASE Launch!Skip
    BY <1>2 DEF Launch!Skip, Launch!Skipped, Launch!Service
  <1>3. CASE Launch!Probe
    BY <1>3 DEF Launch!Probe
  <1>4. CASE Launch!Proceed
    <2>1. /\ at \in Launch!First .. (Launch!Ended - 1) /\ at' = at + 1
          /\ UNCHANGED <<sabcl, status, spawned, late, stopping, queue, term, exited, hurried>>
      BY <1>4 DEF Launch!Proceed
    <2>2. seen' = seen \cup {Order[at - Launch!First + 1]} /\ probed' \in BOOLEAN
      BY <1>4 DEF Launch!Proceed, Launch!Answered, Launch!Service
    <2>3. QED
      BY <2>1, <2>2
  <1>5. QED
    BY <1>1, <1>2, <1>3, <1>4

LEMMA LaunchLoop ==
    ASSUME Launch!ConstantsOK, Launch!IInv, LoopStep
    PROVE  LaunchRest
  <1> USE LaunchPlan DEF Launch!IInv, Launch!Shaped, Launch!Running, LoopStep
  <1>1. Launch!Loop'
    <2> SUFFICES ASSUME at' < Launch!Ended, NEW i \in Launch!Numbers
                 PROVE  /\ i < at' - Launch!First + 1 =>
                              Order[i] \in seen' \/ (Order[i] \in Optional /\ ~sabcl')
                        /\ status'[Order[i]] # "none" => i <= at' - Launch!First + 1
      BY DEF Launch!Loop
    <2>1. at < Launch!Ended /\ at' \in {at, at + 1}
      OBVIOUS
    <2>2. /\ i < at - Launch!First + 1 => Order[i] \in seen \/ (Order[i] \in Optional /\ ~sabcl)
          /\ status[Order[i]] # "none" => i <= at - Launch!First + 1
      BY <2>1 DEF Launch!Loop
    <2>3. CASE at < Launch!First
      BY <2>1, <2>2, <2>3
    <2>4. CASE at >= Launch!First /\ at' = at
      BY <2>2, <2>4
    <2>5. CASE at >= Launch!First /\ at' = at + 1
      <3>1. i < at' - Launch!First + 1 => i < at - Launch!First + 1 \/ i = at - Launch!First + 1
        BY <2>5
      <3>2. QED
        BY <2>2, <2>5, <3>1
    <2>6. QED
      BY <2>1, <2>3, <2>4, <2>5
  <1>2. Launch!Listed'
    BY DEF Launch!Listed
  <1>3. Launch!Stopping'
    BY DEF Launch!Stopping
  <1>4. Launch!OrphanWasLate'
    <2>1. CASE at < Launch!First
      <3>1. \A s \in Launch!Names : status[s] = "none"
        BY <2>1 DEF Launch!Loop
      <3>2. QED
        BY <3>1 DEF Launch!OrphanWasLate
    <2>2. CASE at >= Launch!First
      <3>1. UNCHANGED <<exited, status, late, hurried, queue>>
        BY <2>2
      <3>2. QED
        BY <3>1 DEF Launch!OrphanWasLate
    <2>3. QED
      BY <2>1, <2>2
  <1>5. Launch!StartedInOrder' /\ Launch!StoppedInReverse'
    BY DEF Launch!StartedInOrder, Launch!StoppedInReverse
  <1>6. QED
    BY <1>1, <1>2, <1>3, <1>4, <1>5 DEF LaunchRest

LEMMA ListedOrder ==
    ASSUME Launch!IInv,
           NEW a \in 1 .. Len(spawned), NEW b \in 1 .. Len(spawned), a < b,
           NEW i \in Launch!Numbers, NEW j \in Launch!Numbers,
           spawned[a] = Order[i], spawned[b] = Order[j]
    PROVE  i < j
  BY DEF Launch!IInv, Launch!Listed

LEMMA LaunchSpawn ==
    ASSUME Launch!ConstantsOK, Launch!IInv, Launch!Spawn
    PROVE  LaunchRest
  <1> USE LaunchPlan DEF Launch!IInv, Launch!Shaped, Launch!Running
  <1> DEFINE k == at - Launch!First + 1
             s == Order[k]
  <1>1. /\ at \in Launch!First .. (Launch!Ended - 1) /\ ~exited /\ status[s] = "none"
        /\ status' = [status EXCEPT ![s] = "booting"] /\ spawned' = Append(spawned, s)
        /\ probed' = FALSE
        /\ late' = IF stopping THEN late \cup {s} ELSE late
        /\ UNCHANGED <<sabcl, at, seen, stopping, queue, term, exited, hurried>>
    BY DEF Launch!Spawn, Launch!Service, Launch!stop
  <1>2. k \in Launch!Numbers /\ s \in Launch!Names
    <2>1. k \in Launch!Numbers
      BY <1>1
    <2> HIDE DEF k
    <2>2. QED
      BY <2>1
  <1>3. /\ spawned' \in Seq(Launch!Names) /\ Len(spawned') = Len(spawned) + 1
        /\ Len(spawned) \in Nat
        /\ \A a \in 1 .. Len(spawned) : spawned'[a] = spawned[a]
        /\ spawned'[Len(spawned) + 1] = s
    BY <1>1, <1>2
  <1>4. \A q \in Launch!Names : status'[q] = IF q = s THEN "booting" ELSE status[q]
    BY <1>1, <1>2
  <1>5. \A i \in Launch!Numbers : Order[i] = s => i = k
    BY <1>2
  <1>6. /\ \A i \in Launch!Numbers : status[Order[i]] # "none" => i < k
        /\ \A i \in Launch!Numbers : i < k => Order[i] \in seen \/ (Order[i] \in Optional /\ ~sabcl)
    <2>1. \A i \in Launch!Numbers :
             /\ i < k => Order[i] \in seen \/ (Order[i] \in Optional /\ ~sabcl)
             /\ status[Order[i]] # "none" => i <= k
      BY <1>1 DEF Launch!Loop
    <2>2. QED
      BY <1>1, <1>2, <2>1
  <1>7. Launch!Loop'
    <2>1. at' - Launch!First + 1 = k
      BY <1>1
    <2> HIDE DEF s
    <2>2. ASSUME NEW i \in Launch!Numbers, status'[Order[i]] # "none"
          PROVE  i <= k
      <3>1. Order[i] \in Launch!Names /\ i \in Nat /\ k \in Nat
        BY <1>2
      <3>2. Order[i] = s \/ status[Order[i]] # "none"
        BY <1>4, <2>2, <3>1
      <3> HIDE DEF Launch!IInv, k
      <3>3. QED
        BY <1>5, <1>6, <3>1, <3>2
    <2>3. QED
      BY <1>1, <1>6, <2>1, <2>2 DEF Launch!Loop
  <1> HIDE DEF k, s
  <1>8. Launch!Listed'
    <2>1. ASSUME NEW q \in Launch!Names, status'[q] # "none"
          PROVE  \E a \in 1 .. Len(spawned') : spawned'[a] = q
      <3>1. CASE q = s
        <4>1. Len(spawned) + 1 \in 1 .. Len(spawned')
          BY <1>3
        <4>2. QED
          BY <1>3, <3>1, <4>1
      <3>2. CASE q # s
        <4>1. PICK a \in 1 .. Len(spawned) : spawned[a] = q
          BY <1>4, <2>1, <3>2 DEF Launch!Listed
        <4>2. a \in 1 .. Len(spawned')
          BY <1>3
        <4>3. QED
          BY <1>3, <4>1, <4>2
      <3>3. QED
        BY <3>1, <3>2
    <2>2. ASSUME NEW a \in 1 .. Len(spawned')
          PROVE  /\ status'[spawned'[a]] # "none" /\ spawned'[a] \in Launch!Names
                 /\ a \in 1 .. Len(spawned) \/ a = Len(spawned) + 1
      <3>1. a \in 1 .. Len(spawned) \/ a = Len(spawned) + 1
        BY <1>3
      <3>2. CASE a \in 1 .. Len(spawned)
        <4>1. spawned[a] \in Launch!Names /\ status[spawned[a]] # "none"
          BY <3>2 DEF Launch!Listed
        <4>2. QED
          BY <1>3, <1>4, <3>2, <4>1
      <3>3. CASE a = Len(spawned) + 1
        BY <1>2, <1>3, <1>4, <3>3
      <3>4. QED
        BY <3>1, <3>2, <3>3
    <2>3. ASSUME NEW a \in 1 .. Len(spawned'), NEW b \in 1 .. Len(spawned'), a < b,
                 NEW i \in Launch!Numbers, NEW j \in Launch!Numbers,
                 spawned'[a] = Order[i], spawned'[b] = Order[j]
          PROVE  i < j
      <3> HIDE DEF Launch!IInv
      <3>1. a \in 1 .. Len(spawned) /\ spawned[a] = Order[i]
        <4>1. a \in 1 .. Len(spawned)
          BY <1>3, <2>3
        <4>2. QED
          BY <1>3, <2>3, <4>1
      <3>2. status[Order[i]] # "none"
        BY <3>1 DEF Launch!Listed, Launch!IInv
      <3>3. CASE b \in 1 .. Len(spawned)
        <4>1. spawned[b] = Order[j]
          BY <1>3, <2>3, <3>3
        <4>2. QED
          BY <2>3, <3>1, <3>3, <4>1, ListedOrder
      <3>4. CASE b = Len(spawned) + 1
        BY <1>3, <1>5, <1>6, <2>3, <3>2, <3>4
      <3>5. QED
        BY <2>2, <3>3, <3>4
    <2>4. QED
      BY <2>1, <2>2, <2>3 DEF Launch!Listed
  <1>9. Launch!Stopping'
    <2>1. ASSUME stopping, NEW q \in Launch!Names, status'[q] \in {"booting", "ready"},
                 q \notin late'
          PROVE  \E a \in 1 .. Len(queue) : queue[a] = q
      BY <1>1, <1>4, <2>1 DEF Launch!Stopping
    <2>2. QED
      BY <1>1, <2>1 DEF Launch!Stopping
  <1>10. Launch!OrphanWasLate'
    BY <1>1 DEF Launch!OrphanWasLate
  <1>11. Launch!StartedInOrder'
    BY <1>1, <1>2, <1>4, <1>5, <1>6 DEF Launch!StartedInOrder
  <1>12. Launch!StoppedInReverse'
    <2>1. ASSUME stopping PROVE Launch!StoppedInReverse'
      BY <1>1, <1>4, <2>1 DEF Launch!StoppedInReverse
    <2>2. ASSUME ~stopping PROVE Launch!StoppedInReverse'
      BY <1>1, <2>2 DEF Launch!StoppedInReverse, Launch!Stopping
    <2>3. QED
      BY <2>1, <2>2
  <1>13. QED
    BY <1>1, <1>3, <1>7, <1>8, <1>9, <1>10, <1>11, <1>12 DEF LaunchRest, k, s

\* Shutdown begins: the list of children is copied, last first.
LEMMA LaunchShutdown ==
    ASSUME Launch!ConstantsOK, Launch!IInv, Launch!StartFails \/ Launch!Signal
    PROVE  LaunchRest
  <1> USE LaunchPlan DEF Launch!IInv, Launch!Shaped, Launch!Running
  <1>1. /\ stopping' = TRUE /\ at' \in {at, Launch!Ended}
        /\ queue' = IF stopping THEN queue ELSE Launch!Reverse(spawned)
        /\ \/ UNCHANGED <<exited, hurried>>
           \/ stopping /\ exited' = TRUE /\ hurried' = TRUE
        /\ ~exited
        /\ UNCHANGED <<sabcl, status, probed, spawned, seen, late, term>>
    BY DEF Launch!StartFails, Launch!Signal, Launch!BeginShutdown, Launch!ReverseOrder,
           Launch!children
  <1> DEFINE n == Len(spawned)
             q == Launch!Reverse(spawned)
  <1>2. n \in Nat /\ q = [a \in 1 .. n |-> spawned[(n - a) + 1]]
    BY DEF Launch!Reverse
  <1>3. q \in Seq(Launch!Names) /\ Len(q) = n /\ \A a \in 1 .. n : q[a] = spawned[n - a + 1]
    <2>1. \A a \in 1 .. n : n - a + 1 \in 1 .. n /\ spawned[n - a + 1] \in Launch!Names
      BY <1>2
    <2> HIDE DEF q
    <2>2. QED
      BY <1>2, <2>1
  <1> HIDE DEF q
  <1>4. queue' \in Seq(Launch!Names)
    BY <1>1, <1>3 DEF q
  <1>5. Launch!Stopping'
    <2>1. CASE stopping
      BY <1>1, <2>1 DEF Launch!Stopping
    <2>2. CASE ~stopping
      <3>1. queue' = q
        BY <1>1, <2>2 DEF q
      <3>2. ASSUME NEW s \in Launch!Names, status[s] # "none"
            PROVE  \E a \in 1 .. Len(q) : q[a] = s
        <4>1. PICK a \in 1 .. n : spawned[a] = s
          BY <3>2 DEF Launch!Listed
        <4>2. n - a + 1 \in 1 .. n /\ n - (n - a + 1) + 1 = a
          BY <1>2
        <4>3. q[n - a + 1] = s
          BY <1>3, <4>1, <4>2
        <4>4. QED
          BY <1>3, <4>2, <4>3
      <3>3. ASSUME NEW a \in 1 .. Len(q), NEW b \in 1 .. Len(q), a < b,
                   NEW i \in Launch!Numbers, NEW j \in Launch!Numbers,
                   q[a] = Order[i], q[b] = Order[j]
            PROVE  i > j
        <4> HIDE DEF Launch!IInv, n
        <4>0. a \in 1 .. n /\ b \in 1 .. n /\ n \in Nat
          BY <1>2, <1>3, <3>3
        <4>1. /\ n - a + 1 \in 1 .. n /\ n - b + 1 \in 1 .. n /\ n - b + 1 < n - a + 1
              /\ spawned[n - a + 1] = Order[i] /\ spawned[n - b + 1] = Order[j]
          BY <1>3, <3>3, <4>0
        <4> USE DEF n
        <4>2. PICK c \in 1 .. Len(spawned), d \in 1 .. Len(spawned) :
                 c < d /\ spawned[c] = Order[j] /\ spawned[d] = Order[i]
          BY <4>1
        <4>3. j < i
          BY <4>2, ListedOrder
        <4>4. QED
          BY <4>3
      <3> HIDE DEF Launch!IInv
      <3>4. /\ ~stopping' => term' = {}
            /\ \A s \in Launch!Names : status'[s] # "none" =>
                  \E a \in 1 .. Len(queue') : queue'[a] = s
        BY <1>1, <3>1, <3>2
      <3>5. \A a, b \in 1 .. Len(queue') : \A i, j \in Launch!Numbers :
               a < b /\ queue'[a] = Order[i] /\ queue'[b] = Order[j] => i > j
        BY <3>1, <3>3
      <3>6. QED
        BY <3>4, <3>5 DEF Launch!Stopping
    <2>3. QED
      BY <2>1, <2>2
  <1>6. Launch!Loop' /\ Launch!Listed'
    BY <1>1 DEF Launch!Loop, Launch!Listed
  <1>7. Launch!OrphanWasLate' /\ Launch!StartedInOrder' /\ Launch!StoppedInReverse'
    <2>1. Launch!OrphanWasLate'
      <3>1. CASE exited' = exited
        BY <1>1, <3>1 DEF Launch!OrphanWasLate
      <3>2. CASE stopping /\ exited' = TRUE /\ hurried' = TRUE
        BY <1>1, <3>2 DEF Launch!OrphanWasLate, Launch!Stopping
      <3>3. QED
        BY <1>1, <3>1, <3>2
    <2>2. QED
      BY <1>1, <2>1 DEF Launch!StartedInOrder, Launch!StoppedInReverse
  <1>8. /\ at' \in 1 .. Launch!Ended /\ stopping' \in BOOLEAN
        /\ exited' \in BOOLEAN /\ hurried' \in BOOLEAN
    <2>1. at' \in 1 .. Launch!Ended /\ stopping' \in BOOLEAN
      BY <1>1
    <2>2. exited \in BOOLEAN /\ hurried \in BOOLEAN
      OBVIOUS
    <2>3. exited' \in BOOLEAN /\ hurried' \in BOOLEAN
      <3> HIDE DEF Launch!IInv
      <3>1. CASE UNCHANGED <<exited, hurried>>
        BY <2>2, <3>1
      <3>2. CASE exited' = TRUE /\ hurried' = TRUE
        BY <3>2
      <3>3. QED
        BY <1>1, <3>1, <3>2
    <2>4. QED
      BY <2>1, <2>3
  <1>9. QED
    BY <1>1, <1>4, <1>5, <1>6, <1>7, <1>8 DEF LaunchRest

LEMMA LaunchChild ==
    ASSUME Launch!ConstantsOK, Launch!IInv, NEW s \in Launch!Names, Launch!Child(s)
    PROVE  LaunchRest
  <1> USE LaunchPlan DEF Launch!IInv, Launch!Shaped, Launch!Running
  <1>1. /\ UNCHANGED <<sabcl, at, probed, spawned, seen, late, stopping, queue, term, exited,
                       hurried>>
        /\ status' \in [Launch!Names -> {"none", "booting", "ready", "exited", "signalled"}]
        /\ \A q \in Launch!Names :
              /\ status'[q] = "none" <=> status[q] = "none"
              /\ status'[q] \in {"booting", "ready"} => status[q] \in {"booting", "ready"}
    BY DEF Launch!Child, Launch!BecomeReady, Launch!Leave, Launch!Obey, Launch!stop
  <1>2. Launch!Loop'
    BY <1>1 DEF Launch!Loop
  <1>3. Launch!Listed'
    <2>1. \A a \in 1 .. Len(spawned) : spawned[a] \in Launch!Names
      OBVIOUS
    <2>2. QED
      BY <1>1, <2>1 DEF Launch!Listed
  <1>4. Launch!Stopping'
    BY <1>1 DEF Launch!Stopping
  <1>5. Launch!OrphanWasLate' /\ Launch!StartedInOrder' /\ Launch!StoppedInReverse'
    BY <1>1 DEF Launch!OrphanWasLate, Launch!StartedInOrder, Launch!StoppedInReverse
  <1>6. QED
    BY <1>1, <1>2, <1>3, <1>4, <1>5 DEF LaunchRest

\* The head of the queue is past the others in the plan, so whatever comes
\* after it there is gone or late.
LEMMA LaunchStop ==
    ASSUME Launch!ConstantsOK, Launch!IInv,
           Launch!Terminate \/ Launch!Waited \/ Launch!Exit
    PROVE  LaunchRest
  <1> USE LaunchPlan DEF Launch!Running
  <1> DEFINE h == Head(queue)
  <1>1. Launch!Shaped /\ stopping /\ ~exited
    BY DEF Launch!IInv, Launch!Terminate, Launch!Waited, Launch!Exit
  <1>2. CASE Launch!Exit
    <2>1. /\ queue = <<>> /\ exited' = TRUE /\ at' = Launch!Ended
          /\ UNCHANGED <<sabcl, status, probed, spawned, seen, late, stopping, queue, term,
                         hurried>>
      BY <1>2 DEF Launch!Exit, Launch!children
    <2>2. Launch!Loop' /\ Launch!Listed' /\ Launch!Stopping'
      <3>1. Launch!Loop'
        BY <2>1 DEF Launch!Loop
      <3>2. Launch!Listed'
        BY <2>1 DEF Launch!IInv, Launch!Listed
      <3>3. Launch!Stopping'
        BY <2>1 DEF Launch!IInv, Launch!Stopping
      <3>4. QED
        BY <3>1, <3>2, <3>3
    <2>3. Launch!OrphanWasLate'
      BY <1>1, <2>1 DEF Launch!IInv, Launch!OrphanWasLate, Launch!Stopping
    <2>4. Launch!StartedInOrder' /\ Launch!StoppedInReverse'
      BY <2>1 DEF Launch!IInv, Launch!StartedInOrder, Launch!StoppedInReverse
    <2>5. exited' \in BOOLEAN /\ at' \in 1 .. Launch!Ended
      BY <2>1
    <2>6. QED
      BY <1>1, <2>1, <2>2, <2>3, <2>4, <2>5 DEF LaunchRest, Launch!Shaped
  <1>3. ASSUME queue # <<>>
        PROVE  /\ h \in Launch!Names /\ Tail(queue) \in Seq(Launch!Names)
               /\ Len(Tail(queue)) = Len(queue) - 1 /\ Len(queue) \in Nat \ {0}
               /\ h = queue[1]
               /\ \A a \in 1 .. Len(Tail(queue)) : Tail(queue)[a] = queue[a + 1]
    BY <1>1, <1>3 DEF Launch!Shaped
  <1>4. ASSUME queue # <<>>, queue' = Tail(queue), UNCHANGED <<stopping, term, late, sabcl>>,
               \A q \in Launch!Names :
                  /\ status'[q] \in {"booting", "ready"} => status[q] \in {"booting", "ready"}
                  /\ q = h => status'[q] \notin {"booting", "ready"}
        PROVE  Launch!Stopping'
    <2> HIDE DEF h
    <2>1. ASSUME NEW q \in Launch!Names, status'[q] \in {"booting", "ready"}, q \notin late
          PROVE  \E a \in 1 .. Len(queue') : queue'[a] = q
      <3>1. PICK a \in 1 .. Len(queue) : queue[a] = q
        BY <1>1, <1>4, <2>1 DEF Launch!IInv, Launch!Stopping
      <3>2. a # 1
        BY <1>3, <1>4, <2>1, <3>1
      <3>3. a - 1 \in 1 .. Len(queue') /\ queue'[a - 1] = q
        BY <1>3, <1>4, <3>1, <3>2
      <3>4. QED
        BY <3>3
    <2>2. ASSUME NEW a \in 1 .. Len(queue'), NEW b \in 1 .. Len(queue'), a < b,
                 NEW i \in Launch!Numbers, NEW j \in Launch!Numbers,
                 queue'[a] = Order[i], queue'[b] = Order[j]
          PROVE  i > j
      <3>1. PICK c \in 1 .. Len(queue), d \in 1 .. Len(queue) :
               c < d /\ queue[c] = Order[i] /\ queue[d] = Order[j]
        <4>1. /\ a + 1 \in 1 .. Len(queue) /\ b + 1 \in 1 .. Len(queue) /\ a + 1 < b + 1
              /\ queue[a + 1] = Order[i] /\ queue[b + 1] = Order[j]
          BY <1>3, <1>4, <2>2
        <4>2. QED
          BY <4>1
      <3>2. QED
        BY <1>1, <3>1 DEF Launch!IInv, Launch!Stopping
    <2>3. ~stopping' => term' = {}
      BY <1>1, <1>4
    <2>4. \A a, b \in 1 .. Len(queue') : \A i, j \in Launch!Numbers :
             a < b /\ queue'[a] = Order[i] /\ queue'[b] = Order[j] => i > j
      BY <2>2
    <2>5. \A q \in Launch!Names : status'[q] \in {"booting", "ready"} /\ q \notin late' =>
             \E a \in 1 .. Len(queue') : queue'[a] = q
      BY <1>4, <2>1
    <2>6. QED
      BY <2>3, <2>4, <2>5 DEF Launch!Stopping
  <1>5. CASE Launch!Waited
    <2>1. /\ queue # <<>> /\ queue' = Tail(queue)
          /\ status' = [status EXCEPT ![h] =
                          IF status[h] \in {"booting", "ready"} THEN "signalled" ELSE status[h]]
          /\ UNCHANGED <<sabcl, at, probed, spawned, seen, late, stopping, term, exited,
                         hurried>>
      BY <1>5 DEF Launch!Waited, Launch!Killed
    <2>2. h \in Launch!Names /\ queue' \in Seq(Launch!Names)
      BY <1>3, <2>1
    <2> HIDE DEF h
    <2>3. /\ status' \in [Launch!Names -> {"none", "booting", "ready", "exited", "signalled"}]
          /\ \A q \in Launch!Names :
                /\ status'[q] = "none" <=> status[q] = "none"
                /\ status'[q] \in {"booting", "ready"} => status[q] \in {"booting", "ready"}
                /\ q = h => status'[q] \notin {"booting", "ready"}
      BY <1>1, <2>1, <2>2 DEF Launch!Shaped
    <2>4. Launch!Stopping'
      BY <1>4, <2>1, <2>3
    <2>5. Launch!Loop'
      BY <2>1, <2>3 DEF Launch!IInv, Launch!Loop
    <2>6. Launch!Listed'
      <3>1. \A a \in 1 .. Len(spawned) : spawned[a] \in Launch!Names
        BY <1>1 DEF Launch!Shaped
      <3>2. QED
        BY <2>1, <2>3, <3>1 DEF Launch!IInv, Launch!Listed
    <2>7. Launch!OrphanWasLate' /\ Launch!StartedInOrder' /\ Launch!StoppedInReverse'
      BY <1>1, <2>1, <2>3
         DEF Launch!IInv, Launch!OrphanWasLate, Launch!StartedInOrder, Launch!StoppedInReverse,
             Launch!Numbers
    <2>8. QED
      BY <1>1, <2>1, <2>2, <2>3, <2>4, <2>5, <2>6, <2>7 DEF LaunchRest, Launch!Shaped
  <1>6. CASE Launch!Terminate
    <2>1. /\ queue # <<>>
          /\ UNCHANGED <<sabcl, at, status, probed, spawned, seen, late, stopping, exited,
                         hurried>>
          /\ \/ status[h] = "exited" /\ queue' = Tail(queue) /\ term' = term
             \/ queue' = queue /\ term' = term \cup {h}
      BY <1>6 DEF Launch!Terminate, Launch!children
    <2>2. Launch!Loop' /\ Launch!Listed' /\ Launch!OrphanWasLate' /\ Launch!StartedInOrder'
      <3>1. Launch!Loop' /\ Launch!Listed' /\ Launch!StartedInOrder'
        BY <2>1 DEF Launch!IInv, Launch!Loop, Launch!Listed, Launch!StartedInOrder
      <3>2. Launch!OrphanWasLate'
        BY <1>1, <2>1 DEF Launch!OrphanWasLate
      <3>3. QED
        BY <3>1, <3>2
    <2>3. h \in Launch!Names /\ queue' \in Seq(Launch!Names)
      BY <1>1, <1>3, <2>1 DEF Launch!Shaped
    <2>4. Launch!Stopping'
      <3>1. CASE queue' = queue
        BY <1>1, <2>1, <3>1 DEF Launch!IInv, Launch!Stopping
      <3>2. CASE queue' # queue
        BY <1>4, <2>1, <3>2
      <3>3. QED
        BY <3>1, <3>2
    <2>5. Launch!StoppedInReverse'
      <3>1. ASSUME NEW i \in Launch!Numbers, NEW j \in Launch!Numbers, i < j, Order[i] = h,
                   status[Order[j]] \in {"booting", "ready"}, Order[j] \notin late
            PROVE  FALSE
        <4>1. PICK b \in 1 .. Len(queue) : queue[b] = Order[j]
          BY <1>1, <3>1 DEF Launch!IInv, Launch!Stopping
        <4>2. b # 1 /\ 1 \in 1 .. Len(queue) /\ 1 < b /\ queue[1] = Order[i]
          BY <1>3, <2>1, <3>1, <4>1
        <4>3. i > j
          BY <1>1, <4>1, <4>2 DEF Launch!IInv, Launch!Stopping
        <4>4. QED
          BY <3>1, <4>3
      <3> HIDE DEF h
      <3>2. QED
        BY <2>1, <3>1 DEF Launch!IInv, Launch!StoppedInReverse, Launch!Numbers
    <2>6. QED
      BY <1>1, <2>1, <2>2, <2>3, <2>4, <2>5 DEF LaunchRest, Launch!Shaped
  <1>7. QED
    BY <1>2, <1>5, <1>6

LEMMA LaunchRestIsEnough ==
    ASSUME Launch!IInv, [Launch!Next]_Launch!vars, LaunchRest
    PROVE  Launch!IInv'
  BY LaunchData DEF LaunchRest, Launch!IInv, Launch!Shaped

LEMMA LaunchNext ==
    ASSUME Launch!ConstantsOK, Launch!IInv, [Launch!Next]_Launch!vars
    PROVE  Launch!IInv'
  <1>1. ASSUME Launch!runStop \/ Launch!runReset \/ UNCHANGED Launch!vars
        PROVE  LaunchRest
    <2>1. UNCHANGED <<sabcl, at, status, probed, spawned, stopping, queue, term, exited,
                      hurried, seen, late>>
      BY <1>1 DEF Launch!runStop, Launch!runReset, Launch!children, Launch!stop, Launch!vars
    <2>2. /\ at' \in 1 .. Launch!Ended /\ probed' \in BOOLEAN
          /\ stopping' \in BOOLEAN /\ exited' \in BOOLEAN /\ hurried' \in BOOLEAN
          /\ status' \in [Launch!Names -> {"none", "booting", "ready", "exited", "signalled"}]
          /\ spawned' \in Seq(Launch!Names) /\ queue' \in Seq(Launch!Names)
      BY <2>1 DEF Launch!IInv, Launch!Shaped
    <2>3. Launch!Loop'
      BY <2>1 DEF Launch!IInv, Launch!Loop
    <2>4. Launch!Listed'
      BY <2>1 DEF Launch!IInv, Launch!Listed
    <2>5. Launch!Stopping'
      BY <2>1 DEF Launch!IInv, Launch!Stopping
    <2>6. Launch!OrphanWasLate'
      BY <2>1 DEF Launch!IInv, Launch!OrphanWasLate
    <2>7. Launch!StartedInOrder'
      BY <2>1 DEF Launch!IInv, Launch!StartedInOrder
    <2>8. Launch!StoppedInReverse'
      BY <2>1 DEF Launch!IInv, Launch!StoppedInReverse
    <2>9. QED
      BY <2>2, <2>3, <2>4, <2>5, <2>6, <2>7, <2>8 DEF LaunchRest
  <1>2. CASE Launch!Prepare \/ Launch!Skip \/ Launch!Probe \/ Launch!Proceed
    <2>1. LoopStep
      BY <1>2, LaunchLoopStep
    <2>2. LaunchRest
      BY <2>1, LaunchLoop
    <2>3. QED
      BY <2>2, LaunchRestIsEnough
  <1>3. CASE Launch!Spawn
    BY <1>3, LaunchSpawn, LaunchRestIsEnough
  <1>4. CASE Launch!StartFails \/ Launch!Signal
    BY <1>4, LaunchShutdown, LaunchRestIsEnough
  <1>5. ASSUME NEW s \in Launch!Names, Launch!Child(s)
        PROVE  Launch!IInv'
    BY <1>5, LaunchChild, LaunchRestIsEnough
  <1>6. CASE Launch!Terminate \/ Launch!Waited \/ Launch!Exit
    BY <1>6, LaunchStop, LaunchRestIsEnough
  <1>7. QED
    BY <1>1, <1>2, <1>3, <1>4, <1>5, <1>6, LaunchRestIsEnough DEF Launch!Next
-----------------------------------------------------------------------------
(* The sealed calls: SabclProofs speaks of an instance of its own. *)

SealedCalls == INSTANCE SabclProofs WITH MaxTime <- SabclTime

LEMMA SealedCallsInit == Envelopes!Init => SealedCalls!Init
  BY DEF Envelopes!Init, SealedCalls!Init, Envelopes!NotSealed, SealedCalls!NotSealed

LEMMA SealedCallsNext == Envelopes!Next => SealedCalls!Next
  <1> USE DEF Envelopes!NotSealed, SealedCalls!NotSealed, Envelopes!Goto, SealedCalls!Goto,
              Envelopes!Exp, SealedCalls!Exp
  <1>1. Envelopes!Tick => SealedCalls!Tick
    BY DEF Envelopes!Tick, SealedCalls!Tick
  <1>2. Envelopes!AddPeer => SealedCalls!AddPeer
    BY DEF Envelopes!AddPeer, SealedCalls!AddPeer
  <1>3. Envelopes!RotateOwn => SealedCalls!RotateOwn
    BY DEF Envelopes!RotateOwn, SealedCalls!RotateOwn,
           Envelopes!InRecipient, SealedCalls!InRecipient
  <1>4. ASSUME NEW m \in Messages
        PROVE  /\ Envelopes!Send(m) => SealedCalls!Send(m)
               /\ Envelopes!Receive(m) => SealedCalls!Receive(m)
               /\ Envelopes!GiveUp(m) => SealedCalls!GiveUp(m)
    <2>1. Envelopes!Send(m) => SealedCalls!Send(m)
      BY DEF Envelopes!Send, SealedCalls!Send,
             Envelopes!ActivePeerFor, SealedCalls!ActivePeerFor
    <2>2. Envelopes!Receive(m) => SealedCalls!Receive(m)
      BY DEF Envelopes!Receive, SealedCalls!Receive, Envelopes!Opens, SealedCalls!Opens
    <2>3. Envelopes!GiveUp(m) => SealedCalls!GiveUp(m)
      BY DEF Envelopes!GiveUp, SealedCalls!GiveUp
    <2>4. QED
      BY <2>1, <2>2, <2>3
  <1>5. ASSUME NEW d \in Deliveries
        PROVE  /\ Envelopes!Fresh(d) = SealedCalls!Fresh(d)
               /\ Envelopes!Life(d) = SealedCalls!Life(d)
    BY DEF Envelopes!Fresh, SealedCalls!Fresh, Envelopes!Clock, SealedCalls!Clock,
           Envelopes!Life, SealedCalls!Life, Envelopes!AtLeast1, SealedCalls!AtLeast1
  <1>6. ASSUME NEW d \in Deliveries
        PROVE  /\ Envelopes!Route(d) => SealedCalls!Route(d)
               /\ Envelopes!Expire(d) => SealedCalls!Expire(d)
               /\ Envelopes!RouterClaim(d) => SealedCalls!RouterClaim(d)
               /\ Envelopes!OpenRequest(d) => SealedCalls!OpenRequest(d)
               /\ Envelopes!RecipientClaim(d) => SealedCalls!RecipientClaim(d)
               /\ Envelopes!Dispatch(d) => SealedCalls!Dispatch(d)
    <2>1. Envelopes!Route(d) => SealedCalls!Route(d)
      BY <1>5 DEF Envelopes!Route, SealedCalls!Route, Envelopes!RateNow, SealedCalls!RateNow,
             Envelopes!ExpireDue, SealedCalls!ExpireDue,
             Envelopes!AfterRate, SealedCalls!AfterRate
    <2>2. Envelopes!Expire(d) => SealedCalls!Expire(d)
      BY DEF Envelopes!Expire, SealedCalls!Expire, Envelopes!AfterRate, SealedCalls!AfterRate
    <2>3. Envelopes!RouterClaim(d) => SealedCalls!RouterClaim(d)
      BY DEF Envelopes!RouterClaim, SealedCalls!RouterClaim, Envelopes!Claim,
             SealedCalls!Claim, Envelopes!Grants, SealedCalls!Grants
    <2>4. Envelopes!OpenRequest(d) => SealedCalls!OpenRequest(d)
      BY <1>5 DEF Envelopes!OpenRequest, SealedCalls!OpenRequest
    <2>5. Envelopes!RecipientClaim(d) => SealedCalls!RecipientClaim(d)
      BY DEF Envelopes!RecipientClaim, SealedCalls!RecipientClaim, Envelopes!Claim,
             SealedCalls!Claim, Envelopes!Grants, SealedCalls!Grants,
             Envelopes!SameStore, SealedCalls!SameStore
    <2>6. Envelopes!Dispatch(d) => SealedCalls!Dispatch(d)
      BY DEF Envelopes!Dispatch, SealedCalls!Dispatch,
             Envelopes!SealsReply, SealedCalls!SealsReply
    <2>7. QED
      BY <2>1, <2>2, <2>3, <2>4, <2>5, <2>6
  <1>7. QED
    BY <1>1, <1>2, <1>3, <1>4, <1>6 DEF Envelopes!Next, SealedCalls!Next

LEMMA SealedCallsSafe ==
    ASSUME Envelopes!ConstantsOK, SharedPrefix = FALSE
    PROVE  SealedCalls!Spec => []SealedCalls!CallsDispatchOnce
  <1>1. SealedCalls!ConstantsOK
    BY DEF Envelopes!ConstantsOK, SealedCalls!ConstantsOK
  <1>2. QED
    BY <1>1, SealedCalls!SabclCallsDispatchOnce

LEMMA SealedCallsSame == SealedCalls!CallsDispatchOnce => Envelopes!CallsDispatchOnce
  <1>1. SealedCalls!TypeOK => Envelopes!TypeOK
    BY DEF Envelopes!TypeOK, SealedCalls!TypeOK, Envelopes!Places, SealedCalls!Places,
           Envelopes!InRecipient, SealedCalls!InRecipient
  <1>2. SealedCalls!RateCounterEnds => Envelopes!RateCounterEnds
    BY DEF Envelopes!RateCounterEnds, SealedCalls!RateCounterEnds,
           Envelopes!RateNow, SealedCalls!RateNow
  <1>3. QED
    BY <1>1, <1>2
       DEF Envelopes!CallsDispatchOnce, SealedCalls!CallsDispatchOnce,
           Envelopes!DispatchOnceUnlessLate, SealedCalls!DispatchOnceUnlessLate,
           Envelopes!ReplayedWasSeen, SealedCalls!ReplayedWasSeen,
           Envelopes!AnsweredWasDispatched, SealedCalls!AnsweredWasDispatched,
           Envelopes!RotationSettles, SealedCalls!RotationSettles

-----------------------------------------------------------------------------
(* The deterministic rules.  More facts trigger more rules, weights are    *)
(* natural numbers, so the score and the band never fall (ScoreGrows); an  *)
(* existing control or incident alone weighs 50 (ExistingWeighs).          *)

\* The rules' names, eight and seven.
Moderate == {"AUTH_FAILURE_BURST", "REQUEST_VELOCITY", "TRANSFER_VELOCITY",
             "CUMULATIVE_OUTGOING"}
            \cup {"HIGH_VALUE", "NEW_RECIPIENT_HIGH_VALUE",
                  "INSUFFICIENT_FUNDS_BURST", "REPLAY_PATTERN"}
Grave == {"SHARED_DEVICE_CLUSTER", "RAPID_REGION_CHANGE", "INTEGRITY_ANOMALY",
          "INTERNAL_AUTH_FAILURE"}
         \cup {"SENSITIVE_REQUEST_FAILURES", "KNOWN_BLOCKED_SCOPE",
               "EXISTING_RISK_STATE", "REPLAY_PATTERN"}
RuleNames == Moderate \cup Grave

\* There are finitely many rules.
LEMMA RulesFinite == IsFiniteSet(RuleNames)
  <1>1. ASSUME NEW a, NEW b PROVE IsFiniteSet({a, b})
    <2>1. {a, b} = {a} \cup {b}
      OBVIOUS
    <2>2. IsFiniteSet({a} \cup {b})
      BY FS_Singleton, FS_Union
    <2>3. QED
      BY <2>1, <2>2
  <1>2. ASSUME NEW a, NEW b, NEW c, NEW d PROVE IsFiniteSet({a, b, c, d})
    <2>1. {a, b, c, d} = {a, b} \cup {c, d}
      OBVIOUS
    <2>2. IsFiniteSet({a, b} \cup {c, d})
      BY <1>1, FS_Union
    <2>3. QED
      BY <2>1, <2>2
  <1>3. IsFiniteSet(Moderate)
    <2>1. IsFiniteSet({"AUTH_FAILURE_BURST", "REQUEST_VELOCITY", "TRANSFER_VELOCITY",
                       "CUMULATIVE_OUTGOING"})
      BY <1>2
    <2>2. IsFiniteSet({"HIGH_VALUE", "NEW_RECIPIENT_HIGH_VALUE",
                       "INSUFFICIENT_FUNDS_BURST", "REPLAY_PATTERN"})
      BY <1>2
    <2>3. QED
      BY <2>1, <2>2, FS_Union DEF Moderate
  <1>4. IsFiniteSet(Grave)
    <2>1. IsFiniteSet({"SHARED_DEVICE_CLUSTER", "RAPID_REGION_CHANGE",
                       "INTEGRITY_ANOMALY", "INTERNAL_AUTH_FAILURE"})
      BY <1>2
    <2>2. IsFiniteSet({"SENSITIVE_REQUEST_FAILURES", "KNOWN_BLOCKED_SCOPE",
                       "EXISTING_RISK_STATE", "REPLAY_PATTERN"})
      BY <1>2
    <2>3. QED
      BY <2>1, <2>2, FS_Union DEF Grave
  <1>5. QED
    BY <1>3, <1>4, FS_Union DEF RuleNames

\* What triggeredRiskRules weighs a rule with is a natural number.
LEMMA WeightsNatural ==
    /\ \A r \in RuleNames : Rules!Weight[r] \in Nat
    /\ Rules!Weight["EXISTING_RISK_STATE"] = 50
  BY DEF RuleNames, Moderate, Grave, Rules!Weight

\* Another fact takes no rule away.
LEMMA RulesTriggered ==
    ASSUME NEW f, NEW g, f \subseteq g
    PROVE  /\ Rules!TriggeredRules(f) \subseteq RuleNames
           /\ Rules!TriggeredRules(f) \subseteq Rules!TriggeredRules(g)
           /\ {"activeIncident", "activeControl"} \cap f # {} =>
                  "EXISTING_RISK_STATE" \in Rules!TriggeredRules(f)
  BY DEF Rules!TriggeredRules, RuleNames, Moderate, Grave

\* The instance's sums are the sums of Sums.
LEMMA RulesSums ==
    ASSUME NEW f, NEW S
    PROVE  Rules!SumFunctionOnSet(f, S) = SumFunctionOnSet(f, S)
  BY DEF Rules!SumFunctionOnSet, Rules!FoldFunctionOnSet, Rules!MapThenFoldSet,
         SumFunctionOnSet, FoldFunctionOnSet, MapThenFoldSet

LEMMA ScoreGrows ==
    ASSUME NEW f, NEW g, f \subseteq g
    PROVE  /\ Rules!Score(f) \in Nat /\ Rules!Score(g) \in Nat
           /\ Rules!Score(f) <= Rules!Score(g)
  <1>1. /\ Rules!TriggeredRules(g) \in SUBSET RuleNames
        /\ Rules!TriggeredRules(f) \in SUBSET Rules!TriggeredRules(g)
    BY RulesTriggered
  <1>2. IsFiniteSet(Rules!TriggeredRules(g))
    BY <1>1, RulesFinite, FS_Subset
  <1>3. /\ Rules!RawScore(f) \in Nat /\ Rules!RawScore(g) \in Nat
        /\ Rules!RawScore(f) <= Rules!RawScore(g)
    BY <1>1, <1>2, WeightsNatural, SumGrows, RulesSums DEF Rules!RawScore
  <1>4. QED
    BY <1>3 DEF Rules!Score

LEMMA ExistingWeighs ==
    ASSUME NEW f, {"activeIncident", "activeControl"} \cap f # {}
    PROVE  Rules!Score(f) >= 50
  <1> DEFINE fired == Rules!TriggeredRules(f)
             old == "EXISTING_RISK_STATE"
  <1>1. fired \in SUBSET RuleNames /\ old \in fired
    BY RulesTriggered
  <1> HIDE DEF fired
  <1>2. IsFiniteSet(fired) /\ \A r \in fired : Rules!Weight[r] \in Nat
    BY <1>1, RulesFinite, FS_Subset, WeightsNatural
  <1>3. SumFunctionOnSet(Rules!Weight, fired)
            = 50 + SumFunctionOnSet(Rules!Weight, fired \ {old})
    BY <1>1, <1>2, WeightsNatural, SumElement
  <1>4. SumFunctionOnSet(Rules!Weight, fired \ {old}) \in Nat
    <2>1. fired \ {old} \in SUBSET fired
      OBVIOUS
    <2>2. QED
      BY <1>2, <2>1, SumGrows
  <1>5. Rules!RawScore(f) = SumFunctionOnSet(Rules!Weight, fired)
    BY RulesSums DEF Rules!RawScore, fired
  <1>6. QED
    BY <1>3, <1>4, <1>5 DEF Rules!Score

\* Which verdicts allow: below the HIGH band, and in MEDIUM after a step-up.
LEMMA VerdictAllows ==
    ASSUME NEW f, NEW s \in BOOLEAN
    PROVE  LET outcome == Rules!EvaluateRisk(f, s) IN
           /\ outcome.decision \in Rules!Allowing <=>
                 /\ "blockedScope" \notin f
                 /\ Rules!Score(f) < 50
                 /\ Rules!Score(f) >= 25 => s
           /\ outcome.control = "none" <=> outcome.decision \in Rules!Allowing
  <1> DEFINE n == Rules!Score(f)
  <1>1. n \in Nat
    BY ScoreGrows
  <1>2. CASE "blockedScope" \in f
    BY <1>2 DEF Rules!EvaluateRisk, Rules!Verdict, Rules!Allowing
  <1> HIDE DEF n
  <1>3. CASE "blockedScope" \notin f /\ n >= 75
    <2>1. Rules!RiskBand(n) = "CRITICAL"
      BY <1>3 DEF Rules!RiskBand
    <2>2. QED
      BY <1>1, <1>3, <2>1 DEF n, Rules!EvaluateRisk, Rules!Verdict, Rules!Allowing
  <1>4. CASE "blockedScope" \notin f /\ n < 75 /\ n >= 50
    <2>1. Rules!RiskBand(n) = "HIGH"
      BY <1>1, <1>4 DEF Rules!RiskBand
    <2>2. QED
      BY <1>1, <1>4, <2>1 DEF n, Rules!EvaluateRisk, Rules!Verdict, Rules!Allowing
  <1>5. CASE "blockedScope" \notin f /\ n < 50 /\ n >= 25
    <2>1. Rules!RiskBand(n) = "MEDIUM"
      BY <1>1, <1>5 DEF Rules!RiskBand
    <2>2. CASE s
      BY <1>1, <1>5, <2>1, <2>2 DEF n, Rules!EvaluateRisk, Rules!Verdict, Rules!Allowing
    <2>3. CASE ~s
      BY <1>1, <1>5, <2>1, <2>3 DEF n, Rules!EvaluateRisk, Rules!Verdict, Rules!Allowing
    <2>4. QED
      BY <2>2, <2>3
  <1>6. CASE "blockedScope" \notin f /\ n < 25
    <2>1. Rules!RiskBand(n) = "LOW"
      BY <1>1, <1>6 DEF Rules!RiskBand
    <2>2. QED
      BY <1>1, <1>6, <2>1 DEF n, Rules!EvaluateRisk, Rules!Verdict, Rules!Allowing
  <1>7. QED
    BY <1>1, <1>2, <1>3, <1>4, <1>5, <1>6 DEF n

\* The stored assessment is the rules' verdict on the facts found.
Assessed ==
    /\ stepUp \in BOOLEAN
    /\ result # Rules!Pending =>
          LET outcome == Rules!EvaluateRisk(facts, stepUp) IN
          result.decision = outcome.decision /\ result.control = outcome.control

LEMMA AssessedInit == ASSUME Rules!Init PROVE Assessed
  BY DEF Rules!Init, Assessed

LEMMA AssessedNext ==
    ASSUME Assessed, [Rules!Next]_(Rules!vars) PROVE Assessed'
  <1>1. CASE UNCHANGED Rules!vars
    BY <1>1 DEF Rules!vars, Assessed
  <1>2. CASE Rules!Evaluate
    BY <1>2 DEF Rules!Evaluate, Assessed
  <1>3. QED
    BY <1>1, <1>2 DEF Rules!Next

LEMMA AssessedMonotone ==
    ASSUME Assessed
    PROVE  /\ Rules!MoreFactsNeverAllow
           /\ Rules!ExistingStateRefuses
           /\ Rules!RefusalLeavesControl
  <1>1. Rules!MoreFactsNeverAllow
    <2> SUFFICES ASSUME result # Rules!Pending, result.decision \notin Rules!Allowing,
                        NEW x \in Rules!Facts \ facts
                 PROVE  Rules!EvaluateRisk(facts \cup {x}, stepUp).decision
                            \notin Rules!Allowing
      BY DEF Rules!MoreFactsNeverAllow
    <2>1. ~(/\ "blockedScope" \notin facts
            /\ Rules!Score(facts) < 50
            /\ Rules!Score(facts) >= 25 => stepUp)
      BY VerdictAllows DEF Assessed
    <2>2. /\ Rules!Score(facts) \in Nat /\ Rules!Score(facts \cup {x}) \in Nat
          /\ Rules!Score(facts) <= Rules!Score(facts \cup {x})
      BY ScoreGrows
    <2>3. QED
      BY <2>1, <2>2, VerdictAllows DEF Assessed
  <1>2. Rules!ExistingStateRefuses
    <2> SUFFICES ASSUME result # Rules!Pending,
                        {"activeIncident", "activeControl"} \cap facts # {}
                 PROVE  result.decision \notin Rules!Allowing
      BY DEF Rules!ExistingStateRefuses
    <2>1. Rules!Score(facts) >= 50 /\ Rules!Score(facts) \in Nat
      BY ExistingWeighs, ScoreGrows
    <2>2. QED
      BY <2>1, VerdictAllows DEF Assessed
  <1>3. Rules!RefusalLeavesControl
    BY VerdictAllows DEF Assessed, Rules!RefusalLeavesControl
  <1>4. QED
    BY <1>1, <1>2, <1>3

-----------------------------------------------------------------------------
(* From the components to the platform *)

LEMMA PartStays == [PlatformNext]_platformVars => part' = part
  BY DEF PlatformNext, OthersStand, platformVars

LEMMA OfControls ==
  ASSUME part = "controls"
  PROVE /\ PlatformInit => Curbs!Init
        /\ [PlatformNext]_platformVars => [Curbs!Next]_Curbs!vars
  BY DEF PlatformInit, PlatformNext, platformVars, controlsOnly, Curbs!vars

\* Wherever applications, releases, sweeps and evaluations overlap: a
\* SESSION_REVOKE that was answered has revoked, an evaluation under an open
\* incident or a control that its step-up does not clear holds unless too many
\* controls stood to be fetched, a step-up lifts the others, an evaluationId is
\* assessed once, a resolution belongs to the present status, and an ended
\* control never becomes active again (ControlService, AssessmentService,
\* IncidentService).
THEOREM ControlsStayBinding ==
    ASSUME PlatformOK
    PROVE  PlatformSpec => ControlsBind
  <1> DEFINE Safe == /\ Curbs!TypeOK
            /\ Curbs!RevokeToldIsDone
            /\ Curbs!RestrictedIsRefused
            /\ Curbs!StepUpLifts
            /\ Curbs!EvaluatedOnce
            /\ Curbs!ResolutionIsCurrent
             Good == part = "controls" => Curbs!IInv
  <1>1. PlatformInit => Good
    BY OfControls, CurbsInit DEF PlatformOK
  <1>2. Good /\ [PlatformNext]_platformVars => Good'
    BY OfControls, PartStays, CurbsNext DEF PlatformOK
  <1>3. Good => (part = "controls" => Safe)
    BY DEF Curbs!IInv
  <1>4. Good /\ [PlatformNext]_platformVars => [part = "controls" => Curbs!ControlStep]_platformVars
    BY OfControls, CurbsControlStep DEF PlatformOK
  <1>5. QED
    BY <1>1, <1>2, <1>3, <1>4, PTL DEF PlatformSpec, ControlsBind

LEMMA OfRules ==
  ASSUME part = "rules"
  PROVE /\ PlatformInit => Rules!Init
        /\ [PlatformNext]_platformVars => [Rules!Next]_(Rules!vars)
  BY DEF PlatformInit, PlatformNext, platformVars, rulesOnly, Rules!vars

\* Whatever facts an evaluation finds: one more adverse fact never turns a
\* refusal into an approval, an active control or unresolved incident refuses
\* even after a step-up, and every refusal recommends a control (evaluateRisk).
THEOREM VerdictsStayMonotone == PlatformSpec => []VerdictsMonotone
  <1> DEFINE Good == part = "rules" => Assessed
  <1>1. PlatformInit => Good
    BY OfRules, AssessedInit
  <1>2. Good /\ [PlatformNext]_platformVars => Good'
    BY OfRules, PartStays, AssessedNext
  <1>3. Good => VerdictsMonotone
    BY AssessedMonotone DEF VerdictsMonotone
  <1>4. QED
    BY <1>1, <1>2, <1>3, PTL DEF PlatformSpec

LEMMA OfEvents ==
  ASSUME part = "events"
  PROVE /\ PlatformInit => Ingest!Init
        /\ [PlatformNext]_platformVars => [Ingest!Next]_Ingest!vars
  BY DEF PlatformInit, PlatformNext, platformVars, eventsOnly, Ingest!vars

\* However deliveries of an event overlap, repeat or meet retention, the event
\* is accepted and counted once for every time its row was stored
\* (EventService.ingest, VelocityService, RetentionService).
THEOREM EventsAreCountedOnce ==
    ASSUME PlatformOK
    PROVE  PlatformSpec => []EventsCountOnce
  <1> DEFINE Good == part = "events" => Ingest!IInv
  <1>1. PlatformInit => Good
    BY OfEvents, IngestInit DEF PlatformOK
  <1>2. Good /\ [PlatformNext]_platformVars => Good'
    BY OfEvents, PartStays, IngestNext DEF PlatformOK
  <1>3. Good => EventsCountOnce
    BY DEF EventsCountOnce, Ingest!IInv
  <1>4. QED
    BY <1>1, <1>2, <1>3, PTL DEF PlatformSpec

LEMMA OfDrills ==
  ASSUME part = "drills"
  PROVE /\ PlatformInit => Drill!Init
        /\ [PlatformNext]_platformVars => [Drill!Next]_Drill!vars
  BY DEF PlatformInit, PlatformNext, platformVars, drillsOnly, Drill!vars

\* Wherever a call of a drill breaks or is given up, its PASS has every stage's
\* event and the evidence behind it, and its FAIL a FAILED drill unless a call
\* was lost (DrillService.advance, drill.mjs).
THEOREM DrillsAreToldTruly ==
    ASSUME PlatformOK
    PROVE  PlatformSpec => []DrillToldTruly
  <1> DEFINE Good == part = "drills" => Drill!IInv
  <1>1. PlatformInit => Good
    BY OfDrills, DrillInit DEF PlatformOK
  <1>2. Good /\ [PlatformNext]_platformVars => Good'
    BY OfDrills, PartStays, DrillNext DEF PlatformOK
  <1>3. Good => DrillToldTruly
    BY DrillSafe DEF DrillToldTruly
  <1>4. QED
    BY <1>1, <1>2, <1>3, PTL DEF PlatformSpec

LEMMA OfBackups ==
  ASSUME part = "backups"
  PROVE /\ PlatformInit => Backup!Init
        /\ [PlatformNext]_platformVars => [Backup!Next]_Backup!vars
  BY DEF PlatformInit, PlatformNext, platformVars, backupsOnly, Backup!vars

\* However backups, restores, damage and transfers interleave, a published set
\* is whole, and a restore that passed gave back its set's own dumps, or where
\* a file was exchanged after verification another published one, left no
\* database or plain file of its own, and for --latest took the newest of the
\* sets whose manifest stood (backup.mjs, restore-verify.mjs, dr-lib.mjs).
THEOREM BackupsStayWhole ==
    ASSUME PlatformOK
    PROVE  PlatformSpec => []BackupsWhole
  <1> DEFINE Good == part = "backups" => Backup!IInv
  <1>1. PlatformInit => Good
    BY OfBackups, BackupInit DEF PlatformOK
  <1>2. Good /\ [PlatformNext]_platformVars => Good'
    BY OfBackups, PartStays, BackupNext DEF PlatformOK
  <1>3. Good => BackupsWhole
    BY BackupSafe DEF PlatformOK, BackupsWhole
  <1>4. QED
    BY <1>1, <1>2, <1>3, PTL DEF PlatformSpec

LEMMA OfOperators ==
  ASSUME part = "operators"
  PROVE /\ PlatformInit => Consoles!Init
        /\ [PlatformNext]_platformVars => [Consoles!Next]_Consoles!vars
  BY DEF PlatformInit, PlatformNext, platformVars, operatorsOnly, Consoles!vars

\* Whatever the tabs send at once and whichever answers are lost, a logged-out
\* session serves no tab, a live one can still be reached or was lost with an
\* answer, and no request is accepted past the expiry its session was told
\* (OperatorService, operators.controller).
THEOREM OperatorSessionsEnd ==
    ASSUME PlatformOK
    PROVE  PlatformSpec => OperatorSessionEnds
  <1> DEFINE Safe == Consoles!LoggedOutIsOver /\ Consoles!LiveIsReachable
             Good == part = "operators" => Consoles!IInv
  <1>1. PlatformInit => Good
    BY OfOperators, ConsolesInit DEF PlatformOK
  <1>2. Good /\ [PlatformNext]_platformVars => Good'
    BY OfOperators, PartStays, ConsolesNext DEF PlatformOK
  <1>3. Good => (part = "operators" => Safe)
    BY ConsolesSafe
  <1>4. Good /\ [PlatformNext]_platformVars =>
           [part = "operators" => Consoles!AcceptStep]_platformVars
    BY OfOperators, ConsolesAccept DEF PlatformOK
  <1>5. QED
    BY <1>1, <1>2, <1>3, <1>4, PTL DEF PlatformSpec, OperatorSessionEnds

LEMMA OfEnvironment ==
  ASSUME part = "environment"
  PROVE /\ PlatformInit => Environment!Init
        /\ [PlatformNext]_platformVars => [Environment!Next]_Environment!vars
  BY DEF PlatformInit, PlatformNext, platformVars, environmentOnly, Environment!vars

\* However often the file is generated, copied and edited by hand, one that
\* env:check accepts and that, with the example beneath it, does not start a
\* service has one of the faults the check does not see, URLs follow
\* regenerated passwords, and the database volume's password is in a file
\* (env.mjs, demo.mjs and the services' loaders).
THEOREM EnvironmentStaysSound ==
    PlatformSpec => []EnvironmentSound
  <1> DEFINE Good == part = "environment" => Environment!IInv
  <1>1. PlatformInit => Good
    BY OfEnvironment, EnvironmentInit
  <1>2. Good /\ [PlatformNext]_platformVars => Good'
    BY OfEnvironment, PartStays, EnvironmentNext
  <1>3. Good => EnvironmentSound
    BY EnvironmentSafe DEF EnvironmentSound
  <1>4. QED
    BY <1>1, <1>2, <1>3, PTL DEF PlatformSpec

LEMMA OfLauncher ==
  ASSUME part = "launcher"
  PROVE /\ PlatformInit => Launch!Init
        /\ [PlatformNext]_platformVars => [Launch!Next]_Launch!vars
  BY DEF PlatformInit, PlatformNext, platformVars, launcherOnly, Launch!vars

\* For every list of services and wherever a signal, a failed start or a dying
\* child falls: no child outlives the launcher unless shutdown had begun when
\* it was spawned or a second signal left it in the shutdown's list, services
\* start after and are stopped before those they call, and only a confirmed
\* reset of an owned volume loses data (demo.mjs, infra.mjs).
THEOREM LauncherStaysSound ==
    ASSUME PlatformOK
    PROVE  PlatformSpec => LauncherSound
  <1> DEFINE Safe == /\ Launch!OrphanWasLate
            /\ Launch!StartedInOrder
            /\ Launch!StoppedInReverse
             Good == part = "launcher" => Launch!IInv
  <1>1. PlatformInit => Good
    BY OfLauncher, LaunchInit DEF PlatformOK
  <1>2. Good /\ [PlatformNext]_platformVars => Good'
    BY OfLauncher, PartStays, LaunchNext DEF PlatformOK
  <1>3. Good => (part = "launcher" => Safe)
    BY DEF Launch!IInv
  <1>4. Good /\ [PlatformNext]_platformVars =>
           [part = "launcher" => Launch!DataStep]_platformVars
    BY OfLauncher, LaunchData
  <1>5. QED
    BY <1>1, <1>2, <1>3, <1>4, PTL DEF PlatformSpec, LauncherSound

LEMMA OfSabcl ==
  ASSUME part = "sabcl"
  PROVE /\ PlatformInit => SealedCalls!Init
        /\ [PlatformNext]_platformVars => [SealedCalls!Next]_SealedCalls!vars
  BY SealedCallsInit, SealedCallsNext
     DEF PlatformInit, PlatformNext, platformVars, sabclOnly, SealedCalls!vars

\* With a key prefix of its own at each recipient, and whatever is delivered
\* twice, late or during a key rotation: a sealed call is dispatched once
\* unless a claim ran after its expiry, taken for a replay only if it is one,
\* and answered only if it was dispatched (seal, SabclRecipient,
\* RouterService, RedisReplayStore).
THEOREM SealedCallsDispatchOnce ==
    ASSUME PlatformOK, SharedPrefix = FALSE
    PROVE  PlatformSpec => []CallsDispatchOnce
  <1> DEFINE Here == part = "sabcl"
  <1>1. Here /\ [PlatformNext]_platformVars => Here' /\ [SealedCalls!Next]_SealedCalls!vars
    BY OfSabcl, PartStays
  <1>2. ~Here /\ [PlatformNext]_platformVars => ~Here'
    BY PartStays
  <1>3. Here /\ PlatformInit => SealedCalls!Init
    BY OfSabcl
  <1>4. SealedCalls!Spec => []SealedCalls!CallsDispatchOnce
    BY SealedCallsSafe DEF PlatformOK
  <1>5. SealedCalls!CallsDispatchOnce => CallsDispatchOnce
    BY SealedCallsSame DEF CallsDispatchOnce
  <1>6. ~Here => CallsDispatchOnce
    BY DEF CallsDispatchOnce
  <1> HIDE DEF Here
  <1>7. QED
    BY <1>1, <1>2, <1>3, <1>4, <1>5, <1>6, PTL DEF PlatformSpec, SealedCalls!Spec

\* The gateway's guarantee holds of the platform: no other part touches a
\* request (the proxy controllers, their clients and the logout handler).
COROLLARY PlatformRequestsGuarded == PlatformSpec => []RequestsGuarded
  <1>1. PlatformInit => Init
    BY DEF PlatformInit
  <1>2. [PlatformNext]_platformVars => [Next]_vars
    BY DEF PlatformNext, OthersStand, platformVars
  <1>3. QED
    BY <1>1, <1>2, GatewayRequestsGuarded, PTL DEF PlatformSpec, Spec
=============================================================================
