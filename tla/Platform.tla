------------------------------ MODULE Platform ------------------------------
(***************************************************************************)
(* What the financial services stand on: the sealed calls between them and *)
(* their router (Sabcl), the gateway's proxy pipeline (Gateway, whose      *)
(* variables and specification are this module's own) and its rate         *)
(* windows, the risk service's rules, controls and events, the operators'  *)
(* sessions, drills and backups, and the scripts that write the            *)
(* environment file and start the services.  A behaviour is about one of   *)
(* them; the components share nothing that their properties speak of.      *)
(***************************************************************************)
EXTENDS Integers, Sequences, FiniteSets, Gateway

CONSTANTS
    Messages, Deliveries, MsgOf, Lag, Direct, Permitted, Ttl, ClockSkew,
    RateLimit, Window, SharedPrefix,                            \* of Sabcl
    Keys, Limit, Length, MaxEntries, MaxRequests,         \* of RateWindows
    MaxFacts,                                              \* of RiskEngine
    Controls, Revokes, StepUps, Applications, KeyOf, Releases, Evaluations,
    Calls, EvaluationOf, Scores, MaxTaken, MaxBegun,
    Lifetime,                                            \* of RiskControls
    Events, TransferEvents, Posts, EventOf, SourceLimit,
    Period,                                                \* of RiskEvents
    Tabs, MaxSessions, OperatorTtl,                  \* of OperatorSessions
    Services, Operators,                                       \* of Drills
    Scope, Sets, Latest, Explicit, Transfers, MaxDamage,      \* of Backups
    Exports, MaxInits, MaxEdits,                        \* of Configuration
    Order, Optional,                                         \* of Launcher
    SabclTime, RateTime, ControlTime, EventTime, OperatorTime,
    BackupTime                           \* bounds on the components' clocks

VARIABLES
    part,                                        \* what a behaviour is about
    now, pc, call, said, volume,                 \* of several components
    ringKey, ownKey, sealed, client, life, routerSeen, ownSeen, rate,
    rateEnds, dispatched, granted, lateClaim, replies,
    wrongKey,                                                   \* of Sabcl
    order, window, since, passed, evicted, last,          \* of RateWindows
    facts, stepUp, result,                                 \* of RiskEngine
    row, live, apply, release, sweep, eval, verdict,
    incident,                                            \* of RiskControls
    slots, stored, accepted, repeated, requests, transfers, ends, counted,
    creations, removed,                                    \* of RiskEvents
    page, cookie, cookieEnds, made, expiresAt, keyEnds,
    gone,                                            \* of OperatorSessions
    state, coded, evidence, events, step, script, lost, reads,
    acks,                                                      \* of Drills
    posted, completed, before, createdAt, dumps, bpc, file, manifest, touched,
    exchanged, harm, rpc, chosen, rivals, databases, plain, restored,
    code,                                                     \* of Backups
    env, replaced, checked, attempt, inits, edits, forced,
    byHand,                                             \* of Configuration
    sabcl, at, status, probed, spawned, stopping, queue, term, exited, hurried,
    containers, reset, seen, late                                        \* of Launcher

sabclOnly == <<ringKey, ownKey, sealed, client, life, routerSeen, ownSeen, rate,
               rateEnds, dispatched, granted, lateClaim, replies, wrongKey>>
ratesOnly == <<order, window, since, passed, evicted, last>>
rulesOnly == <<facts, stepUp, result>>
controlsOnly == <<row, live, apply, release, sweep, eval, verdict, incident>>
eventsOnly == <<slots, stored, accepted, repeated, requests, transfers, ends,
                counted, creations, removed>>
operatorsOnly == <<page, cookie, cookieEnds, made, expiresAt, keyEnds, gone>>
drillsOnly == <<state, coded, evidence, events, step, script, lost, reads, acks>>
backupsOnly == <<posted, completed, before, createdAt, dumps, bpc, file, manifest,
                 touched, exchanged, harm, rpc, chosen, rivals, databases,
                 plain, restored, code>>
environmentOnly == <<env, replaced, checked, attempt, inits, edits, forced, byHand>>
launcherOnly == <<sabcl, at, status, probed, spawned, stopping, queue, term,
                  exited, hurried, containers, reset, seen, late>>

platformVars ==
    <<vars, part, now, pc, call, said, volume, sabclOnly, ratesOnly, rulesOnly,
      controlsOnly, eventsOnly, operatorsOnly, drillsOnly, backupsOnly,
      environmentOnly, launcherOnly>>

\* Router and recipients each with a Redis prefix of their own.
Envelopes == INSTANCE Sabcl WITH MaxTime <- SabclTime
Rates == INSTANCE RateWindows WITH MaxTime <- RateTime
Rules == INSTANCE RiskEngine
Curbs == INSTANCE RiskControls WITH
    Requests <- Applications, MaxTime <- ControlTime, session <- live
Ingest == INSTANCE RiskEvents WITH
    Deliveries <- Posts, Transfers <- TransferEvents, Window <- Period,
    MaxTime <- EventTime
Consoles == INSTANCE OperatorSessions WITH
    Ttl <- OperatorTtl, MaxTime <- OperatorTime, told <- said
Drill == INSTANCE Drills WITH told <- said
Backup == INSTANCE Backups WITH MaxTime <- BackupTime
Environment == INSTANCE Configuration
Launch == INSTANCE Launcher

PlatformOK ==
    /\ ConstantsOK /\ Envelopes!ConstantsOK /\ Rates!ConstantsOK
    /\ Curbs!ConstantsOK /\ Ingest!ConstantsOK /\ Drill!ConstantsOK
    /\ Consoles!ConstantsOK /\ Backup!ConstantsOK /\ Launch!ConstantsOK

\* The variables of a component that a behaviour is not about are 0.
NoSabcl == /\ ringKey = 0 /\ ownKey = 0 /\ sealed = 0 /\ client = 0 /\ life = 0
           /\ routerSeen = 0 /\ ownSeen = 0 /\ rate = 0 /\ rateEnds = 0
           /\ dispatched = 0 /\ granted = 0 /\ lateClaim = 0 /\ replies = 0
           /\ wrongKey = 0
NoRates == /\ order = 0 /\ window = 0 /\ since = 0 /\ passed = 0 /\ evicted = 0
           /\ last = 0
NoRules == facts = 0 /\ stepUp = 0 /\ result = 0
NoControls == /\ row = 0 /\ live = 0 /\ apply = 0 /\ release = 0 /\ sweep = 0
              /\ eval = 0 /\ verdict = 0 /\ incident = 0
NoEvents == /\ slots = 0 /\ stored = 0 /\ accepted = 0 /\ repeated = 0
            /\ requests = 0 /\ transfers = 0 /\ ends = 0 /\ counted = 0
            /\ creations = 0 /\ removed = 0
NoOperators == /\ page = 0 /\ cookie = 0 /\ cookieEnds = 0 /\ made = 0
               /\ expiresAt = 0 /\ keyEnds = 0 /\ gone = 0
NoDrills == /\ state = 0 /\ coded = 0 /\ evidence = 0 /\ events = 0 /\ step = 0
            /\ script = 0 /\ lost = 0 /\ reads = 0 /\ acks = 0
NoBackups == /\ posted = 0 /\ completed = 0 /\ before = 0 /\ createdAt = 0
             /\ dumps = 0 /\ bpc = 0 /\ file = 0 /\ manifest = 0 /\ touched = 0
             /\ exchanged = 0 /\ harm = 0 /\ rpc = 0 /\ chosen = 0
             /\ rivals = 0 /\ databases = 0 /\ plain = 0 /\ restored = 0
             /\ code = 0
NoEnvironment == /\ env = 0 /\ replaced = 0 /\ checked = 0 /\ attempt = 0
                 /\ inits = 0 /\ edits = 0 /\ forced = 0 /\ byHand = 0
NoLauncher == /\ sabcl = 0 /\ at = 0 /\ status = 0 /\ probed = 0 /\ spawned = 0
              /\ stopping = 0 /\ queue = 0 /\ term = 0 /\ exited = 0 /\ hurried = 0
              /\ containers = 0 /\ reset = 0 /\ seen = 0 /\ late = 0

\* The variables that several components have, and the parts that use them.
OfClock == {"sabcl", "rates", "controls", "events", "operators", "backups"}
OfHandlers == {"sabcl", "events"}
OfCalls == {"operators", "drills"}
OfVolume == {"environment", "launcher"}
Parts == OfClock \cup OfCalls \cup OfVolume \cup {"gateway", "rules"}

\* One component has started.  No request arrives at the gateway while a
\* behaviour is about another.
PlatformInit ==
  /\ part \in Parts /\ Init
  /\ part # "gateway" =>
        mode = "off" /\ ~control /\ route = [r \in Requests |-> "write"]
  /\ IF part = "sabcl" THEN Envelopes!Init ELSE NoSabcl
  /\ IF part = "rates" THEN Rates!Init ELSE NoRates
  /\ IF part = "rules" THEN Rules!Init ELSE NoRules
  /\ IF part = "controls" THEN Curbs!Init ELSE NoControls
  /\ IF part = "events" THEN Ingest!Init ELSE NoEvents
  /\ IF part = "operators" THEN Consoles!Init ELSE NoOperators
  /\ IF part = "drills" THEN Drill!Init ELSE NoDrills
  /\ IF part = "backups" THEN Backup!Init ELSE NoBackups
  /\ IF part = "environment" THEN Environment!Init ELSE NoEnvironment
  /\ IF part = "launcher" THEN Launch!Init ELSE NoLauncher
  /\ part \notin OfClock => now = 0
  /\ part \notin OfHandlers => pc = 0
  /\ part \notin OfCalls => call = 0 /\ said = 0
  /\ part \notin OfVolume => volume = 0

OthersStand ==
  /\ UNCHANGED part
  /\ part # "gateway" => UNCHANGED vars
  /\ part # "sabcl" => UNCHANGED sabclOnly
  /\ part # "rates" => UNCHANGED ratesOnly
  /\ part # "rules" => UNCHANGED rulesOnly
  /\ part # "controls" => UNCHANGED controlsOnly
  /\ part # "events" => UNCHANGED eventsOnly
  /\ part # "operators" => UNCHANGED operatorsOnly
  /\ part # "drills" => UNCHANGED drillsOnly
  /\ part # "backups" => UNCHANGED backupsOnly
  /\ part # "environment" => UNCHANGED environmentOnly
  /\ part # "launcher" => UNCHANGED launcherOnly
  /\ part \notin OfClock => UNCHANGED now
  /\ part \notin OfHandlers => UNCHANGED pc
  /\ part \notin OfCalls => UNCHANGED <<call, said>>
  /\ part \notin OfVolume => UNCHANGED volume

PlatformNext ==
    \/ part = "gateway" /\ Next /\ OthersStand
    \/ part = "sabcl" /\ Envelopes!Next /\ OthersStand
    \/ part = "rates" /\ Rates!Next /\ OthersStand
    \/ part = "rules" /\ Rules!Next /\ OthersStand
    \/ part = "controls" /\ Curbs!Next /\ OthersStand
    \/ part = "events" /\ Ingest!Next /\ OthersStand
    \/ part = "operators" /\ Consoles!Next /\ OthersStand
    \/ part = "drills" /\ Drill!Next /\ OthersStand
    \/ part = "backups" /\ Backup!Next /\ OthersStand
    \/ part = "environment" /\ Environment!Next /\ OthersStand
    \/ part = "launcher" /\ Launch!Next /\ OthersStand

PlatformSpec == PlatformInit /\ [][PlatformNext]_platformVars

-----------------------------------------------------------------------------
\* A sealed call reaches its service twice only if a claim ran after the
\* message had expired; a first delivery is not taken for a replay, an
\* answered caller was served, the rate counter ends, and a key rotation
\* settles (seal, SabclRecipient, RouterService, RedisReplayStore).
CallsDispatchOnce == part = "sabcl" => Envelopes!CallsDispatchOnce

\* Three statements of the documents about the same calls: an envelope is
\* accepted at most once, publishing a key's next version changes nothing on
\* the wire, and a replay is what the recipient refuses as one.
AcceptedAtMostOnce == part = "sabcl" => Envelopes!AcceptedAtMostOnce
PublishingIsSafe == part = "sabcl" => Envelopes!PublishingIsSafe
ReplayedWasSeen == part = "sabcl" => Envelopes!ReplayedWasSeen

\* The map of windows stays bounded, a caller exceeds its budget only if its
\* live window was evicted, and is refused only if it has spent it (auth-
\* rate-limit middleware).
WindowsFair ==
    part = "rates" =>
            /\ Rates!MapBounded
            /\ Rates!BudgetUnlessEvicted
            /\ Rates!LimitedHasSpent

\* One more adverse fact never turns a refusal into an approval, the facts
\* activeControl and activeIncident refuse even after a step-up (which keeps a
\* REQUIRE_STEP_UP control from becoming that fact), and every refusal leaves a
\* control behind (evaluateRisk).
VerdictsMonotone ==
    part = "rules" =>
            /\ Rules!MoreFactsNeverAllow
            /\ Rules!ExistingStateRefuses
            /\ Rules!RefusalLeavesControl

\* A SESSION_REVOKE that was answered has revoked; an evaluation under an
\* open incident or a control that its step-up does not clear holds, unless
\* too many controls stood to be fetched, and a step-up lifts the others; an
\* evaluationId is assessed once; a resolution belongs to the present status;
\* and an ended control never becomes active again (ControlService,
\* AssessmentService, IncidentService).
ControlsBind ==
    /\ [](part = "controls" =>
            /\ Curbs!TypeOK
            /\ Curbs!RevokeToldIsDone
            /\ Curbs!RestrictedIsRefused
            /\ Curbs!StepUpLifts
            /\ Curbs!EvaluatedOnce
            /\ Curbs!ResolutionIsCurrent)
    /\ [][part = "controls" => Curbs!ControlStep]_platformVars

\* Repeated and overlapping deliveries of an event are accepted and counted
\* once, and a second time only after retention removed the row
\* (EventService.ingest, VelocityService, RetentionService).
EventsCountOnce ==
    part = "events" =>
            /\ Ingest!TypeOK
            /\ Ingest!AcceptedIsExact
            /\ Ingest!NeverOvercounted
            /\ Ingest!TwiceNeedsRetention

\* A logged-out operator session serves no other tab, a live one can still be
\* reached or was lost with an answer, and nothing is accepted past the
\* expiry that was told (OperatorService, operators.controller).
OperatorSessionEnds ==
    /\ [](part = "operators" =>
            /\ Consoles!LoggedOutIsOver
            /\ Consoles!LiveIsReachable)
    /\ [][part = "operators" => Consoles!AcceptStep]_platformVars

\* A drill that has passed has its evidence, a failure code only a failed
\* one, the script's PASS every stage's event and its FAIL a FAILED drill
\* unless a call was lost (DrillService.advance, drill.mjs).
DrillToldTruly ==
    part = "drills" =>
            /\ Drill!PassedHasEvidence
            /\ Drill!CodeOnlyWhenFailed
            /\ Drill!PassIsRecorded
            /\ Drill!FailureIsShown

\* A published set is whole, a restore that passed restored its own dumps, but
\* for files exchanged after verification, and left nothing behind, and
\* --latest means one set (backup.mjs, restore-verify.mjs, dr-lib.mjs).
BackupsWhole ==
    part = "backups" =>
            /\ Backup!PublishedIsWhole
            /\ Backup!PassedIsAuthentic
            /\ Backup!NothingLeftBehind
            /\ Backup!LatestIsNewest

\* A file env:check accepts starts every service but for what the check does
\* not read, URLs follow regenerated passwords, and the passwords of the
\* database volume can still be found (env.mjs and the services' loaders).
EnvironmentSound ==
    part = "environment" =>
            /\ Environment!CheckedStarts
            /\ Environment!UrlFollowsPassword
            /\ Environment!DatabasePasswordFound

\* No child outlives the launcher unless it was spawned during shutdown or a
\* second signal cut the shutdown short before it came to that child, services
\* start after and stop before those they call, and only a confirmed reset
\* loses data (demo.mjs, infra.mjs).
LauncherSound ==
    /\ [](part = "launcher" =>
            /\ Launch!OrphanWasLate
            /\ Launch!StartedInOrder
            /\ Launch!StoppedInReverse)
    /\ [][part = "launcher" => Launch!DataStep]_platformVars
=============================================================================
