------------------------------ MODULE Launcher ------------------------------
(***************************************************************************)
(* The demonstration launcher: demo.mjs prepares the infrastructure,       *)
(* starts the services one after another and waits for each                *)
(* (stack.mjs does the same without the preparation); a signal stops them  *)
(* in reverse order while the start loop is still running, and a second    *)
(* signal ends demo.mjs at once (stack.mjs ignores it: its behaviours are  *)
(* those without a second signal).  infra.mjs starts, stops and resets the *)
(* containers, also from another terminal.                                 *)
(***************************************************************************)
EXTENDS Naturals, Sequences, SequencesExt

CONSTANTS Order,      \* the services of DEMO_SERVICES, in start order
          Optional    \* those skipped when SABCL is off

ConstantsOK == /\ Order \in Seq(ToSet(Order))
               /\ \A i, j \in DOMAIN Order : Order[i] = Order[j] => i = j

VARIABLES sabcl, at,          \* configuration; position of the start loop
          status, probed,     \* children; the start loop's last probe
          spawned,            \* children in the order they were started
          stopping, queue, term,  \* shutdown: in progress, children left, SIGTERM sent
          exited, hurried,    \* the launcher's process; ended by a second signal
          containers, volume, reset,
          seen, late          \* services seen ready; started during shutdown

vars == <<sabcl, at, status, probed, spawned, stopping, queue, term, exited, hurried,
          containers, volume, reset, seen, late>>

Names     == ToSet(Order)
Running   == {"booting", "ready"}
infra     == <<containers, volume, reset>>
children  == <<status, probed, spawned, seen, late>>
stop      == <<stopping, queue, term, exited, hurried>>
Steps     == <<"env", "docker", "infra", "infra-check", "migrate">>
First     == Len(Steps) + 1
Ended     == First + Len(Order)

Init ==
    /\ sabcl \in BOOLEAN /\ at = 1
    /\ status = [s \in Names |-> "none"] /\ probed = FALSE /\ spawned = <<>>
    /\ stopping = FALSE /\ queue = <<>> /\ term = {}
    /\ exited = FALSE /\ hurried = FALSE
    /\ containers = "down" /\ volume \in {"none", "ours", "foreign"} /\ reset = "none"
    /\ seen = {} /\ late = {}

-----------------------------------------------------------------------------
(* infra.mjs: up creates what is missing. *)
Brought ==
    /\ containers' = "up"
    /\ volume' = IF volume = "none" THEN "ours" ELSE volume

(* The preparation runs synchronously; a step that fails ends the program  *)
(* before any child exists.                                                *)
Prepare ==
    /\ at < First /\ ~exited
    /\ \/ /\ at' = at + 1
          /\ IF Steps[at] = "infra" THEN Brought ELSE UNCHANGED <<containers, volume>>
          /\ Steps[at] \in {"infra-check", "migrate"} => containers = "up"
          /\ UNCHANGED exited
       \/ at' = Ended /\ exited' = TRUE /\ UNCHANGED <<containers, volume>>
    /\ UNCHANGED <<sabcl, children, stopping, queue, term, hurried, reset>>

(* buildStartupPlan *)
Service == Order[at - First + 1]
Skipped == Service \in Optional /\ ~sabcl

Skip ==
    /\ at \in First .. (Ended - 1) /\ ~exited /\ Skipped
    /\ at' = at + 1
    /\ UNCHANGED <<sabcl, children, stop, infra>>

Spawn ==
    /\ at \in First .. (Ended - 1) /\ ~exited /\ ~Skipped /\ status[Service] = "none"
    /\ status' = [status EXCEPT ![Service] = "booting"]
    /\ spawned' = Append(spawned, Service)
    /\ probed' = FALSE
    /\ late' = IF stopping THEN late \cup {Service} ELSE late
    /\ UNCHANGED <<sabcl, at, seen, stop, infra>>

(* The order in which shutdown takes the children: (the mutant) as started. *)
AsStarted(started) == started

(* [...children].reverse(), copied once. *)
ReverseOrder(started) == Reverse(started)

(* shutdown(): the first call takes the children; a later one returns at   *)
(* once, and what that means is its caller's business (StartFails, Signal). *)
BeginShutdown ==
    /\ stopping' = TRUE
    /\ queue' = IF stopping THEN queue ELSE ReverseOrder(spawned)

(* The service is not built, exited while starting, or 480 probes passed.  *)
StartFails ==
    /\ at \in First .. (Ended - 1) /\ ~exited /\ ~Skipped
    /\ at' = Ended /\ BeginShutdown
    /\ UNCHANGED <<sabcl, children, term, exited, hurried, infra>>

(* waitForReadiness: one probe, and what it found when it was sent. *)
Probe ==
    /\ at \in First .. (Ended - 1) /\ ~exited /\ ~Skipped /\ ~probed
    /\ status[Service] = "ready"
    /\ probed' = TRUE
    /\ UNCHANGED <<sabcl, at, status, spawned, seen, late, stop, infra>>

(* Whether the loop goes on: (the mutant) once the child runs. *)
IsRunning == status[Service] \in Running

(* The probe was answered; shuttingDown is not looked at. *)
Answered == probed

Proceed ==
    /\ at \in First .. (Ended - 1) /\ ~exited /\ ~Skipped
    /\ Answered
    /\ seen' = IF probed THEN seen \cup {Service} ELSE seen
    /\ at' = at + 1 /\ probed' = FALSE
    /\ UNCHANGED <<sabcl, status, spawned, late, stop, infra>>

-----------------------------------------------------------------------------
(* The children: readiness, an exit of their own, the effect of a signal   *)
(* (the launcher's SIGTERM, or one from outside: Ctrl+C reaches them all). *)
BecomeReady(s) == /\ status[s] = "booting"
                  /\ status' = [status EXCEPT ![s] = "ready"]
Leave(s)       == /\ status[s] \in Running
                  /\ status' = [status EXCEPT ![s] = "exited"]
Obey(s)        == /\ status[s] \in Running
                  /\ status' = [status EXCEPT ![s] = "signalled"]

Child(s) ==
    /\ BecomeReady(s) \/ Leave(s) \/ Obey(s)
    /\ UNCHANGED <<sabcl, at, probed, spawned, seen, late, stop, infra>>

(* SIGINT or SIGTERM; the handlers exist before the first step and run     *)
(* once the synchronous preparation is over.  The handler exits when       *)
(* shutdown() has returned: after the children, or at once the second time. *)
Signal ==
    /\ at >= First /\ ~exited
    /\ BeginShutdown
    /\ IF stopping THEN exited' = TRUE /\ hurried' = TRUE /\ at' = Ended
                   ELSE UNCHANGED <<exited, hurried, at>>
    /\ UNCHANGED <<sabcl, children, term, infra>>

Terminate ==
    /\ stopping /\ ~exited /\ queue # <<>> /\ Head(queue) \notin term
    /\ IF status[Head(queue)] = "exited"      \* exitCode is set
       THEN queue' = Tail(queue) /\ UNCHANGED term
       ELSE term' = term \cup {Head(queue)} /\ UNCHANGED queue
    /\ UNCHANGED <<sabcl, at, children, stopping, exited, hurried, infra>>

(* A child that has not left after five seconds: (the mutant) is left to   *)
(* its SIGTERM.                                                            *)
LeftAlone(s) == status[s]

(* ... is killed. *)
Killed(s) == IF status[s] \in Running THEN "signalled" ELSE status[s]

Waited ==
    /\ stopping /\ ~exited /\ queue # <<>> /\ Head(queue) \in term
    /\ status' = [status EXCEPT ![Head(queue)] = Killed(Head(queue))]
    /\ queue' = Tail(queue)
    /\ UNCHANGED <<sabcl, at, probed, spawned, seen, late, stopping, term, exited,
                   hurried, infra>>

Exit ==
    /\ stopping /\ queue = <<>> /\ ~exited
    /\ exited' = TRUE /\ at' = Ended
    /\ UNCHANGED <<sabcl, children, stopping, queue, term, hurried, infra>>

-----------------------------------------------------------------------------
(* demo stop: down keeps the volumes. *)
runStop ==
    /\ containers = "up" /\ containers' = "down"
    /\ UNCHANGED <<sabcl, at, children, stop, volume, reset>>

(* What a confirmed reset may remove: (the mutant) any volume of the name. *)
AnyVolume == TRUE

(* assertResetVolumesAreOwned *)
Owned == volume # "foreign"

(* reset --yes: ownership, down -v, and up again, which may fail. *)
runReset ==
    /\ \/ reset = "none" /\ Owned /\ reset' = "checked" /\ UNCHANGED <<containers, volume>>
       \/ /\ reset = "checked" /\ reset' = "removed"
          /\ containers' = "down" /\ volume' = "none"
       \/ reset = "removed" /\ reset' = "none" /\ (Brought \/ UNCHANGED <<containers, volume>>)
    /\ UNCHANGED <<sabcl, at, children, stop>>

Next ==
    \/ Prepare \/ Skip \/ Spawn \/ StartFails \/ Probe \/ Proceed
    \/ (\E s \in Names : Child(s))
    \/ Signal \/ Terminate \/ Waited \/ Exit
    \/ runStop \/ runReset

Spec == Init /\ [][Next]_vars

-----------------------------------------------------------------------------
(* When the launcher is gone no child keeps running, except one the start  *)
(* loop spawned after the shutdown had copied its list and, after a second *)
(* signal, one the shutdown had not come to (demo.mjs shutdown, runStart). *)
(* Both are reached, although the header of demo.mjs promises that no      *)
(* orphan keeps a port bound.                                              *)
OrphanWasLate ==
    exited => \A s \in Names : status[s] \in Running =>
        s \in late \/ (hurried /\ \E a \in 1 .. Len(queue) : queue[a] = s)

(* A service is spawned only after every service before it in the plan was *)
(* seen ready: the router before the gateway that sends through it         *)
(* (demo.mjs DEMO_SERVICES, runStart).                                     *)
StartedInOrder ==
    \A i, j \in 1 .. Len(Order) :
        (i < j /\ status[Order[j]] # "none") =>
            Order[i] \in seen \/ (Order[i] \in Optional /\ ~sabcl)

(* A service is told to stop only when every later one of the list is      *)
(* gone, so none loses what it calls while it still serves (demo.mjs       *)
(* shutdown).                                                              *)
StoppedInReverse ==
    \A i, j \in 1 .. Len(Order) :
        (i < j /\ Order[i] \in term) =>
            status[Order[j]] \notin Running \/ Order[j] \in late

(* Data is lost to nothing but a confirmed reset, and never a volume of    *)
(* another project (infra.mjs executeCommand, demo.mjs runStop).           *)
DataStep ==
    volume # "none" /\ volume' = "none" => reset = "checked" /\ volume = "ours"
DataLostOnConsent == [][DataStep]_vars

-----------------------------------------------------------------------------
(* The inductive invariant behind the properties *)

Numbers == 1 .. Len(Order)

Shaped ==
    /\ at \in 1 .. Ended /\ probed \in BOOLEAN
    /\ stopping \in BOOLEAN /\ exited \in BOOLEAN /\ hurried \in BOOLEAN
    /\ status \in [Names -> {"none", "booting", "ready", "exited", "signalled"}]
    /\ spawned \in Seq(Names) /\ queue \in Seq(Names)
    /\ volume \in {"none", "ours", "foreign"}
    /\ reset = "checked" => volume # "foreign"

(* The loop has seen to the services before its position and started none  *)
(* after it.                                                               *)
Loop ==
    at < Ended => \A i \in Numbers :
        /\ i < at - First + 1 => Order[i] \in seen \/ (Order[i] \in Optional /\ ~sabcl)
        /\ status[Order[i]] # "none" => i <= at - First + 1

(* The list of children holds those that were started, in the plan's order. *)
Listed ==
    /\ \A s \in Names : status[s] # "none" => \E a \in 1 .. Len(spawned) : spawned[a] = s
    /\ \A a \in 1 .. Len(spawned) : status[spawned[a]] # "none"
    /\ \A a, b \in 1 .. Len(spawned) : \A i, j \in Numbers :
          a < b /\ spawned[a] = Order[i] /\ spawned[b] = Order[j] => i < j

(* Shutdown has every child that runs and was not started late before it,  *)
(* the last of the plan first.                                             *)
Stopping ==
    /\ ~stopping => term = {}
    /\ stopping => \A s \in Names : status[s] \in Running /\ s \notin late =>
          \E a \in 1 .. Len(queue) : queue[a] = s
    /\ stopping => \A a, b \in 1 .. Len(queue) : \A i, j \in Numbers :
          a < b /\ queue[a] = Order[i] /\ queue[b] = Order[j] => i > j

IInv == /\ Shaped /\ Loop /\ Listed /\ Stopping
        /\ OrphanWasLate /\ StartedInOrder /\ StoppedInReverse
=============================================================================
