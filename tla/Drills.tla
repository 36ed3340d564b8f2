------------------------------- MODULE Drills -------------------------------
(***************************************************************************)
(* One recovery drill: the drill script, which does the work of each stage *)
(* and reports it, and the Resilience service, whose advance handler reads *)
(* the row, checks the transition, writes the row, the evidence and an     *)
(* event one after the other.  A call may fail in the middle, and the      *)
(* script may give up on a call the service goes on with.  Operators       *)
(* acknowledge a failed drill.                                             *)
(***************************************************************************)
EXTENDS Integers, Sequences, SequencesExt, FiniteSets

CONSTANTS Services,    \* services whose reconciliation the drill records
          Operators    \* operators acknowledging

\* The states the script reports, in order; each is reported at most once.
Reported == <<"PLANNED", "RUNNING", "BACKUP_CREATED", "RESTORE_VERIFIED",
              "RECONCILIATION_PASSED", "PASSED", "CLEANED_UP">>
States == Range(Reported) \union {"FAILED"}

\* ALLOWED_TRANSITIONS
Allowed(s) ==
  CASE s = "PLANNED"               -> {"RUNNING", "FAILED"}
    [] s = "RUNNING"               -> {"BACKUP_CREATED", "FAILED"}
    [] s = "BACKUP_CREATED"        -> {"RESTORE_VERIFIED", "FAILED"}
    [] s = "RESTORE_VERIFIED"      -> {"RECONCILIATION_PASSED", "FAILED"}
    [] s = "RECONCILIATION_PASSED" -> {"PASSED", "FAILED"}
    [] s \in {"PASSED", "FAILED"}  -> {"CLEANED_UP"}
    [] OTHER                       -> {}

ConstantsOK == IsFiniteSet(Services) /\ "none" \notin Operators

VARIABLES state,      \* the drill row's state, "none" before createDrill
          coded,      \* the row carries a failure code
          evidence,   \* services with a reconciliation row
          events,     \* the drill's event rows in order
          call,       \* [States -> progress of the call reporting it]
          step,       \* index in Reported the script is at
          script,     \* "working", "waiting", "failing" or what it exited with
          told,       \* the script's exit: "none", "PASS", "FAIL"
          lost,       \* the script gave up on a call still under way
          reads,      \* operators who have read a row they may acknowledge
          acks        \* acknowledgements written, in order

vars == <<state, coded, evidence, events, call, step, script, told, lost,
          reads, acks>>
row == <<state, coded, evidence, events>>

Init == /\ state = "none" /\ coded = FALSE /\ evidence = {} /\ events = <<>>
        /\ call = [s \in States |-> "idle"] /\ step = 1 /\ script = "working"
        /\ told = "none" /\ lost = FALSE /\ reads = {} /\ acks = <<>>

Become(s, place) == call' = [call EXCEPT ![s] = place]

-----------------------------------------------------------------------------
\* The backup, restore and reconciliation stages do work that can fail.
StageEnds == IF step \in 3..5 THEN {"waiting", "failing"} ELSE {"waiting"}

\* The script does a stage's work (backup, verify, restore, reconcile) and
\* reports it; a stage that fails throws to the catch block.
Work ==
  /\ script = "working"
  /\ script' \in StageEnds
  /\ call' = IF script' = "waiting" THEN [call EXCEPT ![Reported[step]] = "sent"]
                                    ELSE call
  /\ UNCHANGED <<row, step, told, lost, reads, acks>>

\* (the mutant) post() does not look at the status
AnyStatus(s) == TRUE
Accepted(s) == call[s] = "done"

\* post() returns: an error status throws.
Answer ==
  LET s == Reported[step] IN
  /\ script = "waiting"
  /\ call[s] \in {"done", "refused", "broken"}
  /\ IF Accepted(s)
     THEN /\ script' = IF step = Len(Reported) THEN "exited" ELSE "working"
          /\ told' = IF step = Len(Reported) THEN "PASS" ELSE told
          /\ step' = IF step = Len(Reported) THEN step ELSE step + 1
     ELSE script' = "failing" /\ UNCHANGED <<told, step>>
  /\ UNCHANGED <<row, call, lost, reads, acks>>

\* The connection breaks; the service goes on with the call.
GiveUp ==
  /\ script = "waiting"
  /\ script' = "failing"
  /\ lost' = TRUE
  /\ UNCHANGED <<row, call, step, told, reads, acks>>

\* The catch block: without a drillId there is nothing to report; otherwise
\* FAILED is posted, and that post may itself fail.
ReportFailure ==
  /\ script = "failing"
  /\ IF step = 1 THEN script' = "exited" /\ told' = "FAIL" /\ UNCHANGED call
     ELSE script' = "closing" /\ Become("FAILED", "sent") /\ UNCHANGED told
  /\ UNCHANGED <<row, step, lost, reads, acks>>
Exit ==
  /\ script = "closing"
  /\ script' = "exited" /\ told' = "FAIL"
  /\ lost' = (lost \/ call["FAILED"] \notin {"done", "refused", "broken"})
  /\ UNCHANGED <<row, call, step, reads, acks>>

-----------------------------------------------------------------------------
\* (the mutant) a drill cannot fail before its backup is there
EarlyFailureRefused(s) == s \in Allowed(state) /\ (s = "FAILED" => state # "RUNNING")
MayFollow(s) == s \in Allowed(state)

\* advance: the row is read and the transition checked ...
Read(s) ==
  /\ s # "PLANNED" /\ call[s] = "sent"
  /\ Become(s, IF state # "none" /\ MayFollow(s) THEN "read" ELSE "refused")
  /\ UNCHANGED <<row, step, script, told, lost, reads, acks>>

\* (the mutant) the code of an earlier failure is kept
KeepsCode(s) == coded \/ s = "FAILED"
CodeAfter(s) == s = "FAILED"

\* ... and then updated by its id alone, whatever it has become since: after
\* a call the script gave up on, a terminal row may be overwritten, which the
\* comment on advance excludes.  createDrill inserts the row.
Write(s) ==
  /\ call[s] = IF s = "PLANNED" THEN "sent" ELSE "read"
  /\ state' = s
  /\ coded' = CodeAfter(s)
  /\ Become(s, "written")
  /\ UNCHANGED <<evidence, events, step, script, told, lost, reads, acks>>

\* The reconciliation rows are created one at a time.
Record(s) ==
  /\ call[s] = "written" /\ s = "RECONCILIATION_PASSED"
  /\ \E v \in Services \ evidence :
       /\ evidence' = evidence \union {v}
  /\ UNCHANGED <<state, coded, events, call, step, script, told, lost, reads, acks>>

\* (the mutant) the event is written before the evidence
EventFirst(s) == TRUE
EvidenceDone(s) == s = "RECONCILIATION_PASSED" => evidence = Services

AppendEvent(s) ==
  /\ call[s] = "written" /\ EvidenceDone(s)
  /\ events' = Append(events, s)
  /\ Become(s, "done")
  /\ UNCHANGED <<state, coded, evidence, step, script, told, lost, reads, acks>>

\* The database or the service fails between two writes.
Break(s) ==
  /\ call[s] \in {"sent", "read", "written"}
  /\ Become(s, "broken")
  /\ UNCHANGED <<row, step, script, told, lost, reads, acks>>

\* acknowledge: read and check, then update by id.
AcknowledgeRead(o) ==
  /\ o \notin reads /\ ~Contains(acks, o)
  /\ state = "FAILED" /\ acks = <<>>
  /\ reads' = reads \union {o}
  /\ UNCHANGED <<row, call, step, script, told, lost, acks>>
AcknowledgeWrite(o) ==
  /\ o \in reads
  /\ reads' = reads \ {o}
  /\ acks' = Append(acks, o)
  /\ UNCHANGED <<row, call, step, script, told, lost>>

Next == \/ Work \/ Answer \/ GiveUp \/ ReportFailure \/ Exit
        \/ \E s \in States : \/ Read(s) \/ Write(s) \/ Record(s)
                             \/ AppendEvent(s) \/ Break(s)
        \/ \E o \in Operators : AcknowledgeRead(o) \/ AcknowledgeWrite(o)

Spec == Init /\ [][Next]_vars

-----------------------------------------------------------------------------
\* A drill that has passed has the evidence for it: every service's
\* reconciliation row was written before the row said PASSED, whichever of
\* the writes of an earlier call broke.
PassedHasEvidence == state = "PASSED" => evidence = Services

\* A failure code is carried by a failed drill only, also when a late call
\* overwrites the state (the table's check would reject the row otherwise).
CodeOnlyWhenFailed == coded => state = "FAILED"

\* The script exits PASS only when every stage's event was recorded, and no
\* FAILED is among them.
PassIsRecorded ==
  told = "PASS" => /\ state = "CLEANED_UP"
                   /\ events = Reported

\* Evidence outlives the script: when it exits FAIL and no call was given up
\* or broke, the drill's last event is FAILED.
FailureIsShown ==
  told = "FAIL" /\ ~lost /\ step > 1 /\ (\A s \in States : call[s] # "broken") =>
    state = "FAILED" /\ Last(events) = "FAILED"

-----------------------------------------------------------------------------
(* The inductive invariant behind the properties *)

Numbers == 1 .. Len(Reported)

Shaped ==
  /\ state \in States \union {"none"} /\ coded \in BOOLEAN
  /\ evidence \subseteq Services /\ events \in Seq(States)
  /\ call \in [States -> {"idle", "sent", "read", "written", "done", "refused", "broken"}]
  /\ step \in Numbers /\ lost \in BOOLEAN
  /\ script \in {"working", "waiting", "failing", "closing", "exited"}
  /\ told \in {"none", "PASS", "FAIL"}
  /\ script = "exited" <=> told # "none"

\* A stage is reported when the stages before it were recorded, and recorded
\* with its evidence; a failure is reported last.
InOrder ==
  /\ \A j, k \in Numbers :
        j < k /\ call[Reported[k]] # "idle" => call[Reported[j]] = "done"
  /\ call["RECONCILIATION_PASSED"] = "done" => evidence = Services
  /\ state = "PASSED" => call["PASSED"] # "idle"
  /\ script \in {"working", "waiting", "failing"} => call["FAILED"] = "idle"

Before(k) == IF k = 1 THEN "none" ELSE Reported[k - 1]

\* The script has come as far as step without a failure: one call is under
\* way at most, and row and events are where it left them.
Forward == script \in {"working", "waiting"} \/ told = "PASS"
Advancing ==
  Forward =>
    /\ call["FAILED"] = "idle"
    /\ \A j \in Numbers : /\ j < step => call[Reported[j]] = "done"
                          /\ j > step => call[Reported[j]] = "idle"
    /\ script = "working" <=> call[Reported[step]] = "idle"
    /\ call[Reported[step]] # "refused"
    /\ call[Reported[step]] \in {"idle", "sent", "read"} => state = Before(step)
    /\ call[Reported[step]] \in {"written", "done"} => state = Reported[step]
    /\ Len(events) = IF call[Reported[step]] = "done" THEN step ELSE step - 1
    /\ \A i \in 1 .. Len(events) : events[i] = Reported[i]
    /\ told = "PASS" => step = Len(Reported) /\ call[Reported[step]] = "done"

\* The script has failed and every call was answered and none broke: the
\* work of a stage failed, and only the report of that moves the row.
Clean == ~lost /\ step > 1 /\ \A s \in States : call[s] # "broken"
Failing ==
  ~Forward /\ Clean =>
    /\ step \in 3 .. 5
    /\ \A j \in Numbers : call[Reported[j]] = IF j < step THEN "done" ELSE "idle"
    /\ call["FAILED"] # "refused"
    /\ call["FAILED"] \in {"idle", "sent", "read"} => state = Before(step)
    /\ call["FAILED"] \in {"written", "done"} => state = "FAILED"
    /\ call["FAILED"] = "done" => events # <<>> /\ Last(events) = "FAILED"
    /\ script = "failing" <=> call["FAILED"] = "idle"
    /\ script = "exited" => call["FAILED"] = "done"

IInv == Shaped /\ CodeOnlyWhenFailed /\ InOrder /\ Advancing /\ Failing
=============================================================================
