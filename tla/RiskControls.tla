---------------------------- MODULE RiskControls ----------------------------
(***************************************************************************)
(* Controls, assessments and incidents about one customer in the Risk      *)
(* service.  Operators apply and release controls and update incidents;    *)
(* every check runs the expiry sweep first; an evaluation looks for an     *)
(* earlier answer, reads its facts, then stores assessment, incident and   *)
(* control in one transaction.  The sweep and release read a row and write *)
(* it later, unconditionally.  The event and audit rows written along are  *)
(* only ever read by operators.                                            *)
(***************************************************************************)
EXTENDS Integers, FiniteSets

CONSTANTS Controls,      \* controls that operators may apply
          Revokes,       \* the ones of type SESSION_REVOKE
          StepUps,       \* the ones of type REQUIRE_STEP_UP
          Requests,      \* operator requests to apply a control
          KeyOf,         \* [Requests -> Controls]: one row per key
          Releases,      \* operator requests to release
          Evaluations,   \* evaluationIds
          Calls,         \* evaluate calls
          EvaluationOf,  \* [Calls -> Evaluations]
          Scores,        \* weights of the other rules that may fire
          MaxTaken,      \* controls that one evaluation fetches
          MaxBegun,      \* bound on requests, releases and calls together
          Lifetime,      \* seconds a control lasts
          MaxTime        \* bound on the clock

ConstantsOK == /\ Controls # {} /\ Revokes \subseteq Controls
               /\ StepUps \subseteq Controls \ Revokes
               /\ Controls \cap Evaluations = {}
               /\ KeyOf \in [Requests -> Controls]
               /\ EvaluationOf \in [Calls -> Evaluations] /\ MaxTaken \in Nat
               /\ Scores \subseteq 0..100
               /\ {Lifetime, MaxTime} \subseteq Nat \ {0}

VARIABLES now,
          row,        \* [Actions -> [status, ends]]
          session,    \* is the customer's session live in Identity
          apply,      \* [Requests -> step]
          release,    \* [Releases -> [at, c]]
          sweep,      \* rows the expiry sweep read and has still to update
          eval,       \* [Calls -> step and what it read]
          verdict,    \* [Evaluations -> decision of its assessment]
          incident    \* [Evaluations -> [status, resolvedAt, reason]]

vars == <<now, row, session, apply, release, sweep, eval, verdict, incident>>

\* The rows of control_actions: the operators' and one per assessment.
Actions == Controls \cup Evaluations

NoRow == [status |-> "none", ends |-> 0]
NoIncident == [status |-> "none", resolvedAt |-> FALSE, reason |-> FALSE]
NewIncident == [status |-> "OPEN", resolvedAt |-> FALSE, reason |-> FALSE]
Blank == [at |-> "idle", decision |-> "none", owed |-> "any"]

Init == /\ now = 0
        /\ row = [c \in Actions |-> NoRow]
        /\ session = "live"
        /\ apply = [r \in Requests |-> "idle"]
        /\ release = [r \in Releases |-> [at |-> "idle", c |-> CHOOSE c \in Controls : TRUE]]
        /\ sweep = {}
        /\ eval = [k \in Calls |-> Blank]
        /\ verdict = [e \in Evaluations |-> "none"]
        /\ incident = [e \in Evaluations |-> NoIncident]

Standing(c) == row[c].status = "ACTIVE" /\ row[c].ends > now

Begun == Cardinality({r \in Requests : apply[r] # "idle"})
       + Cardinality({r \in Releases : release[r].at # "idle"})
       + Cardinality({k \in Calls : eval[k].at # "idle"})

Write(c, status) == row' = [row EXCEPT ![c].status = status]

(***************************************************************************)
(* ControlService.apply: find by key, else create; then revoke the session *)
(* for a SESSION_REVOKE, whether the row is new or was found.              *)
(***************************************************************************)
NewRow == [status |-> "ACTIVE", ends |-> now + Lifetime]

\* (the mutant) a row found by its key is returned as it is
RevokesNew(c, found) == c \in Revokes /\ ~found
NeedsRevoke(c, found) == c \in Revokes

ApplyNext(r, found) ==
  apply' = [apply EXCEPT ![r] = IF NeedsRevoke(KeyOf[r], found) THEN "revoking" ELSE "applied"]

ApplyRead(r) ==
  /\ apply[r] = "idle" /\ Begun < MaxBegun
  /\ \/ row[KeyOf[r]] # NoRow /\ ApplyNext(r, TRUE)
     \/ row[KeyOf[r]] = NoRow /\ apply' = [apply EXCEPT ![r] = "creating"]
  /\ UNCHANGED <<now, row, session, release, sweep, eval, verdict, incident>>

\* The unique index on the key's hash (over the active rows in the mutant).
ActiveKeyFree(c) == row[c].status # "ACTIVE"
KeyFree(c) == row[c] = NoRow

\* Another request may have created the row since: the insert fails (500).
ApplyCreate(r) ==
  LET c == KeyOf[r] IN
  /\ apply[r] = "creating"
  /\ \/ KeyFree(c) /\ row' = [row EXCEPT ![c] = NewRow] /\ ApplyNext(r, FALSE)
     \/ ~KeyFree(c) /\ apply' = [apply EXCEPT ![r] = "failed"] /\ UNCHANGED row
  /\ UNCHANGED <<now, session, release, sweep, eval, verdict, incident>>

\* revokeSession: reached or not, and its answer may be lost (503 to the operator).
ApplyRevoke(r) ==
  \E reached, answered \in BOOLEAN :
     /\ apply[r] = "revoking" /\ (answered => reached)
     /\ session' = IF reached THEN "revoked" ELSE session
     /\ apply' = [apply EXCEPT ![r] = IF answered THEN "applied" ELSE "failed"]
     /\ UNCHANGED <<now, row, release, sweep, eval, verdict, incident>>

(***************************************************************************)
(* release and expire.                                                     *)
(***************************************************************************)
ReleaseRead(r, c) ==
  /\ release[r].at = "idle" /\ Begun < MaxBegun /\ row[c] # NoRow
  /\ release' = [release EXCEPT ![r] =
       [at |-> IF row[c].status = "ACTIVE" THEN "read" ELSE "written", c |-> c]]
  /\ UNCHANGED <<now, row, session, apply, sweep, eval, verdict, incident>>

ReleaseWrite(r) ==
  /\ release[r].at = "read"
  /\ Write(release[r].c, "RELEASED")
  /\ release' = [release EXCEPT ![r].at = "written"]
  /\ UNCHANGED <<now, session, apply, sweep, eval, verdict, incident>>

Due(c) == row[c].status = "ACTIVE" /\ row[c].ends <= now

ExpireRead ==
  /\ sweep = {} /\ {c \in Actions : Due(c)} # {}
  /\ sweep' = {c \in Actions : Due(c)}
  /\ UNCHANGED <<now, row, session, apply, release, eval, verdict, incident>>

ExpireWrite(c) ==
  /\ c \in sweep
  /\ Write(c, "EXPIRED")
  /\ sweep' = sweep \ {c}
  /\ UNCHANGED <<now, session, apply, release, eval, verdict, incident>>

(***************************************************************************)
(* AssessmentService.evaluate.  "owed" records what the rows called for    *)
(* when the facts were read.                                               *)
(***************************************************************************)
Unresolved == {e \in Evaluations : incident[e].status \in {"OPEN", "INVESTIGATING", "CONTAINED"}}

\* A SESSION_REVOKE is scoped to the session, the others to the customer.
StandingOnes == {c \in Actions \ Revokes : Standing(c)}

\* REQUIRE_STEP_UP, by an operator or by a MEDIUM assessment; a verified
\* step-up clears it.
IsStepUp(c) == c \in StepUps \/ (c \in Evaluations /\ verdict[c] = "REQUIRE_STEP_UP")
Binds(c, verified) == ~IsStepUp(c) \/ ~verified

\* findMany with take: 20 and no order.
Fetched == IF Cardinality(StandingOnes) <= MaxTaken THEN {StandingOnes}
           ELSE {S \in SUBSET StandingOnes : Cardinality(S) = MaxTaken}

\* facts: activeIncident or activeControl (the mutants count only an incident
\* that nobody has picked up, or let no step-up clear a control).
OnlyOpen(taken, verified) == \E e \in Evaluations : incident[e].status = "OPEN"
AnyControl(taken, verified) == Unresolved # {} \/ taken # {}
ExistingRiskState(taken, verified) ==
  Unresolved # {} \/ \E c \in taken : Binds(c, verified)

\* evaluateRisk (see RiskEngine): HIGH and CRITICAL bands, and the blocking
\* controls that always reach them, are HOLD; ALLOW includes monitoring.
Decision(score, known, verified) ==
  LET total == IF known THEN score + 50 ELSE score IN
  IF total >= 50 THEN "HOLD"
  ELSE IF total >= 25 /\ ~verified THEN "REQUIRE_STEP_UP" ELSE "ALLOW"

Owed(score, verified) ==
  LET bound == \E c \in StandingOnes : Binds(c, verified) IN
  IF Unresolved # {} \/ (bound /\ Cardinality(StandingOnes) <= MaxTaken) THEN "HOLD"
  ELSE IF ~bound /\ verified /\ score < 50 THEN "ALLOW" ELSE "any"

\* An evaluationId that has its assessment is answered with it.
EvaluateFind(k) ==
  /\ eval[k].at = "idle" /\ Begun < MaxBegun
  /\ eval' = [eval EXCEPT ![k].at =
                  IF verdict[EvaluationOf[k]] = "none" THEN "new" ELSE "repeated"]
  /\ UNCHANGED <<now, row, session, apply, release, sweep, verdict, incident>>

EvaluateRead(k) ==
  /\ eval[k].at = "new"
  /\ \E s \in Scores, v \in BOOLEAN, taken \in Fetched :
       eval' = [eval EXCEPT ![k] =
         [at |-> "read", decision |-> Decision(s, ExistingRiskState(taken, v), v),
          owed |-> Owed(s, v)]]
  /\ UNCHANGED <<now, row, session, apply, release, sweep, verdict, incident>>

\* The unique index on evaluation_id (none in the mutant).
NoIndex(e) == TRUE
IdFree(e) == verdict[e] = "none"

\* One transaction: the assessment, an incident for a HOLD, a control for
\* that and for a step-up.  A second assessment of the id fails (500).
EvaluateStore(k) ==
  LET e == EvaluationOf[k]  d == eval[k].decision IN
  /\ eval[k].at = "read"
  /\ \/ /\ IdFree(e)
        /\ eval' = [eval EXCEPT ![k] = [@ EXCEPT !.at = "stored", !.decision = "none"]]
        /\ verdict' = [verdict EXCEPT ![e] = d]
        /\ incident' = IF d = "HOLD" THEN [incident EXCEPT ![e] = NewIncident] ELSE incident
        /\ row' = IF d = "ALLOW" THEN row ELSE [row EXCEPT ![e] = NewRow]
     \/ /\ ~IdFree(e)
        /\ eval' = [eval EXCEPT ![k] = [Blank EXCEPT !.at = "failed"]]
        /\ UNCHANGED <<row, verdict, incident>>
  /\ UNCHANGED <<now, session, apply, release, sweep>>

(***************************************************************************)
(* IncidentService.update.                                                 *)
(***************************************************************************)
\* (the mutant) reopening keeps the time of the resolution
KeptResolvedAt(status, was) == IF status \in {"RESOLVED", "FALSE_POSITIVE"} THEN TRUE ELSE was
ResolvedAt(status, was) == IF status \in {"RESOLVED", "FALSE_POSITIVE"} THEN TRUE
                           ELSE IF status = "OPEN" THEN FALSE ELSE was

IncidentUpdate(e, status) ==
  /\ incident[e].status # "none" /\ incident[e].status # status
  /\ incident' = [incident EXCEPT ![e] =
       [status |-> status, resolvedAt |-> ResolvedAt(status, @.resolvedAt),
        reason |-> @.reason \/ status \in {"RESOLVED", "FALSE_POSITIVE"}]]
  /\ UNCHANGED <<now, row, session, apply, release, sweep, eval, verdict>>

Tick == /\ now < MaxTime /\ now' = now + 1
        /\ UNCHANGED <<row, session, apply, release, sweep, eval, verdict, incident>>

\* CONTAINED is treated as INVESTIGATING, FALSE_POSITIVE as RESOLVED.
IncidentStatuses == {"OPEN", "INVESTIGATING", "RESOLVED"}

Next == \/ Tick \/ ExpireRead
        \/ \E c \in Actions : ExpireWrite(c)
        \/ \E r \in Requests : ApplyRead(r) \/ ApplyCreate(r) \/ ApplyRevoke(r)
        \/ \E r \in Releases : ReleaseWrite(r)
                               \/ \E c \in Actions : ReleaseRead(r, c)
        \/ \E k \in Calls : EvaluateFind(k) \/ EvaluateRead(k) \/ EvaluateStore(k)
        \/ \E e \in Evaluations, s \in IncidentStatuses : IncidentUpdate(e, s)

Spec == Init /\ [][Next]_vars

(***************************************************************************)
(* Properties.                                                             *)
(***************************************************************************)
\* The state has its types, and an expired row's life is over: the sweep and a
\* release may overwrite each other's status but neither ends a control early.
TypeOK ==
  /\ now \in 0..MaxTime /\ session \in {"live", "revoked"}
  /\ \A c \in Actions :
       /\ row[c].status \in {"none", "ACTIVE", "EXPIRED", "RELEASED"}
       /\ row[c].status = "EXPIRED" => row[c].ends <= now
  /\ sweep \subseteq Actions

\* An operator whose SESSION_REVOKE request was answered has had the session
\* revoked in Identity, although the first attempt may have stored the row and
\* failed to reach Identity.
RevokeToldIsDone ==
  \A r \in Requests : (apply[r] = "applied" /\ KeyOf[r] \in Revokes)
                      => session = "revoked"

\* A call that found the customer under an unresolved incident, or under a
\* standing control that its step-up does not clear, holds the operation,
\* however the rows change before it stores its assessment; unless so many
\* controls stood that the one was not among those fetched.
RestrictedIsRefused ==
  \A k \in Calls : eval[k].at = "stored" /\ eval[k].owed = "HOLD"
                  => verdict[EvaluationOf[k]] = "HOLD"

\* A verified step-up lifts the step-up control: with nothing else standing
\* and the other rules below 50, the operation is allowed.
StepUpLifts ==
  \A k \in Calls : eval[k].at = "stored" /\ eval[k].owed = "ALLOW"
                  => verdict[EvaluationOf[k]] = "ALLOW"

\* However often an evaluationId is sent, one call stores its assessment, and
\* with it the incident and the control its verdict calls for.
EvaluatedOnce ==
  /\ \A j, k \in Calls :
        eval[j].at = "stored" /\ eval[k].at = "stored" /\ EvaluationOf[j] = EvaluationOf[k]
        => j = k
  /\ \A e \in Evaluations :
        /\ verdict[e] = "HOLD" <=> incident[e].status # "none"
        /\ verdict[e] \in {"HOLD", "REQUIRE_STEP_UP"} <=> row[e].status # "none"

\* A reopened incident carries no resolution time, and a resolved one has both
\* its time and its reason.
ResolutionIsCurrent ==
  \A e \in Evaluations :
     /\ incident[e].status = "OPEN" => ~incident[e].resolvedAt
     /\ incident[e].status = "RESOLVED" => incident[e].resolvedAt /\ incident[e].reason

\* A control that stopped being active never becomes active again, whichever of
\* the sweep, a release and a repeated request writes it last.
ControlStep ==
    \A c \in Actions : row[c].status \in {"EXPIRED", "RELEASED"}
                       => row'[c].status # "ACTIVE"
NeverReactivated == [][ControlStep]_vars

(***************************************************************************)
(* The inductive invariant behind the properties.                          *)
(***************************************************************************)
Rows == [status : {"none", "ACTIVE", "EXPIRED", "RELEASED"}, ends : Nat]

Verdicts == {"none", "HOLD", "REQUIRE_STEP_UP", "ALLOW"}

Progress == [at : {"idle", "new", "read", "stored", "repeated", "failed"},
             decision : Verdicts, owed : {"any", "HOLD", "ALLOW"}]

Shaped ==
  /\ row \in [Actions -> Rows]
  /\ apply \in [Requests -> {"idle", "creating", "revoking", "applied", "failed"}]
  /\ release \in [Releases -> [at : {"idle", "read", "written"}, c : Actions]]
  /\ eval \in [Calls -> Progress]
  /\ verdict \in [Evaluations -> Verdicts]
  /\ incident \in [Evaluations -> [status : {"none"} \union IncidentStatuses,
                                   resolvedAt : BOOLEAN, reason : BOOLEAN]]

\* A row exists from its creation on, and what the sweep or a release has read
\* exists; what the sweep has read is over, whatever it says since.
RowsStay ==
  /\ \A c \in Actions : row[c].status = "none" => row[c] = NoRow
  /\ \A c \in sweep : row[c].status # "none" /\ row[c].ends <= now
  /\ \A r \in Releases : release[r].at = "read" => row[release[r].c].status # "none"

\* What a call read decides what it will store, and a stored call has stored.
Weighed ==
  \A k \in Calls :
     /\ eval[k].at = "read" =>
          /\ eval[k].decision # "none"
          /\ eval[k].owed # "any" => eval[k].decision = eval[k].owed
     /\ eval[k].at = "stored" => verdict[EvaluationOf[k]] # "none"

IInv == /\ TypeOK /\ Shaped /\ RowsStay /\ Weighed
        /\ RevokeToldIsDone /\ RestrictedIsRefused /\ StepUpLifts /\ EvaluatedOnce
        /\ ResolutionIsCurrent
=============================================================================
