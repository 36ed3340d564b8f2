----------------------------- MODULE RiskEngine -----------------------------
(***************************************************************************)
(* The deterministic rules of the Risk service: which rules fire, the      *)
(* capped score, the band, the decision and the control it recommends.     *)
(* A behaviour picks the facts an evaluation finds (threshold comparisons  *)
(* as truth values) and evaluates them, with and without a step-up.        *)
(***************************************************************************)
EXTENDS Integers, FiniteSets, FiniteSetsExt, Functions

CONSTANTS MaxFacts       \* bound on how many facts hold at once

Facts == {"authFailures", "requestVelocity", "transferVelocity",
          "cumulativeOutgoing", "highValue", "newRecipient",
          "insufficientFunds", "idempotencyConflicts", "linkedSubjects",
          "rapidRegionChange", "integrityAnomaly", "internalAuthFailures",
          "csrfMalformed", "blockedScope", "activeIncident", "activeControl"}

VARIABLES facts,     \* the facts found
          stepUp,    \* input.stepUpVerified
          result     \* the stored assessment, or Pending

vars == <<facts, stepUp, result>>
Pending == [decision |-> "none", band |-> "none", control |-> "none"]

(***************************************************************************)
(* triggeredRiskRules: a rule's weight and the facts it needs.             *)
(***************************************************************************)
Weight == [AUTH_FAILURE_BURST |-> 25, REQUEST_VELOCITY |-> 20,
           TRANSFER_VELOCITY |-> 25, CUMULATIVE_OUTGOING |-> 25,
           HIGH_VALUE |-> 20, NEW_RECIPIENT_HIGH_VALUE |-> 30,
           INSUFFICIENT_FUNDS_BURST |-> 15, REPLAY_PATTERN |-> 35,
           SHARED_DEVICE_CLUSTER |-> 25, RAPID_REGION_CHANGE |-> 15,
           INTEGRITY_ANOMALY |-> 60, INTERNAL_AUTH_FAILURE |-> 50,
           SENSITIVE_REQUEST_FAILURES |-> 20, KNOWN_BLOCKED_SCOPE |-> 100,
           EXISTING_RISK_STATE |-> 50]

TriggeredRules(f) ==
  LET If(fact, rule) == IF fact \in f THEN {rule} ELSE {} IN
  If("authFailures", "AUTH_FAILURE_BURST")
  \union If("requestVelocity", "REQUEST_VELOCITY")
  \union If("transferVelocity", "TRANSFER_VELOCITY")
  \union If("cumulativeOutgoing", "CUMULATIVE_OUTGOING")
  \union If("highValue", "HIGH_VALUE")
  \union (IF {"highValue", "newRecipient"} \subseteq f
          THEN {"NEW_RECIPIENT_HIGH_VALUE"} ELSE {})
  \union If("insufficientFunds", "INSUFFICIENT_FUNDS_BURST")
  \union If("idempotencyConflicts", "REPLAY_PATTERN")
  \union If("linkedSubjects", "SHARED_DEVICE_CLUSTER")
  \union If("rapidRegionChange", "RAPID_REGION_CHANGE")
  \union If("integrityAnomaly", "INTEGRITY_ANOMALY")
  \union If("internalAuthFailures", "INTERNAL_AUTH_FAILURE")
  \union If("csrfMalformed", "SENSITIVE_REQUEST_FAILURES")
  \union If("blockedScope", "KNOWN_BLOCKED_SCOPE")
  \union If("activeIncident", "EXISTING_RISK_STATE")
  \union If("activeControl", "EXISTING_RISK_STATE")

RawScore(f) == SumFunctionOnSet(Weight, TriggeredRules(f))

\* (the mutant) the score wraps at the column's width instead of being capped
WrappedScore(f) == RawScore(f) % 100
Score(f) == IF RawScore(f) > 100 THEN 100 ELSE RawScore(f)

\* (the mutant) the bounds are exclusive
ExclusiveBand(s) == IF s > 75 THEN "CRITICAL" ELSE IF s > 50 THEN "HIGH"
                    ELSE IF s > 25 THEN "MEDIUM" ELSE "LOW"
RiskBand(s) == IF s >= 75 THEN "CRITICAL" ELSE IF s >= 50 THEN "HIGH"
               ELSE IF s >= 25 THEN "MEDIUM" ELSE "LOW"

(***************************************************************************)
(* evaluateRisk: the decision and the control recommended with it.         *)
(***************************************************************************)
\* (the mutant) a hold recommends no control
HoldWithoutControl(d, c) ==
  [decision |-> d, control |-> IF d = "HOLD_FOR_REVIEW" THEN "none" ELSE c]
Verdict(d, c) == [decision |-> d, control |-> c]

EvaluateRisk(f, s) ==
  LET band == RiskBand(Score(f)) IN
  IF "blockedScope" \in f THEN Verdict("BLOCK", "TEMPORARY_BLOCK")
  ELSE CASE band = "CRITICAL" -> Verdict("QUARANTINE", "QUARANTINE")
         [] band = "HIGH"     -> Verdict("HOLD_FOR_REVIEW", "TRANSFER_HOLD")
         [] band = "MEDIUM" /\ ~s -> Verdict("REQUIRE_STEP_UP", "REQUIRE_STEP_UP")
         [] band = "MEDIUM" /\ s  -> Verdict("ALLOW_WITH_MONITORING", "none")
         [] band = "LOW" -> Verdict(IF TriggeredRules(f) = {} THEN "ALLOW"
                                    ELSE "ALLOW_WITH_MONITORING", "none")

Init == /\ facts \in UNION {kSubset(k, Facts) : k \in 0..MaxFacts}
        /\ stepUp \in BOOLEAN
        /\ result = Pending

Evaluate ==
  /\ result = Pending
  /\ LET verdict == EvaluateRisk(facts, stepUp) IN
     result' = [decision |-> verdict.decision, control |-> verdict.control,
                band |-> RiskBand(Score(facts))]
  /\ UNCHANGED <<facts, stepUp>>

Next == Evaluate
Spec == Init /\ [][Next]_vars

(***************************************************************************)
(* Properties.                                                             *)
(***************************************************************************)
Allowing == {"ALLOW", "ALLOW_WITH_MONITORING"}

\* One more adverse fact never turns a refused operation into an allowed one,
\* whatever combination of rules it joins (the cap and the order of the
\* decision's branches keep the verdict monotone).
MoreFactsNeverAllow ==
  result # Pending /\ result.decision \notin Allowing =>
     \A x \in Facts \ facts :
        EvaluateRisk(facts \union {x}, stepUp).decision \notin Allowing

\* A customer with an active control or an unresolved incident is refused even
\* after a step-up: one existing-state rule alone reaches the HIGH band.
ExistingStateRefuses ==
  result # Pending /\ {"activeIncident", "activeControl"} \intersect facts # {} =>
     result.decision \notin Allowing

\* Every refusal leaves a control behind, so that the next check refuses too.
RefusalLeavesControl ==
  result # Pending => (result.control = "none" <=> result.decision \in Allowing)
=============================================================================
