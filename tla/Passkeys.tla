------------------------------ MODULE Passkeys ------------------------------
(***************************************************************************)
(* Passkey registration and sign-in (passkey.service.ts) for one user and  *)
(* one authenticator, with the audit record each success leaves and the    *)
(* event it sends to Risk (auth-event.service.ts).  Challenges live in     *)
(* Redis and are taken with GETDEL; the credential's signature counter is  *)
(* read, compared and written back in separate statements.                 *)
(***************************************************************************)
EXTENDS Naturals, FiniteSets

CONSTANTS Challenges,
          Registrations,    \* the challenges of registrations
          Requests,         \* verify requests, repetitions included
          ChallengeOf,      \* [Requests -> Challenges]
          RateLimit         \* sign-in challenges per address and hour

VARIABLES challenge,        \* [Challenges -> "none", "live", "gone"]
          rate,             \* sign-in challenges counted
          counting,         \* whether the authenticator counts signatures
          device,           \* the authenticator's counter
          signed,           \* [Challenges -> counter in the signed response, or NotSigned]
          credential,       \* counter of the credential row, or NoCredential
          pc,               \* [Requests -> where the request is]
          seen,             \* [Requests -> counter it read]
          audit,            \* requests with an authEvent row
          telemetry,        \* requests whose event reached Risk
          sessions          \* requests that opened a session

vars == <<challenge, rate, counting, device, signed, credential, pc, seen, audit,
          telemetry, sessions>>

ConstantsOK ==
    /\ IsFiniteSet(Challenges) /\ Registrations \subseteq Challenges
    /\ ChallengeOf \in [Requests -> Challenges]
    /\ RateLimit \in Nat

MaxCounter == Cardinality(Challenges)
NotSigned == MaxCounter + 1
NoCredential == MaxCounter + 1

TypeOK ==
    /\ challenge \in [Challenges -> {"none", "live", "gone"}]
    /\ rate \in 0 .. RateLimit /\ counting \in BOOLEAN /\ device \in 0 .. MaxCounter
    /\ signed \in [Challenges -> 0 .. NotSigned]
    /\ credential \in 0 .. NoCredential
    /\ pc \in [Requests -> {"idle", "taken", "read", "verified", "stored", "audited",
                            "done", "refused"}]
    /\ seen \in [Requests -> 0 .. NoCredential]
    /\ audit \subseteq Requests /\ telemetry \subseteq Requests /\ sessions \subseteq Requests

Init ==
    /\ challenge = [c \in Challenges |-> "none"] /\ rate = 0
    /\ counting \in BOOLEAN /\ device = 0
    /\ signed = [c \in Challenges |-> NotSigned]
    /\ credential = NoCredential
    /\ pc = [r \in Requests |-> "idle"]
    /\ seen = [r \in Requests |-> 0]
    /\ audit = {} /\ telemetry = {} /\ sessions = {}

-----------------------------------------------------------------------------
registrationOptions(c) ==
    /\ c \in Registrations /\ challenge[c] = "none"
    /\ challenge' = [challenge EXCEPT ![c] = "live"]
    /\ UNCHANGED <<rate, counting, device, signed, credential, pc, seen, audit,
                   telemetry, sessions>>

\* rateCount > 20 refuses.
WithinRate(n) == n < RateLimit

authenticationOptions(c) ==
    /\ c \notin Registrations /\ challenge[c] = "none"
    /\ WithinRate(rate) /\ rate' = rate + 1
    /\ challenge' = [challenge EXCEPT ![c] = "live"]
    /\ UNCHANGED <<counting, device, signed, credential, pc, seen, audit, telemetry,
                   sessions>>

\* The challenge's TTL ends.
Expire(c) ==
    /\ challenge[c] = "live"
    /\ challenge' = [challenge EXCEPT ![c] = "gone"]
    /\ UNCHANGED <<rate, counting, device, signed, credential, pc, seen, audit,
                   telemetry, sessions>>

\* The authenticator signs the challenge with its next counter, or 0.
Sign(c) ==
    /\ challenge[c] # "none" /\ signed[c] = NotSigned
    /\ device' = IF counting THEN device + 1 ELSE device
    /\ signed' = [signed EXCEPT ![c] = device']
    /\ UNCHANGED <<challenge, rate, counting, credential, pc, seen, audit, telemetry,
                   sessions>>

-----------------------------------------------------------------------------
Goto(r, label) == pc' = [pc EXCEPT ![r] = label]

\* What GETDEL leaves of a challenge (GET in the mutant).
Kept(c) == "live"
Taken(c) == "gone"

TakeChallenge(r) ==
    LET c == ChallengeOf[r] IN
    /\ pc[r] = "idle" /\ signed[c] # NotSigned
    /\ Goto(r, IF challenge[c] = "live" THEN "taken" ELSE "refused")
    /\ challenge' = IF challenge[c] = "live" THEN [challenge EXCEPT ![c] = Taken(c)]
                                             ELSE challenge
    /\ UNCHANGED <<rate, counting, device, signed, credential, seen, audit, telemetry,
                   sessions>>

\* The one authenticator has one credential id; its unique index refuses a
\* second row.
verifyRegistration(r) ==
    /\ pc[r] = "taken" /\ ChallengeOf[r] \in Registrations
    /\ \/ /\ credential = NoCredential
          /\ credential' = signed[ChallengeOf[r]] /\ Goto(r, "stored")
       \/ /\ credential # NoCredential
          /\ Goto(r, "refused") /\ UNCHANGED credential
    /\ UNCHANGED <<challenge, rate, counting, device, signed, seen, audit, telemetry, sessions>>

ReadCredential(r) ==
    /\ pc[r] = "taken" /\ ChallengeOf[r] \notin Registrations
    /\ seen' = [seen EXCEPT ![r] = credential]
    /\ Goto(r, IF credential = NoCredential THEN "refused" ELSE "read")
    /\ UNCHANGED <<challenge, rate, counting, device, signed, credential, audit,
                   telemetry, sessions>>

\* The adapter refuses a counter that is not above the stored one, unless
\* both are zero, and the service one that is below (neither in the mutant).
AnyCounter(old, new) == TRUE
CounterAccepted(old, new) ==
    /\ new > old \/ (new = 0 /\ old = 0)
    /\ ~(old > 0 /\ new < old)

verifyAuthentication(r) ==
    /\ pc[r] = "read"
    /\ Goto(r, IF CounterAccepted(seen[r], signed[ChallengeOf[r]]) THEN "verified" ELSE "refused")
    /\ UNCHANGED <<challenge, rate, counting, device, signed, credential, seen, audit,
                   telemetry, sessions>>

StoreCounter(r) ==
    /\ pc[r] = "verified"
    /\ credential' = signed[ChallengeOf[r]]
    /\ Goto(r, "stored")
    /\ UNCHANGED <<challenge, rate, counting, device, signed, seen, audit, telemetry, sessions>>

\* The audit row a success leaves (none in the mutant), then one attempt to
\* tell Risk, which a timeout or an error ends without consequence.
Unrecorded(r) == audit
Recorded(r) == audit \cup {r}

record(r) ==
    /\ pc[r] = "stored"
    /\ audit' = Recorded(r)
    /\ telemetry' \in {telemetry, telemetry \cup (audit' \ audit)}
    /\ Goto(r, "audited")
    /\ UNCHANGED <<challenge, rate, counting, device, signed, credential, seen, sessions>>

Answer(r) ==
    /\ pc[r] = "audited"
    /\ sessions' = IF ChallengeOf[r] \in Registrations THEN sessions ELSE sessions \cup {r}
    /\ Goto(r, "done")
    /\ UNCHANGED <<challenge, rate, counting, device, signed, credential, seen, audit, telemetry>>

Crash(r) ==
    /\ pc[r] \notin {"idle", "done", "refused"} /\ Goto(r, "refused")
    /\ UNCHANGED <<challenge, rate, counting, device, signed, credential, seen, audit,
                   telemetry, sessions>>

Next ==
    \/ \E c \in Challenges :
          registrationOptions(c) \/ authenticationOptions(c) \/ Expire(c) \/ Sign(c)
    \/ \E r \in Requests :
          \/ TakeChallenge(r) \/ verifyRegistration(r) \/ ReadCredential(r)
          \/ verifyAuthentication(r) \/ StoreCounter(r) \/ record(r) \/ Answer(r) \/ Crash(r)

Spec == Init /\ [][Next]_vars

-----------------------------------------------------------------------------
(* A signed response opens one session, however often it is posted and     *)
(* however the posts overlap.                                              *)
AssertionSpentOnce ==
    \A r, s \in sessions : ChallengeOf[r] = ChallengeOf[s] => r = s

(* The stored counter goes back only when a request writes over a counter  *)
(* stored after it read the credential: two sign-ins that overlap.         *)
CounterStep ==
    credential' < credential /\ credential # NoCredential =>
      \E r \in Requests : pc[r] = "verified" /\ pc'[r] = "stored" /\ seen[r] # credential
CounterBackNeedsOverlap == [][CounterStep]_vars

(* Every session has an audit row, and what Risk was told is a subset of   *)
(* the audit: a crash or a telemetry failure loses the later record only.  *)
SessionsAudited == sessions \subseteq audit /\ telemetry \subseteq audit

-----------------------------------------------------------------------------
(* The inductive invariant behind the properties *)

\* The authenticator counts a signature at most.
Signed == {c \in Challenges : signed[c] # NotSigned}
SignaturesCounted == device <= Cardinality(Signed)

\* A request past the take has a challenge of its own, gone for the others.
Holds(r) == pc[r] \notin {"idle", "refused"}
TakenOnce ==
    \A r \in Requests : Holds(r) =>
        /\ challenge[ChallengeOf[r]] = "gone"
        /\ signed[ChallengeOf[r]] # NotSigned
        /\ \A s \in Requests : Holds(s) /\ ChallengeOf[s] = ChallengeOf[r] => s = r

\* What a request stores it has compared with what it read.
CounterChecked ==
    \A r \in Requests :
        pc[r] = "verified" => CounterAccepted(seen[r], signed[ChallengeOf[r]])

\* The audit row comes before the answer, and only an answer opens a session.
AuditFirst ==
    /\ \A r \in Requests : pc[r] \in {"audited", "done"} => r \in audit
    /\ \A r \in sessions : pc[r] = "done"
    /\ telemetry \subseteq audit

IInv == TypeOK /\ SignaturesCounted /\ TakenOnce /\ CounterChecked /\ AuditFirst
=============================================================================
