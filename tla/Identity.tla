------------------------------ MODULE Identity ------------------------------
(***************************************************************************)
(* Who may act: one-time codes, onboarding and the PIN fallback (SignIn),  *)
(* the session in Redis, its expiry and the PIN step-up that authorises a  *)
(* payment (Sessions), and passkeys (Passkeys).  A behaviour is about one  *)
(* of them; the components share nothing that their properties speak of.   *)
(***************************************************************************)
EXTENDS Integers, FiniteSets

CONSTANTS
    None,
    PhoneRequests, KindOf, OtpRequestLimit, OtpMaxAttempts,
    MaxFailures,                                       \* of SignIn
    Gets, StepUps, Logouts, Controls, IdleTtl, AbsoluteTtl, LockTtl,
    MaxAttempts, MaxTime,                              \* of Sessions
    Burst, BurstTime,    \* the requests of a burst of step-ups, and its end
    Challenges, Registrations, PasskeyRequests, ChallengeOf,
    RateLimit                                          \* of Passkeys

VARIABLES
    part,                                        \* what a behaviour is about
    challenge, rate, session, pc, seen,          \* of several components
    cooldown, token, user, pick, seenUser,       \* of SignIn alone
    now, attempts, lock, late, at,               \* of Sessions alone
    counting, device, signed, credential, audit, telemetry,
    sessions                                     \* of Passkeys alone

codesOnly == <<cooldown, token, user, pick, seenUser>>
storeOnly == <<now, attempts, lock, late, at>>
keysOnly == <<counting, device, signed, credential, audit, telemetry, sessions>>
vars == <<part, challenge, rate, session, pc, seen, codesOnly, storeOnly, keysOnly>>

Codes == INSTANCE SignIn WITH Requests <- PhoneRequests
Store == INSTANCE Sessions
Keys == INSTANCE Passkeys WITH Requests <- PasskeyRequests

ConstantsOK ==
    /\ Codes!ConstantsOK /\ Store!ConstantsOK /\ Keys!ConstantsOK
    /\ Burst \subseteq StepUps

\* The behaviours about the session: all requests but the burst, until past
\* the absolute expiry, or the burst alone, for a shorter time.
OfSession == part \in {"expiry", "stepUp"}

\* A component has started; variables it does not have are 0.
NoCodes == cooldown = 0 /\ token = 0 /\ user = 0 /\ pick = 0 /\ seenUser = 0
NoStore == now = 0 /\ attempts = 0 /\ lock = 0 /\ late = 0 /\ at = 0
NoKeys == /\ counting = 0 /\ device = 0 /\ signed = 0 /\ credential = 0
          /\ audit = 0 /\ telemetry = 0 /\ sessions = 0

Init ==
    \/ part = "codes" /\ Codes!Init /\ NoStore /\ NoKeys
    \/ /\ OfSession /\ Store!Init /\ NoCodes /\ NoKeys
       /\ challenge = 0 /\ rate = 0 /\ seen = 0
    \/ part = "passkeys" /\ Keys!Init /\ NoCodes /\ NoStore /\ session = 0

Next ==
    \/ /\ part = "codes" /\ Codes!Next
       /\ UNCHANGED <<part, storeOnly, keysOnly>>
    \/ /\ part = "expiry"
       /\ Store!Tick \/ \E r \in Store!Requests \ Burst : Store!Handle(r)
       /\ UNCHANGED <<part, challenge, rate, seen, codesOnly, keysOnly>>
    \/ /\ part = "stepUp"
       /\ (now < BurstTime /\ Store!Tick) \/ \E r \in Burst : Store!Handle(r)
       /\ UNCHANGED <<part, challenge, rate, seen, codesOnly, keysOnly>>
    \/ /\ part = "passkeys" /\ Keys!Next
       /\ UNCHANGED <<part, session, codesOnly, storeOnly>>

Spec == Init /\ [][Next]_vars

-----------------------------------------------------------------------------
\* Enrolment of one phone number by overlapping requests: no row is usable
\* without its PIN, the first PIN stays, an enrollment token is spent once,
\* and no more codes are issued than the limit (onboarding verifyOtp and
\* createPin, OtpService, rateLimitAllows).
OnePinPerPhone ==
    /\ [](part = "codes" =>
            /\ Codes!TypeOK
            /\ Codes!UsableHasPin
            /\ Codes!TokenSpentOnce
            /\ Codes!IssuedWithinLimit)
    /\ [][part = "codes" => Codes!PinStep]_vars

\* A one-time code is consumed once, as the decision record has it
\* (OtpService.verify reads, compares and deletes in separate commands).
CodeConsumedOnce == part = "codes" => Codes!OtpConsumedOnce

\* A session ends when it should and PIN guessing is bounded: nobody is
\* served after the absolute expiry, the key never outlives idle time and
\* absolute expiry although get writes it back, and a burst of wrong PINs
\* closes the step-up however the requests overlap (SessionService.read and
\* get, TransferStepUpService.verify).
SessionLimits ==
    /\ [](OfSession =>
            /\ Store!TypeOK
            /\ Store!ExpiredServesNobody
            /\ Store!KeyEnds)
    /\ [][OfSession => Store!GuessStep]_vars

\* A signed passkey response opens one session, every session has its audit
\* row wherever a request dies, and the stored signature counter goes back
\* only when two sign-ins overlap (PasskeyService).
PasskeySpentOnce ==
    /\ [](part = "passkeys" =>
            /\ Keys!TypeOK
            /\ Keys!AssertionSpentOnce
            /\ Keys!SessionsAudited)
    /\ [][part = "passkeys" => Keys!CounterStep]_vars
=============================================================================
