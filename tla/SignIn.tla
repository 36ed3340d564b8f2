------------------------------- MODULE SignIn -------------------------------
(***************************************************************************)
(* Identity's onboarding and PIN fallback for one phone number: one-time   *)
(* codes in Redis, the user row in PostgreSQL and the sessions they open.  *)
(*                                                                         *)
(* Every request is handled once and stops for good when it answers or     *)
(* fails.  Each Redis command and each SQL statement or transaction is one *)
(* step, so requests interleave between them.  Names that the code draws   *)
(* at random (challenge and enrollment token) are the names of the         *)
(* requests that draw them.  Everything happens within one hour, the       *)
(* window of the request limit.                                            *)
(***************************************************************************)
EXTENDS Integers, FiniteSets

CONSTANTS
    Requests,
    KindOf,            \* handler of a request
    OtpRequestLimit,   \* otpRequestLimitPerHour
    OtpMaxAttempts,
    MaxFailures,       \* of the PIN, before the temporary lock
    None               \* null

Kinds == {"requestOtp", "verifyOtp", "createPin", "fallbackOtp", "login"}

ConstantsOK ==
    /\ IsFiniteSet(Requests)
    /\ KindOf \in [Requests -> Kinds]
    /\ OtpRequestLimit \in Nat \ {0}
    /\ OtpMaxAttempts \in Nat \ {0}
    /\ MaxFailures \in Nat \ {0}
    /\ None \notin Requests

Purposes == {"ONBOARDING", "FALLBACK"}
Purpose(r) ==
    IF KindOf[r] \in {"fallbackOtp", "login"} THEN "FALLBACK" ELSE "ONBOARDING"

-----------------------------------------------------------------------------
\* The code never sets the status DISABLED, so no row has it.
VARIABLES
    challenge,   \* stored codes, by the request that drew them
    cooldown,    \* challenge a repeated request is answered with
    rate,        \* requests counted against the phone number
    token,       \* live enrollment tokens
    user,        \* the user row
    session,     \* requests that opened a session
    pc,
    pick,        \* challenge or token a request works with
    seen,        \* challenge as a request read it
    seenUser     \* user row as a request read it

vars == <<challenge, cooldown, rate, token, user, session, pc, pick, seen,
          seenUser>>
redis == <<challenge, cooldown, rate, token>>
locals == <<pick, seen, seenUser>>

\* bounded: the key carries a TTL.
Challenge == [purpose : Purposes, attempts : 0 .. OtpMaxAttempts - 1,
              bounded : BOOLEAN]
User == [status : {"NONE", "PENDING", "ACTIVE", "LOCKED"},
         failures : 0 .. Cardinality(Requests), locked : BOOLEAN,
         pin : Requests \cup {None}]
NewUser == [status |-> "NONE", failures |-> 0, locked |-> FALSE, pin |-> None]

Start(r) == CASE KindOf[r] = "requestOtp" -> "otp"
              [] KindOf[r] = "verifyOtp" -> "verify"
              [] KindOf[r] = "createPin" -> "token"
              [] OTHER -> "pin"

TypeOK ==
    /\ challenge \in [Requests -> Challenge \cup {None}]
    /\ cooldown \in [Purposes -> Requests \cup {None}]
    /\ rate \in [count : Nat, bounded : BOOLEAN]
    /\ token \subseteq Requests
    /\ user \in User
    /\ session \subseteq Requests
    /\ pc \in [Requests -> {"otp", "rate", "window", "issue", "cool", "verify",
                            "check", "matched", "enrol", "tokenise", "token",
                            "activate", "pin", "pinCheck", "session", "done"}]
    /\ pick \in [Requests -> Requests \cup {None}]
    /\ seen \in [Requests -> Challenge \cup {None}]
    /\ seenUser \in [Requests -> User]

Init ==
    /\ challenge = [r \in Requests |-> None]
    /\ cooldown = [p \in Purposes |-> None]
    /\ rate = [count |-> 0, bounded |-> TRUE]
    /\ token = {}
    /\ user = NewUser
    /\ session = {}
    /\ pc = [r \in Requests |-> Start(r)]
    /\ pick = [r \in Requests |-> None]
    /\ seen = [r \in Requests |-> None]
    /\ seenUser = [r \in Requests |-> NewUser]

Goto(r, label) == pc' = [pc EXCEPT ![r] = label]

-----------------------------------------------------------------------------
(* OtpService.request *)

\* A code sent a moment ago is not sent again: the cooldown answers.
OtpCooldown(r) ==
    /\ pc[r] = "otp"
    /\ Goto(r, IF cooldown[Purpose(r)] # None THEN "done" ELSE "rate")
    /\ UNCHANGED <<redis, user, session, locals>>

\* INCR of the phone's counter; the IP address's, shared with other phones,
\* may refuse as well.  A refused request is answered like an accepted one (the
\* mutant admits one too many).
WithinLimitLate(n) == n <= OtpRequestLimit + 1
WithinLimit(n) == n <= OtpRequestLimit
rateLimitAllows(r) ==
    LET n == rate.count + 1
    IN  /\ pc[r] = "rate"
        /\ rate' = [count |-> n, bounded |-> rate.count # 0 /\ rate.bounded]
        /\ \/ n = 1 /\ Goto(r, "window")
           \/ n # 1 /\ WithinLimit(n) /\ Goto(r, "issue")
           \/ n # 1 /\ Goto(r, "done")
        /\ UNCHANGED <<challenge, cooldown, token, user, session, locals>>

\* EXPIRE, by the request that counted one; the address may still refuse it.
RateWindow(r) ==
    /\ pc[r] = "window"
    /\ rate' = [rate EXCEPT !.bounded = TRUE]
    /\ Goto(r, "issue") \/ Goto(r, "done")
    /\ UNCHANGED <<challenge, cooldown, token, user, session, locals>>

OtpIssue(r) ==
    /\ pc[r] = "issue"
    /\ challenge' = [challenge EXCEPT ![r] = [purpose |-> Purpose(r),
                                              attempts |-> 0,
                                              bounded |-> TRUE]]
    /\ pick' = [pick EXCEPT ![r] = r]
    /\ Goto(r, "cool")
    /\ UNCHANGED <<cooldown, rate, token, user, session, seen, seenUser>>

OtpCool(r) ==
    /\ pc[r] = "cool"
    /\ cooldown' = [cooldown EXCEPT ![Purpose(r)] = r]
    /\ Goto(r, "done")
    /\ UNCHANGED <<challenge, rate, token, user, session, locals>>

-----------------------------------------------------------------------------
(* OtpService.verify: GET, then DEL or SET *)

OtpRead(r) ==
    /\ pc[r] = "verify"
    /\ \E c \in Requests :
           \/ /\ challenge[c] = None
              /\ Goto(r, "done")
              /\ UNCHANGED locals
           \/ /\ challenge[c] # None
              /\ pick' = [pick EXCEPT ![r] = c]
              /\ seen' = [seen EXCEPT ![r] = challenge[c]]
              /\ Goto(r, "check")
              /\ UNCHANGED seenUser
    /\ UNCHANGED <<redis, user, session>>

OtpMatch(r) ==
    /\ pc[r] = "check"
    /\ seen[r].purpose = Purpose(r)
    /\ challenge' = [challenge EXCEPT ![pick[r]] = None]
    /\ Goto(r, "matched")
    /\ UNCHANGED <<cooldown, rate, token, user, session, locals>>

\* The attempt that spends the challenge (one later in the mutant).
SpentLate(attempts) == attempts > OtpMaxAttempts
Spent(attempts) == attempts >= OtpMaxAttempts

\* SET KEEPTTL of a key that is gone creates it without a TTL.
OtpMismatch(r) ==
    LET c == pick[r]
        attempts == seen[r].attempts + 1
        again == [purpose |-> seen[r].purpose, attempts |-> attempts,
                  bounded |-> challenge[c] # None /\ challenge[c].bounded]
    IN  /\ pc[r] = "check"
        /\ challenge' = [challenge EXCEPT ![c] =
                             IF Spent(attempts) THEN None ELSE again]
        /\ Goto(r, "done")
        /\ UNCHANGED <<cooldown, rate, token, user, session, locals>>

-----------------------------------------------------------------------------
(* OnboardingService.verifyOtp and createPin *)

EnrolRead(r) ==
    /\ pc[r] = "matched" /\ KindOf[r] = "verifyOtp"
    /\ seenUser' = [seenUser EXCEPT ![r] = user]
    /\ Goto(r, IF user.status \in {"NONE", "PENDING"} THEN "enrol" ELSE "done")
    /\ UNCHANGED <<redis, user, session, pick, seen>>

\* An update of the row found, or an insert, which the unique phone number
\* refuses when another request inserted first.
EnrolWrite(r) ==
    LET insert == seenUser[r].status = "NONE"
    IN  /\ pc[r] = "enrol"
        /\ \/ /\ insert /\ user.status # "NONE"
              /\ Goto(r, "done")
              /\ UNCHANGED user
           \/ /\ ~insert \/ user.status = "NONE"
              /\ user' = IF insert THEN [user EXCEPT !.status = "PENDING"]
                                   ELSE user
              /\ Goto(r, "tokenise")
        /\ UNCHANGED <<redis, session, locals>>

EnrolToken(r) ==
    /\ pc[r] = "tokenise"
    /\ token' = token \cup {r}
    /\ Goto(r, "done")
    /\ UNCHANGED <<challenge, cooldown, rate, user, session, locals>>

\* GETDEL of the enrollment token (GET in the mutant), which may be gone.
TakeTokenKept(r) ==
    /\ pc[r] = "token"
    /\ \E t \in token : /\ pick' = [pick EXCEPT ![r] = t]
                        /\ Goto(r, "activate")
    /\ UNCHANGED <<redis, user, session, seen, seenUser>>
TakeToken(r) ==
    /\ pc[r] = "token"
    /\ \/ \E t \in token : /\ token' = token \ {t}
                           /\ pick' = [pick EXCEPT ![r] = t]
                           /\ Goto(r, "activate")
       \/ Goto(r, "done") /\ UNCHANGED <<token, pick>>
    /\ UNCHANGED <<challenge, cooldown, rate, user, session, seen, seenUser>>

\* One transaction: the PIN is written and the row leaves PENDING, or neither
\* (in the mutants the update lacks its status, or the PIN waits until after
\* the transaction).
ActivateAny(r) ==
    /\ pc[r] = "activate"
    /\ user' = [NewUser EXCEPT !.status = "ACTIVE", !.pin = r]
    /\ Goto(r, "session")
    /\ UNCHANGED <<redis, session, locals>>
ActivateBeforePin(r) ==
    /\ pc[r] = "activate"
    /\ user.status = "PENDING"
    /\ user' = [user EXCEPT !.status = "ACTIVE"]
    /\ Goto(r, "session")
    /\ UNCHANGED <<redis, session, locals>>
Activate(r) ==
    /\ pc[r] = "activate"
    /\ \/ /\ user.status = "PENDING"
          /\ user' = [NewUser EXCEPT !.status = "ACTIVE", !.pin = r]
          /\ Goto(r, "session")
       \/ /\ user.status # "PENDING"
          /\ Goto(r, "done")
          /\ UNCHANGED user
    /\ UNCHANGED <<redis, session, locals>>

\* SessionService.create.
OpenSession(r) ==
    /\ pc[r] = "session"
    /\ session' = session \cup {r}
    /\ Goto(r, "done")
    /\ UNCHANGED <<redis, user, locals>>

-----------------------------------------------------------------------------
(* FallbackService *)

PinRead(r) ==
    /\ pc[r] = "pin"
    /\ seenUser' = [seenUser EXCEPT ![r] = user]
    /\ Goto(r, IF user.pin = None \/ user.locked THEN "done" ELSE "pinCheck")
    /\ UNCHANGED <<redis, user, session, pick, seen>>

PinRight(r) ==
    /\ pc[r] = "pinCheck"
    /\ seenUser[r].status \in {"ACTIVE", "LOCKED"}
    /\ Goto(r, IF KindOf[r] = "login" THEN "verify" ELSE "otp")
    /\ UNCHANGED <<redis, user, session, locals>>

\* The whole row state is written back from what was read before the hash was
\* computed.
PinWrong(r) ==
    LET failures == seenUser[r].failures + 1
        lock == failures >= MaxFailures
    IN  /\ pc[r] = "pinCheck"
        /\ user' = [user EXCEPT
                       !.failures = failures,
                       !.status = IF lock THEN "LOCKED" ELSE seenUser[r].status,
                       !.locked = IF lock THEN TRUE ELSE seenUser[r].locked]
        /\ Goto(r, "done")
        /\ UNCHANGED <<redis, session, locals>>

LoginCommit(r) ==
    /\ pc[r] = "matched" /\ KindOf[r] = "login"
    /\ user' = [user EXCEPT !.status = "ACTIVE", !.failures = 0,
                            !.locked = FALSE]
    /\ Goto(r, "session")
    /\ UNCHANGED <<redis, session, locals>>

-----------------------------------------------------------------------------
(* Time, and failures *)

\* A TTL runs out.
Expire(c) ==
    /\ challenge[c] # None
    /\ challenge[c].bounded
    /\ challenge' = [challenge EXCEPT ![c] = None]
    /\ UNCHANGED <<cooldown, rate, token, user, session, pc, locals>>

CooldownEnds(p) ==
    /\ cooldown[p] # None
    /\ cooldown' = [cooldown EXCEPT ![p] = None]
    /\ UNCHANGED <<challenge, rate, token, user, session, pc, locals>>

TokenEnds(t) ==
    /\ t \in token
    /\ token' = token \ {t}
    /\ UNCHANGED <<challenge, cooldown, rate, user, session, pc, locals>>

\* lockedUntil passes.
LockEnds ==
    /\ user.locked
    /\ user' = [user EXCEPT !.locked = FALSE]
    /\ UNCHANGED <<redis, session, pc, locals>>

\* The process dies, or a command to Redis or PostgreSQL fails.
Fail(r) ==
    /\ pc[r] # "done"
    /\ Goto(r, "done")
    /\ UNCHANGED <<redis, user, session, locals>>

Otp(r) ==
    \/ OtpCooldown(r)
    \/ rateLimitAllows(r)
    \/ RateWindow(r)
    \/ OtpIssue(r)
    \/ OtpCool(r)
    \/ OtpRead(r)
    \/ OtpMatch(r)
    \/ OtpMismatch(r)

Onboarding(r) ==
    \/ EnrolRead(r)
    \/ EnrolWrite(r)
    \/ EnrolToken(r)
    \/ TakeToken(r)
    \/ Activate(r)
    \/ OpenSession(r)

Fallback(r) ==
    \/ PinRead(r)
    \/ PinRight(r)
    \/ PinWrong(r)
    \/ LoginCommit(r)

Next ==
    \/ \E r \in Requests : Otp(r) \/ Onboarding(r) \/ Fallback(r) \/ Fail(r)
    \/ \E c \in Requests : Expire(c) \/ TokenEnds(c)
    \/ \E p \in Purposes : CooldownEnds(p)
    \/ LockEnds

Spec == Init /\ [][Next]_vars

-----------------------------------------------------------------------------
\* A row never becomes usable, and no session opens, without the credential
\* that protects it, wherever a request dies (createPin's transaction).
UsableHasPin ==
    user.status \in {"ACTIVE", "LOCKED"} \/ session # {} => user.pin # None

\* However many enrollment tokens are out, the first PIN stays: onboarding
\* cannot replace the PIN of a row that is in use (status: 'PENDING').
PinStep ==
    user.pin # None => user'.pin = user.pin
PinChosenOnce == [][PinStep]_vars

\* An enrollment token activates one request at most (getDel).
TokenSpentOnce ==
    \A r, q \in Requests :
        KindOf[r] = "createPin" /\ KindOf[q] = "createPin"
            /\ pick[r] # None /\ pick[r] = pick[q] => r = q

\* Requests that run side by side, before any of them sets the cooldown, still
\* cannot have more codes issued than the limit (rateLimitAllows).
IssuedWithinLimit ==
    Cardinality({r \in Requests : pick[r] = r}) <= OtpRequestLimit

\* What the decision record promises of a code: one-time consumption.  verify
\* reads, compares and deletes in separate commands.
OtpConsumedOnce ==
    \A r, q \in Requests :
        pc[r] = "matched" /\ pc[q] = "matched" /\ pick[r] = pick[q] => r = q

-----------------------------------------------------------------------------
(* The inductive invariant behind the properties *)

OtpKinds == {"requestOtp", "fallbackOtp"}
CodeKinds == {"verifyOtp", "login"}
PinKinds == {"fallbackOtp", "login"}

\* A handler goes through its own steps only.
Placed ==
    \A r \in Requests :
        /\ pc[r] \in {"otp", "rate", "window", "issue", "cool"}
               => KindOf[r] \in OtpKinds
        /\ pc[r] \in {"verify", "check", "matched"} => KindOf[r] \in CodeKinds
        /\ pc[r] \in {"enrol", "tokenise"} => KindOf[r] = "verifyOtp"
        /\ pc[r] \in {"token", "activate"} => KindOf[r] = "createPin"
        /\ pc[r] \in {"pin", "pinCheck"} => KindOf[r] \in PinKinds

\* Codes come from requests for a code, and each request picks what its
\* handler can find.
Drawn ==
    /\ \A c \in Requests : challenge[c] # None => KindOf[c] \in OtpKinds
    /\ \A r \in Requests :
           /\ pc[r] = "check" => seen[r] # None
           /\ pc[r] \in {"check", "matched"} => pick[r] # None
           /\ pick[r] # None /\ KindOf[r] \in CodeKinds
                  => KindOf[pick[r]] \in OtpKinds

\* A token is drawn by the last step of its request, and one that was taken
\* is not live any more.
TokensDrawn ==
    /\ \A t \in token : KindOf[t] = "verifyOtp" /\ pc[t] = "done"
    /\ \A r \in Requests : pick[r] # None /\ KindOf[r] = "createPin" =>
           /\ KindOf[pick[r]] = "verifyOtp" /\ pc[pick[r]] = "done"
           /\ pick[r] \notin token

\* A row has a PIN exactly when it has left PENDING, as read and now; nobody
\* is past the PIN check, or about to open a session, without one.
PinFirst ==
    /\ user.status \in {"NONE", "PENDING"} <=> user.pin = None
    /\ \A r \in Requests :
           /\ seenUser[r].status \in {"NONE", "PENDING"} <=> seenUser[r].pin = None
           /\ seenUser[r].pin # None => user.pin # None
           /\ pc[r] = "pinCheck" => seenUser[r].pin # None
           /\ KindOf[r] \in PinKinds /\ pc[r] \notin {"pin", "done"}
                  => user.pin # None
           /\ pc[r] = "session" => user.pin # None
    /\ session # {} => user.pin # None

\* A wrong PIN ends its request, so no more are counted than have ended.
Ended == {r \in Requests : pc[r] = "done"}
FailuresCounted ==
    /\ user.failures <= Cardinality(Ended)
    /\ \A r \in Requests : seenUser[r].failures <= Cardinality(Ended)

\* Every request let through to issue a code was counted first.
Admitted == {r \in Requests : pc[r] \in {"window", "issue"} \/ pick[r] = r}
AdmittedCounted ==
    /\ Cardinality(Admitted) <= rate.count
    /\ Cardinality(Admitted) <= OtpRequestLimit

IInv ==
    /\ TypeOK /\ Placed /\ Drawn /\ TokensDrawn /\ PinFirst
    /\ FailuresCounted /\ AdmittedCounted /\ TokenSpentOnce
============================================================================
