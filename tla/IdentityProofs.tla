---------------------------- MODULE IdentityProofs --------------------------
(***************************************************************************)
(* What the run of Identity checks, for any number of requests and any     *)
(* limits.  Each component has its inductive invariant, X!IInv, defined    *)
(* beside its actions; the sections below show, component by component,    *)
(* that the initial states satisfy it, that every action keeps it, and     *)
(* that the properties follow.  The last section lifts the three results   *)
(* over the variable part.                                                 *)
(*                                                                         *)
(* An instance has its own copies of the operators its module takes from   *)
(* FiniteSets and FiniteSetsExt, so each section begins by showing that    *)
(* they count as the library's do.                                         *)
(***************************************************************************)
EXTENDS Identity, FiniteSetTheorems, TLAPS

-----------------------------------------------------------------------------
(* Counting in a finite set *)

LEMMA Counting ==
    ASSUME NEW R, IsFiniteSet(R)
    PROVE  /\ Cardinality({}) = 0
           /\ \A S \in SUBSET R : Cardinality(S) \in Nat
           /\ \A S, T \in SUBSET R : S \subseteq T => Cardinality(S) <= Cardinality(T)
           /\ \A S \in SUBSET R : \A x \in R \ S :
                  Cardinality(S \cup {x}) = Cardinality(S) + 1
           /\ \A S, T \in SUBSET R :
                  Cardinality(S \cup T) <= Cardinality(S) + Cardinality(T)
  <1>1. \A S \in SUBSET R : IsFiniteSet(S)
    BY FS_Subset
  <1>2. ASSUME NEW S \in SUBSET R, NEW T \in SUBSET R
        PROVE  Cardinality(S \cup T) <= Cardinality(S) + Cardinality(T)
    <2>1. /\ IsFiniteSet(S) /\ IsFiniteSet(T)
          /\ IsFiniteSet(S \cap T)
      BY <1>1, FS_Subset
    <2>2. Cardinality(S) \in Nat /\ Cardinality(T) \in Nat
            /\ Cardinality(S \cap T) \in Nat
      BY <2>1, FS_CardinalityType
    <2>3. Cardinality(S \cup T)
            = Cardinality(S) + Cardinality(T) - Cardinality(S \cap T)
      BY <2>1, FS_Union
    <2>4. QED
      BY <2>2, <2>3
  <1>3. QED
    BY <1>1, <1>2, FS_Subset, FS_CardinalityType, FS_AddElement, FS_EmptySet

-----------------------------------------------------------------------------
(* SignIn *)

\* The instance counts as FiniteSets does.
LEMMA CodesFinite == \A S : Codes!IsFiniteSet(S) <=> IsFiniteSet(S)
  BY DEF Codes!IsFiniteSet, IsFiniteSet

LEMMA CodesSameCount == \A S : Codes!Cardinality(S) = Cardinality(S)
  BY DEF Codes!Cardinality, Cardinality

LEMMA CodesCounting ==
    ASSUME Codes!ConstantsOK
    PROVE  /\ Codes!Cardinality({}) = 0
           /\ \A S \in SUBSET PhoneRequests : Codes!Cardinality(S) \in Nat
           /\ \A S, T \in SUBSET PhoneRequests :
                  S \subseteq T => Codes!Cardinality(S) <= Codes!Cardinality(T)
           /\ \A S \in SUBSET PhoneRequests : \A x \in PhoneRequests \ S :
                  Codes!Cardinality(S \cup {x}) = Codes!Cardinality(S) + 1
  BY CodesFinite, CodesSameCount, Counting DEF Codes!ConstantsOK

\* A step on the clock's or a failure's account.
CodesAside ==
    \/ \E r \in PhoneRequests : Codes!Fail(r) \/ Codes!Expire(r) \/ Codes!TokenEnds(r)
    \/ \E p \in Codes!Purposes : Codes!CooldownEnds(p)
    \/ Codes!LockEnds

LEMMA CodesPlaced ==
    ASSUME Codes!ConstantsOK, Codes!IInv, Codes!Next
    PROVE  Codes!Placed'
  <1> USE DEF Codes!ConstantsOK, Codes!IInv, Codes!TypeOK, Codes!Goto,
        Codes!redis, Codes!locals, Codes!Placed,
        Codes!OtpKinds, Codes!CodeKinds, Codes!PinKinds
  <1>1. ASSUME NEW r \in PhoneRequests, Codes!Otp(r) PROVE Codes!Placed'
    BY <1>1 DEF Codes!Otp, Codes!OtpCooldown, Codes!rateLimitAllows,
        Codes!RateWindow, Codes!OtpIssue, Codes!OtpCool, Codes!OtpRead,
        Codes!OtpMatch, Codes!OtpMismatch
  <1>2. ASSUME NEW r \in PhoneRequests, Codes!Onboarding(r) PROVE Codes!Placed'
    BY <1>2 DEF Codes!Onboarding, Codes!EnrolRead, Codes!EnrolWrite,
        Codes!EnrolToken, Codes!TakeToken, Codes!Activate, Codes!OpenSession
  <1>3. ASSUME NEW r \in PhoneRequests, Codes!Fallback(r) PROVE Codes!Placed'
    BY <1>3 DEF Codes!Fallback, Codes!PinRead, Codes!PinRight, Codes!PinWrong,
        Codes!LoginCommit
  <1>4. CASE CodesAside
    BY <1>4 DEF CodesAside, Codes!Fail, Codes!Expire, Codes!TokenEnds,
        Codes!CooldownEnds, Codes!LockEnds
  <1>5. QED
    BY <1>1, <1>2, <1>3, <1>4 DEF Codes!Next, CodesAside

LEMMA CodesDrawn ==
    ASSUME Codes!ConstantsOK, Codes!IInv, Codes!Next
    PROVE  Codes!Drawn'
  <1> USE DEF Codes!ConstantsOK, Codes!IInv, Codes!TypeOK, Codes!Goto,
        Codes!redis, Codes!locals, Codes!Drawn,
        Codes!Placed, Codes!Challenge,
        Codes!OtpKinds, Codes!CodeKinds, Codes!PinKinds
  <1>1. ASSUME NEW r \in PhoneRequests, Codes!Otp(r) PROVE Codes!Drawn'
    BY <1>1 DEF Codes!Otp, Codes!OtpCooldown, Codes!rateLimitAllows,
        Codes!RateWindow, Codes!OtpIssue, Codes!OtpCool, Codes!OtpRead,
        Codes!OtpMatch, Codes!OtpMismatch
  <1>2. ASSUME NEW r \in PhoneRequests, Codes!Onboarding(r) PROVE Codes!Drawn'
    BY <1>2 DEF Codes!Onboarding, Codes!EnrolRead, Codes!EnrolWrite,
        Codes!EnrolToken, Codes!TakeToken, Codes!Activate, Codes!OpenSession
  <1>3. ASSUME NEW r \in PhoneRequests, Codes!Fallback(r) PROVE Codes!Drawn'
    BY <1>3 DEF Codes!Fallback, Codes!PinRead, Codes!PinRight, Codes!PinWrong,
        Codes!LoginCommit
  <1>4. CASE CodesAside
    BY <1>4 DEF CodesAside, Codes!Fail, Codes!Expire, Codes!TokenEnds,
        Codes!CooldownEnds, Codes!LockEnds
  <1>5. QED
    BY <1>1, <1>2, <1>3, <1>4 DEF Codes!Next, CodesAside

LEMMA CodesTokensDrawn ==
    ASSUME Codes!ConstantsOK, Codes!IInv, Codes!Next
    PROVE  Codes!TokensDrawn'
  <1> USE DEF Codes!ConstantsOK, Codes!IInv, Codes!TypeOK, Codes!Goto,
        Codes!redis, Codes!locals, Codes!TokensDrawn,
        Codes!Placed, Codes!OtpKinds, Codes!CodeKinds, Codes!PinKinds
  <1>1. ASSUME NEW r \in PhoneRequests, Codes!Otp(r) PROVE Codes!TokensDrawn'
    BY <1>1 DEF Codes!Otp, Codes!OtpCooldown, Codes!rateLimitAllows,
        Codes!RateWindow, Codes!OtpIssue, Codes!OtpCool, Codes!OtpRead,
        Codes!OtpMatch, Codes!OtpMismatch
  <1>2. ASSUME NEW r \in PhoneRequests, Codes!Onboarding(r) PROVE Codes!TokensDrawn'
    BY <1>2 DEF Codes!Onboarding, Codes!EnrolRead, Codes!EnrolWrite,
        Codes!EnrolToken, Codes!TakeToken, Codes!Activate, Codes!OpenSession
  <1>3. ASSUME NEW r \in PhoneRequests, Codes!Fallback(r) PROVE Codes!TokensDrawn'
    BY <1>3 DEF Codes!Fallback, Codes!PinRead, Codes!PinRight, Codes!PinWrong,
        Codes!LoginCommit
  <1>4. CASE CodesAside
    BY <1>4 DEF CodesAside, Codes!Fail, Codes!Expire, Codes!TokenEnds,
        Codes!CooldownEnds, Codes!LockEnds
  <1>5. QED
    BY <1>1, <1>2, <1>3, <1>4 DEF Codes!Next, CodesAside

LEMMA CodesPinFirst ==
    ASSUME Codes!ConstantsOK, Codes!IInv, Codes!Next
    PROVE  Codes!PinFirst'
  <1> USE DEF Codes!ConstantsOK, Codes!IInv, Codes!TypeOK, Codes!Goto,
        Codes!redis, Codes!locals, Codes!PinFirst,
        Codes!Placed, Codes!User, Codes!NewUser, Codes!OtpKinds, Codes!CodeKinds, Codes!PinKinds
  <1>1. ASSUME NEW r \in PhoneRequests, Codes!Otp(r) PROVE Codes!PinFirst'
    BY <1>1 DEF Codes!Otp, Codes!OtpCooldown, Codes!rateLimitAllows,
        Codes!RateWindow, Codes!OtpIssue, Codes!OtpCool, Codes!OtpRead,
        Codes!OtpMatch, Codes!OtpMismatch
  <1>2. ASSUME NEW r \in PhoneRequests, Codes!EnrolRead(r) PROVE Codes!PinFirst'
    BY <1>2 DEF Codes!EnrolRead
  <1>3. ASSUME NEW r \in PhoneRequests, Codes!EnrolWrite(r) PROVE Codes!PinFirst'
    BY <1>3 DEF Codes!EnrolWrite
  <1>4. ASSUME NEW r \in PhoneRequests, Codes!EnrolToken(r) PROVE Codes!PinFirst'
    BY <1>4 DEF Codes!EnrolToken
  <1>5. ASSUME NEW r \in PhoneRequests, Codes!TakeToken(r) PROVE Codes!PinFirst'
    BY <1>5 DEF Codes!TakeToken
  <1>6. ASSUME NEW r \in PhoneRequests, Codes!Activate(r) PROVE Codes!PinFirst'
    <2>1. CASE user.status # "PENDING"
      BY <1>6, <2>1 DEF Codes!Activate
    <2>2. CASE user.status = "PENDING"
      <3>1. user'.status = "ACTIVE" /\ user'.pin = r /\ r # None
        BY <1>6, <2>2 DEF Codes!Activate
      <3>2. UNCHANGED <<session, seenUser>>
        BY <1>6 DEF Codes!Activate
      <3>3. QED
        BY <1>6, <3>1, <3>2 DEF Codes!Activate
    <2>3. QED
      BY <2>1, <2>2
  <1>7. ASSUME NEW r \in PhoneRequests, Codes!OpenSession(r) PROVE Codes!PinFirst'
    BY <1>7 DEF Codes!OpenSession
  <1>8. ASSUME NEW r \in PhoneRequests, Codes!PinRead(r) PROVE Codes!PinFirst'
    BY <1>8 DEF Codes!PinRead
  <1>9. ASSUME NEW r \in PhoneRequests, Codes!PinRight(r) PROVE Codes!PinFirst'
    BY <1>9 DEF Codes!PinRight
  <1>10. ASSUME NEW r \in PhoneRequests, Codes!PinWrong(r) PROVE Codes!PinFirst'
    BY <1>10 DEF Codes!PinWrong
  <1>11. ASSUME NEW r \in PhoneRequests, Codes!LoginCommit(r) PROVE Codes!PinFirst'
    BY <1>11 DEF Codes!LoginCommit
  <1>12. CASE CodesAside
    BY <1>12 DEF CodesAside, Codes!Fail, Codes!Expire, Codes!TokenEnds,
        Codes!CooldownEnds, Codes!LockEnds
  <1>13. QED
    BY <1>1, <1>2, <1>3, <1>4, <1>5, <1>6, <1>7, <1>8, <1>9, <1>10, <1>11, <1>12
       DEF Codes!Next, Codes!Onboarding, Codes!Fallback, CodesAside

LEMMA CodesSpentOnce ==
    ASSUME Codes!ConstantsOK, Codes!IInv, Codes!Next
    PROVE  Codes!TokenSpentOnce'
  <1> USE DEF Codes!ConstantsOK, Codes!IInv, Codes!TypeOK, Codes!Goto,
        Codes!redis, Codes!locals, Codes!TokenSpentOnce,
        Codes!TokensDrawn, Codes!Placed, Codes!OtpKinds, Codes!CodeKinds, Codes!PinKinds
  <1>1. ASSUME NEW r \in PhoneRequests, Codes!Otp(r) PROVE Codes!TokenSpentOnce'
    BY <1>1 DEF Codes!Otp, Codes!OtpCooldown, Codes!rateLimitAllows,
        Codes!RateWindow, Codes!OtpIssue, Codes!OtpCool, Codes!OtpRead,
        Codes!OtpMatch, Codes!OtpMismatch
  <1>2. ASSUME NEW r \in PhoneRequests, Codes!Onboarding(r) PROVE Codes!TokenSpentOnce'
    BY <1>2 DEF Codes!Onboarding, Codes!EnrolRead, Codes!EnrolWrite,
        Codes!EnrolToken, Codes!TakeToken, Codes!Activate, Codes!OpenSession
  <1>3. ASSUME NEW r \in PhoneRequests, Codes!Fallback(r) PROVE Codes!TokenSpentOnce'
    BY <1>3 DEF Codes!Fallback, Codes!PinRead, Codes!PinRight, Codes!PinWrong,
        Codes!LoginCommit
  <1>4. CASE CodesAside
    BY <1>4 DEF CodesAside, Codes!Fail, Codes!Expire, Codes!TokenEnds,
        Codes!CooldownEnds, Codes!LockEnds
  <1>5. QED
    BY <1>1, <1>2, <1>3, <1>4 DEF Codes!Next, CodesAside

LEMMA CodesTyped ==
    ASSUME Codes!ConstantsOK, Codes!IInv, Codes!Next, Codes!FailuresCounted'
    PROVE  Codes!TypeOK'
  <1> USE DEF Codes!ConstantsOK, Codes!IInv, Codes!TypeOK, Codes!Goto,
        Codes!redis, Codes!locals, Codes!Purposes, Codes!Challenge, Codes!User
  <1> DEFINE N == Codes!Cardinality(PhoneRequests)
  <1>a. N \in Nat
    BY CodesCounting
  <1> HIDE DEF N
  <1>1. ASSUME NEW r \in PhoneRequests, Codes!OtpCooldown(r) PROVE Codes!TypeOK'
    BY <1>1 DEF Codes!OtpCooldown
  <1>2. ASSUME NEW r \in PhoneRequests, Codes!rateLimitAllows(r) PROVE Codes!TypeOK'
    BY <1>2 DEF Codes!rateLimitAllows
  <1>3. ASSUME NEW r \in PhoneRequests, Codes!RateWindow(r) PROVE Codes!TypeOK'
    BY <1>3 DEF Codes!RateWindow
  <1>4. ASSUME NEW r \in PhoneRequests, Codes!OtpIssue(r) PROVE Codes!TypeOK'
    BY <1>4 DEF Codes!OtpIssue, Codes!Purpose
  <1>5. ASSUME NEW r \in PhoneRequests, Codes!OtpCool(r) PROVE Codes!TypeOK'
    BY <1>5 DEF Codes!OtpCool, Codes!Purpose
  <1>6. ASSUME NEW r \in PhoneRequests, Codes!OtpRead(r) PROVE Codes!TypeOK'
    BY <1>6 DEF Codes!OtpRead
  <1>7. ASSUME NEW r \in PhoneRequests, Codes!OtpMatch(r) PROVE Codes!TypeOK'
    BY <1>7 DEF Codes!OtpMatch
  <1>8. ASSUME NEW r \in PhoneRequests, Codes!OtpMismatch(r) PROVE Codes!TypeOK'
    <2> DEFINE b == challenge[pick[r]] # None /\ challenge[pick[r]].bounded
               again == [purpose |-> seen[r].purpose, bounded |-> b,
                         attempts |-> seen[r].attempts + 1]
    <2>1. seen[r] \in Codes!Challenge /\ pick[r] \in PhoneRequests
      BY <1>8 DEF Codes!OtpMismatch, Codes!Drawn
    <2>b. b \in BOOLEAN
      OBVIOUS
    <2>2. ~Codes!Spent(seen[r].attempts + 1) => again \in Codes!Challenge
      <3> HIDE DEF b
      <3>2. ~Codes!Spent(seen[r].attempts + 1)
                => seen[r].attempts + 1 \in 0 .. OtpMaxAttempts - 1
        BY <2>1 DEF Codes!Spent
      <3>3. QED
        BY <2>1, <2>b, <3>2
    <2>3. challenge' \in [PhoneRequests -> Codes!Challenge \cup {None}]
      BY <1>8, <2>2 DEF Codes!OtpMismatch
    <2>4. QED
      BY <1>8, <2>3 DEF Codes!OtpMismatch
  <1>9. ASSUME NEW r \in PhoneRequests, Codes!EnrolRead(r) PROVE Codes!TypeOK'
    BY <1>9 DEF Codes!EnrolRead
  <1>10. ASSUME NEW r \in PhoneRequests, Codes!EnrolWrite(r) PROVE Codes!TypeOK'
    BY <1>10 DEF Codes!EnrolWrite
  <1>11. ASSUME NEW r \in PhoneRequests, Codes!EnrolToken(r) PROVE Codes!TypeOK'
    BY <1>11 DEF Codes!EnrolToken
  <1>12. ASSUME NEW r \in PhoneRequests, Codes!TakeToken(r) PROVE Codes!TypeOK'
    BY <1>12 DEF Codes!TakeToken
  <1>13. ASSUME NEW r \in PhoneRequests, Codes!Activate(r) PROVE Codes!TypeOK'
    <2>1. [Codes!NewUser EXCEPT !.status = "ACTIVE", !.pin = r] \in Codes!User
      <3>1. 0 \in 0 .. N
        BY <1>a
      <3>2. Codes!NewUser \in Codes!User
        BY <3>1 DEF Codes!NewUser, N
      <3>3. QED
        BY <3>2
    <2>2. user' \in Codes!User
      BY <1>13, <2>1 DEF Codes!Activate
    <2>3. QED
      BY <1>13, <2>2 DEF Codes!Activate
  <1>14. ASSUME NEW r \in PhoneRequests, Codes!OpenSession(r) PROVE Codes!TypeOK'
    BY <1>14 DEF Codes!OpenSession
  <1>15. ASSUME NEW r \in PhoneRequests, Codes!PinRead(r) PROVE Codes!TypeOK'
    BY <1>15 DEF Codes!PinRead
  <1>16. ASSUME NEW r \in PhoneRequests, Codes!PinRight(r) PROVE Codes!TypeOK'
    BY <1>16 DEF Codes!PinRight
  <1>17. ASSUME NEW r \in PhoneRequests, Codes!PinWrong(r) PROVE Codes!TypeOK'
    <2>1. user'.failures = seenUser[r].failures + 1
      BY <1>17 DEF Codes!PinWrong
    <2>2. Codes!Ended' \in SUBSET PhoneRequests
      BY DEF Codes!Ended
    <2>3. Codes!Cardinality(Codes!Ended') \in Nat /\ Codes!Cardinality(Codes!Ended') <= N
      BY <2>2, CodesCounting DEF N
    <2>4. user'.failures \in 0 .. N
      <3>1. seenUser[r].failures \in 0 .. N
        BY DEF N
      <3>2. user'.failures <= Codes!Cardinality(Codes!Ended')
        BY DEF Codes!FailuresCounted, Codes!Ended
      <3>3. QED
        BY <2>1, <2>3, <3>1, <3>2, <1>a
    <2>5. user' \in Codes!User
      BY <1>17, <2>4 DEF Codes!PinWrong, N
    <2>6. QED
      BY <1>17, <2>5 DEF Codes!PinWrong
  <1>18. ASSUME NEW r \in PhoneRequests, Codes!LoginCommit(r) PROVE Codes!TypeOK'
    <2>1. user' = [status |-> "ACTIVE", failures |-> 0, locked |-> FALSE,
                   pin |-> user.pin]
      BY <1>18 DEF Codes!LoginCommit
    <2>a. 0 \in 0 .. N
      BY <1>a
    <2>b. user' \in Codes!User
      BY <2>1, <2>a DEF N
    <2>2. QED
      BY <1>18, <2>b DEF Codes!LoginCommit
  <1>19. CASE CodesAside
    <2>1. ASSUME NEW r \in PhoneRequests,
                 Codes!Fail(r) \/ Codes!Expire(r) \/ Codes!TokenEnds(r)
          PROVE  Codes!TypeOK'
      BY <2>1 DEF Codes!Fail, Codes!Expire, Codes!TokenEnds
    <2>2. ASSUME NEW p \in Codes!Purposes, Codes!CooldownEnds(p) PROVE Codes!TypeOK'
      BY <2>2 DEF Codes!CooldownEnds
    <2>3. ASSUME Codes!LockEnds PROVE Codes!TypeOK'
      BY <2>3 DEF Codes!LockEnds
    <2>4. QED
      BY <1>19, <2>1, <2>2, <2>3 DEF CodesAside
  <1>20. QED
    BY <1>1, <1>2, <1>3, <1>4, <1>5, <1>6, <1>7, <1>8, <1>9, <1>10, <1>11, <1>12, <1>13, <1>14, <1>15, <1>16, <1>17, <1>18, <1>19
       DEF Codes!Next, Codes!Otp, Codes!Onboarding, Codes!Fallback, CodesAside

\* Requests that are done stay done, and a step ends one more at most.
LEMMA CodesEnded ==
    ASSUME Codes!ConstantsOK, Codes!IInv, Codes!Next
    PROVE  Codes!FailuresCounted'
  <1> DEFINE n == Codes!Cardinality(Codes!Ended)
             m == Codes!Cardinality(Codes!Ended')
  <1> USE DEF Codes!ConstantsOK, Codes!IInv
  <1>1. Codes!Ended \in SUBSET PhoneRequests /\ Codes!Ended' \in SUBSET PhoneRequests
    BY DEF Codes!Ended
  <1>2. n \in Nat /\ m \in Nat
    BY <1>1, CodesCounting
  <1>3. Codes!Ended \subseteq Codes!Ended'
    <2> USE DEF Codes!Goto, Codes!Ended, Codes!TypeOK
    <2>1. ASSUME NEW r \in PhoneRequests, Codes!Otp(r) PROVE Codes!Ended \subseteq Codes!Ended'
      BY <2>1 DEF Codes!Otp, Codes!OtpCooldown, Codes!rateLimitAllows,
           Codes!RateWindow, Codes!OtpIssue, Codes!OtpCool, Codes!OtpRead,
           Codes!OtpMatch, Codes!OtpMismatch
    <2>2. ASSUME NEW r \in PhoneRequests, Codes!Onboarding(r)
          PROVE  Codes!Ended \subseteq Codes!Ended'
      BY <2>2 DEF Codes!Onboarding, Codes!EnrolRead, Codes!EnrolWrite,
           Codes!EnrolToken, Codes!TakeToken, Codes!Activate, Codes!OpenSession
    <2>3. ASSUME NEW r \in PhoneRequests, Codes!Fallback(r)
          PROVE  Codes!Ended \subseteq Codes!Ended'
      BY <2>3 DEF Codes!Fallback, Codes!PinRead, Codes!PinRight, Codes!PinWrong,
           Codes!LoginCommit
    <2>4. CASE CodesAside
      BY <2>4 DEF CodesAside, Codes!Fail, Codes!Expire, Codes!TokenEnds,
           Codes!CooldownEnds, Codes!LockEnds
    <2>5. QED
      BY <2>1, <2>2, <2>3, <2>4 DEF Codes!Next, CodesAside
  <1>4. n <= m
    BY <1>1, <1>3, CodesCounting
  <1>5. ASSUME NEW r \in PhoneRequests, Codes!PinWrong(r) PROVE n + 1 <= m
    <2>1. r \notin Codes!Ended /\ r \in Codes!Ended'
      BY <1>5 DEF Codes!PinWrong, Codes!Goto, Codes!Ended, Codes!TypeOK
    <2>2. Codes!Ended \cup {r} \in SUBSET Codes!Ended'
      BY <1>3, <2>1
    <2>3. Codes!Cardinality(Codes!Ended \cup {r}) = n + 1
      BY <1>1, <2>1, CodesCounting
    <2>4. QED
      BY <1>1, <2>2, <2>3, CodesCounting
  <1> USE DEF Codes!FailuresCounted, Codes!TypeOK, Codes!User
  <1>6. \A r \in PhoneRequests : seenUser[r].failures \in Nat
    BY CodesCounting
  <1>7. user.failures \in Nat
    BY CodesCounting
  <1> HIDE DEF n, m
  <1>8. user.failures <= m /\ \A r \in PhoneRequests : seenUser[r].failures <= m
    BY <1>2, <1>4, <1>6, <1>7 DEF n
  <1>9. user'.failures <= m
    <2> DEFINE Few == user'.failures <= m
    <2>1. ASSUME NEW r \in PhoneRequests, Codes!PinWrong(r) PROVE Few
      <3>1. user'.failures = seenUser[r].failures + 1
        BY <2>1 DEF Codes!PinWrong
      <3>2. QED
        BY <1>2, <1>5, <1>6, <2>1, <3>1 DEF n
    <2>2. CASE user'.failures \in {0, user.failures}
      BY <1>2, <1>8, <2>2
    <2>3. ASSUME NEW r \in PhoneRequests, Codes!Otp(r) \/ Codes!Onboarding(r)
          PROVE  user'.failures \in {0, user.failures}
      BY <2>3 DEF Codes!redis, Codes!locals, Codes!NewUser, Codes!Otp, Codes!OtpCooldown, Codes!rateLimitAllows,
           Codes!RateWindow, Codes!OtpIssue, Codes!OtpCool, Codes!OtpRead,
           Codes!OtpMatch, Codes!OtpMismatch, Codes!Onboarding, Codes!EnrolRead, Codes!EnrolWrite,
           Codes!EnrolToken, Codes!TakeToken, Codes!Activate, Codes!OpenSession
    <2>4. ASSUME NEW r \in PhoneRequests,
                 Codes!PinRead(r) \/ Codes!PinRight(r) \/ Codes!LoginCommit(r)
          PROVE  user'.failures \in {0, user.failures}
      BY <2>4 DEF Codes!redis, Codes!locals, Codes!PinRead, Codes!PinRight,
           Codes!LoginCommit
    <2>5. CodesAside => user'.failures \in {0, user.failures}
      BY DEF Codes!redis, Codes!locals, CodesAside, Codes!Fail, Codes!Expire, Codes!TokenEnds,
           Codes!CooldownEnds, Codes!LockEnds
    <2>6. QED
      BY <2>1, <2>2, <2>3, <2>4, <2>5 DEF Codes!Next, Codes!Fallback, CodesAside
  <1>10. \A r \in PhoneRequests : seenUser'[r].failures <= m
    <2>1. \A r \in PhoneRequests : seenUser'[r] \in {seenUser[r], user}
      <3> USE DEF Codes!redis, Codes!locals
      <3>1. ASSUME NEW r \in PhoneRequests, Codes!Otp(r) PROVE seenUser' = seenUser
        BY <3>1 DEF Codes!Otp, Codes!OtpCooldown, Codes!rateLimitAllows,
           Codes!RateWindow, Codes!OtpIssue, Codes!OtpCool, Codes!OtpRead,
           Codes!OtpMatch, Codes!OtpMismatch
      <3>2. ASSUME NEW r \in PhoneRequests, Codes!Onboarding(r)
            PROVE  seenUser' \in {seenUser, [seenUser EXCEPT ![r] = user]}
        BY <3>2 DEF Codes!Onboarding, Codes!EnrolRead, Codes!EnrolWrite,
           Codes!EnrolToken, Codes!TakeToken, Codes!Activate, Codes!OpenSession
      <3>3. ASSUME NEW r \in PhoneRequests, Codes!Fallback(r)
            PROVE  seenUser' \in {seenUser, [seenUser EXCEPT ![r] = user]}
        BY <3>3 DEF Codes!Fallback, Codes!PinRead, Codes!PinRight, Codes!PinWrong,
           Codes!LoginCommit
      <3>4. CodesAside => seenUser' = seenUser
        BY DEF CodesAside, Codes!Fail, Codes!Expire, Codes!TokenEnds,
           Codes!CooldownEnds, Codes!LockEnds
      <3>5. QED
        BY <3>1, <3>2, <3>3, <3>4 DEF Codes!Next, CodesAside
    <2>2. QED
      BY <1>8, <2>1
  <1>11. QED
    BY <1>9, <1>10 DEF m

\* Only a request counted within the limit is let through, and a code or a
\* token is never the name of the request that picks it.
LEMMA CodesAdmitted ==
    ASSUME Codes!ConstantsOK, Codes!IInv, Codes!Next
    PROVE  Codes!AdmittedCounted'
  <1> DEFINE A == Codes!Admitted
             B == Codes!Admitted'
             n == Codes!Cardinality(A)
             Kept == B \subseteq A /\ rate'.count = rate.count
  <1> USE DEF Codes!ConstantsOK, Codes!IInv, Codes!TypeOK
  <1>1. A \in SUBSET PhoneRequests /\ B \in SUBSET PhoneRequests
    BY DEF Codes!Admitted
  <1>2. n \in Nat /\ Codes!Cardinality(B) \in Nat
    BY <1>1, CodesCounting
  <1>3. n <= rate.count /\ n <= OtpRequestLimit /\ rate.count \in Nat
    BY DEF Codes!AdmittedCounted
  <1>4. CASE Kept
    <2>1. Codes!Cardinality(B) <= n
      BY <1>1, <1>4, CodesCounting
    <2>2. QED
      BY <1>2, <1>3, <1>4, <2>1 DEF Codes!AdmittedCounted
  <1>5. ASSUME NEW r \in PhoneRequests, Codes!rateLimitAllows(r)
        PROVE  Codes!AdmittedCounted'
    <2>1. rate'.count = rate.count + 1
      BY <1>5 DEF Codes!rateLimitAllows
    <2>2. B \subseteq A \cup {r}
      BY <1>5 DEF Codes!rateLimitAllows, Codes!Admitted, Codes!Goto, Codes!locals
    <2>3. B \subseteq A \/ rate.count + 1 <= OtpRequestLimit
      BY <1>5 DEF Codes!rateLimitAllows, Codes!WithinLimit, Codes!Admitted,
           Codes!Goto, Codes!locals
    <2>4. A \cup {r} \in SUBSET PhoneRequests /\ (r \in A => A \cup {r} = A)
      BY <1>1
    <2>5. Codes!Cardinality(A \cup {r}) <= n + 1
      BY <1>1, <1>2, <2>4, CodesCounting
    <2>6. Codes!Cardinality(B) <= n + 1
      BY <1>1, <1>2, <2>2, <2>4, <2>5, CodesCounting
    <2>7. B \subseteq A => Codes!Cardinality(B) <= n
      BY <1>1, CodesCounting
    <2>8. QED
      <3> HIDE DEF A, B, n
      <3>1. Codes!Cardinality(B) <= rate'.count
        BY <1>2, <1>3, <2>1, <2>6
      <3>2. Codes!Cardinality(B) <= OtpRequestLimit
        BY <1>2, <1>3, <2>3, <2>6, <2>7
      <3>3. QED
        BY <3>1, <3>2 DEF Codes!AdmittedCounted, B
  <1> USE DEF Codes!Goto, Codes!redis, Codes!locals, Codes!Admitted, Codes!Placed,
        Codes!Drawn, Codes!TokensDrawn, Codes!OtpKinds, Codes!CodeKinds
  <1>6. ASSUME NEW r \in PhoneRequests, Codes!Otp(r), ~Codes!rateLimitAllows(r)
        PROVE  Kept
    <2>1. CASE Codes!OtpRead(r)
      BY <2>1 DEF Codes!OtpRead
    <2>2. CASE Codes!OtpIssue(r)
      BY <2>2 DEF Codes!OtpIssue
    <2>3. QED
      BY <1>6, <2>1, <2>2 DEF Codes!Otp, Codes!OtpCooldown, Codes!RateWindow,
           Codes!OtpCool, Codes!OtpMatch, Codes!OtpMismatch
  <1>7. ASSUME NEW r \in PhoneRequests, Codes!Onboarding(r) PROVE Kept
    BY <1>7 DEF Codes!Onboarding, Codes!EnrolRead, Codes!EnrolWrite,
        Codes!EnrolToken, Codes!TakeToken, Codes!Activate, Codes!OpenSession
  <1>8. ASSUME NEW r \in PhoneRequests, Codes!Fallback(r) PROVE Kept
    BY <1>8 DEF Codes!Fallback, Codes!PinRead, Codes!PinRight, Codes!PinWrong,
        Codes!LoginCommit
  <1>9. CodesAside => Kept
    BY DEF CodesAside, Codes!Fail, Codes!Expire, Codes!TokenEnds,
        Codes!CooldownEnds, Codes!LockEnds
  <1>10. QED
    <2> HIDE DEF Kept
    <2>1. QED
      BY <1>4, <1>5, <1>6, <1>7, <1>8, <1>9 DEF Codes!Next, CodesAside

LEMMA CodesInit ==
    ASSUME Codes!ConstantsOK, Codes!Init
    PROVE  Codes!IInv
  <1> USE DEF Codes!ConstantsOK, Codes!Init
  <1>1. Codes!Cardinality(PhoneRequests) \in Nat /\ 0 \in 0 .. Codes!Cardinality(PhoneRequests)
    BY CodesCounting
  <1>2. Codes!NewUser \in Codes!User
    BY <1>1 DEF Codes!NewUser, Codes!User
  <1>3. \A r \in PhoneRequests : pc[r] \in {"otp", "verify", "token", "pin"}
    BY DEF Codes!Start
  <1>4. Codes!TypeOK
    BY <1>2, <1>3 DEF Codes!TypeOK, Codes!Purposes
  <1>5. Codes!Placed
    BY DEF Codes!Placed, Codes!Start, Codes!Kinds, Codes!OtpKinds, Codes!CodeKinds,
        Codes!PinKinds
  <1>6. Codes!Drawn /\ Codes!TokensDrawn /\ Codes!TokenSpentOnce
    BY <1>3 DEF Codes!Drawn, Codes!TokensDrawn, Codes!TokenSpentOnce
  <1>7. Codes!PinFirst
    BY DEF Codes!PinFirst, Codes!NewUser, Codes!Start, Codes!Kinds, Codes!PinKinds
  <1>8. Codes!FailuresCounted
    <2>1. Codes!Ended \in SUBSET PhoneRequests
      BY DEF Codes!Ended
    <2>2. Codes!Cardinality(Codes!Ended) \in Nat
      BY <2>1, CodesCounting
    <2>3. QED
      BY <2>2 DEF Codes!FailuresCounted, Codes!NewUser
  <1>9. Codes!AdmittedCounted
    <2>1. Codes!Admitted = {}
      BY <1>3 DEF Codes!Admitted
    <2>2. QED
      BY <2>1, CodesCounting DEF Codes!AdmittedCounted
  <1>10. QED
    BY <1>4, <1>5, <1>6, <1>7, <1>8, <1>9 DEF Codes!IInv

LEMMA CodesNext ==
    ASSUME Codes!ConstantsOK, Codes!IInv, [Codes!Next]_Codes!vars
    PROVE  Codes!IInv'
  <1>1. CASE Codes!Next
    <2>1. Codes!FailuresCounted'
      BY <1>1, CodesEnded
    <2>2. Codes!TypeOK'
      BY <1>1, <2>1, CodesTyped
    <2>3. QED
      BY <1>1, <2>1, <2>2, CodesPlaced, CodesDrawn, CodesTokensDrawn,
         CodesPinFirst, CodesAdmitted, CodesSpentOnce DEF Codes!IInv
  <1>2. CASE UNCHANGED Codes!vars
    BY <1>2 DEF Codes!vars, Codes!IInv, Codes!TypeOK, Codes!Placed, Codes!Drawn,
        Codes!TokensDrawn, Codes!PinFirst, Codes!FailuresCounted, Codes!Ended,
        Codes!AdmittedCounted, Codes!Admitted, Codes!TokenSpentOnce
  <1>3. QED
    BY <1>1, <1>2

\* The invariant says what the properties of the run say of a state.
LEMMA CodesSafe ==
    ASSUME Codes!ConstantsOK, Codes!IInv
    PROVE  /\ Codes!TypeOK /\ Codes!UsableHasPin
           /\ Codes!TokenSpentOnce /\ Codes!IssuedWithinLimit
  <1> USE DEF Codes!IInv
  <1>1. Codes!UsableHasPin
    BY DEF Codes!UsableHasPin, Codes!PinFirst, Codes!TypeOK, Codes!User
  <1>2. Codes!IssuedWithinLimit
    <2> DEFINE I == {r \in PhoneRequests : pick[r] = r}
    <2>1. I \subseteq Codes!Admitted /\ I \in SUBSET PhoneRequests
            /\ Codes!Admitted \in SUBSET PhoneRequests
      BY DEF Codes!Admitted
    <2>2. Codes!Cardinality(I) <= Codes!Cardinality(Codes!Admitted)
            /\ Codes!Cardinality(I) \in Nat
            /\ Codes!Cardinality(Codes!Admitted) \in Nat
      BY <2>1, CodesCounting
    <2>3. Codes!Cardinality(I) <= OtpRequestLimit
      <3> HIDE DEF I
      <3>1. QED
        BY <2>2 DEF Codes!AdmittedCounted, Codes!ConstantsOK
    <2>4. QED
      BY <2>3 DEF Codes!IssuedWithinLimit
  <1>3. QED
    BY <1>1, <1>2

\* createPin activates a row that is PENDING, which has no PIN yet.
LEMMA CodesPinStep ==
    ASSUME Codes!ConstantsOK, Codes!IInv, Codes!Next
    PROVE  Codes!PinStep
  <1> USE DEF Codes!IInv, Codes!TypeOK, Codes!User, Codes!PinFirst, Codes!PinStep
  <1>1. ASSUME NEW r \in PhoneRequests, Codes!Otp(r) PROVE Codes!PinStep
    BY <1>1 DEF Codes!Otp, Codes!OtpCooldown, Codes!rateLimitAllows,
        Codes!RateWindow, Codes!OtpIssue, Codes!OtpCool, Codes!OtpRead,
        Codes!OtpMatch, Codes!OtpMismatch
  <1>2. ASSUME NEW r \in PhoneRequests, Codes!Onboarding(r) PROVE Codes!PinStep
    BY <1>2 DEF Codes!Onboarding, Codes!EnrolRead, Codes!EnrolWrite,
        Codes!EnrolToken, Codes!TakeToken, Codes!Activate, Codes!OpenSession
  <1>3. ASSUME NEW r \in PhoneRequests, Codes!Fallback(r) PROVE Codes!PinStep
    <2>1. CASE Codes!PinRead(r) \/ Codes!PinRight(r)
      BY <2>1 DEF Codes!PinRead, Codes!PinRight
    <2>2. CASE Codes!PinWrong(r)
      BY <2>2 DEF Codes!PinWrong
    <2>3. CASE Codes!LoginCommit(r)
      BY <2>3 DEF Codes!LoginCommit
    <2>4. QED
      BY <1>3, <2>1, <2>2, <2>3 DEF Codes!Fallback
  <1>4. CASE CodesAside
    BY <1>4 DEF CodesAside, Codes!Fail, Codes!Expire, Codes!TokenEnds,
        Codes!CooldownEnds, Codes!LockEnds
  <1>5. QED
    BY <1>1, <1>2, <1>3, <1>4 DEF Codes!Next, CodesAside

-----------------------------------------------------------------------------
(* Passkeys *)

LEMMA KeysFinite == \A S : Keys!IsFiniteSet(S) <=> IsFiniteSet(S)
  BY DEF Keys!IsFiniteSet, IsFiniteSet

LEMMA KeysSameCount == \A S : Keys!Cardinality(S) = Cardinality(S)
  BY DEF Keys!Cardinality, Cardinality

LEMMA KeysCounting ==
    ASSUME Keys!ConstantsOK
    PROVE  /\ Keys!MaxCounter \in Nat
           /\ \A S \in SUBSET Challenges :
                  Keys!Cardinality(S) \in Nat /\ Keys!Cardinality(S) <= Keys!MaxCounter
           /\ \A S \in SUBSET Challenges : \A x \in Challenges \ S :
                  Keys!Cardinality(S \cup {x}) = Keys!Cardinality(S) + 1
  BY KeysFinite, KeysSameCount, Counting DEF Keys!ConstantsOK, Keys!MaxCounter

\* The device signs a challenge that was not signed before.
LEMMA KeysSign ==
    ASSUME Keys!ConstantsOK, Keys!TypeOK, Keys!SignaturesCounted,
           NEW c \in Challenges, Keys!Sign(c)
    PROVE  /\ device' \in 0 .. Keys!MaxCounter
           /\ signed'[c] = device' /\ device' # Keys!NotSigned
           /\ Keys!SignaturesCounted'
  <1> DEFINE n == Keys!Cardinality(Keys!Signed)
  <1> USE DEF Keys!TypeOK
  <1>1. Keys!Signed \in SUBSET Challenges /\ c \in Challenges \ Keys!Signed
    BY DEF Keys!Sign, Keys!Signed
  <1>2. Keys!Cardinality(Keys!Signed \cup {c}) = n + 1
    BY <1>1, KeysCounting
  <1>3. Keys!Signed \cup {c} \in SUBSET Challenges
    BY <1>1
  <1>4. n \in Nat /\ n + 1 <= Keys!MaxCounter /\ Keys!MaxCounter \in Nat
    BY <1>1, <1>2, <1>3, KeysCounting
  <1>5. device <= n
    BY DEF Keys!SignaturesCounted
  <1>6. device' \in {device, device + 1} /\ device \in Nat
    BY KeysCounting DEF Keys!Sign
  <1> HIDE DEF n
  <1>7. device' \in 0 .. Keys!MaxCounter /\ device' <= n + 1
    BY <1>4, <1>5, <1>6
  <1>8. signed'[c] = device' /\ device' # Keys!NotSigned
    BY <1>4, <1>7 DEF Keys!Sign, Keys!NotSigned
  <1>9. Keys!Signed' = Keys!Signed \cup {c}
    BY <1>8 DEF Keys!Sign, Keys!Signed, Keys!NotSigned, Keys!MaxCounter
  <1>10. QED
    BY <1>2, <1>7, <1>8, <1>9 DEF Keys!SignaturesCounted, n

LEMMA KeysTyped ==
    ASSUME Keys!ConstantsOK, Keys!IInv, Keys!Next
    PROVE  Keys!TypeOK'
  <1> USE DEF Keys!IInv, Keys!TypeOK, Keys!ConstantsOK, Keys!Goto
  <1>1. Keys!MaxCounter \in Nat
    BY KeysCounting
  <1>2. ASSUME NEW c \in Challenges, Keys!Sign(c) PROVE Keys!TypeOK'
    <2>1. device' \in 0 .. Keys!MaxCounter
      BY <1>2, KeysSign
    <2>2. device' \in 0 .. Keys!NotSigned
      BY <1>1, <2>1 DEF Keys!NotSigned
    <2>3. QED
      BY <1>2, <2>1, <2>2 DEF Keys!Sign
  <1>3. ASSUME NEW c \in Challenges,
               Keys!registrationOptions(c) \/ Keys!authenticationOptions(c) \/ Keys!Expire(c)
        PROVE  Keys!TypeOK'
    BY <1>3 DEF Keys!registrationOptions, Keys!authenticationOptions, Keys!Expire,
        Keys!WithinRate
  <1>4. ASSUME NEW r \in PasskeyRequests, Keys!TakeChallenge(r) PROVE Keys!TypeOK'
    BY <1>4 DEF Keys!TakeChallenge, Keys!Taken
  <1>5. ASSUME NEW r \in PasskeyRequests, Keys!verifyRegistration(r) \/ Keys!StoreCounter(r)
        PROVE  Keys!TypeOK'
    BY <1>5 DEF Keys!verifyRegistration, Keys!StoreCounter, Keys!NotSigned, Keys!NoCredential
  <1>6. ASSUME NEW r \in PasskeyRequests,
               Keys!ReadCredential(r) \/ Keys!verifyAuthentication(r) \/ Keys!record(r)
                 \/ Keys!Answer(r) \/ Keys!Crash(r)
        PROVE  Keys!TypeOK'
    BY <1>6 DEF Keys!ReadCredential, Keys!verifyAuthentication, Keys!record,
        Keys!Recorded, Keys!Answer, Keys!Crash
  <1>7. QED
    BY <1>2, <1>3, <1>4, <1>5, <1>6 DEF Keys!Next

LEMMA KeysSignaturesCounted ==
    ASSUME Keys!ConstantsOK, Keys!IInv, Keys!Next
    PROVE  Keys!SignaturesCounted'
  <1> DEFINE Still == signed' = signed /\ device' = device
  <1> USE DEF Keys!IInv
  <1>1. CASE Still
    BY <1>1 DEF Keys!SignaturesCounted, Keys!Signed
  <1>2. ASSUME NEW c \in Challenges, Keys!Sign(c) PROVE Keys!SignaturesCounted'
    BY <1>2, KeysSign
  <1>3. ASSUME NEW c \in Challenges,
               Keys!registrationOptions(c) \/ Keys!authenticationOptions(c) \/ Keys!Expire(c)
        PROVE  Still
    BY <1>3 DEF Keys!registrationOptions, Keys!authenticationOptions, Keys!Expire
  <1>4. ASSUME NEW r \in PasskeyRequests,
               \/ Keys!TakeChallenge(r) \/ Keys!verifyRegistration(r)
               \/ Keys!ReadCredential(r) \/ Keys!verifyAuthentication(r)
               \/ Keys!StoreCounter(r) \/ Keys!record(r) \/ Keys!Answer(r) \/ Keys!Crash(r)
        PROVE  Still
    BY <1>4 DEF Keys!TakeChallenge, Keys!verifyRegistration, Keys!ReadCredential,
        Keys!verifyAuthentication, Keys!StoreCounter, Keys!record, Keys!Answer, Keys!Crash
  <1>5. QED
    BY <1>1, <1>2, <1>3, <1>4 DEF Keys!Next

\* A taken challenge was live, so no other request holds it.
LEMMA KeysTakenOnce ==
    ASSUME Keys!ConstantsOK, Keys!IInv, Keys!Next
    PROVE  Keys!TakenOnce'
  <1> USE DEF Keys!IInv, Keys!TypeOK, Keys!ConstantsOK, Keys!Goto, Keys!TakenOnce, Keys!Holds
  <1>1. ASSUME NEW c \in Challenges, Keys!Sign(c) PROVE Keys!TakenOnce'
    <2>1. signed'[c] # Keys!NotSigned
      BY <1>1, KeysSign
    <2>2. QED
      BY <1>1, <2>1 DEF Keys!Sign, Keys!NotSigned, Keys!MaxCounter
  <1>2. ASSUME NEW c \in Challenges,
               Keys!registrationOptions(c) \/ Keys!authenticationOptions(c) \/ Keys!Expire(c)
        PROVE  Keys!TakenOnce'
    BY <1>2 DEF Keys!registrationOptions, Keys!authenticationOptions, Keys!Expire,
        Keys!NotSigned, Keys!MaxCounter
  <1>3. ASSUME NEW r \in PasskeyRequests, Keys!TakeChallenge(r) PROVE Keys!TakenOnce'
    BY <1>3 DEF Keys!TakeChallenge, Keys!Taken, Keys!NotSigned, Keys!MaxCounter
  <1>4. ASSUME NEW r \in PasskeyRequests,
               \/ Keys!verifyRegistration(r)
               \/ Keys!ReadCredential(r) \/ Keys!verifyAuthentication(r)
               \/ Keys!StoreCounter(r) \/ Keys!record(r) \/ Keys!Answer(r) \/ Keys!Crash(r)
        PROVE  Keys!TakenOnce'
    BY <1>4 DEF Keys!verifyRegistration, Keys!ReadCredential, Keys!NotSigned, Keys!MaxCounter,
        Keys!verifyAuthentication, Keys!StoreCounter, Keys!record, Keys!Answer, Keys!Crash
  <1>5. QED
    BY <1>1, <1>2, <1>3, <1>4 DEF Keys!Next

LEMMA KeysCounterChecked ==
    ASSUME Keys!ConstantsOK, Keys!IInv, Keys!Next
    PROVE  Keys!CounterChecked'
  <1> USE DEF Keys!IInv, Keys!TypeOK, Keys!ConstantsOK, Keys!Goto, Keys!CounterChecked,
        Keys!CounterAccepted
  <1>1. ASSUME NEW c \in Challenges, Keys!Sign(c) PROVE Keys!CounterChecked'
    BY <1>1 DEF Keys!Sign, Keys!TakenOnce, Keys!Holds
  <1>2. ASSUME NEW c \in Challenges,
               Keys!registrationOptions(c) \/ Keys!authenticationOptions(c) \/ Keys!Expire(c)
        PROVE  Keys!CounterChecked'
    BY <1>2 DEF Keys!registrationOptions, Keys!authenticationOptions, Keys!Expire
  <1>3. ASSUME NEW r \in PasskeyRequests,
               \/ Keys!TakeChallenge(r) \/ Keys!verifyRegistration(r)
               \/ Keys!ReadCredential(r) \/ Keys!verifyAuthentication(r)
               \/ Keys!StoreCounter(r) \/ Keys!record(r) \/ Keys!Answer(r) \/ Keys!Crash(r)
        PROVE  Keys!CounterChecked'
    BY <1>3 DEF Keys!TakeChallenge, Keys!verifyRegistration, Keys!ReadCredential,
        Keys!verifyAuthentication, Keys!StoreCounter, Keys!record, Keys!Answer, Keys!Crash
  <1>4. QED
    BY <1>1, <1>2, <1>3 DEF Keys!Next

LEMMA KeysAuditFirst ==
    ASSUME Keys!ConstantsOK, Keys!IInv, Keys!Next
    PROVE  Keys!AuditFirst'
  <1> USE DEF Keys!IInv, Keys!TypeOK, Keys!ConstantsOK, Keys!Goto, Keys!AuditFirst
  <1>1. ASSUME NEW c \in Challenges,
               \/ Keys!registrationOptions(c) \/ Keys!authenticationOptions(c)
               \/ Keys!Expire(c) \/ Keys!Sign(c)
        PROVE  Keys!AuditFirst'
    BY <1>1 DEF Keys!registrationOptions, Keys!authenticationOptions, Keys!Expire, Keys!Sign
  <1>2. ASSUME NEW r \in PasskeyRequests,
               \/ Keys!TakeChallenge(r) \/ Keys!verifyRegistration(r)
               \/ Keys!ReadCredential(r) \/ Keys!verifyAuthentication(r)
               \/ Keys!StoreCounter(r) \/ Keys!Crash(r)
        PROVE  Keys!AuditFirst'
    BY <1>2 DEF Keys!TakeChallenge, Keys!verifyRegistration, Keys!ReadCredential,
        Keys!verifyAuthentication, Keys!StoreCounter, Keys!Crash
  <1>3. ASSUME NEW r \in PasskeyRequests, Keys!record(r) PROVE Keys!AuditFirst'
    BY <1>3 DEF Keys!record, Keys!Recorded
  <1>4. ASSUME NEW r \in PasskeyRequests, Keys!Answer(r) PROVE Keys!AuditFirst'
    BY <1>4 DEF Keys!Answer
  <1>5. QED
    BY <1>1, <1>2, <1>3, <1>4 DEF Keys!Next

LEMMA KeysInit ==
    ASSUME Keys!ConstantsOK, Keys!Init
    PROVE  Keys!IInv
  <1> USE DEF Keys!ConstantsOK, Keys!Init
  <1>1. Keys!MaxCounter \in Nat
    BY KeysCounting
  <1>2. Keys!TypeOK
    BY <1>1 DEF Keys!TypeOK, Keys!NotSigned, Keys!NoCredential
  <1>3. Keys!SignaturesCounted
    <2>1. Keys!Signed \in SUBSET Challenges
      BY DEF Keys!Signed
    <2>2. Keys!Cardinality(Keys!Signed) \in Nat
      BY <2>1, KeysCounting
    <2>3. QED
      BY <2>2 DEF Keys!SignaturesCounted
  <1>4. QED
    BY <1>2, <1>3 DEF Keys!IInv, Keys!TakenOnce, Keys!Holds, Keys!CounterChecked,
        Keys!AuditFirst

LEMMA KeysNext ==
    ASSUME Keys!ConstantsOK, Keys!IInv, [Keys!Next]_Keys!vars
    PROVE  Keys!IInv'
  <1>1. CASE Keys!Next
    BY <1>1, KeysTyped, KeysSignaturesCounted, KeysTakenOnce, KeysCounterChecked,
       KeysAuditFirst DEF Keys!IInv
  <1>2. CASE UNCHANGED Keys!vars
    BY <1>2 DEF Keys!vars, Keys!IInv, Keys!TypeOK, Keys!SignaturesCounted, Keys!Signed,
        Keys!NotSigned, Keys!MaxCounter, Keys!TakenOnce, Keys!Holds,
        Keys!CounterChecked, Keys!CounterAccepted, Keys!AuditFirst, Keys!NoCredential
  <1>3. QED
    BY <1>1, <1>2

LEMMA KeysSafe ==
    ASSUME Keys!ConstantsOK, Keys!IInv
    PROVE  Keys!TypeOK /\ Keys!AssertionSpentOnce /\ Keys!SessionsAudited
  BY DEF Keys!IInv, Keys!TypeOK, Keys!AssertionSpentOnce, Keys!SessionsAudited,
      Keys!TakenOnce, Keys!Holds, Keys!AuditFirst

\* Only the write after a comparison touches a counter that is stored, and
\* what passed the comparison is not below what was read.
LEMMA KeysCounterStep ==
    ASSUME Keys!ConstantsOK, Keys!IInv, Keys!Next
    PROVE  Keys!CounterStep
  <1> USE DEF Keys!IInv, Keys!TypeOK, Keys!ConstantsOK
  <1>1. CASE credential' = credential
    BY <1>1, KeysCounting DEF Keys!CounterStep, Keys!NoCredential
  <1>2. ASSUME NEW c \in Challenges,
               \/ Keys!registrationOptions(c) \/ Keys!authenticationOptions(c)
               \/ Keys!Expire(c) \/ Keys!Sign(c)
        PROVE  credential' = credential
    BY <1>2 DEF Keys!registrationOptions, Keys!authenticationOptions, Keys!Expire, Keys!Sign
  <1>3. ASSUME NEW r \in PasskeyRequests,
               \/ Keys!TakeChallenge(r) \/ Keys!ReadCredential(r)
               \/ Keys!verifyAuthentication(r) \/ Keys!record(r)
               \/ Keys!Answer(r) \/ Keys!Crash(r)
        PROVE  credential' = credential
    BY <1>3 DEF Keys!TakeChallenge, Keys!ReadCredential, Keys!verifyAuthentication,
        Keys!record, Keys!Answer, Keys!Crash
  <1>4. ASSUME NEW r \in PasskeyRequests, Keys!verifyRegistration(r)
        PROVE  Keys!CounterStep
    <2>1. credential = Keys!NoCredential \/ credential' = credential
      BY <1>4 DEF Keys!verifyRegistration
    <2>2. QED
      BY <1>1, <2>1 DEF Keys!CounterStep
  <1>5. ASSUME NEW r \in PasskeyRequests, Keys!StoreCounter(r)
        PROVE  Keys!CounterStep
    <2>1. pc[r] = "verified" /\ pc'[r] = "stored"
            /\ credential' = signed[ChallengeOf[r]]
      BY <1>5 DEF Keys!StoreCounter, Keys!Goto
    <2>2. seen[r] = credential => ~(credential' < credential)
      <3>1. Keys!CounterAccepted(seen[r], credential')
        BY <2>1 DEF Keys!CounterChecked
      <3>2. credential' \in Nat /\ credential \in Nat
        BY <2>1, KeysCounting DEF Keys!NotSigned, Keys!NoCredential
      <3>3. QED
        BY <3>1, <3>2 DEF Keys!CounterAccepted
    <2>3. QED
      BY <2>1, <2>2 DEF Keys!CounterStep
  <1>6. QED
    BY <1>1, <1>2, <1>3, <1>4, <1>5 DEF Keys!Next

-----------------------------------------------------------------------------
(* Sessions *)

LEMMA StoreFinite == \A S : Store!IsFiniteSet(S) <=> IsFiniteSet(S)
  BY DEF Store!IsFiniteSet, IsFiniteSet

LEMMA StoreSameCount == \A S : Store!Cardinality(S) = Cardinality(S)
  BY DEF Store!Cardinality, Cardinality

LEMMA StoreCounting ==
    ASSUME Store!ConstantsOK
    PROVE  /\ Store!Cardinality({}) = 0
           /\ \A S \in SUBSET Store!Requests : Store!Cardinality(S) \in Nat
           /\ \A S, T \in SUBSET Store!Requests :
                  S \subseteq T => Store!Cardinality(S) <= Store!Cardinality(T)
           /\ \A S \in SUBSET Store!Requests : \A x \in Store!Requests \ S :
                  Store!Cardinality(S \cup {x}) = Store!Cardinality(S) + 1
           /\ \A S, T \in SUBSET Store!Requests :
                  Store!Cardinality(S \cup T) <= Store!Cardinality(S) + Store!Cardinality(T)
  BY StoreFinite, StoreSameCount, Counting DEF Store!ConstantsOK, Store!Requests

LEMMA StoreOne ==
    ASSUME Store!ConstantsOK, NEW r \in Store!Requests
    PROVE  Store!Cardinality({r}) = 1
  <1>1. {} \in SUBSET Store!Requests /\ r \in Store!Requests \ {} /\ {} \cup {r} = {r}
    OBVIOUS
  <1>2. Store!Cardinality({} \cup {r}) = Store!Cardinality({}) + 1
    BY <1>1, StoreCounting
  <1>3. QED
    BY <1>1, <1>2, StoreCounting

LEMMA StoreExtremes ==
    ASSUME NEW a \in Int, NEW b \in Int
    PROVE  /\ Store!Max({a, b}) \in {a, b} /\ Store!Max({a, b}) >= a /\ Store!Max({a, b}) >= b
           /\ Store!Min({a, b}) \in {a, b} /\ Store!Min({a, b}) <= a /\ Store!Min({a, b}) <= b
  <1> DEFINE S == {a, b}
             Top(x) == \A y \in S : x >= y
             Bottom(x) == \A y \in S : x <= y
  <1>1. (\E x \in S : Top(x)) /\ (\E x \in S : Bottom(x))
    <2>1. CASE a <= b
      BY <2>1
    <2>2. CASE b <= a
      BY <2>2
    <2>3. QED
      BY <2>1, <2>2
  <1>2. Store!Max(S) \in S /\ Top(Store!Max(S))
    BY <1>1, Zenon DEF Store!Max
  <1>3. Store!Min(S) \in S /\ Bottom(Store!Min(S))
    BY <1>1, Zenon DEF Store!Min
  <1>4. QED
    BY <1>2, <1>3

\* What get writes is at least a tick, and within both limits.
LEMMA StoreTouchTtl ==
    ASSUME Store!ConstantsOK, NEW t \in Nat
    PROVE  /\ Store!TouchTtl(t) \in Nat
           /\ Store!TouchTtl(t) <= IdleTtl
           /\ t + Store!TouchTtl(t) <= Store!Max({AbsoluteTtl, t + 1})
  <1> DEFINE m == Store!Max({1, AbsoluteTtl - t})
             k == Store!Min({IdleTtl, m})
             e == Store!Max({AbsoluteTtl, t + 1})
  <1> USE DEF Store!ConstantsOK
  <1>1. m \in Int /\ m >= 1 /\ (m = 1 \/ m = AbsoluteTtl - t)
    <2> DEFINE d == AbsoluteTtl - t
    <2>1. d \in Int
      OBVIOUS
    <2> HIDE DEF d
    <2>2. Store!Max({1, d}) \in {1, d} /\ Store!Max({1, d}) >= 1
      BY <2>1, StoreExtremes
    <2>3. QED
      BY <2>1, <2>2 DEF d
  <1>2. k \in {IdleTtl, m} /\ k <= IdleTtl /\ k <= m
    <2> HIDE DEF m
    <2>1. QED
      BY <1>1, StoreExtremes
  <1>3. e \in Int /\ e >= AbsoluteTtl /\ e >= t + 1
    BY StoreExtremes
  <1>4. Store!TouchTtl(t) = k
    BY DEF Store!TouchTtl
  <1>5. QED
    <2> HIDE DEF m, k, e
    <2>1. k \in Nat /\ k <= IdleTtl /\ t + k <= e
      BY <1>1, <1>2, <1>3
    <2>2. QED
      BY <1>4, <2>1 DEF e

LEMMA StoreAbsolute ==
    ASSUME Store!ConstantsOK, NEW t \in Nat
    PROVE  Store!Max({AbsoluteTtl, t + 1}) \in Int /\ AbsoluteTtl <= Store!Max({AbsoluteTtl, t + 1})
             /\ 0 <= Store!Max({AbsoluteTtl, t + 1})
  <1> DEFINE e == Store!Max({AbsoluteTtl, t + 1})
  <1> USE DEF Store!ConstantsOK
  <1>1. e \in {AbsoluteTtl, t + 1} /\ e >= AbsoluteTtl
    BY StoreExtremes
  <1> HIDE DEF e
  <1>2. e \in Int /\ AbsoluteTtl <= e /\ 0 <= e
    BY <1>1
  <1>3. QED
    BY <1>2 DEF e

LEMMA StorePlaced ==
    ASSUME Store!ConstantsOK, Store!IInv, Store!Next
    PROVE  Store!Placed'
  <1> USE DEF Store!IInv, Store!TypeOK, Store!Placed, Store!Goto
  <1>1. ASSUME Store!Tick PROVE Store!Placed'
    BY <1>1 DEF Store!Tick
  <1>2. ASSUME NEW r \in Store!Requests, Store!Read(r) PROVE Store!Placed'
    BY <1>2 DEF Store!Read, Store!Use
  <1>3. ASSUME NEW r \in Store!Requests, Store!Count(r) \/ Store!Window(r) \/ Store!SetLock(r)
        PROVE  Store!Placed'
    BY <1>3 DEF Store!Count, Store!Window, Store!SetLock, Store!Counted, Store!Refuse
  <1>4. ASSUME NEW r \in Store!Requests,
               \/ Store!Touch(r) \/ Store!Delete(r) \/ Store!CheckLock(r)
               \/ Store!CheckPin(r) \/ Store!Reset(r) \/ Store!Fail(r)
        PROVE  Store!Placed'
    BY <1>4 DEF Store!Touch, Store!Delete, Store!CheckLock, Store!CheckPin,
        Store!Reset, Store!Fail
  <1>5. QED
    BY <1>1, <1>2, <1>3, <1>4 DEF Store!Next, Store!Handle

\* Every count is somebody's, who has counted nothing before and does not
\* count again.
LEMMA StoreCountedOnce ==
    ASSUME Store!ConstantsOK, Store!IInv, Store!Next
    PROVE  Store!CountedOnce'
  <1> DEFINE n == Store!Cardinality(Store!Tried)
             m == Store!Cardinality(Store!Tried')
  <1> USE DEF Store!IInv, Store!TypeOK, Store!Goto
  <1>1. Store!Tried \in SUBSET Store!Requests /\ Store!Tried' \in SUBSET Store!Requests
    BY DEF Store!Tried
  <1>2. n \in Nat /\ m \in Nat /\ Store!Cardinality(Store!Requests) \in Nat
    BY <1>1, StoreCounting
  <1>3. Store!Tried \subseteq Store!Tried'
    <2> USE DEF Store!Tried
    <2>1. ASSUME NEW r \in Store!Requests, Store!Read(r) \/ Store!Touch(r) \/ Store!Delete(r)
          PROVE  Store!Tried \subseteq Store!Tried'
      BY <2>1 DEF Store!Read, Store!Use, Store!Touch, Store!Delete
    <2>2. ASSUME NEW r \in Store!Requests, Store!Count(r) \/ Store!Window(r) \/ Store!SetLock(r)
          PROVE  Store!Tried \subseteq Store!Tried'
      BY <2>2 DEF Store!Count, Store!Window, Store!SetLock, Store!Counted, Store!Refuse
    <2>3. ASSUME NEW r \in Store!Requests,
                 Store!CheckLock(r) \/ Store!CheckPin(r) \/ Store!Reset(r) \/ Store!Fail(r)
          PROVE  Store!Tried \subseteq Store!Tried'
      BY <2>3 DEF Store!CheckLock, Store!CheckPin, Store!Reset, Store!Fail
    <2>4. QED
      BY <2>1, <2>2, <2>3 DEF Store!Next, Store!Handle, Store!Tick
  <1>4. n <= m
    BY <1>1, <1>3, StoreCounting
  <1>5. /\ attempts.count \in Nat /\ attempts.count <= n
        /\ attempts.count = 0 => attempts.expires = 0
    BY <1>2 DEF Store!CountedOnce
  <1>6. ASSUME NEW r \in Store!Requests, Store!Count(r) PROVE Store!CountedOnce'
    <2>1. r \notin Store!Tried /\ r \in Store!Tried'
      BY <1>6 DEF Store!Count, Store!Counted, Store!Refuse, Store!Tried
    <2>2. Store!Tried \cup {r} \subseteq Store!Tried'
            /\ Store!Tried \cup {r} \in SUBSET Store!Requests
      BY <1>1, <1>3, <2>1
    <2>3. Store!Cardinality(Store!Tried \cup {r}) = n + 1
      BY <1>1, <2>1, StoreCounting
    <2>4. n + 1 <= m
      BY <1>1, <2>2, <2>3, StoreCounting
    <2>5. attempts'.count \in {1, attempts.count + 1}
      BY <1>6 DEF Store!Count, Store!Failures
    <2>6. QED
      <3> HIDE DEF n, m
      <3>1. attempts'.count <= m /\ attempts'.count # 0
        BY <1>2, <1>5, <2>4, <2>5
      <3>2. QED
        BY <3>1 DEF Store!CountedOnce, m
  <1>7. ASSUME NEW r \in Store!Requests, Store!Window(r) PROVE Store!CountedOnce'
    <2>1. attempts'.count = attempts.count
      BY <1>7 DEF Store!Window
    <2>2. attempts.count = 0 => attempts'.expires = 0
      BY <1>5, <1>7 DEF Store!Window, Store!Live
    <2>3. QED
      <3> HIDE DEF n, m
      <3>1. attempts'.count <= m
        BY <1>2, <1>4, <1>5, <2>1
      <3>2. QED
        BY <2>1, <2>2, <3>1 DEF Store!CountedOnce, m
  <1>8. CASE attempts' \in {attempts, [count |-> 0, expires |-> 0]}
    <2>1. attempts'.count <= n /\ attempts'.count \in Nat
            /\ (attempts'.count = 0 => attempts'.expires = 0)
      BY <1>2, <1>5, <1>8
    <2>2. QED
      <3> HIDE DEF n, m
      <3>1. attempts'.count <= m
        BY <1>2, <1>4, <2>1
      <3>2. QED
        BY <2>1, <3>1 DEF Store!CountedOnce, m
  <1>9. ASSUME NEW r \in Store!Requests,
               \/ Store!Read(r) \/ Store!Touch(r) \/ Store!Delete(r) \/ Store!CheckLock(r)
               \/ Store!CheckPin(r) \/ Store!SetLock(r) \/ Store!Reset(r) \/ Store!Fail(r)
        PROVE  attempts' \in {attempts, [count |-> 0, expires |-> 0]}
    BY <1>9 DEF Store!Read, Store!Touch, Store!Delete, Store!CheckLock, Store!CheckPin,
        Store!SetLock, Store!Reset, Store!Fail, Store!store
  <1>10. QED
    BY <1>6, <1>7, <1>8, <1>9 DEF Store!Next, Store!Handle, Store!Tick, Store!store

LEMMA StoreTyped ==
    ASSUME Store!ConstantsOK, Store!IInv, Store!Next, Store!CountedOnce', Store!Placed
    PROVE  Store!TypeOK' /\ Store!KeyBound' /\ late' = {} /\ \A q \in StepUps : at'[q] <= now'
  <1> DEFINE Goal == Store!TypeOK' /\ Store!KeyBound' /\ late' = {}
                        /\ \A q \in StepUps : at'[q] <= now'
             N == Store!Cardinality(Store!Requests)
  <1> USE DEF Store!ConstantsOK, Store!IInv, Store!TypeOK, Store!Goto, Store!KeyBound,
        Store!store
  <1>1. N \in Nat
    BY StoreCounting
  <1>2. 0 \in Store!Times /\ now \in Store!Times /\ now + LockTtl \in Store!Times
          /\ Store!Never \in Store!Times /\ now \in Nat
    BY DEF Store!Times, Store!Never
  <1> HIDE DEF N
  <1>3. ASSUME Store!Tick PROVE Goal
    <2>1. now' \in 0 .. MaxTime /\ \A q \in StepUps : at[q] <= now'
      BY <1>3 DEF Store!Tick, Store!Times
    <2>2. QED
      BY <1>3, <2>1 DEF Store!Tick, Store!Times, Store!Never
  <1>4. ASSUME NEW r \in Store!Requests, Store!Read(r) PROVE Goal
    BY <1>4 DEF Store!Read, Store!Use, Store!WithinAbsolute, Store!Times, Store!Never
  <1>5. ASSUME NEW r \in Store!Requests, Store!Touch(r) PROVE Goal
    <2> DEFINE k == Store!TouchTtl(now)
    <2>1. k \in Nat /\ k <= IdleTtl /\ now + k <= Store!Max({AbsoluteTtl, now + 1})
      BY <1>2, StoreTouchTtl
    <2>2. now + k \in Store!Times
      <3> HIDE DEF k
      <3>1. QED
        BY <2>1 DEF Store!Times, Store!Never
    <2>3. session' = [lastSeen |-> now, expires |-> now + k]
      BY <1>5 DEF Store!Touch
    <2> HIDE DEF k
    <2>4. session' \in [lastSeen : Store!Times, expires : Store!Times]
      BY <1>2, <2>2, <2>3
    <2>5. Store!KeyBound'
      <3>1. session'.expires = now + k /\ session'.lastSeen = now
        BY <2>3
      <3>2. session'.expires <= session'.lastSeen + IdleTtl
        BY <1>2, <2>1, <3>1
      <3>3. session'.expires <= Store!Max({AbsoluteTtl, session'.lastSeen + 1})
        BY <2>1, <3>1
      <3>4. QED
        BY <3>2, <3>3 DEF Store!Max
    <2>6. QED
      BY <1>5, <2>4, <2>5 DEF Store!Touch, Store!Times, Store!Never
  <1>6. ASSUME NEW r \in Store!Requests, Store!Delete(r) PROVE Goal
    <2>1. session' = [lastSeen |-> session.lastSeen, expires |-> 0]
      BY <1>6 DEF Store!Delete
    <2>2. session' \in [lastSeen : Store!Times, expires : Store!Times]
      BY <1>2, <2>1
    <2>3. Store!KeyBound'
      <3>1. session'.expires = 0 /\ session'.lastSeen \in Nat
        BY <2>1 DEF Store!Times, Store!Never
      <3>2. 0 <= Store!Max({AbsoluteTtl, session'.lastSeen + 1})
        BY <3>1, StoreAbsolute
      <3>3. 0 <= session'.lastSeen + IdleTtl
        BY <3>1
      <3>4. QED
        BY <3>1, <3>2, <3>3 DEF Store!Max
    <2>4. QED
      BY <1>6, <2>2, <2>3 DEF Store!Delete, Store!Times, Store!Never
  <1>7. ASSUME NEW r \in Store!Requests,
               Store!CheckLock(r) \/ Store!CheckPin(r) \/ Store!Fail(r)
        PROVE  Goal
    BY <1>7 DEF Store!CheckLock, Store!CheckPin, Store!Fail, Store!Times, Store!Never
  <1>8. ASSUME NEW r \in StepUps, at' = [at EXCEPT ![r] = now] \/ at' = at, now' = now
        PROVE  at' \in [StepUps -> Store!Times] /\ \A q \in StepUps : at'[q] <= now'
    BY <1>2, <1>8
  <1>9. ASSUME NEW r \in Store!Requests, Store!Count(r) PROVE Goal
    <2>1. r \in StepUps
      BY <1>9 DEF Store!Count, Store!Placed
    <2>2. at' = [at EXCEPT ![r] = now] \/ at' = at
      BY <1>9 DEF Store!Count, Store!Counted, Store!Refuse
    <2>3. now' = now /\ session' = session /\ lock' = lock /\ late' = late
      BY <1>9 DEF Store!Count
    <2>4. pc' \in [Store!Requests -> {"start", "touch", "delete", "locked?", "pin",
                            "count", "window", "lock", "reset", "ok", "wrong",
                            "deleted", "done"}]
      BY <1>9 DEF Store!Count, Store!Counted, Store!Refuse
    <2>5. attempts' \in [count : 0 .. N, expires : Store!Times]
      <3> DEFINE c == Store!Failures + 1
                 t == Store!Cardinality(Store!Tried')
                 e == IF c = 1 THEN Store!Never ELSE attempts.expires
      <3>1. attempts' = [count |-> c, expires |-> e]
        BY <1>9 DEF Store!Count
      <3>2. e \in Store!Times
        BY <1>2
      <3>3. c \in Nat
        BY <1>1 DEF Store!Failures, N
      <3>4. c <= N
        <4>1. c <= t
          BY <3>1 DEF Store!CountedOnce
        <4>2. t \in Nat /\ t <= N
          <5>1. Store!Tried' \in SUBSET Store!Requests
            BY DEF Store!Tried
          <5>2. QED
            BY <5>1, StoreCounting DEF N
        <4> HIDE DEF c, t
        <4>3. QED
          BY <1>1, <3>3, <4>1, <4>2
      <3> HIDE DEF c, e
      <3>5. QED
        BY <1>1, <3>1, <3>2, <3>3, <3>4
    <2>6. QED
      BY <1>8, <2>1, <2>2, <2>3, <2>4, <2>5 DEF N, Store!Times, Store!Never
  <1>10. ASSUME NEW r \in Store!Requests, Store!Window(r) PROVE Goal
    <2>1. r \in StepUps
      BY <1>10 DEF Store!Window, Store!Placed
    <2>2. at' = [at EXCEPT ![r] = now] \/ at' = at
      BY <1>10 DEF Store!Window, Store!Counted, Store!Refuse
    <2>3. now' = now /\ session' = session /\ lock' = lock /\ late' = late
      BY <1>10 DEF Store!Window
    <2>4. pc' \in [Store!Requests -> {"start", "touch", "delete", "locked?", "pin",
                            "count", "window", "lock", "reset", "ok", "wrong",
                            "deleted", "done"}]
      BY <1>10 DEF Store!Window, Store!Counted, Store!Refuse
    <2>5. attempts' \in [count : 0 .. N, expires : Store!Times]
      BY <1>2, <1>10 DEF Store!Window, Store!WindowEnd, N
    <2>6. QED
      BY <1>8, <2>1, <2>2, <2>3, <2>4, <2>5 DEF N, Store!Times, Store!Never
  <1>11. ASSUME NEW r \in Store!Requests, Store!SetLock(r) PROVE Goal
    <2>1. r \in StepUps
      BY <1>11 DEF Store!SetLock, Store!Placed
    <2>2. at' = [at EXCEPT ![r] = now] /\ now' = now
      BY <1>11 DEF Store!SetLock, Store!Refuse
    <2>3. QED
      BY <1>2, <1>8, <1>11, <2>1, <2>2 DEF Store!SetLock, Store!Refuse, Store!Times, Store!Never
  <1>12. ASSUME NEW r \in Store!Requests, Store!Reset(r) PROVE Goal
    <2>1. attempts' \in [count : 0 .. N, expires : Store!Times]
      <3>1. 0 \in 0 .. N
        BY <1>1
      <3>2. QED
        BY <1>2, <1>12, <3>1 DEF Store!Reset
    <2>2. QED
      BY <1>12, <2>1 DEF Store!Reset, N, Store!Times, Store!Never
  <1>13. QED
    BY <1>3, <1>4, <1>5, <1>6, <1>7, <1>9, <1>10, <1>11, <1>12 DEF Store!Next, Store!Handle

\* The right answer of a step-up is its last step.
LEMMA StoreRightStays ==
    ASSUME Store!ConstantsOK, Store!IInv, Store!Next, Store!NoneRight'
    PROVE  Store!NoneRight
  <1> SUFFICES ASSUME NEW q \in StepUps, pc[q] = "ok" PROVE pc'[q] = "ok"
    BY DEF Store!NoneRight
  <1> USE DEF Store!IInv, Store!TypeOK, Store!Goto, Store!Requests
  <1>1. ASSUME NEW r \in Store!Requests, Store!Read(r) \/ Store!Touch(r) \/ Store!Delete(r)
        PROVE  pc'[q] = "ok"
    BY <1>1 DEF Store!Read, Store!Use, Store!Touch, Store!Delete
  <1>2. ASSUME NEW r \in Store!Requests, Store!Count(r) \/ Store!Window(r) \/ Store!SetLock(r)
        PROVE  pc'[q] = "ok"
    BY <1>2 DEF Store!Count, Store!Window, Store!SetLock, Store!Counted, Store!Refuse
  <1>3. ASSUME NEW r \in Store!Requests,
               Store!CheckLock(r) \/ Store!CheckPin(r) \/ Store!Reset(r) \/ Store!Fail(r)
        PROVE  pc'[q] = "ok"
    BY <1>3 DEF Store!CheckLock, Store!CheckPin, Store!Reset, Store!Fail
  <1>4. QED
    BY <1>1, <1>2, <1>3 DEF Store!Next, Store!Handle, Store!Tick

\* The types of what a window is made of.
LEMMA StoreClock ==
    ASSUME Store!ConstantsOK, Store!IInv
    PROVE  /\ now \in Nat /\ now <= MaxTime /\ MaxTime \in Nat
           /\ LockTtl \in Nat /\ LockTtl >= 1
           /\ Store!Never \in Nat /\ Store!Never > MaxTime + LockTtl
           /\ attempts.expires \in Nat /\ attempts.count \in Nat /\ lock \in Nat
           /\ \A q \in StepUps : at[q] \in Nat /\ at[q] <= now
           /\ MaxAttempts \in Nat /\ MaxAttempts >= 1
  <1> USE DEF Store!ConstantsOK, Store!IInv, Store!TypeOK
  <1>1. Store!Never \in Nat /\ Store!Never > MaxTime + LockTtl
    BY DEF Store!Never
  <1>2. Store!Times \subseteq Nat
    BY <1>1 DEF Store!Times
  <1>3. Store!Cardinality(Store!Requests) \in Nat
    BY StoreCounting
  <1>4. attempts.count \in 0 .. Store!Cardinality(Store!Requests)
          /\ attempts.expires \in Store!Times /\ lock \in Store!Times
    OBVIOUS
  <1>5. attempts.count \in Nat /\ attempts.expires \in Nat /\ lock \in Nat
    <2> DEFINE N == Store!Cardinality(Store!Requests)
               c == attempts.count
    <2>1. N \in Nat /\ c \in 0 .. N
      BY <1>3, <1>4
    <2> HIDE DEF N, c
    <2>2. c \in Nat
      BY <2>1
    <2>3. QED
      BY <1>2, <1>4, <2>2 DEF c
  <1>6. \A q \in StepUps : at[q] \in Nat /\ at[q] <= now
    BY <1>2
  <1>7. now \in Nat /\ now <= MaxTime
    OBVIOUS
  <1>8. QED
    BY <1>1, <1>5, <1>6, <1>7

\* A step that moves the clock or a request elsewhere.
LEMMA StoreWindowsQuiet ==
    ASSUME Store!ConstantsOK, Store!IInv, Store!WindowsKept,
           Store!Wrong' = Store!Wrong, Store!Starting' = Store!Starting,
           attempts' = attempts, lock' = lock, at' = at, now' \in {now, now + 1}
    PROVE  Store!WindowsKept'
  <1>1. PICK old \in SUBSET Store!Wrong, cur \in SUBSET (Store!Wrong \cup Store!Starting) :
            Store!Windows(old, cur)
    BY DEF Store!WindowsKept
  <1>2. \A q \in Store!Wrong : q \in StepUps
    BY DEF Store!Wrong
  <1>3. \A q \in Store!Wrong : now >= at[q] + LockTtl => now' >= at[q] + LockTtl
    BY <1>2, StoreClock
  <1>4. Store!Windows(old, cur)'
    BY <1>1, <1>3 DEF Store!Windows
  <1>5. QED
    BY <1>4 DEF Store!WindowsKept, Store!Never

\* The request that starts a window dies: the counter stays without a TTL.
LEMMA StoreWindowsLost ==
    ASSUME Store!ConstantsOK, Store!IInv, Store!WindowsKept,
           NEW r \in StepUps, pc[r] = "window", Store!Fail(r)
    PROVE  Store!WindowsKept'
  <1> USE DEF Store!IInv, Store!TypeOK, Store!Goto
  <1>1. PICK old \in SUBSET Store!Wrong, cur \in SUBSET (Store!Wrong \cup Store!Starting) :
            Store!Windows(old, cur)
    BY DEF Store!WindowsKept
  <1>2. Store!Starting = {r}
    BY DEF Store!WindowsKept, Store!Starting
  <1>3. Store!Wrong' = Store!Wrong /\ Store!Starting' = {}
    BY <1>2 DEF Store!Fail, Store!Wrong, Store!Starting, Store!Requests
  <1>4. attempts' = attempts /\ lock' = lock /\ at' = at /\ now' = now
    BY DEF Store!Fail, Store!store
  <1> DEFINE new == cur \ {r}
  <1>5. new \in SUBSET Store!Wrong' /\ r \notin Store!Wrong
    BY <1>1, <1>2, <1>3 DEF Store!Wrong
  <1>6. Store!Cardinality(new) <= Store!Cardinality(cur) /\ Store!Cardinality(new) \in Nat
          /\ Store!Cardinality(cur) \in Nat
    <2>1. new \subseteq cur /\ new \in SUBSET Store!Requests /\ cur \in SUBSET Store!Requests
      BY <1>1 DEF Store!Wrong, Store!Starting, Store!Requests
    <2>2. QED
      BY <2>1, StoreCounting
  <1>7. Store!Windows(old, new)'
    <2>1. Store!Starting' \subseteq new /\ new \ Store!Starting' = cur \ Store!Starting
      BY <1>2, <1>3
    <2>2. \A q \in Store!Wrong : \/ q \in old \cup new
                               \/ now >= at[q] + LockTtl
                               \/ lock >= at[q] + LockTtl
      BY <1>1, <1>5 DEF Store!Windows
    <2>3. Store!Cardinality(new) <= attempts.count
      BY <1>1, <1>6, StoreClock DEF Store!Windows
    <2>4. Store!Cardinality(new) <= MaxAttempts - 1 \/ new \subseteq {}
      BY <1>1, <1>2, <1>6, StoreClock DEF Store!Windows
    <2>5. QED
      <3> HIDE DEF new
      <3>1. QED
        BY <1>1, <1>3, <1>4, <2>1, <2>2, <2>3, <2>4 DEF Store!Windows
  <1>8. QED
    BY <1>3, <1>5, <1>7 DEF Store!WindowsKept

\* The first failure after a window: what the window before let pass is old,
\* and what was old is LockTtl ago.
LEMMA StoreWindowsFirst ==
    ASSUME Store!ConstantsOK, Store!IInv, Store!WindowsKept,
           NEW r \in StepUps, Store!Count(r), Store!Failures = 0
    PROVE  Store!WindowsKept'
  <1> USE DEF Store!IInv, Store!TypeOK, Store!Goto
  <1>1. PICK old \in SUBSET Store!Wrong, cur \in SUBSET (Store!Wrong \cup Store!Starting) :
            Store!Windows(old, cur)
    BY DEF Store!WindowsKept
  <1>2. attempts.expires <= now
    <2>1. attempts.count = 0 => attempts.expires = 0
      BY DEF Store!CountedOnce
    <2>2. QED
      BY <2>1, StoreClock DEF Store!Failures, Store!Live
  <1>3. Store!Starting = {}
    BY <1>2, StoreClock DEF Store!WindowsKept
  <1>4. /\ pc[r] = "count" /\ pc' = [pc EXCEPT ![r] = "window"]
        /\ attempts' = [count |-> 1, expires |-> Store!Never]
        /\ at' = at /\ now' = now /\ lock' = lock
    BY DEF Store!Count, Store!Counted, Store!Refuse
  <1>5. Store!Wrong' = Store!Wrong /\ Store!Starting' = {r}
    BY <1>3, <1>4 DEF Store!Wrong, Store!Starting, Store!Requests
  <1>6. cur \in SUBSET Store!Wrong' /\ {r} \in SUBSET (Store!Wrong' \cup Store!Starting')
    BY <1>1, <1>3, <1>5
  <1>7. Store!Windows(cur, {r})'
    <2>1. \A q \in Store!Wrong : \/ q \in cur
                               \/ now >= at[q] + LockTtl
                               \/ lock >= at[q] + LockTtl
      <3> SUFFICES ASSUME NEW q \in Store!Wrong, q \in old PROVE now >= at[q] + LockTtl
        BY <1>1 DEF Store!Windows
      <3>1. q \in StepUps /\ at[q] + LockTtl <= attempts.expires
        BY <1>1 DEF Store!Windows, Store!Wrong
      <3>2. QED
        BY <1>2, <3>1, StoreClock
    <2>2. \A q \in cur : at[q] + LockTtl <= Store!Never
      BY <1>6, <1>5, StoreClock DEF Store!Wrong
    <2>3. Store!Cardinality(cur) <= MaxAttempts - 1
      <3>1. CASE cur \subseteq Store!Starting
        <4>1. cur = {}
          BY <1>3, <3>1
        <4>2. QED
          BY <4>1, StoreCounting, StoreClock
      <3>2. QED
        BY <1>1, <3>1 DEF Store!Windows
    <2>4. Store!Cardinality({r}) = 1
      BY StoreOne DEF Store!Requests
    <2>5. attempts'.count = 1 /\ attempts'.expires = Store!Never
      BY <1>4
    <2>6. QED
      BY <1>4, <1>5, <2>1, <2>2, <2>3, <2>4, <2>5 DEF Store!Windows
  <1>8. attempts'.expires = Store!Never
    BY <1>4
  <1>9. QED
    BY <1>5, <1>6, <1>7, <1>8 DEF Store!WindowsKept, Store!Never

\* A later failure joins the current window, or goes on to set the lock.
LEMMA StoreWindowsMore ==
    ASSUME Store!ConstantsOK, Store!IInv, Store!WindowsKept,
           NEW r \in StepUps, Store!Count(r), Store!Failures # 0
    PROVE  Store!WindowsKept'
  <1> DEFINE n == attempts.count + 1
  <1> USE DEF Store!IInv, Store!TypeOK, Store!Goto
  <1>1. PICK old \in SUBSET Store!Wrong, cur \in SUBSET (Store!Wrong \cup Store!Starting) :
            Store!Windows(old, cur)
    BY DEF Store!WindowsKept
  <1>2. Store!Failures = attempts.count /\ now < attempts.expires /\ n # 1
    BY StoreClock DEF Store!Failures, Store!Live
  <1>3. /\ pc[r] = "count" /\ attempts' = [count |-> n, expires |-> attempts.expires]
        /\ now' = now /\ lock' = lock
        /\ Store!Counted(r, n)
    BY <1>2 DEF Store!Count
  <1>4. attempts'.count = n /\ attempts'.expires = attempts.expires
    BY <1>3
  <1>5. r \notin Store!Wrong /\ r \notin Store!Starting /\ r \in Store!Requests
    BY <1>3 DEF Store!Wrong, Store!Starting, Store!Requests
  <1>6. cur \in SUBSET Store!Requests /\ Store!Cardinality(cur) \in Nat
    <2>1. cur \in SUBSET Store!Requests
      BY <1>1 DEF Store!Wrong, Store!Starting, Store!Requests
    <2>2. QED
      BY <2>1, StoreCounting
  <1>7. CASE Store!Locks(n)
    <2>1. pc' = [pc EXCEPT ![r] = "lock"] /\ at' = at
      BY <1>3, <1>7 DEF Store!Counted
    <2>2. Store!Wrong' = Store!Wrong /\ Store!Starting' = Store!Starting
      BY <1>3, <2>1 DEF Store!Wrong, Store!Starting, Store!Requests
    <2>3. Store!Cardinality(cur) <= n
      BY <1>1, <1>6, StoreClock DEF Store!Windows
    <2>4. Store!Windows(old, cur)'
      <3> HIDE DEF n
      <3>1. QED
        BY <1>1, <1>3, <1>4, <2>1, <2>2, <2>3 DEF Store!Windows
    <2>5. QED
      BY <1>4, <2>2, <2>4 DEF Store!WindowsKept, Store!Never
  <1>8. CASE ~Store!Locks(n)
    <2> DEFINE new == cur \cup {r}
    <2>1. pc' = [pc EXCEPT ![r] = "wrong"] /\ at' = [at EXCEPT ![r] = now]
      BY <1>3, <1>8 DEF Store!Counted, Store!Refuse
    <2>2. Store!Wrong' = Store!Wrong \cup {r} /\ Store!Starting' = Store!Starting
      BY <1>3, <2>1 DEF Store!Wrong, Store!Starting, Store!Requests
    <2>3. Store!Cardinality(new) = Store!Cardinality(cur) + 1
      BY <1>1, <1>5, <1>6, StoreCounting
    <2>4. Store!Cardinality(new) <= n /\ Store!Cardinality(new) <= MaxAttempts - 1
      <3>1. n <= MaxAttempts - 1
        BY <1>8, StoreClock DEF Store!Locks
      <3>2. Store!Cardinality(cur) <= attempts.count
        BY <1>1 DEF Store!Windows
      <3>3. QED
        BY <1>6, <2>3, <3>1, <3>2, StoreClock
    <2>5. at'[r] = now /\ \A q \in StepUps \ {r} : at'[q] = at[q]
      BY <2>1
    <2>6. \A q \in old : q \in StepUps \ {r}
      BY <1>1, <1>5 DEF Store!Wrong
    <2>7. \A q \in cur : q \in StepUps \ {r}
      BY <1>1, <1>5 DEF Store!Wrong, Store!Starting
    <2>8. \A q \in Store!Wrong : q \in StepUps \ {r}
      BY <1>5 DEF Store!Wrong
    <2>9. Store!Windows(old, new)'
      <3>1. Store!Starting' \subseteq new
        BY <1>1, <2>2 DEF Store!Windows
      <3>2. \A q \in Store!Wrong' : \/ q \in old \cup new
                                  \/ now >= at'[q] + LockTtl
                                  \/ lock >= at'[q] + LockTtl
        BY <1>1, <2>2, <2>5, <2>8 DEF Store!Windows
      <3>3. \A q \in old : at'[q] + LockTtl <= attempts.expires
        BY <1>1, <2>5, <2>6 DEF Store!Windows
      <3>4. \A q \in new \ Store!Starting' : at'[q] < attempts.expires
        BY <1>1, <1>2, <2>2, <2>5, <2>7 DEF Store!Windows
      <3>5. Store!Cardinality(old) <= MaxAttempts - 1
        BY <1>1 DEF Store!Windows
      <3> HIDE DEF n, new
      <3>6. QED
        BY <1>3, <1>4, <2>4, <3>1, <3>2, <3>3, <3>4, <3>5 DEF Store!Windows
    <2>10. old \in SUBSET Store!Wrong' /\ new \in SUBSET (Store!Wrong' \cup Store!Starting')
      BY <1>1, <2>2
    <2>11. QED
      BY <1>4, <2>2, <2>9, <2>10 DEF Store!WindowsKept, Store!Never
  <1>9. QED
    BY <1>7, <1>8

\* EXPIRE: the counter had no TTL, so the window ends LockTtl from now.
LEMMA StoreWindowsTimed ==
    ASSUME Store!ConstantsOK, Store!IInv, Store!WindowsKept,
           NEW r \in StepUps, Store!Window(r)
    PROVE  Store!WindowsKept'
  <1> USE DEF Store!IInv, Store!TypeOK, Store!Goto
  <1>1. PICK old \in SUBSET Store!Wrong, cur \in SUBSET (Store!Wrong \cup Store!Starting) :
            Store!Windows(old, cur)
    BY DEF Store!WindowsKept
  <1>2. pc[r] = "window" /\ Store!Starting = {r} /\ attempts.expires = Store!Never
    BY DEF Store!WindowsKept, Store!Starting, Store!Window
  <1>3. Store!Live(attempts.expires)
    BY <1>2, StoreClock DEF Store!Live
  <1>4. /\ attempts'.count = attempts.count /\ attempts'.expires = now + LockTtl
        /\ now' = now /\ lock' = lock /\ Store!Counted(r, 1)
    BY <1>3 DEF Store!Window, Store!WindowEnd
  <1>5. r \in cur /\ r \notin Store!Wrong /\ r \notin old
    BY <1>1, <1>2 DEF Store!Windows, Store!Wrong
  <1>6. /\ cur \in SUBSET Store!Requests /\ cur \ {r} \in SUBSET Store!Requests
        /\ Store!Cardinality(cur) \in Nat /\ Store!Cardinality(cur \ {r}) \in Nat
        /\ Store!Cardinality(cur \ {r}) <= Store!Cardinality(cur)
    <2>1. cur \in SUBSET Store!Requests /\ cur \ {r} \in SUBSET Store!Requests
            /\ cur \ {r} \subseteq cur
      BY <1>1 DEF Store!Wrong, Store!Starting, Store!Requests
    <2>2. QED
      BY <2>1, StoreCounting
  <1>7. \A q \in StepUps : at[q] + LockTtl <= now + LockTtl /\ at[q] < now + LockTtl
    BY StoreClock
  <1>8. (\A q \in old : q \in StepUps) /\ (\A q \in cur : q \in StepUps)
    BY <1>1 DEF Store!Wrong, Store!Starting
  <1>9. CASE Store!Locks(1)
    <2> DEFINE new == cur \ {r}
    <2>1. pc' = [pc EXCEPT ![r] = "lock"] /\ at' = at
      BY <1>4, <1>9 DEF Store!Counted
    <2>2. Store!Wrong' = Store!Wrong /\ Store!Starting' = {}
      BY <1>2, <2>1 DEF Store!Wrong, Store!Starting, Store!Requests
    <2>3. Store!Cardinality(new) <= attempts.count
      BY <1>1, <1>6, StoreClock DEF Store!Windows
    <2>4. Store!Cardinality(new) <= MaxAttempts - 1 \/ new \subseteq {}
      BY <1>1, <1>2, <1>6, StoreClock DEF Store!Windows
    <2>5. \A q \in Store!Wrong : \/ q \in old \cup new
                               \/ now >= at[q] + LockTtl
                               \/ lock >= at[q] + LockTtl
      BY <1>1, <1>5 DEF Store!Windows
    <2>6. \A q \in new : q \in StepUps
      BY <1>8
    <2>7. new \in SUBSET (Store!Wrong' \cup Store!Starting')
      BY <1>1, <1>2, <2>2
    <2>8. Store!Cardinality(old) <= MaxAttempts - 1
      BY <1>1 DEF Store!Windows
    <2> HIDE DEF new
    <2>9. Store!Windows(old, new)'
      BY <1>4, <1>7, <1>8, <2>1, <2>2, <2>3, <2>4, <2>5, <2>6, <2>8 DEF Store!Windows
    <2>10. QED
      BY <2>2, <2>7, <2>9 DEF Store!WindowsKept
  <1>10. CASE ~Store!Locks(1)
    <2>1. pc' = [pc EXCEPT ![r] = "wrong"] /\ at' = [at EXCEPT ![r] = now]
      BY <1>4, <1>10 DEF Store!Counted, Store!Refuse
    <2>2. Store!Wrong' = Store!Wrong \cup {r} /\ Store!Starting' = {}
      BY <1>2, <2>1 DEF Store!Wrong, Store!Starting, Store!Requests
    <2>3. Store!Cardinality(cur) <= MaxAttempts - 1
      <3>1. 1 <= MaxAttempts - 1
        BY <1>10, StoreClock DEF Store!Locks
      <3>2. CASE cur \subseteq {r}
        <4>1. cur = {r} /\ r \in Store!Requests
          BY <1>5, <3>2 DEF Store!Requests
        <4>2. Store!Cardinality(cur) = 1
          BY <4>1, StoreOne
        <4>3. QED
          BY <3>1, <4>2
      <3>3. QED
        BY <1>1, <1>2, <3>2 DEF Store!Windows
    <2>4. at'[r] = now /\ \A q \in StepUps \ {r} : at'[q] = at[q]
      BY <2>1
    <2>5. \A q \in Store!Wrong' : \/ q \in old \cup cur
                                \/ now >= at'[q] + LockTtl
                                \/ lock >= at'[q] + LockTtl
      BY <1>1, <1>5, <2>2, <2>4 DEF Store!Windows, Store!Wrong
    <2>6. \A q \in StepUps : at'[q] + LockTtl <= now + LockTtl /\ at'[q] < now + LockTtl
      BY <1>7, <2>4, StoreClock
    <2>7. Store!Windows(old, cur)'
      <3>1. Store!Cardinality(old) <= MaxAttempts - 1 /\ Store!Cardinality(cur) <= attempts.count
        BY <1>1 DEF Store!Windows
      <3>2. QED
        BY <1>4, <1>8, <2>2, <2>3, <2>5, <2>6, <3>1 DEF Store!Windows
    <2>8. old \in SUBSET Store!Wrong' /\ cur \in SUBSET (Store!Wrong' \cup Store!Starting')
      BY <1>1, <1>2, <2>2
    <2>9. QED
      BY <2>2, <2>7, <2>8 DEF Store!WindowsKept
  <1>11. QED
    BY <1>9, <1>10

\* The lock covers the failure that sets it and all that came before.
LEMMA StoreWindowsLocked ==
    ASSUME Store!ConstantsOK, Store!IInv, Store!WindowsKept,
           NEW r \in StepUps, Store!SetLock(r)
    PROVE  Store!WindowsKept'
  <1> USE DEF Store!IInv, Store!TypeOK, Store!Goto
  <1>1. PICK old \in SUBSET Store!Wrong, cur \in SUBSET (Store!Wrong \cup Store!Starting) :
            Store!Windows(old, cur)
    BY DEF Store!WindowsKept
  <1>2. /\ pc[r] = "lock" /\ pc' = [pc EXCEPT ![r] = "wrong"]
        /\ at' = [at EXCEPT ![r] = now] /\ lock' = now + LockTtl
        /\ attempts' = attempts /\ now' = now
    BY DEF Store!SetLock, Store!Refuse
  <1>3. r \notin Store!Wrong /\ r \notin Store!Starting
    BY <1>2 DEF Store!Wrong, Store!Starting
  <1>4. Store!Wrong' = Store!Wrong \cup {r} /\ Store!Starting' = Store!Starting
    BY <1>2 DEF Store!Wrong, Store!Starting, Store!Requests
  <1>5. at'[r] = now /\ \A q \in StepUps \ {r} : at'[q] = at[q]
    BY <1>2
  <1>6. /\ \A q \in old \cup cur : q \in StepUps \ {r}
        /\ \A q \in Store!Wrong' : q \in StepUps
    BY <1>1, <1>3, <1>4 DEF Store!Wrong, Store!Starting
  <1>7. \A q \in StepUps : lock' >= at'[q] + LockTtl
    BY <1>2, <1>5, StoreClock
  <1>8. Store!Windows(old, cur)'
    BY <1>1, <1>2, <1>4, <1>5, <1>6, <1>7 DEF Store!Windows
  <1>9. QED
    BY <1>1, <1>2, <1>4, <1>8 DEF Store!WindowsKept, Store!Never

LEMMA StoreGuessesCounted ==
    ASSUME Store!ConstantsOK, Store!IInv, Store!Next
    PROVE  Store!GuessesCounted'
  <1> SUFFICES ASSUME Store!NoneRight' PROVE Store!WindowsKept'
    BY DEF Store!GuessesCounted
  <1> USE DEF Store!IInv, Store!TypeOK, Store!Goto
  <1>1. Store!WindowsKept
    BY StoreRightStays DEF Store!GuessesCounted
  <1>2. ASSUME Store!Tick PROVE Store!WindowsKept'
    <2>1. Store!Wrong' = Store!Wrong /\ Store!Starting' = Store!Starting
      BY <1>2 DEF Store!Tick, Store!Wrong, Store!Starting
    <2>2. attempts' = attempts /\ lock' = lock /\ at' = at /\ now' \in {now, now + 1}
      BY <1>2 DEF Store!Tick, Store!store
    <2>3. QED
      BY <1>1, <2>1, <2>2, StoreWindowsQuiet
  <1>3. ASSUME NEW r \in Store!Requests,
               \/ Store!Read(r) \/ Store!Touch(r) \/ Store!Delete(r)
               \/ Store!CheckLock(r) \/ Store!CheckPin(r)
               \/ Store!Fail(r) /\ pc[r] # "window"
        PROVE  Store!WindowsKept'
    <2>1. /\ pc[r] \notin {"wrong", "window"}
          /\ pc' = [pc EXCEPT ![r] = pc'[r]] /\ pc'[r] \notin {"wrong", "window"}
      BY <1>3 DEF Store!Read, Store!Use, Store!Touch, Store!Delete, Store!CheckLock,
          Store!CheckPin, Store!Fail
    <2>2. Store!Wrong' = Store!Wrong /\ Store!Starting' = Store!Starting
      BY <2>1 DEF Store!Wrong, Store!Starting, Store!Requests
    <2>3. attempts' = attempts /\ lock' = lock /\ at' = at /\ now' = now
      BY <1>3 DEF Store!Read, Store!Touch, Store!Delete, Store!CheckLock,
          Store!CheckPin, Store!Fail, Store!store
    <2>4. QED
      BY <1>1, <2>2, <2>3, StoreWindowsQuiet
  <1>4. ASSUME NEW r \in Store!Requests, Store!Fail(r), pc[r] = "window"
        PROVE  Store!WindowsKept'
    BY <1>1, <1>4, StoreWindowsLost DEF Store!Placed
  <1>5. ASSUME NEW r \in Store!Requests, Store!Count(r) PROVE Store!WindowsKept'
    <2>1. r \in StepUps
      BY <1>5 DEF Store!Placed, Store!Count
    <2>2. QED
      BY <1>1, <1>5, <2>1, StoreWindowsFirst, StoreWindowsMore
  <1>6. ASSUME NEW r \in Store!Requests, Store!Window(r) PROVE Store!WindowsKept'
    <2>1. r \in StepUps
      BY <1>6 DEF Store!Placed, Store!Window
    <2>2. QED
      BY <1>1, <1>6, <2>1, StoreWindowsTimed
  <1>7. ASSUME NEW r \in Store!Requests, Store!SetLock(r) PROVE Store!WindowsKept'
    <2>1. r \in StepUps
      BY <1>7 DEF Store!Placed, Store!SetLock
    <2>2. QED
      BY <1>1, <1>7, <2>1, StoreWindowsLocked
  <1>8. ASSUME NEW r \in Store!Requests, Store!Reset(r) PROVE FALSE
    <2>1. r \in StepUps /\ pc'[r] = "ok"
      BY <1>8 DEF Store!Placed, Store!Reset
    <2>2. QED
      BY <2>1 DEF Store!NoneRight
  <1>9. QED
    BY <1>2, <1>3, <1>4, <1>5, <1>6, <1>7, <1>8 DEF Store!Next, Store!Handle

LEMMA StoreInit ==
    ASSUME Store!ConstantsOK, Store!Init
    PROVE  Store!IInv
  <1> USE DEF Store!ConstantsOK, Store!Init
  <1>1. Store!Cardinality(Store!Requests) \in Nat
    BY StoreCounting
  <1>2. 0 \in 0 .. Store!Cardinality(Store!Requests)
    BY <1>1
  <1>3. 0 \in Store!Times /\ IdleTtl \in Store!Times
    BY DEF Store!Times, Store!Never
  <1>4. Store!TypeOK
    BY <1>2, <1>3 DEF Store!TypeOK
  <1>5. Store!CountedOnce
    <2>1. Store!Tried = {}
      BY DEF Store!Tried
    <2>2. QED
      BY <2>1, StoreCounting DEF Store!CountedOnce
  <1>6. Store!KeyBound
    <2> DEFINE e == Store!Max({AbsoluteTtl, 0 + 1})
    <2>1. e \in Int /\ AbsoluteTtl <= e
      BY StoreAbsolute
    <2> HIDE DEF e
    <2>2. IdleTtl <= e
      BY <2>1
    <2>3. session.lastSeen = 0 /\ session.expires = IdleTtl
      OBVIOUS
    <2>4. QED
      BY <2>2, <2>3 DEF Store!KeyBound, e
  <1>7. Store!GuessesCounted
    <2>1. Store!Wrong = {} /\ Store!Starting = {}
      BY DEF Store!Wrong, Store!Starting, Store!Requests
    <2>2. Store!Cardinality({}) = 0 /\ attempts.count = 0
      BY StoreCounting
    <2>3. Store!Windows({}, {})
      BY <2>1, <2>2 DEF Store!Windows
    <2>4. QED
      BY <2>1, <2>3 DEF Store!GuessesCounted, Store!WindowsKept
  <1>8. QED
    BY <1>4, <1>5, <1>6, <1>7 DEF Store!IInv, Store!Placed

LEMMA StoreNext ==
    ASSUME Store!ConstantsOK, Store!IInv, [Store!Next]_Store!vars
    PROVE  Store!IInv'
  <1>1. CASE Store!Next
    <2>1. Store!CountedOnce' /\ Store!Placed'
      BY <1>1, StoreCountedOnce, StorePlaced
    <2>2. Store!Placed
      BY DEF Store!IInv
    <2>3. Store!TypeOK' /\ Store!KeyBound' /\ late' = {} /\ \A q \in StepUps : at'[q] <= now'
      BY <1>1, <2>1, <2>2, StoreTyped
    <2>4. QED
      BY <1>1, <2>1, <2>3, StoreGuessesCounted DEF Store!IInv
  <1>2. CASE UNCHANGED Store!vars
    BY <1>2 DEF Store!vars, Store!IInv, Store!TypeOK, Store!Times, Store!Never, Store!Placed,
        Store!CountedOnce, Store!Tried, Store!KeyBound, Store!Max, Store!GuessesCounted,
        Store!NoneRight, Store!WindowsKept, Store!Windows, Store!Wrong, Store!Starting
  <1>3. QED
    BY <1>1, <1>2

LEMMA StoreSafe ==
    ASSUME Store!ConstantsOK, Store!IInv
    PROVE  Store!TypeOK /\ Store!ExpiredServesNobody /\ Store!KeyEnds
  BY DEF Store!IInv, Store!ExpiredServesNobody, Store!KeyEnds, Store!KeyBound

\* Whoever passes the lock check sees no lock, so only the two windows are
\* left for what was wrong lately.
LEMMA StoreGuessStep ==
    ASSUME Store!ConstantsOK, Store!IInv, Store!Next
    PROVE  Store!GuessStep
  <1> DEFINE Few == Store!Cardinality(Store!RecentlyWrong) <= 2 * (MaxAttempts - 1)
  <1> USE DEF Store!IInv, Store!TypeOK, Store!Goto
  <1> SUFFICES ASSUME NEW r \in StepUps, pc[r] = "locked?", pc'[r] = "pin", Store!NoneRight
               PROVE  Few
    BY DEF Store!GuessStep, Store!NoneRight
  <1>1. ~Store!Live(lock)
    <2>1. ASSUME NEW s \in Store!Requests, Store!Handle(s) PROVE ~Store!Live(lock)
      <3>1. s = r
        BY <2>1 DEF Store!Handle, Store!Read, Store!Use, Store!Touch, Store!Delete,
            Store!CheckLock, Store!CheckPin, Store!Count, Store!Window, Store!SetLock,
            Store!Counted, Store!Refuse, Store!Reset, Store!Fail, Store!Requests
      <3>2. Store!CheckLock(r) \/ Store!Fail(r)
        BY <2>1, <3>1 DEF Store!Handle, Store!Read, Store!Touch, Store!Delete,
            Store!CheckPin, Store!Count, Store!Window, Store!SetLock, Store!Reset
      <3>3. QED
        BY <3>2 DEF Store!CheckLock, Store!Fail, Store!Requests
    <2>2. ~Store!Tick
      BY DEF Store!Tick
    <2>3. QED
      BY <2>1, <2>2 DEF Store!Next
  <1>2. PICK old \in SUBSET Store!Wrong, cur \in SUBSET (Store!Wrong \cup Store!Starting) :
            Store!Windows(old, cur)
    BY DEF Store!GuessesCounted, Store!WindowsKept
  <1> DEFINE new == cur \ Store!Starting
             o == Store!Cardinality(old)
             k == Store!Cardinality(new)
             w == Store!Cardinality(Store!RecentlyWrong)
  <1>3. Store!RecentlyWrong \subseteq old \cup new
    <2> SUFFICES ASSUME NEW q \in Store!RecentlyWrong PROVE q \in old \cup new
      OBVIOUS
    <2>1. q \in StepUps /\ q \in Store!Wrong /\ now < at[q] + LockTtl /\ q \notin Store!Starting
      BY DEF Store!RecentlyWrong, Store!Wrong, Store!Starting
    <2>2. ~(now >= at[q] + LockTtl) /\ ~(lock >= at[q] + LockTtl)
      BY <1>1, <2>1, StoreClock DEF Store!Live
    <2>3. QED
      BY <1>2, <2>1, <2>2 DEF Store!Windows
  <1>4. /\ old \in SUBSET Store!Requests /\ cur \in SUBSET Store!Requests
        /\ new \in SUBSET Store!Requests /\ new \subseteq cur
        /\ old \cup new \in SUBSET Store!Requests
        /\ Store!RecentlyWrong \in SUBSET Store!Requests
    BY <1>2 DEF Store!Wrong, Store!Starting, Store!Requests, Store!RecentlyWrong
  <1>5. /\ o \in Nat /\ k \in Nat /\ w \in Nat
        /\ Store!Cardinality(cur) \in Nat /\ k <= Store!Cardinality(cur)
        /\ Store!Cardinality(old \cup new) \in Nat
    BY <1>4, StoreCounting
  <1>6. Store!Cardinality(old \cup new) <= o + k /\ w <= Store!Cardinality(old \cup new)
    BY <1>3, <1>4, StoreCounting
  <1>7. o <= MaxAttempts - 1
    BY <1>2 DEF Store!Windows
  <1>8. k <= MaxAttempts - 1
    <2>1. CASE cur \subseteq Store!Starting
      <3>1. new = {}
        BY <2>1
      <3>2. k = 0
        BY <3>1, StoreCounting
      <3>3. QED
        BY <3>2, StoreClock
    <2>2. CASE Store!Cardinality(cur) <= MaxAttempts - 1
      <3> HIDE DEF k
      <3>1. QED
        BY <1>5, <2>2, StoreClock
    <2>3. QED
      BY <1>2, <2>1, <2>2 DEF Store!Windows
  <1>9. QED
    <2>1. w <= 2 * (MaxAttempts - 1)
      <3> HIDE DEF o, k, w, new
      <3>1. QED
        BY <1>5, <1>6, <1>7, <1>8, StoreClock
    <2>2. QED
      BY <2>1

-----------------------------------------------------------------------------
(* The three components under one specification *)

\* What a behaviour is about does not change; OfSession, in Identity, is the
\* third of these.
ofCodes == part = "codes"
ofKeys == part = "passkeys"

\* Enrolment of a phone number, for any number of overlapping requests and any
\* limits: a usable row has its PIN, the first PIN stays, a token is spent
\* once and the codes issued keep to the limit (onboarding, OtpService).
THEOREM PhoneHasOnePin ==
    ASSUME ConstantsOK
    PROVE  Spec => OnePinPerPhone
  <1> DEFINE Safe == /\ Codes!TypeOK /\ Codes!UsableHasPin
                     /\ Codes!TokenSpentOnce /\ Codes!IssuedWithinLimit
             Good == ofCodes => Codes!IInv
  <1>a. Codes!ConstantsOK
    BY DEF ConstantsOK
  <1>1. Init => Good
    BY <1>a, CodesInit DEF Init, ofCodes, OfSession
  <1>2. [Next]_vars => (ofCodes' <=> ofCodes)
    BY DEF Next, vars, ofCodes
  <1>3. ofCodes /\ [Next]_vars => [Codes!Next]_Codes!vars
    BY DEF Next, vars, ofCodes, codesOnly, Codes!vars
  <1>4. Good /\ [Next]_vars => Good'
    BY <1>a, <1>2, <1>3, CodesNext
  <1>5. Good => (ofCodes => Safe)
    BY <1>a, CodesSafe
  <1>6. Good /\ [Next]_vars => [ofCodes => Codes!PinStep]_vars
    <2> SUFFICES ASSUME Good, Next, ofCodes PROVE Codes!PinStep
      OBVIOUS
    <2>1. Codes!Next
      BY DEF Next, ofCodes
    <2>2. QED
      BY <1>a, <2>1, CodesPinStep
  <1>7. Spec => [](ofCodes => Safe) /\ [][ofCodes => Codes!PinStep]_vars
    <2> HIDE DEF Good, Safe
    <2>1. QED
      BY <1>1, <1>4, <1>5, <1>6, PTL DEF Spec
  <1>8. QED
    BY <1>7, PTL DEF OnePinPerPhone, ofCodes

\* A session and its step-up, for any number of requests, any clock bound and
\* any TTLs that the configuration accepts: nobody is served after the
\* absolute expiry, the key keeps to both limits, and no more than two windows
\* of wrong PINs meet (SessionService, TransferStepUpService.verify).
THEOREM SessionKeepsLimits ==
    ASSUME ConstantsOK
    PROVE  Spec => SessionLimits
  <1> DEFINE Safe == Store!TypeOK /\ Store!ExpiredServesNobody /\ Store!KeyEnds
             Good == OfSession => Store!IInv
  <1>a. Store!ConstantsOK /\ Burst \subseteq Store!Requests
    BY DEF ConstantsOK, Store!Requests
  <1>1. Init => Good
    BY <1>a, StoreInit DEF Init, OfSession
  <1>2. [Next]_vars => (OfSession' <=> OfSession)
    BY DEF Next, vars, OfSession
  <1>3. OfSession /\ Next => Store!Next
    BY <1>a DEF Next, OfSession, Store!Next
  <1>4. Good /\ [Next]_vars => Good'
    <2>1. OfSession /\ [Next]_vars => [Store!Next]_Store!vars
      BY <1>3 DEF vars, storeOnly, Store!vars
    <2>2. QED
      BY <1>a, <1>2, <2>1, StoreNext
  <1>5. Good => (OfSession => Safe)
    BY <1>a, StoreSafe
  <1>6. Good /\ [Next]_vars => [OfSession => Store!GuessStep]_vars
    BY <1>a, <1>3, StoreGuessStep
  <1>7. Spec => [](OfSession => Safe) /\ [][OfSession => Store!GuessStep]_vars
    <2> HIDE DEF Good, Safe
    <2>1. QED
      BY <1>1, <1>4, <1>5, <1>6, PTL DEF Spec
  <1>8. QED
    BY <1>7, PTL DEF SessionLimits

\* Passkeys, for any set of challenges and of repeated requests: a signed
\* response opens one session, audited first, and the stored counter goes
\* back only when sign-ins overlap (PasskeyService).
THEOREM PasskeyCountsOnce ==
    ASSUME ConstantsOK
    PROVE  Spec => PasskeySpentOnce
  <1> DEFINE Safe == Keys!TypeOK /\ Keys!AssertionSpentOnce /\ Keys!SessionsAudited
             Good == ofKeys => Keys!IInv
  <1>a. Keys!ConstantsOK
    BY DEF ConstantsOK
  <1>1. Init => Good
    BY <1>a, KeysInit DEF Init, ofKeys, OfSession
  <1>2. [Next]_vars => (ofKeys' <=> ofKeys)
    BY DEF Next, vars, ofKeys
  <1>3. ofKeys /\ Next => Keys!Next
    BY DEF Next, ofKeys
  <1>4. Good /\ [Next]_vars => Good'
    <2>1. ofKeys /\ [Next]_vars => [Keys!Next]_Keys!vars
      BY <1>3 DEF vars, keysOnly, Keys!vars
    <2>2. QED
      BY <1>a, <1>2, <2>1, KeysNext
  <1>5. Good => (ofKeys => Safe)
    BY <1>a, KeysSafe
  <1>6. Good /\ [Next]_vars => [ofKeys => Keys!CounterStep]_vars
    BY <1>a, <1>3, KeysCounterStep
  <1>7. Spec => [](ofKeys => Safe) /\ [][ofKeys => Keys!CounterStep]_vars
    <2> HIDE DEF Good, Safe
    <2>1. QED
      BY <1>1, <1>4, <1>5, <1>6, PTL DEF Spec
  <1>8. QED
    BY <1>7, PTL DEF PasskeySpentOnce, ofKeys

=============================================================================
