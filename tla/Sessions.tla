------------------------------ MODULE Sessions ------------------------------
(***************************************************************************)
(* One session of Identity's SessionService in Redis, the requests that    *)
(* read, extend and revoke it, and the PIN step-up before a transfer       *)
(* (TransferStepUpService) with its attempt counter and lock.              *)
(*                                                                         *)
(* A request is handled once; each Redis command is a step.  Time moves in *)
(* ticks up to MaxTime, and a key whose expiry has come is gone.           *)
(***************************************************************************)
EXTENDS Integers, FiniteSets, FiniteSetsExt

CONSTANTS
    Gets, StepUps,  \* requests to SessionService.get and to the step-up
    Logouts,        \* requests to SessionService.revoke
    Controls,       \* requests to SessionService.revokeTrusted
    IdleTtl,        \* sessionIdleTtlSeconds
    AbsoluteTtl,    \* sessionAbsoluteTtlSeconds
    LockTtl,        \* transferStepUpLockSeconds
    MaxAttempts,    \* transferStepUpMaxAttempts
    MaxTime         \* bound on the clock

\* The configuration refuses an absolute TTL below the idle one.
ConstantsOK ==
    /\ IsFiniteSet(Gets \cup StepUps \cup Logouts \cup Controls)
    /\ StepUps \cap (Gets \cup Logouts \cup Controls) = {}
    /\ IdleTtl \in Nat \ {0}
    /\ AbsoluteTtl \in Nat \ {0}
    /\ IdleTtl <= AbsoluteTtl
    /\ LockTtl \in Nat \ {0}
    /\ MaxAttempts \in Nat \ {0}
    /\ MaxTime \in Nat

VARIABLES
    now,
    session,    \* the stored session: lastSeen, and when its key expires
    attempts,   \* step-up failures: count, and when the key expires
    lock,       \* when the step-up lock expires
    pc,
    late,       \* requests let through after the absolute expiry
    at          \* when a step-up answered a wrong PIN

vars == <<now, session, attempts, lock, pc, late, at>>
store == <<session, attempts, lock>>

Requests == Gets \cup StepUps \cup Logouts \cup Controls

Never == MaxTime + AbsoluteTtl + LockTtl + 1   \* a key without a TTL
Times == 0 .. Never

TypeOK ==
    /\ now \in 0 .. MaxTime
    /\ session \in [lastSeen : Times, expires : Times]
    /\ attempts \in [count : 0 .. Cardinality(Requests), expires : Times]
    /\ lock \in Times
    /\ pc \in [Requests -> {"start", "touch", "delete", "locked?", "pin",
                            "count", "window", "lock", "reset", "ok", "wrong",
                            "deleted", "done"}]
    /\ late \subseteq Requests
    /\ at \in [StepUps -> Times]

\* SessionService.create at time zero: the absolute expiry is AbsoluteTtl.
Init ==
    /\ now = 0
    /\ session = [lastSeen |-> 0, expires |-> IdleTtl]
    /\ attempts = [count |-> 0, expires |-> 0]
    /\ lock = 0
    /\ pc = [r \in Requests |-> "start"]
    /\ late = {}
    /\ at = [r \in StepUps |-> 0]

Goto(r, label) == pc' = [pc EXCEPT ![r] = label]
Live(expires) == now < expires

-----------------------------------------------------------------------------
\* The absolute expiry is in the stored value; a session past it is deleted
\* (the mutant trusts the key's TTL).
TtlOnly == TRUE
WithinAbsolute == now < AbsoluteTtl

\* What a request does with the session it read; requireCsrf may refuse a
\* logout.
Use(r) ==
    \/ r \in Gets /\ Goto(r, "touch")
    \/ r \in StepUps /\ Goto(r, "locked?")
    \/ r \in Logouts \cup Controls /\ Goto(r, "delete")
    \/ r \in Logouts /\ Goto(r, "done")

\* GET and the checks of read.
Read(r) ==
    /\ pc[r] = "start"
    /\ \/ /\ Live(session.expires)
          /\ WithinAbsolute
          /\ Use(r)
          /\ late' = IF now < AbsoluteTtl THEN late ELSE late \cup {r}
       \/ /\ Live(session.expires)
          /\ ~WithinAbsolute
          /\ Goto(r, "delete")
          /\ UNCHANGED late
       \/ /\ ~Live(session.expires)
          /\ Goto(r, "done")
          /\ UNCHANGED late
    /\ UNCHANGED <<now, store, at>>

\* The TTL get writes: idle, cut at the absolute expiry, at least a second
\* (the mutant forgets the idle time).
TouchAbsolute(t) == Max({1, AbsoluteTtl - t})
TouchTtl(t) == Min({IdleTtl, Max({1, AbsoluteTtl - t})})

\* SET of the session as it was read; the answer needs the user row as well.
Touch(r) ==
    /\ pc[r] = "touch"
    /\ session' = [lastSeen |-> now, expires |-> now + TouchTtl(now)]
    /\ Goto(r, "ok") \/ Goto(r, "done")
    /\ UNCHANGED <<now, attempts, lock, late, at>>

\* DEL, by logout, by the risk service's control, or of a session past its
\* absolute expiry.
Delete(r) ==
    /\ pc[r] = "delete"
    /\ session' = [session EXCEPT !.expires = 0]
    /\ Goto(r, "deleted")
    /\ UNCHANGED <<now, attempts, lock, late, at>>

-----------------------------------------------------------------------------
(* TransferStepUpService.verify *)

CheckLock(r) ==
    /\ pc[r] = "locked?"
    /\ \/ Live(lock) /\ Goto(r, "done")
       \/ ~Live(lock) /\ Goto(r, "pin")
    /\ UNCHANGED <<now, store, late, at>>

\* The user row is read and the PIN hashed; a user that is not ACTIVE fails
\* like a wrong PIN.
CheckPin(r) ==
    /\ pc[r] = "pin"
    /\ Goto(r, "count") \/ Goto(r, "reset")
    /\ UNCHANGED <<now, store, late, at>>

Failures == IF Live(attempts.expires) THEN attempts.count ELSE 0

\* The answer to a wrong PIN.
Refuse(r) ==
    /\ at' = [at EXCEPT ![r] = now]
    /\ Goto(r, "wrong")

\* The failure that locks (the mutant locks one failure too late).
LocksLate(n) == n > MaxAttempts
Locks(n) == n >= MaxAttempts
Counted(r, n) ==
    IF Locks(n) THEN Goto(r, "lock") /\ UNCHANGED at ELSE Refuse(r)

\* INCR, which creates the counter without a TTL.
Count(r) ==
    LET n == Failures + 1
    IN  /\ pc[r] = "count"
        /\ attempts' = [count |-> n,
                        expires |-> IF n = 1 THEN Never ELSE attempts.expires]
        /\ \/ n = 1 /\ Goto(r, "window") /\ UNCHANGED at
           \/ n # 1 /\ Counted(r, n)
        /\ UNCHANGED <<now, session, lock, late>>

\* EXPIRE of the counter, if it still exists.
WindowEnd == now + LockTtl
Window(r) ==
    /\ pc[r] = "window"
    /\ attempts' = IF Live(attempts.expires)
                   THEN [attempts EXCEPT !.expires = WindowEnd]
                   ELSE attempts
    /\ Counted(r, 1)
    /\ UNCHANGED <<now, session, lock, late>>

\* The lock lasts LockTtl from now.
SetLock(r) ==
    /\ pc[r] = "lock"
    /\ lock' = now + LockTtl
    /\ Refuse(r)
    /\ UNCHANGED <<now, session, attempts, late>>

\* A right PIN deletes the counter and leaves the lock.
Reset(r) ==
    /\ pc[r] = "reset"
    /\ attempts' = [count |-> 0, expires |-> 0]
    /\ Goto(r, "ok")
    /\ UNCHANGED <<now, session, lock, late, at>>

\* The process dies, or Redis fails.
Fail(r) ==
    /\ pc[r] \notin {"ok", "wrong", "deleted", "done"}
    /\ Goto(r, "done")
    /\ UNCHANGED <<now, store, late, at>>

Tick ==
    /\ now < MaxTime
    /\ now' = now + 1
    /\ UNCHANGED <<store, pc, late, at>>

Handle(r) ==
    \/ Read(r)
    \/ Touch(r)
    \/ Delete(r)
    \/ CheckLock(r)
    \/ CheckPin(r)
    \/ Count(r)
    \/ Window(r)
    \/ SetLock(r)
    \/ Reset(r)
    \/ Fail(r)

Next == Tick \/ \E r \in Requests : Handle(r)

Spec == Init /\ [][Next]_vars

-----------------------------------------------------------------------------
\* A session read after its absolute expiry serves nobody, although get can
\* write the key back after that moment (read).
ExpiredServesNobody ==
    \A r \in Requests : pc[r] = "ok" => r \notin late

\* The key never outlives the idle time since the last get, nor the absolute
\* expiry by more than the second get rounds up to; reading the subject does
\* not extend it (get, subject).
KeyEnds ==
    Live(session.expires) =>
        /\ session.expires <= session.lastSeen + IdleTtl
        /\ session.expires <= Max({AbsoluteTtl, session.lastSeen + 1})

\* Wrong PINs answered within the last LockTtl.
RecentlyWrong == {q \in StepUps : pc[q] = "wrong" /\ now < at[q] + LockTtl}

\* Nobody reaches the PIN check after a burst of wrong PINs, unless a right one
\* cleared the counter: the counting window starts with its first failure and
\* does not slide, so two windows may meet, but never more than that (verify).
GuessStep ==
    \A r \in StepUps :
        /\ pc[r] = "locked?"
        /\ pc'[r] = "pin"
        /\ \A q \in StepUps : pc[q] # "ok"
        => Cardinality(RecentlyWrong) <= 2 * (MaxAttempts - 1)
GuessesLimited == [][GuessStep]_vars

\* What the decision record says of sessions in Redis: revocation is immediate.
\* A get that read the session before the revocation writes it back (get).
RevokedStaysRevoked ==
    (\E r \in Logouts \cup Controls : pc[r] = "deleted")
        => ~Live(session.expires)

-----------------------------------------------------------------------------
(* The inductive invariant behind the properties *)

\* A request goes through the steps of its own handler.
Placed ==
    \A r \in Requests :
        /\ pc[r] = "touch" => r \in Gets
        /\ pc[r] \in {"locked?", "pin", "count", "window", "lock", "reset", "wrong"}
               => r \in StepUps

\* A failure is counted once; a counter that was never set, or was reset, is
\* gone.
Tried == {r \in Requests : pc[r] \in {"window", "lock", "wrong", "done"}}
CountedOnce ==
    /\ attempts.count <= Cardinality(Tried)
    /\ attempts.count = 0 => attempts.expires = 0

\* What get wrote last, whether it is still live or not.
KeyBound ==
    /\ session.expires <= session.lastSeen + IdleTtl
    /\ session.expires <= Max({AbsoluteTtl, session.lastSeen + 1})

\* Wrong PINs that still matter belong to the window before (old) or to the
\* current one (cur, which holds the request that starts it); the others are
\* LockTtl ago or the lock covers them.  Each window let MaxAttempts - 1 of
\* them pass without a lock.
Wrong == {q \in StepUps : pc[q] = "wrong"}
Starting == {q \in StepUps : pc[q] = "window"}
Windows(old, cur) ==
    /\ Starting \subseteq cur
    /\ \A q \in Wrong : \/ q \in old \cup cur
                         \/ now >= at[q] + LockTtl
                         \/ lock >= at[q] + LockTtl
    /\ \A q \in old : at[q] + LockTtl <= attempts.expires
    /\ \A q \in cur \ Starting : at[q] < attempts.expires
    /\ Cardinality(old) <= MaxAttempts - 1
    /\ Cardinality(cur) <= attempts.count
    /\ Cardinality(cur) <= MaxAttempts - 1 \/ cur \subseteq Starting
NoneRight == \A q \in StepUps : pc[q] # "ok"
WindowsKept ==
    /\ Starting # {} => attempts.expires = Never
    /\ \A p, q \in Starting : p = q
    /\ \E old \in SUBSET Wrong, cur \in SUBSET (Wrong \cup Starting) :
           Windows(old, cur)
GuessesCounted == NoneRight => WindowsKept

IInv ==
    /\ TypeOK /\ Placed /\ CountedOnce /\ KeyBound /\ late = {}
    /\ \A q \in StepUps : at[q] <= now
    /\ GuessesCounted
============================================================================
