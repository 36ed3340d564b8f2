---------------------------- MODULE RateWindows ----------------------------
(***************************************************************************)
(* The gateway's rate limiter: one fixed window per address and bucket in  *)
(* a Map that is bounded by evicting entries in insertion order.           *)
(***************************************************************************)
EXTENDS Integers, Sequences, SequencesExt

CONSTANTS Keys,         \* address and bucket name
          Limit,        \* requests per window of the bucket
          Length,       \* RATE_LIMIT_WINDOW_MS
          MaxEntries,   \* maximumEntries
          MaxTime,      \* bound on the clock
          MaxRequests   \* bound on the requests of one key in one window

ConstantsOK == {Limit, Length, MaxEntries, MaxTime, MaxRequests} \subseteq Nat \ {0}

VARIABLES now,
          order,        \* the Map's keys in insertion order
          window,       \* [Keys -> [count, expiresAt]] of the keys in order
          since,        \* [Keys -> start of the caller's present minute]
          passed,       \* [Keys -> requests let through in that minute, up to Limit + 1]
          evicted,      \* keys whose window was evicted before its end
          last          \* the last request: [key, told]

vars == <<now, order, window, since, passed, evicted, last>>

None == [count |-> 0, expiresAt |-> 0]
Fresh == [count |-> 0, expiresAt |-> now + Length]

Init == /\ now = 0 /\ order = <<>> /\ window = [k \in Keys |-> None]
        /\ since = [k \in Keys |-> 0] /\ passed = [k \in Keys |-> 0]
        /\ evicted = {} /\ last = [key |-> "none", told |-> "passed"]

Known(k) == Contains(order, k)

\* (the mutant) a window counts for ever
NeverRenewed(k) == IF Known(k) THEN window[k] ELSE Fresh
Current(k) == IF Known(k) /\ window[k].expiresAt > now THEN window[k] ELSE Fresh

\* (the mutant) the limit itself is let through once more
OverLate(count) == count > Limit + 1
Over(count) == count > Limit

\* (the mutant) only expired entries are deleted
ExpiredOnly(keys, win) == SelectSeq(keys, LAMBDA k : win[k].expiresAt > now)

\* Iterating the Map: an entry goes when it has expired or while the Map is
\* still too large, so at most the first live entry is evicted.
Evict(keys, win) ==
  IF Len(keys) <= MaxEntries THEN keys
  ELSE FoldLeft(LAMBDA left, k :
                  IF win[k].expiresAt <= now \/ Len(left) > MaxEntries
                  THEN Remove(left, k) ELSE left,
                keys, keys)

Use(k) ==
  LET win  == [window EXCEPT ![k] = [Current(k) EXCEPT !.count = @ + 1]]
      keys == IF Known(k) THEN order ELSE Append(order, k)
      kept == Evict(keys, win)
      gone == {j \in Keys : Contains(keys, j) /\ ~Contains(kept, j)}
      new  == since[k] + Length <= now
      told == IF Over(win[k].count) THEN "limited" ELSE "passed"
      base == IF new THEN 0 ELSE passed[k]
  IN /\ win[k].count <= MaxRequests
     /\ order' = kept
     /\ window' = [j \in Keys |-> IF j \in gone THEN None ELSE win[j]]
     /\ since' = IF new \/ base = 0 THEN [since EXCEPT ![k] = now] ELSE since
     /\ passed' = [passed EXCEPT ![k] = IF told = "passed" /\ base <= Limit
                                          THEN base + 1 ELSE base]
     /\ evicted' = evicted \union {j \in gone : win[j].expiresAt > now}
     /\ last' = [key |-> k, told |-> told]
     /\ UNCHANGED now

Tick == /\ now < MaxTime
        /\ now' = now + 1
        /\ UNCHANGED <<order, window, since, passed, evicted, last>>

Next == Tick \/ \E k \in Keys : Use(k)

Spec == Init /\ [][Next]_vars

-----------------------------------------------------------------------------
\* The Map never outgrows maximumEntries and holds a key once: whatever
\* order entries expire in, one request adds at most one and evicts it again.
MapBounded == /\ Len(order) <= MaxEntries
              /\ IsInjective(order)

\* A caller gets more than the bucket's limit within one minute of its first
\* request only if its live window was evicted by other callers' keys.
BudgetUnlessEvicted ==
  \A k \in Keys : passed[k] > Limit => k \in evicted

\* A caller whose windows were left alone is told RATE_LIMITED only when it
\* has spent the limit in its present minute: no old window locks it out.
LimitedHasSpent ==
  last.told = "limited" /\ last.key \notin evicted => passed[last.key] >= Limit
=============================================================================
