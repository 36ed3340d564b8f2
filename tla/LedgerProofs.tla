---------------------------- MODULE LedgerProofs ----------------------------
(***************************************************************************)
(* Proofs about the Ledger for every set of accounts, requests and         *)
(* workers.  The inductive invariant ties the three kinds of reservation   *)
(* (index slot, row locks, worker position) to the committed facts:        *)
(*   - a slot is held exactly by the worker whose transaction took it,     *)
(*     and only while its key has no committed record;                     *)
(*   - a row lock is held only inside a transaction that posts to the row, *)
(*     and what was read with it is still committed;                       *)
(*   - a key's record names the one request of that key with a journal.    *)
(***************************************************************************)
EXTENDS Ledger, Sums

\* A worker past its first read serves a real request.
Serving ==
    \A w \in Workers : pc[w] # "idle" => request[w] \in Requests

\* Only a worker that has replied has something to say.
Silent == \A w \in Workers : pc[w] # "replied" => reply[w] = NoReply

\* The index slot of a key belongs to the transaction serving it.
SlotHeld ==
    \A k \in Keys, w \in Workers :
        reserved[k] = w <=> InTransaction(w) /\ KeyOf[request[w]] = k

\* A slot is only ever taken for a key without a committed record.
SlotFresh ==
    \A k \in Keys : reserved[k] # NoWorker => record[k] = NoRequest

\* Row locks belong to transactions that post to the row.
LocksScoped ==
    \A a \in Accounts, w \in Workers :
        lockedBy[a] = w => InTransaction(w) /\ a \in Touched(request[w])

\* A transaction writes only once it holds every lock it needs.
AllLocked == \A w \in Workers : pc[w] = "write" => Unlocked(w) = {}

\* The record of a key is the exact account of what the key has posted.
RecordExact ==
    \A k \in Keys, r \in Requests :
        KeyOf[r] = k => posted[r] = IF record[k] = r THEN 1 ELSE 0

RecordKeyed ==
    \A k \in Keys : record[k] # NoRequest => KeyOf[record[k]] = k

IInv ==
    /\ TypeOK
    /\ Serving
    /\ Silent
    /\ SlotHeld
    /\ SlotFresh
    /\ LocksScoped
    /\ AllLocked
    /\ LockOrder
    /\ LockedReadsFresh
    /\ RecordExact
    /\ RecordKeyed
    /\ NoOverdraft
    /\ ReplyNamesOriginal

-----------------------------------------------------------------------------
\* Adding a request's postings to a pair of totals gives a pair of totals.
LEMMA AppliedType ==
    ASSUME NEW r \in Requests, NEW a \in Accounts, NEW t \in Totals
    PROVE  applyDirection(r, a, t) \in Totals
  <1>1. PostingsOf[r][a] \in Totals
    BY LedgerAssumption
  <1>2. QED
    BY <1>1 DEF applyDirection, Totals

\* The answers a worker gives are replies.
LEMMA ReplyType ==
    /\ \A r \in Requests : Journal(r) \in Replies
    /\ \A k \in {"NONE", "REFUSED", "UNBALANCED_JOURNAL",
                 "IDEMPOTENCY_CONFLICT", "DUPLICATE_REFERENCE"} :
           Answer(k) \in Replies
  BY DEF Journal, Answer, Replies

\* Balances are integers.
LEMMA BalanceInt ==
    ASSUME NEW a \in Accounts, NEW t \in Totals
    PROVE  signedBalanceMinor(a, t) \in Int
  BY DEF signedBalanceMinor, Totals

\* Releasing what w holds leaves every other holder in place.
LEMMA ReleasedType ==
    ASSUME NEW S, NEW f \in [S -> Workers \cup {NoWorker}], NEW w \in Workers
    PROVE  /\ Released(f, w) \in [S -> Workers \cup {NoWorker}]
           /\ \A x \in S, v \in Workers :
                  Released(f, w)[x] = v <=> f[x] = v /\ v # w
           /\ \A x \in S : f[x] = w => Released(f, w)[x] = NoWorker
           /\ \A x \in S : Released(f, w)[x] # NoWorker => f[x] # NoWorker
  BY LedgerAssumption DEF Released

-----------------------------------------------------------------------------
LEMMA InitInv == Init => IInv
  <1> SUFFICES ASSUME Init PROVE IInv
    OBVIOUS
  <1> USE LedgerAssumption DEF Init
  <1>1. TypeOK
    BY ReplyType DEF TypeOK, NoReply
  <1>2. Serving /\ SlotHeld /\ SlotFresh /\ LocksScoped /\ AllLocked
    BY DEF Serving, SlotHeld, SlotFresh, LocksScoped, AllLocked, InTransaction
  <1>3. LockOrder /\ LockedReadsFresh
    BY DEF LockOrder, LockedReadsFresh, Holds
  <1>4. RecordExact /\ RecordKeyed /\ NoOverdraft
    BY DEF RecordExact, RecordKeyed, NoOverdraft
  <1>5. ReplyNamesOriginal /\ Silent
    BY DEF ReplyNamesOriginal, Silent, NoReply, Answer
  <1>6. QED
    BY <1>1, <1>2, <1>3, <1>4, <1>5 DEF IInv

-----------------------------------------------------------------------------
\* Type correctness of every step, one action at a time.
LEMMA NextType == IInv /\ [Next]_vars => TypeOK'
  <1> SUFFICES ASSUME IInv, [Next]_vars PROVE TypeOK'
    OBVIOUS
  <1> USE DEF IInv
  <1>1. ASSUME NEW w \in Workers, NEW r \in Requests, Submit(w, r)
        PROVE  TypeOK'
    BY <1>1, ReplyType DEF TypeOK, Submit, Reply
  <1>2. ASSUME NEW w \in Workers, pc[w] # "idle", replayIfSettled(w)
        PROVE  TypeOK'
    <2>1. record[KeyOf[request[w]]] \in Requests
      BY <1>2, LedgerAssumption DEF TypeOK, Serving, replayIfSettled
    <2>2. QED
      BY <1>2, <2>1, ReplyType DEF TypeOK, replayIfSettled, Reply
  <1>3. ASSUME NEW w \in Workers, Lookup(w) PROVE TypeOK'
    BY <1>2, <1>3 DEF TypeOK, Lookup
  <1>4. ASSUME NEW w \in Workers, Reserve(w) PROVE TypeOK'
    <2>1. KeyOf[request[w]] \in Keys
      BY <1>4, LedgerAssumption DEF Reserve, Serving
    <2>2. CASE replayIfSettled(w)
      BY <1>2, <1>4, <2>2 DEF Reserve
    <2>3. CASE ~replayIfSettled(w)
      BY <1>4, <2>1, <2>3 DEF TypeOK, Reserve
    <2>4. QED
      BY <2>2, <2>3
  <1>5. ASSUME NEW w \in Workers, LockAccount(w) PROVE TypeOK'
    BY <1>5 DEF TypeOK, LockAccount
  <1>6. ASSUME NEW w \in Workers, LocksHeld(w) PROVE TypeOK'
    BY <1>6 DEF TypeOK, LocksHeld
  <1>7. ASSUME NEW w \in Workers, Rollback(w) PROVE TypeOK'
    <2>1. Answer(Refusal(w)) \in Replies
      BY ReplyType DEF Refusal
    <2>2. QED
      BY <1>7, <2>1, ReleasedType DEF TypeOK, Rollback, Reply
  <1>8. ASSUME NEW w \in Workers, Commit(w) PROVE TypeOK'
    <2>1. request[w] \in Requests
      BY <1>8 DEF Commit, Serving
    <2>2. projection' \in [Accounts -> Totals]
      BY <1>8, <2>1, AppliedType DEF TypeOK, Commit, Projected
    <2>3. Journal(request[w]) \in Replies
      BY <2>1, ReplyType
    <2>4. /\ reserved' \in [Keys -> Workers \cup {NoWorker}]
          /\ lockedBy' \in [Accounts -> Workers \cup {NoWorker}]
      BY <1>8, ReleasedType DEF TypeOK, Commit
    <2>9. KeyOf[request[w]] \in Keys
      BY <2>1, LedgerAssumption
    <2>5. /\ posted' \in [Requests -> Nat]
          /\ record' \in [Keys -> Requests \cup {NoRequest}]
      <3>1. /\ posted' = [posted EXCEPT ![request[w]] = @ + 1]
            /\ record' = [record EXCEPT ![KeyOf[request[w]]] = request[w]]
        BY <1>8 DEF Commit
      <3>2. QED
        BY <2>1, <2>9, <3>1 DEF TypeOK
    <2>6. /\ pc' = [pc EXCEPT ![w] = "replied"]
          /\ reply' = [reply EXCEPT ![w] = Journal(request[w])]
          /\ UNCHANGED <<request, read>>
      BY <1>8 DEF Commit, Reply
    <2>7. QED
      BY <2>2, <2>3, <2>4, <2>5, <2>6 DEF TypeOK
  <1>9. ASSUME NEW w \in Workers, Return(w) PROVE TypeOK'
    BY <1>9, ReplyType, LedgerAssumption DEF TypeOK, Return, NoReply
  <1>10. ASSUME NEW w \in Workers, Crash(w) PROVE TypeOK'
    BY <1>10, ReleasedType, LedgerAssumption DEF TypeOK, Crash
  <1>11. CASE UNCHANGED vars
    BY <1>11 DEF TypeOK, vars
  <1>12. QED
    BY <1>1, <1>3, <1>4, <1>5, <1>6, <1>7, <1>8, <1>9, <1>10, <1>11
    DEF Next, Serve

-----------------------------------------------------------------------------
\* The invariant without its type part, as one fact about a step.
Ties ==
    /\ Serving /\ Silent /\ SlotHeld /\ SlotFresh
    /\ LocksScoped /\ AllLocked /\ LockOrder /\ LockedReadsFresh
    /\ RecordExact /\ RecordKeyed /\ NoOverdraft /\ ReplyNamesOriginal

LEMMA SubmitInv ==
    ASSUME IInv, NEW w \in Workers, NEW r \in Requests, Submit(w, r)
    PROVE  Ties'
  <1> USE DEF IInv
  <1>1. /\ pc[w] = "idle"
        /\ pc' \in {[pc EXCEPT ![w] = "replied"], [pc EXCEPT ![w] = "lookup"]}
        /\ request' = [request EXCEPT ![w] = r]
        /\ UNCHANGED <<projection, posted, record, reserved, lockedBy, read>>
    BY DEF Submit, Reply
  <1>8. /\ reply'[w].kind # "JOURNAL"
        /\ pc'[w] # "replied" => reply'[w] = NoReply
        /\ \A v \in Workers \ {w} : reply'[v] = reply[v]
    <2>1. reply[w] = NoReply
      BY <1>1 DEF Silent
    <2>2. \A k : Answer(k).kind = k
      BY DEF Answer
    <2>3. \/ \E k \in {"REFUSED", "UNBALANCED_JOURNAL"} :
                reply' = [reply EXCEPT ![w] = Answer(k)] /\ pc'[w] = "replied"
          \/ UNCHANGED reply
      BY DEF Submit, Reply, TypeOK
    <2>4. QED
      BY <2>1, <2>2, <2>3 DEF NoReply, TypeOK
  <1>2. Serving' /\ SlotHeld' /\ SlotFresh'
    BY <1>1 DEF TypeOK, Serving, SlotHeld, SlotFresh, InTransaction
  <1>3. LocksScoped' /\ AllLocked'
    BY <1>1 DEF TypeOK, LocksScoped, AllLocked, InTransaction, Touched, Unlocked
  <1>4. LockOrder' /\ LockedReadsFresh'
    BY <1>1 DEF TypeOK, LockOrder, LockedReadsFresh, Holds, Unlocked, Touched
  <1>5. RecordExact' /\ RecordKeyed' /\ NoOverdraft'
    BY <1>1 DEF RecordExact, RecordKeyed, NoOverdraft
  <1>6. ReplyNamesOriginal' /\ Silent'
    BY <1>1, <1>8 DEF TypeOK, ReplyNamesOriginal, Silent
  <1>7. QED
    BY <1>2, <1>3, <1>4, <1>5, <1>6 DEF Ties

LEMMA ReplayInv ==
    ASSUME IInv, NEW w \in Workers, pc[w] \in {"lookup", "reserve"},
           replayIfSettled(w)
    PROVE  Ties'
  <1> USE DEF IInv
  <1> DEFINE q == request[w]
             found == record[KeyOf[q]]
  <1>1. /\ pc' = [pc EXCEPT ![w] = "replied"]
        /\ UNCHANGED <<projection, posted, record, reserved, lockedBy, request,
                       read>>
    BY DEF replayIfSettled, Reply
  <1>2. Serving' /\ SlotHeld' /\ SlotFresh'
    BY <1>1 DEF TypeOK, Serving, SlotHeld, SlotFresh, InTransaction
  <1>3. LocksScoped' /\ AllLocked'
    BY <1>1 DEF TypeOK, LocksScoped, AllLocked, InTransaction, Touched, Unlocked
  <1>4. LockOrder' /\ LockedReadsFresh'
    BY <1>1 DEF TypeOK, LockOrder, LockedReadsFresh, Holds, Unlocked, Touched
  <1>5. RecordExact' /\ RecordKeyed' /\ NoOverdraft'
    BY <1>1 DEF RecordExact, RecordKeyed, NoOverdraft
  <1>6. ReplyNamesOriginal' /\ Silent'
    <2>1. q \in Requests /\ KeyOf[q] \in Keys
      BY LedgerAssumption DEF Serving
    <2>2. found = q => posted[q] = 1
      BY <2>1 DEF RecordExact
    <2>3. \/ found = q /\ reply' = [reply EXCEPT ![w] = Journal(found)]
          \/ reply' = [reply EXCEPT ![w] = Answer("IDEMPOTENCY_CONFLICT")]
      BY DEF replayIfSettled, Reply
    <2>4. Answer("IDEMPOTENCY_CONFLICT").kind # "JOURNAL" /\ Journal(q).of = q
      BY DEF Answer, Journal
    <2>5. ReplyNamesOriginal'
      BY <1>1, <2>1, <2>2, <2>3, <2>4 DEF TypeOK, ReplyNamesOriginal
    <2>6. Silent'
      BY <1>1, <2>3 DEF TypeOK, Silent
    <2>7. QED
      BY <2>5, <2>6
  <1>7. QED
    BY <1>2, <1>3, <1>4, <1>5, <1>6 DEF Ties

LEMMA LookupInv ==
    ASSUME IInv, NEW w \in Workers, Lookup(w)
    PROVE  Ties'
  <1> USE DEF IInv
  <1>1. CASE replayIfSettled(w)
    BY <1>1, ReplayInv DEF Lookup
  <1>2. CASE ~replayIfSettled(w)
    <2>1. /\ pc[w] = "lookup" /\ pc' = [pc EXCEPT ![w] = "reserve"]
          /\ UNCHANGED <<projection, posted, record, reserved, lockedBy,
                         request, read, reply>>
      BY <1>2 DEF Lookup
    <2>2. Serving' /\ SlotHeld' /\ SlotFresh'
      BY <2>1 DEF TypeOK, Serving, SlotHeld, SlotFresh, InTransaction
    <2>3. LocksScoped' /\ AllLocked'
      BY <2>1 DEF TypeOK, LocksScoped, AllLocked, InTransaction, Touched,
                  Unlocked
    <2>4. LockOrder' /\ LockedReadsFresh'
      BY <2>1 DEF TypeOK, LockOrder, LockedReadsFresh, Holds, Unlocked, Touched
    <2>5. RecordExact' /\ RecordKeyed' /\ NoOverdraft'
      BY <2>1 DEF RecordExact, RecordKeyed, NoOverdraft
    <2>6. ReplyNamesOriginal' /\ Silent'
      BY <2>1 DEF TypeOK, ReplyNamesOriginal, Silent
    <2>7. QED
      BY <2>2, <2>3, <2>4, <2>5, <2>6 DEF Ties
  <1>3. QED
    BY <1>1, <1>2

LEMMA ReserveInv ==
    ASSUME IInv, NEW w \in Workers, Reserve(w)
    PROVE  Ties'
  <1> USE DEF IInv
  <1> DEFINE k == KeyOf[request[w]]
  <1>1. CASE replayIfSettled(w)
    BY <1>1, ReplayInv DEF Reserve
  <1>2. CASE ~replayIfSettled(w)
    <2>1. /\ pc[w] = "reserve" /\ pc' = [pc EXCEPT ![w] = "lock"]
          /\ reserved[k] = NoWorker /\ reserved' = [reserved EXCEPT ![k] = w]
          /\ record[k] = NoRequest
          /\ UNCHANGED <<projection, posted, record, lockedBy, request, read,
                         reply>>
      BY <1>2 DEF Reserve
    <2>2. k \in Keys
      BY <2>1, LedgerAssumption DEF Serving
    <2>3. Serving' /\ SlotFresh'
      BY <2>1, <2>2 DEF TypeOK, Serving, SlotFresh
    <2>4. SlotHeld'
      BY <2>1, <2>2, LedgerAssumption DEF TypeOK, SlotHeld, InTransaction
    <2>5. LocksScoped' /\ AllLocked'
      BY <2>1 DEF TypeOK, LocksScoped, AllLocked, InTransaction, Touched,
                  Unlocked
    <2>6. Holds(w) = {}
      BY <2>1 DEF LocksScoped, InTransaction, Holds
    <2>7. LockOrder' /\ LockedReadsFresh'
      BY <2>1, <2>6
      DEF TypeOK, LockOrder, LockedReadsFresh, Holds, Unlocked, Touched
    <2>8. RecordExact' /\ RecordKeyed' /\ NoOverdraft'
      BY <2>1 DEF RecordExact, RecordKeyed, NoOverdraft
    <2>9. ReplyNamesOriginal' /\ Silent'
      BY <2>1 DEF TypeOK, ReplyNamesOriginal, Silent
    <2>10. QED
      BY <2>3, <2>4, <2>5, <2>7, <2>8, <2>9 DEF Ties
  <1>3. QED
    BY <1>1, <1>2

LEMMA LockAccountInv ==
    ASSUME IInv, NEW w \in Workers, LockAccount(w)
    PROVE  Ties'
  <1> USE DEF IInv
  <1>1. PICK a \in Accounts :
            /\ IsNext(w, a) /\ lockedBy[a] = NoWorker
            /\ lockedBy' = [lockedBy EXCEPT ![a] = w]
            /\ read' = [read EXCEPT ![w][a] = projection[a]]
    BY DEF LockAccount
  <1>2. /\ pc[w] = "lock"
        /\ UNCHANGED <<projection, posted, record, reserved, pc, request,
                       reply>>
    BY DEF LockAccount
  <1>3. Serving' /\ SlotHeld' /\ SlotFresh'
    BY <1>2 DEF TypeOK, Serving, SlotHeld, SlotFresh, InTransaction
  <1>4. LocksScoped' /\ AllLocked'
    BY <1>1, <1>2, LedgerAssumption
    DEF TypeOK, LocksScoped, AllLocked, InTransaction, Touched, Unlocked, IsNext
  <1>5. LockedReadsFresh'
    BY <1>1, <1>2, LedgerAssumption DEF TypeOK, LockedReadsFresh, Holds
  <1>6. LockOrder'
    <2>1. ASSUME NEW v \in Workers, pc[v] = "lock",
                 NEW x \in Unlocked(v)', NEW b \in Holds(v)'
          PROVE  Rank[b] < Rank[x]
      <3>1. x \in Unlocked(v) /\ x \in Accounts /\ b \in Accounts
        BY <1>1, <1>2, <2>1, LedgerAssumption
        DEF TypeOK, Unlocked, Touched, Holds
      <3>2. CASE b \in Holds(v)
        BY <2>1, <3>1, <3>2 DEF LockOrder
      <3>3. CASE b \notin Holds(v)
        <4>1. v = w /\ b = a
          BY <1>1, <2>1, <3>3, LedgerAssumption DEF TypeOK, Holds
        <4>2. x # a
          <5>1. lockedBy'[x] # w
            BY <2>1, <4>1 DEF Unlocked
          <5>2. lockedBy'[a] = w
            BY <1>1 DEF TypeOK
          <5>3. QED
            BY <5>1, <5>2
        <4>3. Rank[a] <= Rank[x] /\ Rank[a] # Rank[x]
          BY <1>1, <3>1, <4>1, <4>2, LedgerAssumption DEF IsNext
        <4>4. Rank[a] \in Nat /\ Rank[x] \in Nat
          BY <3>1, LedgerAssumption
        <4>5. QED
          BY <4>1, <4>3, <4>4
      <3>4. QED
        BY <3>2, <3>3
    <2>2. QED
      BY <1>2, <2>1 DEF LockOrder
  <1>7. RecordExact' /\ RecordKeyed' /\ NoOverdraft'
    BY <1>2 DEF RecordExact, RecordKeyed, NoOverdraft
  <1>8. ReplyNamesOriginal' /\ Silent'
    BY <1>2 DEF TypeOK, ReplyNamesOriginal, Silent
  <1>9. QED
    BY <1>3, <1>4, <1>5, <1>6, <1>7, <1>8 DEF Ties

LEMMA LocksHeldInv ==
    ASSUME IInv, NEW w \in Workers, LocksHeld(w)
    PROVE  Ties'
  <1> USE DEF IInv
  <1>1. /\ pc[w] = "lock" /\ pc' = [pc EXCEPT ![w] = "write"]
        /\ Unlocked(w) = {}
        /\ UNCHANGED <<projection, posted, record, reserved, lockedBy, request,
                       read, reply>>
    BY DEF LocksHeld
  <1>2. Serving' /\ SlotHeld' /\ SlotFresh'
    BY <1>1 DEF TypeOK, Serving, SlotHeld, SlotFresh, InTransaction
  <1>3. LocksScoped' /\ AllLocked'
    BY <1>1 DEF TypeOK, LocksScoped, AllLocked, InTransaction, Touched, Unlocked
  <1>4. LockOrder' /\ LockedReadsFresh'
    BY <1>1 DEF TypeOK, LockOrder, LockedReadsFresh, Holds, Unlocked, Touched
  <1>5. RecordExact' /\ RecordKeyed' /\ NoOverdraft'
    BY <1>1 DEF RecordExact, RecordKeyed, NoOverdraft
  <1>6. ReplyNamesOriginal' /\ Silent'
    BY <1>1 DEF TypeOK, ReplyNamesOriginal, Silent
  <1>7. QED
    BY <1>2, <1>3, <1>4, <1>5, <1>6 DEF Ties

\* What ROLLBACK and COMMIT have in common: w leaves its transaction, its slot
\* and its row locks are free, and everybody else keeps theirs.
LEMMA ReleaseInv ==
    ASSUME IInv, NEW w \in Workers, NEW p \in {"idle", "replied"},
           pc' = [pc EXCEPT ![w] = p],
           reserved' = Released(reserved, w), lockedBy' = Released(lockedBy, w),
           \A v \in Workers \ {w} : request'[v] = request[v]
    PROVE  /\ SlotHeld' /\ LocksScoped' /\ AllLocked' /\ LockOrder'
           /\ \A v \in Workers : Holds(v)' = IF v = w THEN {} ELSE Holds(v)
           /\ \A k \in Keys : reserved'[k] # NoWorker => record[k] = NoRequest
  <1> USE DEF IInv
  <1>1. /\ \A k \in Keys, v \in Workers :
               reserved'[k] = v <=> reserved[k] = v /\ v # w
        /\ \A a \in Accounts, v \in Workers :
               lockedBy'[a] = v <=> lockedBy[a] = v /\ v # w
    BY ReleasedType DEF TypeOK
  <1>2. \A v \in Workers : IF v = w THEN pc'[v] = p ELSE pc'[v] = pc[v]
    BY DEF TypeOK
  <1>3. SlotHeld'
    BY <1>1, <1>2 DEF SlotHeld, InTransaction
  <1>4. LocksScoped'
    BY <1>1, <1>2 DEF LocksScoped, InTransaction, Touched
  <1>5. \A v \in Workers : Holds(v)' = IF v = w THEN {} ELSE Holds(v)
    BY <1>1 DEF Holds
  <1>6. \A v \in Workers \ {w} : Unlocked(v)' = Unlocked(v)
    BY <1>1 DEF Unlocked, Touched
  <1>7. AllLocked'
    BY <1>2, <1>6 DEF AllLocked
  <1>8. LockOrder'
    BY <1>2, <1>5, <1>6 DEF LockOrder
  <1>9. \A k \in Keys : reserved'[k] # NoWorker => record[k] = NoRequest
    <2>1. \A k \in Keys : reserved'[k] # NoWorker => reserved[k] # NoWorker
      <3>1. reserved \in [Keys -> Workers \cup {NoWorker}]
        BY DEF TypeOK
      <3>2. QED
        BY <3>1, ReleasedType
    <2>2. QED
      BY <2>1 DEF SlotFresh
  <1>10. QED
    BY <1>3, <1>4, <1>5, <1>7, <1>8, <1>9

LEMMA RollbackInv ==
    ASSUME IInv, NEW w \in Workers, Rollback(w)
    PROVE  Ties'
  <1> USE DEF IInv
  <1>1. /\ pc' = [pc EXCEPT ![w] = "replied"]
        /\ reply' = [reply EXCEPT ![w] = Answer(Refusal(w))]
        /\ reserved' = Released(reserved, w)
        /\ lockedBy' = Released(lockedBy, w)
        /\ UNCHANGED <<projection, posted, record, request, read>>
        /\ pc[w] = "write"
    BY DEF Rollback, Reply
  <1>2. /\ SlotHeld' /\ LocksScoped' /\ AllLocked' /\ LockOrder'
        /\ \A v \in Workers : Holds(v)' = IF v = w THEN {} ELSE Holds(v)
        /\ \A k \in Keys : reserved'[k] # NoWorker => record[k] = NoRequest
    BY <1>1, ReleaseInv
  <1>3. Serving'
    BY <1>1 DEF TypeOK, Serving
  <1>4. SlotFresh'
    BY <1>1, <1>2 DEF SlotFresh
  <1>5. LockedReadsFresh'
    BY <1>1, <1>2 DEF LockedReadsFresh
  <1>6. RecordExact' /\ RecordKeyed' /\ NoOverdraft'
    BY <1>1 DEF RecordExact, RecordKeyed, NoOverdraft
  <1>7. ReplyNamesOriginal' /\ Silent'
    <2>1. Answer(Refusal(w)).kind # "JOURNAL"
      BY DEF Answer, Refusal
    <2>2. QED
      BY <1>1, <2>1 DEF TypeOK, ReplyNamesOriginal, Silent
  <1>8. QED
    BY <1>2, <1>3, <1>4, <1>5, <1>6, <1>7 DEF Ties

LEMMA ReturnInv ==
    ASSUME IInv, NEW w \in Workers, Return(w)
    PROVE  Ties'
  <1> USE DEF IInv
  <1>1. /\ pc[w] = "replied" /\ pc' = [pc EXCEPT ![w] = "idle"]
        /\ request' = [request EXCEPT ![w] = NoRequest]
        /\ reply' = [reply EXCEPT ![w] = NoReply]
        /\ read' = [read EXCEPT ![w] = OpeningTotals]
        /\ UNCHANGED <<projection, posted, record, reserved, lockedBy>>
    BY DEF Return
  <1>2. Holds(w) = {}
    BY <1>1 DEF LocksScoped, InTransaction, Holds
  <1>3. Serving' /\ SlotHeld' /\ SlotFresh'
    BY <1>1 DEF TypeOK, Serving, SlotHeld, SlotFresh, InTransaction
  <1>4. LocksScoped' /\ AllLocked'
    BY <1>1 DEF TypeOK, LocksScoped, AllLocked, InTransaction, Touched, Unlocked
  <1>5. LockOrder' /\ LockedReadsFresh'
    BY <1>1, <1>2
    DEF TypeOK, LockOrder, LockedReadsFresh, Holds, Unlocked, Touched
  <1>6. RecordExact' /\ RecordKeyed' /\ NoOverdraft'
    BY <1>1 DEF RecordExact, RecordKeyed, NoOverdraft
  <1>7. ReplyNamesOriginal' /\ Silent'
    <2>1. NoReply.kind # "JOURNAL"
      BY DEF NoReply, Answer
    <2>2. QED
      BY <1>1, <2>1 DEF TypeOK, ReplyNamesOriginal, Silent
  <1>8. QED
    BY <1>3, <1>4, <1>5, <1>6, <1>7 DEF Ties

LEMMA CrashInv ==
    ASSUME IInv, NEW w \in Workers, Crash(w)
    PROVE  Ties'
  <1> USE DEF IInv
  <1>1. /\ pc[w] \in {"lookup", "reserve", "lock", "write"}
        /\ pc' = [pc EXCEPT ![w] = "idle"]
        /\ request' = [request EXCEPT ![w] = NoRequest]
        /\ reserved' = Released(reserved, w)
        /\ lockedBy' = Released(lockedBy, w)
        /\ read' = [read EXCEPT ![w] = OpeningTotals]
        /\ UNCHANGED <<projection, posted, record, reply>>
    BY DEF Crash
  <1>2. \A v \in Workers \ {w} : request'[v] = request[v] /\ read'[v] = read[v]
    BY <1>1 DEF TypeOK
  <1>3. /\ SlotHeld' /\ LocksScoped' /\ AllLocked' /\ LockOrder'
        /\ \A v \in Workers : Holds(v)' = IF v = w THEN {} ELSE Holds(v)
        /\ \A k \in Keys : reserved'[k] # NoWorker => record[k] = NoRequest
    BY <1>1, <1>2, ReleaseInv
  <1>4. Serving'
    BY <1>1 DEF TypeOK, Serving
  <1>5. SlotFresh'
    BY <1>1, <1>3 DEF SlotFresh
  <1>6. LockedReadsFresh'
    BY <1>1, <1>2, <1>3 DEF LockedReadsFresh
  <1>7. RecordExact' /\ RecordKeyed' /\ NoOverdraft'
    BY <1>1 DEF RecordExact, RecordKeyed, NoOverdraft
  <1>8. ReplyNamesOriginal' /\ Silent'
    <2>1. reply[w].kind # "JOURNAL" /\ reply[w] = NoReply
      BY <1>1 DEF Silent, NoReply, Answer
    <2>2. QED
      BY <1>1, <2>1 DEF TypeOK, ReplyNamesOriginal, Silent
  <1>9. QED
    BY <1>3, <1>4, <1>5, <1>6, <1>7, <1>8 DEF Ties

\* What a commit does to the book: the absolute totals it writes, computed
\* from rows it read earlier, are the committed totals plus its own postings.
LEMMA CommitExact ==
    ASSUME IInv, NEW w \in Workers, Commit(w)
    PROVE  /\ request[w] \in Requests
           /\ \A a \in Touched(request[w]) : lockedBy[a] = w
           /\ \A a \in Touched(request[w]) :
                  Projected(w, a) = applyDirection(request[w], a, projection[a])
           /\ posted' = [posted EXCEPT ![request[w]] = @ + 1]
           /\ projection' = [a \in Accounts |->
                                 applyDirection(request[w], a, projection[a])]
           /\ \A a \in Accounts \ Touched(request[w]) :
                  projection'[a] = projection[a]
  <1> USE DEF IInv
  <1> DEFINE r == request[w]
  <1>1. /\ pc[w] = "write" /\ posted' = [posted EXCEPT ![r] = @ + 1]
        /\ projection' = [a \in Accounts |->
                               IF a \in Touched(r) THEN Projected(w, a)
                                                   ELSE projection[a]]
    BY DEF Commit
  <1>2. r \in Requests
    BY <1>1 DEF Serving
  <1>3. \A a \in Touched(r) : a \in Accounts /\ lockedBy[a] = w
    BY <1>1 DEF AllLocked, Unlocked, Touched
  <1>4. \A a \in Touched(r) : read[w][a] = projection[a]
    BY <1>3 DEF LockedReadsFresh, Holds
  <1>5. \A a \in Touched(r) :
            Projected(w, a) = applyDirection(r, a, projection[a])
    BY <1>4 DEF Projected
  <1>6. ASSUME NEW a \in Accounts \ Touched(r)
        PROVE  applyDirection(r, a, projection[a]) = projection[a]
    <2>1. PostingsOf[r][a] \in Totals /\ projection[a] \in Totals
      BY <1>2, LedgerAssumption DEF TypeOK
    <2>2. PostingsOf[r][a].DEBIT = 0 /\ PostingsOf[r][a].CREDIT = 0
      BY <1>6, <2>1 DEF Touched, Totals
    <2>3. QED
      BY <2>1, <2>2 DEF applyDirection, Totals
  <1>7. projection' = [a \in Accounts |-> applyDirection(r, a, projection[a])]
    BY <1>1, <1>5, <1>6
  <1>8. \A a \in Accounts \ Touched(r) : projection'[a] = projection[a]
    BY <1>1
  <1>9. QED
    BY <1>1, <1>2, <1>3, <1>5, <1>7, <1>8

\* A commit finds its key unsettled and settles it.
LEMMA CommitSettles ==
    ASSUME IInv, NEW w \in Workers, Commit(w)
    PROVE  /\ KeyOf[request[w]] \in Keys
           /\ record[KeyOf[request[w]]] = NoRequest
           /\ reserved'[KeyOf[request[w]]] = NoWorker
           /\ record' = [record EXCEPT ![KeyOf[request[w]]] = request[w]]
  <1> USE DEF IInv
  <1> DEFINE k == KeyOf[request[w]]
  <1>1. /\ pc[w] = "write" /\ reserved' = Released(reserved, w)
        /\ record' = [record EXCEPT ![k] = request[w]]
    BY DEF Commit
  <1>2. k \in Keys
    BY <1>1, LedgerAssumption DEF Serving
  <1>3. reserved[k] = w /\ w # NoWorker
    BY <1>1, <1>2, LedgerAssumption DEF SlotHeld, InTransaction
  <1>4. record[k] = NoRequest
    BY <1>2, <1>3 DEF SlotFresh
  <1>5. reserved'[k] = NoWorker
    <2>1. reserved \in [Keys -> Workers \cup {NoWorker}]
      BY DEF TypeOK
    <2>2. QED
      BY <1>1, <1>2, <1>3, <2>1, ReleasedType
  <1>6. QED
    BY <1>1, <1>2, <1>4, <1>5

LEMMA CommitInv ==
    ASSUME IInv, NEW w \in Workers, Commit(w)
    PROVE  Ties'
  <1> USE DEF IInv
  <1> DEFINE r == request[w]
             k == KeyOf[r]
  <1>1. /\ pc' = [pc EXCEPT ![w] = "replied"]
        /\ reply' = [reply EXCEPT ![w] = Journal(r)]
        /\ reserved' = Released(reserved, w)
        /\ lockedBy' = Released(lockedBy, w)
        /\ UNCHANGED <<request, read>>
        /\ pc[w] = "write" /\ Sufficient(w)
    BY DEF Commit, Reply, Writable
  <1>2. /\ SlotHeld' /\ LocksScoped' /\ AllLocked' /\ LockOrder'
        /\ \A v \in Workers : Holds(v)' = IF v = w THEN {} ELSE Holds(v)
        /\ \A j \in Keys : reserved'[j] # NoWorker => record[j] = NoRequest
    BY <1>1, ReleaseInv
  <1>3. /\ k \in Keys /\ record[k] = NoRequest /\ reserved'[k] = NoWorker
        /\ record' = [record EXCEPT ![k] = r]
    BY CommitSettles
  <1>4. /\ r \in Requests
        /\ \A a \in Touched(r) : lockedBy[a] = w
        /\ \A a \in Touched(r) :
               Projected(w, a) = applyDirection(r, a, projection[a])
        /\ posted' = [posted EXCEPT ![r] = @ + 1]
        /\ projection' =
               [a \in Accounts |-> applyDirection(r, a, projection[a])]
        /\ \A a \in Accounts \ Touched(r) : projection'[a] = projection[a]
    BY CommitExact
  <1>5. Serving' /\ Silent'
    BY <1>1 DEF TypeOK, Serving, Silent
  <1>6. SlotFresh'
    BY <1>2, <1>3 DEF TypeOK, SlotFresh
  <1>7. LockedReadsFresh'
    <2>1. ASSUME NEW v \in Workers, NEW a \in Holds(v)'
          PROVE  read'[v][a] = projection'[a]
      <3>1. v # w /\ a \in Holds(v) /\ a \in Accounts
        BY <1>2, <2>1 DEF Holds
      <3>2. a \notin Touched(r)
        BY <1>4, <3>1 DEF Holds
      <3>3. read[v][a] = projection[a]
        BY <3>1 DEF LockedReadsFresh
      <3>4. QED
        BY <1>1, <1>4, <3>1, <3>2, <3>3
    <2>2. QED
      BY <2>1 DEF LockedReadsFresh
  <1>8. RecordExact' /\ RecordKeyed'
    <2>1. posted[r] = 0
      BY <1>3, <1>4, LedgerAssumption DEF RecordExact
    <2>2. RecordExact'
      BY <1>3, <1>4, <2>1, LedgerAssumption DEF TypeOK, RecordExact
    <2>3. RecordKeyed'
      BY <1>3, <1>4, LedgerAssumption DEF TypeOK, RecordKeyed
    <2>4. QED
      BY <2>2, <2>3
  <1>9. NoOverdraft'
    <2>1. ASSUME NEW a \in Accounts \ AllowNegative
          PROVE  signedBalanceMinor(a, projection'[a]) >= 0
      <3>1. CASE a \in Touched(r)
        <4>1. projection'[a] = Projected(w, a)
          BY <1>4, <3>1
        <4>2. QED
          BY <1>1, <3>1, <4>1 DEF Sufficient
      <3>2. CASE a \notin Touched(r)
        BY <1>4, <3>2 DEF NoOverdraft
      <3>3. QED
        BY <3>1, <3>2
    <2>2. QED
      BY <2>1 DEF NoOverdraft
  <1>10. ReplyNamesOriginal'
    <2>1. ASSUME NEW v \in Workers, reply'[v].kind = "JOURNAL"
          PROVE  /\ reply'[v].of = request[v]
                 /\ record'[KeyOf[request[v]]] = request[v]
                 /\ posted'[request[v]] = 1
      <3>1. CASE v = w
        <4>1. posted[r] = 0
          BY <1>3, <1>4, LedgerAssumption DEF RecordExact
        <4>2. reply'[w].of = r
          BY <1>1 DEF TypeOK, Journal
        <4>3. record'[k] = r /\ posted'[r] = 1
          BY <1>3, <1>4, <4>1 DEF TypeOK
        <4>4. QED
          BY <3>1, <4>2, <4>3
      <3>2. CASE v # w
        <4>1. reply'[v] = reply[v]
          BY <1>1, <3>2 DEF TypeOK
        <4>2. pc[v] # "idle"
          <5>1. reply[v] # NoReply
            BY <2>1, <4>1 DEF NoReply, Answer
          <5>2. QED
            BY <5>1 DEF Silent
        <4>3. request[v] \in Requests /\ KeyOf[request[v]] \in Keys
          BY <4>2, LedgerAssumption DEF Serving
        <4>4. /\ reply[v].of = request[v]
              /\ record[KeyOf[request[v]]] = request[v]
              /\ posted[request[v]] = 1
          BY <2>1, <4>1 DEF ReplyNamesOriginal
        <4>5. KeyOf[request[v]] # k /\ request[v] # r
          BY <1>3, <4>3, <4>4, LedgerAssumption
        <4>6. QED
          BY <1>3, <1>4, <4>1, <4>3, <4>4, <4>5 DEF TypeOK
      <3>3. QED
        BY <3>1, <3>2
    <2>2. QED
      BY <1>1, <2>1 DEF ReplyNamesOriginal
  <1>11. QED
    BY <1>2, <1>5, <1>6, <1>7, <1>8, <1>9, <1>10 DEF Ties

-----------------------------------------------------------------------------
\* The invariant is inductive.
LEMMA NextInv == IInv /\ [Next]_vars => IInv'
  <1> SUFFICES ASSUME IInv, [Next]_vars PROVE IInv'
    OBVIOUS
  <1>1. TypeOK'
    BY NextType
  <1>2. CASE UNCHANGED vars
    BY <1>2 DEF vars, IInv, TypeOK, Serving, Silent, SlotHeld, SlotFresh,
        LocksScoped, AllLocked, LockOrder, LockedReadsFresh, RecordExact,
        RecordKeyed, NoOverdraft, ReplyNamesOriginal, InTransaction, Holds,
        Unlocked, Touched
  <1>3. CASE Next
    <2>1. Ties'
      BY <1>3, SubmitInv, LookupInv, ReserveInv, LockAccountInv, LocksHeldInv,
         RollbackInv, CommitInv, ReturnInv, CrashInv
      DEF Next, Serve
    <2>2. QED
      BY <1>1, <2>1 DEF IInv, Ties
  <1>4. QED
    BY <1>2, <1>3

LEMMA SpecInv == Spec => []IInv
  BY InitInv, NextInv, PTL DEF Spec

-----------------------------------------------------------------------------
\* Every variable keeps its type in every step of every worker.
THEOREM TypeCorrect == Spec => []TypeOK
  <1>1. IInv => TypeOK
    BY DEF IInv
  <1>2. QED
    BY SpecInv, <1>1, PTL

\* However duplicates, changed payloads, crashes and retries interleave, the
\* journals of one command key are those of one request, and only one.
THEOREM KeysPostOnce == Spec => []OncePerKey
  <1>1. IInv => OncePerKey
    <2>1. SUFFICES ASSUME IInv, NEW r \in Requests, NEW q \in Requests,
                          KeyOf[r] = KeyOf[q], posted[r] > 0, posted[q] > 0
                   PROVE  r = q /\ posted[r] = 1
      BY DEF OncePerKey
    <2>2. /\ posted[r] = IF record[KeyOf[r]] = r THEN 1 ELSE 0
          /\ posted[q] = IF record[KeyOf[q]] = q THEN 1 ELSE 0
      BY <2>1, LedgerAssumption DEF IInv, RecordExact
    <2>3. QED
      BY <2>1, <2>2
  <1>2. QED
    BY SpecInv, <1>1, PTL

\* No interleaving of journals takes an account that forbids it below zero,
\* although the check and the write use totals read earlier.
THEOREM NeverOverdrawn == Spec => []NoOverdraft
  <1>1. IInv => NoOverdraft
    BY DEF IInv
  <1>2. QED
    BY SpecInv, <1>1, PTL

\* A row read under its lock is the committed row until the lock is released.
THEOREM ReadsStayFresh == Spec => []LockedReadsFresh
  <1>1. IInv => LockedReadsFresh
    BY DEF IInv
  <1>2. QED
    BY SpecInv, <1>1, PTL

\* Workers wait only for accounts ranked above all they hold: no deadlock
\* among row locks, for any number of journals.
THEOREM LocksClimb == Spec => []LockOrder
  <1>1. IInv => LockOrder
    BY DEF IInv
  <1>2. QED
    BY SpecInv, <1>1, PTL

\* A journal in a reply is the caller's own and the one its key settled.
THEOREM RepliesTruthful == Spec => []ReplyNamesOriginal
  <1>1. IInv => ReplyNamesOriginal
    BY DEF IInv
  <1>2. QED
    BY SpecInv, <1>1, PTL

-----------------------------------------------------------------------------
\* A step that is no commit leaves the book and the records alone.
LEMMA OnlyCommitPosts ==
    ASSUME [Next]_vars, \A w \in Workers : ~Commit(w)
    PROVE  UNCHANGED <<projection, posted, record>>
  BY DEF Next, Serve, vars, Submit, Lookup, Reserve, replayIfSettled,
         LockAccount, LocksHeld, Rollback, Return, Crash

\* Each step changes the book by nothing or by exactly one journal, applied
\* to the totals committed just before it.
THEOREM PostsExactly == Spec => ExactPosting
  <1> DEFINE One == \E r \in Requests :
                 /\ posted' = [posted EXCEPT ![r] = @ + 1]
                 /\ projection' =
                        [a \in Accounts |-> applyDirection(r, a, projection[a])]
             Exact == UNCHANGED <<projection, posted>> \/ One
  <1>1. IInv /\ [Next]_vars => [Exact]_vars
    <2> SUFFICES ASSUME IInv, [Next]_vars PROVE Exact
      OBVIOUS
    <2>1. CASE \E w \in Workers : Commit(w)
      BY <2>1, CommitExact
    <2>2. CASE \A w \in Workers : ~Commit(w)
      BY <2>2, OnlyCommitPosts
    <2>3. QED
      BY <2>1, <2>2
  <1>2. QED
    BY SpecInv, <1>1, PTL DEF Spec, ExactPosting

\* Journals and settled keys outlive every crash, rollback and retry.
THEOREM FactsStay == Spec => AppendOnly
  <1> DEFINE Kept ==
                 /\ \A r \in Requests : posted'[r] >= posted[r]
                 /\ \A k \in Keys :
                        record[k] # NoRequest => record'[k] = record[k]
  <1>1. IInv /\ [Next]_vars => [Kept]_vars
    <2> SUFFICES ASSUME IInv, [Next]_vars PROVE Kept
      OBVIOUS
    <2>1. CASE \E w \in Workers : Commit(w)
      <3>1. PICK w \in Workers : Commit(w)
        BY <2>1
      <3>2. /\ posted' = [posted EXCEPT ![request[w]] = @ + 1]
            /\ record' = [record EXCEPT ![KeyOf[request[w]]] = request[w]]
            /\ record[KeyOf[request[w]]] = NoRequest
        BY <3>1, CommitExact, CommitSettles
      <3>3. QED
        BY <3>2 DEF IInv, TypeOK
    <2>2. CASE \A w \in Workers : ~Commit(w)
      BY <2>2, OnlyCommitPosts DEF IInv, TypeOK
    <2>3. QED
      BY <2>1, <2>2
  <1>2. QED
    BY SpecInv, <1>1, PTL DEF Spec, AppendOnly

-----------------------------------------------------------------------------
(* The book of a ledger with any number of accounts and requests: why it   *)
(* balances is that only balanced requests get past Submit, and that a     *)
(* commit adds exactly its own postings.                                   *)

\* What is served past the check that opens post is balanced.
BalancedServed ==
    \A w \in Workers :
        pc[w] \in {"lookup", "reserve", "lock", "write"} =>
            assertBalanced(request[w])

BookInv == BalancedServed /\ BooksBalance

\* One direction of a book of totals sums to an integer.
LEMMA SummedInt ==
    ASSUME NEW book \in [Accounts -> Totals], NEW d \in {"DEBIT", "CREDIT"}
    PROVE  Summed(book, d) \in Int
  <1> DEFINE f == [a \in Accounts |-> book[a][d]]
  <1>1. \A a \in Accounts : f[a] \in Int
    BY DEF Totals
  <1> HIDE DEF f
  <1>2. SumFunctionOnSet(f, Accounts) \in Int
    BY <1>1, SumType, LedgerAssumption
  <1>3. QED
    BY <1>2 DEF f, Summed

\* A journal adds the sum of its postings to the sum of the book.
LEMMA SummedApplied ==
    ASSUME NEW r \in Requests, NEW book \in [Accounts -> Totals],
           NEW after, after = [a \in Accounts |-> applyDirection(r, a, book[a])],
           NEW d \in {"DEBIT", "CREDIT"}
    PROVE  Summed(after, d) = Summed(book, d) + DirectionTotal(r, d)
  <1> DEFINE f == [a \in Accounts |-> book[a][d]]
             g == [a \in Accounts |-> PostingsOf[r][a][d]]
             h == [a \in Accounts |-> after[a][d]]
  <1>1. ASSUME NEW a \in Accounts
        PROVE  f[a] \in Int /\ g[a] \in Int /\ h[a] = f[a] + g[a]
    <2>1. book[a] \in Totals /\ PostingsOf[r][a] \in Totals
      BY LedgerAssumption
    <2>2. QED
      BY <2>1 DEF Totals, applyDirection
  <1> HIDE DEF f, g, h
  <1>2. SumFunctionOnSet(h, Accounts) =
            SumFunctionOnSet(f, Accounts) + SumFunctionOnSet(g, Accounts)
    BY <1>1, SumPlus, LedgerAssumption
  <1>3. QED
    BY <1>2 DEF f, g, h, Summed, DirectionTotal

\* One more journal of r adds its postings to what an account's journals
\* come to.
LEMMA PostedSum ==
    ASSUME NEW r \in Requests, NEW a \in Accounts,
           NEW d \in {"DEBIT", "CREDIT"}, NEW n \in [Requests -> Nat]
    PROVE  SumFunctionOnSet([q \in Requests |->
                  [n EXCEPT ![r] = @ + 1][q] * PostingsOf[q][a][d]], Requests)
             = SumFunctionOnSet([q \in Requests |-> n[q] * PostingsOf[q][a][d]],
                                Requests)
                 + PostingsOf[r][a][d]
  <1> DEFINE f == [q \in Requests |-> n[q] * PostingsOf[q][a][d]]
             g == [q \in Requests |->
                       [n EXCEPT ![r] = @ + 1][q] * PostingsOf[q][a][d]]
  <1>1. \A q \in Requests : PostingsOf[q][a][d] \in Nat
    BY LedgerAssumption DEF Totals
  <1>2. \A q \in Requests : f[q] \in Int
    BY <1>1
  <1>3. g[r] = f[r] + PostingsOf[r][a][d]
    BY <1>1
  <1>4. \A q \in Requests \ {r} : g[q] = f[q]
    BY <1>1
  <1> DEFINE m == PostingsOf[r][a][d]
  <1>5. m \in Int /\ IsFiniteSet(Requests)
    BY <1>1, LedgerAssumption
  <1> HIDE DEF f, g, m
  <1>6. SumFunctionOnSet(g, Requests) = SumFunctionOnSet(f, Requests) + m
    <2>1. g[r] = f[r] + m
      BY <1>3 DEF m
    <2>2. QED
      BY <1>2, <1>4, <1>5, <2>1, SumUpdate
  <1>7. QED
    BY <1>6 DEF f, g, m

LEMMA InitBook == Init => BookInv
  <1> SUFFICES ASSUME Init PROVE BookInv
    OBVIOUS
  <1>1. BalancedServed
    BY DEF Init, BalancedServed
  <1>2. ASSUME NEW a \in Accounts, NEW d \in {"DEBIT", "CREDIT"}
        PROVE  projection[a][d] =
                   OpeningTotals[a][d]
                     + SumFunctionOnSet(
                           [r \in Requests |-> posted[r] * PostingsOf[r][a][d]],
                           Requests)
    <2> DEFINE f == [r \in Requests |-> posted[r] * PostingsOf[r][a][d]]
    <2>1. \A r \in Requests : f[r] = 0
      <3>1. \A r \in Requests : PostingsOf[r][a][d] \in Nat
        BY LedgerAssumption DEF Totals
      <3>2. QED
        BY <3>1 DEF Init
    <2> HIDE DEF f
    <2>2. SumFunctionOnSet(f, Requests) = 0
      BY <2>1, SumZero, LedgerAssumption
    <2>3. projection[a][d] = OpeningTotals[a][d] /\ OpeningTotals[a][d] \in Nat
      BY LedgerAssumption DEF Init, Totals
    <2>4. QED
      BY <2>2, <2>3 DEF f
  <1>3. TrialBalance
    <2>1. /\ projection = OpeningTotals /\ OpeningTotals \in [Accounts -> Totals]
          /\ Summed(OpeningTotals, "DEBIT") \in Int
          /\ Summed(OpeningTotals, "CREDIT") \in Int
      BY SummedInt, LedgerAssumption DEF Init
    <2>2. QED
      BY <2>1 DEF TrialBalance
  <1>4. QED
    BY <1>1, <1>2, <1>3 DEF BookInv, BooksBalance, NoDrift

\* Only Submit brings a request in, and it checks it.
LEMMA BalancedNext ==
    ASSUME IInv, BalancedServed, [Next]_vars
    PROVE  BalancedServed'
  <1> USE DEF IInv, TypeOK, BalancedServed
  <1>1. ASSUME NEW w \in Workers, NEW r \in Requests, Submit(w, r)
        PROVE  BalancedServed'
    BY <1>1 DEF Submit, Reply
  <1>2. ASSUME NEW w \in Workers, replayIfSettled(w) PROVE BalancedServed'
    BY <1>2 DEF replayIfSettled, Reply
  <1>3. ASSUME NEW w \in Workers, Lookup(w) \/ Reserve(w) PROVE BalancedServed'
    BY <1>2, <1>3 DEF Lookup, Reserve
  <1>4. ASSUME NEW w \in Workers, LockAccount(w) \/ LocksHeld(w)
        PROVE  BalancedServed'
    BY <1>4 DEF LockAccount, LocksHeld
  <1>5. ASSUME NEW w \in Workers, Rollback(w) \/ Commit(w) PROVE BalancedServed'
    BY <1>5 DEF Rollback, Commit, Reply
  <1>6. ASSUME NEW w \in Workers, Return(w) \/ Crash(w) PROVE BalancedServed'
    BY <1>6 DEF Return, Crash
  <1>7. CASE UNCHANGED vars
    BY <1>7 DEF vars
  <1>8. QED
    BY <1>1, <1>3, <1>4, <1>5, <1>6, <1>7 DEF Next, Serve

\* A commit adds a balanced journal to the projection and to the journals.
LEMMA CommitBook ==
    ASSUME IInv, BookInv, NEW w \in Workers, Commit(w)
    PROVE  BooksBalance'
  <1> DEFINE r == request[w]
  <1>1. /\ r \in Requests
        /\ posted' = [posted EXCEPT ![r] = @ + 1]
        /\ projection' =
               [a \in Accounts |-> applyDirection(r, a, projection[a])]
    BY CommitExact
  <1>2. /\ DirectionTotal(r, "DEBIT") = DirectionTotal(r, "CREDIT")
        /\ projection \in [Accounts -> Totals]
        /\ posted \in [Requests -> Nat]
        /\ PostingsOf[r] \in [Accounts -> Totals]
    BY <1>1, LedgerAssumption
    DEF BookInv, BalancedServed, assertBalanced, Commit, IInv, TypeOK
  <1> HIDE DEF r
  <1>3. NoDrift'
    <2> SUFFICES ASSUME NEW a \in Accounts, NEW d \in {"DEBIT", "CREDIT"}
                 PROVE  projection'[a][d] =
                            OpeningTotals[a][d]
                              + SumFunctionOnSet(
                                    [q \in Requests |->
                                        posted'[q] * PostingsOf[q][a][d]],
                                    Requests)
      BY DEF NoDrift
    <2> DEFINE before == SumFunctionOnSet(
                    [q \in Requests |-> posted[q] * PostingsOf[q][a][d]], Requests)
               after == SumFunctionOnSet(
                    [q \in Requests |-> posted'[q] * PostingsOf[q][a][d]], Requests)
    <2>1. after = before + PostingsOf[r][a][d]
      BY <1>1, <1>2, PostedSum
    <2>2. projection[a][d] = OpeningTotals[a][d] + before
      BY DEF BookInv, BooksBalance, NoDrift
    <2>3. before \in Int
      <3> DEFINE f == [q \in Requests |-> posted[q] * PostingsOf[q][a][d]]
      <3>1. \A q \in Requests : f[q] \in Int
        BY <1>2, LedgerAssumption DEF Totals
      <3> HIDE DEF f
      <3>2. SumFunctionOnSet(f, Requests) \in Int
        BY <3>1, SumType, LedgerAssumption
      <3>3. QED
        BY <3>2 DEF f
    <2>4. projection'[a][d] = projection[a][d] + PostingsOf[r][a][d]
      BY <1>1, <1>2 DEF applyDirection, Totals
    <2>5. OpeningTotals[a][d] \in Nat /\ PostingsOf[r][a][d] \in Nat
      BY <1>1, LedgerAssumption DEF Totals
    <2> HIDE DEF before, after
    <2>6. projection'[a][d] = OpeningTotals[a][d] + after
      BY <2>1, <2>2, <2>3, <2>4, <2>5
    <2>7. QED
      BY <2>6 DEF after
  <1>4. TrialBalance'
    <2>1. \A d \in {"DEBIT", "CREDIT"} :
              /\ Summed(projection', d) = Summed(projection, d) + DirectionTotal(r, d)
              /\ Summed(projection, d) \in Int
              /\ Summed(OpeningTotals, d) \in Int
              /\ DirectionTotal(r, d) \in Int
      BY <1>1, <1>2, SummedApplied, SummedInt, LedgerAssumption DEF DirectionTotal
    <2>2. QED
      BY <1>2, <2>1 DEF TrialBalance, BookInv, BooksBalance
  <1>5. QED
    BY <1>3, <1>4 DEF BooksBalance

LEMMA NextBook == IInv /\ BookInv /\ [Next]_vars => BookInv'
  <1> SUFFICES ASSUME IInv, BookInv, [Next]_vars PROVE BookInv'
    OBVIOUS
  <1>1. BalancedServed'
    BY BalancedNext DEF BookInv
  <1>2. CASE \E w \in Workers : Commit(w)
    BY <1>1, <1>2, CommitBook DEF BookInv
  <1>3. CASE \A w \in Workers : ~Commit(w)
    <2>1. UNCHANGED <<projection, posted>>
      BY <1>3, OnlyCommitPosts
    <2>2. QED
      BY <1>1, <2>1 DEF BookInv, BooksBalance, NoDrift, TrialBalance
  <1>4. QED
    BY <1>2, <1>3

\* The books never drift and never tip: whatever runs, crashes or repeats
\* concurrently, each projection is its opening totals plus the committed
\* postings, and debits equal credits over all accounts.
THEOREM BooksAlwaysBalance == Spec => []BooksBalance
  <1>1. BookInv => BooksBalance
    BY DEF BookInv
  <1>2. QED
    BY SpecInv, InitBook, NextBook, <1>1, PTL DEF Spec

-----------------------------------------------------------------------------
\* A journal moves the signed balance by the signed sum of its postings.
LEMMA SignedApplied ==
    ASSUME NEW r \in Requests, NEW a \in Accounts, NEW t \in Totals
    PROVE  signedBalanceMinor(a, applyDirection(r, a, t)) =
               signedBalanceMinor(a, t) + signedBalanceMinor(a, PostingsOf[r][a])
  <1>1. PostingsOf[r][a] \in Totals
    BY LedgerAssumption
  <1>2. QED
    BY <1>1 DEF signedBalanceMinor, applyDirection, Totals

\* The interleaved ledger implements the atomic one: a commit is its Settle,
\* every other step leaves the balances and the settled keys as they were.
THEOREM LedgerImplementsService == Spec => ImplementsService
  <1>1. Init => Service!ServiceInit
    BY DEF Init, Service!ServiceInit
  <1>2. IInv /\ IInv' /\ [Next]_vars => [Service!ServiceNext]_(Service!svars)
    <2> SUFFICES ASSUME IInv, IInv', [Next]_vars
                 PROVE  Service!ServiceNext \/ UNCHANGED Service!svars
      OBVIOUS
    <2>1. CASE \E w \in Workers : Commit(w)
      <3>1. PICK w \in Workers : Commit(w)
        BY <2>1
      <3> DEFINE r == request[w]
      <3>2. /\ r \in Requests
            /\ projection' =
                   [a \in Accounts |-> applyDirection(r, a, projection[a])]
            /\ record[KeyOf[r]] = NoRequest
            /\ record' = [record EXCEPT ![KeyOf[r]] = r]
        BY <3>1, CommitExact, CommitSettles
      <3>3. \A a \in Accounts :
                signedBalanceMinor(a, projection'[a]) =
                    signedBalanceMinor(a, projection[a])
                      + signedBalanceMinor(a, PostingsOf[r][a])
        BY <3>2, SignedApplied DEF IInv, TypeOK
      <3>4. Service!Applied(r) =
                [a \in Accounts |-> signedBalanceMinor(a, projection'[a])]
        BY <3>2, <3>3 DEF Service!Applied
      <3>5. Service!Covered(r)
        BY <3>4 DEF Service!Covered, IInv, NoOverdraft
      <3>6. Service!Settle(r)
        BY <3>2, <3>4, <3>5 DEF Service!Settle
      <3>7. QED
        BY <3>2, <3>6 DEF Service!ServiceNext
    <2>2. CASE \A w \in Workers : ~Commit(w)
      BY <2>2, OnlyCommitPosts DEF Service!svars
    <2>3. QED
      BY <2>1, <2>2
  <1>3. QED
    BY SpecInv, <1>1, <1>2, PTL DEF Spec, ImplementsService, Service!ServiceSpec
============================================================================
