------------------------------- MODULE Ledger -------------------------------
(***************************************************************************)
(* The Ledger service: JournalService.post running inside                  *)
(* IdempotencyService.execute, and CustomerTransferService.transfer on top *)
(* of it.  Every worker is one HTTP request being served.  Between its     *)
(* awaits other workers run, so each database round trip that another      *)
(* transaction can observe or block is a step of its own; writes inside a  *)
(* PostgreSQL transaction become visible in one step, at COMMIT.           *)
(*                                                                         *)
(* Postings are taken after normalisePostings (module Postings): one       *)
(* debit and one credit amount per account.                                *)
(***************************************************************************)
EXTENDS Integers, FiniteSets, Functions

CONSTANTS
    Accounts,        \* ledger accounts
    Rank,            \* position of an account in ascending id order
    Class,           \* account class, which fixes the sign of the balance
    AllowNegative,   \* accounts with allow_negative_balance
    Keys,            \* idempotency keys of the journal-entry scope
    Requests,        \* distinct (key, payload) pairs
    KeyOf,           \* key a request carries
    ReferenceOf,     \* journal reference a request carries
    PostingsOf,      \* normalised postings of a request
    Transfers,       \* requests that arrive through CustomerTransferService
    SourceOf,        \* source account of a transfer
    Postable,        \* requests whose accounts exist, are ACTIVE and agree
                     \* on the currency
    OpeningTotals,   \* debit and credit totals at the start
    Workers,         \* requests being served concurrently
    NoRequest,       \* null for requests
    NoWorker         \* null for workers

Classes == {"ASSET", "LIABILITY", "EQUITY", "REVENUE", "EXPENSE"}
Totals == [DEBIT : Nat, CREDIT : Nat]

\* The balance an account class gives a pair of totals.
signedBalanceMinor(a, t) ==
    IF Class[a] \in {"ASSET", "EXPENSE"} THEN t.DEBIT - t.CREDIT
                                         ELSE t.CREDIT - t.DEBIT

ASSUME LedgerAssumption ==
    /\ IsFiniteSet(Accounts) /\ IsFiniteSet(Requests)
    /\ Rank \in [Accounts -> Nat]
    /\ \A a, b \in Accounts : Rank[a] = Rank[b] => a = b
    /\ Class \in [Accounts -> Classes]
    /\ AllowNegative \subseteq Accounts
    /\ KeyOf \in [Requests -> Keys]
    /\ PostingsOf \in [Requests -> [Accounts -> Totals]]
    /\ Transfers \subseteq Requests
    /\ SourceOf \in [Transfers -> Accounts]
    /\ Postable \subseteq Requests
    /\ OpeningTotals \in [Accounts -> Totals]
    /\ \A a \in Accounts \ AllowNegative :
           signedBalanceMinor(a, OpeningTotals[a]) >= 0
    /\ NoRequest \notin Requests
    /\ NoWorker \notin Workers

-----------------------------------------------------------------------------
VARIABLES
    projection,   \* committed balance_projections
    posted,       \* journal entries committed for each request
    record,       \* committed idempotency record: the request it answers
    reserved,     \* worker whose uncommitted record holds the key's index slot
    lockedBy,     \* worker holding the row locks of an account
    pc,           \* where each worker is
    request,      \* the request each worker serves
    read,         \* totals each worker read with its row locks; back to
                  \* OpeningTotals when the worker is idle
    reply         \* what each worker answers

vars == <<projection, posted, record, reserved, lockedBy, pc, request, read,
          reply>>

\* Journal-shaped outcomes carry the request whose journal they name.
Replies ==
    [kind : {"JOURNAL"}, of : Requests]
        \cup [kind : {"NONE", "REFUSED", "UNBALANCED_JOURNAL",
                      "IDEMPOTENCY_CONFLICT", "DUPLICATE_REFERENCE"},
              of : {NoRequest}]

Journal(r) == [kind |-> "JOURNAL", of |-> r]
Answer(k) == [kind |-> k, of |-> NoRequest]
NoReply == Answer("NONE")

TypeOK ==
    /\ projection \in [Accounts -> Totals]
    /\ posted \in [Requests -> Nat]
    /\ record \in [Keys -> Requests \cup {NoRequest}]
    /\ reserved \in [Keys -> Workers \cup {NoWorker}]
    /\ lockedBy \in [Accounts -> Workers \cup {NoWorker}]
    /\ pc \in [Workers -> {"idle", "lookup", "reserve", "lock", "write",
                           "replied"}]
    /\ request \in [Workers -> Requests \cup {NoRequest}]
    /\ read \in [Workers -> [Accounts -> Totals]]
    /\ reply \in [Workers -> Replies]

Init ==
    /\ projection = OpeningTotals
    /\ posted = [r \in Requests |-> 0]
    /\ record = [k \in Keys |-> NoRequest]
    /\ reserved = [k \in Keys |-> NoWorker]
    /\ lockedBy = [a \in Accounts |-> NoWorker]
    /\ pc = [w \in Workers |-> "idle"]
    /\ request = [w \in Workers |-> NoRequest]
    /\ read = [w \in Workers |-> OpeningTotals]
    /\ reply = [w \in Workers |-> NoReply]

-----------------------------------------------------------------------------
\* Accounts that a request posts to.
Touched(r) ==
    {a \in Accounts : PostingsOf[r][a].DEBIT > 0 \/ PostingsOf[r][a].CREDIT > 0}

PostingCount(r) ==
    Cardinality({p \in Accounts \X {"DEBIT", "CREDIT"} :
                     PostingsOf[r][p[1]][p[2]] > 0})

\* One direction of a book of totals, over all accounts.
Summed(book, d) == SumFunctionOnSet([a \in Accounts |-> book[a][d]], Accounts)
DirectionTotal(r, d) == Summed(PostingsOf[r], d)

\* At least two postings, debits equal to credits and not zero (the mutant
\* only counts them).
CountedOnly(r) == PostingCount(r) >= 2
assertBalanced(r) ==
    /\ PostingCount(r) >= 2
    /\ DirectionTotal(r, "DEBIT") = DirectionTotal(r, "CREDIT")
    /\ DirectionTotal(r, "DEBIT") # 0

\* One posting added to an account's totals, both directions at once (the
\* mutant nets credits against debits).
NettedDirection(r, a, t) ==
    [t EXCEPT !.DEBIT = @ + PostingsOf[r][a].DEBIT - PostingsOf[r][a].CREDIT]
applyDirection(r, a, t) ==
    [DEBIT  |-> t.DEBIT + PostingsOf[r][a].DEBIT,
     CREDIT |-> t.CREDIT + PostingsOf[r][a].CREDIT]

\* The worker stops serving its request with this reply.
Reply(w, m) ==
    /\ pc' = [pc EXCEPT ![w] = "replied"]
    /\ reply' = [reply EXCEPT ![w] = m]

\* ROLLBACK or COMMIT: the reservation and the row locks of w are gone.
Released(f, w) == [x \in DOMAIN f |-> IF f[x] = w THEN NoWorker ELSE f[x]]

\* resolve, the balance check of transfer (against the committed projection,
\* outside any transaction) and the assertBalanced that opens post.
Admits(r) ==
    r \in Transfers =>
        LET s == SourceOf[r]
        IN  /\ r \in Postable
            /\ PostingsOf[r][s].DEBIT > 0
            /\ signedBalanceMinor(s, projection[s]) >= PostingsOf[r][s].DEBIT

Submit(w, r) ==
    /\ pc[w] = "idle"
    /\ request' = [request EXCEPT ![w] = r]
    /\ \/ /\ ~Admits(r)
          /\ Reply(w, Answer("REFUSED"))
       \/ /\ Admits(r) /\ ~assertBalanced(r)
          /\ Reply(w, Answer("UNBALANCED_JOURNAL"))
       \/ /\ Admits(r) /\ assertBalanced(r)
          /\ pc' = [pc EXCEPT ![w] = "lookup"]
          /\ UNCHANGED reply
    /\ UNCHANGED <<projection, posted, record, reserved, lockedBy, read>>

\* A committed record answers the request it was written for and conflicts
\* with any other payload (the mutant forgets the request hash).
ReplayUnhashed(w) ==
    LET found == record[KeyOf[request[w]]]
    IN  /\ found # NoRequest
        /\ Reply(w, Journal(found))
        /\ UNCHANGED <<projection, posted, record, reserved, lockedBy, request,
                       read>>
replayIfSettled(w) ==
    LET found == record[KeyOf[request[w]]]
    IN  /\ found # NoRequest
        /\ Reply(w, IF found = request[w] THEN Journal(found)
                                          ELSE Answer("IDEMPOTENCY_CONFLICT"))
        /\ UNCHANGED <<projection, posted, record, reserved, lockedBy, request,
                       read>>

\* The read that execute makes before it opens its transaction.
Lookup(w) ==
    /\ pc[w] = "lookup"
    /\ \/ replayIfSettled(w)
       \/ /\ record[KeyOf[request[w]]] = NoRequest
          /\ pc' = [pc EXCEPT ![w] = "reserve"]
          /\ UNCHANGED <<projection, posted, record, reserved, lockedBy,
                         request, read, reply>>

\* The insert into the unique index on (scope, key_hash).  It waits while an
\* uncommitted insert holds the slot, and fails over to the stored response
\* when a committed one does (the mutant has no unique index to fail on).
ReserveUnchecked(w) ==
    LET k == KeyOf[request[w]]
    IN  /\ pc[w] = "reserve"
        /\ reserved[k] = NoWorker
        /\ reserved' = [reserved EXCEPT ![k] = w]
        /\ pc' = [pc EXCEPT ![w] = "lock"]
        /\ UNCHANGED <<projection, posted, record, lockedBy, request, read,
                       reply>>
Reserve(w) ==
    LET k == KeyOf[request[w]]
    IN  /\ pc[w] = "reserve"
        /\ reserved[k] = NoWorker
        /\ \/ replayIfSettled(w)
           \/ /\ record[k] = NoRequest
              /\ reserved' = [reserved EXCEPT ![k] = w]
              /\ pc' = [pc EXCEPT ![w] = "lock"]
              /\ UNCHANGED <<projection, posted, record, lockedBy, request,
                             read, reply>>

\* Accounts w has yet to lock, and the one the sorted SELECT takes next (the
\* mutant does not sort).
Unlocked(w) == {a \in Touched(request[w]) : lockedBy[a] # w}
AnyNext(w, a) == a \in Unlocked(w)
IsNext(w, a) ==
    /\ a \in Unlocked(w)
    /\ \A b \in Unlocked(w) : Rank[a] <= Rank[b]

\* SELECT ... ORDER BY id FOR UPDATE: one row lock at a time, in id order,
\* each row read as it stands when its lock is granted (FOR SHARE in the
\* mutant: nobody waits).
LockAccountShared(w) ==
    /\ pc[w] = "lock"
    /\ \E a \in Accounts :
           /\ IsNext(w, a)
           /\ lockedBy' = [lockedBy EXCEPT ![a] = w]
           /\ read' = [read EXCEPT ![w][a] = projection[a]]
    /\ UNCHANGED <<projection, posted, record, reserved, pc, request, reply>>
LockAccount(w) ==
    /\ pc[w] = "lock"
    /\ \E a \in Accounts :
           /\ IsNext(w, a)
           /\ lockedBy[a] = NoWorker
           /\ lockedBy' = [lockedBy EXCEPT ![a] = w]
           /\ read' = [read EXCEPT ![w][a] = projection[a]]
    /\ UNCHANGED <<projection, posted, record, reserved, pc, request, reply>>

\* The SELECT returns (in the mutant, the locks go with it).
LocksHeldReleasing(w) ==
    /\ pc[w] = "lock"
    /\ Unlocked(w) = {}
    /\ pc' = [pc EXCEPT ![w] = "write"]
    /\ lockedBy' = Released(lockedBy, w)
    /\ UNCHANGED <<projection, posted, record, reserved, request, read, reply>>
LocksHeld(w) ==
    /\ pc[w] = "lock"
    /\ Unlocked(w) = {}
    /\ pc' = [pc EXCEPT ![w] = "write"]
    /\ UNCHANGED <<projection, posted, record, reserved, lockedBy, request,
                   read, reply>>

\* Totals the worker computed from the rows it read under lock.
Projected(w, a) == applyDirection(request[w], a, read[w][a])

\* No balance it writes is negative where that is not allowed (the mutant
\* looks at the balance it read).
SufficientBefore(w) ==
    \A a \in Touched(request[w]) \ AllowNegative :
        signedBalanceMinor(a, read[w][a]) >= 0
Sufficient(w) ==
    \A a \in Touched(request[w]) \ AllowNegative :
        signedBalanceMinor(a, Projected(w, a)) >= 0

ReferenceTaken(r) ==
    \E q \in Requests : posted[q] > 0 /\ ReferenceOf[q] = ReferenceOf[r]

\* A check or a unique index inside the transaction refuses: ROLLBACK.  The
\* unique violation on the journal reference is rethrown by execute.
Refusal(w) ==
    IF request[w] \in Postable /\ Sufficient(w) THEN "DUPLICATE_REFERENCE"
                                                ELSE "REFUSED"

Writable(w) ==
    /\ request[w] \in Postable
    /\ Sufficient(w)
    /\ ~ReferenceTaken(request[w])

Rollback(w) ==
    /\ pc[w] = "write"
    /\ ~Writable(w)
    /\ Reply(w, Answer(Refusal(w)))
    /\ reserved' = Released(reserved, w)
    /\ lockedBy' = Released(lockedBy, w)
    /\ UNCHANGED <<projection, posted, record, request, read>>

\* The journal entry, its postings, the projections (written as absolute
\* totals) and the COMPLETED idempotency record become visible together.
Commit(w) ==
    LET r == request[w]
    IN  /\ pc[w] = "write"
        /\ Writable(w)
        /\ posted' = [posted EXCEPT ![r] = @ + 1]
        /\ projection' = [a \in Accounts |->
                              IF a \in Touched(r) THEN Projected(w, a)
                                                  ELSE projection[a]]
        /\ record' = [record EXCEPT ![KeyOf[r]] = r]
        /\ reserved' = Released(reserved, w)
        /\ lockedBy' = Released(lockedBy, w)
        /\ Reply(w, Journal(r))
        /\ UNCHANGED <<request, read>>

\* The answer leaves (or is lost); the worker takes its next request.
Return(w) ==
    /\ pc[w] = "replied"
    /\ pc' = [pc EXCEPT ![w] = "idle"]
    /\ request' = [request EXCEPT ![w] = NoRequest]
    /\ reply' = [reply EXCEPT ![w] = NoReply]
    /\ read' = [read EXCEPT ![w] = OpeningTotals]
    /\ UNCHANGED <<projection, posted, record, reserved, lockedBy>>

\* The process, its connection or the interactive transaction's timer dies
\* anywhere before COMMIT: PostgreSQL rolls the transaction back.
Crash(w) ==
    /\ pc[w] \in {"lookup", "reserve", "lock", "write"}
    /\ pc' = [pc EXCEPT ![w] = "idle"]
    /\ request' = [request EXCEPT ![w] = NoRequest]
    /\ reserved' = Released(reserved, w)
    /\ lockedBy' = Released(lockedBy, w)
    /\ read' = [read EXCEPT ![w] = OpeningTotals]
    /\ UNCHANGED <<projection, posted, record, reply>>

Serve(w) ==
    \/ Lookup(w)
    \/ Reserve(w)
    \/ LockAccount(w)
    \/ LocksHeld(w)
    \/ Rollback(w)
    \/ Commit(w)
    \/ Return(w)

Next ==
    \E w \in Workers :
        \/ \E r \in Requests : Submit(w, r)
        \/ Serve(w)
        \/ Crash(w)

Spec == Init /\ [][Next]_vars

\* A worker with a step to take takes it.  Lock and index waits are queues in
\* PostgreSQL, so a wait that is granted again and again is granted to
\* everyone: strong fairness for the two steps that wait.
FairSpec ==
    /\ Spec
    /\ \A w \in Workers : /\ WF_vars(Serve(w))
                          /\ SF_vars(Reserve(w))
                          /\ SF_vars(LockAccount(w))

-----------------------------------------------------------------------------
Holds(w) == {a \in Accounts : lockedBy[a] = w}
InTransaction(w) == pc[w] \in {"lock", "write"}

\* A command key never posts twice, whichever requests carry it: the
\* duplicate and the changed payload included (execute, unique index).
OncePerKey ==
    \A r, q \in Requests :
        KeyOf[r] = KeyOf[q] /\ posted[r] > 0 /\ posted[q] > 0 =>
            r = q /\ posted[r] = 1

\* The projection is only a cache: it always equals the opening totals plus
\* every committed posting (BALANCE_PROJECTION_DRIFT of reconciliation).
NoDrift ==
    \A a \in Accounts, d \in {"DEBIT", "CREDIT"} :
        projection[a][d] =
            OpeningTotals[a][d]
              + SumFunctionOnSet(
                    [r \in Requests |-> posted[r] * PostingsOf[r][a][d]],
                    Requests)

\* Debits equal credits over the whole book (UNBALANCED_JOURNAL summed up).
TrialBalance ==
    Summed(projection, "DEBIT") - Summed(OpeningTotals, "DEBIT")
        = Summed(projection, "CREDIT") - Summed(OpeningTotals, "CREDIT")

\* What reconciliation.run looks for in the book, at every moment and not only
\* when it runs: concurrent journals leave neither drift nor imbalance.
BooksBalance == NoDrift /\ TrialBalance

\* Concurrent journals never overdraw an account that forbids it, although
\* every check is made on totals read earlier (NEGATIVE_CUSTOMER_BALANCE).
NoOverdraft ==
    \A a \in Accounts \ AllowNegative :
        signedBalanceMinor(a, projection[a]) >= 0

\* A journal in a reply is the one its key settled, and it is the caller's own
\* request: nobody is handed the journal of another payload (replayIfSettled).
ReplyNamesOriginal ==
    \A w \in Workers :
        reply[w].kind = "JOURNAL" =>
            /\ reply[w].of = request[w]
            /\ record[KeyOf[request[w]]] = request[w]
            /\ posted[request[w]] = 1

\* What a transaction read under lock is still the committed value when it
\* writes absolute totals back: no update is lost (lockAccounts).
LockedReadsFresh ==
    \A w \in Workers : \A a \in Holds(w) : read[w][a] = projection[a]

\* Waiting for a row lock while holding others only ever points up the id
\* order, so no set of journals waits on itself (deterministicAccountOrder).
LockOrder ==
    \A w \in Workers :
        pc[w] = "lock" =>
            \A a \in Unlocked(w), b \in Holds(w) : Rank[b] < Rank[a]

\* The book changes by exactly one journal at a time, applied to the totals
\* committed just before, although they are written back as absolute values
\* computed from an earlier read (post).
ExactPosting ==
    [][\/ UNCHANGED <<projection, posted>>
       \/ \E r \in Requests :
              /\ posted' = [posted EXCEPT ![r] = @ + 1]
              /\ projection' =
                     [a \in Accounts |-> applyDirection(r, a, projection[a])]
      ]_vars

\* Committed facts are never undone by a crash, a rollback or a retry.
AppendOnly ==
    [][/\ \A r \in Requests : posted'[r] >= posted[r]
       /\ \A k \in Keys : record[k] # NoRequest => record'[k] = record[k]
      ]_vars

\* Every request taken is answered or rolled back, whatever the others do.
EveryRequestServed ==
    \A w \in Workers : pc[w] # "idle" ~> pc[w] = "idle"

\* The atomic ledger this one implements.
Service ==
    INSTANCE LedgerService WITH
        Effect  <- [r \in Requests |-> [a \in Accounts |->
                        signedBalanceMinor(a, PostingsOf[r][a])]],
        Opening <- [a \in Accounts |-> signedBalanceMinor(a, OpeningTotals[a])],
        balance <- [a \in Accounts |-> signedBalanceMinor(a, projection[a])],
        settled <- record

\* Every step of the interleaved ledger is a step of the atomic one, or none.
ImplementsService == Service!ServiceSpec
============================================================================
