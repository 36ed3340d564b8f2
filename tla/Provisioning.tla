---------------------------- MODULE Provisioning ----------------------------
(***************************************************************************)
(* Provisioning of a customer's default wallet (account.service.ts) inside *)
(* the Ledger's idempotent transaction: reserve the key, take the          *)
(* customer's advisory lock, look for the wallet, draw a public reference  *)
(* that nobody uses, insert, commit.  A duplicate key or a unique index    *)
(* blocks on a transaction that has not ended, as in Ledger.tla.           *)
(***************************************************************************)
EXTENDS Naturals, FiniteSets

CONSTANTS Customers, Keys, References,
          Requests,     \* provisioning requests, retries included
          CustomerOf,   \* [Requests -> Customers]
          KeyOf,        \* [Requests -> Keys]
          MaxReferenceAttempts

VARIABLES wallets,      \* [Customers -> References, or None]: committed rows
          records,      \* [Keys -> what the completed idempotency record holds]
          pc,           \* [Requests -> where the request is]
          ref,          \* [Requests -> the reference drawn, or None]
          attempts,     \* [Requests -> references drawn]
          answer        \* [Requests -> what the caller was told]

vars == <<wallets, records, pc, ref, attempts, answer>>

None == "none"
ConstantsOK ==
    /\ CustomerOf \in [Requests -> Customers]
    /\ KeyOf \in [Requests -> Keys]
    /\ None \notin References \cup Customers
    /\ MaxReferenceAttempts \in Nat \ {0}

\* The response body: whose wallet, under which reference, and "created".
Results == [customer : Customers, reference : References, created : BOOLEAN]
Without(code) == [customer |-> code, reference |-> None, created |-> FALSE]
NoResult == Without(None)

TypeOK ==
    /\ wallets \in [Customers -> References \cup {None}]
    /\ records \in [Keys -> Results \cup {NoResult}]
    /\ pc \in [Requests -> {"idle", "reserving", "locking", "finding", "drawing",
                            "inserting", "done"}]
    /\ ref \in [Requests -> References \cup {None}]
    /\ attempts \in [Requests -> 0 .. MaxReferenceAttempts]
    /\ answer \in [Requests -> Results \cup {Without(code) : code \in {None, "conflict", "error"}}]

Init ==
    /\ wallets = [c \in Customers |-> None]
    /\ records = [k \in Keys |-> NoResult]
    /\ pc = [r \in Requests |-> "idle"]
    /\ ref = [r \in Requests |-> None]
    /\ attempts = [r \in Requests |-> 0]
    /\ answer = [r \in Requests |-> NoResult]

-----------------------------------------------------------------------------
\* The transactions that hold a reservation, or the advisory lock.
Reserved(k) == {r \in Requests : /\ KeyOf[r] = k
                                 /\ pc[r] \in {"locking", "finding", "drawing", "inserting"}}
Locked(c) == {r \in Requests : /\ CustomerOf[r] = c
                               /\ pc[r] \in {"finding", "drawing", "inserting"}}
Wallet(c, new) == [customer |-> c, reference |-> wallets[c], created |-> new]

Finish(r, told) ==
    /\ pc' = [pc EXCEPT ![r] = "done"]
    /\ answer' = [answer EXCEPT ![r] = told]
    /\ ref' = [ref EXCEPT ![r] = None]

Goto(r, label) == pc' = [pc EXCEPT ![r] = label] /\ UNCHANGED answer

\* A completed record answers for its own payload only.
Replay(r) ==
    Finish(r, IF records[KeyOf[r]].customer = CustomerOf[r] THEN records[KeyOf[r]]
                                                            ELSE Without("conflict"))

replayIfSettled(r) ==
    /\ pc[r] = "idle"
    /\ \/ records[KeyOf[r]] # NoResult /\ Replay(r)
       \/ records[KeyOf[r]] = NoResult /\ Goto(r, "reserving") /\ UNCHANGED ref
    /\ UNCHANGED <<wallets, records, attempts>>

\* The insert of the reservation waits for a transaction that holds the key,
\* then succeeds or finds the committed record.
Reserve(r) ==
    /\ pc[r] = "reserving"
    /\ Reserved(KeyOf[r]) = {}
    /\ \/ records[KeyOf[r]] # NoResult /\ Replay(r)
       \/ records[KeyOf[r]] = NoResult /\ Goto(r, "locking") /\ UNCHANGED ref
    /\ UNCHANGED <<wallets, records, attempts>>

\* pg_advisory_xact_lock on the account identity (the mutant locks the key
\* instead of the customer).
KeyIsLock(r) == TRUE
LockFree(r) == Locked(CustomerOf[r]) = {}

Lock(r) ==
    /\ pc[r] = "locking" /\ LockFree(r)
    /\ Goto(r, "finding")
    /\ UNCHANGED <<wallets, records, ref, attempts>>

\* The key's record commits with the work.
Commit(r, result) ==
    /\ records' = [records EXCEPT ![KeyOf[r]] = result]
    /\ Finish(r, result)

FindExisting(r) ==
    LET c == CustomerOf[r] IN
    /\ pc[r] = "finding"
    /\ \/ wallets[c] # None /\ Commit(r, Wallet(c, FALSE))
       \/ wallets[c] = None /\ Goto(r, "drawing") /\ UNCHANGED <<records, ref>>
    /\ UNCHANGED <<wallets, attempts>>

\* A drawn reference that is taken is drawn again, so often and no more.
Exhausted(n) == n = MaxReferenceAttempts

DrawReference(r) ==
    /\ pc[r] = "drawing"
    /\ \E f \in References :
          \/ /\ \A c \in Customers : wallets[c] # f
             /\ ref' = [ref EXCEPT ![r] = f]
             /\ Goto(r, "inserting") /\ UNCHANGED attempts
          \/ /\ \E c \in Customers : wallets[c] = f
             /\ attempts' = [attempts EXCEPT ![r] = @ + 1]
             /\ IF Exhausted(attempts'[r])
                THEN Finish(r, Without("error")) ELSE UNCHANGED <<pc, answer, ref>>
    /\ UNCHANGED <<wallets, records>>

\* The unique indexes on the identity and on the public reference (missing in
\* the mutant).
IdentityIndexOnly(r) == wallets[CustomerOf[r]] = None
IndexesAllow(r) ==
    wallets[CustomerOf[r]] = None /\ \A d \in Customers : wallets[d] # ref[r]

\* The "created" of the answer (the mutant always says the wallet was there).
AlwaysExisting(c) == FALSE
Created(c) == TRUE

\* The two inserts and the COMMIT.  A violation rolls the transaction back,
\* reservation included.
Insert(r) ==
    LET c == CustomerOf[r] IN
    /\ pc[r] = "inserting"
    /\ \/ /\ IndexesAllow(r)
          /\ wallets' = [wallets EXCEPT ![c] = ref[r]]
          /\ Commit(r, [customer |-> c, reference |-> ref[r], created |-> Created(c)])
       \/ /\ ~IndexesAllow(r)
          /\ Finish(r, Without("error")) /\ UNCHANGED <<wallets, records>>
    /\ UNCHANGED attempts

\* The connection or the process is lost: ROLLBACK.
Crash(r) ==
    /\ pc[r] \notin {"idle", "done"}
    /\ Finish(r, Without("error"))
    /\ UNCHANGED <<wallets, records, attempts>>

Next == \E r \in Requests :
    \/ replayIfSettled(r) \/ Reserve(r) \/ Lock(r) \/ FindExisting(r)
    \/ DrawReference(r) \/ Insert(r) \/ Crash(r)

Spec == Init /\ [][Next]_vars

-----------------------------------------------------------------------------
(* A customer whose wallet exists was told "created" under exactly one key *)
(* (or would have been: the record is there), and every record names the   *)
(* wallet's one reference, so replays under any key agree.                 *)
CreatedOnce ==
    \A c \in Customers :
        LET mine == {k \in Keys : records[k].customer = c} IN
        /\ Cardinality({k \in mine : records[k].created}) = IF wallets[c] = None THEN 0 ELSE 1
        /\ \A k \in mine : records[k].reference = wallets[c]

(* The advisory lock leaves the unique index on the account identity       *)
(* nothing to refuse: whoever is about to insert is alone for its customer *)
(* and that customer has no wallet.                                        *)
InsertsAlone ==
    \A r \in Requests : pc[r] = "inserting" =>
        wallets[CustomerOf[r]] = None /\ Locked(CustomerOf[r]) = {r}

(* Two customers never share a public reference, although two transactions *)
(* may draw the same one and both find it free.                            *)
ReferenceUnique ==
    \A c, d \in Customers : wallets[c] = wallets[d] => c = d \/ wallets[c] = None

(* One wallet per customer, announced once, under a reference of its own,  *)
(* however requests, retries and crashes of provisionDefault overlap.      *)
OneWalletPerCustomer ==
    /\ TypeOK
    /\ CreatedOnce
    /\ InsertsAlone
    /\ ReferenceUnique
=============================================================================
