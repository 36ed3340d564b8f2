------------------------------ MODULE Postings ------------------------------
(***************************************************************************)
(* The pure part of JournalService: how a request's posting list is        *)
(* combined, hashed for idempotency and ordered for locking.  The list     *)
(* under test grows one posting at a time, so every list up to MaxPostings *)
(* is checked.                                                             *)
(***************************************************************************)
EXTENDS Integers, Sequences, SequencesExt, FiniteSets, FiniteSetsExt

CONSTANTS
    AccountIds,    \* account identifiers, in an order of their own
    Amounts,       \* amounts a posting may carry, in minor units
    MaxPostings    \* bound on the length of the list

ConstantsOK ==
    /\ AccountIds \subseteq Nat
    /\ Amounts \subseteq Int
    /\ MaxPostings \in Nat

Directions == {"DEBIT", "CREDIT"}
Posting == [account : AccountIds, direction : Directions, amount : Amounts]

\* The map key of normalisePostings, and a key that forgets the direction.
SameAccount(p, q) == p.account = q.account
SameRow(p, q) == p.account = q.account /\ p.direction = q.direction

\* The row kept for p's account and direction, grown by p.
Merged(rows, p) ==
    [i \in DOMAIN rows |-> IF SameRow(rows[i], p)
                           THEN [rows[i] EXCEPT !.amount = @ + p.amount]
                           ELSE rows[i]]

Known(rows, p) == \E i \in DOMAIN rows : SameRow(rows[i], p)

\* A posting adds to the row already kept for it or becomes the last row (in
\* the mutant, the first).
CombineInFront(rows, p) ==
    IF Known(rows, p) THEN Merged(rows, p) ELSE <<p>> \o rows
Combine(rows, p) ==
    IF Known(rows, p) THEN Merged(rows, p) ELSE Append(rows, p)

normalisePostings(list) == FoldLeft(Combine, <<>>, list)

\* Sum of the amounts of a list's rows that satisfy a test.
SumWhere(rows, Test(_)) ==
    MapThenSumSet(LAMBDA i : rows[i].amount,
                  {i \in DOMAIN rows : Test(rows[i])})

\* The distinct accounts, ascending (in the mutant, as listed).
ListedOrder(rows) == [i \in DOMAIN rows |-> rows[i].account]
deterministicAccountOrder(rows) ==
    SetToSortSeq({rows[i].account : i \in DOMAIN rows}, <)

\* The rows as the request hash sees them: normalised, then sorted by account
\* and direction (in the mutant, unsorted).
UnsortedPayload(list) == normalisePostings(list)
canonicalPayload(list) ==
    LET Before(p, q) ==
            \/ p.account < q.account
            \/ /\ p.account = q.account
               /\ p.direction = "CREDIT" /\ q.direction = "DEBIT"
    IN  SortSeq(normalisePostings(list), Before)

\* A normalised row's amount, zero where there is none.
AmountOf(rows, a, d) ==
    SumWhere(rows, LAMBDA p : p.account = a /\ p.direction = d)

-----------------------------------------------------------------------------
VARIABLE postings

Init == postings = <<>>

AddPosting(p) ==
    /\ Len(postings) < MaxPostings
    /\ postings' = Append(postings, p)

Next == \E p \in Posting : AddPosting(p)

Spec == Init /\ [][Next]_postings

-----------------------------------------------------------------------------
\* Each account and direction of the request has exactly one surviving row and
\* its amount is the sum of the combined ones (normalisePostings).
NormalisedSums ==
    LET rows == normalisePostings(postings)
    IN  /\ \A i, j \in DOMAIN rows : SameRow(rows[i], rows[j]) => i = j
        /\ \A a \in AccountIds, d \in Directions :
               AmountOf(rows, a, d) = AmountOf(postings, a, d)

\* Surviving rows keep the order in which the caller first named them.
NormalisedOrder ==
    LET rows == normalisePostings(postings)
        First(p) == Min({i \in DOMAIN postings : SameRow(postings[i], p)})
    IN  \A i, j \in DOMAIN rows : i < j => First(rows[i]) < First(rows[j])

\* A retry that lists or splits the same postings differently hashes to the
\* same payload, so it replays instead of conflicting (post's payload).
RetryHashesAlike ==
    \A q \in {Reverse(postings),
              normalisePostings(postings)} :
        canonicalPayload(q) = canonicalPayload(postings)

\* Two requests over the same accounts lock them in the same order, however
\* the caller listed them: the order depends on the account set alone.
LockOrderCanonical ==
    LET rows == normalisePostings(postings)
        order == deterministicAccountOrder(rows)
    IN  /\ order = deterministicAccountOrder(Reverse(postings))
        /\ \A i, j \in DOMAIN order : i < j => order[i] < order[j]
        /\ {order[i] : i \in DOMAIN order} =
               {postings[i].account : i \in DOMAIN postings}
============================================================================
