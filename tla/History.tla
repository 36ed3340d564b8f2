------------------------------ MODULE History -------------------------------
(***************************************************************************)
(* Transaction history of one account (transaction.service.ts): the        *)
(* postings are read in one query, the balance after each is a running sum *)
(* in (createdAt, id) order, then filters, the descending sort and the     *)
(* cursor apply.  A customer pages through while journals post.  Postings  *)
(* to one account are serialised by its row lock, so their timestamps      *)
(* never go back, but two may carry the same millisecond, and then the     *)
(* random id orders them.                                                  *)
(***************************************************************************)
EXTENDS Integers, Sequences, SequencesExt, FiniteSets

CONSTANTS Ids,          \* posting ids, numbers
          MaxTime,      \* bound on the clock, in milliseconds
          PageSize

VARIABLES now,          \* createdAt of the next posting
          postings,     \* the account's postings
          filter,       \* the directions the customer asked for
          pager,        \* "start", "paging" or "end" (nextCursor is null)
          cursor,       \* the row the cursor names
          shown,        \* the rows of the pages so far
          atStart       \* history: the postings when the first page was read

vars == <<now, postings, filter, pager, cursor, shown, atStart>>

Directions == {"INCOMING", "OUTGOING"}
NoRow == [id |-> 0, at |-> 0, direction |-> "INCOMING"]
ConstantsOK == Ids \subseteq Nat \ {0} /\ PageSize > 0

Init ==
    /\ now = 0 /\ postings = {}
    /\ filter \in {Directions, {"INCOMING"}}
    /\ pager = "start" /\ cursor = NoRow /\ shown = <<>> /\ atStart = {}

Tick == now < MaxTime /\ now' = now + 1
        /\ UNCHANGED <<postings, filter, pager, cursor, shown, atStart>>

\* A journal commits a posting of one unit to the account.
PostJournal ==
    /\ \E i \in Ids \ {p.id : p \in postings}, d \in Directions :
          postings' = postings \cup {[id |-> i, at |-> now, direction |-> d]}
    /\ UNCHANGED <<now, filter, pager, cursor, shown, atStart>>

-----------------------------------------------------------------------------
Newer(p, q) == p.at > q.at \/ (p.at = q.at /\ p.id > q.id)
Upto(p) == {q \in postings : ~Newer(q, p)}
Count(rows, d) == Cardinality({q \in rows : q.direction = d})

\* The running sum over every posting (the mutant filters first).
BalanceOfFiltered(p) ==
    LET rows == {q \in Upto(p) : q.direction \in filter} IN
    Count(rows, "INCOMING") - Count(rows, "OUTGOING")
BalanceAfter(p) == Count(Upto(p), "INCOMING") - Count(Upto(p), "OUTGOING")

Filtered == SetToSortSeq({p \in postings : p.direction \in filter}, Newer)

\* Where the page starts: behind the row the cursor names, wherever it is now
\* (the mutant counts the rows it has shown).
StartOffset(rows) == Len(shown)
Start(rows) ==
    IF cursor = NoRow THEN 0
    ELSE CHOOSE i \in DOMAIN rows : rows[i] = cursor

Smaller(a, b) == IF a < b THEN a ELSE b

list ==
    /\ pager # "end"
    /\ LET rows == Filtered
           page == SubSeq(rows, Start(rows) + 1, Smaller(Start(rows) + PageSize, Len(rows)))
           more == page # <<>> /\ Start(rows) + Len(page) < Len(rows)
       IN /\ shown' = shown \o [i \in DOMAIN page |->
                                  [row |-> page[i], balanceAfter |-> BalanceAfter(page[i])]]
          /\ pager' = IF more THEN "paging" ELSE "end"
          /\ cursor' = IF more THEN page[Len(page)] ELSE cursor
    /\ atStart' = IF pager = "start" THEN postings ELSE atStart
    /\ UNCHANGED <<now, postings, filter>>

Next == Tick \/ PostJournal \/ list

Spec == Init /\ [][Next]_vars

-----------------------------------------------------------------------------
(* Paging to the end shows every matching posting that existed when paging *)
(* began exactly once, newest first, whatever posts between two pages.     *)
PagesCoverTheStart ==
    /\ \A i, j \in DOMAIN shown : i < j => Newer(shown[i].row, shown[j].row)
    /\ pager = "end" => \A p \in atStart : p.direction \in filter =>
                            \E i \in DOMAIN shown : shown[i].row = p

(* A balance-after the customer was shown stays the balance after that     *)
(* posting, unless a posting of the same millisecond committed since; and  *)
(* it includes the postings the filter hides.                              *)
ShownBalanceStands ==
    \A i \in DOMAIN shown :
        \/ shown[i].balanceAfter = Count(Upto(shown[i].row), "INCOMING")
                                   - Count(Upto(shown[i].row), "OUTGOING")
        \/ \E p \in postings \ atStart : p.at = shown[i].row.at
=============================================================================
