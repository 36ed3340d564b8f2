------------------------------ MODULE WebLists ------------------------------
(***************************************************************************)
(* The paged lists of the web application: the customer's transfers        *)
(* (transfer-list.tsx) and account history (transaction-history.tsx), and  *)
(* the operators' dashboard (operator-dashboard.tsx) and drill history     *)
(* (recovery-console.tsx).  The customer lists disable their buttons while *)
(* a page loads and drop rows they know; the operator lists do neither, so *)
(* a second press or a refresh overlaps a page that is still on its way.   *)
(* Rows are numbered in the order the server made them and listed newest   *)
(* first; no two are of one millisecond, which the drill history's cursor  *)
(* (startedAt alone) could not tell apart.                                 *)
(***************************************************************************)
EXTENDS Naturals, FiniteSets, Sequences, SequencesExt

CONSTANTS PageSize,   \* rows on a page (20 or 50)
          FirstRows,  \* rows that exist when the page is opened
          MaxRows,    \* bound on rows
          MaxCalls    \* bound on requests under way at once

VARIABLES view, filter, rows, next, loading, error, calls, total, overlapped

vars == <<view, filter, rows, next, loading, error, calls, total, overlapped>>

Views == {"transfers", "transactions", "dashboard", "recovery"}
Customer == view \in {"transfers", "transactions"}
Filters == {"all", "odd"}
Matches(row, f) == f = "all" \/ row % 2 = 1

(* The server's cursor condition: (the mutant) includes the cursor row. *)
FromCursor(row, c) == c = 0 \/ row <= c

(* Rows strictly older than the cursor; 0 asks for the first page. *)
Follows(row, c) == c = 0 \/ row < c

(* Whether a further page exists: (the mutant) looks for one row too many. *)
MuchMore(fetched) == Len(fetched) > PageSize + 1

(* rows.length > 50: one row more than the page is fetched to find out. *)
More(fetched) == Len(fetched) > PageSize

(* A page: PageSize rows, newest first, and the cursor of the next one.     *)
Page(f, c, n) ==
    LET older   == {r \in 1..n : Matches(r, f) /\ Follows(r, c)}
        ordered == [k \in 1..Cardinality(older) |->
                      CHOOSE r \in older : Cardinality({s \in older : s > r}) = k - 1]
        fetched == SubSeq(ordered, 1, IF Len(ordered) > PageSize
                                      THEN PageSize + 1 ELSE Len(ordered))
        shown   == SubSeq(fetched, 1, IF Len(fetched) > PageSize
                                      THEN PageSize ELSE Len(fetched))
    IN [rows |-> shown, next |-> IF More(fetched) THEN Last(shown) ELSE 0]

NoPage == [rows |-> <<>>, next |-> 0]

Request(kind, f, c) ==
    [kind |-> kind, filter |-> f, cursor |-> c, served |-> FALSE, page |-> NoPage]

(* The account history's first page is rendered with the page; the others  *)
(* load theirs in an effect.                                               *)
Init ==
    /\ view \in Views /\ filter = "all" /\ total = FirstRows
    /\ error = FALSE /\ overlapped = FALSE
    /\ IF view = "transactions"
       THEN /\ rows = Page("all", 0, FirstRows).rows
            /\ next = Page("all", 0, FirstRows).next
            /\ loading = FALSE /\ calls = <<>>
       ELSE /\ rows = <<>> /\ next = 0 /\ loading = TRUE
            /\ calls = <<Request("replace", "all", 0)>>

NewRow ==
    /\ total < MaxRows
    /\ total' = total + 1
    /\ UNCHANGED <<view, filter, rows, next, loading, error, calls, overlapped>>

Send(kind, f, c) ==
    /\ Len(calls) < MaxCalls
    /\ calls' = Append(calls, Request(kind, f, c))
    /\ overlapped' = (overlapped \/ calls # <<>>)

(* Applying filters in the transfer list: a new first page replaces the    *)
(* rows when it arrives; until then, and if it fails, the old rows stay.   *)
ApplyFilters(f) ==
    /\ view = "transfers" /\ ~loading
    /\ filter' = f /\ error' = FALSE /\ loading' = TRUE
    /\ Send("replace", f, 0)
    /\ UNCHANGED <<view, rows, next, total>>

(* Filters of the account history change the address, whose page is keyed  *)
(* by it: the list starts again and answers under way go nowhere.          *)
Navigate(f) ==
    /\ view = "transactions" /\ f # filter
    /\ filter' = f /\ error' = FALSE /\ loading' = FALSE
    /\ rows' = Page(f, 0, total).rows /\ next' = Page(f, 0, total).next
    /\ calls' = <<>> /\ overlapped' = FALSE
    /\ UNCHANGED <<view, total>>

(* load() of the operator pages, by the Refresh button or after a release, *)
(* a planned drill or an acknowledgement; the page is hidden meanwhile.    *)
load ==
    /\ ~Customer /\ ~loading
    /\ loading' = TRUE /\ error' = FALSE
    /\ Send("replace", "all", 0)
    /\ UNCHANGED <<view, filter, rows, next, total>>

(* The error line when a further page is asked for: (the mutant) cleared   *)
(* by every list.                                                          *)
ErrorCleared == FALSE

(* Only the account history clears it. *)
ErrorKept == IF view = "transactions" THEN FALSE ELSE error

(* The dashboard takes its cursor from the last row on screen. *)
CursorOf == IF view = "dashboard" THEN Last(rows) ELSE next

(* "Load more": the customer lists set loading, the operator lists do not. *)
loadMore ==
    /\ ~loading /\ next # 0
    /\ loading' = Customer /\ error' = ErrorKept
    /\ Send("append", filter, CursorOf)
    /\ UNCHANGED <<view, filter, rows, next, total>>

(* The server answers a request from the rows it has at that moment. *)
Serve(i) ==
    /\ ~calls[i].served
    /\ calls' = [calls EXCEPT ![i].served = TRUE,
                              ![i].page = Page(calls[i].filter, calls[i].cursor, total)]
    /\ UNCHANGED <<view, filter, rows, next, loading, error, total, overlapped>>

Appended(page) ==
    IF Customer THEN rows \o SelectSeq(page.rows, LAMBDA r : ~Contains(rows, r))
                ELSE rows \o page.rows

(* The answer reaches the component, in whatever order answers come back.  *)
Arrive(i) ==
    /\ calls[i].served
    /\ LET c == calls[i] IN
        /\ rows' = IF c.kind = "replace" THEN c.page.rows ELSE Appended(c.page)
        /\ next' = c.page.next
        /\ loading' = (loading /\ ~Customer /\ c.kind = "append")
        /\ calls' = RemoveAt(calls, i)
        /\ overlapped' = (overlapped /\ ~(c.kind = "replace" /\ Len(calls) = 1))
        /\ UNCHANGED <<view, filter, error, total>>

(* The request fails: rows and cursor are kept and an error is shown. *)
Fail(i) ==
    /\ error' = TRUE
    /\ loading' = (loading /\ ~Customer /\ calls[i].kind = "append")
    /\ calls' = RemoveAt(calls, i)
    /\ UNCHANGED <<view, filter, rows, next, total, overlapped>>

Next ==
    \/ NewRow \/ load \/ loadMore
    \/ \E f \in Filters : ApplyFilters(f) \/ Navigate(f)
    \/ \E i \in DOMAIN calls : Serve(i) \/ Arrive(i) \/ Fail(i)

Spec == Init /\ [][Next]_vars

-----------------------------------------------------------------------------
(* A row is listed twice only in an operator list in which two requests    *)
(* were under way together; the customer lists never show one twice.       *)
RowShownOnce == (Customer \/ ~overlapped) => IsInjective(rows)

(* Rows that do not match the applied filters are on screen only with the  *)
(* notice that earlier results were retained, also after further pages     *)
(* were loaded under the new filters (transfer-list load).                 *)
MixedRowsAreFlagged ==
    (~loading /\ \E i \in DOMAIN rows : ~Matches(rows[i], filter)) => error

(* Unless requests overlapped or one failed, the rows on screen are all    *)
(* rows from the newest one fetched down to the last one shown, and down   *)
(* to the oldest once "load more" is gone: no row falls between two pages  *)
(* although new rows keep arriving at the top.                             *)
NothingSkipped ==
    (~overlapped /\ ~error /\ ~loading /\ rows # <<>>) =>
        \A r \in 1..rows[1] :
            Matches(r, filter) /\ (next = 0 \/ r > Last(rows)) => Contains(rows, r)
=============================================================================
