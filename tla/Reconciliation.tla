--------------------------- MODULE Reconciliation ---------------------------
(***************************************************************************)
(* `pnpm reconcile:all` (infra/scripts/reconcile-all.mjs): the Ledger,     *)
(* Payments, Risk and Resilience reconciliations, one after the other.     *)
(* The Ledger's is a sequence of queries, each on its own snapshot, run    *)
(* while journals commit, whose rows fill one bounded list of issues; the  *)
(* Payments one turns six counts into another, of which the aggregate      *)
(* report prints the first entries; each of the four is killed at its      *)
(* timeout.  What the other databases hold is chosen when their script     *)
(* reads it.  The Ledger's output spans several lines, so the aggregate    *)
(* report has its status and none of its codes.                            *)
(***************************************************************************)
EXTENDS Naturals, Sequences

CONSTANTS MaxJournals,      \* bound on journals committed during the run
          LedgerFaults,     \* faults the Ledger's database may hold at the start
          LedgerRows,       \* the rows of one fault there may be
          Counts,           \* the counts a Payments query may return
          MaxIssues,        \* length limit of the Ledger's and Payments' lists
          MaxPrinted        \* entries of a list that the aggregate report prints

VARIABLES journals,         \* journals committed
          projected,        \* journals applied to the balance projections
          faults,           \* rows of each fault in the Ledger's database
          atStart,          \* history: the faults when the run began
          query,            \* queries the Ledger run has made
          counted,          \* journals its first query counted
          ledgerIssues,     \* codes with an entry in its list
          ledgerRoom,       \* entries its list still has room for
          payments,         \* the counts Payments read
          pushed,           \* issues of each code in its list
          risk,             \* the issues Risk counted
          resilience,       \* the issues Resilience found
          results           \* status of each script that has ended, in order

vars == <<journals, projected, faults, atStart, query, counted, ledgerIssues,
          ledgerRoom, payments, pushed, risk, resilience, results>>

\* The queries after the counts, in the order ReconciliationService.run sends
\* them.
LedgerChecks == <<"UNBALANCED_JOURNAL", "POSTING_CURRENCY_MISMATCH",
                  "NON_POSITIVE_POSTING_AMOUNT", "BALANCE_PROJECTION_DRIFT",
                  "MISSING_BALANCE_PROJECTION", "CUSTOMER_ACCOUNT_LEDGER_MISMATCH",
                  "DUPLICATE_DEFAULT_ACCOUNT", "NEGATIVE_CUSTOMER_BALANCE",
                  "MISSING_SYSTEM_ACCOUNT">>
Drift == "BALANCE_PROJECTION_DRIFT"

\* The Payments checks in the order they are added; the fourth, stale
\* PROCESSING transfers, is a warning.
PaymentsChecks == 1 .. 6
Warnings == {4}

Scripts == <<"ledger", "payments", "risk", "resilience">>
Critical == "PASSED_WITHOUT_RESTORE_EVIDENCE"
Advisory == "UNVERIFIED_BACKUP_SET"

\* The code's limits are 50 and 16; six codes that halve the room need 32.
ConstantsOK ==
    /\ LedgerFaults \subseteq {LedgerChecks[i] : i \in DOMAIN LedgerChecks}
    /\ LedgerRows \subseteq Nat /\ Counts \subseteq Nat
    /\ MaxIssues \in Nat /\ MaxIssues >= 32 /\ MaxPrinted \in Nat

Init ==
    /\ journals = 0 /\ projected = 0
    /\ faults \in [LedgerFaults -> LedgerRows] /\ atStart = faults
    /\ query = 0 /\ counted = 0 /\ ledgerIssues = {} /\ ledgerRoom = MaxIssues
    /\ payments = [i \in PaymentsChecks |-> 0] /\ pushed = payments
    /\ risk = 0 /\ resilience = {}
    /\ results = <<>>

Running(script) == Len(results) < Len(Scripts) /\ Scripts[Len(results) + 1] = script

End(status) == results' = Append(results, status)

\* A journal commits together with its projection updates (Ledger!Commit).
\* The other scripts do not read journals.
PostJournal ==
    /\ journals < MaxJournals /\ Running("ledger")
    /\ journals' = journals + 1 /\ projected' = projected + 1
    /\ UNCHANGED <<faults, atStart, query, counted, ledgerIssues, ledgerRoom, payments,
                   pushed, risk, resilience, results>>

\* An operator repairs a fault while the run is under way.
Repair(f) ==
    /\ faults[f] > 0 /\ faults' = [faults EXCEPT ![f] = 0]
    /\ UNCHANGED <<journals, projected, atStart, query, counted, ledgerIssues, ledgerRoom,
                   payments, pushed, risk, resilience, results>>

-----------------------------------------------------------------------------
Smaller(a, b) == IF a < b THEN a ELSE b

\* The rows one query finds.  The drift query compares postings and
\* projections in a single statement (the mutant compares with the earlier
\* count).
Rows(code) == IF code \in LedgerFaults THEN faults[code] ELSE 0
SeesTwoReads(code) == Rows(code) + (IF code = Drift /\ projected # counted THEN 1 ELSE 0)
Sees(code) == Rows(code) + (IF code = Drift /\ projected # journals THEN 1 ELSE 0)

\* How many of them add() pushes: it returns at MAX_RECONCILIATION_ISSUES,
\* which also limits the query (the mutant drops a batch that does not fit).
TakesAllOrNothing(rows, left) == IF rows <= left THEN rows ELSE 0
Takes(rows, left) == Smaller(rows, left)

LedgerQuery ==
    LET code == LedgerChecks[query]
        took == IF query = 0 THEN 0 ELSE Takes(Sees(code), ledgerRoom)
    IN  /\ Running("ledger") /\ query <= Len(LedgerChecks)
        /\ query' = query + 1
        /\ counted' = IF query = 0 THEN journals ELSE counted
        /\ ledgerRoom' = ledgerRoom - took
        /\ ledgerIssues' = IF took > 0 THEN ledgerIssues \cup {code} ELSE ledgerIssues
        /\ UNCHANGED <<journals, projected, faults, atStart, payments, pushed, risk,
                       resilience, results>>

LedgerEnds ==
    /\ Running("ledger") /\ query = Len(LedgerChecks) + 1
    /\ End(IF ledgerIssues = {} THEN "PASS" ELSE "FAIL")
    /\ query' = 0
    /\ UNCHANGED <<journals, projected, faults, atStart, counted, ledgerIssues, ledgerRoom,
                   payments, pushed, risk, resilience>>

\* How many issues one add() pushes into a list with so much room left: the
\* bound of its loop, min(count, 50 - issues.length), shrinks as the list
\* grows, so one code takes at most half of the room (the mutant evaluates
\* the bound once).
PushedAtOnce(count, room) == Smaller(count, room)
Pushed(count, room) ==
    CHOOSE i \in 0 .. room :
        /\ i >= Smaller(count, room - i)
        /\ i > 0 => i - 1 < Smaller(count, room - (i - 1))

\* The six add() calls, each into the room the ones before it left.
PushedAt(counts) ==
    LET p1 == Pushed(counts[1], MaxIssues)  r1 == MaxIssues - p1
        p2 == Pushed(counts[2], r1)         r2 == r1 - p2
        p3 == Pushed(counts[3], r2)         r3 == r2 - p3
        p4 == Pushed(counts[4], r3)         r4 == r3 - p4
        p5 == Pushed(counts[5], r4)         r5 == r4 - p5
        p6 == Pushed(counts[6], r5)
    IN <<p1, p2, p3, p4, p5, p6>>

PaymentsRun ==
    /\ Running("payments")
    /\ payments' \in [PaymentsChecks -> Counts]
    /\ pushed' = PushedAt(payments')
    /\ End(IF \E i \in PaymentsChecks \ Warnings : pushed'[i] > 0
           THEN "FAIL" ELSE "PASS")
    /\ UNCHANGED <<journals, projected, faults, atStart, query, counted, ledgerIssues, ledgerRoom,
                   risk, resilience>>

\* Risk counts five kinds of issue, all of which fail it.
RiskRun ==
    /\ Running("risk")
    /\ risk' \in 0 .. 1
    /\ End(IF risk' = 0 THEN "PASS" ELSE "FAIL")
    /\ UNCHANGED <<journals, projected, faults, atStart, query, counted, ledgerIssues, ledgerRoom,
                   payments, pushed, resilience>>

\* Resilience fails on critical issues; warnings are reported only (the
\* mutant asks whether every issue is critical).
AllCritical(issues) == issues # {} /\ issues \subseteq {Critical}
Fails(issues) == Critical \in issues

ResilienceRun ==
    /\ Running("resilience")
    /\ resilience' \in SUBSET {Critical, Advisory}
    /\ End(IF Fails(resilience') THEN "FAIL" ELSE "PASS")
    /\ UNCHANGED <<journals, projected, faults, atStart, query, counted, ledgerIssues, ledgerRoom,
                   payments, pushed, risk>>

\* SIGTERM, then SIGKILL: whatever the script had found, its status is
\* TIMEOUT and the next script starts.
Timeout ==
    /\ Len(results) < Len(Scripts)
    /\ End("TIMEOUT")
    /\ query' = 0
    /\ UNCHANGED <<journals, projected, faults, atStart, counted, ledgerIssues, ledgerRoom,
                   payments, pushed, risk, resilience>>

Next ==
    \/ PostJournal \/ \E f \in LedgerFaults : Repair(f)
    \/ LedgerQuery \/ LedgerEnds \/ PaymentsRun \/ RiskRun \/ ResilienceRun \/ Timeout

Spec == Init /\ [][Next]_vars

-----------------------------------------------------------------------------
Broken == {f \in LedgerFaults : faults[f] > 0}
BrokenAtStart == {f \in LedgerFaults : atStart[f] > 0}

(* Journals that commit between the Ledger's queries raise no alarm: every *)
(* code it reports is a fault the database held when the run began.        *)
NoFalseAlarm == ledgerIssues \subseteq BrokenAtStart

(* A fault that outlived a Ledger run is in its list, unless the checks    *)
(* before it had filled the list.                                          *)
LedgerLosesOnlyWhenFull ==
    results # <<>> /\ results[1] # "TIMEOUT" =>
        Broken \subseteq ledgerIssues \/ ledgerRoom = 0

(* A run whose four results are PASS leaves nothing broken behind: a fault *)
(* that outlived the run, a Payments error however many warnings and other *)
(* errors compete for the bounded list, a Risk issue or a critical         *)
(* Resilience issue each make it fail.                                     *)
AllPassIsTrue ==
    results = [i \in DOMAIN Scripts |-> "PASS"] =>
        /\ Broken = {}
        /\ \A i \in PaymentsChecks \ Warnings : payments[i] = 0
        /\ risk = 0 /\ Critical \notin resilience

(* Every code with a count above zero gets at least one entry of the       *)
(* bounded list, which stays within its limit.                             *)
EveryCodeReported ==
    /\ \A i \in PaymentsChecks : payments[i] > 0 => pushed[i] > 0
    /\ pushed[1] + pushed[2] + pushed[3] + pushed[4] + pushed[5] + pushed[6] <= MaxIssues

\* The entries of the codes before i.
Before(entries, i) ==
      (IF i > 1 THEN entries[1] ELSE 0) + (IF i > 2 THEN entries[2] ELSE 0)
    + (IF i > 3 THEN entries[3] ELSE 0) + (IF i > 4 THEN entries[4] ELSE 0)
    + (IF i > 5 THEN entries[5] ELSE 0)

\* summarizeOutput prints the first sixteen entries of the list (the mutant
\* only codes that fit as a whole).
PrintedWhole(i) == pushed[i] > 0 /\ Before(pushed, i) + pushed[i] <= MaxPrinted
Printed(i) == pushed[i] > 0 /\ Before(pushed, i) < MaxPrinted

(* A Payments code is missing from the aggregate report only if the checks *)
(* before it, warnings included, counted at least sixteen rows.            *)
PrintedUnlessCrowded ==
    \A i \in PaymentsChecks :
        payments[i] > 0 => Printed(i) \/ Before(payments, i) >= MaxPrinted

-----------------------------------------------------------------------------
(* The inductive invariant behind the properties. *)

Typed ==
    /\ journals \in Nat /\ projected = journals
    /\ query \in 0 .. Len(LedgerChecks) + 1
    /\ results \in Seq({"PASS", "FAIL", "TIMEOUT"}) /\ Len(results) <= Len(Scripts)
    /\ payments \in [PaymentsChecks -> Nat]
    /\ faults \in [LedgerFaults -> Nat]

\* Faults are repaired, never made, while the run goes on.
FaultsShrink == Broken \subseteq BrokenAtStart

\* Room is taken by entries.
RoomTaken ==
    ledgerRoom \in 0 .. MaxIssues /\ (ledgerRoom < MaxIssues => ledgerIssues # {})

\* The Ledger's run has reported every standing fault it has asked about, or
\* filled its list.
AskedIsReported ==
    Len(results) = 0 =>
        \A i \in DOMAIN LedgerChecks :
            i < query /\ LedgerChecks[i] \in Broken =>
                LedgerChecks[i] \in ledgerIssues \/ ledgerRoom = 0

\* What each script's PASS stands for.
PassMeans ==
    /\ Len(results) >= 1 /\ results[1] = "PASS" => Broken = {}
    /\ Len(results) >= 2 /\ results[2] = "PASS" =>
           \A i \in PaymentsChecks \ Warnings : payments[i] = 0
    /\ Len(results) >= 3 /\ results[3] = "PASS" => risk = 0
    /\ Len(results) >= 4 /\ results[4] = "PASS" => Critical \notin resilience

\* The list has no entry without a row.
PushedWereCounted ==
    \A i \in PaymentsChecks : pushed[i] \in Nat /\ pushed[i] <= payments[i]

IInv ==
    /\ Typed
    /\ FaultsShrink
    /\ RoomTaken
    /\ NoFalseAlarm
    /\ AskedIsReported
    /\ LedgerLosesOnlyWhenFull
    /\ PassMeans
    /\ EveryCodeReported
    /\ PushedWereCounted
=============================================================================
