--------------------------- MODULE LedgerService ---------------------------
(***************************************************************************)
(* What the Ledger promises its callers, in one atomic step per command:   *)
(* a command key settles at most once, the first request that settles it   *)
(* is the one whose postings count, and no account without an overdraft    *)
(* allowance is ever taken below zero.  Ledger.tla is the detailed         *)
(* specification that implements this one; Transfers.tla is written        *)
(* against it.                                                             *)
(***************************************************************************)
EXTENDS Integers

CONSTANTS
    Accounts,        \* ledger accounts
    AllowNegative,   \* those with allow_negative_balance (system accounts)
    Requests,        \* journal requests: a key and a payload
    Keys,            \* (scope, idempotency key) pairs
    KeyOf,           \* the key a request is sent under
    Effect,          \* signed change a request makes to each account
    Opening,         \* balances at the start
    NoRequest        \* null for requests

VARIABLES
    balance,   \* signed balance of each account, Int
    settled    \* the request that settled each key, or NoRequest

svars == <<balance, settled>>

ServiceInit ==
    /\ balance = Opening
    /\ settled = [k \in Keys |-> NoRequest]

\* Balances once r's postings are applied.
Applied(r) == [a \in Accounts |-> balance[a] + Effect[r][a]]

\* No account that forbids it would be overdrawn by r.
Covered(r) == \A a \in Accounts \ AllowNegative : Applied(r)[a] >= 0

\* The one state change: r's key is unused and its postings are covered.
Settle(r) ==
    /\ settled[KeyOf[r]] = NoRequest
    /\ Covered(r)
    /\ settled' = [settled EXCEPT ![KeyOf[r]] = r]
    /\ balance' = Applied(r)

ServiceNext == \E r \in Requests : Settle(r)

ServiceSpec == ServiceInit /\ [][ServiceNext]_svars
============================================================================
