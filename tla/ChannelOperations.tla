------------------------- MODULE ChannelOperations --------------------------
(***************************************************************************)
(* The Ledger's channel operations (channel-operations.service.ts): QR     *)
(* payments between wallets, agent cash-in and cash-out against the agent  *)
(* float.  Each reads its accounts without a lock, checks funds where it   *)
(* debits a wallet, and posts a journal; the journal is the atomic step of *)
(* LedgerService, which Ledger.tla implements.  A wallet is a liability    *)
(* and the float an asset, so a debit lowers the one and raises the other. *)
(***************************************************************************)
EXTENDS Integers, FiniteSets, Functions

CONSTANTS Wallets, Requests, Keys, KeyOf,
          KindOf,       \* [Requests -> {"qr", "in", "out"}]
          PayerOf,      \* [Requests -> Wallets]: the wallet of an agent operation
          PayeeOf,      \* [Requests -> Wallets]: the recipient of a QR payment
          AmountOf,     \* [Requests -> Int]
          Opening       \* [Wallets -> Nat]

VARIABLES balance,      \* wallets and float, signed by their class
          settled,      \* [Keys -> the request whose journal is posted]
          active,       \* the wallets with status ACTIVE
          floats,       \* the AGENT_FLOAT account exists: nothing seeds it
          pc            \* [Requests -> where the request is]

vars == <<balance, settled, active, floats, pc>>

Float == "AGENT_FLOAT"
NoRequest == "none"
ConstantsOK ==
    /\ Float \notin Wallets /\ NoRequest \notin Requests
    /\ IsFiniteSet(Wallets) /\ Opening \in [Wallets -> Nat]
    /\ KeyOf \in [Requests -> Keys] /\ KindOf \in [Requests -> {"qr", "in", "out"}]
    /\ PayerOf \in [Requests -> Wallets] /\ PayeeOf \in [Requests -> Wallets]
    /\ AmountOf \in [Requests -> Int]

\* The postings as signed changes.  The float grows with a cash-in, whose
\* cash the agent holds (the mutant posts a cash-out as a cash-in).
ChangeAllIn(r, a) ==
    CASE a = PayerOf[r] -> IF KindOf[r] = "qr" THEN -AmountOf[r] ELSE AmountOf[r]
      [] KindOf[r] = "qr" /\ a = PayeeOf[r] -> AmountOf[r]
      [] KindOf[r] # "qr" /\ a = Float -> IF KindOf[r] = "in" THEN AmountOf[r] ELSE -AmountOf[r]
      [] OTHER -> 0
Change(r, a) ==
    CASE a = PayerOf[r] -> IF KindOf[r] = "in" THEN AmountOf[r] ELSE -AmountOf[r]
      [] KindOf[r] = "qr" /\ a = PayeeOf[r] -> AmountOf[r]
      [] KindOf[r] # "qr" /\ a = Float -> IF KindOf[r] = "in" THEN AmountOf[r] ELSE -AmountOf[r]
      [] OTHER -> 0

Accounts == Wallets \cup {Float}
Effects == [r \in Requests |-> [a \in Accounts |-> Change(r, a)]]
Openings == [a \in Accounts |-> IF a = Float THEN 0 ELSE Opening[a]]

Journals == INSTANCE LedgerService WITH AllowNegative <- {Float},
                                        Effect <- Effects, Opening <- Openings

Init ==
    /\ Journals!ServiceInit
    /\ active \in SUBSET Wallets /\ floats \in BOOLEAN
    /\ pc = [r \in Requests |-> "idle"]

\* The wallets a request names, and its checks on what it read.
Named(r) == IF KindOf[r] = "qr" THEN {PayerOf[r], PayeeOf[r]} ELSE {PayerOf[r]}
Admits(r) ==
    /\ Named(r) \subseteq active
    /\ KindOf[r] = "qr" => PayerOf[r] # PayeeOf[r]
    /\ KindOf[r] # "qr" => floats
    /\ AmountOf[r] > 0
    /\ KindOf[r] # "in" => balance[PayerOf[r]] >= AmountOf[r]

Check(r) ==
    /\ pc[r] = "idle"
    /\ pc' = [pc EXCEPT ![r] = IF Admits(r) THEN "posting" ELSE "refused"]
    /\ UNCHANGED <<balance, settled, active, floats>>

\* Whether a settled key answers r: (the mutant) whatever was posted under it.
AnyPayload(r) == TRUE
SamePayload(r) == Effects[r] = Effects[settled[KeyOf[r]]]

\* journals.post: the journal commits, or its key has settled (a request with
\* the key's payload is told its journal), or the wallet does not cover it.
PostJournal(r) ==
    /\ pc[r] = "posting"
    /\ \/ Journals!Settle(r) /\ pc' = [pc EXCEPT ![r] = "answered"]
       \/ /\ settled[KeyOf[r]] # NoRequest
          /\ pc' = [pc EXCEPT ![r] = IF SamePayload(r)
                                     THEN "answered" ELSE "refused"]
          /\ UNCHANGED <<balance, settled>>
       \/ /\ settled[KeyOf[r]] = NoRequest /\ ~Journals!Covered(r)
          /\ pc' = [pc EXCEPT ![r] = "refused"]
          /\ UNCHANGED <<balance, settled>>
    /\ UNCHANGED <<active, floats>>

\* An account is frozen or closed.
Deactivate(w) ==
    /\ w \in active /\ active' = active \ {w}
    /\ UNCHANGED <<balance, settled, floats, pc>>

Next ==
    \/ \E r \in Requests : Check(r) \/ PostJournal(r)
    \/ \E w \in Wallets : Deactivate(w)

Spec == Init /\ [][Next]_vars

-----------------------------------------------------------------------------
(* What the platform owes its customers grows and shrinks with the cash    *)
(* its agents hold: QR payments, cash-in and cash-out, interleaved and     *)
(* retried, leave wallets minus float where they were.                     *)
FloatBacksWallets ==
    SumFunctionOnSet(balance, Wallets) - balance[Float]
        = SumFunctionOnSet(Opening, Wallets)

(* The funds check reads a balance that may be gone when the journal       *)
(* posts: no wallet is overdrawn all the same, and a request that was      *)
(* answered has its key settled by its own payload.                        *)
StaleCheckIsHarmless ==
    /\ \A w \in Wallets : balance[w] >= 0
    /\ \A r \in Requests : pc[r] = "answered" =>
          settled[KeyOf[r]] # NoRequest /\ Effects[settled[KeyOf[r]]] = Effects[r]
=============================================================================
