------------------------------ MODULE MCLedger ------------------------------
(***************************************************************************)
(* Two wallets and an overdraft-capable settlement account.  Requests:     *)
(*   send, back  transfers between the wallets, one in each direction      *)
(*   spend       a second payment from the wallet send is paid from        *)
(*   fund        a journal that credits a wallet from settlement           *)
(*   changed     another payload under send's key                          *)
(*   reused      another key under send's reference                        *)
(*   lopsided    a journal whose sides differ                              *)
(*   foreign     a journal over an account in another currency             *)
(* The row order puts bob before alice, so the two transfers take the      *)
(* wallets in an order that is the posting order of only one of them.      *)
(***************************************************************************)
EXTENDS Ledger, TLC

Post == INSTANCE Postings WITH AccountIds <- {1, 2, 3}, Amounts <- {1, 2},
                               MaxPostings <- 3, postings <- <<>>

CONSTANT RequestsUnderTest

MCAccounts == {"alice", "bob", "settlement"}
MCRank == "alice" :> 2 @@ "bob" :> 1 @@ "settlement" :> 3
MCClass == "alice" :> "LIABILITY" @@ "bob" :> "LIABILITY"
           @@ "settlement" :> "ASSET"

MCKeyOf == [r \in RequestsUnderTest |->
                CASE r \in {"send", "changed"} -> "k1"
                  [] r = "back" -> "k2"
                  [] r = "reused" -> "k3"
                  [] r = "spend" -> "k5"
                  [] OTHER -> "k4"]
MCKeys == {"k1", "k2", "k3", "k4", "k5"}
MCReferenceOf == [r \in RequestsUnderTest |-> IF r = "reused" THEN "send" ELSE r]

\* The lists as a caller would write them, account first; fund names its
\* debit in two pieces, which normalisePostings combines.
Row(a, d, n) == [account |-> MCRank[a], direction |-> d, amount |-> n]
Listed == [send     |-> <<Row("alice", "DEBIT", 2), Row("bob", "CREDIT", 2)>>,
           changed  |-> <<Row("alice", "DEBIT", 1), Row("bob", "CREDIT", 1)>>,
           reused   |-> <<Row("alice", "DEBIT", 1), Row("bob", "CREDIT", 1)>>,
           spend    |-> <<Row("alice", "DEBIT", 1), Row("bob", "CREDIT", 1)>>,
           back     |-> <<Row("bob", "DEBIT", 2), Row("alice", "CREDIT", 2)>>,
           fund     |-> <<Row("settlement", "DEBIT", 1),
                          Row("alice", "CREDIT", 2),
                          Row("settlement", "DEBIT", 1)>>,
           lopsided |-> <<Row("settlement", "DEBIT", 2),
                          Row("bob", "CREDIT", 1)>>,
           foreign  |-> <<Row("settlement", "DEBIT", 1),
                          Row("bob", "CREDIT", 1)>>]
\* Tables of their own, so that TLC computes them once.
Normalised == [r \in DOMAIN Listed |-> Post!normalisePostings(Listed[r])]
Amount == [r \in DOMAIN Listed, a \in MCAccounts, d \in {"DEBIT", "CREDIT"} |->
              Post!AmountOf(Normalised[r], MCRank[a], d)]
MCPostingsOf ==
    [r \in RequestsUnderTest |->
        [a \in MCAccounts |-> [DEBIT  |-> Amount[r, a, "DEBIT"],
                               CREDIT |-> Amount[r, a, "CREDIT"]]]]

MCTransfers == RequestsUnderTest \ {"fund", "lopsided", "foreign"}
MCSourceOf == [r \in MCTransfers |-> IF r = "back" THEN "bob" ELSE "alice"]
MCPostable == RequestsUnderTest \ {"foreign"}

\* alice holds two units of customer money, matched by settlement's assets.
MCOpening == [a \in MCAccounts |->
                 [DEBIT  |-> IF a = "settlement" THEN 2 ELSE 0,
                  CREDIT |-> IF a = "alice" THEN 2 ELSE 0]]
============================================================================
