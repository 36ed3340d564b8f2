---------------------------- MODULE MCTransfers -----------------------------
(***************************************************************************)
(* alice pays rent and food to bob, bob refunds alice.  Confirmations:     *)
(*   c1, c2  the same request for rent, delivered twice                    *)
(*   c3      rent again under a new client key                             *)
(*   c4      food under c1's key                                           *)
(*   c5      food under a key of its own                                   *)
(*   c6      bob's refund                                                  *)
(* A behaviour is about the confirmations of one arrival.                  *)
(***************************************************************************)
EXTENDS Transfers

CONSTANT Arrivals   \* sets of confirmations that arrive in one behaviour

VARIABLE arriving   \* the confirmations of this behaviour

partVars == <<vars, arriving>>

\* Repeated rent, rent and food under a daily limit that only one of them
\* fits, food under rent's key, and alice's food with bob's refund (c1 and c2
\* are alike).
MCArrivals == {{"c1", "c2", "c3"}, {"c2", "c3", "c4"}, {"c1", "c2", "c4"}, {"c5", "c6"}}

MCConfirmations == UNION Arrivals
MCCustomers == {"alice", "bob"}
MCIntentOf == [t \in MCConfirmations |->
                  CASE t \in {"c1", "c2", "c3"} -> "rent"
                    [] t \in {"c4", "c5"} -> "food"
                    [] t = "c6" -> "refund"]
MCIntents == {MCIntentOf[t] : t \in MCConfirmations}
MCSenderOf == [i \in MCIntents |-> IF i = "refund" THEN "bob" ELSE "alice"]
MCRecipientOf == [i \in MCIntents |-> IF i = "refund" THEN "alice" ELSE "bob"]
MCAmountOf == [i \in MCIntents |-> IF i = "food" THEN 2 ELSE 1]
MCClientKeyOf == [t \in MCConfirmations |->
                     IF t \in {"c1", "c2", "c4"} THEN "k1" ELSE t]
MCOpeningBalance == [c \in MCCustomers |-> IF c = "alice" THEN 3 ELSE 0]

PartInit == Init /\ arriving \in Arrivals

PartNext ==
    /\ \/ \E i \in {IntentOf[t] : t \in arriving} : IntentStep(i)
       \/ \E t \in arriving :
              \/ ConfirmStep(t)
              \/ recover(t)
              \/ \E n \in Attempts : CallStep(t, n)
    /\ UNCHANGED arriving

PartSpec == PartInit /\ [][PartNext]_partVars

ASSUME ConstantsOK
============================================================================
