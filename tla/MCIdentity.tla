----------------------------- MODULE MCIdentity -----------------------------
(***************************************************************************)
(* Small instances of Identity's parts.  Requests of one handler are       *)
(* interchangeable; the parts share their names, so one group of           *)
(* permutations serves all of them.                                        *)
(***************************************************************************)
EXTENDS Identity, TLC

CONSTANTS Otps, Verifications, PinChoices, sms, login

MCPhoneRequests == Otps \cup Verifications \cup PinChoices \cup {sms, login}
MCKindOf ==
    [r \in Otps |-> "requestOtp"] @@ [r \in Verifications |-> "verifyOtp"]
        @@ [r \in PinChoices |-> "createPin"]
        @@ (sms :> "fallbackOtp") @@ (login :> "login")

MCBurst == Verifications \cup PinChoices \cup {sms}
MCStepUps == MCBurst \cup {"stepUp"}

MCChallengeOf == [r1 |-> "reg", l1 |-> "a1", l2 |-> "a1", l3 |-> "a2"]

Interchangeable ==
    Permutations(Otps) \cup Permutations(Verifications)
        \cup Permutations(PinChoices)

ASSUME ConstantsOK
=============================================================================
