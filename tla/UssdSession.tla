---------------------------- MODULE UssdSession -----------------------------
(***************************************************************************)
(* One USSD session (ussd.service.ts): every delivery from the telco reads *)
(* the session's JSON from Redis, reacts to the input and writes the whole *)
(* JSON back, with no lock between the two.  A payment is sent to the      *)
(* Ledger under a fresh transfer id each time, so nothing but the session  *)
(* state keeps a repeated PIN from paying again.                           *)
(***************************************************************************)
EXTENDS Naturals, Sequences, FiniteSets

CONSTANTS Handlers,     \* webhook calls that can be under way at once
          MaxMessages,  \* bound on deliveries, the telco's repetitions included
          Accounts,     \* references the Ledger resolves
          Amounts,      \* amounts the payer may type, in minor units
          Float100      \* [Amounts -> Nat]: Math.floor(parseFloat(x) * 100)

VARIABLES session,      \* the JSON under ussd:<sessionId>
          messages,     \* deliveries so far
          pc,           \* [Handlers -> where the handler is]
          read,         \* [Handlers -> the JSON it read, then what it made of it]
          shown,        \* [recipient, amount] of the confirmation screens sent
          consents,     \* how often "1. Confirm" was accepted
          paid,         \* the Ledger transfers that committed, in order
          overlapped,   \* history: two handlers were under way at once
          unsent,       \* confirmation screens stored whose answer was lost
          undeleted     \* how often an ended session could not be deleted

failures == <<unsent, undeleted>>
vars == <<session, messages, pc, read, shown, consents, paid, overlapped, failures>>

\* Two roundings to a double put the product off by less than one minor unit
\* (below 2^52 of them), so its floor is the amount typed or one less.
ConstantsOK == /\ Amounts \subseteq Nat /\ Float100 \in [Amounts -> Nat]
               /\ \A a \in Amounts : Float100[a] \in {a - 1, a}

Unset == "undefined"
\* typed is what the payer entered, amountMinor what the handler stored.
Blob(state) == [state |-> state, recipient |-> Unset, typed |-> 0, amountMinor |-> 0]
Gone == Blob("none")

Init ==
    /\ session = Gone /\ messages = 0
    /\ pc = [h \in Handlers |-> "idle"]
    /\ read = [h \in Handlers |-> Gone]
    /\ shown = {} /\ consents = 0 /\ overlapped = FALSE
    /\ paid = <<>> /\ unsent = {} /\ undeleted = 0

Expire ==
    /\ session # Gone /\ session' = Gone
    /\ UNCHANGED <<messages, pc, read, shown, consents, paid, overlapped, failures>>

Receive(h) ==
    /\ pc[h] = "idle" /\ messages < MaxMessages
    /\ messages' = messages + 1
    /\ pc' = [pc EXCEPT ![h] = "reacting"]
    /\ read' = [read EXCEPT ![h] = IF session = Gone THEN Blob("WELCOME") ELSE session]
    /\ overlapped' = (overlapped \/ \E e \in Handlers : pc[e] \in {"reacting", "saving"})
    /\ UNCHANGED <<session, shown, consents, paid, failures>>

\* The stored amount (the mutant rounds up).
CeilMinor(a) == Float100[a] + 1
Minor(a) == Float100[a]

\* What the switch can make of a session, over the inputs it tells apart.
To(b, state) == [b EXCEPT !.state = state]
Reactions(b) ==
    CASE b.state \in {"WELCOME", "BALANCE"} -> {To(b, "MAIN_MENU")}
      [] b.state = "MAIN_MENU" ->
            {To(b, "BALANCE"), To(b, "SEND_MONEY_RECIPIENT"), To(b, "end")}
      [] b.state = "SEND_MONEY_RECIPIENT" ->
            {b} \cup {[To(b, "SEND_MONEY_AMOUNT") EXCEPT !.recipient = r] : r \in Accounts}
      [] b.state = "SEND_MONEY_AMOUNT" ->
            {b} \cup {[To(b, "SEND_MONEY_CONFIRM") EXCEPT !.typed = a,
                                                          !.amountMinor = Minor(a)] : a \in Amounts}
      [] b.state = "SEND_MONEY_CONFIRM" -> {To(b, "SEND_MONEY_PIN"), To(b, "end")}
      [] b.state = "SEND_MONEY_PIN" -> {To(b, "end")}

\* A right PIN calls the Ledger, which commits or does not; the session ends
\* either way.  A wrong PIN ends it without the call.
React(h) ==
    /\ pc[h] = "reacting"
    /\ \E next \in Reactions(read[h]) : read' = [read EXCEPT ![h] = next]
    /\ \/ read[h].state = "SEND_MONEY_PIN" /\ paid' = Append(paid, read[h])
       \/ UNCHANGED paid
    /\ consents' = IF read'[h].state = "SEND_MONEY_PIN" THEN consents + 1 ELSE consents
    /\ pc' = [pc EXCEPT ![h] = "saving"]
    /\ UNCHANGED <<session, messages, shown, overlapped, failures>>

\* What an ended session leaves in Redis (the mutant keeps the PIN prompt).
KeepPrompt(b) == IF b.state = "end" THEN To(b, "SEND_MONEY_PIN") ELSE b
Stored(b) == IF b.state = "end" THEN Gone ELSE b

\* The confirmation screen a handler composed, if it composed one.
Screen(b) == IF b.state = "SEND_MONEY_CONFIRM"
             THEN {[recipient |-> b.recipient, amount |-> b.typed]}
             ELSE {}

Save(h) ==
    /\ pc[h] = "saving"
    /\ pc' = [pc EXCEPT ![h] = "idle"]
    /\ read' = [read EXCEPT ![h] = Gone]
    /\ session' = Stored(read[h])
    /\ shown' = shown \cup Screen(read[h])
    /\ UNCHANGED <<messages, consents, paid, overlapped, failures>>

\* redis.set or redis.delete fails, or the process dies before or after it
\* (also while it reacts): the telco gets no answer, and the session is as it
\* was or as the handler stored it.  What the Ledger committed stays paid.
Fail(h) ==
    /\ pc[h] \in {"reacting", "saving"}
    /\ pc' = [pc EXCEPT ![h] = "idle"]
    /\ read' = [read EXCEPT ![h] = Gone]
    /\ \/ /\ undeleted' = IF read[h].state = "end" THEN undeleted + 1 ELSE undeleted
          /\ UNCHANGED <<session, unsent>>
       \/ /\ pc[h] = "saving"
          /\ session' = Stored(read[h])
          /\ unsent' = unsent \cup Screen(read[h])
          /\ UNCHANGED undeleted
    /\ UNCHANGED <<messages, shown, consents, paid, overlapped>>

Next == Expire \/ \E h \in Handlers : Receive(h) \/ React(h) \/ Save(h) \/ Fail(h)

Spec == Init /\ [][Next]_vars

-----------------------------------------------------------------------------
(* Whatever overlaps or fails, a payment goes to the recipient of one      *)
(* confirmation screen that was sent (or was stored by a handler whose     *)
(* answer was lost: an amount typed as 1 and delivered again confirms it), *)
(* for that screen's amount or, where the product with 100 falls short in  *)
(* binary floating point, one minor unit less: never more, and never with  *)
(* a field the session had not set.                                        *)
PaidAsShown ==
    \A i \in DOMAIN paid : \E s \in shown \cup unsent :
        /\ s.recipient = paid[i].recipient
        /\ paid[i].amountMinor \in {s.amount - 1, s.amount}

(* Unless two deliveries were handled at once, each payment has a          *)
(* "1. Confirm" of its own or an ended session that could not be deleted:  *)
(* a PIN repeated after such a failure pays again under a fresh transfer   *)
(* id, once per failure, and after an answered one finds no session.       *)
ConsentPerPayment ==
    ~overlapped => Len(paid) <= consents + undeleted

(* A USSD payment is one the payer confirmed: its recipient and amount were *)
(* on a screen, and it was paid once per consent, up to the failures above. *)
UssdPaysAsConfirmed == PaidAsShown /\ ConsentPerPayment
=============================================================================
