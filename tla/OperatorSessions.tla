-------------------------- MODULE OperatorSessions --------------------------
(***************************************************************************)
(* Operator sessions: Risk keeps them in Redis (operator.service.ts), the  *)
(* Gateway turns them into two cookies (operators.controller.ts) and the   *)
(* tabs of one browser share the cookies (operator-client.ts,              *)
(* operator-sign-in.tsx, operator-dashboard.tsx).  Session and CSRF cookie *)
(* are always set and cleared together, so one variable stands for both.   *)
(***************************************************************************)
EXTENDS Naturals

CONSTANTS Tabs, MaxSessions, \* bound on sign-ins
          Ttl,               \* operatorSessionTtlSeconds
          MaxTime            \* bound on the clock

VARIABLES page, call,        \* per tab: what it shows, the request it awaits
          cookie, cookieEnds,
          made, expiresAt, keyEnds,  \* Risk: tokens made, identity, Redis key
          now,
          told, gone         \* sessions reported logged out; cookies lost

vars == <<page, call, cookie, cookieEnds, made, expiresAt, keyEnds, now, told, gone>>

ConstantsOK == MaxSessions \in Nat /\ Ttl \in Nat /\ MaxTime \in Nat

Sessions == 1 .. MaxSessions
risk     == <<made, expiresAt, keyEnds>>
NoCall   == [kind |-> "none", s |-> 0, stage |-> "none", age |-> 0]

Init ==
    /\ page = [t \in Tabs |-> "signin"] /\ call = [t \in Tabs |-> NoCall]
    /\ cookie = 0 /\ cookieEnds = 0
    /\ made = 0 /\ expiresAt = [s \in Sessions |-> 0] /\ keyEnds = [s \in Sessions |-> 0]
    /\ now = 0 /\ told = {} /\ gone = {}

(* operatorRequest: the cookies of the moment travel with the request. *)
Send(t, kind) ==
    /\ call[t] = NoCall
    /\ call' = [call EXCEPT ![t] = [kind |-> kind, s |-> cookie, stage |-> "sent", age |-> 0]]
    /\ UNCHANGED <<page, cookie, cookieEnds, risk, now, told, gone>>

signIn(t)  == page[t] = "signin" /\ Send(t, "signin")
logout(t)  == page[t] = "dashboard" /\ Send(t, "logout")
request(t) == page[t] = "dashboard" /\ Send(t, "request")
(* A page load asks for the session first (getServerOperator). *)
open(t)    == Send(t, "open")

Answer(t, stage) == call' = [call EXCEPT ![t].stage = stage]

(* bootstrap: the token is made, then stored for Ttl seconds. *)
Bootstrap(t) ==
    /\ call[t].kind = "signin" /\ call[t].stage = "sent" /\ made < MaxSessions
    /\ made' = made + 1
    /\ expiresAt' = [expiresAt EXCEPT ![made + 1] = now + Ttl]
    /\ call' = [call EXCEPT ![t].stage = "made", ![t].s = made + 1]
    /\ UNCHANGED <<page, cookie, cookieEnds, keyEnds, now, told, gone>>

(* signIn: the rest of the session's life, never negative. *)
MaxAge(s) == IF expiresAt[s] > now THEN expiresAt[s] - now ELSE 0

Store(t) ==
    /\ call[t].stage = "made"
    /\ keyEnds' = [keyEnds EXCEPT ![call[t].s] = now + Ttl]
    /\ call' = [call EXCEPT ![t].stage = "ok", ![t].age = MaxAge(call[t].s)]
    /\ UNCHANGED <<page, cookie, cookieEnds, made, expiresAt, now, told, gone>>

Held(s) == s # 0 /\ keyEnds[s] > now

(* What validate reads: (the mutant) the Redis key alone. *)
KeyOnly(s) == Held(s)

(* validate: the key and the recorded expiry. *)
Current(s) == Held(s) /\ expiresAt[s] > now

Validate(t) ==
    /\ call[t].kind \in {"logout", "request", "open"} /\ call[t].stage = "sent"
    /\ Answer(t, IF ~Current(call[t].s) THEN "refused"
                 ELSE IF call[t].kind = "logout" THEN "revoking" ELSE "ok")
    /\ UNCHANGED <<page, cookie, cookieEnds, risk, now, told, gone>>

(* What revoke does to the key: (the mutant) another session's key goes. *)
RevokesLatest(s) == [keyEnds EXCEPT ![made] = 0]

(* revoke: the key of this token is deleted. *)
Revoked(s) == [keyEnds EXCEPT ![s] = 0]

Revoke(t) ==
    /\ call[t].stage = "revoking"
    /\ keyEnds' = Revoked(call[t].s)
    /\ Answer(t, "ok")
    /\ UNCHANGED <<page, cookie, cookieEnds, made, expiresAt, now, told, gone>>

(* Risk or the network fails, before or after the work was done. *)
Lose(t) ==
    /\ call[t].stage \in {"sent", "made", "revoking", "ok"}
    /\ gone' = IF call[t].kind = "signin" /\ call[t].stage # "sent"
               THEN gone \cup {call[t].s} ELSE gone
    /\ Answer(t, "lost")
    /\ UNCHANGED <<page, cookie, cookieEnds, risk, now, told>>

-----------------------------------------------------------------------------
(* Whether an answer to logout clears the cookies: (the mutant) always,    *)
(* as the customer's logout does.                                          *)
ClearsAnyway(c) == c.kind = "logout"

(* The Gateway sets the emptied cookies after Risk answered. *)
Clears(c) == c.kind = "logout" /\ c.stage = "ok"

SetsCookie(c) == c.kind = "signin" /\ c.stage = "ok"

(* maxAge counts from the moment the browser gets the answer; a cookie    *)
(* whose maxAge is 0 is not kept.                                          *)
Cookie(c) ==
    /\ cookie' = IF SetsCookie(c) THEN IF c.age = 0 THEN 0 ELSE c.s
                 ELSE IF Clears(c) THEN 0 ELSE cookie
    /\ cookieEnds' = IF SetsCookie(c) THEN now + c.age ELSE cookieEnds
    /\ gone' = gone \cup (IF SetsCookie(c) \/ Clears(c) THEN {cookie} \ {0, c.s} ELSE {})
                    \cup (IF SetsCookie(c) /\ c.age = 0 THEN {c.s} ELSE {})

(* The tab after answer c: logout leaves in any case (finally), a page     *)
(* load shows what the session allows, a request only shows an error.      *)
PageAfter(t, c) ==
    CASE c.kind = "signin" /\ c.stage = "ok" -> "dashboard"
      [] c.kind = "logout" -> "signin"
      [] c.kind = "open" /\ c.stage = "ok" -> "dashboard"
      [] c.kind = "open" /\ c.stage = "refused" -> "signin"
      [] c.kind = "open" /\ c.stage = "lost" -> "unavailable"
      [] OTHER -> page[t]

Receive(t) ==
    /\ call[t].stage \in {"ok", "refused", "lost"}
    /\ Cookie(call[t])
    /\ page' = [page EXCEPT ![t] = PageAfter(t, call[t])]
    /\ told' = IF call[t].kind = "logout" /\ call[t].stage = "ok"
               THEN told \cup {call[t].s} ELSE told
    /\ call' = [call EXCEPT ![t] = NoCall]
    /\ UNCHANGED <<risk, now>>

Tick ==
    /\ now < MaxTime
    /\ now' = now + 1
    /\ cookie' = IF cookieEnds = now + 1 THEN 0 ELSE cookie
    /\ gone' = IF cookieEnds = now + 1 THEN gone \cup ({cookie} \ {0}) ELSE gone
    /\ UNCHANGED <<page, call, cookieEnds, risk, told>>

Next ==
    \/ \E t \in Tabs :
          \/ signIn(t) \/ logout(t) \/ request(t) \/ open(t)
          \/ Bootstrap(t) \/ Store(t) \/ Validate(t) \/ Revoke(t) \/ Lose(t) \/ Receive(t)
    \/ Tick

Spec == Init /\ [][Next]_vars

-----------------------------------------------------------------------------
(* No request is accepted past the expiry the operator was told, however   *)
(* late Redis stored the key (operator.service validate).                  *)
AcceptStep ==
    \A t \in Tabs : call[t].stage = "sent" /\ call'[t].stage \in {"ok", "revoking"}
                      => now < expiresAt[call[t].s]
AcceptedInTime == [][AcceptStep]_vars

(* A session some tab was told is logged out serves no other tab any more, *)
(* and neither does a late answer revive it (operator.controller logout).  *)
LoggedOutIsOver == \A s \in told : keyEnds[s] = 0

(* A live session without a cookie was lost with its answer, outlived its  *)
(* cookie, or was replaced or cleared by another tab: a failed             *)
(* logout leaves the cookie, so that it can be repeated                    *)
(* (operators.controller logout).                                          *)
LiveIsReachable ==
    \A s \in Sessions : Held(s) =>
        \/ cookie = s \/ s \in gone
        \/ \E t \in Tabs : call[t].s = s /\ call[t].kind = "signin"
        \/ \E t \in Tabs : call[t].s = s /\ call[t].stage = "revoking"

-----------------------------------------------------------------------------
(* The inductive invariant behind the properties *)

Shaped ==
    /\ now \in Nat /\ made \in 0 .. MaxSessions /\ cookie \in 0 .. made
    /\ expiresAt \in [Sessions -> Nat] /\ keyEnds \in [Sessions -> Nat]
    /\ told \subseteq 1 .. made
    /\ call \in [Tabs -> [kind : {"none", "signin", "logout", "request", "open"},
                          s : 0 .. made,
                          stage : {"none", "sent", "made", "revoking", "ok", "refused", "lost"},
                          age : Nat]]

(* A token that is made and not stored yet is known to its sign-in alone;  *)
(* a logout is answered once the key is gone.                              *)
Pending(t) ==
    /\ call[t].stage = "made" =>
          /\ call[t].kind = "signin" /\ call[t].s # 0
          /\ cookie # call[t].s /\ call[t].s \notin told
          /\ \A u \in Tabs \ {t} : call[u].s # call[t].s
    /\ call[t].stage = "revoking" => call[t].kind = "logout" /\ call[t].s # 0
    /\ call[t].stage = "ok" /\ call[t].kind = "signin" => call[t].s # 0
    /\ call[t].stage = "ok" /\ call[t].kind = "logout" =>
          call[t].s # 0 /\ keyEnds[call[t].s] = 0

Reached(s) ==
    \/ cookie = s \/ s \in gone
    \/ \E t \in Tabs : call[t].s = s /\ call[t].kind = "signin" /\ call[t].stage \in {"made", "ok"}

IInv == /\ Shaped /\ (\A t \in Tabs : Pending(t)) /\ LoggedOutIsOver
        /\ \A s \in Sessions : Held(s) => Reached(s)
=============================================================================
