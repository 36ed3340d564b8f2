------------------------------- MODULE Sabcl -------------------------------
(***************************************************************************)
(* One sender, the blind router and one recipient service of the sealed   *)
(* call layer (packages/sabcl, services/sabcl-router).  A message may be   *)
(* delivered more than once, and to the recipient without the router; each *)
(* delivery is handled by an instance whose clock may lag.  The router and *)
(* the recipient claim the message identifier in Redis with an expiry.     *)
(***************************************************************************)
EXTENDS Integers, FiniteSets

CONSTANTS Messages,      \* message identifiers the sender may seal
          Deliveries,    \* arrivals of an envelope
          MsgOf,         \* [Deliveries -> Messages]
          Direct,        \* deliveries made to the recipient, past the router
          Lag,           \* [Deliveries -> Nat], seconds its clock is behind
          Permitted,     \* messages whose inner request is allowlisted
          Ttl,           \* envelope lifetime in seconds
          ClockSkew,     \* SABCL_CLOCK_SKEW_SECONDS
          RateLimit,     \* rateLimitPerMinute
          Window,        \* seconds of the rate window
          SharedPrefix,  \* SABCL_REDIS_PREFIX is set for every service
          MaxTime        \* bound on the clock

ConstantsOK == /\ MsgOf \in [Deliveries -> Messages]
               /\ Direct \subseteq Deliveries
               /\ Lag \in [Deliveries -> Nat]
               /\ Permitted \subseteq Messages
               /\ {Ttl, RateLimit, Window, MaxTime} \subseteq Nat \ {0}
               /\ ClockSkew \in Nat /\ SharedPrefix \in BOOLEAN

VARIABLES now,        \* Redis's clock, in seconds
          ringKey,    \* versions of the recipient's key the sender knows
          ownKey,     \* version of the recipient's own key
          sealed,     \* [Messages -> envelope header, or NotSealed]
          client,     \* [Messages -> what the sender was told]
          pc,         \* [Deliveries -> where its handler is]
          life,       \* [Deliveries -> the EX of the claim being made]
          routerSeen, \* [Messages -> second its router key ends, 0: none]
          ownSeen,    \* [Messages -> second its recipient key ends, 0: none]
          rate,       \* the sender's counter in the router's Redis
          rateEnds,   \* second it ends, 0: no expiry set
          dispatched, \* deliveries whose request reached the service
          granted,    \* deliveries whose claim the recipient's store granted
          lateClaim,  \* deliveries whose claim ran after the message expired
          replies,    \* response envelopes produced
          wrongKey    \* messages refused as addressed to another key

vars == <<now, ringKey, ownKey, sealed, client, pc, life, routerSeen, ownSeen,
          rate, rateEnds, dispatched, granted, lateClaim, replies, wrongKey>>

NotSealed == [iat |-> -1, rkid |-> 0, settled |-> FALSE]
Exp(m) == sealed[m].iat + Ttl

Init == /\ now = 1 /\ ringKey = {1} /\ ownKey = 1
        /\ sealed = [m \in Messages |-> NotSealed]
        /\ client = [m \in Messages |-> "idle"]
        /\ pc = [d \in Deliveries |-> "idle"]
        /\ life = [d \in Deliveries |-> 0]
        /\ routerSeen = [m \in Messages |-> 0]
        /\ ownSeen = [m \in Messages |-> 0]
        /\ rate = 0 /\ rateEnds = 0
        /\ dispatched = {} /\ granted = {} /\ lateClaim = {} /\ replies = {} /\ wrongKey = {}

\* (the mutant) the lowest version is addressed
OldestPeer == CHOOSE k \in ringKey : \A j \in ringKey : k <= j
\* Keyring: the sender addresses the highest live version.
ActivePeerFor == CHOOSE k \in ringKey : \A j \in ringKey : j <= k

Send(m) ==
  /\ sealed[m] = NotSealed
  /\ sealed' = [sealed EXCEPT ![m] = [iat |-> now, rkid |-> ActivePeerFor,
                                      settled |-> ringKey = {1, 2} /\ ownKey = 2]]
  /\ client' = [client EXCEPT ![m] = "waiting"]
  /\ UNCHANGED <<now, ringKey, ownKey, pc, life, routerSeen, ownSeen, rate,
                 rateEnds, dispatched, granted, lateClaim, replies, wrongKey>>

(***************************************************************************)
(* Freshness, checked by the router and by openRequest with their clock.   *)
(***************************************************************************)
Clock(d) == now - Lag[d]
Fresh(d) == LET m == MsgOf[d] IN /\ Clock(d) <= Exp(m)
                                 /\ sealed[m].iat <= Clock(d) + ClockSkew

AtLeast1(n) == IF n < 1 THEN 1 ELSE n
\* (the mutant) the key ends in the last second of the message
ExactLife(d) == AtLeast1(Exp(MsgOf[d]) - Clock(d))
\* (the mutant) the expiry second is passed as a duration
AbsoluteLife(d) == AtLeast1(Exp(MsgOf[d]) + 1)
Life(d) == AtLeast1(Exp(MsgOf[d]) - Clock(d) + 1)

Goto(d, place) == pc' = [pc EXCEPT ![d] = place]

\* (the mutant) only a counter above one is given an expiry
ExpireAfterFirst(count) == count = 2
ExpireDue(count) == count = 1

AfterRate(count) == IF count > RateLimit THEN "refused" ELSE "routed"

\* The counter reads as zero once its key has ended.
RateNow == IF rateEnds # 0 /\ rateEnds <= now THEN 0 ELSE rate

Route(d) ==
  /\ pc[d] = "idle" /\ d \notin Direct /\ sealed[MsgOf[d]] # NotSealed
  /\ IF ~Fresh(d)
     THEN Goto(d, "refused") /\ UNCHANGED <<rate, rateEnds, life>>
     ELSE /\ rate' = RateNow + 1
          /\ rateEnds' = IF RateNow = 0 THEN 0 ELSE rateEnds
          /\ Goto(d, IF ExpireDue(rate') THEN "counted" ELSE AfterRate(rate'))
          /\ life' = [life EXCEPT ![d] = IF pc'[d] = "refused" THEN 0 ELSE Life(d)]
  /\ UNCHANGED <<now, ringKey, ownKey, sealed, client, routerSeen, ownSeen,
                 dispatched, granted, lateClaim, replies, wrongKey>>

Expire(d) ==
  /\ pc[d] = "counted"
  /\ rateEnds' = now + Window
  /\ Goto(d, AfterRate(1))
  /\ UNCHANGED <<now, ringKey, ownKey, sealed, client, life, routerSeen,
                 ownSeen, rate, dispatched, granted, lateClaim, replies, wrongKey>>

(***************************************************************************)
(* SET NX EX: a key whose end is the current second may be there or not.   *)
(***************************************************************************)
Grants(ends) == IF ends < now THEN {TRUE}
                ELSE IF ends = now THEN BOOLEAN ELSE {FALSE}

Claim(d, seen, next, otherwise) ==
  LET m == MsgOf[d] IN
  \E ok \in Grants(seen[m]) :
     /\ seen' = IF ok THEN [seen EXCEPT ![m] = now + life[d]] ELSE seen
     /\ life' = [life EXCEPT ![d] = 0]
     /\ lateClaim' = IF ok /\ now > Exp(m) THEN lateClaim \union {d} ELSE lateClaim
     /\ Goto(d, IF ok THEN next ELSE otherwise)

RouterClaim(d) ==
  /\ pc[d] = "routed"
  /\ Claim(d, routerSeen, "forwarded", "refused")
  /\ UNCHANGED <<now, ringKey, ownKey, sealed, client, ownSeen, rate, rateEnds,
                 dispatched, granted, replies, wrongKey>>

OpenRequest(d) ==
  LET m == MsgOf[d] IN
  /\ \/ pc[d] = "forwarded"
     \/ pc[d] = "idle" /\ d \in Direct /\ sealed[m] # NotSealed
  /\ Goto(d, IF Fresh(d) /\ sealed[m].rkid = ownKey THEN "opened" ELSE "refused")
  /\ wrongKey' = IF Fresh(d) /\ sealed[m].rkid # ownKey
                 THEN wrongKey \union {m} ELSE wrongKey
  /\ life' = [life EXCEPT ![d] = IF pc'[d] = "opened" THEN Life(d) ELSE 0]
  /\ UNCHANGED <<now, ringKey, ownKey, sealed, client, routerSeen, ownSeen,
                 rate, rateEnds, dispatched, granted, lateClaim, replies>>

\* (the mutant) the router's claim is taken for the recipient's
RouterStore == TRUE
\* The three services take their key prefix from the variable the router uses.
SameStore == SharedPrefix

\* assertCapability refuses after the claim has been spent.
RecipientClaim(d) ==
  LET next == IF MsgOf[d] \in Permitted THEN "claimed" ELSE "refused" IN
  /\ pc[d] = "opened"
  /\ IF SameStore
     THEN Claim(d, routerSeen, next, "replayed") /\ UNCHANGED ownSeen
     ELSE Claim(d, ownSeen, next, "replayed") /\ UNCHANGED routerSeen
  /\ granted' = IF pc'[d] = "replayed" THEN granted ELSE granted \union {d}
  /\ UNCHANGED <<now, ringKey, ownKey, sealed, client, rate, rateEnds,
                 dispatched, replies, wrongKey>>

\* Only an answer of the service is sealed into a response.
SealsReply(answered) == answered

\* The loopback call: refused before it arrives, answered, or timed out after.
Dispatch(d) ==
  \E reached, answered \in BOOLEAN :
     /\ answered => reached
     /\ pc[d] = "claimed"
     /\ dispatched' = IF reached THEN dispatched \union {d} ELSE dispatched
     /\ replies' = IF SealsReply(answered)
                   THEN replies \union {[cid |-> MsgOf[d], skid |-> ownKey]}
                   ELSE replies
     /\ Goto(d, IF SealsReply(answered) THEN "answered" ELSE "refused")
     /\ UNCHANGED <<now, ringKey, ownKey, sealed, client, life, routerSeen,
                    ownSeen, rate, rateEnds, granted, lateClaim, wrongKey>>

\* (the mutant) any well-formed response is accepted
AnyResponse(m, r) == TRUE
\* openResponse: correlated to the request and signed by the key addressed.
Opens(m, r) == r.cid = m /\ r.skid = sealed[m].rkid

\* Whatever response envelope arrives, the sender opens it or gives up.
Receive(m) ==
  /\ client[m] = "waiting"
  /\ \E r \in replies :
       client' = [client EXCEPT ![m] = IF Opens(m, r) THEN "answered" ELSE "failed"]
  /\ UNCHANGED <<now, ringKey, ownKey, sealed, pc, life, routerSeen, ownSeen,
                 rate, rateEnds, dispatched, granted, lateClaim, replies, wrongKey>>

\* A refusal or a timeout at the router or at the sender.
GiveUp(m) ==
  /\ client[m] = "waiting"
  /\ client' = [client EXCEPT ![m] = "failed"]
  /\ UNCHANGED <<now, ringKey, ownKey, sealed, pc, life, routerSeen, ownSeen,
                 rate, rateEnds, dispatched, granted, lateClaim, replies, wrongKey>>

(***************************************************************************)
(* The environment: time, and a key rotation (each side is restarted with  *)
(* the new key in its configuration).  A handler whose process was lost is *)
(* one that takes no further step.                                         *)
(***************************************************************************)
InRecipient == {"opened", "claimed"}

Tick ==
  /\ now < MaxTime
  /\ now' = now + 1
  /\ UNCHANGED <<ringKey, ownKey, sealed, client, pc, life, routerSeen, ownSeen,
                 rate, rateEnds, dispatched, granted, lateClaim, replies, wrongKey>>

AddPeer ==
  /\ ringKey = {1}
  /\ ringKey' = {1, 2}
  /\ UNCHANGED <<now, ownKey, sealed, client, pc, life, routerSeen, ownSeen,
                 rate, rateEnds, dispatched, granted, lateClaim, replies, wrongKey>>

RotateOwn ==
  /\ ownKey = 1
  /\ ownKey' = 2
  /\ pc' = [d \in Deliveries |-> IF pc[d] \in InRecipient THEN "refused" ELSE pc[d]]
  /\ UNCHANGED <<now, ringKey, sealed, client, life, routerSeen, ownSeen, rate,
                 rateEnds, dispatched, granted, lateClaim, replies, wrongKey>>

Next == \/ Tick \/ AddPeer \/ RotateOwn
        \/ \E m \in Messages : Send(m) \/ Receive(m) \/ GiveUp(m)
        \/ \E d \in Deliveries : \/ Route(d) \/ Expire(d) \/ RouterClaim(d)
                                 \/ OpenRequest(d) \/ RecipientClaim(d)
                                 \/ Dispatch(d)

Spec == Init /\ [][Next]_vars

(***************************************************************************)
(* Properties.                                                             *)
(***************************************************************************)
Places == {"idle", "counted", "routed", "forwarded", "refused", "replayed", "answered"}
          \union InRecipient
\* The state has its types, and a handler past its freshness check holds a
\* claim life of at least one second and at most the message's life plus one
\* (Redis refuses EX 0).
TypeOK ==
  /\ now \in 1..MaxTime /\ ringKey \in {{1}, {1, 2}} /\ ownKey \in {1, 2}
  /\ client \in [Messages -> {"idle", "waiting", "answered", "failed"}]
  /\ pc \in [Deliveries -> Places]
  /\ dispatched \subseteq granted /\ granted \subseteq Deliveries /\ lateClaim \subseteq Deliveries
  /\ wrongKey \subseteq Messages /\ rate \in Nat /\ rateEnds \in Nat
  /\ \A d \in Deliveries :
       pc[d] \in {"routed", "opened"} => life[d] \in 1 .. Ttl + ClockSkew + 1

\* A message reaches the service twice only if one of its claims ran after it
\* had expired (a handler stalled, or a lagging clock, between the freshness
\* check and SET NX): a claim made within the message's life never ends first.
DispatchOnceUnlessLate ==
  \A d, e \in dispatched :
     (d # e /\ MsgOf[d] = MsgOf[e]) => {d, e} \intersect lateClaim # {}

\* A message the recipient refuses as replayed had another delivery whose claim
\* the recipient granted: a first delivery is never taken for a replay.
ReplayedWasSeen ==
  \A d \in Deliveries : pc[d] = "replayed" =>
     \E e \in granted \ {d} : MsgOf[e] = MsgOf[d]

\* A sender told that its call was answered has had it dispatched, although
\* any response envelope may reach it.
AnsweredWasDispatched ==
  \A m \in Messages : client[m] = "answered" => \E d \in dispatched : MsgOf[d] = m

\* The rate counter is without an expiry only while a handler that counted one
\* has still to set it: if that handler is lost, the counter never ends.
RateCounterEnds ==
  RateNow # 0 /\ rateEnds = 0 => \E d \in Deliveries : pc[d] = "counted"

\* Once both sides run with the new key, no message sealed since is refused as
\* addressed to another key.
RotationSettles == \A m \in wrongKey : ~sealed[m].settled

\* What the key procedure promises of its second step: while the new public
\* half is known to the sender and the owner has not switched, nothing has
\* changed on the wire, so no message is refused for its key
\* (docs/security/sabcl-key-management.md).
PublishingIsSafe == ownKey = 1 => wrongKey = {}

\* What the replay design requires: an envelope is accepted at most once, and
\* the end of a claim reopens nothing (docs/security/sabcl-replay-and-expiry.md).
AcceptedAtMostOnce == \A d, e \in dispatched : MsgOf[d] = MsgOf[e] => d = e

\* A sealed call is dispatched once unless a claim came late, refused as a
\* replay only if it was one, answered only if it was dispatched, counted for
\* a while and opened after a rotation (seal, SabclRecipient, RouterService).
CallsDispatchOnce ==
  /\ TypeOK
  /\ DispatchOnceUnlessLate
  /\ ReplayedWasSeen
  /\ AnsweredWasDispatched
  /\ RateCounterEnds
  /\ RotationSettles
=============================================================================
