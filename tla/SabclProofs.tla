----------------------------- MODULE SabclProofs ----------------------------
(***************************************************************************)
(* Proofs about the sealed call layer for every set of messages and        *)
(* deliveries, every clock lag, lifetime, skew and rate limit.             *)
(*                                                                         *)
(* The heart is an inequality: the life computed at the freshness check    *)
(* carries a claim past the second the message expires, whenever the claim *)
(* is made (LivesPast).  So a claim that was granted outlives its message  *)
(* (GrantOutlives), and a second grant means that the message had expired  *)
(* by then (GrantedOnce).                                                  *)
(***************************************************************************)
EXTENDS Sabcl, TLAPS

\* The types TypeOK leaves out.
Shapes ==
  /\ sealed \in [Messages -> [iat : Int, rkid : 0 .. 2, settled : BOOLEAN]]
  /\ life \in [Deliveries -> Int]
  /\ routerSeen \in [Messages -> Int]
  /\ ownSeen \in [Messages -> Int]
  /\ replies \subseteq [cid : Messages, skid : {1, 2}]

\* A handler has started, or a message has been refused, only after it was
\* sealed; headers never change.
SealedFirst ==
  /\ \A d \in Deliveries : pc[d] # "idle" => sealed[MsgOf[d]] # NotSealed
  /\ \A m \in wrongKey : sealed[m] # NotSealed

\* A claim made now with the life that was computed ends after the message.
LivesPast ==
  \A d \in Deliveries :
     pc[d] \in {"counted", "routed", "opened"} =>
        /\ life[d] \in 1 .. Ttl + ClockSkew + 1
        /\ now + life[d] > Exp(MsgOf[d])

\* Where the recipient's claims are kept.
Store == IF SharedPrefix THEN routerSeen ELSE ownSeen

GrantOutlives == \A d \in granted : Store[MsgOf[d]] > Exp(MsgOf[d])

GrantedOnce ==
  \A d, e \in granted :
     (d # e /\ MsgOf[d] = MsgOf[e]) => {d, e} \intersect lateClaim # {}

GrantedPlaces ==
  /\ \A d \in granted : pc[d] \in {"claimed", "refused", "answered"}
  /\ \A d \in Deliveries : pc[d] = "claimed" => d \in granted

\* With a store of its own the recipient remembers only what it granted.
OwnSeenGranted ==
  ~SharedPrefix =>
     /\ \A m \in Messages : ownSeen[m] # 0 => \E e \in granted : MsgOf[e] = m
     /\ ReplayedWasSeen

RepliesDispatched ==
  \A r \in replies : \E d \in dispatched : MsgOf[d] = r.cid

\* A message sealed after the rotation is addressed to the new key, which
\* the recipient keeps.
SettledKey ==
  \A m \in Messages : sealed[m].settled => sealed[m].rkid = 2 /\ ownKey = 2

IInv ==
  /\ TypeOK
  /\ Shapes
  /\ SealedFirst
  /\ LivesPast
  /\ GrantOutlives
  /\ GrantedOnce
  /\ GrantedPlaces
  /\ OwnSeenGranted
  /\ RepliesDispatched
  /\ AnsweredWasDispatched
  /\ RateCounterEnds
  /\ SettledKey
  /\ RotationSettles

-----------------------------------------------------------------------------
\* The numbers of the configuration, and the header no message has.
LEMMA Numbers ==
    ASSUME ConstantsOK
    PROVE  /\ Ttl \in Nat /\ Ttl > 0 /\ RateLimit \in Nat /\ RateLimit > 0
           /\ Window \in Nat /\ Window > 0 /\ MaxTime \in Nat /\ MaxTime > 0
           /\ ClockSkew \in Nat
           /\ \A d \in Deliveries : Lag[d] \in Nat /\ MsgOf[d] \in Messages
  BY DEF ConstantsOK

LEMMA HeaderShape ==
    NotSealed \in [iat : Int, rkid : 0 .. 2, settled : BOOLEAN]
    /\ NotSealed.iat = -1 /\ ~NotSealed.settled
  BY DEF NotSealed

\* A life computed at a passed freshness check is at least a second, at most
\* the message's life with skew and one more, and reaches past its expiry.
LEMMA LifeLong ==
    ASSUME ConstantsOK, IInv, NEW d \in Deliveries, Fresh(d)
    PROVE  /\ Life(d) \in 1 .. Ttl + ClockSkew + 1
           /\ now + Life(d) > Exp(MsgOf[d])
  <1>1. sealed[MsgOf[d]].iat \in Int /\ now \in Int
    BY Numbers DEF IInv, TypeOK, Shapes
  <1>2. QED
    BY <1>1, Numbers DEF Fresh, Life, AtLeast1, Exp, Clock

\* The sender addresses a key it knows, the newest one after the rotation.
LEMMA AddressedKey ==
    ASSUME TypeOK
    PROVE  /\ ActivePeerFor \in {1, 2}
           /\ ringKey = {1, 2} => ActivePeerFor = 2
  <1>1. CASE ringKey = {1}
    <2>1. \E k \in ringKey : \A j \in ringKey : j <= k
      BY <1>1
    <2>2. ActivePeerFor \in ringKey
      BY <2>1 DEF ActivePeerFor
    <2>3. QED
      BY <1>1, <2>2
  <1>2. CASE ringKey = {1, 2}
    <2>1. \E k \in ringKey : \A j \in ringKey : j <= k
      BY <1>2
    <2>2. ActivePeerFor \in ringKey /\ \A j \in ringKey : j <= ActivePeerFor
      BY <2>1 DEF ActivePeerFor
    <2>3. QED
      BY <1>2, <2>2
  <1>3. QED
    BY <1>1, <1>2 DEF TypeOK

LEMMA InitInv == ASSUME ConstantsOK PROVE Init => IInv
  <1> SUFFICES ASSUME Init PROVE IInv
    OBVIOUS
  <1> USE DEF Init
  <1>1. TypeOK /\ Shapes
    BY Numbers, HeaderShape DEF TypeOK, Shapes, Places, InRecipient
  <1>2. SealedFirst /\ LivesPast /\ GrantOutlives /\ GrantedOnce
    BY DEF SealedFirst, LivesPast, GrantOutlives, GrantedOnce
  <1>3. GrantedPlaces /\ OwnSeenGranted
    BY DEF GrantedPlaces, OwnSeenGranted, ReplayedWasSeen
  <1>4. RepliesDispatched /\ AnsweredWasDispatched /\ RateCounterEnds
    BY DEF RepliesDispatched, AnsweredWasDispatched, RateCounterEnds, RateNow
  <1>5. SettledKey /\ RotationSettles
    BY HeaderShape DEF SettledKey, RotationSettles
  <1>6. QED
    BY <1>1, <1>2, <1>3, <1>4, <1>5 DEF IInv

-----------------------------------------------------------------------------
\* Sealing a message: nobody has handled it yet, so no claim is about it.
LEMMA SendInv ==
    ASSUME ConstantsOK, IInv, NEW m \in Messages, Send(m)
    PROVE  IInv'
  <1> USE DEF IInv
  <1> DEFINE h == [iat |-> now, rkid |-> ActivePeerFor,
                   settled |-> ringKey = {1, 2} /\ ownKey = 2]
  <1>1. /\ sealed[m] = NotSealed
        /\ sealed' = [sealed EXCEPT ![m] = h]
        /\ client' = [client EXCEPT ![m] = "waiting"]
        /\ UNCHANGED <<now, ringKey, ownKey, pc, life, routerSeen, ownSeen,
                       rate, rateEnds, dispatched, granted, lateClaim,
                       replies, wrongKey>>
    BY DEF Send
  <1>2. /\ h \in [iat : Int, rkid : 0 .. 2, settled : BOOLEAN]
        /\ h.settled => h.rkid = 2 /\ ownKey = 2
        /\ h # NotSealed
    BY Numbers, AddressedKey, HeaderShape DEF TypeOK
  <1> HIDE DEF h
  <1>3. /\ sealed' \in [Messages -> [iat : Int, rkid : 0 .. 2,
                                     settled : BOOLEAN]]
        /\ sealed'[m] = h
        /\ \A n \in Messages \ {m} : sealed'[n] = sealed[n]
    BY <1>1, <1>2 DEF Shapes
  <1>4. \A d \in Deliveries : pc[d] # "idle" =>
            MsgOf[d] # m /\ sealed'[MsgOf[d]] = sealed[MsgOf[d]]
    BY <1>1, <1>3, Numbers DEF SealedFirst
  <1>5. TypeOK' /\ Shapes'
    BY <1>1, <1>3 DEF TypeOK, Shapes
  <1>6. SealedFirst' /\ RotationSettles'
    BY <1>1, <1>3, <1>4 DEF SealedFirst, RotationSettles, TypeOK
  <1>7. LivesPast'
    BY <1>1, <1>4 DEF LivesPast, Exp
  <1>8. GrantOutlives'
    BY <1>1, <1>4 DEF GrantOutlives, GrantedPlaces, Exp, Store, TypeOK
  <1>9. GrantedOnce' /\ GrantedPlaces' /\ OwnSeenGranted'
    BY <1>1 DEF GrantedOnce, GrantedPlaces, OwnSeenGranted, ReplayedWasSeen
  <1>10. RepliesDispatched' /\ RateCounterEnds'
    BY <1>1 DEF RepliesDispatched, RateCounterEnds, RateNow
  <1>11. AnsweredWasDispatched'
    BY <1>1 DEF AnsweredWasDispatched, TypeOK
  <1>12. SettledKey'
    BY <1>1, <1>2, <1>3 DEF SettledKey
  <1>13. QED
    BY <1>5, <1>6, <1>7, <1>8, <1>9, <1>10, <1>11, <1>12

\* The sender takes an answer only for a reply to this very message.
LEMMA ClientInv ==
    ASSUME ConstantsOK, IInv, NEW m \in Messages, Receive(m) \/ GiveUp(m)
    PROVE  IInv'
  <1> USE DEF IInv
  <1>1. UNCHANGED <<now, ringKey, ownKey, sealed, pc, life, routerSeen,
                    ownSeen, rate, rateEnds, dispatched, granted, lateClaim,
                    replies, wrongKey>>
    BY DEF Receive, GiveUp
  <1>2. \E told \in {"answered", "failed"} :
            /\ client' = [client EXCEPT ![m] = told]
            /\ told = "answered" => \E d \in dispatched : MsgOf[d] = m
    <2>1. CASE Receive(m)
      <3>1. PICK r \in replies : client' = [client EXCEPT ![m] =
                                   IF Opens(m, r) THEN "answered" ELSE "failed"]
        BY <2>1 DEF Receive
      <3>2. Opens(m, r) => \E d \in dispatched : MsgOf[d] = m
        BY DEF Opens, RepliesDispatched
      <3>3. QED
        BY <3>1, <3>2
    <2>2. CASE GiveUp(m)
      BY <2>2 DEF GiveUp
    <2>3. QED
      BY <2>1, <2>2
  <1>3. AnsweredWasDispatched'
    BY <1>1, <1>2 DEF AnsweredWasDispatched, TypeOK
  <1>4. client' \in [Messages -> {"idle", "waiting", "answered", "failed"}]
    BY <1>2 DEF TypeOK
  <1>5. TypeOK' /\ Shapes'
    BY <1>1, <1>4 DEF TypeOK, Shapes
  <1>6. SealedFirst' /\ RotationSettles' /\ LivesPast' /\ SettledKey'
    BY <1>1 DEF SealedFirst, RotationSettles, LivesPast, SettledKey, Exp
  <1>7. GrantOutlives' /\ GrantedOnce' /\ GrantedPlaces' /\ OwnSeenGranted'
    BY <1>1 DEF GrantOutlives, GrantedOnce, GrantedPlaces, OwnSeenGranted,
                ReplayedWasSeen, Exp, Store
  <1>8. RepliesDispatched' /\ RateCounterEnds'
    BY <1>1 DEF RepliesDispatched, RateCounterEnds, RateNow
  <1>9. QED
    BY <1>3, <1>5, <1>6, <1>7, <1>8

\* Time passes and keys rotate; a handler in the recipient is lost with the
\* process that is restarted.
LEMMA WorldInv ==
    ASSUME ConstantsOK, IInv, Tick \/ AddPeer \/ RotateOwn
    PROVE  IInv'
  <1> USE DEF IInv
  <1>1. /\ UNCHANGED <<sealed, client, life, routerSeen, ownSeen, rate,
                       rateEnds, dispatched, granted, lateClaim, replies,
                       wrongKey>>
        /\ now' \in 1 .. MaxTime /\ now \in Nat /\ now <= now' /\ now' \in Nat
        /\ ringKey' \in {{1}, {1, 2}}
        /\ ownKey' \in {1, 2} /\ (ownKey = 2 => ownKey' = 2)
    BY Numbers DEF Tick, AddPeer, RotateOwn, TypeOK
  <1>2. /\ pc' \in [Deliveries -> Places]
        /\ \A d \in Deliveries :
               \/ pc'[d] = pc[d]
               \/ pc[d] \in InRecipient /\ pc'[d] = "refused"
    BY DEF Tick, AddPeer, RotateOwn, TypeOK, Places
  <1>3. LivesPast'
    <2> SUFFICES ASSUME NEW d \in Deliveries,
                        pc'[d] \in {"counted", "routed", "opened"}
                 PROVE  /\ life'[d] \in 1 .. Ttl + ClockSkew + 1
                        /\ now' + life'[d] > Exp(MsgOf[d])'
      BY DEF LivesPast
    <2>1. pc[d] = pc'[d]
      BY <1>2
    <2>2. /\ life[d] \in 1 .. Ttl + ClockSkew + 1
          /\ now + life[d] > Exp(MsgOf[d])
      BY <2>1 DEF LivesPast
    <2>3. life[d] \in Int /\ sealed[MsgOf[d]].iat \in Int
      BY Numbers DEF Shapes
    <2>4. QED
      BY <1>1, <2>2, <2>3, Numbers DEF Exp
  <1>4. TypeOK' /\ Shapes'
    BY <1>1, <1>2, <1>3 DEF TypeOK, Shapes, LivesPast
  <1>5. SealedFirst' /\ RotationSettles' /\ SettledKey'
    BY <1>1, <1>2 DEF SealedFirst, RotationSettles, SettledKey, InRecipient
  <1>6. GrantOutlives' /\ GrantedOnce'
    BY <1>1 DEF GrantOutlives, GrantedOnce, Exp, Store
  <1>7. GrantedPlaces'
    BY <1>1, <1>2 DEF GrantedPlaces, TypeOK
  <1>8. OwnSeenGranted'
    BY <1>1, <1>2 DEF OwnSeenGranted, ReplayedWasSeen
  <1>9. RepliesDispatched' /\ AnsweredWasDispatched'
    BY <1>1 DEF RepliesDispatched, AnsweredWasDispatched
  <1>10. RateCounterEnds'
    <2>1. \A d \in Deliveries : pc[d] = "counted" => pc'[d] = "counted"
      BY <1>2 DEF InRecipient
    <2>2. QED
      BY <1>1, <2>1 DEF RateCounterEnds, RateNow
  <1>11. QED
    BY <1>3, <1>4, <1>5, <1>6, <1>7, <1>8, <1>9, <1>10

-----------------------------------------------------------------------------
\* The router's freshness check, its counter and the expiry of the counter.
LEMMA RouteInv ==
    ASSUME ConstantsOK, IInv, NEW d \in Deliveries, Route(d) \/ Expire(d)
    PROVE  IInv'
  <1> USE DEF IInv
  <1>1. /\ UNCHANGED <<now, ringKey, ownKey, sealed, client, routerSeen,
                       ownSeen, dispatched, granted, lateClaim, replies,
                       wrongKey>>
        /\ sealed[MsgOf[d]] # NotSealed
        /\ pc[d] \in {"idle", "counted"}
    BY DEF Route, Expire, SealedFirst
  <1>2. \E p \in {"refused", "counted", "routed"} :
            /\ pc' = [pc EXCEPT ![d] = p]
            /\ \/ life' = life /\ (p = "refused" \/ pc[d] = "counted")
               \/ Fresh(d) /\ life' = [life EXCEPT ![d] =
                                           IF p = "refused" THEN 0 ELSE Life(d)]
    <2>1. CASE Route(d) /\ ~Fresh(d)
      BY <2>1 DEF Route, Goto
    <2>2. CASE Route(d) /\ Fresh(d)
      <3> DEFINE p == IF ExpireDue(rate') THEN "counted" ELSE AfterRate(rate')
      <3>1. pc' = [pc EXCEPT ![d] = p] /\ p \in {"refused", "counted", "routed"}
        BY <2>2 DEF Route, Goto, AfterRate
      <3>2. pc'[d] = p
        BY <3>1 DEF TypeOK
      <3>3. life' = [life EXCEPT ![d] = IF p = "refused" THEN 0 ELSE Life(d)]
        BY <2>2, <3>2 DEF Route
      <3>4. QED
        BY <2>2, <3>1, <3>3
    <2>3. CASE Expire(d)
      BY <2>3 DEF Expire, Goto, AfterRate
    <2>4. QED
      BY <2>1, <2>2, <2>3
  <1>3. /\ pc' \in [Deliveries -> Places]
        /\ pc'[d] \in {"refused", "counted", "routed"}
        /\ \A e \in Deliveries \ {d} : pc'[e] = pc[e]
    BY <1>2 DEF TypeOK, Places
  <1>4. /\ life' \in [Deliveries -> Int]
        /\ \A e \in Deliveries \ {d} : life'[e] = life[e]
        /\ pc'[d] # "refused" =>
               /\ life'[d] \in 1 .. Ttl + ClockSkew + 1
               /\ now + life'[d] > Exp(MsgOf[d])
    <2>1. PICK p \in {"refused", "counted", "routed"} :
              /\ pc' = [pc EXCEPT ![d] = p]
              /\ \/ life' = life /\ (p = "refused" \/ pc[d] = "counted")
                 \/ Fresh(d) /\ life' = [life EXCEPT ![d] =
                                           IF p = "refused" THEN 0 ELSE Life(d)]
      BY <1>2
    <2>2. pc'[d] = p
      BY <2>1 DEF TypeOK
    <2>3. CASE life' = life /\ (p = "refused" \/ pc[d] = "counted")
      BY <2>2, <2>3 DEF LivesPast, Shapes
    <2>4. CASE Fresh(d) /\ life' = [life EXCEPT ![d] =
                                       IF p = "refused" THEN 0 ELSE Life(d)]
      <3>1. Life(d) \in Int
        BY <2>4, LifeLong, Numbers
      <3>2. QED
        BY <2>2, <2>4, <3>1, LifeLong DEF Shapes
    <2>5. QED
      BY <2>1, <2>3, <2>4
  <1>5. LivesPast'
    BY <1>1, <1>3, <1>4 DEF LivesPast, Exp
  <1>6. /\ rate' \in Nat /\ rateEnds' \in Nat
        /\ RateCounterEnds'
    <2>0. now \in Nat /\ now > 0 /\ rate \in Nat /\ rateEnds \in Nat
          /\ RateNow \in Nat
      BY Numbers DEF TypeOK, RateNow
    <2>1. CASE Route(d) /\ ~Fresh(d)
      <3>1. rate' = rate /\ rateEnds' = rateEnds /\ pc[d] = "idle"
        BY <2>1 DEF Route
      <3>2. QED
        BY <1>1, <1>3, <2>0, <3>1 DEF RateCounterEnds, RateNow
    <2>2. CASE Route(d) /\ Fresh(d)
      <3>1. /\ rate' = RateNow + 1 /\ pc[d] = "idle"
            /\ rateEnds' = IF RateNow = 0 THEN 0 ELSE rateEnds
            /\ RateNow = 0 => pc'[d] = "counted"
        BY <1>2, <2>0, <2>2 DEF Route, Goto, ExpireDue, TypeOK
      <3>2. CASE RateNow = 0
        BY <2>0, <3>1, <3>2 DEF RateCounterEnds
      <3>3. CASE RateNow # 0
        <4>1. rateEnds = 0 => \E e \in Deliveries \ {d} : pc[e] = "counted"
          BY <3>1, <3>3 DEF RateCounterEnds
        <4>2. QED
          BY <1>3, <2>0, <3>1, <3>3, <4>1 DEF RateCounterEnds
      <3>4. QED
        BY <3>2, <3>3
    <2>3. CASE Expire(d)
      BY <2>0, <2>3, Numbers DEF Expire, RateCounterEnds
    <2>4. QED
      BY <2>1, <2>2, <2>3
  <1>7. TypeOK' /\ Shapes'
    BY <1>1, <1>3, <1>4, <1>5, <1>6 DEF TypeOK, Shapes, LivesPast
  <1>8. SealedFirst' /\ RotationSettles' /\ SettledKey'
    BY <1>1, <1>3 DEF SealedFirst, RotationSettles, SettledKey
  <1>9. GrantOutlives' /\ GrantedOnce'
    BY <1>1 DEF GrantOutlives, GrantedOnce, Exp, Store
  <1>10. GrantedPlaces'
    BY <1>1, <1>3 DEF GrantedPlaces, TypeOK
  <1>11. OwnSeenGranted'
    BY <1>1, <1>3 DEF OwnSeenGranted, ReplayedWasSeen
  <1>12. RepliesDispatched' /\ AnsweredWasDispatched'
    BY <1>1 DEF RepliesDispatched, AnsweredWasDispatched
  <1>13. QED
    BY <1>5, <1>6, <1>7, <1>8, <1>9, <1>10, <1>11, <1>12

\* openRequest computes a new life, with the recipient's clock.
LEMMA OpenInv ==
    ASSUME ConstantsOK, IInv, NEW d \in Deliveries, OpenRequest(d)
    PROVE  IInv'
  <1> USE DEF IInv
  <1> DEFINE m == MsgOf[d]
             p == IF Fresh(d) /\ sealed[m].rkid = ownKey
                  THEN "opened" ELSE "refused"
  <1>1. /\ UNCHANGED <<now, ringKey, ownKey, sealed, client, routerSeen,
                       ownSeen, rate, rateEnds, dispatched, granted,
                       lateClaim, replies>>
        /\ sealed[m] # NotSealed
        /\ pc[d] \in {"idle", "forwarded"}
        /\ pc' = [pc EXCEPT ![d] = p]
        /\ wrongKey' \subseteq wrongKey \union {m}
        /\ m \in wrongKey' => m \in wrongKey \/ sealed[m].rkid # ownKey
        /\ m \in Messages
    BY Numbers DEF OpenRequest, SealedFirst, Goto
  <1>2. /\ pc' \in [Deliveries -> Places] /\ pc'[d] = p
        /\ \A e \in Deliveries \ {d} : pc'[e] = pc[e]
    BY <1>1 DEF TypeOK, Places, InRecipient
  <1>3. /\ life' \in [Deliveries -> Int]
        /\ \A e \in Deliveries \ {d} : life'[e] = life[e]
        /\ p = "opened" => /\ life'[d] \in 1 .. Ttl + ClockSkew + 1
                           /\ now + life'[d] > Exp(m)
    <2>1. life' = [life EXCEPT ![d] = IF p = "opened" THEN Life(d) ELSE 0]
      BY <1>2 DEF OpenRequest
    <2>2. p = "opened" => Life(d) \in Int
      BY LifeLong, Numbers
    <2>3. QED
      BY <2>1, <2>2, LifeLong DEF Shapes
  <1>4. LivesPast'
    BY <1>1, <1>2, <1>3 DEF LivesPast, Exp
  <1>5. TypeOK' /\ Shapes'
    BY <1>1, <1>2, <1>3, <1>4 DEF TypeOK, Shapes, LivesPast
  <1>6. SealedFirst' /\ RotationSettles' /\ SettledKey'
    BY <1>1, <1>2 DEF SealedFirst, RotationSettles, SettledKey
  <1>7. GrantOutlives' /\ GrantedOnce'
    BY <1>1 DEF GrantOutlives, GrantedOnce, Exp, Store
  <1>8. GrantedPlaces'
    BY <1>1, <1>2 DEF GrantedPlaces, TypeOK
  <1>9. OwnSeenGranted'
    BY <1>1, <1>2 DEF OwnSeenGranted, ReplayedWasSeen
  <1>10. RepliesDispatched' /\ AnsweredWasDispatched'
    BY <1>1 DEF RepliesDispatched, AnsweredWasDispatched
  <1>11. RateCounterEnds'
    BY <1>1, <1>2 DEF RateCounterEnds, RateNow
  <1>12. QED
    BY <1>4, <1>5, <1>6, <1>7, <1>8, <1>9, <1>10, <1>11

\* The loopback call: only a claimed delivery is dispatched or answered.
LEMMA DispatchInv ==
    ASSUME ConstantsOK, IInv, NEW d \in Deliveries, Dispatch(d)
    PROVE  IInv'
  <1> USE DEF IInv
  <1>1. PICK reached \in BOOLEAN, answered \in BOOLEAN :
            /\ answered => reached
            /\ pc[d] = "claimed"
            /\ dispatched' = IF reached THEN dispatched \union {d}
                                        ELSE dispatched
            /\ replies' = IF SealsReply(answered)
                          THEN replies \union {[cid |-> MsgOf[d],
                                                skid |-> ownKey]}
                          ELSE replies
            /\ Goto(d, IF SealsReply(answered) THEN "answered" ELSE "refused")
            /\ UNCHANGED <<now, ringKey, ownKey, sealed, client, life,
                           routerSeen, ownSeen, rate, rateEnds, granted,
                           lateClaim, wrongKey>>
    BY DEF Dispatch
  <1>2. /\ pc' \in [Deliveries -> Places]
        /\ pc'[d] \in {"answered", "refused"}
        /\ \A e \in Deliveries \ {d} : pc'[e] = pc[e]
    BY <1>1 DEF Goto, TypeOK, Places
  <1>3. d \in granted /\ dispatched' \subseteq granted
        /\ dispatched \subseteq dispatched'
    BY <1>1 DEF GrantedPlaces, TypeOK
  <1>4. /\ replies' \subseteq [cid : Messages, skid : {1, 2}]
        /\ RepliesDispatched'
    BY <1>1, <1>3, Numbers DEF RepliesDispatched, Shapes, TypeOK, SealsReply
  <1>5. AnsweredWasDispatched'
    BY <1>1, <1>3 DEF AnsweredWasDispatched
  <1>6. LivesPast'
    BY <1>1, <1>2 DEF LivesPast, Exp
  <1>7. TypeOK' /\ Shapes'
    BY <1>1, <1>2, <1>3, <1>4, <1>6 DEF TypeOK, Shapes, LivesPast
  <1>8. SealedFirst' /\ RotationSettles' /\ SettledKey'
    BY <1>1, <1>2 DEF SealedFirst, RotationSettles, SettledKey
  <1>9. GrantOutlives' /\ GrantedOnce'
    BY <1>1 DEF GrantOutlives, GrantedOnce, Exp, Store
  <1>10. GrantedPlaces'
    BY <1>1, <1>2 DEF GrantedPlaces, TypeOK
  <1>11. OwnSeenGranted'
    BY <1>1, <1>2 DEF OwnSeenGranted, ReplayedWasSeen
  <1>12. RateCounterEnds'
    BY <1>1, <1>2 DEF RateCounterEnds, RateNow
  <1>13. QED
    BY <1>4, <1>5, <1>6, <1>7, <1>8, <1>9, <1>10, <1>11, <1>12

-----------------------------------------------------------------------------
\* SET NX grants a key only once its end has come.
LEMMA GrantsTrue ==
    ASSUME NEW ends \in Int, now \in Int, NEW ok \in Grants(ends)
    PROVE  /\ ok \in BOOLEAN
           /\ ok => ends <= now
           /\ ~ok => now <= ends
  <1>1. CASE ends < now
    <2>1. ok = TRUE
      BY <1>1 DEF Grants
    <2>2. QED
      BY <1>1, <2>1
  <1>2. CASE ends = now
    <2>1. ok \in BOOLEAN
      BY <1>2 DEF Grants
    <2>2. QED
      BY <1>2, <2>1
  <1>3. CASE ends > now
    <2>1. ~(ends < now) /\ ends # now /\ now <= ends
      BY <1>3
    <2>2. Grants(ends) = {FALSE}
      BY <2>1 DEF Grants
    <2>3. ok = FALSE
      BY <2>2
    <2>4. QED
      BY <2>1, <2>3, Zenon
  <1>4. QED
    BY <1>1, <1>2, <1>3

\* The router's claim.
LEMMA RouterClaimInv ==
    ASSUME ConstantsOK, IInv, NEW d \in Deliveries, RouterClaim(d)
    PROVE  IInv'
  <1> USE DEF IInv
  <1> DEFINE m == MsgOf[d]
  <1>1. PICK ok \in Grants(routerSeen[m]) :
            /\ routerSeen' = IF ok THEN [routerSeen EXCEPT ![m] = now + life[d]]
                                   ELSE routerSeen
            /\ life' = [life EXCEPT ![d] = 0]
            /\ lateClaim' = IF ok /\ now > Exp(m) THEN lateClaim \union {d}
                                                  ELSE lateClaim
            /\ pc' = [pc EXCEPT ![d] = IF ok THEN "forwarded" ELSE "refused"]
    BY DEF RouterClaim, Claim, Goto
  <1>2. /\ pc[d] = "routed" /\ m \in Messages
        /\ UNCHANGED <<now, ringKey, ownKey, sealed, client, ownSeen, rate,
                       rateEnds, dispatched, granted, replies, wrongKey>>
    BY Numbers DEF RouterClaim
  <1>3. now + life[d] > Exp(m) /\ life[d] \in Int /\ now \in Int
    BY <1>2, Numbers DEF LivesPast, Shapes, TypeOK
  <1>4. /\ pc' \in [Deliveries -> Places]
        /\ pc'[d] \in {"forwarded", "refused"}
        /\ \A e \in Deliveries \ {d} : pc'[e] = pc[e]
    BY <1>1 DEF TypeOK, Places
  <1>5. /\ life' \in [Deliveries -> Int]
        /\ \A e \in Deliveries \ {d} : life'[e] = life[e]
    BY <1>1 DEF Shapes
  <1>6. /\ routerSeen' \in [Messages -> Int]
        /\ \A n \in Messages : \/ routerSeen'[n] = routerSeen[n]
                               \/ n = m /\ routerSeen'[n] = now + life[d]
    BY <1>1, <1>2, <1>3 DEF Shapes
  <1>7. lateClaim \subseteq lateClaim' /\ lateClaim' \subseteq Deliveries
    BY <1>1 DEF TypeOK
  <1>8. LivesPast'
    BY <1>2, <1>4, <1>5 DEF LivesPast, Exp
  <1>9. TypeOK' /\ Shapes'
    BY <1>2, <1>4, <1>5, <1>6, <1>7, <1>8 DEF TypeOK, Shapes, LivesPast
  <1>10. SealedFirst' /\ RotationSettles' /\ SettledKey'
    BY <1>2, <1>4 DEF SealedFirst, RotationSettles, SettledKey
  <1>11. GrantOutlives'
    <2>1. \A e \in granted : MsgOf[e] \in Messages
      BY Numbers DEF TypeOK
    <2>2. QED
      BY <1>2, <1>3, <1>6, <2>1 DEF GrantOutlives, Exp, Store
  <1>12. GrantedOnce'
    BY <1>2, <1>7 DEF GrantedOnce
  <1>13. GrantedPlaces'
    BY <1>2, <1>4 DEF GrantedPlaces, TypeOK
  <1>14. OwnSeenGranted'
    BY <1>2, <1>4 DEF OwnSeenGranted, ReplayedWasSeen
  <1>15. RepliesDispatched' /\ AnsweredWasDispatched'
    BY <1>2 DEF RepliesDispatched, AnsweredWasDispatched
  <1>16. RateCounterEnds'
    BY <1>2, <1>4 DEF RateCounterEnds, RateNow
  <1>17. QED
    BY <1>8, <1>9, <1>10, <1>11, <1>12, <1>13, <1>14, <1>15, <1>16

\* The recipient's claim: a second grant for one message comes after its
\* expiry, and a refusal means that somebody was granted it before.
LEMMA RecipientClaimInv ==
    ASSUME ConstantsOK, IInv, NEW d \in Deliveries, RecipientClaim(d)
    PROVE  IInv'
  <1> USE DEF IInv
  <1> DEFINE m == MsgOf[d]
             next == IF m \in Permitted THEN "claimed" ELSE "refused"
  <1>1. /\ pc[d] = "opened" /\ m \in Messages /\ d \notin granted
        /\ UNCHANGED <<now, ringKey, ownKey, sealed, client, rate, rateEnds,
                       dispatched, replies, wrongKey>>
    BY Numbers DEF RecipientClaim, GrantedPlaces
  <1>2. now + life[d] > Exp(m) /\ life[d] \in Int /\ now \in Int /\ now > 0
    BY <1>1, Numbers DEF LivesPast, Shapes, TypeOK
  <1>3. PICK ok \in Grants(Store[m]) :
            /\ Store' = IF ok THEN [Store EXCEPT ![m] = now + life[d]]
                              ELSE Store
            /\ life' = [life EXCEPT ![d] = 0]
            /\ lateClaim' = IF ok /\ now > Exp(m) THEN lateClaim \union {d}
                                                  ELSE lateClaim
            /\ pc' = [pc EXCEPT ![d] = IF ok THEN next ELSE "replayed"]
            /\ IF SharedPrefix THEN UNCHANGED ownSeen ELSE UNCHANGED routerSeen
    <2>1. CASE SharedPrefix
      BY <2>1 DEF RecipientClaim, SameStore, Claim, Goto, Store
    <2>2. CASE ~SharedPrefix
      BY <2>2 DEF RecipientClaim, SameStore, Claim, Goto, Store
    <2>3. QED
      BY <2>1, <2>2
  <1>4. Store \in [Messages -> Int] /\ Store[m] \in Int
    BY <1>1 DEF Store, Shapes
  <1>5. ok \in BOOLEAN /\ (ok => Store[m] <= now) /\ (~ok => now <= Store[m])
    BY <1>2, <1>4, GrantsTrue
  <1>6. /\ pc' \in [Deliveries -> Places]
        /\ pc'[d] = IF ok THEN next ELSE "replayed"
        /\ \A e \in Deliveries \ {d} : pc'[e] = pc[e]
    BY <1>3 DEF TypeOK, Places, InRecipient
  <1>7. granted' = IF ok THEN granted \union {d} ELSE granted
    BY <1>5, <1>6 DEF RecipientClaim
  <1>8. /\ life' \in [Deliveries -> Int]
        /\ \A e \in Deliveries \ {d} : life'[e] = life[e]
    BY <1>3 DEF Shapes
  <1>9. /\ Store' \in [Messages -> Int]
        /\ Store'[m] = IF ok THEN now + life[d] ELSE Store[m]
        /\ \A n \in Messages \ {m} : Store'[n] = Store[n]
    BY <1>1, <1>2, <1>3, <1>4
  <1>10. routerSeen' \in [Messages -> Int] /\ ownSeen' \in [Messages -> Int]
    BY <1>3, <1>9 DEF Store, Shapes
  <1>11. /\ lateClaim \subseteq lateClaim' /\ lateClaim' \subseteq Deliveries
         /\ ok /\ now > Exp(m) => d \in lateClaim'
    BY <1>3 DEF TypeOK
  <1>12. LivesPast'
    BY <1>1, <1>6, <1>8 DEF LivesPast, Exp
  <1>13. TypeOK' /\ Shapes'
    BY <1>1, <1>6, <1>7, <1>8, <1>10, <1>11, <1>12
       DEF TypeOK, Shapes, LivesPast
  <1>14. SealedFirst' /\ RotationSettles' /\ SettledKey'
    BY <1>1, <1>6 DEF SealedFirst, RotationSettles, SettledKey
  <1>15. GrantOutlives'
    <2>1. \A e \in granted' : MsgOf[e] \in Messages
      BY <1>7, Numbers DEF TypeOK
    <2>2. ASSUME NEW e \in granted' PROVE Store'[MsgOf[e]] > Exp(MsgOf[e])
      <3>1. CASE MsgOf[e] = m /\ ok
        BY <1>2, <1>9, <3>1
      <3>2. CASE MsgOf[e] # m \/ ~ok
        BY <1>7, <1>9, <2>1, <3>2 DEF GrantOutlives
      <3>3. QED
        BY <1>5, <3>1, <3>2
    <2>3. QED
      BY <1>1, <2>2 DEF GrantOutlives, Exp
  <1>16. GrantedOnce'
    <2>1. ASSUME NEW e \in granted, MsgOf[e] = m, ok
          PROVE  d \in lateClaim'
      <3>1. Store[m] > Exp(m)
        BY <2>1 DEF GrantOutlives
      <3>2. Exp(m) \in Int
        BY <1>1, Numbers DEF Exp, Shapes
      <3>3. QED
        BY <1>2, <1>4, <1>5, <1>11, <2>1, <3>1, <3>2
    <2>2. QED
      BY <1>5, <1>7, <1>11, <2>1 DEF GrantedOnce
  <1>17. GrantedPlaces'
    <2>1. CASE ok
      <3>1. granted' = granted \union {d} /\ pc'[d] \in {"claimed", "refused"}
        BY <1>6, <1>7, <2>1
      <3>2. QED
        BY <1>6, <3>1 DEF GrantedPlaces, TypeOK
    <2>2. CASE ~ok
      <3>1. granted' = granted /\ pc'[d] = "replayed"
        BY <1>6, <1>7, <2>2
      <3>2. QED
        BY <1>1, <1>6, <3>1 DEF GrantedPlaces, TypeOK
    <2>3. QED
      BY <2>1, <2>2
  <1>18. OwnSeenGranted'
    <2> SUFFICES ASSUME ~SharedPrefix
                 PROVE  /\ \A n \in Messages : ownSeen'[n] # 0 =>
                               \E e \in granted' : MsgOf[e] = n
                        /\ ReplayedWasSeen'
      BY DEF OwnSeenGranted
    <2>1. Store = ownSeen /\ Store' = ownSeen'
      BY DEF Store
    <2>2. \A n \in Messages : ownSeen'[n] # 0 => \E e \in granted' : MsgOf[e] = n
      BY <1>5, <1>7, <1>9, <2>1 DEF OwnSeenGranted
    <2>3. ReplayedWasSeen'
      <3>1. ~ok => \E e \in granted \ {d} : MsgOf[e] = m
        BY <1>1, <1>2, <1>4, <1>5, <2>1 DEF OwnSeenGranted
      <3>2. QED
        BY <1>5, <1>6, <1>7, <3>1 DEF OwnSeenGranted, ReplayedWasSeen
    <2>4. QED
      BY <2>2, <2>3
  <1>19. RepliesDispatched' /\ AnsweredWasDispatched'
    BY <1>1 DEF RepliesDispatched, AnsweredWasDispatched
  <1>20. RateCounterEnds'
    BY <1>1, <1>6 DEF RateCounterEnds, RateNow
  <1>21. QED
    BY <1>12, <1>13, <1>14, <1>15, <1>16, <1>17, <1>18, <1>19, <1>20

-----------------------------------------------------------------------------
LEMMA NextInv == ASSUME ConstantsOK PROVE IInv /\ [Next]_vars => IInv'
  <1> SUFFICES ASSUME IInv, [Next]_vars PROVE IInv'
    OBVIOUS
  <1>1. CASE UNCHANGED vars
    BY <1>1 DEF vars, IInv, TypeOK, Shapes, SealedFirst, LivesPast,
                GrantOutlives, GrantedOnce, GrantedPlaces, OwnSeenGranted,
                RepliesDispatched, AnsweredWasDispatched, RateCounterEnds,
                SettledKey, RotationSettles, ReplayedWasSeen, Exp, Store,
                RateNow
  <1>2. CASE Next
    BY <1>2, SendInv, ClientInv, WorldInv, RouteInv, RouterClaimInv, OpenInv,
       RecipientClaimInv, DispatchInv DEF Next
  <1>3. QED
    BY <1>1, <1>2

\* The inductive invariant holds in every reachable state, with one Redis
\* prefix for all services or with one for each.
THEOREM SabclInv == ASSUME ConstantsOK PROVE Spec => []IInv
  BY InitInv, NextInv, PTL DEF Spec

\* Whatever the prefixes, clocks and delays: a message reaches the service
\* twice only if a claim of it ran after its expiry, because the EX that
\* RedisReplayStore.claim is given reaches past it.
THEOREM SabclDispatchOnce ==
    ASSUME ConstantsOK PROVE Spec => []DispatchOnceUnlessLate
  <1>1. IInv => DispatchOnceUnlessLate
    BY DEF IInv, TypeOK, GrantedOnce, DispatchOnceUnlessLate
  <1>2. QED
    BY SabclInv, <1>1, PTL

\* With a replay store of its own (docs/security/sabcl-replay-and-expiry.md;
\* .env.example sets one prefix for all, under which ReplayedWasSeen fails)
\* the recipient also never takes a first delivery for a replay; answers,
\* the rate counter and key rotation hold as well.
THEOREM SabclCallsDispatchOnce ==
    ASSUME ConstantsOK, SharedPrefix = FALSE
    PROVE  Spec => []CallsDispatchOnce
  <1>1. ASSUME IInv PROVE CallsDispatchOnce
    <2>1. DispatchOnceUnlessLate
      BY <1>1 DEF IInv, TypeOK, GrantedOnce, DispatchOnceUnlessLate
    <2>2. QED
      BY <1>1, <2>1 DEF IInv, OwnSeenGranted, CallsDispatchOnce
  <1>2. QED
    BY SabclInv, <1>1, PTL
============================================================================
