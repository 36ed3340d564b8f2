----------------------------- MODULE RiskEvents -----------------------------
(***************************************************************************)
(* Ingestion of security events about one subject in the Risk service.     *)
(* Sources deliver an event once or more often; a delivery takes a slot of *)
(* the source's rate window, stores the event and the source's health in   *)
(* one transaction and then adds to the subject's counters in Redis.  Old  *)
(* events are deleted by retention.                                        *)
(***************************************************************************)
EXTENDS Integers, FiniteSets

CONSTANTS Events,        \* source events
          Transfers,     \* the events that count as transfers
          Deliveries,    \* POSTs of an event
          EventOf,       \* [Deliveries -> Events]
          SourceLimit,   \* accepted deliveries per source window (1,000)
          Window,        \* seconds of a velocity window
          MaxTime        \* bound on the clock

ConstantsOK == /\ Transfers \subseteq Events
               /\ EventOf \in [Deliveries -> Events] /\ IsFiniteSet(Deliveries)
               /\ {SourceLimit, Window, MaxTime} \subseteq Nat \ {0}

VARIABLES now, pc,       \* [Deliveries -> step of ingest]
          slots,         \* the source's counter for this window
          stored,        \* SecurityEvent rows
          accepted,      \* sourceHealth.acceptedCount
          repeated,      \* sourceHealth.duplicateCount
          requests,      \* velocity requests:60s
          transfers,     \* velocity transfers:600s, which outlasts the horizon
          ends,          \* second the requests counter ends, 0: no key
          counted,       \* deliveries that added to a counter in this window
          creations,     \* deliveries that created the row
          removed        \* events retention has deleted

vars == <<now, pc, slots, stored, accepted, repeated, requests, transfers, ends,
          counted, creations, removed>>

Init == /\ now = 0 /\ pc = [d \in Deliveries |-> "idle"] /\ slots = 0
        /\ stored = {} /\ accepted = 0 /\ repeated = 0
        /\ requests = 0 /\ transfers = 0 /\ ends = 0
        /\ counted = {} /\ creations = {} /\ removed = {}

Goto(d, place) == pc' = [pc EXCEPT ![d] = place]

\* The slot is taken before the limit is compared, so a refusal costs one too.
TakeSlot(d) ==
  /\ pc[d] = "idle"
  /\ slots' = slots + 1
  /\ Goto(d, IF slots' > SourceLimit THEN "limited" ELSE "slot")
  /\ UNCHANGED <<now, stored, accepted, repeated, requests, transfers, ends,
                 counted, creations, removed>>

\* (the mutant) a duplicate is counted as accepted
AcceptsAny(new) == TRUE
CountsAccepted(new) == new

\* (the mutant) only the row's own id is unique
AnyIsNew(d) == TRUE
IsNew(d) == EventOf[d] \notin stored

\* (the mutant) every delivery goes on to the counters
AlwaysCounts(new) == "stored"
AfterStore(new) == IF new THEN "stored" ELSE "duplicate"

\* The transaction; (source, sourceEventId) is unique, so a duplicate fails it
\* and is answered from the stored row, its health counted separately.
Store(d) ==
  LET new == IsNew(d) IN
  /\ pc[d] = "slot"
  /\ stored' = stored \union {EventOf[d]}
  /\ accepted' = IF CountsAccepted(new) THEN accepted + 1 ELSE accepted
  /\ repeated' = IF new THEN repeated ELSE repeated + 1
  /\ creations' = IF new THEN creations \union {d} ELSE creations
  /\ Goto(d, AfterStore(new))
  /\ UNCHANGED <<now, slots, requests, transfers, ends, counted, removed>>

\* INCRBY and EXPIRE NX in one MULTI: the first increment fixes the end.
Live == ends > now
Increment ==
  /\ requests' = IF Live THEN requests + 1 ELSE 1
  /\ ends' = IF Live THEN ends ELSE now + Window

CountRequest(d) ==
  /\ pc[d] = "stored"
  /\ Increment
  /\ counted' = (IF Live THEN counted ELSE {}) \union {d}
  /\ Goto(d, IF EventOf[d] \in Transfers THEN "requested" ELSE "done")
  /\ UNCHANGED <<now, slots, stored, accepted, repeated, transfers, creations,
                 removed>>

CountTransfer(d) ==
  /\ pc[d] = "requested"
  /\ transfers' = transfers + 1
  /\ Goto(d, "done")
  /\ UNCHANGED <<now, slots, stored, accepted, repeated, requests, ends, counted,
                 creations, removed>>

\* RetentionService: rows older than the cutoff that no assessment links.
Retain(e) ==
  /\ e \in stored /\ now > 0
  /\ stored' = stored \ {e}
  /\ removed' = removed \union {e}
  /\ UNCHANGED <<now, pc, slots, accepted, repeated, requests, transfers, ends,
                 counted, creations>>

Tick == /\ now < MaxTime /\ now' = now + 1
        /\ slots' \in {slots, 0}
        /\ UNCHANGED <<pc, stored, accepted, repeated, requests, transfers, ends,
                       counted, creations, removed>>

Next == \/ Tick \/ \E e \in Events : Retain(e)
        \/ \E d \in Deliveries : TakeSlot(d) \/ Store(d) \/ CountRequest(d)
                                 \/ CountTransfer(d)
Spec == Init /\ [][Next]_vars

(***************************************************************************)
(* Properties.                                                             *)
(***************************************************************************)
\* The state has its types, and a delivery beyond the source's limit stops
\* before the database.
TypeOK ==
  /\ now \in 0..MaxTime /\ slots \in 0 .. Cardinality(Deliveries)
  /\ stored \subseteq Events /\ counted \subseteq creations
  /\ accepted \in Nat /\ repeated \in Nat /\ requests \in Nat /\ transfers \in Nat
  /\ {d \in Deliveries : pc[d] = "limited"} \intersect creations = {}

\* The accepted count of a source is the number of rows its deliveries created,
\* however often each is delivered and whatever retention has removed since.
AcceptedIsExact == accepted = Cardinality(creations)

\* The counters hold exactly the created events that were counted: a repeated
\* delivery is never counted again.
NeverOvercounted ==
  /\ Live => requests = Cardinality(counted) /\ counted \subseteq creations
  /\ transfers = Cardinality({d \in creations : EventOf[d] \in Transfers /\ pc[d] = "done"})

\* An event enters the history, and the counters, a second time only after
\* retention deleted its row, which is also what recognised its repetition.
TwiceNeedsRetention ==
  \A d, e \in creations : d # e /\ EventOf[d] = EventOf[e] => EventOf[d] \in removed

(***************************************************************************)
(* The inductive invariant behind the properties.                          *)
(***************************************************************************)
\* The deliveries past the transaction are those that created their row; a
\* delivery takes one slot, and adds to each counter once.
Placed ==
  /\ pc \in [Deliveries -> {"idle", "limited", "slot", "stored", "duplicate",
                            "requested", "done"}]
  /\ creations = {d \in Deliveries : pc[d] \in {"stored", "requested", "done"}}
  /\ \A d \in counted : pc[d] \in {"requested", "done"}
  /\ \A d \in Deliveries : pc[d] = "requested" => EventOf[d] \in Transfers
  /\ slots <= Cardinality({d \in Deliveries : pc[d] # "idle"})
  /\ ends \in Nat

\* A row is still there, or retention has removed it.
StoredOrRemoved == \A d \in creations : EventOf[d] \in stored \union removed

IInv == /\ TypeOK /\ Placed /\ StoredOrRemoved
        /\ AcceptedIsExact /\ NeverOvercounted /\ TwiceNeedsRetention
=============================================================================
