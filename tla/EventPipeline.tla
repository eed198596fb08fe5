---------------------------- MODULE EventPipeline ---------------------------
(***************************************************************************)
(* The way of an event from the probe to the agent: the TC classifiers of  *)
(* orb8-probes/src/network_probe.rs, one invocation at a time on each CPU, *)
(* the BPF ring buffer and drop counter they share, and poll_events with   *)
(* the loop of orb8-agent/src/main.rs that calls it.                       *)
(*                                                                         *)
(* The ring buffer is external: reserve appends a busy record or fails     *)
(* when there is no room, submit makes the record readable, and the reader *)
(* takes records in the order of their reservation, stopping at a busy     *)
(* one.  Packets the probe skips (not IPv4, too short) leave no trace and  *)
(* are left out; records always have the size of NetworkFlowEvent, so that *)
(* poll_events meets no malformed one.  The loop body looks the addresses  *)
(* up in the pod cache, calls process_event and sends the event to the     *)
(* subscribers; that is in PodCache, FlowTable and EventStream, and one    *)
(* step here.                                                              *)
(***************************************************************************)
EXTENDS Integers, Sequences, FiniteSets

CONSTANTS
    Cpus,
    RingCapacity,   \* records the ring buffer holds (RING_BUF_SIZE)
    MaxBatch,       \* AgentConfig::max_batch_size
    MaxPackets      \* bound: packets captured

ASSUME CpusAssumption == IsFiniteSet(Cpus)
ASSUME CapacityAssumption ==
    RingCapacity \in Nat /\ MaxBatch \in Nat /\ MaxPackets \in Nat

VARIABLES
    probe,          \* cpu -> [pc, event, loaded]
    ring,           \* records, oldest first
    dropsMap,       \* EVENTS_DROPPED[0]
    \* the event loop
    loopPc,
    batch,          \* events of the current poll
    eventsDropped,  \* the copy of dropsMap in the agent
    \* history
    captured,       \* packets for which the probe builds an event; also its clock
    lost,           \* reservations that failed
    filtered,       \* the agent's own traffic
    processed       \* events handed to process_event

vars == <<probe, ring, dropsMap, loopPc, batch, eventsDropped,
          captured, lost, filtered, processed>>

(***************************************************************************)
(* What an event carries: the CPU it was captured on (for reasoning only), *)
(* its timestamp, and whether is_self_traffic holds of its addresses and   *)
(* ports.                                                                  *)
(***************************************************************************)
EventType == [cpu : Cpus, timestamp_ns : Nat, self : BOOLEAN]
NoEvent == [cpu |-> "none"]
Record == [event : EventType, ready : BOOLEAN]

Init ==
    /\ probe = [c \in Cpus |-> [pc |-> "idle", event |-> NoEvent, loaded |-> 0]]
    /\ ring = <<>>
    /\ dropsMap = 0
    /\ loopPc = "idle"
    /\ batch = <<>>
    /\ eventsDropped = 0
    /\ captured = 0 /\ lost = 0 /\ filtered = 0 /\ processed = 0
-----------------------------------------------------------------------------
(***************************************************************************)
(* try_network_probe: the timestamp is taken first, ...                    *)
(***************************************************************************)
Capture(c) ==
    /\ probe[c].pc = "idle"
    /\ captured < MaxPackets
    /\ captured' = captured + 1
    /\ \E self \in BOOLEAN :
          probe' = [probe EXCEPT ![c].pc = "reserve",
                                 ![c].event = [cpu |-> c, timestamp_ns |-> captured', self |-> self]]
    /\ UNCHANGED <<ring, dropsMap, loopPc, batch, eventsDropped,
                   lost, filtered, processed>>

(***************************************************************************)
(* ... then a record is reserved, written and submitted, ...               *)
(***************************************************************************)
Reserve(c) ==
    /\ probe[c].pc = "reserve"
    /\ Len(ring) < RingCapacity
    /\ ring' = Append(ring, [event |-> probe[c].event, ready |-> FALSE])
    /\ probe' = [probe EXCEPT ![c].pc = "submit"]
    /\ UNCHANGED <<dropsMap, loopPc, batch, eventsDropped,
                   captured, lost, filtered, processed>>

\* Mutant: the probe returns without submitting what it reserved.
SubmitForgotten(c) ==
    /\ probe[c].pc = "submit"
    /\ probe' = [probe EXCEPT ![c].pc = "idle", ![c].event = NoEvent]
    /\ UNCHANGED <<ring, dropsMap, loopPc, batch, eventsDropped,
                   captured, lost, filtered, processed>>

Submit(c) ==
    /\ probe[c].pc = "submit"
    /\ ring' = [i \in DOMAIN ring |->
                   IF ring[i].event = probe[c].event THEN [ring[i] EXCEPT !.ready = TRUE]
                   ELSE ring[i]]
    /\ probe' = [probe EXCEPT ![c].pc = "idle", ![c].event = NoEvent]
    /\ UNCHANGED <<dropsMap, loopPc, batch, eventsDropped,
                   captured, lost, filtered, processed>>

\* Mutant: the probe returns as soon as the reservation fails.
ReserveFailsUncounted(c) ==
    /\ probe[c].pc = "reserve"
    /\ Len(ring) >= RingCapacity
    /\ lost' = lost + 1
    /\ probe' = [probe EXCEPT ![c].pc = "idle", ![c].event = NoEvent]
    /\ UNCHANGED <<ring, dropsMap, loopPc, batch, eventsDropped,
                   captured, filtered, processed>>

(***************************************************************************)
(* ... or the drop counter is incremented: a load and a store, which other *)
(* CPUs may come between.                                                  *)
(***************************************************************************)
ReserveFails(c) ==
    /\ probe[c].pc = "reserve"
    /\ Len(ring) >= RingCapacity
    /\ lost' = lost + 1
    /\ probe' = [probe EXCEPT ![c].pc = "load", ![c].event = NoEvent]
    /\ UNCHANGED <<ring, dropsMap, loopPc, batch, eventsDropped,
                   captured, filtered, processed>>

LoadCounter(c) ==
    /\ probe[c].pc = "load"
    /\ probe' = [probe EXCEPT ![c].pc = "store", ![c].loaded = dropsMap]
    /\ UNCHANGED <<ring, dropsMap, loopPc, batch, eventsDropped,
                   captured, lost, filtered, processed>>

\* Mutant: the increment is applied again when another CPU got in between.
StoreCounterRetries(c) ==
    /\ probe[c].pc = "store"
    /\ dropsMap' = IF dropsMap = probe[c].loaded THEN dropsMap + 1 ELSE dropsMap + 2
    /\ probe' = [probe EXCEPT ![c].pc = "idle", ![c].loaded = 0]
    /\ UNCHANGED <<ring, loopPc, batch, eventsDropped,
                   captured, lost, filtered, processed>>

StoreCounter(c) ==
    /\ probe[c].pc = "store"
    /\ dropsMap' = probe[c].loaded + 1
    /\ probe' = [probe EXCEPT ![c].pc = "idle", ![c].loaded = 0]
    /\ UNCHANGED <<ring, loopPc, batch, eventsDropped,
                   captured, lost, filtered, processed>>

ProbeStep(c) ==
    Reserve(c) \/ Submit(c) \/ ReserveFails(c) \/ LoadCounter(c) \/ StoreCounter(c)
-----------------------------------------------------------------------------
\* Mutant: the drop counter is only read when there are events.
PollIfPending ==
    /\ loopPc = "idle" /\ ring # <<>>
    /\ eventsDropped' = dropsMap
    /\ loopPc' = "poll"
    /\ UNCHANGED <<probe, ring, dropsMap, batch,
                   captured, lost, filtered, processed>>

(***************************************************************************)
(* The timer branch of the event loop: the drop counter is copied ...      *)
(***************************************************************************)
Poll ==
    /\ loopPc = "idle"
    /\ eventsDropped' = dropsMap
    /\ loopPc' = "poll"
    /\ UNCHANGED <<probe, ring, dropsMap, batch,
                   captured, lost, filtered, processed>>

Readable == ring # <<>> /\ Head(ring).ready

\* Mutant: the limit is not looked at.
PollTakeUnlimited ==
    /\ loopPc = "poll" /\ Readable
    /\ ring' = Tail(ring)
    /\ batch' = Append(batch, Head(ring).event)
    /\ UNCHANGED <<probe, dropsMap, loopPc, eventsDropped,
                   captured, lost, filtered, processed>>

(***************************************************************************)
(* ... and poll_events takes records while there are any ...               *)
(***************************************************************************)
PollTake ==
    /\ loopPc = "poll" /\ Readable
    /\ Len(batch) < MaxBatch
    /\ ring' = Tail(ring)
    /\ batch' = Append(batch, Head(ring).event)
    /\ UNCHANGED <<probe, dropsMap, loopPc, eventsDropped,
                   captured, lost, filtered, processed>>

\* Mutant: continue instead of break.
PollFullGoesOn ==
    /\ loopPc = "poll" /\ Readable
    /\ Len(batch) >= MaxBatch
    /\ ring' = Tail(ring)
    /\ UNCHANGED <<probe, dropsMap, loopPc, batch, eventsDropped,
                   captured, lost, filtered, processed>>

\* Mutant: the record that is one too many is put back, behind the others.
PollFullRequeues ==
    /\ loopPc = "poll" /\ Readable
    /\ Len(batch) >= MaxBatch
    /\ ring' = Append(Tail(ring), Head(ring))
    /\ loopPc' = "process"
    /\ UNCHANGED <<probe, dropsMap, batch, eventsDropped,
                   captured, lost, filtered, processed>>

(***************************************************************************)
(* ... the limit being looked at after the next record was taken, which is *)
(* thrown away: no counter of the agent or of the probe tells of it.       *)
(***************************************************************************)
PollFull ==
    /\ loopPc = "poll" /\ Readable
    /\ Len(batch) >= MaxBatch
    /\ ring' = Tail(ring)
    /\ loopPc' = "process"
    /\ UNCHANGED <<probe, dropsMap, batch, eventsDropped,
                   captured, lost, filtered, processed>>

PollEmpty ==
    /\ loopPc = "poll" /\ ~Readable
    /\ loopPc' = "process"
    /\ UNCHANGED <<probe, ring, dropsMap, batch, eventsDropped,
                   captured, lost, filtered, processed>>

(***************************************************************************)
(* ... and then the events one by one: is_self_traffic, or the rest of the *)
(* body.                                                                   *)
(***************************************************************************)
FilterSelf ==
    /\ loopPc = "process" /\ batch # <<>> /\ Head(batch).self
    /\ batch' = Tail(batch)
    /\ filtered' = filtered + 1
    /\ UNCHANGED <<probe, ring, dropsMap, loopPc, eventsDropped,
                   captured, lost, processed>>

ProcessEvent ==
    /\ loopPc = "process" /\ batch # <<>> /\ ~Head(batch).self
    /\ batch' = Tail(batch)
    /\ processed' = processed + 1
    /\ UNCHANGED <<probe, ring, dropsMap, loopPc, eventsDropped,
                   captured, lost, filtered>>

BatchDone ==
    /\ loopPc = "process" /\ batch = <<>>
    /\ loopPc' = "idle"
    /\ UNCHANGED <<probe, ring, dropsMap, batch, eventsDropped,
                   captured, lost, filtered, processed>>

LoopStep ==
    \/ Poll \/ PollTake \/ PollFull \/ PollEmpty
    \/ FilterSelf \/ ProcessEvent \/ BatchDone

Next ==
    \/ \E c \in Cpus : Capture(c) \/ ProbeStep(c)
    \/ LoopStep

Spec == Init /\ [][Next]_vars

(***************************************************************************)
(* A classifier runs to its end, and the event loop is polled whenever its *)
(* timer fires.  That packets arrive is not assumed.                       *)
(***************************************************************************)
FairSpec == Spec /\ WF_vars(LoopStep) /\ \A c \in Cpus : WF_vars(ProbeStep(c))
-----------------------------------------------------------------------------
ProbeState ==
    [pc : {"idle", "reserve", "submit", "load", "store"},
     event : EventType \cup {NoEvent}, loaded : Nat]

(***************************************************************************)
(* Type invariant of the probes, the ring buffer and the event loop.       *)
(***************************************************************************)
TypeOK ==
    /\ probe \in [Cpus -> ProbeState]
    /\ \A c \in Cpus : probe[c].pc \in {"reserve", "submit"} <=> probe[c].event # NoEvent
    /\ ring \in Seq(Record) /\ Len(ring) <= RingCapacity
    /\ dropsMap \in Nat /\ eventsDropped \in Nat
    /\ loopPc \in {"idle", "poll", "process"}
    /\ batch \in Seq(EventType) /\ Len(batch) <= MaxBatch
    /\ captured \in 0..MaxPackets
    /\ lost \in Nat /\ filtered \in Nat /\ processed \in Nat

At(pcs) == {c \in Cpus : probe[c].pc \in pcs}

(***************************************************************************)
(* The loss no counter tells of: events that are not waiting for their     *)
(* reservation, in the ring buffer, in the batch, processed or filtered,   *)
(* though their reservation did not fail.  It is not empty, against        *)
(* docs/ROADMAP.md:12 ("track and expose drops as metrics"), because of    *)
(* the batch limit; but it is at most one event for every full batch, and  *)
(* no event is delivered twice.                                            *)
(***************************************************************************)
Vanished ==
    captured - lost - Cardinality(At({"reserve"})) - Len(ring) - Len(batch)
        - processed - filtered
SilentLossBounded ==
    0 <= Vanished /\ Vanished * MaxBatch <= processed + filtered + Len(batch)

(***************************************************************************)
(* The drop counter is not exact (two CPUs may store the same value), but  *)
(* it never reports a drop that did not happen, nor does its copy.         *)
(***************************************************************************)
DropsNotInvented == dropsMap <= lost /\ eventsDropped <= lost

(***************************************************************************)
(* Losses do not go unnoticed: although CPUs overwrite each other, and the *)
(* counter may go back by any number of drops, it does not go back to 0,   *)
(* and with no increment under way it is positive once an event was lost.  *)
(***************************************************************************)
DropsNoticed == lost > 0 /\ At({"load", "store"}) = {} => dropsMap > 0

(***************************************************************************)
(* Events of one CPU reach the flow table in the order of their capture,   *)
(* however reservations, submissions and polls interleave.                 *)
(***************************************************************************)
Pending == batch \o [i \in DOMAIN ring |-> ring[i].event]
PerCpuOrder ==
    \A i, j \in DOMAIN Pending :
        i < j /\ Pending[i].cpu = Pending[j].cpu
            => Pending[i].timestamp_ns < Pending[j].timestamp_ns

(***************************************************************************)
(* Once no packets arrive the ring buffer and the batch are emptied: no    *)
(* record stays busy at the head, no batch limit leaves a rest behind.     *)
(***************************************************************************)
RingDrains == <>[](ring = <<>> /\ batch = <<>>)

(***************************************************************************)
(* The copy of the drop counter GetStatus reports catches up with it.      *)
(***************************************************************************)
DropsReported == <>[](eventsDropped = dropsMap)
=============================================================================
