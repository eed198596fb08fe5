------------------------- MODULE EventPipelineProofs ------------------------
(***************************************************************************)
(* Proofs about EventPipeline, for every number of CPUs, every capacity of *)
(* the ring buffer, every batch limit and every number of packets: the     *)
(* type invariant, the bound on the uncounted loss, that the drop counter  *)
(* never claims a drop that did not happen nor stays 0 after one, and that *)
(* the events of a CPU keep their order.                                   *)
(***************************************************************************)
EXTENDS EventPipeline, FiniteSetTheorems, SequenceTheorems, TLAPS

(***************************************************************************)
(* Why the counter stays below the true number of drops although CPUs      *)
(* overwrite each other's increment: a CPU that has lost its event but not *)
(* yet stored owes one increment, and neither the counter nor any value    *)
(* loaded from it exceeds the drops already paid for.                      *)
(***************************************************************************)
Owing == Cardinality(At({"load", "store"}))
DropsInv ==
    /\ dropsMap + Owing <= lost
    /\ \A c \in At({"store"}) : probe[c].loaded + Owing <= lost
    /\ eventsDropped <= lost

(***************************************************************************)
(* Why the loss at the batch limit is bounded: a batch of one poll is      *)
(* processed to its end before the next poll, and a poll throws away at    *)
(* most one event, and that only when it made the batch full.              *)
(***************************************************************************)
LossInv ==
    /\ 0 <= Vanished
    /\ loopPc = "idle" => batch = <<>>
    /\ Vanished * MaxBatch <=
          processed + filtered + (IF loopPc = "process" THEN Len(batch) ELSE 0)

IInv == TypeOK /\ LossInv /\ DropsInv

(***************************************************************************)
(* How the number of CPUs at some place of the probe changes when one of   *)
(* them moves.                                                             *)
(***************************************************************************)
Ind(pc, pcs) == IF pc \in pcs THEN 1 ELSE 0

\* Only the state of the probe on CPU c changes.
Moves(c) ==
    /\ probe' \in [Cpus -> ProbeState]
    /\ \A d \in Cpus \ {c} : probe'[d] = probe[d]

LEMMA AtFinite ==
    ASSUME NEW pcs
    PROVE  IsFiniteSet(At(pcs)) /\ Cardinality(At(pcs)) \in Nat
<1>1. At(pcs) \subseteq Cpus
  BY DEF At
<1>2. QED
  BY <1>1, CpusAssumption, FS_Subset, FS_CardinalityType

LEMMA AtMoves ==
    ASSUME TypeOK, NEW c \in Cpus, Moves(c), NEW pcs
    PROVE  Cardinality(At(pcs)') =
              Cardinality(At(pcs)) - Ind(probe[c].pc, pcs) + Ind(probe'[c].pc, pcs)
<1> DEFINE Others == At(pcs) \ {c}
<1>1. IsFiniteSet(Others) /\ Cardinality(Others) \in Nat
  BY AtFinite, FS_Subset, FS_CardinalityType
<1>2. c \notin Others
  OBVIOUS
<1>3. Cardinality(At(pcs)) = Cardinality(Others) + Ind(probe[c].pc, pcs)
  <2>1. CASE probe[c].pc \in pcs
    <3>1. At(pcs) = Others \cup {c}
      BY <2>1 DEF At
    <3>2. QED
      BY <1>1, <1>2, <2>1, <3>1, FS_AddElement DEF Ind
  <2>2. CASE probe[c].pc \notin pcs
    <3>1. Cardinality(At(pcs)) = Cardinality(Others)
      <4>1. At(pcs) = Others
        BY <2>2 DEF At
      <4>2. QED
        BY <4>1
    <3>2. Ind(probe[c].pc, pcs) = 0
      BY <2>2 DEF Ind
    <3>3. QED
      BY <1>1, <3>1, <3>2
  <2>3. QED
    BY <2>1, <2>2
<1>4. Cardinality(At(pcs)') = Cardinality(Others) + Ind(probe'[c].pc, pcs)
  <2>1. CASE probe'[c].pc \in pcs
    <3>1. At(pcs)' = Others \cup {c}
      BY <2>1 DEF At, Moves
    <3>2. QED
      BY <1>1, <1>2, <2>1, <3>1, FS_AddElement DEF Ind
  <2>2. CASE probe'[c].pc \notin pcs
    <3>1. Cardinality(At(pcs)') = Cardinality(Others)
      <4>1. At(pcs)' = Others
        BY <2>2 DEF At, Moves
      <4>2. QED
        BY <4>1
    <3>2. Ind(probe'[c].pc, pcs) = 0
      BY <2>2 DEF Ind
    <3>3. QED
      BY <1>1, <3>1, <3>2
  <2>3. QED
    BY <2>1, <2>2
<1> HIDE DEF Others
<1>5. QED
  BY <1>1, <1>3, <1>4 DEF Ind

LEMMA NoEventIsNone == NoEvent \notin EventType
<1>1. DOMAIN NoEvent = {"cpu"}
  BY DEF NoEvent
<1>2. ASSUME NEW e \in EventType PROVE "self" \in DOMAIN e
  BY DEF EventType
<1>3. QED
  BY <1>1, <1>2

LEMMA InitIInv == Init => IInv
<1> SUFFICES ASSUME Init PROVE IInv
  OBVIOUS
<1>1. ASSUME NEW pcs, "idle" \notin pcs PROVE At(pcs) = {} /\ Cardinality(At(pcs)) = 0
  BY <1>1, FS_EmptySet DEF Init, At
<1>2. TypeOK
  BY CapacityAssumption, NoEventIsNone DEF Init, TypeOK, ProbeState
<1>3. LossInv
  <2>1. Vanished = 0 /\ 0 * MaxBatch = 0
    BY <1>1, CapacityAssumption DEF Init, Vanished
  <2>2. QED
    BY <2>1 DEF Init, LossInv
<1>4. DropsInv
  <2>1. Owing = 0 /\ At({"store"}) = {}
    BY <1>1 DEF Owing
  <2>2. QED
    BY <2>1 DEF Init, DropsInv
<1>5. QED
  BY <1>2, <1>3, <1>4 DEF IInv

(***************************************************************************)
(* Types.                                                                  *)
(***************************************************************************)
LEMMA ProbeMoves ==
    ASSUME TypeOK, NEW c \in Cpus, Capture(c) \/ ProbeStep(c)
    PROVE  /\ Moves(c)
           /\ probe'[c].pc \in {"reserve", "submit"} <=> probe'[c].event # NoEvent
<1>1. probe \in [Cpus -> ProbeState] /\ probe[c] \in ProbeState
  BY DEF TypeOK
<1>2. probe[c].pc \in {"reserve", "submit"} <=> probe[c].event # NoEvent
  BY DEF TypeOK
<1>3. CASE Capture(c)
  <2>1. PICK self \in BOOLEAN :
           probe' = [probe EXCEPT ![c].pc = "reserve",
                                  ![c].event = [cpu |-> c, timestamp_ns |-> captured', self |-> self]]
    BY <1>3 DEF Capture
  <2>2. captured' \in Nat
    <3>1. captured \in 0..MaxPackets
      BY DEF TypeOK
    <3>2. captured' = captured + 1
      BY <1>3 DEF Capture
    <3>3. QED
      BY <3>1, <3>2, CapacityAssumption
  <2> DEFINE e == [cpu |-> c, timestamp_ns |-> captured', self |-> self]
  <2>3. e \in EventType /\ e # NoEvent
    BY <2>2, NoEventIsNone DEF EventType
  <2> HIDE DEF e
  <2>4. probe' = [probe EXCEPT ![c].pc = "reserve", ![c].event = e]
    BY <2>1 DEF e
  <2>5. QED
    BY <1>1, <2>3, <2>4 DEF Moves, ProbeState
<1>4. CASE Reserve(c)
  BY <1>1, <1>2, <1>4 DEF Reserve, Moves, ProbeState
<1>5. CASE Submit(c) \/ StoreCounter(c)
  BY <1>1, <1>2, <1>5 DEF Submit, StoreCounter, Moves, ProbeState
<1>6. CASE ReserveFails(c)
  BY <1>1, <1>2, <1>6 DEF ReserveFails, Moves, ProbeState
<1>7. CASE LoadCounter(c)
  <2>1. dropsMap \in Nat
    BY DEF TypeOK
  <2>2. QED
    BY <1>1, <1>2, <1>7, <2>1 DEF LoadCounter, Moves, ProbeState
<1>8. QED
  BY <1>3, <1>4, <1>5, <1>6, <1>7 DEF ProbeStep

LEMMA SubmitRing ==
    ASSUME TypeOK, NEW c \in Cpus, Submit(c)
    PROVE  ring' \in Seq(Record) /\ Len(ring') = Len(ring)
<1>1. ring \in Seq(Record) /\ Len(ring) \in Nat /\ DOMAIN ring = 1..Len(ring)
  BY DEF TypeOK
<1>2. ASSUME NEW i \in 1..Len(ring)
      PROVE  ring[i] \in Record /\ [ring[i] EXCEPT !.ready = TRUE] \in Record
  <2>1. ring[i] \in Record
    BY <1>1
  <2>2. QED
    BY <2>1 DEF Record
<1>3. ring' \in [1..Len(ring) -> Record]
  BY <1>1, <1>2 DEF Submit
<1>4. QED
  BY <1>1, <1>3

LEMMA TypeStep == TypeOK /\ [Next]_vars => TypeOK'
<1> SUFFICES ASSUME TypeOK, [Next]_vars PROVE TypeOK'
  OBVIOUS
<1>1. ASSUME NEW c \in Cpus, Capture(c) \/ ProbeStep(c)
      PROVE  TypeOK'
  <2>1. /\ probe' \in [Cpus -> ProbeState]
        /\ \A d \in Cpus : probe'[d].pc \in {"reserve", "submit"} <=> probe'[d].event # NoEvent
    BY <1>1, ProbeMoves DEF Moves, TypeOK
  <2>2. ring' \in Seq(Record) /\ Len(ring') <= RingCapacity
    <3>1. CASE Submit(c)
      BY <3>1, SubmitRing DEF TypeOK
    <3>2. CASE Reserve(c)
      <4>1. probe[c].event \in EventType
        BY <3>2 DEF Reserve, TypeOK, ProbeState
      <4>2. [event |-> probe[c].event, ready |-> FALSE] \in Record
        BY <4>1 DEF Record
      <4>3. QED
        BY <3>2, <4>2, CapacityAssumption DEF Reserve, TypeOK
    <3>3. CASE UNCHANGED ring
      BY <3>3 DEF TypeOK
    <3>4. QED
      BY <1>1, <3>1, <3>2, <3>3 DEF Capture, ProbeStep, ReserveFails, LoadCounter, StoreCounter
  <2>3. dropsMap' \in Nat /\ lost' \in Nat /\ captured' \in 0..MaxPackets
    <3>1. probe[c].loaded \in Nat
      BY DEF TypeOK, ProbeState
    <3>2. dropsMap \in Nat /\ lost \in Nat /\ captured \in 0..MaxPackets
      BY DEF TypeOK
    <3>3. QED
      BY <1>1, <3>1, <3>2, CapacityAssumption
      DEF Capture, ProbeStep, Reserve, Submit, ReserveFails, LoadCounter, StoreCounter
  <2>4. UNCHANGED <<loopPc, batch, eventsDropped, filtered, processed>>
    BY <1>1 DEF Capture, ProbeStep, Reserve, Submit, ReserveFails, LoadCounter, StoreCounter
  <2>5. QED
    BY <2>1, <2>2, <2>3, <2>4 DEF TypeOK
<1>2. ASSUME LoopStep PROVE TypeOK'
  <2>1. UNCHANGED <<probe, dropsMap, captured, lost>>
    BY <1>2 DEF LoopStep, Poll, PollTake, PollFull, PollEmpty, FilterSelf, ProcessEvent, BatchDone
  <2>2. ring' \in Seq(Record) /\ Len(ring') <= RingCapacity
    <3>1. ring \in Seq(Record) /\ Len(ring) \in Nat /\ Len(ring) <= RingCapacity
      BY DEF TypeOK
    <3>2. CASE ring # <<>> /\ ring' = Tail(ring)
      BY <3>1, <3>2, CapacityAssumption
    <3>3. CASE UNCHANGED ring
      BY <3>1, <3>3
    <3>4. QED
      BY <1>2, <3>2, <3>3
      DEF LoopStep, Poll, PollTake, PollFull, PollEmpty, FilterSelf, ProcessEvent, BatchDone,
          Readable
  <2>3. batch' \in Seq(EventType) /\ Len(batch') <= MaxBatch
    <3>1. CASE PollTake
      <4>0. ring \in Seq(Record) /\ ring # <<>>
        BY <3>1 DEF PollTake, Readable, TypeOK
      <4>a. Head(ring) \in Record
        BY <4>0
      <4>1. Head(ring).event \in EventType
        BY <4>a DEF Record
      <4>2. QED
        BY <3>1, <4>1, CapacityAssumption DEF PollTake, TypeOK
    <3>2. CASE FilterSelf \/ ProcessEvent
      <4>1. batch \in Seq(EventType) /\ Len(batch) \in Nat /\ Len(batch) <= MaxBatch
        BY DEF TypeOK
      <4>2. batch # <<>> /\ batch' = Tail(batch)
        BY <3>2 DEF FilterSelf, ProcessEvent
      <4>3. QED
        BY <4>1, <4>2, CapacityAssumption
    <3>3. CASE UNCHANGED batch
      BY <3>3 DEF TypeOK
    <3>4. QED
      BY <1>2, <3>1, <3>2, <3>3 DEF LoopStep, Poll, PollFull, PollEmpty, BatchDone
  <2>4. /\ loopPc' \in {"idle", "poll", "process"} /\ eventsDropped' \in Nat
         /\ filtered' \in Nat /\ processed' \in Nat
    <3>1. /\ loopPc \in {"idle", "poll", "process"}
          /\ eventsDropped \in Nat /\ dropsMap \in Nat
          /\ filtered \in Nat /\ processed \in Nat
      BY DEF TypeOK
    <3>2. QED
      BY <1>2, <3>1
      DEF LoopStep, Poll, PollTake, PollFull, PollEmpty, FilterSelf, ProcessEvent, BatchDone
  <2>5. QED
    BY <2>1, <2>2, <2>3, <2>4 DEF TypeOK
<1>3. CASE UNCHANGED vars
  BY <1>3 DEF TypeOK, vars
<1>4. QED
  BY <1>1, <1>2, <1>3 DEF Next

(***************************************************************************)
(* No event vanishes but at the batch limit: one case per transfer from    *)
(* one place to another.                                                   *)
(***************************************************************************)
LEMMA Counters ==
    ASSUME TypeOK
    PROVE  /\ captured \in Nat /\ processed \in Nat /\ filtered \in Nat
           /\ lost \in Nat /\ dropsMap \in Nat
           /\ eventsDropped \in Nat /\ Len(ring) \in Nat /\ Len(batch) \in Nat
<1>1. captured \in 0..MaxPackets /\ ring \in Seq(Record) /\ batch \in Seq(EventType)
  BY DEF TypeOK
<1>2. QED
  BY <1>1, CapacityAssumption DEF TypeOK

LEMMA VanishedStep ==
    ASSUME TypeOK, [Next]_vars
    PROVE  /\ PollFull => Vanished' = Vanished + 1
           /\ ~PollFull => Vanished' = Vanished
<1> DEFINE Waiting == Cardinality(At({"reserve"}))
<1>0. Waiting \in Nat
  BY AtFinite
<1>b. /\ Vanished = captured - lost - Waiting - Len(ring) - Len(batch) - processed - filtered
      /\ Vanished' = captured' - lost' - Waiting' - Len(ring') - Len(batch') - processed' - filtered'
  BY DEF Vanished
<1>c. /\ captured \in Nat /\ processed \in Nat /\ filtered \in Nat
      /\ lost \in Nat /\ Len(ring) \in Nat /\ Len(batch) \in Nat
  BY Counters
<1>1. ASSUME NEW c \in Cpus, Capture(c) \/ ProbeStep(c)
      PROVE  Vanished' = Vanished /\ ~PollFull
  <2>0. Waiting' = Waiting - Ind(probe[c].pc, {"reserve"}) + Ind(probe'[c].pc, {"reserve"})
    BY <1>1, ProbeMoves, AtMoves
  <2>a. probe \in [Cpus -> ProbeState] /\ probe[c] \in ProbeState
    BY DEF TypeOK
  <2>b. UNCHANGED <<batch, processed, filtered>>
    BY <1>1 DEF Capture, ProbeStep, Reserve, Submit, ReserveFails, LoadCounter, StoreCounter
  <2>c. probe'[c].pc # probe[c].pc
    BY <1>1, <2>a
    DEF Capture, ProbeStep, Reserve, Submit, ReserveFails, LoadCounter, StoreCounter, ProbeState
  <2>d. ~PollFull
    BY <2>c DEF PollFull
  <2> HIDE DEF Waiting
  <2>1. CASE Capture(c)
    <3>1. Waiting' = Waiting + 1
      BY <1>0, <2>0, <2>a, <2>1 DEF Capture, Ind, ProbeState
    <3>2. captured' = captured + 1 /\ UNCHANGED <<ring, lost>>
      BY <2>1 DEF Capture
    <3>3. QED
      BY <1>0, <1>b, <1>c, <2>b, <2>d, <3>1, <3>2
  <2>2. CASE Reserve(c)
    <3>1. Waiting' = Waiting - 1
      BY <1>0, <2>0, <2>a, <2>2 DEF Reserve, Ind, ProbeState
    <3>2. Len(ring') = Len(ring) + 1 /\ UNCHANGED <<captured, lost>>
      BY <2>2 DEF Reserve, TypeOK
    <3>3. QED
      BY <1>0, <1>b, <1>c, <2>b, <2>d, <3>1, <3>2
  <2>3. CASE ReserveFails(c)
    <3>1. Waiting' = Waiting - 1
      BY <1>0, <2>0, <2>a, <2>3 DEF ReserveFails, Ind, ProbeState
    <3>2. lost' = lost + 1 /\ UNCHANGED <<ring, captured>>
      BY <2>3 DEF ReserveFails
    <3>3. QED
      BY <1>0, <1>b, <1>c, <2>b, <2>d, <3>1, <3>2
  <2>4. CASE Submit(c) \/ LoadCounter(c) \/ StoreCounter(c)
    <3>1. Waiting' = Waiting
      BY <1>0, <2>0, <2>a, <2>4 DEF Submit, LoadCounter, StoreCounter, Ind, ProbeState
    <3>2. Len(ring') = Len(ring)
      BY <2>4, SubmitRing DEF LoadCounter, StoreCounter
    <3>3. UNCHANGED <<captured, lost>>
      BY <2>4 DEF Submit, LoadCounter, StoreCounter
    <3>4. QED
      BY <1>0, <1>b, <1>c, <2>b, <2>d, <3>1, <3>2, <3>3
  <2>5. QED
    BY <1>1, <2>1, <2>2, <2>3, <2>4 DEF ProbeStep
<1>2. ASSUME LoopStep
      PROVE  /\ PollFull => Vanished' = Vanished + 1
             /\ ~PollFull => Vanished' = Vanished
  <2>1. Waiting' = Waiting /\ UNCHANGED <<captured, lost>>
    BY <1>2
    DEF LoopStep, Poll, PollTake, PollFull, PollEmpty, FilterSelf, ProcessEvent, BatchDone, At
  <2> HIDE DEF Waiting
  <2>2. CASE PollTake
    <3>1. /\ Len(ring') = Len(ring) - 1 /\ Len(batch') = Len(batch) + 1
          /\ UNCHANGED <<processed, filtered>>
      BY <2>2 DEF PollTake, Readable, TypeOK
    <3>2. ~PollFull
      BY <1>c, <2>2, CapacityAssumption DEF PollTake, PollFull
    <3>3. QED
      BY <1>0, <1>b, <1>c, <2>1, <3>1, <3>2
  <2>3. CASE PollFull
    <3>1. Len(ring') = Len(ring) - 1 /\ UNCHANGED <<batch, processed, filtered>>
      BY <2>3 DEF PollFull, Readable, TypeOK
    <3>2. QED
      BY <1>0, <1>b, <1>c, <2>1, <2>3, <3>1
  <2>4. CASE FilterSelf \/ ProcessEvent
    <3>1. Len(batch') = Len(batch) - 1 /\ UNCHANGED ring
      BY <2>4 DEF FilterSelf, ProcessEvent, TypeOK
    <3>2. \/ processed' = processed + 1 /\ filtered' = filtered
          \/ processed' = processed /\ filtered' = filtered + 1
      BY <2>4 DEF FilterSelf, ProcessEvent
    <3>3. ~PollFull
      BY <2>4 DEF FilterSelf, ProcessEvent, PollFull
    <3>4. QED
      BY <1>0, <1>b, <1>c, <2>1, <3>1, <3>2, <3>3
  <2>5. CASE Poll \/ PollEmpty \/ BatchDone
    <3>1. UNCHANGED <<ring, batch, processed, filtered>> /\ ~PollFull
      BY <2>5 DEF Poll, PollEmpty, BatchDone, PollFull
    <3>2. QED
      BY <1>b, <2>1, <3>1
  <2>6. QED
    BY <1>2, <2>2, <2>3, <2>4, <2>5 DEF LoopStep
<1>3. ASSUME UNCHANGED vars
      PROVE  Vanished' = Vanished /\ ~PollFull
  <2>1. Vanished' = Vanished
    BY <1>3 DEF Vanished, At, vars
  <2>2. ~PollFull
    BY <1>3 DEF PollFull, vars
  <2>3. QED
    BY <2>1, <2>2
<1>4. QED
  BY <1>1, <1>2, <1>3 DEF Next

LEMMA OneMore ==
    ASSUME NEW n \in Int, NEW k \in Nat
    PROVE  n * k \in Int /\ (n + 1) * k = n * k + k
  OBVIOUS

LEMMA LossStep == TypeOK /\ LossInv /\ [Next]_vars => LossInv'
<1> SUFFICES ASSUME TypeOK, LossInv, [Next]_vars PROVE LossInv'
  OBVIOUS
<1> DEFINE delivered == processed + filtered
           rest == IF loopPc = "process" THEN Len(batch) ELSE 0
           deliveredN == processed' + filtered'
           restN == IF loopPc' = "process" THEN Len(batch') ELSE 0
<1>c. /\ processed \in Nat /\ filtered \in Nat /\ Len(batch) \in Nat /\ MaxBatch \in Nat
      /\ Len(batch) <= MaxBatch
  BY Counters, CapacityAssumption DEF TypeOK
<1>s. batch \in Seq(EventType)
  BY DEF TypeOK
<1>v. Vanished \in Int
  BY AtFinite, Counters DEF Vanished
<1>i. /\ 0 <= Vanished /\ (loopPc = "idle" => batch = <<>>)
      /\ Vanished * MaxBatch <= delivered + rest
  BY DEF LossInv
<1>1. CASE PollFull
  <2>1. /\ loopPc = "poll" /\ loopPc' = "process" /\ Len(batch) >= MaxBatch
        /\ UNCHANGED <<batch, processed, filtered>>
    BY <1>1 DEF PollFull
  <2>2. Vanished' = Vanished + 1
    BY <1>1, VanishedStep
  <2>3. Vanished' * MaxBatch = Vanished * MaxBatch + MaxBatch /\ Vanished * MaxBatch \in Int
    BY <1>c, <1>v, <2>2, OneMore
  <2>4. rest = 0 /\ restN = MaxBatch /\ deliveredN = delivered
    BY <1>c, <2>1
  <2>5. Vanished' * MaxBatch <= deliveredN + restN
    <3> HIDE DEF rest, restN
    <3>1. QED
      BY <1>c, <1>i, <2>3, <2>4
  <2>6. 0 <= Vanished'
    BY <1>i, <1>v, <2>2
  <2>7. QED
    BY <2>1, <2>5, <2>6 DEF LossInv
<1>2. CASE ~PollFull
  <2>1. Vanished' = Vanished
    BY <1>2, VanishedStep
  <2>2. /\ loopPc' = "idle" => batch' = <<>>
        /\ delivered + rest <= deliveredN + restN
    <3>1. ASSUME NEW c \in Cpus, Capture(c) \/ ProbeStep(c)
          PROVE  UNCHANGED <<loopPc, batch, processed, filtered>>
      BY <3>1 DEF Capture, ProbeStep, Reserve, Submit, ReserveFails, LoadCounter, StoreCounter
    <3>2. CASE UNCHANGED <<loopPc, batch, processed, filtered>>
      BY <1>c, <1>i, <3>2
    <3>3. CASE PollTake
      BY <1>c, <3>3 DEF PollTake
    <3>4. CASE FilterSelf \/ ProcessEvent
      <4>1. /\ loopPc = "process" /\ loopPc' = "process" /\ Len(batch') = Len(batch) - 1
            /\ \/ processed' = processed + 1 /\ filtered' = filtered
               \/ processed' = processed /\ filtered' = filtered + 1
        BY <1>c, <1>s, <3>4 DEF FilterSelf, ProcessEvent
      <4>2. QED
        BY <1>c, <4>1
    <3>5. CASE Poll \/ PollEmpty
      <4>1. /\ loopPc # "process" /\ loopPc' # "idle"
            /\ UNCHANGED <<batch, processed, filtered>>
        BY <3>5 DEF Poll, PollEmpty
      <4>2. rest = 0 /\ restN \in {0, Len(batch)} /\ deliveredN = delivered
        BY <4>1
      <4> HIDE DEF rest, restN, delivered, deliveredN
      <4>3. delivered \in Nat
        BY <1>c DEF delivered
      <4>4. QED
        BY <1>c, <4>1, <4>2, <4>3
    <3>6. CASE BatchDone
      BY <1>c, <3>6 DEF BatchDone
    <3>7. CASE UNCHANGED vars
      BY <3>2, <3>7 DEF vars
    <3>8. \/ UNCHANGED <<loopPc, batch, processed, filtered>>
          \/ PollTake \/ (FilterSelf \/ ProcessEvent) \/ (Poll \/ PollEmpty) \/ BatchDone
          \/ UNCHANGED vars
      BY <1>2, <3>1 DEF Next, LoopStep
    <3> HIDE DEF delivered, rest, deliveredN, restN
    <3>9. QED
      BY <3>2, <3>3, <3>4, <3>5, <3>6, <3>7, <3>8
  <2>3. Vanished' * MaxBatch <= deliveredN + restN
    <3>1. Vanished * MaxBatch \in Int
      BY <1>c, <1>v, OneMore
    <3>2. /\ delivered \in Nat /\ deliveredN \in Nat /\ rest \in Nat /\ restN \in Nat
      <4>1. TypeOK'
        BY TypeStep
      <4>2. /\ processed' \in Nat /\ filtered' \in Nat /\ batch' \in Seq(EventType)
        BY <4>1 DEF TypeOK
      <4>3. Len(batch') \in Nat
        BY <4>2
      <4>4. delivered \in Nat /\ deliveredN \in Nat
        <5>1. \A m, n \in Nat : m + n \in Nat
          OBVIOUS
        <5>2. QED
          BY ONLY <1>c, <4>2, <5>1
      <4>5. rest \in Nat
        BY <1>c
      <4>6. restN \in Nat
        BY <4>3
      <4>7. QED
        BY <4>4, <4>5, <4>6
    <3> DEFINE loss == Vanished * MaxBatch
    <3>3. loss \in Int /\ loss <= delivered + rest
      BY <1>i, <3>1
    <3>4. Vanished' * MaxBatch = loss
      BY <2>1
    <3> HIDE DEF rest, delivered, restN, deliveredN, loss
    <3>5. loss <= deliveredN + restN
      BY ONLY <2>2, <3>2, <3>3
    <3>6. QED
      BY <3>4, <3>5
  <2>4. QED
    BY <1>i, <2>1, <2>2, <2>3 DEF LossInv
<1>3. QED
  BY <1>1, <1>2

(***************************************************************************)
(* The drop counter: loading, storing and copying it.                      *)
(***************************************************************************)
LEMMA DropsStep == TypeOK /\ DropsInv /\ [Next]_vars => DropsInv'
<1> SUFFICES ASSUME TypeOK, DropsInv, [Next]_vars PROVE DropsInv'
  OBVIOUS
<1>0. Owing \in Nat
  BY AtFinite DEF Owing
<1>c. lost \in Nat /\ dropsMap \in Nat /\ eventsDropped \in Nat
  BY Counters
<1>a. \A d \in Cpus : probe[d] \in ProbeState /\ probe[d].loaded \in Nat
  BY DEF TypeOK, ProbeState
<1>1. ASSUME NEW c \in Cpus, Capture(c) \/ ProbeStep(c)
      PROVE  DropsInv'
  <2>0. Owing' = Owing - Ind(probe[c].pc, {"load", "store"}) + Ind(probe'[c].pc, {"load", "store"})
    BY <1>1, ProbeMoves, AtMoves DEF Owing
  <2>00. /\ probe \in [Cpus -> ProbeState]
         /\ \A d \in Cpus \ {c} : probe'[d] = probe[d]
    BY <1>1, ProbeMoves DEF TypeOK, Moves
  <2>1. CASE Capture(c) \/ Reserve(c) \/ Submit(c)
    <3>1. Owing' = Owing /\ UNCHANGED <<dropsMap, lost, eventsDropped>>
      BY <1>0, <2>0, <2>00, <2>1 DEF Capture, Reserve, Submit, Ind, ProbeState
    <3>2. \A d \in At({"store"})' : d \in At({"store"}) /\ probe'[d] = probe[d]
      BY <2>00, <2>1 DEF At, Capture, Reserve, Submit, ProbeState
    <3>3. QED
      BY <3>1, <3>2 DEF DropsInv
  <2>2. CASE ReserveFails(c)
    <3>1. Owing' = Owing + 1 /\ lost' = lost + 1 /\ UNCHANGED <<dropsMap, eventsDropped>>
      BY <1>0, <2>0, <2>00, <2>2 DEF ReserveFails, Ind, ProbeState
    <3>2. \A d \in At({"store"})' : d \in At({"store"}) /\ probe'[d] = probe[d]
      BY <2>00, <2>2 DEF At, ReserveFails, ProbeState
    <3>3. ASSUME NEW d \in At({"store"})' PROVE probe'[d].loaded + Owing' <= lost'
      <4>1. probe[d].loaded + Owing <= lost /\ probe[d].loaded \in Nat
        BY <1>a, <3>2 DEF DropsInv, At
      <4>2. QED
        BY <1>0, <3>1, <3>2, <4>1, <1>c
    <3>4. QED
      BY <1>0, <3>1, <3>3, <1>c DEF DropsInv
  <2>3. CASE LoadCounter(c)
    <3>1. Owing' = Owing /\ UNCHANGED <<dropsMap, lost, eventsDropped>>
      BY <1>0, <2>0, <2>00, <2>3 DEF LoadCounter, Ind, ProbeState
    <3>2. probe'[c].loaded = dropsMap
      BY <2>00, <2>3 DEF LoadCounter, ProbeState
    <3>3. \A d \in At({"store"})' : d # c => d \in At({"store"}) /\ probe'[d] = probe[d]
      BY <2>00 DEF At
    <3>4. \A d \in At({"store"})' : probe'[d].loaded + Owing' <= lost'
      BY <3>1, <3>2, <3>3 DEF DropsInv
    <3>5. QED
      BY <3>1, <3>4 DEF DropsInv
  <2>4. CASE StoreCounter(c)
    <3>1. Owing' = Owing - 1 /\ UNCHANGED <<lost, eventsDropped>>
      BY <1>0, <2>0, <2>00, <2>4 DEF StoreCounter, Ind, ProbeState
    <3>2. dropsMap' = probe[c].loaded + 1 /\ c \in At({"store"})
      BY <2>4 DEF StoreCounter, At
    <3>3. \A d \in At({"store"})' : d \in At({"store"}) /\ probe'[d] = probe[d]
      BY <2>00, <2>4 DEF At, StoreCounter, ProbeState
    <3>4. probe[c].loaded + Owing <= lost /\ probe[c].loaded \in Nat
      BY <1>a, <3>2 DEF DropsInv
    <3>5. ASSUME NEW d \in At({"store"})' PROVE probe'[d].loaded + Owing' <= lost'
      <4>1. probe[d].loaded + Owing <= lost /\ probe[d].loaded \in Nat
        BY <1>a, <3>3 DEF DropsInv, At
      <4>2. QED
        BY <1>0, <3>1, <3>3, <4>1, <1>c
    <3>6. QED
      BY <1>0, <3>1, <3>2, <3>4, <3>5, <1>c DEF DropsInv
  <2>5. QED
    BY <1>1, <2>1, <2>2, <2>3, <2>4 DEF ProbeStep
<1>2. ASSUME LoopStep PROVE DropsInv'
  <2>1. UNCHANGED <<probe, dropsMap, lost>>
    BY <1>2 DEF LoopStep, Poll, PollTake, PollFull, PollEmpty, FilterSelf, ProcessEvent, BatchDone
  <2>2. UNCHANGED eventsDropped \/ eventsDropped' = dropsMap
    BY <1>2 DEF LoopStep, Poll, PollTake, PollFull, PollEmpty, FilterSelf, ProcessEvent, BatchDone
  <2>3. Owing' = Owing /\ At({"store"})' = At({"store"})
    BY <2>1 DEF Owing, At
  <2>4. QED
    BY <1>0, <2>1, <2>2, <2>3, <1>c DEF DropsInv
<1>3. CASE UNCHANGED vars
  BY <1>3 DEF DropsInv, Owing, At, vars
<1>4. QED
  BY <1>1, <1>2, <1>3 DEF Next

LEMMA Inductive == Spec => []IInv
<1>1. IInv /\ [Next]_vars => IInv'
  BY TypeStep, LossStep, DropsStep DEF IInv
<1>2. QED
  BY InitIInv, <1>1, PTL DEF Spec
-----------------------------------------------------------------------------
(***************************************************************************)
(* The variables of the probes, the ring buffer and the event loop keep    *)
(* their types; the ring buffer and the batch keep within their limits.    *)
(***************************************************************************)
THEOREM TypeCorrect == Spec => []TypeOK
  BY Inductive, PTL DEF IInv

(***************************************************************************)
(* For every batch limit: what vanishes without being counted anywhere is  *)
(* at most one event for every max_batch_size events that are delivered,   *)
(* and none is delivered twice.                                            *)
(***************************************************************************)
THEOREM SilentLoss == Spec => []SilentLossBounded
<1>1. IInv => SilentLossBounded
  <2> SUFFICES ASSUME IInv PROVE SilentLossBounded
    OBVIOUS
  <2>1. Vanished \in Int /\ processed \in Nat /\ filtered \in Nat /\ Len(batch) \in Nat
    BY AtFinite, Counters DEF IInv, Vanished
  <2> DEFINE loss == Vanished * MaxBatch
             rest == IF loopPc = "process" THEN Len(batch) ELSE 0
  <2>2. loss \in Int /\ loss <= processed + filtered + rest /\ 0 <= Vanished
    BY <2>1, CapacityAssumption, OneMore DEF IInv, LossInv
  <2>3. rest \in Nat /\ rest <= Len(batch)
    BY <2>1
  <2> HIDE DEF loss, rest
  <2>4. loss <= processed + filtered + Len(batch)
    BY <2>1, <2>2, <2>3
  <2>5. QED
    BY <2>2, <2>4 DEF SilentLossBounded, loss
<1>2. QED
  BY Inductive, <1>1, PTL

(***************************************************************************)
(* EVENTS_DROPPED and its copy in the agent never exceed the number of     *)
(* events lost to a full ring buffer, although CPUs overwrite each other.  *)
(***************************************************************************)
THEOREM NoInventedDrops == Spec => []DropsNotInvented
<1>1. IInv => DropsNotInvented
  BY Counters, AtFinite DEF IInv, DropsInv, DropsNotInvented, Owing
<1>2. QED
  BY Inductive, <1>1, PTL

(***************************************************************************)
(* Once an event was lost, and no CPU is at the counter, EVENTS_DROPPED is *)
(* positive: whatever the CPUs overwrite, a loss is not forgotten.         *)
(***************************************************************************)
THEOREM LossNoticed == Spec => []DropsNoticed
<1> DEFINE Seen == lost = 0 \/ dropsMap > 0 \/ \E c \in Cpus : probe[c].pc \in {"load", "store"}
<1>1. Init => Seen
  BY DEF Init
<1>2. TypeOK /\ Seen /\ [Next]_vars => Seen'
  <2> SUFFICES ASSUME TypeOK, Seen, [Next]_vars PROVE Seen'
    OBVIOUS
  <2>1. ASSUME NEW c \in Cpus, Capture(c) \/ Reserve(c) \/ Submit(c) PROVE Seen'
    <3>1. UNCHANGED <<lost, dropsMap>>
      BY <2>1 DEF Capture, Reserve, Submit
    <3>2. ASSUME NEW d \in Cpus, probe[d].pc \in {"load", "store"}
          PROVE  probe'[d] = probe[d]
      BY <2>1, <3>2 DEF Capture, Reserve, Submit, TypeOK, ProbeState
    <3>3. QED
      BY <3>1, <3>2
  <2>2. ASSUME NEW c \in Cpus, ReserveFails(c) \/ LoadCounter(c) PROVE Seen'
    <3>1. probe'[c].pc \in {"load", "store"}
      BY <2>2 DEF ReserveFails, LoadCounter, TypeOK, ProbeState
    <3>2. QED
      BY <3>1
  <2>3. ASSUME NEW c \in Cpus, StoreCounter(c) PROVE Seen'
    <3>1. probe[c].loaded \in Nat
      BY DEF TypeOK, ProbeState
    <3>2. QED
      BY <2>3, <3>1 DEF StoreCounter
  <2>4. CASE LoopStep \/ UNCHANGED vars
    <3>1. UNCHANGED <<probe, dropsMap, lost>>
      BY <2>4 DEF LoopStep, Poll, PollTake, PollFull, PollEmpty, FilterSelf, ProcessEvent,
                  BatchDone, vars
    <3>2. QED
      BY <3>1
  <2>5. QED
    BY <2>1, <2>2, <2>3, <2>4 DEF Next, ProbeStep
<1>3. TypeOK /\ Seen => DropsNoticed
  BY DEF DropsNoticed, At, TypeOK
<1> HIDE DEF Seen
<1>4. QED
  BY TypeCorrect, <1>1, <1>2, <1>3, PTL DEF Spec
-----------------------------------------------------------------------------
(***************************************************************************)
(* Order.  Among the events of one CPU those of the batch come before      *)
(* those of the ring buffer, and the one the CPU is about to reserve comes *)
(* last; the clock is not behind any of them.                              *)
(***************************************************************************)
Before(e, f) == e.cpu = f.cpu => e.timestamp_ns < f.timestamp_ns

BatchOrder == \A i, j \in 1..Len(batch) : i < j => Before(batch[i], batch[j])
RingOrder == \A i, j \in 1..Len(ring) : i < j => Before(ring[i].event, ring[j].event)
BatchFirst == \A i \in 1..Len(batch), j \in 1..Len(ring) : Before(batch[i], ring[j].event)
ReservesLast ==
    \A c \in Cpus : probe[c].pc = "reserve" =>
        /\ probe[c].event.cpu = c /\ probe[c].event.timestamp_ns <= captured
        /\ \A i \in 1..Len(batch) : Before(batch[i], probe[c].event)
        /\ \A i \in 1..Len(ring) : Before(ring[i].event, probe[c].event)
ClockAhead ==
    /\ \A i \in 1..Len(batch) : batch[i].timestamp_ns <= captured
    /\ \A i \in 1..Len(ring) : ring[i].event.timestamp_ns <= captured

OrderInv == BatchOrder /\ RingOrder /\ BatchFirst /\ ReservesLast /\ ClockAhead

LEMMA OrderUnchanged ==
    ASSUME TypeOK, OrderInv, UNCHANGED <<batch, captured>>,
           Len(ring') = Len(ring), \A i \in 1..Len(ring) : ring'[i].event = ring[i].event,
           \A c \in Cpus : probe'[c].pc = "reserve" => probe'[c] = probe[c]
    PROVE  OrderInv'
<1>1. BatchOrder' /\ RingOrder' /\ BatchFirst' /\ ClockAhead'
  BY DEF OrderInv, BatchOrder, RingOrder, BatchFirst, ClockAhead, Before
<1>2. ReservesLast'
  BY DEF OrderInv, ReservesLast, Before
<1>3. QED
  BY <1>1, <1>2 DEF OrderInv

LEMMA CaptureOrder ==
    ASSUME TypeOK, OrderInv, NEW c \in Cpus, Capture(c)
    PROVE  OrderInv'
<1>1. /\ UNCHANGED <<batch, ring>> /\ captured' = captured + 1 /\ captured \in Nat
      /\ \A d \in Cpus \ {c} : probe'[d] = probe[d]
  BY Counters DEF Capture, TypeOK
<1>2. probe'[c].event.cpu = c /\ probe'[c].event.timestamp_ns = captured'
  BY DEF Capture, TypeOK, ProbeState
<1>3. /\ \A i \in 1..Len(batch) : batch[i].timestamp_ns \in Nat
      /\ \A i \in 1..Len(ring) : ring[i].event.timestamp_ns \in Nat
  <2>1. /\ \A i \in 1..Len(batch) : batch[i] \in EventType
        /\ \A i \in 1..Len(ring) : ring[i] \in Record
    BY DEF TypeOK
  <2>2. QED
    BY <2>1 DEF Record, EventType
<1>4. ClockAhead'
  BY <1>1, <1>3 DEF OrderInv, ClockAhead
<1>5. ReservesLast'
  <2> SUFFICES ASSUME NEW d \in Cpus, probe'[d].pc = "reserve"
               PROVE  /\ probe'[d].event.cpu = d /\ probe'[d].event.timestamp_ns <= captured'
                      /\ \A i \in 1..Len(batch) : Before(batch[i], probe[d].event)'
                      /\ \A i \in 1..Len(ring) : Before(ring[i].event, probe[d].event)'
    BY <1>1 DEF ReservesLast
  <2>1. CASE d = c
    <3>1. /\ \A i \in 1..Len(batch) : batch'[i].timestamp_ns < captured'
          /\ \A i \in 1..Len(ring) : ring'[i].event.timestamp_ns < captured'
      BY <1>1, <1>3 DEF OrderInv, ClockAhead
    <3>2. QED
      BY <1>1, <1>2, <2>1, <3>1 DEF Before
  <2>2. CASE d # c
    <3>1. probe'[d] = probe[d] /\ probe[d].event \in EventType
      BY <1>1, <2>2, NoEventIsNone DEF TypeOK, ProbeState
    <3>2. probe[d].event.timestamp_ns \in Nat
      BY <3>1 DEF EventType
    <3>3. QED
      BY <1>1, <3>1, <3>2 DEF OrderInv, ReservesLast, Before
  <2>3. QED
    BY <2>1, <2>2
<1>6. BatchOrder' /\ RingOrder' /\ BatchFirst'
  BY <1>1 DEF OrderInv, BatchOrder, RingOrder, BatchFirst, Before
<1>7. QED
  BY <1>4, <1>5, <1>6 DEF OrderInv

LEMMA ReserveOrder ==
    ASSUME TypeOK, OrderInv, NEW c \in Cpus, Reserve(c)
    PROVE  OrderInv'
<1>1. PICK e : e = probe[c].event
  OBVIOUS
<1>2. /\ UNCHANGED <<batch, captured>> /\ ring' = Append(ring, [event |-> e, ready |-> FALSE])
      /\ probe[c].pc = "reserve" /\ \A d \in Cpus \ {c} : probe'[d] = probe[d]
      /\ probe'[c].pc = "submit"
  BY <1>1 DEF Reserve, TypeOK, ProbeState
<1>3. /\ \A i \in 1..Len(batch) : Before(batch[i], e)
      /\ \A i \in 1..Len(ring) : Before(ring[i].event, e)
      /\ e.cpu = c /\ e.timestamp_ns <= captured
  BY <1>1, <1>2 DEF OrderInv, ReservesLast
<1>4. PICK n \in Nat :
        /\ Len(ring') = n /\ 1..n = (1..Len(ring)) \cup {n}
        /\ \A i \in 1..Len(ring) : ring'[i] = ring[i] /\ ~(n < i) /\ ~(n < n)
        /\ ring'[n].event = e
  <2>1. ring \in Seq(Record) /\ Len(ring) \in Nat
    BY DEF TypeOK
  <2>2. /\ Len(ring') = Len(ring) + 1
        /\ \A i \in 1..Len(ring) : ring'[i] = ring[i]
        /\ ring'[Len(ring) + 1] = [event |-> e, ready |-> FALSE]
    BY <1>2, <2>1
  <2>3. QED
    BY <2>1, <2>2
<1>5. RingOrder'
  <2>1. ASSUME NEW i \in 1..n, NEW j \in 1..n, i < j PROVE Before(ring[i].event, ring[j].event)'
    <3>1. i \in 1..Len(ring)
      BY <1>4, <2>1
    <3>2. CASE j \in 1..Len(ring)
      BY <1>4, <2>1, <3>1, <3>2 DEF OrderInv, RingOrder, Before
    <3>3. CASE j = n
      BY <1>3, <1>4, <3>1, <3>3 DEF Before
    <3>4. QED
      BY <1>4, <3>2, <3>3
  <2>2. QED
    BY <1>4, <2>1 DEF RingOrder
<1>6. BatchFirst'
  <2>1. ASSUME NEW i \in 1..Len(batch), NEW j \in 1..n PROVE Before(batch[i], ring[j].event)'
    <3>1. CASE j \in 1..Len(ring)
      BY <1>2, <1>4, <3>1 DEF OrderInv, BatchFirst, Before
    <3>2. CASE j = n
      BY <1>2, <1>3, <1>4, <3>2 DEF Before
    <3>3. QED
      BY <1>4, <3>1, <3>2
  <2>2. QED
    BY <1>2, <1>4, <2>1 DEF BatchFirst
<1>7. ReservesLast'
  <2> SUFFICES ASSUME NEW d \in Cpus, probe'[d].pc = "reserve"
               PROVE  /\ probe'[d].event.cpu = d /\ probe'[d].event.timestamp_ns <= captured'
                      /\ \A i \in 1..Len(batch) : Before(batch[i], probe[d].event)'
                      /\ \A i \in 1..n : Before(ring[i].event, probe[d].event)'
    BY <1>2, <1>4 DEF ReservesLast
  <2>1. d # c /\ probe'[d] = probe[d]
    BY <1>2
  <2>2. /\ probe[d].event.cpu = d /\ probe[d].event.timestamp_ns <= captured
        /\ \A i \in 1..Len(batch) : Before(batch[i], probe[d].event)
        /\ \A i \in 1..Len(ring) : Before(ring[i].event, probe[d].event)
    BY <2>1 DEF OrderInv, ReservesLast
  <2>3. ASSUME NEW i \in 1..n PROVE Before(ring[i].event, probe[d].event)'
    <3>1. CASE i \in 1..Len(ring)
      BY <1>4, <2>1, <2>2, <3>1 DEF Before
    <3>2. CASE i = n
      BY <1>3, <1>4, <2>1, <2>2, <3>2 DEF Before
    <3>3. QED
      BY <1>4, <3>1, <3>2
  <2>4. QED
    BY <1>2, <2>1, <2>2, <2>3 DEF Before
<1>8. BatchOrder' /\ ClockAhead'
  <2>1. ASSUME NEW i \in 1..n PROVE ring'[i].event.timestamp_ns <= captured
    BY <1>3, <1>4, <2>1 DEF OrderInv, ClockAhead
  <2>2. QED
    BY <1>2, <1>4, <2>1 DEF OrderInv, BatchOrder, ClockAhead, Before
<1>9. QED
  BY <1>5, <1>6, <1>7, <1>8 DEF OrderInv

(***************************************************************************)
(* A record taken from the ring buffer, for the batch or for nothing.      *)
(***************************************************************************)
LEMMA RingTail ==
    ASSUME TypeOK, ring # <<>>, ring' = Tail(ring)
    PROVE  /\ 1 \in 1..Len(ring) /\ Head(ring) = ring[1] /\ ring[1] \in Record
           /\ \A i \in 1..Len(ring') : i + 1 \in 1..Len(ring) /\ 1 < i + 1 /\ ring'[i] = ring[i + 1]
           /\ \A i, j \in 1..Len(ring') : i < j => i + 1 < j + 1
  BY DEF TypeOK

LEMMA TakeOrder ==
    ASSUME TypeOK, OrderInv, PollTake
    PROVE  OrderInv'
<1>1. /\ ring # <<>> /\ ring' = Tail(ring) /\ UNCHANGED <<probe, captured>>
      /\ batch' = Append(batch, Head(ring).event)
  BY DEF PollTake, Readable
<1>2. PICK e : e = ring[1].event
  OBVIOUS
<1>3. /\ 1 \in 1..Len(ring) /\ batch' = Append(batch, e) /\ e \in EventType
      /\ \A i \in 1..Len(ring') : i + 1 \in 1..Len(ring) /\ 1 < i + 1 /\ ring'[i] = ring[i + 1]
      /\ \A i, j \in 1..Len(ring') : i < j => i + 1 < j + 1
  BY <1>1, <1>2, RingTail DEF Record
<1>4. PICK n \in Nat :
        /\ Len(batch') = n /\ 1..n = (1..Len(batch)) \cup {n}
        /\ \A i \in 1..Len(batch) : batch'[i] = batch[i] /\ ~(n < i) /\ ~(n < n)
        /\ batch'[n] = e
  <2>1. batch \in Seq(EventType) /\ Len(batch) \in Nat
    BY DEF TypeOK
  <2>2. /\ Len(batch') = Len(batch) + 1
        /\ \A i \in 1..Len(batch) : batch'[i] = batch[i]
        /\ batch'[Len(batch) + 1] = e
    BY <1>3, <2>1
  <2>3. QED
    BY <2>1, <2>2
<1>5. /\ \A i \in 1..Len(batch) : Before(batch[i], e)
      /\ \A i \in 1..Len(ring') : Before(e, ring[i + 1].event)
      /\ e.timestamp_ns <= captured
  BY <1>2, <1>3 DEF OrderInv, BatchFirst, RingOrder, ClockAhead
<1>6. BatchOrder'
  <2>1. ASSUME NEW i \in 1..n, NEW j \in 1..n, i < j PROVE Before(batch[i], batch[j])'
    <3>1. i \in 1..Len(batch)
      BY <1>4, <2>1
    <3>2. CASE j \in 1..Len(batch)
      BY <1>4, <2>1, <3>1, <3>2 DEF OrderInv, BatchOrder, Before
    <3>3. CASE j = n
      BY <1>4, <1>5, <3>1, <3>3 DEF Before
    <3>4. QED
      BY <1>4, <3>2, <3>3
  <2>2. QED
    BY <1>4, <2>1 DEF BatchOrder
<1>7. RingOrder'
  BY <1>3 DEF OrderInv, RingOrder, Before
<1>8. BatchFirst'
  <2>1. ASSUME NEW i \in 1..n, NEW j \in 1..Len(ring') PROVE Before(batch[i], ring[j].event)'
    <3>1. CASE i \in 1..Len(batch)
      <4>1. batch'[i] = batch[i] /\ ring'[j] = ring[j + 1] /\ j + 1 \in 1..Len(ring)
        BY <1>3, <1>4, <3>1
      <4>2. Before(batch[i], ring[j + 1].event)
        BY <3>1, <4>1 DEF OrderInv, BatchFirst
      <4>3. QED
        BY <4>1, <4>2, Zenon DEF Before
    <3>2. CASE i = n
      BY <1>3, <1>4, <1>5, <3>2 DEF Before
    <3>3. QED
      BY <1>4, <3>1, <3>2
  <2>2. QED
    BY <1>4, <2>1 DEF BatchFirst
<1>9. ReservesLast'
  <2> SUFFICES ASSUME NEW d \in Cpus, probe[d].pc = "reserve"
               PROVE  /\ probe[d].event.cpu = d /\ probe[d].event.timestamp_ns <= captured
                      /\ \A i \in 1..n : Before(batch[i], probe[d].event)'
                      /\ \A i \in 1..Len(ring') : Before(ring[i].event, probe[d].event)'
    BY <1>1, <1>4 DEF ReservesLast
  <2>1. /\ probe[d].event.cpu = d /\ probe[d].event.timestamp_ns <= captured
        /\ \A i \in 1..Len(batch) : Before(batch[i], probe[d].event)
        /\ \A i \in 1..Len(ring) : Before(ring[i].event, probe[d].event)
    BY DEF OrderInv, ReservesLast
  <2>2. ASSUME NEW i \in 1..n PROVE Before(batch[i], probe[d].event)'
    <3>1. CASE i \in 1..Len(batch)
      BY <1>1, <1>4, <2>1, <3>1 DEF Before
    <3>2. CASE i = n
      BY <1>1, <1>2, <1>3, <1>4, <2>1, <3>2 DEF Before
    <3>3. QED
      BY <1>4, <3>1, <3>2
  <2>3. \A i \in 1..Len(ring') : Before(ring[i].event, probe[d].event)'
    BY <1>1, <1>3, <2>1 DEF Before
  <2>4. QED
    BY <2>1, <2>2, <2>3
<1>10. ClockAhead'
  <2>1. ASSUME NEW i \in 1..n PROVE batch'[i].timestamp_ns <= captured
    BY <1>4, <1>5, <2>1 DEF OrderInv, ClockAhead
  <2>2. QED
    BY <1>1, <1>3, <1>4, <2>1 DEF OrderInv, ClockAhead
<1>11. QED
  BY <1>6, <1>7, <1>8, <1>9, <1>10 DEF OrderInv

LEMMA DiscardOrder ==
    ASSUME TypeOK, OrderInv, PollFull
    PROVE  OrderInv'
<1>1. ring # <<>> /\ ring' = Tail(ring) /\ UNCHANGED <<batch, probe, captured>>
  BY DEF PollFull, Readable
<1>2. /\ \A i \in 1..Len(ring') : i + 1 \in 1..Len(ring) /\ ring'[i] = ring[i + 1]
      /\ \A i, j \in 1..Len(ring') : i < j => i + 1 < j + 1
  BY <1>1, RingTail
<1>3. BatchOrder' /\ RingOrder' /\ BatchFirst' /\ ClockAhead'
  BY <1>1, <1>2 DEF OrderInv, BatchOrder, RingOrder, BatchFirst, ClockAhead, Before
<1>4. ReservesLast'
  BY <1>1, <1>2 DEF OrderInv, ReservesLast, Before
<1>5. QED
  BY <1>3, <1>4 DEF OrderInv

LEMMA ConsumeOrder ==
    ASSUME TypeOK, OrderInv, FilterSelf \/ ProcessEvent
    PROVE  OrderInv'
<1>1. batch # <<>> /\ batch' = Tail(batch) /\ UNCHANGED <<ring, probe, captured>>
  BY DEF FilterSelf, ProcessEvent
<1>2. /\ \A i \in 1..Len(batch') : i + 1 \in 1..Len(batch) /\ batch'[i] = batch[i + 1]
      /\ \A i, j \in 1..Len(batch') : i < j => i + 1 < j + 1
  BY <1>1 DEF TypeOK
<1>3. BatchOrder' /\ RingOrder' /\ BatchFirst' /\ ClockAhead'
  BY <1>1, <1>2 DEF OrderInv, BatchOrder, RingOrder, BatchFirst, ClockAhead, Before
<1>4. ReservesLast'
  BY <1>1, <1>2 DEF OrderInv, ReservesLast, Before
<1>5. QED
  BY <1>3, <1>4 DEF OrderInv

LEMMA OrderStep == TypeOK /\ OrderInv /\ [Next]_vars => OrderInv'
<1> SUFFICES ASSUME TypeOK, OrderInv, [Next]_vars PROVE OrderInv'
  OBVIOUS
<1>1. ASSUME NEW c \in Cpus, Capture(c) PROVE OrderInv'
  BY <1>1, CaptureOrder
<1>2. ASSUME NEW c \in Cpus, Reserve(c) PROVE OrderInv'
  BY <1>2, ReserveOrder
<1>3. ASSUME NEW c \in Cpus, Submit(c) PROVE OrderInv'
  <2>1. UNCHANGED <<batch, captured>> /\ Len(ring') = Len(ring)
    BY <1>3, SubmitRing DEF Submit
  <2>2. \A i \in 1..Len(ring) : ring[i] \in Record
    BY DEF TypeOK
  <2>3. DOMAIN ring = 1..Len(ring)
    BY DEF TypeOK
  <2>4. \A i \in 1..Len(ring) : ring'[i].event = ring[i].event
    BY <1>3, <2>2, <2>3 DEF Submit, Record
  <2>5. \A d \in Cpus : probe'[d].pc = "reserve" => probe'[d] = probe[d]
    BY <1>3 DEF Submit, TypeOK, ProbeState
  <2>6. QED
    BY <2>1, <2>4, <2>5, OrderUnchanged
<1>4. ASSUME NEW c \in Cpus, ReserveFails(c) \/ LoadCounter(c) \/ StoreCounter(c) PROVE OrderInv'
  <2>1. UNCHANGED <<batch, captured, ring>>
    BY <1>4 DEF ReserveFails, LoadCounter, StoreCounter
  <2>2. \A d \in Cpus : probe'[d].pc = "reserve" => probe'[d] = probe[d]
    BY <1>4 DEF ReserveFails, LoadCounter, StoreCounter, TypeOK, ProbeState
  <2>3. QED
    BY <2>1, <2>2, OrderUnchanged
<1>5. CASE PollTake
  BY <1>5, TakeOrder
<1>6. CASE PollFull
  BY <1>6, DiscardOrder
<1>7. CASE FilterSelf \/ ProcessEvent
  BY <1>7, ConsumeOrder
<1>8. CASE Poll \/ PollEmpty \/ BatchDone \/ UNCHANGED vars
  <2>1. UNCHANGED <<batch, captured, ring, probe>>
    BY <1>8 DEF Poll, PollEmpty, BatchDone, vars
  <2>2. QED
    BY <2>1, OrderUnchanged
<1>9. QED
  BY <1>1, <1>2, <1>3, <1>4, <1>5, <1>6, <1>7, <1>8 DEF Next, ProbeStep, LoopStep

(***************************************************************************)
(* Pending is the batch and then the ring buffer.                          *)
(***************************************************************************)
LEMMA PendingInOrder ==
    ASSUME TypeOK, OrderInv
    PROVE  PerCpuOrder
<1> DEFINE queued == [i \in DOMAIN ring |-> ring[i].event]
<1>1. batch \in Seq(EventType) /\ ring \in Seq(Record) /\ DOMAIN ring = 1..Len(ring)
  BY DEF TypeOK
<1>2. \A i \in 1..Len(ring) : ring[i].event \in EventType
  <2>1. \A i \in 1..Len(ring) : ring[i] \in Record
    BY <1>1
  <2>2. QED
    BY <2>1 DEF Record
<1>3. queued \in Seq(EventType) /\ Len(queued) = Len(ring)
  <2>1. queued \in [1..Len(ring) -> EventType] /\ Len(ring) \in Nat
    BY <1>1, <1>2
  <2>2. QED
    BY <2>1
<1>4. \A i \in 1..Len(ring) : queued[i] = ring[i].event
  BY <1>1
<1>5. Pending = batch \o queued
  BY DEF Pending
<1> HIDE DEF queued
<1>6. /\ DOMAIN Pending = 1..(Len(batch) + Len(ring))
      /\ \A i \in 1..Len(batch) : Pending[i] = batch[i]
      /\ \A i \in (Len(batch) + 1)..(Len(batch) + Len(ring)) :
            Pending[i] = ring[i - Len(batch)].event /\ i - Len(batch) \in 1..Len(ring)
      /\ Len(batch) \in Nat /\ Len(ring) \in Nat
  <2>1. Len(batch) \in Nat /\ Len(ring) \in Nat
    BY <1>1
  <2>2. /\ Pending \in Seq(EventType) /\ Len(Pending) = Len(batch) + Len(ring)
        /\ \A i \in 1..(Len(batch) + Len(ring)) :
              Pending[i] = IF i <= Len(batch) THEN batch[i] ELSE queued[i - Len(batch)]
    <3>1. batch \in Seq(EventType) /\ queued \in Seq(EventType)
      BY <1>1, <1>3
    <3>2. /\ batch \o queued \in Seq(EventType) /\ Len(batch \o queued) = Len(batch) + Len(queued)
          /\ \A i \in 1..(Len(batch) + Len(queued)) :
                (batch \o queued)[i] = IF i <= Len(batch) THEN batch[i] ELSE queued[i - Len(batch)]
      BY ONLY <3>1, ConcatProperties, Zenon
    <3>3. QED
      BY <1>3, <1>5, <3>2, Zenon
  <2>3. DOMAIN Pending = 1..(Len(batch) + Len(ring))
    BY <2>2
  <2>4. ASSUME NEW i \in 1..Len(batch) PROVE Pending[i] = batch[i]
    BY <2>1, <2>2
  <2>5. ASSUME NEW i \in (Len(batch) + 1)..(Len(batch) + Len(ring))
        PROVE  Pending[i] = ring[i - Len(batch)].event /\ i - Len(batch) \in 1..Len(ring)
    <3>1. i - Len(batch) \in 1..Len(ring) /\ i \in 1..(Len(batch) + Len(ring)) /\ ~(i <= Len(batch))
      BY <2>1
    <3>2. QED
      BY <1>4, <2>2, <3>1
  <2>6. QED
    BY <2>1, <2>3, <2>4, <2>5
<1> SUFFICES ASSUME NEW i \in DOMAIN Pending, NEW j \in DOMAIN Pending, i < j
             PROVE  Before(Pending[i], Pending[j])
  BY DEF PerCpuOrder, Before
<1>7. CASE i \in 1..Len(batch) /\ j \in 1..Len(batch)
  BY <1>6, <1>7 DEF OrderInv, BatchOrder
<1>8. CASE i \in 1..Len(batch) /\ j \notin 1..Len(batch)
  <2>1. j \in (Len(batch) + 1)..(Len(batch) + Len(ring))
    BY <1>6, <1>8
  <2>2. QED
    BY <1>6, <1>8, <2>1 DEF OrderInv, BatchFirst
<1>9. CASE i \notin 1..Len(batch)
  <2>1. /\ i \in (Len(batch) + 1)..(Len(batch) + Len(ring))
        /\ j \in (Len(batch) + 1)..(Len(batch) + Len(ring))
        /\ i - Len(batch) < j - Len(batch)
    BY <1>6, <1>9
  <2>2. QED
    BY <1>6, <2>1 DEF OrderInv, RingOrder
<1>10. QED
  BY <1>7, <1>8, <1>9

(***************************************************************************)
(* Events of one CPU reach the flow table in the order of their capture:   *)
(* a CPU runs one classifier at a time, the ring buffer keeps the order of *)
(* reservations, and what poll_events throws away leaves no gap to jump.   *)
(***************************************************************************)
THEOREM OrderPerCpu == Spec => []PerCpuOrder
<1>1. Init => OrderInv
  BY DEF Init, OrderInv, BatchOrder, RingOrder, BatchFirst, ReservesLast, ClockAhead
<1>2. QED
  BY TypeCorrect, <1>1, OrderStep, PendingInOrder, PTL DEF Spec
=============================================================================
