--------------------------- MODULE FlowTableProofs --------------------------
(***************************************************************************)
(* Proofs about the flow table for every number of keys and every          *)
(* configuration: its inductive invariant, the bound on its size, the      *)
(* refinement of FlowLedger, and that no packet is lost or counted twice.  *)
(***************************************************************************)
EXTENDS FlowTable, FiniteSetTheorems, WellFoundedInduction, TLAPS

(***************************************************************************)
(* Constants: the bound and the number of victims are positive.            *)
(***************************************************************************)
LEMMA ConstantFacts ==
    /\ Bound \in Nat /\ Bound >= 1 /\ MaxFlows <= Bound
    /\ EvictCount \in Nat /\ EvictCount >= 1
    /\ High \in Int /\ Low \in Int
  BY ConfigAssumption DEF Bound, EvictCount, High, Low

LEMMA KeysFinite == IsFiniteSet(Keys) /\ Cardinality(Keys) = NumKeys
  BY FS_Interval, NumKeysAssumption DEF Keys

(***************************************************************************)
(* Cardinality of sets of keys, the only sets that are counted.            *)
(***************************************************************************)
LEMMA KeySets ==
    ASSUME NEW A, NEW B, A \subseteq B, B \subseteq Keys
    PROVE  /\ Cardinality(A) \in Nat /\ Cardinality(B) \in Nat
           /\ Cardinality(A) <= Cardinality(B)
           /\ A # B => Cardinality(A) < Cardinality(B)
<1>1. IsFiniteSet(B) /\ IsFiniteSet(A)
  BY KeysFinite, FS_Subset
<1>2. QED
  BY <1>1, FS_Subset, FS_CardinalityType

LEMMA OneMoreKey ==
    ASSUME NEW A, A \subseteq Keys, NEW k \in Keys
    PROVE  Cardinality(A \cup {k}) <= Cardinality(A) + 1
<1>1. IsFiniteSet(A)
  BY KeysFinite, FS_Subset
<1>2. QED
  BY <1>1, FS_AddElement, FS_CardinalityType

(***************************************************************************)
(* What the two updates of the table do.                                   *)
(***************************************************************************)
LEMMA TouchFacts ==
    ASSUME TypeOK, NEW k \in Keys
    PROVE  LET g == Touch(flows, k, now) IN
           /\ DOMAIN g = Live \cup {k}
           /\ g \in [Live \cup {k} -> Flow]
           /\ g[k].last_seen = now
           /\ \A j \in Live : j # k => g[j] = flows[j]
  BY DEF TypeOK, Touch, Live, Flow

LEMMA RemoveFacts ==
    ASSUME TypeOK, NEW k \in Live, Remove(k)
    PROVE  /\ Live' = Live \ {k}
           /\ flows' \in [Live \ {k} -> Flow]
           /\ \A j \in Live' : flows'[j] = flows[j]
           /\ retired' \in Nat
  BY DEF TypeOK, Remove, Live, Flow

LEMMA InitIInv == Init => IInv
<1> SUFFICES ASSUME Init PROVE IInv
  OBVIOUS
<1>1. Live = {} /\ Size = 0
  BY FS_EmptySet DEF Init, NoFlows, Live, Size
<1>a. Live \subseteq Keys /\ flows \in [Live -> Flow]
  BY <1>1 DEF Init, NoFlows, Live
<1>b. expired \in 0..(UsizeModulus - 1) /\ 0 \in 0..NumKeys
  BY NumKeysAssumption, UsizeAssumption DEF Init
<1>2. TypeOK
  <2>1. /\ loopPc \in LoopPcs /\ sweepPc \in SweepPcs /\ atCapacity \in BOOLEAN
        /\ candidates \subseteq Candidate /\ victims \subseteq Candidate
        /\ loopPc # "idle" => loopKey \in Keys
    BY DEF Init, LoopPcs, SweepPcs
  <2>2. /\ eventsProcessed \in Nat /\ flowEvictions \in Nat /\ now \in Nat
        /\ loopKey \in 0..NumKeys /\ loopCursor \in 0..NumKeys /\ evicted \in Nat
        /\ sweepCursor \in 0..NumKeys /\ cutoff \in Int /\ len \in Nat
        /\ before \in Nat /\ retired \in Nat /\ swept \in Nat
    BY <1>b DEF Init
  <2>3. QED
    BY <1>a, <1>b, <2>1, <2>2 DEF TypeOK
<1>3. RoomInv /\ AgeInv
  BY <1>1, ConstantFacts DEF Init, RoomInv, AgeInv
<1>4. QED
  BY <1>2, <1>3 DEF IInv

(***************************************************************************)
(* Every step keeps the types.                                             *)
(***************************************************************************)
LEMMA TypeStep == TypeOK /\ [Next]_vars => TypeOK'
<1> SUFFICES ASSUME TypeOK, [Next]_vars PROVE TypeOK'
  OBVIOUS
<1> USE DEF loopVars, sweepVars, LoopGoto, SweepGoto, LoopPcs, SweepPcs
<1>1. ASSUME NEW k \in Keys, ProcessEvent(k) PROVE TypeOK'
  <2>1. k \in 0..NumKeys
    BY NumKeysAssumption DEF Keys
  <2>2. QED
    BY <1>1, <2>1 DEF ProcessEvent, TypeOK, Live
<1>2. ASSUME UpdateHit \/ Insert PROVE TypeOK'
  <2>1. loopKey \in Keys /\ flows' = Touch(flows, loopKey, now)
    BY <1>2 DEF UpdateHit, Insert, TypeOK
  <2>2. Live' = Live \cup {loopKey} /\ flows' \in [Live \cup {loopKey} -> Flow]
    BY <2>1, TouchFacts DEF Live
  <2>3. Live' \subseteq Keys /\ flows' \in [Live' -> Flow]
    BY <2>1, <2>2 DEF TypeOK
  <2>4. QED
    BY <1>2, <2>3 DEF UpdateHit, Insert, TypeOK
<1>3. CASE LookupMiss
  BY <1>3 DEF LookupMiss, TypeOK, Live
<1>4. CASE HasRoom \/ TableFull
  BY <1>4 DEF HasRoom, TableFull, TypeOK, Live
<1>5. CASE ScanVisit
  <2>1. loopCursor' \in 0..NumKeys
    BY <1>5, NumKeysAssumption DEF ScanVisit, TypeOK
  <2>2. \A k \in Live : [key |-> k, last_seen |-> flows[k].last_seen] \in Candidate
    BY DEF TypeOK, Candidate, Flow
  <2>3. candidates' \subseteq Candidate
    BY <1>5, <2>2 DEF ScanVisit, TypeOK
  <2>4. QED
    BY <1>5, <2>1, <2>3 DEF ScanVisit, TypeOK, Live
<1>6. CASE TakeOldest
  <2>1. victims' \subseteq Candidate
    BY <1>6 DEF TakeOldest, TypeOK
  <2>2. 0 \in 0..NumKeys
    BY NumKeysAssumption
  <2>3. QED
    BY <1>6, <2>1, <2>2 DEF TakeOldest, TypeOK, Live
<1>7. CASE EvictNext
  <2>1. PICK v \in victims :
          /\ victims' = victims \ {v}
          /\ \/ v.key \in Live /\ Remove(v.key) /\ evicted' = evicted + 1
             \/ v.key \notin Live /\ UNCHANGED <<flows, retired, evicted>>
    BY <1>7 DEF EvictNext
  <2>2. /\ Live' \subseteq Keys /\ flows' \in [Live' -> Flow]
        /\ retired' \in Nat /\ evicted' \in Nat
    <3>1. CASE v.key \in Live
      <4>1. Live' = Live \ {v.key} /\ flows' \in [Live \ {v.key} -> Flow] /\ retired' \in Nat
        BY <2>1, <3>1, RemoveFacts
      <4>2. Live' \subseteq Keys /\ flows' \in [Live' -> Flow] /\ evicted' \in Nat
        BY <2>1, <3>1, <4>1 DEF TypeOK
      <4>3. QED
        BY <4>1, <4>2
    <3>2. CASE v.key \notin Live
      BY <2>1, <3>2 DEF TypeOK, Live
    <3>3. QED
      BY <3>1, <3>2
  <2>3. QED
    BY <1>7, <2>1, <2>2 DEF EvictNext, TypeOK
<1>8. CASE CountEvictions
  BY <1>8 DEF CountEvictions, TypeOK, Live
<1>9. CASE CheckHigh
  BY <1>9 DEF CheckHigh, TypeOK, Live
<1>10. CASE RaiseFlag
  BY <1>10 DEF RaiseFlag, TypeOK, Live
<1>11. CASE StartSweep
  BY <1>11, ConfigAssumption DEF StartSweep, TypeOK, Live
<1>12. CASE LenVisit
  <2>1. sweepCursor' \in 0..NumKeys
    BY <1>12, NumKeysAssumption DEF LenVisit, TypeOK
  <2>2. Live \cap {sweepCursor'} \subseteq Keys
    BY DEF TypeOK
  <2>3. len' \in Nat
    BY <1>12, <2>2, KeySets DEF LenVisit, TypeOK
  <2>4. QED
    BY <1>12, <2>1, <2>3 DEF LenVisit, TypeOK, Live
<1>13. CASE LenBefore \/ RetainDone \/ CheckLow
  <2>1. 0 \in 0..NumKeys
    BY NumKeysAssumption
  <2>2. QED
    BY <1>13, <2>1 DEF LenBefore, RetainDone, CheckLow, TypeOK, Live
<1>14. CASE RetainVisit
  <2>1. sweepCursor' \in 0..NumKeys
    BY <1>14, NumKeysAssumption DEF RetainVisit, TypeOK
  <2>2. /\ Live' \subseteq Keys /\ flows' \in [Live' -> Flow]
        /\ retired' \in Nat /\ swept' \in Nat
    <3>1. CASE sweepCursor' \in Live /\ Remove(sweepCursor') /\ swept' = swept + 1
      <4> DEFINE k == sweepCursor'
      <4>1. Live' = Live \ {k} /\ flows' \in [Live \ {k} -> Flow] /\ retired' \in Nat
        BY <3>1, RemoveFacts
      <4>2. Live' \subseteq Keys /\ flows' \in [Live' -> Flow] /\ swept' \in Nat
        BY <3>1, <4>1 DEF TypeOK
      <4>3. QED
        BY <4>1, <4>2
    <3>2. CASE UNCHANGED <<flows, retired, swept>>
      BY <3>2 DEF TypeOK, Live
    <3>3. QED
      BY <1>14, <3>1, <3>2 DEF RetainVisit
  <2>3. QED
    BY <1>14, <2>1, <2>2 DEF RetainVisit, TypeOK
<1>15. CASE LenAfter
  <2>1. 0 \in 0..NumKeys /\ expired' \in 0..(UsizeModulus - 1)
    BY <1>15, NumKeysAssumption, UsizeAssumption DEF LenAfter, TypeOK
  <2>2. QED
    BY <1>15, <2>1 DEF LenAfter, TypeOK, Live
<1>16. CASE ClearFlag
  BY <1>16 DEF ClearFlag, TypeOK, Live
<1>17. CASE Tick
  BY <1>17 DEF Tick, TypeOK, Live
<1>18. CASE UNCHANGED vars
  BY <1>18 DEF vars, TypeOK, Live
<1>19. QED
  BY <1>1, <1>2, <1>3, <1>4, <1>5, <1>6, <1>7, <1>8, <1>9, <1>10, <1>11,
     <1>12, <1>13, <1>14, <1>15, <1>16, <1>17, <1>18
     DEF Next, LoopStep, SweepStep

(***************************************************************************)
(* Steps that leave the table and the eviction alone keep both invariants. *)
(* What a removal by either task does to them: the sets that are counted   *)
(* only lose keys.                                                         *)
(***************************************************************************)
LEMMA RoomUnchanged ==
    ASSUME RoomInv,
           UNCHANGED <<flows, loopPc, loopCursor, candidates, victims>>
    PROVE  RoomInv'
  BY DEF RoomInv, Size, Live, CandidateKeys, VictimKeys

LEMMA RoomShrinks ==
    ASSUME TypeOK, RoomInv, Live' \subseteq Live,
           UNCHANGED <<loopPc, loopCursor, candidates, victims>>
    PROVE  RoomInv'
<1>1. CandidateKeys \subseteq Keys /\ Live \subseteq Keys
  BY DEF TypeOK, CandidateKeys, Candidate
<1>2. CandidateKeys' = CandidateKeys /\ VictimKeys' = VictimKeys
  BY DEF CandidateKeys, VictimKeys
<1>3. Size' \in Nat /\ Size \in Nat /\ Size' <= Size
  BY <1>1, KeySets DEF Size
<1>4. /\ Cardinality(Live' \cup CandidateKeys) \in Nat
      /\ Cardinality(Live \cup CandidateKeys) \in Nat
      /\ Cardinality(Live' \cup CandidateKeys) <= Cardinality(Live \cup CandidateKeys)
  <2>1. Live' \cup CandidateKeys \subseteq Live \cup CandidateKeys
    OBVIOUS
  <2>2. Live \cup CandidateKeys \subseteq Keys
    BY <1>1
  <2>3. QED
    BY <2>1, <2>2, KeySets
<1>5. /\ Cardinality(Live' \ VictimKeys) \in Nat /\ Cardinality(Live \ VictimKeys) \in Nat
      /\ Cardinality(Live' \ VictimKeys) <= Cardinality(Live \ VictimKeys)
  <2>1. Live' \ VictimKeys \subseteq Live \ VictimKeys
    OBVIOUS
  <2>2. Live \ VictimKeys \subseteq Keys
    BY <1>1
  <2>3. QED
    BY <2>1, <2>2, KeySets
<1>6. Bound' = Bound /\ Bound \in Nat
  BY ConstantFacts DEF Bound
<1>7. QED
  BY <1>2, <1>3, <1>4, <1>5, <1>6 DEF RoomInv

(***************************************************************************)
(* The argument for the bound, one step per action of the event loop.      *)
(***************************************************************************)
LEMMA RoomStep == IInv /\ [Next]_vars => RoomInv'
<1> SUFFICES ASSUME IInv, [Next]_vars PROVE RoomInv'
  OBVIOUS
<1> USE ConstantFacts DEF LoopGoto
<1>0. TypeOK /\ RoomInv /\ AgeInv /\ Live \subseteq Keys /\ Size \in Nat
  BY KeySets DEF IInv, TypeOK, Size
<1>1. ASSUME NEW k \in Keys, ProcessEvent(k) PROVE RoomInv'
  BY <1>0, <1>1 DEF ProcessEvent, RoomInv, Size, Live
<1>2. CASE UpdateHit
  <2>1. Live' = Live
    BY <1>0, <1>2, TouchFacts DEF UpdateHit, Live, TypeOK
  <2>2. QED
    BY <1>0, <1>2, <2>1 DEF UpdateHit, RoomInv, Size
<1>3. CASE LookupMiss
  BY <1>0, <1>3 DEF LookupMiss, RoomInv, Size, Live
<1>4. CASE HasRoom
  BY <1>0, <1>4, ConfigAssumption DEF HasRoom, RoomInv, Size, Live
<1>5. CASE TableFull
  <2>1. CandidateKeys' = {} /\ Live' = Live /\ loopPc' = "scan" /\ loopCursor' = 0
    BY <1>0, <1>5 DEF TableFull, AgeInv, CandidateKeys, Live
  <2>2. Live \cup {} = Live
    OBVIOUS
  <2>3. \A k \in Live : k > 0
    BY <1>0, NumKeysAssumption DEF Keys
  <2>4. QED
    BY <1>0, <2>1, <2>2, <2>3 DEF RoomInv, Size
<1>6. CASE ScanVisit
  <2>1. Live' = Live /\ loopPc' = "scan"
    BY <1>6 DEF ScanVisit, Live
  <2>2. CandidateKeys' = CandidateKeys \cup (Live \cap {loopCursor'})
    <3> DEFINE new == {[key |-> k, last_seen |-> flows[k].last_seen] : k \in Live \cap {loopCursor'}}
    <3>1. candidates' = candidates \cup new
      BY <1>6 DEF ScanVisit
    <3>2. \A c \in new : c.key \in Live \cap {loopCursor'}
      OBVIOUS
    <3>3. \A k \in Live \cap {loopCursor'} : \E c \in new : c.key = k
      <4>1. TAKE k \in Live \cap {loopCursor'}
      <4>2. [key |-> k, last_seen |-> flows[k].last_seen] \in new
        OBVIOUS
      <4>3. QED
        BY <4>2
    <3> HIDE DEF new
    <3>4. CandidateKeys' = {c.key : c \in candidates'}
      BY DEF CandidateKeys
    <3>5. QED
      BY <3>1, <3>2, <3>3, <3>4 DEF CandidateKeys
  <2>3. Live \cup CandidateKeys' = Live \cup CandidateKeys
    BY <2>2
  <2>4. \A k \in Live : k > loopCursor' \/ k \in CandidateKeys'
    <3>1. TAKE k \in Live
    <3>2. k \in Int /\ loopCursor \in Int /\ loopCursor' = loopCursor + 1
      BY <1>0, <1>6, NumKeysAssumption DEF ScanVisit, Keys, TypeOK
    <3>3. k > loopCursor \/ k \in CandidateKeys
      BY <1>0, <1>6 DEF ScanVisit, RoomInv
    <3>4. QED
      BY <3>2, <3>3, <2>2
  <2>5. Cardinality(Live \cup CandidateKeys) <= Bound /\ Size <= Bound
    BY <1>0, <1>6 DEF ScanVisit, RoomInv
  <2>6. QED
    BY <2>1, <2>3, <2>4, <2>5 DEF RoomInv, Size
<1>7. CASE TakeOldest
  <2>1. PICK S \in SUBSET candidates :
          /\ Cardinality(S) = EvictCount \/ S = candidates
          /\ victims' = S
    BY <1>7 DEF TakeOldest
  <2>2. Live' = Live /\ loopPc' = "evict" /\ VictimKeys' = {v.key : v \in S}
    BY <1>7, <2>1 DEF TakeOldest, Live, VictimKeys
  <2>3. Live \subseteq CandidateKeys
    BY <1>0, <1>7, NumKeysAssumption DEF TakeOldest, RoomInv, Keys
  <2>4. Cardinality(Live \ VictimKeys') < Bound
    <3>1. CASE S = {}
      <4>1. S = candidates
        BY <2>1, <3>1, FS_EmptySet
      <4>2. Live \ VictimKeys' = {}
        BY <2>3, <3>1, <4>1 DEF CandidateKeys
      <4>3. QED
        BY <4>2, FS_EmptySet
    <3>2. CASE S # {}
      <4>1. PICK v \in S : TRUE
        BY <3>2
      <4>2. v.key \in CandidateKeys /\ v.key \in VictimKeys'
        BY <2>1, <2>2 DEF CandidateKeys
      <4>3. /\ Live \ VictimKeys' \subseteq CandidateKeys \cup Live
            /\ Live \ VictimKeys' # Live \cup CandidateKeys
            /\ Live \cup CandidateKeys \subseteq Keys
        BY <1>0, <4>2 DEF CandidateKeys, Candidate, TypeOK
      <4>4. Cardinality(Live \cup CandidateKeys) <= Bound
        BY <1>0, <1>7 DEF TakeOldest, RoomInv
      <4>5. /\ Cardinality(Live \ VictimKeys') \in Nat
            /\ Cardinality(Live \cup CandidateKeys) \in Nat
            /\ Cardinality(Live \ VictimKeys') < Cardinality(Live \cup CandidateKeys)
        BY <4>3, KeySets
      <4>6. QED
        BY <4>4, <4>5
    <3>3. QED
      BY <3>1, <3>2
  <2>5. QED
    BY <1>0, <2>2, <2>4 DEF RoomInv, Size
<1>8. CASE EvictNext
  <2>1. PICK v \in victims :
          /\ victims' = victims \ {v}
          /\ \/ v.key \in Live /\ Remove(v.key)
             \/ v.key \notin Live /\ flows' = flows
    BY <1>8 DEF EvictNext
  <2>2. Live' = Live \ {v.key}
    <3>1. CASE v.key \in Live
      BY <1>0, <2>1, <3>1, RemoveFacts
    <3>2. CASE v.key \notin Live
      BY <2>1, <3>2 DEF Live
    <3>3. QED
      BY <3>1, <3>2
  <2>3. Live' \ VictimKeys' \subseteq Live \ VictimKeys
    <3>1. \A w \in victims : w = v \/ w \in victims'
      BY <2>1
    <3>2. \A j \in VictimKeys : j = v.key \/ j \in VictimKeys'
      BY <3>1 DEF VictimKeys
    <3>3. QED
      BY <2>2, <3>2
  <2>4. /\ Cardinality(Live' \ VictimKeys') \in Nat /\ Cardinality(Live \ VictimKeys) \in Nat
        /\ Cardinality(Live' \ VictimKeys') <= Cardinality(Live \ VictimKeys)
    BY <1>0, <2>3, KeySets
  <2>5. Size' \in Nat /\ Size' <= Size
    BY <1>0, <2>2, KeySets DEF Size
  <2>6. loopPc = "evict" /\ loopPc' = "evict"
    BY <1>8 DEF EvictNext
  <2>7. QED
    BY <1>0, <2>4, <2>5, <2>6 DEF RoomInv
<1>9. CASE CountEvictions
  <2>1. Live' = Live /\ loopPc = "evict" /\ loopPc' = "insert" /\ VictimKeys = {}
    BY <1>9 DEF CountEvictions, Live, VictimKeys
  <2>2. Live \ {} = Live
    OBVIOUS
  <2>3. QED
    BY <1>0, <2>1, <2>2 DEF RoomInv, Size
<1>10. CASE Insert
  <2>1. loopKey \in Keys
    BY <1>0, <1>10 DEF Insert, TypeOK
  <2>2. Live' = Live \cup {loopKey}
    BY <1>0, <1>10, <2>1, TouchFacts DEF Insert, Live
  <2>3. Size' <= Size + 1
    BY <1>0, <2>1, <2>2, OneMoreKey DEF Size
  <2>4. Size' \in Nat
    <3>1. Live' \subseteq Keys
      BY <1>0, <2>1, <2>2
    <3>2. QED
      BY <3>1, KeySets DEF Size
  <2>5. QED
    BY <1>0, <1>10, <2>3, <2>4 DEF Insert, RoomInv
<1>11. CASE CheckHigh \/ RaiseFlag
  BY <1>0, <1>11 DEF CheckHigh, RaiseFlag, RoomInv, Size, Live
<1>12. CASE RetainVisit
  <2>1. Live' \subseteq Live
    <3>1. CASE sweepCursor' \in Live /\ Remove(sweepCursor')
      BY <1>0, <3>1, RemoveFacts
    <3>2. CASE flows' = flows
      BY <3>2 DEF Live
    <3>3. QED
      BY <1>12, <3>1, <3>2 DEF RetainVisit
  <2>2. UNCHANGED <<loopPc, loopCursor, candidates, victims>>
    BY <1>12 DEF RetainVisit, SweepGoto, loopVars
  <2>3. QED
    BY <1>0, <2>1, <2>2, RoomShrinks
<1>13. CASE \/ StartSweep \/ LenVisit \/ LenBefore \/ RetainDone \/ LenAfter
            \/ CheckLow \/ ClearFlag \/ Tick \/ UNCHANGED vars
  <2>1. UNCHANGED <<flows, loopPc, loopCursor, candidates, victims>>
    BY <1>13 DEF StartSweep, LenVisit, LenBefore, RetainDone, LenAfter, CheckLow,
                 ClearFlag, Tick, vars, SweepGoto, loopVars
  <2>2. QED
    BY <1>0, <2>1, RoomUnchanged
<1>14. QED
  BY <1>1, <1>2, <1>3, <1>4, <1>5, <1>6, <1>7, <1>8, <1>9, <1>10, <1>11, <1>12, <1>13
     DEF Next, LoopStep, SweepStep

(***************************************************************************)
(* Steps that leave the eviction alone, change no surviving flow, and do   *)
(* not turn the clock back.                                                *)
(***************************************************************************)
LEMMA AgeShrinks ==
    ASSUME TypeOK, AgeInv, now' \in Nat, now' >= now, Live' \subseteq Live,
           \A j \in Live' : flows'[j] = flows[j],
           UNCHANGED <<loopPc, loopCursor, candidates, victims, evicted>>,
           sweepPc' # "idle" => cutoff' + FlowTimeout <= now'
    PROVE  AgeInv'
<1>1. \A j \in Live : flows[j].last_seen \in Nat
  BY DEF TypeOK, Flow
<1>2. VictimKeys' = VictimKeys
  BY DEF VictimKeys
<1>3. \A k \in Live' : flows'[k].last_seen <= now'
  BY <1>1 DEF AgeInv, TypeOK
<1>4. \A c \in candidates' \cup victims' :
        c.key \in Live' => c.last_seen = flows'[c.key].last_seen
  BY DEF AgeInv
<1>5. \A v \in victims', j \in Live' : j \in VictimKeys' \/ v.last_seen <= flows'[j].last_seen
  BY <1>2 DEF AgeInv
<1>6. QED
  BY <1>3, <1>4, <1>5 DEF AgeInv

(***************************************************************************)
(* What the locals of both tasks say about ages stays true.                *)
(***************************************************************************)
LEMMA AgeStep == IInv /\ [Next]_vars => AgeInv'
<1> SUFFICES ASSUME IInv, [Next]_vars PROVE AgeInv'
  OBVIOUS
<1> USE DEF LoopGoto
<1>0. TypeOK /\ AgeInv /\ Live \subseteq Keys /\ now \in Nat
  BY DEF IInv, TypeOK
<1>1. ASSUME NEW k \in Keys, ProcessEvent(k) PROVE AgeInv'
  BY <1>0, <1>1 DEF ProcessEvent, AgeInv, Live, VictimKeys, sweepVars
<1>2. CASE UpdateHit \/ Insert
  <2>1. loopKey \in Keys /\ flows' = Touch(flows, loopKey, now)
    BY <1>0, <1>2 DEF UpdateHit, Insert, TypeOK
  <2>2. /\ Live' = Live \cup {loopKey} /\ flows'[loopKey].last_seen = now
        /\ \A j \in Live : j # loopKey => flows'[j] = flows[j]
    BY <1>0, <2>1, TouchFacts DEF Live
  <2>3. \A k \in Live' : flows'[k].last_seen <= now
    BY <1>0, <2>2 DEF AgeInv
  <2>4. /\ candidates' = {} /\ victims' = {} /\ evicted' = 0 /\ loopCursor' = 0
        /\ loopPc' = "watermark" /\ UNCHANGED <<now, sweepVars>>
    BY <1>0, <1>2 DEF UpdateHit, Insert, AgeInv
  <2>5. QED
    BY <1>0, <2>3, <2>4 DEF AgeInv, sweepVars
<1>3. CASE LookupMiss \/ HasRoom \/ TableFull \/ CheckHigh \/ RaiseFlag
  BY <1>0, <1>3 DEF LookupMiss, HasRoom, TableFull, CheckHigh, RaiseFlag,
                    AgeInv, Live, VictimKeys, sweepVars
<1>4. CASE ScanVisit
  <2>1. /\ candidates' = candidates \cup
             {[key |-> k, last_seen |-> flows[k].last_seen] : k \in Live \cap {loopCursor'}}
        /\ UNCHANGED <<flows, now, victims, evicted, sweepVars>>
        /\ loopPc = "scan" /\ loopPc' = "scan" /\ Live' = Live
    BY <1>4 DEF ScanVisit, Live
  <2>2. \A c \in candidates' : c.key \in Live => c.last_seen = flows[c.key].last_seen
    BY <1>0, <2>1 DEF AgeInv
  <2>3. victims' = {} /\ evicted' = 0
    BY <1>0, <2>1 DEF AgeInv
  <2>4. QED
    BY <1>0, <2>1, <2>2, <2>3 DEF AgeInv, sweepVars
<1>5. CASE TakeOldest
  <2>1. PICK S \in SUBSET candidates :
          /\ \A s \in S, r \in candidates \ S : s.last_seen <= r.last_seen
          /\ victims' = S
    BY <1>5 DEF TakeOldest
  <2>2. /\ candidates' = {} /\ loopCursor' = 0 /\ loopPc = "scan" /\ loopPc' = "evict"
        /\ loopCursor = NumKeys
        /\ UNCHANGED <<flows, now, evicted, sweepVars>> /\ Live' = Live
    BY <1>5 DEF TakeOldest, Live
  <2>3. \A v \in victims', j \in Live : j \in VictimKeys' \/ v.last_seen <= flows[j].last_seen
    <3>1. TAKE v \in victims', j \in Live
    <3>2. PICK c \in candidates : c.key = j
      <4>1. j \in CandidateKeys
        BY <1>0, <2>2, NumKeysAssumption DEF IInv, RoomInv, Keys
      <4>2. QED
        BY <4>1 DEF CandidateKeys
    <3>3. c.last_seen = flows[j].last_seen
      BY <1>0, <3>2 DEF AgeInv
    <3>4. c \in victims' => j \in VictimKeys'
      BY <3>2 DEF VictimKeys
    <3>5. QED
      BY <2>1, <3>2, <3>3, <3>4
  <2>4. \A c \in victims' : c.key \in Live => c.last_seen = flows[c.key].last_seen
    BY <1>0, <2>1 DEF AgeInv
  <2>5. QED
    BY <1>0, <2>2, <2>3, <2>4 DEF AgeInv, sweepVars
<1>6. CASE EvictNext
  <2>1. PICK v \in victims :
          /\ victims' = victims \ {v}
          /\ \/ v.key \in Live /\ Remove(v.key)
             \/ v.key \notin Live /\ flows' = flows
    BY <1>6 DEF EvictNext
  <2>2. Live' = Live \ {v.key} /\ \A j \in Live' : flows'[j] = flows[j]
    <3>1. CASE v.key \in Live
      BY <1>0, <2>1, <3>1, RemoveFacts
    <3>2. CASE v.key \notin Live
      BY <2>1, <3>2 DEF Live
    <3>3. QED
      BY <3>1, <3>2
  <2>3. /\ UNCHANGED <<now, candidates, loopCursor, sweepVars>>
        /\ loopPc = "evict" /\ loopPc' = "evict"
    BY <1>6 DEF EvictNext
  <2>4. \A w \in victims', j \in Live' : j \in VictimKeys' \/ w.last_seen <= flows'[j].last_seen
    <3>1. \A w \in victims : w = v \/ w \in victims'
      BY <2>1
    <3>2. \A j \in VictimKeys : j = v.key \/ j \in VictimKeys'
      BY <3>1 DEF VictimKeys
    <3>3. QED
      BY <1>0, <2>1, <2>2, <3>2 DEF AgeInv
  <2>5. \A c \in candidates' \cup victims' :
          c.key \in Live' => c.last_seen = flows'[c.key].last_seen
    BY <1>0, <2>1, <2>2, <2>3 DEF AgeInv
  <2>6. \A k \in Live' : flows'[k].last_seen <= now'
    BY <1>0, <2>2, <2>3 DEF AgeInv
  <2>7. QED
    BY <1>0, <2>3, <2>4, <2>5, <2>6 DEF AgeInv, sweepVars
<1>7. CASE CountEvictions
  BY <1>0, <1>7 DEF CountEvictions, AgeInv, Live, VictimKeys, sweepVars
<1>8. CASE StartSweep
  BY <1>0, <1>8, ConfigAssumption, AgeShrinks DEF StartSweep, loopVars, Live
<1>9. CASE RetainVisit
  <2>1. Live' \subseteq Live /\ \A j \in Live' : flows'[j] = flows[j]
    <3>1. CASE sweepCursor' \in Live /\ Remove(sweepCursor')
      BY <1>0, <3>1, RemoveFacts
    <3>2. CASE flows' = flows
      BY <3>2 DEF Live
    <3>3. QED
      BY <1>9, <3>1, <3>2 DEF RetainVisit
  <2>2. /\ UNCHANGED <<now, loopPc, loopCursor, candidates, victims, evicted, cutoff>>
        /\ sweepPc = "retain"
    BY <1>9 DEF RetainVisit, SweepGoto, loopVars
  <2>3. QED
    BY <1>0, <2>1, <2>2, AgeShrinks DEF AgeInv
<1>10. CASE \/ LenVisit \/ LenBefore \/ RetainDone \/ LenAfter
            \/ CheckLow \/ ClearFlag \/ UNCHANGED vars
  <2>1. /\ UNCHANGED <<flows, now, loopPc, loopCursor, candidates, victims, evicted, cutoff>>
        /\ sweepPc' # "idle" => sweepPc # "idle"
    BY <1>10 DEF LenVisit, LenBefore, RetainDone, LenAfter, CheckLow,
                 ClearFlag, vars, SweepGoto, loopVars, sweepVars
  <2>2. QED
    BY <1>0, <2>1, AgeShrinks DEF AgeInv, Live
<1>11. CASE Tick
  <2>1. now' = now + 1 /\ UNCHANGED <<flows, loopVars, sweepVars>>
    BY <1>11 DEF Tick
  <2>2. sweepPc' # "idle" => cutoff' + FlowTimeout <= now'
    BY <1>0, <2>1, ConfigAssumption DEF AgeInv, TypeOK, sweepVars
  <2>3. QED
    BY <1>0, <2>1, <2>2, AgeShrinks DEF loopVars, Live
<1>12. QED
  BY <1>1, <1>2, <1>3, <1>4, <1>5, <1>6, <1>7, <1>8, <1>9, <1>10, <1>11
     DEF Next, LoopStep, SweepStep

(***************************************************************************)
(* The inductive invariant holds: what the event loop and the expiration   *)
(* task read of the table, an entry at a time, is still true as far as     *)
(* they rely on it when they act on it.                                    *)
(***************************************************************************)
THEOREM Inductive == Spec => []IInv
<1>1. IInv /\ [Next]_vars => IInv'
  BY TypeStep, RoomStep, AgeStep DEF IInv
<1>2. QED
  BY InitIInv, <1>1, PTL DEF Spec

(***************************************************************************)
(* Types of the table and of the locals of process_event and               *)
(* expire_old_flows, for every configuration.                              *)
(***************************************************************************)
THEOREM TypeCorrect == Spec => []TypeOK
<1>1. IInv => TypeOK
  BY DEF IInv
<1>2. QED
  BY Inductive, <1>1, PTL

(***************************************************************************)
(* process_event and expire_old_flows together never let the table grow    *)
(* past max_flows (past one flow, if max_flows is 0).                      *)
(***************************************************************************)
THEOREM BoundKept == Spec => []TableBounded
<1>1. IInv => TableBounded
  BY DEF IInv, RoomInv, TableBounded
<1>2. QED
  BY Inductive, <1>1, PTL

(***************************************************************************)
(* The flow table starts as the ledger does ...                            *)
(***************************************************************************)
LEMMA LedgerInit == Init => Ledger!Init
<1> SUFFICES ASSUME Init PROVE Ledger!Init
  OBVIOUS
<1>1. flows = [k \in {} |-> [packets |-> 0, last_seen |-> 0]]
  BY DEF Init, NoFlows
<1>2. now = 0 /\ Recorded = 0 /\ retired = 0 /\ flowEvictions + evicted = 0
  <2>1. InFlight = 0
    BY DEF Init, InFlight
  <2>2. QED
    BY <2>1 DEF Init, Recorded
<1>3. QED
  BY <1>1, <1>2 DEF Ledger!Init

(***************************************************************************)
(* ... and each of its steps is a step of the ledger or leaves it alone.   *)
(***************************************************************************)
LEMMA LedgerForget ==
    ASSUME NEW k \in Live, Remove(k), UNCHANGED <<now, eventsProcessed, InFlight>>
    PROVE  Ledger!Forget(k)
  BY DEF Remove, Ledger!Forget, Ledger!Without, Live, Recorded

LEMMA LedgerStutter ==
    ASSUME UNCHANGED <<flows, now, retired, eventsProcessed, InFlight,
                       flowEvictions, evicted>>
    PROVE  UNCHANGED Ledger!vars
  BY DEF Ledger!vars, Recorded

LEMMA LedgerStep == IInv /\ [Next]_vars => [Ledger!Next]_(Ledger!vars)
<1> SUFFICES ASSUME IInv, [Next]_vars
             PROVE  Ledger!Next \/ UNCHANGED Ledger!vars
  OBVIOUS
<1> USE DEF LoopGoto, SweepGoto, loopVars, sweepVars
<1>0. TypeOK /\ RoomInv /\ AgeInv
  BY DEF IInv
<1>1. ASSUME NEW k \in Keys, ProcessEvent(k) PROVE UNCHANGED Ledger!vars
  <2>1. eventsProcessed' = eventsProcessed + 1 /\ InFlight = 0 /\ InFlight' = 1
    BY <1>1 DEF ProcessEvent, InFlight
  <2>2. Recorded' = Recorded
    BY <1>0, <2>1 DEF Recorded, TypeOK
  <2>3. QED
    BY <1>1, <2>2 DEF ProcessEvent, Ledger!vars
<1>2. ASSUME UpdateHit \/ Insert PROVE Ledger!Next
  <2>1. loopKey \in Keys /\ flows' = Touch(flows, loopKey, now)
    BY <1>0, <1>2 DEF UpdateHit, Insert, TypeOK
  <2>2. loopKey \in Live \/ Cardinality(Live) < Bound
    BY <1>0, <1>2 DEF UpdateHit, Insert, RoomInv, Size
  <2>3. InFlight = 1 /\ InFlight' = 0 /\ eventsProcessed' = eventsProcessed
    BY <1>2 DEF UpdateHit, Insert, InFlight
  <2>4. Recorded' = Recorded + 1
    BY <1>0, <2>3 DEF Recorded, TypeOK
  <2>5. UNCHANGED <<now, retired, flowEvictions, evicted>>
    BY <1>2 DEF UpdateHit, Insert
  <2>6. Ledger!Touch(flows, loopKey, now) = Touch(flows, loopKey, now)
    BY DEF Ledger!Touch, Touch
  <2>7. Ledger!Cardinality(Live) = Cardinality(Live)
    BY Zenon DEF Ledger!Cardinality, Cardinality
  <2>8. Ledger!Record(loopKey)
    BY <2>1, <2>2, <2>4, <2>5, <2>6, <2>7 DEF Ledger!Record, Live
  <2>9. QED
    BY <2>1, <2>8 DEF Ledger!Next
<1>3. CASE \/ LookupMiss \/ HasRoom \/ TableFull \/ ScanVisit \/ TakeOldest
           \/ CheckHigh \/ RaiseFlag
  BY <1>3, LedgerStutter DEF LookupMiss, HasRoom, TableFull, ScanVisit, TakeOldest,
                             CheckHigh, RaiseFlag, InFlight
<1>4. CASE EvictNext
  <2>1. PICK v \in victims :
          /\ \A w \in victims : v.last_seen <= w.last_seen
          /\ \/ v.key \in Live /\ Remove(v.key) /\ evicted' = evicted + 1
             \/ v.key \notin Live /\ UNCHANGED <<flows, retired, evicted>>
    BY <1>4 DEF EvictNext
  <2>2. /\ UNCHANGED <<now, eventsProcessed, flowEvictions>>
        /\ InFlight' = InFlight
    BY <1>4 DEF EvictNext, InFlight
  <2>3. ASSUME v.key \in Live, Remove(v.key), evicted' = evicted + 1
        PROVE  Ledger!Next
    <3>1. \A j \in Live : flows[v.key].last_seen <= flows[j].last_seen
      <4>1. TAKE j \in Live
      <4>2. flows[v.key].last_seen = v.last_seen
        BY <1>0, <2>3 DEF AgeInv
      <4>3. CASE j \in VictimKeys
        <5>1. PICK w \in victims : w.key = j
          BY <4>3 DEF VictimKeys
        <5>2. w.last_seen = flows[j].last_seen
          BY <1>0, <5>1 DEF AgeInv
        <5>3. QED
          BY <2>1, <4>2, <5>1, <5>2
      <4>4. CASE j \notin VictimKeys
        BY <1>0, <4>2, <4>4 DEF AgeInv
      <4>5. QED
        BY <4>3, <4>4
    <3>2. Ledger!Forget(v.key)
      BY <2>2, <2>3, LedgerForget
    <3>3. flowEvictions' + evicted' = (flowEvictions + evicted) + 1
      BY <1>0, <2>2, <2>3 DEF TypeOK
    <3>4. v.key \in Keys
      BY <1>0, <2>3 DEF TypeOK
    <3>5. QED
      BY <2>3, <3>1, <3>2, <3>3, <3>4 DEF Ledger!Evict, Ledger!Next, Live
  <2>4. CASE UNCHANGED <<flows, retired, evicted>>
    BY <2>2, <2>4, LedgerStutter
  <2>5. QED
    BY <2>1, <2>3, <2>4
<1>5. CASE CountEvictions
  <2>1. flowEvictions' + evicted' = flowEvictions + evicted
    BY <1>0, <1>5 DEF CountEvictions, TypeOK
  <2>2. InFlight' = InFlight
    BY <1>5 DEF CountEvictions, InFlight
  <2>3. QED
    BY <1>5, <2>1, <2>2 DEF CountEvictions, Ledger!vars, Recorded
<1>6. CASE RetainVisit
  <2> DEFINE k == sweepCursor'
  <2>1. /\ UNCHANGED <<now, eventsProcessed, flowEvictions, evicted, cutoff>>
        /\ InFlight' = InFlight
    BY <1>6 DEF RetainVisit, InFlight
  <2>2. ASSUME k \in Live, flows[k].last_seen <= cutoff, Remove(k)
        PROVE  Ledger!Next
    <3>1. cutoff + FlowTimeout <= now
      BY <1>0, <1>6 DEF RetainVisit, AgeInv
    <3>2. flows[k].last_seen \in Nat /\ k \in Keys
      BY <1>0, <2>2 DEF TypeOK, Flow
    <3>3. flows[k].last_seen + FlowTimeout <= now
      BY <1>0, <2>2, <3>1, <3>2, ConfigAssumption DEF TypeOK
    <3>4. Ledger!Forget(k)
      BY <2>1, <2>2, LedgerForget
    <3>5. QED
      BY <2>1, <2>2, <3>2, <3>3, <3>4 DEF Ledger!Expire, Ledger!Next, Live
  <2>3. CASE UNCHANGED <<flows, retired>>
    BY <2>1, <2>3, LedgerStutter
  <2>4. QED
    BY <1>6, <2>2, <2>3 DEF RetainVisit
<1>7. CASE \/ StartSweep \/ LenVisit \/ LenBefore \/ RetainDone \/ LenAfter
           \/ CheckLow \/ ClearFlag \/ UNCHANGED vars
  BY <1>7, LedgerStutter DEF StartSweep, LenVisit, LenBefore, RetainDone, LenAfter,
                             CheckLow, ClearFlag, vars, InFlight
<1>8. CASE Tick
  BY <1>8 DEF Tick, Ledger!Tick, Ledger!Next, Recorded, InFlight
<1>9. QED
  BY <1>1, <1>2, <1>3, <1>4, <1>5, <1>6, <1>7, <1>8 DEF Next, LoopStep, SweepStep

(***************************************************************************)
(* The flow table implements the ledger: process_event and                 *)
(* expire_old_flows, interleaved entry by entry, evict only the flow least *)
(* recently seen, expire only idle flows, book every packet once and count *)
(* every eviction.                                                         *)
(***************************************************************************)
THEOREM LedgerImplemented == Spec => ImplementsLedger
  BY LedgerInit, LedgerStep, Inductive, PTL DEF Spec, Ledger!Spec, ImplementsLedger
-----------------------------------------------------------------------------
(***************************************************************************)
(* Sums over finite sets.  MapThenSumSet takes the elements one by one, in *)
(* an order of CHOOSE's; the sum does not depend on it.  Both that the     *)
(* recursion defines a function and that order does not matter is shown by *)
(* a least counterexample.                                                 *)
(***************************************************************************)
Pick(s) == CHOOSE x \in s : TRUE
SumStep(g, w, s) == IF s = {} THEN 0 ELSE w[Pick(s)] + g[s \ {Pick(s)}]
Sums(g, w, S) == g = [s \in SUBSET S |-> SumStep(g, w, s)]

LEMMA PickIn == \A s : s # {} => Pick(s) \in s
  BY DEF Pick

LEMMA LeastNat ==
    ASSUME NEW T \in SUBSET Nat, T # {}
    PROVE  \E m \in T : \A k \in T : m <= k
<1> DEFINE R == OpToRel(<, Nat)
<1>1. IsWellFoundedOn(R, Nat)
  BY NatLessThanWellFounded
<1>2. \A x, y \in Nat : <<x, y>> \in R <=> x < y
  BY DEF OpToRel
<1> HIDE DEF R
<1>3. PICK m \in T : \A y \in T : ~(<<y, m>> \in R)
  BY <1>1, WFMin
<1>4. \A k \in T : k \in Nat /\ m \in Nat /\ ~(k < m)
  BY <1>2, <1>3
<1>5. \A k \in T : m <= k
  BY <1>4
<1>6. QED
  BY <1>5

LEMMA LeastSet ==
    ASSUME NEW S, IsFiniteSet(S), NEW B \in SUBSET SUBSET S, B # {}
    PROVE  \E T \in B : \A W \in B : ~(W \subseteq T /\ W # T)
<1>1. B \subseteq FiniteSubsetsOf(S)
  BY FS_Subset DEF FiniteSubsetsOf
<1>2. IsWellFoundedOn(StrictSubsetOrdering(S), FiniteSubsetsOf(S))
  BY FS_StrictSubsetOrderingWellFounded
<1>3. PICK T \in B : \A W \in B : ~(<<W, T>> \in StrictSubsetOrdering(S))
  BY <1>1, <1>2, WFMin
<1>4. QED
  BY <1>3 DEF StrictSubsetOrdering

LEMMA SumsExist ==
    ASSUME NEW S, IsFiniteSet(S), NEW w
    PROVE  \E g : Sums(g, w, S)
<1> DEFINE Upto(n, g) == \A s \in SUBSET S : Cardinality(s) <= n => g[s] = SumStep(g, w, s)
           Unrolled(g) == [s \in SUBSET S |-> SumStep(g, w, s)]
<1>1. \A s \in SUBSET S : IsFiniteSet(s) /\ Cardinality(s) \in Nat /\ Cardinality(s) <= Cardinality(S)
  BY FS_Subset, FS_CardinalityType
<1>2. \A s \in SUBSET S : s # {} =>
         /\ s \ {Pick(s)} \in SUBSET S
         /\ Cardinality(s \ {Pick(s)}) = Cardinality(s) - 1
  BY <1>1, PickIn, FS_RemoveElement
<1>3. \A s \in SUBSET S : Cardinality(s) = 0 <=> s = {}
  BY <1>1, FS_EmptySet
<1>4. ASSUME NEW n \in Nat, NEW g, Upto(n, g) PROVE Upto(n + 1, Unrolled(g))
  <2> SUFFICES ASSUME NEW s \in SUBSET S, Cardinality(s) <= n + 1
               PROVE  Unrolled(g)[s] = SumStep(Unrolled(g), w, s)
    OBVIOUS
  <2>1. CASE s = {}
    BY <2>1 DEF SumStep
  <2>2. CASE s # {}
    <3>1. PICK t \in SUBSET S : t = s \ {Pick(s)} /\ Cardinality(t) <= n
      <4> HIDE DEF Unrolled, Upto
      <4>1. Cardinality(s) \in Nat /\ Cardinality(s \ {Pick(s)}) = Cardinality(s) - 1
        BY <1>1, <1>2, <2>2
      <4>2. Cardinality(s \ {Pick(s)}) <= n
        BY <4>1
      <4>3. QED
        BY <1>2, <2>2, <4>2
    <3>2. Unrolled(g)[t] = g[t]
      BY <1>4, <3>1
    <3>3. QED
      BY <2>2, <3>1, <3>2 DEF SumStep
  <2>3. QED
    BY <2>1, <2>2
<1>5. Upto(0, [s \in SUBSET S |-> 0])
  BY <1>1, <1>3 DEF SumStep
<1> DEFINE Bad == {n \in Nat : ~ \E g : Upto(n, g)}
<1>6. Bad = {}
  <2> HIDE DEF Upto, Unrolled
  <2> SUFFICES ASSUME Bad # {} PROVE FALSE
    OBVIOUS
  <2>1. PICK m \in Bad : \A k \in Bad : m <= k
    <3> HIDE DEF Bad
    <3> Bad \in SUBSET Nat
      BY DEF Bad
    <3> QED
      BY LeastNat
  <2>2. m \in Nat /\ m # 0
    BY <1>5
  <2>3. m - 1 \in Nat /\ m - 1 \notin Bad /\ (m - 1) + 1 = m
    BY <2>1, <2>2
  <2>4. PICK g : Upto(m - 1, g)
    BY <2>3
  <2>5. Upto(m, Unrolled(g))
    BY <1>4, <2>3, <2>4
  <2>6. QED
    BY <2>1, <2>5
<1>7. PICK g : Upto(Cardinality(S), g)
  <2> HIDE DEF Upto
  <2>1. Cardinality(S) \in Nat
    BY FS_CardinalityType
  <2>2. QED
    BY <1>6, <2>1
<1>8. Sums(Unrolled(g), w, S)
  <2>1. \A s \in SUBSET S : Unrolled(g)[s] = g[s]
    BY <1>1, <1>7
  <2>2. \A s \in SUBSET S : SumStep(Unrolled(g), w, s) = SumStep(g, w, s)
    BY <1>2, <2>1 DEF SumStep
  <2>3. QED
    BY <2>2 DEF Sums
<1>9. QED
  BY <1>8

\* What a sum is, whatever the order.
Adds(g, w, S) ==
    /\ g \in [SUBSET S -> Nat] /\ g[{}] = 0
    /\ \A T \in SUBSET S : \A x \in T : g[T] = w[x] + g[T \ {x}]

LEMMA SumsAdd ==
    ASSUME NEW S, IsFiniteSet(S), NEW w \in [S -> Nat], NEW g, Sums(g, w, S)
    PROVE  Adds(g, w, S)
<1>1. \A s \in SUBSET S : s # {} => /\ g[s] = w[Pick(s)] + g[s \ {Pick(s)}]
                                   /\ Pick(s) \in s /\ w[Pick(s)] \in Nat
  BY PickIn DEF Sums, SumStep
<1>2. g[{}] = 0
  BY DEF Sums, SumStep
<1>3. \A s \in SUBSET S : g[s] \in Nat
  <2> DEFINE Bad == {s \in SUBSET S : g[s] \notin Nat}
  <2> SUFFICES ASSUME Bad # {} PROVE FALSE
    OBVIOUS
  <2>1. PICK T \in Bad : \A W \in Bad : ~(W \subseteq T /\ W # T)
    <3> HIDE DEF Bad
    <3> Bad \in SUBSET SUBSET S
      BY DEF Bad
    <3> QED
      BY LeastSet
  <2>2. T # {}
    BY <1>2
  <2>3. T \ {Pick(T)} \notin Bad
    BY <1>1, <2>1, <2>2
  <2>4. T \in SUBSET S /\ g[T] \notin Nat /\ g[T \ {Pick(T)}] \in Nat
    BY <2>3
  <2>5. g[T] = w[Pick(T)] + g[T \ {Pick(T)}] /\ w[Pick(T)] \in Nat
    BY <1>1, <2>2, <2>4
  <2>6. QED
    BY <2>4, <2>5
<1>4. \A T \in SUBSET S : \A x \in T : g[T] = w[x] + g[T \ {x}]
  <2> DEFINE Bad == {T \in SUBSET S : \E x \in T : g[T] # w[x] + g[T \ {x}]}
  <2> SUFFICES ASSUME Bad # {} PROVE FALSE
    OBVIOUS
  <2>1. PICK T \in Bad : \A W \in Bad : ~(W \subseteq T /\ W # T)
    <3> HIDE DEF Bad
    <3> Bad \in SUBSET SUBSET S
      BY DEF Bad
    <3> QED
      BY LeastSet
  <2>2. PICK x \in T : g[T] # w[x] + g[T \ {x}]
    OBVIOUS
  <2>3. PICK p \in T : p = Pick(T) /\ g[T] = w[p] + g[T \ {p}]
    BY <1>1, <2>2
  <2>4. p # x
    BY <2>2, <2>3
  <2>5. T \ {p} \notin Bad /\ T \ {x} \notin Bad
    BY <2>1, <2>2, <2>3
  <2>6. g[T \ {p}] = w[x] + g[(T \ {p}) \ {x}]
    BY <2>4, <2>5
  <2>7. g[T \ {x}] = w[p] + g[(T \ {x}) \ {p}]
    BY <2>4, <2>5
  <2>8. (T \ {p}) \ {x} = (T \ {x}) \ {p}
    OBVIOUS
  <2>9. w[x] \in Nat /\ w[p] \in Nat /\ (T \ {x}) \ {p} \in SUBSET S
    OBVIOUS
  <2>10. g[(T \ {x}) \ {p}] \in Nat
    BY <1>3, <2>9
  <2> HIDE DEF Bad
  <2>11. g[T] = w[p] + (w[x] + g[(T \ {x}) \ {p}])
    BY <2>3, <2>6, <2>8
  <2>12. QED
    BY <2>2, <2>7, <2>9, <2>10, <2>11
<1>5. g \in [SUBSET S -> Nat]
  BY <1>3 DEF Sums
<1>6. QED
  BY <1>2, <1>4, <1>5 DEF Adds

LEMMA AddsAgree ==
    ASSUME NEW S, NEW g, NEW w, Adds(g, w, S), NEW R, NEW h, NEW v, Adds(h, v, R),
           NEW D \in SUBSET S, D \subseteq R, IsFiniteSet(D), \A x \in D : w[x] = v[x]
    PROVE  g[D] = h[D]
<1> DEFINE Bad == {T \in SUBSET D : g[T] # h[T]}
<1> SUFFICES ASSUME Bad # {} PROVE FALSE
  OBVIOUS
<1>1. PICK T \in Bad : \A W \in Bad : ~(W \subseteq T /\ W # T)
  <2> HIDE DEF Bad
  <2> Bad \in SUBSET SUBSET D
    BY DEF Bad
  <2> QED
    BY LeastSet
<1>2. T # {}
  BY DEF Adds
<1>3. PICK x \in T : TRUE
  BY <1>2
<1>4. T \ {x} \notin Bad
  BY <1>1, <1>3
<1>5. g[T \ {x}] = h[T \ {x}]
  BY <1>4
<1>6. g[T] = w[x] + g[T \ {x}] /\ h[T] = v[x] + h[T \ {x}]
  BY <1>3 DEF Adds
<1>7. QED
  BY <1>5, <1>6

(***************************************************************************)
(* The packets of the flows of a set.                                      *)
(***************************************************************************)
Total(f, D) == MapThenSumSet(LAMBDA k : f[k].packets, D)
Counted(f, D) == IsFiniteSet(D) /\ \A k \in D : f[k].packets \in Nat
PacketsOf(f, D) == [k \in D |-> f[k].packets]

LEMMA TotalAdds ==
    ASSUME NEW f, NEW D, Counted(f, D)
    PROVE  \E g : Adds(g, PacketsOf(f, D), D) /\ Total(f, D) = g[D]
<1> DEFINE w == PacketsOf(f, D)
<1> DEFINE it(g) == [s \in SUBSET D |-> IF s = {} THEN 0 ELSE f[Pick(s)].packets + g[s \ {Pick(s)}]]
<1>1. Total(f, D) = (CHOOSE h : h = it(h))[D]
  BY DEF Total, MapThenSumSet, MapThenFoldSet, Pick
<1>2. \A g : it(g) = [s \in SUBSET D |-> SumStep(g, w, s)]
  BY PickIn DEF SumStep, PacketsOf
<1>3. PICK g : g = it(g)
  <2> HIDE DEF it, w
  <2>1. PICK g : Sums(g, w, D)
    BY SumsExist DEF Counted
  <2>2. g = it(g)
    BY <1>2, <2>1 DEF Sums
  <2>3. QED
    BY <2>2
<1>4. PICK h : h = it(h) /\ Total(f, D) = h[D]
  <2> HIDE DEF it
  <2> QED
    BY <1>1, <1>3, Zenon
<1>5. Sums(h, w, D)
  BY <1>2, <1>4 DEF Sums
<1>6. w \in [D -> Nat]
  BY DEF PacketsOf, Counted
<1> HIDE DEF w
<1>7. QED
  BY <1>4, <1>5, <1>6, SumsAdd DEF Counted, w

LEMMA TotalSame ==
    ASSUME NEW f, NEW h, NEW D, Counted(f, D), \A k \in D : h[k].packets = f[k].packets
    PROVE  Total(h, D) = Total(f, D) /\ Total(f, D) \in Nat /\ Total(f, {}) = 0
<1>1. Counted(h, D) /\ Counted(f, {}) /\ IsFiniteSet(D)
  BY FS_EmptySet DEF Counted
<1>2. PICK g : Adds(g, PacketsOf(f, D), D) /\ Total(f, D) = g[D]
  BY TotalAdds
<1>3. PICK e : Adds(e, PacketsOf(h, D), D) /\ Total(h, D) = e[D]
  BY <1>1, TotalAdds
<1>4. PICK z : Adds(z, PacketsOf(f, {}), {}) /\ Total(f, {}) = z[{}]
  BY <1>1, TotalAdds
<1>5. \A k \in D : PacketsOf(f, D)[k] = PacketsOf(h, D)[k]
  BY DEF PacketsOf
<1>6. g[D] = e[D]
  BY <1>1, <1>2, <1>3, <1>5, AddsAgree
<1>7. g[D] \in Nat /\ z[{}] = 0
  BY <1>2, <1>4 DEF Adds
<1>8. QED
  BY <1>2, <1>3, <1>4, <1>6, <1>7

LEMMA TotalPoint ==
    ASSUME NEW f, NEW D, Counted(f, D), NEW x \in D
    PROVE  Total(f, D) = f[x].packets + Total(f, D \ {x})
<1>1. Counted(f, D \ {x}) /\ IsFiniteSet(D \ {x})
  BY FS_Subset DEF Counted
<1>2. PICK g : Adds(g, PacketsOf(f, D), D) /\ Total(f, D) = g[D]
  BY TotalAdds
<1>3. PICK h : Adds(h, PacketsOf(f, D \ {x}), D \ {x}) /\ Total(f, D \ {x}) = h[D \ {x}]
  BY <1>1, TotalAdds
<1>4. \A k \in D \ {x} : PacketsOf(f, D)[k] = PacketsOf(f, D \ {x})[k]
  BY DEF PacketsOf
<1>5. g[D \ {x}] = h[D \ {x}]
  <2>1. PICK E \in SUBSET D : E = D \ {x}
    OBVIOUS
  <2>2. IsFiniteSet(E) /\ Adds(h, PacketsOf(f, E), E) /\ E \subseteq E
        /\ \A k \in E : PacketsOf(f, D)[k] = PacketsOf(f, E)[k]
    BY <1>1, <1>3, <1>4, <2>1
  <2>3. g[E] = h[E]
    BY ONLY <1>2, <2>2, AddsAgree
  <2>4. QED
    BY <2>1, <2>3
<1>6. g[D] = f[x].packets + g[D \ {x}]
  BY <1>2 DEF Adds, PacketsOf
<1>7. QED
  BY <1>2, <1>3, <1>5, <1>6

(***************************************************************************)
(* PacketsConserved, with the sum by its name.                             *)
(***************************************************************************)
Booked == Recorded = Total(flows, Live) + retired

LEMMA BookedIsConserved == Booked <=> PacketsConserved
  BY DEF Booked, PacketsConserved, Total

LEMMA FlowsCounted ==
    ASSUME TypeOK
    PROVE  Counted(flows, Live) /\ Recorded \in Int /\ retired \in Nat
<1>1. IsFiniteSet(Live)
  BY KeysFinite, FS_Subset DEF TypeOK
<1>2. \A k \in Live : flows[k].packets \in Nat
  BY DEF TypeOK, Flow
<1>3. Recorded \in Int /\ retired \in Nat
  BY DEF TypeOK, Recorded, InFlight
<1>4. QED
  BY <1>1, <1>2, <1>3 DEF Counted

LEMMA NothingBooked ==
    ASSUME Booked, UNCHANGED <<flows, retired>>, Recorded' = Recorded
    PROVE  Booked'
  BY DEF Booked, Live

LEMMA TouchBooks ==
    ASSUME TypeOK, Booked, NEW k \in Keys, flows' = Touch(flows, k, now),
           UNCHANGED retired, Recorded' = Recorded + 1
    PROVE  Booked'
<1>1. Counted(flows, Live) /\ Recorded \in Int /\ retired \in Nat
  BY FlowsCounted
<1>2. PICK f, g, D, E : f = flows /\ g = flows' /\ D = Live /\ E = D \cup {k}
  OBVIOUS
<1>3. Counted(f, D) /\ DOMAIN g = E /\ Recorded = Total(f, D) + retired
  BY <1>1, <1>2 DEF Booked, Touch, Live
<1>4. /\ \A j \in E \ {k} : j \in D /\ g[j] = f[j]
      /\ g[k].packets = IF k \in D THEN f[k].packets + 1 ELSE 1
  BY <1>2 DEF Touch, Live
<1>5. k \in D => f[k].packets \in Nat
  BY <1>3 DEF Counted
<1>6. Counted(g, E)
  <2>1. IsFiniteSet(E)
    BY <1>2, <1>3, FS_AddElement DEF Counted
  <2>2. ASSUME NEW j \in E PROVE g[j].packets \in Nat
    <3>1. CASE j = k
      BY <1>4, <1>5, <3>1
    <3>2. CASE j # k
      BY <1>3, <1>4, <3>2 DEF Counted
    <3>3. QED
      BY <3>1, <3>2
  <2>3. QED
    BY <2>1, <2>2 DEF Counted
<1>7. Total(g, E) = g[k].packets + Total(g, E \ {k})
  BY <1>2, <1>6, TotalPoint
<1>8. Counted(f, E \ {k}) /\ \A j \in E \ {k} : g[j].packets = f[j].packets
  BY <1>3, <1>4, FS_Subset DEF Counted
<1>9. Total(g, E \ {k}) = Total(f, E \ {k}) /\ Total(f, E \ {k}) \in Nat
  BY <1>8, TotalSame
<1>10. Total(g, E) = Total(f, D) + 1
  <2>1. CASE k \in D
    <3>1. E = D /\ Total(f, D) = f[k].packets + Total(f, D \ {k})
      BY <1>2, <1>3, <2>1, TotalPoint
    <3>2. QED
      BY <1>4, <1>5, <1>7, <1>9, <2>1, <3>1
  <2>2. CASE k \notin D
    <3>1. E \ {k} = D
      BY <1>2, <2>2
    <3>2. QED
      BY <1>4, <1>7, <1>9, <2>2, <3>1
  <2>3. QED
    BY <2>1, <2>2
<1>11. Total(f, D) \in Nat
  BY <1>3, TotalSame
<1>12. Recorded' = Total(g, E) + retired'
  BY <1>1, <1>3, <1>10, <1>11
<1>13. QED
  BY <1>2, <1>3, <1>12 DEF Booked, Live

LEMMA RemoveBooks ==
    ASSUME TypeOK, Booked, NEW k \in Live, Remove(k), Recorded' = Recorded
    PROVE  Booked'
<1>1. Counted(flows, Live) /\ Recorded \in Int /\ retired \in Nat
  BY FlowsCounted
<1>2. PICK f, g, D, E : f = flows /\ g = flows' /\ D = Live /\ E = D \ {k}
  OBVIOUS
<1>3. /\ Counted(f, D) /\ DOMAIN g = E /\ Recorded = Total(f, D) + retired
      /\ \A j \in E : g[j] = f[j]
      /\ retired' = retired + f[k].packets
  BY <1>1, <1>2 DEF Booked, Remove, Live
<1>4. Total(f, D) = f[k].packets + Total(f, E) /\ f[k].packets \in Nat
  BY <1>2, <1>3, TotalPoint DEF Counted
<1>5. Counted(f, E)
  BY <1>2, <1>3, FS_Subset DEF Counted
<1>6. Total(g, E) = Total(f, E) /\ Total(f, E) \in Nat
  BY <1>3, <1>5, TotalSame
<1>7. Recorded' = Total(g, E) + retired'
  BY <1>1, <1>3, <1>4, <1>6
<1>8. QED
  BY <1>2, <1>3, <1>7 DEF Booked, Live

LEMMA BookedStep == IInv /\ Booked /\ [Next]_vars => Booked'
<1> SUFFICES ASSUME IInv, Booked, [Next]_vars PROVE Booked'
  OBVIOUS
<1>0. TypeOK /\ eventsProcessed \in Nat
  BY DEF IInv, TypeOK
<1>1. ASSUME NEW k \in Keys, ProcessEvent(k) PROVE Booked'
  <2>1. Recorded' = Recorded
    BY <1>0, <1>1 DEF ProcessEvent, Recorded, InFlight
  <2>2. QED
    BY <1>1, <2>1, NothingBooked DEF ProcessEvent
<1>2. CASE UpdateHit \/ Insert
  <2>1. Recorded' = Recorded + 1
    BY <1>0, <1>2 DEF UpdateHit, Insert, LoopGoto, Recorded, InFlight
  <2>2. loopKey \in Keys
    BY <1>0, <1>2 DEF TypeOK, UpdateHit, Insert
  <2>3. flows' = Touch(flows, loopKey, now) /\ UNCHANGED retired
    BY <1>2 DEF UpdateHit, Insert
  <2>4. QED
    BY <1>0, <2>1, <2>2, <2>3, TouchBooks
<1>3. CASE LookupMiss \/ HasRoom \/ TableFull \/ ScanVisit \/ TakeOldest \/ CountEvictions
           \/ CheckHigh \/ RaiseFlag
  <2>1. UNCHANGED <<flows, retired, eventsProcessed>>
    BY <1>3 DEF LookupMiss, HasRoom, TableFull, ScanVisit, TakeOldest, CountEvictions,
        CheckHigh, RaiseFlag, LoopGoto
  <2>2. InFlight' = InFlight
    BY <1>3 DEF LookupMiss, HasRoom, TableFull, ScanVisit, TakeOldest, CountEvictions,
        CheckHigh, RaiseFlag, LoopGoto, InFlight
  <2>3. QED
    BY <2>1, <2>2, NothingBooked DEF Recorded
<1>4. CASE EvictNext
  <2>1. Recorded' = Recorded
    BY <1>4 DEF EvictNext, LoopGoto, Recorded, InFlight
  <2>2. (\E k \in Live : Remove(k)) \/ UNCHANGED <<flows, retired>>
    BY <1>4 DEF EvictNext
  <2>3. QED
    BY <1>0, <2>1, <2>2, RemoveBooks, NothingBooked
<1>5. CASE SweepStep
  <2>1. Recorded' = Recorded
    BY <1>5 DEF SweepStep, StartSweep, LenVisit, LenBefore, RetainVisit, RetainDone, LenAfter,
        CheckLow, ClearFlag, SweepGoto, loopVars, Recorded, InFlight
  <2>2. (\E k \in Live : Remove(k)) \/ UNCHANGED <<flows, retired>>
    BY <1>5 DEF SweepStep, StartSweep, LenVisit, LenBefore, RetainVisit, RetainDone, LenAfter,
        CheckLow, ClearFlag
  <2>3. QED
    BY <1>0, <2>1, <2>2, RemoveBooks, NothingBooked
<1>6. CASE Tick \/ UNCHANGED vars
  <2>1. UNCHANGED <<flows, retired>> /\ Recorded' = Recorded
    BY <1>6 DEF Tick, vars, loopVars, Recorded, InFlight
  <2>2. QED
    BY <2>1, NothingBooked
<1>7. QED
  BY <1>1, <1>2, <1>3, <1>4, <1>5, <1>6 DEF Next, LoopStep

(***************************************************************************)
(* process_event, evict_oldest_flows and expire_old_flows together lose no *)
(* packet and count none twice, whatever entries the event loop and the    *)
(* expiration task contend for.                                            *)
(***************************************************************************)
THEOREM Conserved == Spec => []PacketsConserved
<1>1. Init => Booked
  <2> SUFFICES ASSUME Init PROVE Booked
    OBVIOUS
  <2>1. Live = {} /\ Recorded = 0 /\ retired = 0
    <3>1. Live = {}
      BY DEF Init, Live, NoFlows
    <3>2. loopPc = "idle" /\ eventsProcessed = 0 /\ retired = 0
      BY DEF Init
    <3>3. InFlight = 0
      BY <3>2 DEF InFlight
    <3>4. QED
      BY <3>1, <3>2, <3>3 DEF Recorded
  <2>2. Counted(flows, {})
    BY FS_EmptySet DEF Counted
  <2>3. Total(flows, {}) = 0
    BY <2>2, TotalSame
  <2>4. QED
    BY <2>1, <2>3 DEF Booked
<1>2. QED
  BY <1>1, Inductive, BookedStep, BookedIsConserved, PTL DEF Spec
=============================================================================
