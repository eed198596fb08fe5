----------------------------- MODULE FlowTable ------------------------------
(***************************************************************************)
(* The flow table of the agent (orb8-agent/src/aggregator.rs): a DashMap   *)
(* shared by two tasks that run on different threads.  The event loop of   *)
(* main.rs calls process_event for one event after another, the expiration *)
(* task calls expire_old_flows.  Every step below is one access to the     *)
(* shared state; the locals of the two calls are the variables loop* and   *)
(* sweep*.                                                                 *)
(*                                                                         *)
(* DashMap is a row of shards, each behind a lock.  iter, retain and len   *)
(* take one shard after another, always in the same order, and hold no     *)
(* lock in between.  A key is named by its place in that order, so that a  *)
(* traversal is a cursor that runs from 1 to NumKeys.  The event loop is   *)
(* the only caller that inserts: while it computes len() flows can only    *)
(* disappear, one at a time, and the sum it gets is a size the table did   *)
(* have in the meantime.  Its len() is therefore one step; the len() of    *)
(* the expiration task is not.                                             *)
(***************************************************************************)
EXTENDS Integers, FiniteSets, FiniteSetsExt

CONSTANTS
    NumKeys,            \* number of different flow keys
    MaxFlows,           \* AgentConfig::max_flows
    FlowTimeout,        \* AgentConfig::flow_timeout
    EvictionPercent,    \* EVICTION_PERCENT
    HighWatermark,      \* CAPACITY_HIGH_WATERMARK, percent
    LowWatermark,       \* CAPACITY_LOW_WATERMARK, percent
    UsizeModulus        \* 2^w for the usize of the target

ASSUME NumKeysAssumption == NumKeys \in Nat
ASSUME ConfigAssumption == /\ MaxFlows \in Nat
                           /\ FlowTimeout \in Nat
                           /\ EvictionPercent \in Nat
                           /\ HighWatermark \in Nat
                           /\ LowWatermark \in Nat
ASSUME UsizeAssumption == UsizeModulus \in Nat /\ UsizeModulus > NumKeys

Keys == 1..NumKeys

VARIABLES
    flows,              \* FlowAggregator::flows, key -> [packets, last_seen]
    eventsProcessed,    \* FlowAggregator::events_processed
    atCapacity,         \* HealthState::flow_table_at_capacity
    flowEvictions,      \* HealthState::flow_evictions
    now,                \* Instant::now()
    \* process_event
    loopPc, loopKey, loopCursor, candidates, victims, evicted,
    \* expire_old_flows
    sweepPc, sweepCursor, cutoff, len, before, expired,
    \* history
    retired,            \* packets of flows removed from the table
    swept               \* flows removed by the current or last sweep

loopVars  == <<loopPc, loopKey, loopCursor, candidates, victims, evicted>>
sweepVars == <<sweepPc, sweepCursor, cutoff, len, before, expired, swept>>
vars == <<flows, eventsProcessed, atCapacity, flowEvictions, now, retired,
          loopVars, sweepVars>>

Live == DOMAIN flows
Size == Cardinality(Live)
Flow == [packets : Nat, last_seen : Nat]
NoFlows == [k \in {} |-> [packets |-> 0, last_seen |-> 0]]

EvictCount == IF (MaxFlows * EvictionPercent) \div 100 > 1
              THEN (MaxFlows * EvictionPercent) \div 100 ELSE 1
High == (MaxFlows * HighWatermark) \div 100
Low  == (MaxFlows * LowWatermark) \div 100

\* Mutant: the flow is replaced by FlowStats::new instead of updated.
TouchReplaces(f, k, t) ==
    [j \in DOMAIN f \cup {k} |->
        IF j # k THEN f[j] ELSE [packets |-> 1, last_seen |-> t]]

(***************************************************************************)
(* FlowStats::update of an existing entry, FlowStats::new otherwise.       *)
(***************************************************************************)
Touch(f, k, t) ==
    [j \in DOMAIN f \cup {k} |->
        IF j # k THEN f[j]
        ELSE [packets   |-> IF k \in DOMAIN f THEN f[k].packets + 1 ELSE 1,
              last_seen |-> t]]

(***************************************************************************)
(* DashMap::remove, and one entry dropped by DashMap::retain.              *)
(***************************************************************************)
Remove(k) ==
    /\ flows' = [j \in Live \ {k} |-> flows[j]]
    /\ retired' = retired + flows[k].packets

Init ==
    /\ flows = NoFlows
    /\ eventsProcessed = 0
    /\ atCapacity = FALSE
    /\ flowEvictions = 0
    /\ now = 0
    /\ loopPc = "idle" /\ loopKey = 0 /\ loopCursor = 0
    /\ candidates = {} /\ victims = {} /\ evicted = 0
    /\ sweepPc = "idle" /\ sweepCursor = 0 /\ cutoff = 0
    /\ len = 0 /\ before = 0 /\ expired = 0
    /\ retired = 0
    /\ swept = 0

Tick == now' = now + 1 /\ UNCHANGED <<flows, eventsProcessed, atCapacity,
                                      flowEvictions, retired, loopVars, sweepVars>>
-----------------------------------------------------------------------------
(***************************************************************************)
(* process_event, called by the event loop only.                           *)
(***************************************************************************)
ProcessEvent(k) ==
    /\ loopPc = "idle"
    /\ eventsProcessed' = eventsProcessed + 1
    /\ loopKey' = k
    /\ loopPc' = "lookup"
    /\ UNCHANGED <<flows, atCapacity, flowEvictions, now, retired, sweepVars,
                   loopCursor, candidates, victims, evicted>>

LoopGoto(pc) ==
    /\ loopPc' = pc
    /\ UNCHANGED <<eventsProcessed, now, sweepVars, loopKey>>

UpdateHit ==
    /\ loopPc = "lookup" /\ loopKey \in Live
    /\ flows' = Touch(flows, loopKey, now)
    /\ LoopGoto("watermark")
    /\ UNCHANGED <<atCapacity, flowEvictions, retired,
                   loopCursor, candidates, victims, evicted>>

LookupMiss ==
    /\ loopPc = "lookup" /\ loopKey \notin Live
    /\ LoopGoto("capacity")
    /\ UNCHANGED <<flows, atCapacity, flowEvictions, retired,
                   loopCursor, candidates, victims, evicted>>

\* Mutant: the capacity check admits one flow too many.
HasRoomOffByOne ==
    /\ loopPc = "capacity" /\ Size <= MaxFlows
    /\ LoopGoto("insert")
    /\ UNCHANGED <<flows, atCapacity, flowEvictions, retired,
                   loopCursor, candidates, victims, evicted>>

HasRoom ==
    /\ loopPc = "capacity" /\ Size < MaxFlows
    /\ LoopGoto("insert")
    /\ UNCHANGED <<flows, atCapacity, flowEvictions, retired,
                   loopCursor, candidates, victims, evicted>>

TableFull ==
    /\ loopPc = "capacity" /\ Size >= MaxFlows
    /\ LoopGoto("scan")
    /\ UNCHANGED <<flows, atCapacity, flowEvictions, retired,
                   loopCursor, candidates, victims, evicted>>

(***************************************************************************)
(* evict_oldest_flows: collect (key, last_seen) shard by shard, ...        *)
(***************************************************************************)
ScanVisit ==
    /\ loopPc = "scan" /\ loopCursor < NumKeys
    /\ loopCursor' = loopCursor + 1
    /\ candidates' = candidates \cup
          {[key |-> k, last_seen |-> flows[k].last_seen] : k \in Live \cap {loopCursor'}}
    /\ LoopGoto("scan")
    /\ UNCHANGED <<flows, atCapacity, flowEvictions, retired, victims, evicted>>

\* Mutant: the victims are those seen last (sorted the wrong way).
TakeNewest ==
    /\ loopPc = "scan" /\ loopCursor = NumKeys
    /\ \E S \in SUBSET candidates :
          /\ \/ Cardinality(S) = EvictCount
             \/ S = candidates /\ Cardinality(S) < EvictCount
          /\ \A s \in S, r \in candidates \ S : s.last_seen >= r.last_seen
          /\ victims' = S
    /\ candidates' = {}
    /\ loopCursor' = 0
    /\ LoopGoto("evict")
    /\ UNCHANGED <<flows, atCapacity, flowEvictions, retired, evicted>>

(***************************************************************************)
(* ... sort by last_seen and take the first EvictCount.  Equal times keep  *)
(* the order of the hash table, so that any choice among them is possible. *)
(***************************************************************************)
TakeOldest ==
    /\ loopPc = "scan" /\ loopCursor = NumKeys
    /\ \E S \in SUBSET candidates :
          /\ \/ Cardinality(S) = EvictCount
             \/ S = candidates /\ Cardinality(S) < EvictCount
          /\ \A s \in S, r \in candidates \ S : s.last_seen <= r.last_seen
          /\ victims' = S
    /\ candidates' = {}
    /\ loopCursor' = 0
    /\ LoopGoto("evict")
    /\ UNCHANGED <<flows, atCapacity, flowEvictions, retired, evicted>>

\* Mutant: a victim the expiration task took first counts as evicted.
EvictNextCountsAll ==
    /\ loopPc = "evict"
    /\ \E v \in victims :
          /\ \A w \in victims : v.last_seen <= w.last_seen
          /\ victims' = victims \ {v}
          /\ IF v.key \in Live THEN Remove(v.key) ELSE UNCHANGED <<flows, retired>>
          /\ evicted' = evicted + 1
    /\ LoopGoto("evict")
    /\ UNCHANGED <<atCapacity, flowEvictions, loopCursor, candidates>>

(***************************************************************************)
(* ... then remove them oldest first; the expiration task may have removed *)
(* one already, which is not counted.                                      *)
(***************************************************************************)
EvictNext ==
    /\ loopPc = "evict"
    /\ \E v \in victims :
          /\ \A w \in victims : v.last_seen <= w.last_seen
          /\ victims' = victims \ {v}
          /\ \/ /\ v.key \in Live
                /\ Remove(v.key)
                /\ evicted' = evicted + 1
             \/ /\ v.key \notin Live
                /\ UNCHANGED <<flows, retired, evicted>>
    /\ LoopGoto("evict")
    /\ UNCHANGED <<atCapacity, flowEvictions, loopCursor, candidates>>

CountEvictions ==
    /\ loopPc = "evict" /\ victims = {}
    /\ flowEvictions' = flowEvictions + evicted
    /\ evicted' = 0
    /\ LoopGoto("insert")
    /\ UNCHANGED <<flows, atCapacity, retired, loopCursor, candidates, victims>>

Insert ==
    /\ loopPc = "insert"
    /\ flows' = Touch(flows, loopKey, now)
    /\ LoopGoto("watermark")
    /\ UNCHANGED <<atCapacity, flowEvictions, retired,
                   loopCursor, candidates, victims, evicted>>

(***************************************************************************)
(* update_capacity_flag: the length is read before the flag is stored.     *)
(***************************************************************************)
CheckHigh ==
    /\ loopPc = "watermark"
    /\ LoopGoto(IF Size >= High THEN "raise" ELSE "idle")
    /\ UNCHANGED <<flows, atCapacity, flowEvictions, retired,
                   loopCursor, candidates, victims, evicted>>

RaiseFlag ==
    /\ loopPc = "raise"
    /\ atCapacity' = TRUE
    /\ LoopGoto("idle")
    /\ UNCHANGED <<flows, flowEvictions, retired,
                   loopCursor, candidates, victims, evicted>>

LoopStep ==
    \/ UpdateHit \/ LookupMiss \/ HasRoom \/ TableFull
    \/ ScanVisit \/ TakeOldest \/ EvictNext \/ CountEvictions
    \/ Insert \/ CheckHigh \/ RaiseFlag
-----------------------------------------------------------------------------
(***************************************************************************)
(* expire_old_flows, called by the expiration task only.                   *)
(***************************************************************************)
StartSweep ==
    /\ sweepPc = "idle"
    /\ sweepPc' = "before"
    /\ cutoff' = now - FlowTimeout
    /\ len' = 0
    /\ swept' = 0
    /\ UNCHANGED <<flows, eventsProcessed, atCapacity, flowEvictions, now,
                   retired, loopVars, sweepCursor, before, expired>>

SweepGoto(pc) ==
    /\ sweepPc' = pc
    /\ UNCHANGED <<eventsProcessed, flowEvictions, now, loopVars, cutoff>>

(***************************************************************************)
(* One shard of a len() of the expiration task.                            *)
(***************************************************************************)
LenVisit ==
    /\ sweepPc \in {"before", "after", "low"} /\ sweepCursor < NumKeys
    /\ sweepCursor' = sweepCursor + 1
    /\ len' = len + Cardinality(Live \cap {sweepCursor'})
    /\ SweepGoto(sweepPc)
    /\ UNCHANGED <<flows, retired, atCapacity, before, expired, swept>>

LenBefore ==
    /\ sweepPc = "before" /\ sweepCursor = NumKeys
    /\ before' = len
    /\ len' = 0 /\ sweepCursor' = 0
    /\ SweepGoto("retain")
    /\ UNCHANGED <<flows, retired, atCapacity, expired, swept>>

RetainVisit ==
    /\ sweepPc = "retain" /\ sweepCursor < NumKeys
    /\ sweepCursor' = sweepCursor + 1
    /\ \/ /\ sweepCursor' \in Live
          /\ flows[sweepCursor'].last_seen <= cutoff
          /\ Remove(sweepCursor')
          /\ swept' = swept + 1
       \/ /\ sweepCursor' \in Live => flows[sweepCursor'].last_seen > cutoff
          /\ UNCHANGED <<flows, retired, swept>>
    /\ SweepGoto("retain")
    /\ UNCHANGED <<atCapacity, len, before, expired>>

RetainDone ==
    /\ sweepPc = "retain" /\ sweepCursor = NumKeys
    /\ sweepCursor' = 0
    /\ SweepGoto("after")
    /\ UNCHANGED <<flows, retired, atCapacity, len, before, expired, swept>>

\* Mutant: the difference is taken in a signed type.
LenAfterSigned ==
    /\ sweepPc = "after" /\ sweepCursor = NumKeys
    /\ expired' = before - len
    /\ before' = 0
    /\ len' = 0 /\ sweepCursor' = 0
    /\ SweepGoto("low")
    /\ UNCHANGED <<flows, retired, atCapacity, swept>>

(***************************************************************************)
(* before - len() in usize: a debug build aborts when it underflows, a     *)
(* release build wraps.  The release build is modelled.                    *)
(***************************************************************************)
LenAfter ==
    /\ sweepPc = "after" /\ sweepCursor = NumKeys
    /\ expired' = (before - len) % UsizeModulus
    /\ before' = 0
    /\ len' = 0 /\ sweepCursor' = 0
    /\ SweepGoto("low")
    /\ UNCHANGED <<flows, retired, atCapacity, swept>>

\* Mutant: the flag is only reconsidered by a sweep that removed something.
CheckLowIfExpired ==
    /\ sweepPc = "low" /\ sweepCursor = NumKeys
    /\ len' = 0 /\ sweepCursor' = 0
    /\ SweepGoto(IF len < Low /\ expired > 0 THEN "clear" ELSE "idle")
    /\ UNCHANGED <<flows, retired, atCapacity, before, expired, swept>>

CheckLow ==
    /\ sweepPc = "low" /\ sweepCursor = NumKeys
    /\ len' = 0 /\ sweepCursor' = 0
    /\ SweepGoto(IF len < Low THEN "clear" ELSE "idle")
    /\ UNCHANGED <<flows, retired, atCapacity, before, expired, swept>>

ClearFlag ==
    /\ sweepPc = "clear"
    /\ atCapacity' = FALSE
    /\ SweepGoto("idle")
    /\ UNCHANGED <<flows, retired, sweepCursor, len, before, expired, swept>>

SweepStep ==
    \/ StartSweep \/ LenVisit \/ LenBefore \/ RetainVisit \/ RetainDone
    \/ LenAfter \/ CheckLow \/ ClearFlag

Next ==
    \/ \E k \in Keys : ProcessEvent(k)
    \/ LoopStep
    \/ SweepStep
    \/ Tick

Spec == Init /\ [][Next]_vars
-----------------------------------------------------------------------------
LoopPcs  == {"idle", "lookup", "capacity", "scan", "evict", "insert",
             "watermark", "raise"}
SweepPcs == {"idle", "before", "retain", "after", "low", "clear"}
Candidate == [key : Keys, last_seen : Nat]

(***************************************************************************)
(* Type invariant of the flow table and of the locals of its two callers.  *)
(***************************************************************************)
TypeOK ==
    /\ Live \subseteq Keys /\ flows \in [Live -> Flow]
    /\ eventsProcessed \in Nat /\ flowEvictions \in Nat /\ now \in Nat
    /\ atCapacity \in BOOLEAN
    /\ loopPc \in LoopPcs /\ loopKey \in 0..NumKeys
    /\ loopPc # "idle" => loopKey \in Keys
    /\ loopCursor \in 0..NumKeys /\ evicted \in Nat
    /\ candidates \subseteq Candidate /\ victims \subseteq Candidate
    /\ sweepPc \in SweepPcs /\ sweepCursor \in 0..NumKeys
    /\ cutoff \in Int /\ len \in Nat /\ before \in Nat
    /\ expired \in 0..(UsizeModulus - 1)
    /\ retired \in Nat /\ swept \in Nat

(***************************************************************************)
(* The table never holds more than max_flows entries, although the length  *)
(* is checked several shard locks before the insertion and the expiration  *)
(* task removes entries under the eviction's feet.  max_flows = 0 is       *)
(* accepted by AgentConfig::from_env and leaves room for one flow.         *)
(***************************************************************************)
Bound == IF MaxFlows > 1 THEN MaxFlows ELSE 1
TableBounded == Size <= Bound

(***************************************************************************)
(* The event in flight is counted by process_event before it is booked.    *)
(***************************************************************************)
InFlight == IF loopPc \in {"lookup", "capacity", "scan", "evict", "insert"} THEN 1 ELSE 0
Recorded == eventsProcessed - InFlight

CandidateKeys == {c.key : c \in candidates}
VictimKeys    == {v.key : v \in victims}

(***************************************************************************)
(* Why the bound holds: the flows alive during the scan are candidates or  *)
(* still ahead of the cursor, and together with the candidates no more     *)
(* than the table held when it was found full; one victim at least is      *)
(* chosen unless the table is empty; nobody else inserts.                  *)
(***************************************************************************)
RoomInv ==
    /\ Size <= Bound
    /\ loopPc = "scan" =>
          /\ Cardinality(Live \cup CandidateKeys) <= Bound
          /\ \A k \in Live : k > loopCursor \/ k \in CandidateKeys
    /\ loopPc = "evict" => Cardinality(Live \ VictimKeys) < Bound
    /\ loopPc = "insert" => Size < Bound

(***************************************************************************)
(* Why what was read is still true when it is used: the times copied into  *)
(* candidates and victims are those of the flows still alive, no survivor  *)
(* outside the victims is older than a victim, and the cutoff of a sweep   *)
(* in progress is at least flow_timeout ago.                               *)
(***************************************************************************)
AgeInv ==
    /\ \A k \in Live : flows[k].last_seen <= now
    /\ \A c \in candidates \cup victims :
          c.key \in Live => c.last_seen = flows[c.key].last_seen
    /\ \A v \in victims, j \in Live :
          j \in VictimKeys \/ v.last_seen <= flows[j].last_seen
    /\ loopPc # "scan" => candidates = {} /\ loopCursor = 0
    /\ loopPc # "evict" => victims = {} /\ evicted = 0
    /\ sweepPc # "idle" => cutoff + FlowTimeout <= now

(***************************************************************************)
(* The inductive invariant of the flow table.                              *)
(***************************************************************************)
IInv == TypeOK /\ RoomInv /\ AgeInv

(***************************************************************************)
(* Every packet booked is either on a flow of the table or was on one that *)
(* was evicted or expired: an update never hits an entry another task is   *)
(* removing, and no entry is removed twice.                                *)
(***************************************************************************)
PacketsConserved ==
    Recorded = MapThenSumSet(LAMBDA k : flows[k].packets, Live) + retired

(***************************************************************************)
(* The flow table implements the ledger: whatever the interleaving of the  *)
(* event loop and the expiration task, an eviction takes the flow least    *)
(* recently seen among those alive at that moment, a sweep takes only      *)
(* flows idle for flow_timeout, a flow is created only if there is room,   *)
(* and flow_evictions counts the flows evicted, once the call returns.     *)
(***************************************************************************)
Ledger == INSTANCE FlowLedger WITH
    recorded <- Recorded, forgotten <- retired, evictions <- flowEvictions + evicted
ImplementsLedger == Ledger!Spec

(***************************************************************************)
(* Once traffic stops every flow is forgotten and the capacity flag, which *)
(* makes the agent unhealthy, is cleared, even when the event loop raises  *)
(* it after the sweep that emptied the table.  Low is 0 for max_flows = 1: *)
(* then no length is below it and the flag stays.                          *)
(***************************************************************************)
DrainsWhenQuiet == <>[](Live = {} /\ (Low > 0 => ~atCapacity))

(***************************************************************************)
(* main.rs logs the result of expire_old_flows as the number of flows that *)
(* expired, and test_expire_old_flows asserts it: the last sweep reports   *)
(* as many as it removed.                                                  *)
(***************************************************************************)
SweepReportsExpired == sweepPc = "idle" => expired = swept
=============================================================================
