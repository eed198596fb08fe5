----------------------------- MODULE FlowLedger -----------------------------
(***************************************************************************)
(* What the flow table promises to its callers, with every step atomic: a  *)
(* bounded ledger of flows.  A packet is booked on its flow, which is      *)
(* created if there is room; a flow leaves the ledger only as the one      *)
(* least recently seen, or after FlowTimeout without a packet.  No packet  *)
(* that was booked is unaccounted for.  FlowTable, where the event loop    *)
(* and the expiration task interleave entry by entry, implements it.       *)
(***************************************************************************)
EXTENDS Integers, FiniteSets

CONSTANTS
    Keys,           \* flow keys
    Bound,          \* number of flows the ledger holds at most
    FlowTimeout     \* idle time after which a flow may be forgotten

VARIABLES
    flows,          \* flow key -> [packets, last_seen], a partial function
    now,            \* clock
    recorded,       \* packets booked so far
    forgotten,      \* packets booked on flows that left the ledger
    evictions       \* flows that left before their timeout, to make room

vars == <<flows, now, recorded, forgotten, evictions>>

Flow == [packets : Nat, last_seen : Nat]

(***************************************************************************)
(* The stats of f after one packet of flow k seen at time t.               *)
(***************************************************************************)
Touch(f, k, t) ==
    [j \in DOMAIN f \cup {k} |->
        IF j # k THEN f[j]
        ELSE [packets   |-> IF k \in DOMAIN f THEN f[k].packets + 1 ELSE 1,
              last_seen |-> t]]

Without(f, k) == [j \in DOMAIN f \ {k} |-> f[j]]

Init ==
    /\ flows = [k \in {} |-> [packets |-> 0, last_seen |-> 0]]
    /\ now = 0
    /\ recorded = 0
    /\ forgotten = 0
    /\ evictions = 0

Record(k) ==
    /\ k \in DOMAIN flows \/ Cardinality(DOMAIN flows) < Bound
    /\ flows' = Touch(flows, k, now)
    /\ recorded' = recorded + 1
    /\ UNCHANGED <<now, forgotten, evictions>>

Forget(k) ==
    /\ flows' = Without(flows, k)
    /\ forgotten' = forgotten + flows[k].packets
    /\ UNCHANGED <<now, recorded>>

Evict(k) ==
    /\ k \in DOMAIN flows
    /\ \A j \in DOMAIN flows : flows[k].last_seen <= flows[j].last_seen
    /\ Forget(k)
    /\ evictions' = evictions + 1

Expire(k) ==
    /\ k \in DOMAIN flows
    /\ flows[k].last_seen + FlowTimeout <= now
    /\ Forget(k)
    /\ UNCHANGED evictions

Tick ==
    /\ now' = now + 1
    /\ UNCHANGED <<flows, recorded, forgotten, evictions>>

Next ==
    \/ \E k \in Keys : Record(k) \/ Evict(k) \/ Expire(k)
    \/ Tick

Spec == Init /\ [][Next]_vars
=============================================================================
