------------------------------ MODULE PodCache ------------------------------
(***************************************************************************)
(* The pod cache (orb8-agent/src/pod_cache.rs) as operators on a record:   *)
(* two maps, from IP address and from cgroup id to the pod, and the parts  *)
(* of HealthState the cache writes.  The watcher task is the only writer   *)
(* and none of the operations awaits; the event loop reads one entry of    *)
(* by_ip at a time.  Of PodMetadata only the pod (its uid) is kept: it     *)
(* determines namespace and name.                                          *)
(***************************************************************************)
EXTENDS Integers, FiniteSets

CONSTANTS
    Pods,           \* pod uids
    Ips,            \* pod IP addresses
    NoIp,           \* pod_ip = None
    NumCgroups,     \* cgroup ids are 1..NumCgroups
    MaxEntries      \* AgentConfig::max_pod_cache_entries

ASSUME PodsAssumption == IsFiniteSet(Pods)
ASSUME IpsAssumption == NoIp \notin Ips /\ IsFiniteSet(Ips)
ASSUME MaxEntriesAssumption == MaxEntries \in Nat /\ NumCgroups \in Nat

Cgroups == 1..NumCgroups
IsPodMap(m, keys) == DOMAIN m \subseteq keys /\ m \in [DOMAIN m -> Pods]

IsCache(c) ==
    /\ c = [by_ip |-> c.by_ip, by_cgroup |-> c.by_cgroup,
            at_capacity |-> c.at_capacity, evictions |-> c.evictions]
    /\ IsPodMap(c.by_ip, Ips)
    /\ IsPodMap(c.by_cgroup, Cgroups)
    /\ c.at_capacity \in BOOLEAN      \* HealthState::pod_cache_at_capacity
    /\ c.evictions \in Nat            \* HealthState::pod_cache_evictions

NoPods == [k \in {} |-> NoIp]
EmptyCache == [by_ip |-> NoPods, by_cgroup |-> NoPods,
               at_capacity |-> FALSE, evictions |-> 0]

Put(map, key, pod) == [k \in DOMAIN map \cup {key} |-> IF k = key THEN pod ELSE map[k]]
WithoutPod(map, pod) == [k \in {j \in DOMAIN map : map[j] # pod} |-> map[k]]

\* Mutant: an entry that is there already is kept (entry().or_insert()).
InsertIpKeeps(c, ip, pod) ==
    IF ip \in DOMAIN c.by_ip THEN c
    ELSE IF Cardinality(DOMAIN c.by_ip) < MaxEntries
         THEN [c EXCEPT !.by_ip = Put(@, ip, pod)]
         ELSE [c EXCEPT !.at_capacity = TRUE, !.evictions = @ + 1]

\* Mutant: the capacity check admits one entry too many.
InsertIpOffByOne(c, ip, pod) ==
    IF ip \in DOMAIN c.by_ip \/ Cardinality(DOMAIN c.by_ip) <= MaxEntries
    THEN [c EXCEPT !.by_ip = Put(@, ip, pod)]
    ELSE [c EXCEPT !.at_capacity = TRUE, !.evictions = @ + 1]

(***************************************************************************)
(* insert_ip: an entry that is there is overwritten; a new one is refused  *)
(* when the map is full, which is reported as an eviction.                 *)
(***************************************************************************)
InsertIp(c, ip, pod) ==
    IF ip \in DOMAIN c.by_ip \/ Cardinality(DOMAIN c.by_ip) < MaxEntries
    THEN [c EXCEPT !.by_ip = Put(@, ip, pod)]
    ELSE [c EXCEPT !.at_capacity = TRUE, !.evictions = @ + 1]

\* Mutant: a pod without an address is entered too.
InsertByIpUnchecked(c, ip, pod) == InsertIp(c, ip, pod)

InsertByIp(c, ip, pod) == IF ip = NoIp THEN c ELSE InsertIp(c, ip, pod)

Insert(c, cgroup, ip, pod) ==
    [InsertByIp(c, ip, pod) EXCEPT !.by_cgroup = Put(@, cgroup, pod)]

RemovePod(c, pod) ==
    LET byIp == WithoutPod(c.by_ip, pod)
    IN  [c EXCEPT !.by_cgroup   = WithoutPod(@, pod),
                  !.by_ip       = byIp,
                  !.at_capacity = @ /\ Cardinality(DOMAIN byIp) >= MaxEntries]
=============================================================================
