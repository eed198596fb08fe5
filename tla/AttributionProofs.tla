-------------------------- MODULE AttributionProofs --------------------------
(***************************************************************************)
(* Proofs about the pod cache, its watcher and the attribution of packets, *)
(* for every set of pods and addresses, every capacity and any number of   *)
(* changes, events and failures.  The first two parts are about PodWatcher *)
(* on its own; every step of AttrSpec is one of the watcher or leaves the  *)
(* watcher alone, so what they show of the cache holds in the third.       *)
(***************************************************************************)
EXTENDS Attribution, FiniteSetTheorems, SequenceTheorems, TLAPS

(***************************************************************************)
(* The cache on its own: each operation keeps the types and the bound.     *)
(***************************************************************************)
CacheOK(c) == IsCache(c) /\ Cardinality(DOMAIN c.by_ip) <= MaxEntries

LEMMA SubsetSize ==
    ASSUME NEW A, NEW B, A \subseteq B, B \subseteq Ips
    PROVE  /\ Cardinality(A) \in Nat /\ Cardinality(B) \in Nat
           /\ Cardinality(A) <= Cardinality(B)
<1>1. IsFiniteSet(B) /\ IsFiniteSet(A)
  BY IpsAssumption, FS_Subset
<1>2. QED
  BY <1>1, FS_Subset, FS_CardinalityType

LEMMA PutFacts ==
    ASSUME NEW keys, NEW m, IsPodMap(m, keys), NEW k \in keys, NEW p \in Pods
    PROVE  DOMAIN Put(m, k, p) = DOMAIN m \cup {k} /\ IsPodMap(Put(m, k, p), keys)
  BY DEF Put, IsPodMap

LEMMA WithoutPodFacts ==
    ASSUME NEW keys, NEW m, IsPodMap(m, keys), NEW p
    PROVE  DOMAIN WithoutPod(m, p) \subseteq DOMAIN m /\ IsPodMap(WithoutPod(m, p), keys)
  BY DEF WithoutPod, IsPodMap

LEMMA InsertIpOK ==
    ASSUME NEW c, CacheOK(c), NEW ip \in Ips, NEW p \in Pods
    PROVE  CacheOK(InsertIp(c, ip, p))
<1>1. CASE ip \in DOMAIN c.by_ip \/ Cardinality(DOMAIN c.by_ip) < MaxEntries
  <2> DEFINE m == Put(c.by_ip, ip, p)
  <2>1. DOMAIN m = DOMAIN c.by_ip \cup {ip} /\ IsPodMap(m, Ips)
    BY PutFacts DEF CacheOK, IsCache
  <2>2. Cardinality(DOMAIN m) <= MaxEntries
    <3>1. CASE ip \in DOMAIN c.by_ip
      <4>1. DOMAIN m = DOMAIN c.by_ip
        BY <2>1, <3>1
      <4>2. QED
        BY <4>1 DEF CacheOK
    <3>2. CASE ip \notin DOMAIN c.by_ip
      <4>1. IsFiniteSet(DOMAIN c.by_ip)
        BY IpsAssumption, FS_Subset DEF CacheOK, IsCache, IsPodMap
      <4>2. Cardinality(DOMAIN m) = Cardinality(DOMAIN c.by_ip) + 1
        BY <2>1, <3>2, <4>1, FS_AddElement
      <4>3. Cardinality(DOMAIN c.by_ip) \in Nat
        BY <4>1, FS_CardinalityType
      <4>4. QED
        BY <1>1, <3>2, <4>2, <4>3, MaxEntriesAssumption
    <3>3. QED
      BY <3>1, <3>2
  <2>3. InsertIp(c, ip, p) = [c EXCEPT !.by_ip = m]
    BY <1>1 DEF InsertIp
  <2> HIDE DEF m
  <2>4. QED
    BY <2>1, <2>2, <2>3 DEF CacheOK, IsCache
<1>2. CASE ~(ip \in DOMAIN c.by_ip \/ Cardinality(DOMAIN c.by_ip) < MaxEntries)
  <2>1. InsertIp(c, ip, p) = [c EXCEPT !.at_capacity = TRUE, !.evictions = @ + 1]
    BY <1>2 DEF InsertIp
  <2>2. InsertIp(c, ip, p) = [by_ip |-> c.by_ip, by_cgroup |-> c.by_cgroup,
                              at_capacity |-> TRUE, evictions |-> c.evictions + 1]
    BY <2>1 DEF CacheOK, IsCache
  <2>3. c.evictions + 1 \in Nat
    BY DEF CacheOK, IsCache
  <2>4. QED
    BY <2>2, <2>3 DEF CacheOK, IsCache
<1>3. QED
  BY <1>1, <1>2

LEMMA InsertByIpOK ==
    ASSUME NEW c, CacheOK(c), NEW ip \in Ips \cup {NoIp}, NEW p \in Pods
    PROVE  CacheOK(InsertByIp(c, ip, p))
  BY InsertIpOK DEF InsertByIp

LEMMA InsertOK ==
    ASSUME NEW c, CacheOK(c), NEW cg \in Cgroups, NEW ip \in Ips \cup {NoIp}, NEW p \in Pods
    PROVE  CacheOK(Insert(c, cg, ip, p))
<1> DEFINE d == InsertByIp(c, ip, p)
<1>1. CacheOK(d)
  BY InsertByIpOK
<1>2. Insert(c, cg, ip, p) = [d EXCEPT !.by_cgroup = Put(d.by_cgroup, cg, p)]
  BY DEF Insert
<1> HIDE DEF d
<1>3. IsPodMap(Put(d.by_cgroup, cg, p), Cgroups)
  BY <1>1, PutFacts DEF CacheOK, IsCache
<1>4. QED
  BY <1>1, <1>2, <1>3 DEF CacheOK, IsCache

LEMMA RemovePodOK ==
    ASSUME NEW c, CacheOK(c), NEW p
    PROVE  CacheOK(RemovePod(c, p))
<1> DEFINE byIp == WithoutPod(c.by_ip, p)
           byCgroup == WithoutPod(c.by_cgroup, p)
<1>1. /\ DOMAIN byIp \subseteq DOMAIN c.by_ip
      /\ IsPodMap(byIp, Ips) /\ IsPodMap(byCgroup, Cgroups)
  BY WithoutPodFacts DEF CacheOK, IsCache
<1>2. Cardinality(DOMAIN byIp) <= MaxEntries
  <2>1. DOMAIN c.by_ip \subseteq Ips
    BY DEF CacheOK, IsCache, IsPodMap
  <2>2. QED
    BY <1>1, <2>1, SubsetSize, MaxEntriesAssumption DEF CacheOK
<1>3. RemovePod(c, p) =
        [c EXCEPT !.by_cgroup = byCgroup, !.by_ip = byIp,
                  !.at_capacity = @ /\ Cardinality(DOMAIN byIp) >= MaxEntries]
  BY DEF RemovePod
<1> HIDE DEF byIp, byCgroup
<1>4. (c.at_capacity /\ Cardinality(DOMAIN byIp) >= MaxEntries) \in BOOLEAN
  OBVIOUS
<1>5. QED
  BY <1>1, <1>2, <1>3, <1>4 DEF CacheOK, IsCache

(***************************************************************************)
(* The lists the API server answers with, and the events of a new watch.   *)
(***************************************************************************)
LEMMA ObjectType ==
    ASSUME NEW cl \in [Pods -> PodState], NEW p \in Pods
    PROVE  ObjectIn(cl, p) \in Object
  BY DEF ObjectIn, Object, PodState

LEMMA ListingType ==
    ASSUME TypeOK, NEW l \in Listings
    PROVE  l \in Seq(Object)
<1>1. PICK s \in SetToSeqs(Existing) : l = [i \in DOMAIN s |-> ObjectIn(cluster, s[i])]
  BY DEF Listings
<1>2. Existing \subseteq Pods
  BY DEF Existing
<1>3. Cardinality(Existing) \in Nat
  BY <1>2, PodsAssumption, FS_Subset, FS_CardinalityType
<1>4. DOMAIN s = 1..Cardinality(Existing) /\ \A i \in DOMAIN s : s[i] \in Pods
  BY <1>2 DEF SetToSeqs
<1>5. \A i \in DOMAIN s : ObjectIn(cluster, s[i]) \in Object
  BY <1>4, ObjectType DEF TypeOK
<1>6. l \in [1..Cardinality(Existing) -> Object]
  BY <1>1, <1>4, <1>5
<1>7. QED
  BY <1>3, <1>6

IInv == TypeOK /\ CacheOK(cache)

LEMMA ApplyOK ==
    ASSUME IInv, NEW o \in Object, HandlePodApply(o)
    PROVE  CacheOK(cache')
<1>1. o.pod \in Pods /\ o.ip \in Ips \cup {NoIp} /\ o.cgroup \in 0..NumCgroups
  BY DEF Object
<1>2. CacheOK(InsertByIp(cache, o.ip, o.pod))
  BY <1>1, InsertByIpOK DEF IInv
<1>3. CASE cache' = InsertByIp(cache, o.ip, o.pod)
  BY <1>2, <1>3
<1>4. CASE /\ o.cgroup # NoCgroup
           /\ cache' = Insert(InsertByIp(cache, o.ip, o.pod), o.cgroup, o.ip, o.pod)
  <2>1. o.cgroup \in Cgroups
    BY <1>1, <1>4, MaxEntriesAssumption DEF Cgroups, NoCgroup
  <2>2. QED
    BY <1>1, <1>2, <1>4, <2>1, InsertOK
<1>5. QED
  BY <1>3, <1>4 DEF HandlePodApply, Resolve

LEMMA DeleteOK ==
    ASSUME IInv, NEW o, HandlePodDelete(o)
    PROVE  CacheOK(cache')
  BY RemovePodOK DEF HandlePodDelete, IInv

LEMMA InitIInv == Init => IInv
<1> SUFFICES ASSUME Init PROVE IInv
  OBVIOUS
<1>1. IsPodMap(NoPods, Ips) /\ IsPodMap(NoPods, Cgroups) /\ DOMAIN NoPods = {}
  BY DEF IsPodMap, NoPods
<1>2. CacheOK(cache)
  BY <1>1, FS_EmptySet, MaxEntriesAssumption DEF Init, EmptyCache, CacheOK, IsCache
<1>3. cluster \in [Pods -> PodState] /\ nextCgroup \in 0..NumCgroups /\ reused \subseteq Ips
      /\ faults \in 0..MaxFaults
  BY MaxEntriesAssumption, EnvironmentAssumption DEF Init, PodState, Phases, NoCgroup
<1>4. stream \in Seq(Event) /\ listing \in Seq(Object)
  BY DEF Init
<1>5. QED
  BY <1>2, <1>3, <1>4, BackoffAssumption DEF Init, IInv, TypeOK, CacheOK, Wpcs

(***************************************************************************)
(* A change of the cluster leaves the cache alone and at most adds an      *)
(* event to the stream.                                                    *)
(***************************************************************************)
LEMMA ChangeOK ==
    ASSUME IInv, NEW p \in Pods, NEW state \in PodState, NEW kind \in {"Apply", "Delete"},
           Change(p, state, kind), nextCgroup' \in 0..NumCgroups, reused' \subseteq Ips
    PROVE  IInv'
<1>1. cluster' \in [Pods -> PodState]
  BY DEF Change, IInv, TypeOK
<1>2. stream' \in Seq(Event)
  <2>1. [kind |-> kind, object |-> ObjectIn(cluster', p)] \in Event
    BY <1>1, ObjectType DEF Event
  <2>2. QED
    BY <2>1 DEF Change, IInv, TypeOK
<1>3. QED
  BY <1>1, <1>2 DEF Change, IInv, TypeOK, CacheOK

LEMMA ClusterStepOK == IInv /\ ClusterStep => IInv'
<1> SUFFICES ASSUME IInv, NEW p \in Pods,
                    \/ CreatePod(p) \/ RestartContainer(p) \/ CompletePod(p) \/ DeletePod(p)
                    \/ \E ip \in Ips : StartPod(p, ip)
             PROVE  IInv'
  BY DEF ClusterStep
<1>0. /\ cluster[p] \in PodState /\ reused \subseteq Ips
      /\ nextCgroup \in 0..NumCgroups /\ NoCgroup \in 0..NumCgroups
  BY MaxEntriesAssumption DEF IInv, TypeOK, NoCgroup
<1>1. CASE CreatePod(p)
  <2>1. [phase |-> "pending", ip |-> NoIp, cgroup |-> NoCgroup] \in PodState
    BY <1>0 DEF PodState, Phases
  <2>2. QED
    BY <1>0, <1>1, <2>1, ChangeOK DEF CreatePod
<1>2. CASE RestartContainer(p)
  <2>1. nextCgroup' \in 0..NumCgroups
    BY <1>0, <1>2, MaxEntriesAssumption DEF RestartContainer
  <2>2. [cluster[p] EXCEPT !.cgroup = nextCgroup'] \in PodState
    BY <1>0, <2>1 DEF PodState
  <2>3. QED
    BY <1>0, <1>2, <2>1, <2>2, ChangeOK DEF RestartContainer
<1>3. CASE CompletePod(p)
  <2>1. [cluster[p] EXCEPT !.phase = "completed"] \in PodState
    BY <1>0 DEF PodState, Phases
  <2>2. QED
    BY <1>0, <1>3, <2>1, ChangeOK DEF CompletePod
<1>4. CASE DeletePod(p)
  <2>1. [cluster[p] EXCEPT !.phase = "deleted"] \in PodState
    BY <1>0 DEF PodState, Phases
  <2>2. QED
    BY <1>0, <1>4, <2>1, ChangeOK DEF DeletePod
<1>5. ASSUME NEW ip \in Ips, StartPod(p, ip) PROVE IInv'
  <2>1. nextCgroup' \in 0..NumCgroups
    BY <1>0, <1>5, MaxEntriesAssumption DEF StartPod
  <2>2. [phase |-> "running", ip |-> ip, cgroup |-> nextCgroup'] \in PodState
    BY <2>1 DEF PodState, Phases
  <2>3. reused' \subseteq Ips
    BY <1>0, <1>5 DEF StartPod
  <2>4. QED
    BY <1>5, <2>1, <2>2, <2>3, ChangeOK DEF StartPod
<1>6. QED
  BY <1>1, <1>2, <1>3, <1>4, <1>5

(***************************************************************************)
(* Every step keeps the types and the bound.                               *)
(***************************************************************************)
LEMMA StepIInv == IInv /\ [Next]_vars => IInv'
<1> SUFFICES ASSUME IInv, [Next]_vars PROVE IInv'
  OBVIOUS
<1> USE DEF clusterVars, Wpcs
<1>0. TypeOK /\ CacheOK(cache) /\ <<>> \in Seq(Event)
  BY DEF IInv
<1>1. CASE ClusterStep
  BY <1>1, ClusterStepOK
<1>2. CASE OpenWatch
  <2>1. PICK l \in Listings :
          stream' = [i \in 1..(Len(l) + 1) |->
                        IF i <= Len(l)
                        THEN [kind |-> "Apply", object |-> l[i]] ELSE InitDone]
    BY <1>2 DEF OpenWatch
  <2>2. l \in Seq(Object)
    BY <1>0, ListingType
  <2>3. Len(l) + 1 \in Nat /\ \A i \in 1..Len(l) : l[i] \in Object
    BY <2>2
  <2>4. stream' \in [1..(Len(l) + 1) -> Event]
    BY <2>1, <2>3 DEF Event
  <2>5. stream' \in Seq(Event)
    BY <2>3, <2>4
  <2>6. QED
    BY <1>2, <2>5, <1>0 DEF OpenWatch, IInv, TypeOK, CacheOK
<1>3. CASE WatchEvent
  <2>1. stream' \in Seq(Event) /\ Head(stream) \in Event
    BY <1>0, <1>3 DEF WatchEvent, TypeOK
  <2>2. CacheOK(cache') /\ connected' \in BOOLEAN
    <3>1. CASE Head(stream).kind = "Apply" /\ HandlePodApply(Head(stream).object) /\ connected' = connected
      <4>1. Head(stream).object \in Object
        BY <2>1, <3>1 DEF Event, InitDone
      <4>2. QED
        BY <1>0, <3>1, <4>1, ApplyOK DEF TypeOK
    <3>2. CASE HandlePodDelete(Head(stream).object) /\ connected' = connected
      BY <1>0, <3>2, DeleteOK DEF TypeOK
    <3>3. CASE connected' = TRUE /\ cache' = cache
      BY <1>0, <3>3
    <3>4. QED
      BY <1>3, <3>1, <3>2, <3>3 DEF WatchEvent
  <2>3. QED
    BY <1>0, <1>3, <2>1, <2>2 DEF WatchEvent, IInv, TypeOK, CacheOK
<1>4. CASE WatchFails \/ WatchEnds \/ ListFails
  <2>1. faults' \in 0..MaxFaults
    BY <1>0, <1>4, EnvironmentAssumption DEF WatchFails, WatchEnds, ListFails, TypeOK
  <2>2. stream' \in Seq(Event)
    <3>1. stream' = <<>> \/ stream' = stream
      BY <1>4 DEF WatchFails, WatchEnds, ListFails
    <3>2. QED
      BY <1>0, <3>1 DEF TypeOK
  <2>3. QED
    BY <1>0, <1>4, <2>1, <2>2, BackoffAssumption
       DEF WatchFails, WatchEnds, ListFails, IInv, TypeOK, CacheOK
<1>5. CASE BackoffElapsed
  BY <1>0, <1>5, BackoffAssumption DEF BackoffElapsed, IInv, TypeOK, CacheOK
<1>6. CASE Stop \/ StartResync \/ Cancel
  <2>1. stream' \in Seq(Event)
    <3>1. stream' = <<>> \/ stream' = stream
      BY <1>6 DEF Stop, StartResync, Cancel
    <3>2. QED
      BY <1>0, <3>1 DEF TypeOK
  <2>2. QED
    BY <1>0, <1>6, <2>1 DEF Stop, StartResync, Cancel, IInv, TypeOK, CacheOK
<1>7. CASE ListReply
  <2>1. listing' \in Seq(Object)
    BY <1>0, <1>7, ListingType DEF ListReply
  <2>2. QED
    BY <1>0, <1>7, <2>1 DEF ListReply, IInv, TypeOK, CacheOK
<1>8. CASE ResyncApply
  <2>1. listing' \in Seq(Object) /\ Head(listing) \in Object
    BY <1>0, <1>8 DEF ResyncApply, TypeOK
  <2>2. CacheOK(cache')
    BY <1>8, <2>1, ApplyOK DEF ResyncApply
  <2>3. QED
    BY <1>0, <1>8, <2>1, <2>2 DEF ResyncApply, IInv, TypeOK, CacheOK
<1>9. CASE ResyncDone
  BY <1>0, <1>9 DEF ResyncDone, IInv, TypeOK, CacheOK
<1>10. CASE UNCHANGED vars
  BY <1>0, <1>10 DEF vars, IInv, TypeOK, CacheOK
<1>11. QED
  BY <1>1, <1>2, <1>3, <1>4, <1>5, <1>6, <1>7, <1>8, <1>9, <1>10
     DEF Next, WatcherStep, Fault

LEMMA Inductive == Spec => []IInv
  BY InitIInv, StepIInv, PTL DEF Spec

(***************************************************************************)
(* Types of the cluster, the watcher and the cache.                        *)
(***************************************************************************)
THEOREM TypeCorrect == Spec => []TypeOK
<1>1. IInv => TypeOK
  BY DEF IInv
<1>2. QED
  BY Inductive, <1>1, PTL

(***************************************************************************)
(* insert_ip keeps by_ip within max_pod_cache_entries.                     *)
(***************************************************************************)
THEOREM CacheBounded == Spec => []ByIpBounded
<1>1. IInv => ByIpBounded
  BY DEF IInv, CacheOK, ByIpBounded
<1>2. QED
  BY Inductive, <1>1, PTL
-----------------------------------------------------------------------------
(***************************************************************************)
(* Why the cache is right once the watch has nothing left to deliver.      *)
(*                                                                         *)
(* A pod gets one address, when it is started; two pods that exist show    *)
(* the same address only if it was reused.                                 *)
(***************************************************************************)
ClusterInv ==
    /\ \A p \in Pods :
          /\ cluster[p].phase \in {"absent", "pending"} => cluster[p].ip = NoIp
          /\ cluster[p].phase \in {"running", "completed"} => cluster[p].ip \in Ips
    /\ \A p, q \in Existing :
          p # q /\ cluster[p].ip = cluster[q].ip => cluster[p].ip \in reused \cup {NoIp}

EntersAt(i, p, ip) ==
    stream[i].kind = "Apply" /\ stream[i].object.pod = p /\ stream[i].object.ip = ip
RemovesAt(i, p) == stream[i].kind = "Delete" /\ stream[i].object.pod = p

(***************************************************************************)
(* What is on its way is true of the cluster or was; lists and events are  *)
(* there only while they are being applied.                                *)
(***************************************************************************)
StreamInv ==
    /\ wpc # "watching" => stream = <<>>
    /\ wpc # "applying" => listing = <<>>
    /\ \A i \in 1..Len(stream), p \in Pods :
          /\ \A ip \in Ips : EntersAt(i, p, ip) => cluster[p].ip = ip
          /\ RemovesAt(i, p) => cluster[p].phase = "deleted"

Knows(c, p, ip) == IF ip \in DOMAIN c.by_ip THEN c.by_ip[ip] = p ELSE c.evictions > 0

(***************************************************************************)
(* The address of a running pod: the pod is known, or will be by an event; *)
(* and after every event that would give the address to another pod comes  *)
(* one of the pod it belongs to.                                           *)
(***************************************************************************)
ResolveInv ==
    wpc = "watching" =>
        \A p \in Running :
            cluster[p].ip \notin reused =>
                /\ \/ Knows(cache, p, cluster[p].ip)
                   \/ \E i \in 1..Len(stream) : EntersAt(i, p, cluster[p].ip)
                /\ \A i \in 1..Len(stream), q \in Pods \ {p} :
                      EntersAt(i, q, cluster[p].ip) =>
                          \E j \in (i+1)..Len(stream) : EntersAt(j, p, cluster[p].ip)

(***************************************************************************)
(* As long as no connection failed, a pod in the cache or entered by an    *)
(* event exists, or its deletion is on its way.                            *)
(***************************************************************************)
RemovedAfter(n, p) == p \in Existing \/ \E j \in n..Len(stream) : RemovesAt(j, p)

GhostInv ==
    faults = 0 =>
        /\ wpc \in {"open", "watching", "stopped"}
        /\ wpc = "open" => DOMAIN cache.by_ip = {} /\ DOMAIN cache.by_cgroup = {}
        /\ wpc = "watching" =>
              /\ \A ip \in DOMAIN cache.by_ip :
                    cluster[cache.by_ip[ip]].ip = ip /\ RemovedAfter(1, cache.by_ip[ip])
              /\ \A c \in DOMAIN cache.by_cgroup : RemovedAfter(1, cache.by_cgroup[c])
              /\ \A i \in 1..Len(stream), p \in Pods :
                    stream[i].kind = "Apply" /\ stream[i].object.pod = p => RemovedAfter(i + 1, p)

CacheInv == ClusterInv /\ StreamInv /\ ResolveInv /\ GhostInv

(***************************************************************************)
(* What the cache operations change.                                       *)
(***************************************************************************)
EnteredBy(c, d, ip, p) ==
    /\ DOMAIN c.by_ip \subseteq DOMAIN d.by_ip
    /\ \A x \in Ips \ {ip} :
          /\ x \in DOMAIN d.by_ip <=> x \in DOMAIN c.by_ip
          /\ x \in DOMAIN c.by_ip => d.by_ip[x] = c.by_ip[x]
    /\ ip \in Ips => Knows(d, p, ip)
    /\ d.evictions \in Nat /\ d.evictions >= c.evictions
    /\ \A g \in DOMAIN d.by_cgroup :
          d.by_cgroup[g] = p \/ (g \in DOMAIN c.by_cgroup /\ d.by_cgroup[g] = c.by_cgroup[g])

RemovedBy(c, d, p) ==
    /\ DOMAIN d.by_ip = {x \in DOMAIN c.by_ip : c.by_ip[x] # p}
    /\ \A x \in DOMAIN d.by_ip : d.by_ip[x] = c.by_ip[x]
    /\ DOMAIN d.by_cgroup = {x \in DOMAIN c.by_cgroup : c.by_cgroup[x] # p}
    /\ \A x \in DOMAIN d.by_cgroup : d.by_cgroup[x] = c.by_cgroup[x]
    /\ d.evictions = c.evictions

LEMMA InsertIpEffect ==
    ASSUME NEW c, CacheOK(c), NEW ip \in Ips, NEW p \in Pods
    PROVE  /\ EnteredBy(c, InsertIp(c, ip, p), ip, p)
           /\ InsertIp(c, ip, p).by_cgroup = c.by_cgroup
<1> DEFINE d == InsertIp(c, ip, p)
<1>1. CASE ip \in DOMAIN c.by_ip \/ Cardinality(DOMAIN c.by_ip) < MaxEntries
  <2>1. d.by_ip = Put(c.by_ip, ip, p) /\ d.by_cgroup = c.by_cgroup /\ d.evictions = c.evictions
    BY <1>1 DEF InsertIp, CacheOK, IsCache
  <2>2. d.evictions \in Nat /\ d.evictions >= c.evictions
    BY <2>1 DEF CacheOK, IsCache
  <2> HIDE DEF d
  <2>3. /\ DOMAIN d.by_ip = DOMAIN c.by_ip \cup {ip}
        /\ \A x \in DOMAIN d.by_ip : d.by_ip[x] = IF x = ip THEN p ELSE c.by_ip[x]
    BY <2>1 DEF Put
  <2>4. Knows(d, p, ip)
    BY <2>3 DEF Knows
  <2>5. \A x \in Ips \ {ip} :
          /\ x \in DOMAIN d.by_ip <=> x \in DOMAIN c.by_ip
          /\ x \in DOMAIN c.by_ip => d.by_ip[x] = c.by_ip[x]
    BY <2>3
  <2>6. \A g \in DOMAIN d.by_cgroup :
          d.by_cgroup[g] = p \/ (g \in DOMAIN c.by_cgroup /\ d.by_cgroup[g] = c.by_cgroup[g])
    BY <2>1
  <2>7. DOMAIN c.by_ip \subseteq DOMAIN d.by_ip
    BY <2>3
  <2>8. QED
    BY <2>1, <2>2, <2>4, <2>5, <2>6, <2>7, Zenon DEF EnteredBy, d
<1>2. CASE ~(ip \in DOMAIN c.by_ip \/ Cardinality(DOMAIN c.by_ip) < MaxEntries)
  <2>1. d.by_ip = c.by_ip /\ d.by_cgroup = c.by_cgroup /\ d.evictions = c.evictions + 1
    BY <1>2 DEF InsertIp, CacheOK, IsCache
  <2>2. d.evictions \in Nat /\ d.evictions >= c.evictions /\ d.evictions > 0
    BY <2>1 DEF CacheOK, IsCache
  <2> HIDE DEF d
  <2>3. Knows(d, p, ip)
    BY <1>2, <2>1, <2>2 DEF Knows
  <2>4. \A x \in Ips \ {ip} :
          /\ x \in DOMAIN d.by_ip <=> x \in DOMAIN c.by_ip
          /\ x \in DOMAIN c.by_ip => d.by_ip[x] = c.by_ip[x]
    BY <2>1
  <2>5. \A g \in DOMAIN d.by_cgroup :
          d.by_cgroup[g] = p \/ (g \in DOMAIN c.by_cgroup /\ d.by_cgroup[g] = c.by_cgroup[g])
    BY <2>1
  <2>6. DOMAIN c.by_ip \subseteq DOMAIN d.by_ip
    BY <2>1
  <2>7. QED
    BY <2>1, <2>2, <2>3, <2>4, <2>5, <2>6, Zenon DEF EnteredBy, d
<1>3. QED
  BY <1>1, <1>2

LEMMA InsertByIpEffect ==
    ASSUME NEW c, CacheOK(c), NEW ip \in Ips \cup {NoIp}, NEW p \in Pods
    PROVE  /\ EnteredBy(c, InsertByIp(c, ip, p), ip, p)
           /\ InsertByIp(c, ip, p).by_cgroup = c.by_cgroup
<1>1. CASE ip = NoIp
  <2>1. InsertByIp(c, ip, p) = c /\ c.evictions \in Nat /\ ip \notin Ips
    BY <1>1, IpsAssumption DEF InsertByIp, CacheOK, IsCache
  <2>2. QED
    BY <2>1 DEF EnteredBy
<1>2. CASE ip # NoIp
  BY <1>2, InsertIpEffect DEF InsertByIp
<1>3. QED
  BY <1>1, <1>2

LEMMA InsertEffect ==
    ASSUME NEW c, CacheOK(c), NEW cg \in Cgroups, NEW ip \in Ips \cup {NoIp}, NEW p \in Pods
    PROVE  EnteredBy(c, Insert(c, cg, ip, p), ip, p)
<1> DEFINE d == InsertByIp(c, ip, p)
           e == Insert(c, cg, ip, p)
<1>1. CacheOK(d) /\ EnteredBy(c, d, ip, p) /\ d.by_cgroup = c.by_cgroup
  BY InsertByIpOK, InsertByIpEffect
<1>2. e = [d EXCEPT !.by_cgroup = Put(d.by_cgroup, cg, p)]
  BY DEF Insert
<1> HIDE DEF d, e
<1>3. /\ e.by_ip = d.by_ip /\ e.evictions = d.evictions
      /\ e.by_cgroup = Put(d.by_cgroup, cg, p)
  BY <1>1, <1>2 DEF CacheOK, IsCache
<1>4. \A g \in DOMAIN e.by_cgroup :
        e.by_cgroup[g] = p \/ (g \in DOMAIN c.by_cgroup /\ e.by_cgroup[g] = c.by_cgroup[g])
  BY <1>1, <1>3 DEF Put
<1>5. ip \in Ips => Knows(e, p, ip)
  BY <1>1, <1>3 DEF EnteredBy, Knows
<1>6. \A x \in Ips \ {ip} :
        /\ x \in DOMAIN e.by_ip <=> x \in DOMAIN c.by_ip
        /\ x \in DOMAIN c.by_ip => e.by_ip[x] = c.by_ip[x]
  BY <1>1, <1>3 DEF EnteredBy
<1>7. e.evictions \in Nat /\ e.evictions >= c.evictions
  BY <1>1, <1>3, Zenon DEF EnteredBy
<1>8. DOMAIN c.by_ip \subseteq DOMAIN e.by_ip
  BY <1>1, <1>3 DEF EnteredBy
<1>9. QED
  BY <1>4, <1>5, <1>6, <1>7, <1>8, Zenon DEF EnteredBy, e

(***************************************************************************)
(* handle_pod_apply enters the pod twice, which is the same as once.       *)
(***************************************************************************)
LEMMA ApplyEffect ==
    ASSUME IInv, NEW o \in Object, HandlePodApply(o)
    PROVE  EnteredBy(cache, cache', o.ip, o.pod)
<1>1. o.pod \in Pods /\ o.ip \in Ips \cup {NoIp} /\ o.cgroup \in 0..NumCgroups
  BY DEF Object
<1> DEFINE d == InsertByIp(cache, o.ip, o.pod)
<1>2. CacheOK(cache) /\ CacheOK(d) /\ EnteredBy(cache, d, o.ip, o.pod)
  BY <1>1, InsertByIpOK, InsertByIpEffect DEF IInv
<1>3. CASE cache' = d
  BY <1>2, <1>3
<1>4. CASE o.cgroup # NoCgroup /\ cache' = Insert(d, o.cgroup, o.ip, o.pod)
  <2>1. o.cgroup \in Cgroups
    BY <1>1, <1>4, MaxEntriesAssumption DEF Cgroups, NoCgroup
  <2> HIDE DEF d
  <2>2. EnteredBy(d, cache', o.ip, o.pod)
    BY <1>1, <1>2, <1>4, <2>1, InsertEffect
  <2>3. cache.evictions \in Nat /\ d.evictions \in Nat
    BY <1>2 DEF CacheOK, IsCache
  <2>4. QED
    BY <1>2, <2>2, <2>3 DEF EnteredBy
<1>5. QED
  BY <1>3, <1>4 DEF HandlePodApply, Resolve

LEMMA DeleteEffect ==
    ASSUME IInv, NEW o, HandlePodDelete(o)
    PROVE  RemovedBy(cache, cache', o.pod)
<1>1. CacheOK(cache) /\ cache' = RemovePod(cache, o.pod)
  BY DEF IInv, HandlePodDelete
<1>2. /\ cache'.by_ip = WithoutPod(cache.by_ip, o.pod)
      /\ cache'.by_cgroup = WithoutPod(cache.by_cgroup, o.pod)
      /\ cache'.evictions = cache.evictions
  BY <1>1 DEF RemovePod, CacheOK, IsCache
<1>3. QED
  BY <1>2 DEF RemovedBy, WithoutPod
-----------------------------------------------------------------------------
(***************************************************************************)
(* The five changes of the cluster have this in common: an address is      *)
(* given once, a deleted pod does not change any more, and a change that   *)
(* makes two existing pods show one address marks it as reused.            *)
(***************************************************************************)
ChangeFacts(p, state, kind) ==
    /\ Change(p, state, kind)
    /\ \/ kind = "Apply" /\ state.phase \in {"pending", "running", "completed"}
       \/ kind = "Delete" /\ state.phase = "deleted"
    /\ cluster[p].phase # "deleted"
    /\ cluster[p].ip = NoIp \/ state.ip = cluster[p].ip
    /\ state.phase = "pending" => state.ip = NoIp
    /\ state.phase \in {"running", "completed"} => state.ip \in Ips
    /\ state.phase = "running" => cluster[p].phase \in {"pending", "running"}
    /\ cluster[p].phase \in {"running", "completed"} => state.phase \in {"running", "completed", "deleted"}
    /\ reused \subseteq reused'
    /\ \A q \in Running : cluster[q].ip \in reused' => cluster[q].ip \in reused
    /\ \A q \in Existing \ {p} :
          state.phase # "deleted" /\ state.ip = cluster[q].ip => state.ip \in reused' \cup {NoIp}

LEMMA ClusterFacts ==
    ASSUME IInv, CacheInv, ClusterStep
    PROVE  \E p \in Pods, state \in PodState, kind \in {"Apply", "Delete"} : ChangeFacts(p, state, kind)
<1>1. PICK p \in Pods :
        \/ CreatePod(p) \/ RestartContainer(p) \/ CompletePod(p) \/ DeletePod(p)
        \/ \E ip \in Ips : StartPod(p, ip)
  BY DEF ClusterStep
<1>0. /\ cluster[p] \in PodState /\ NoCgroup \in 0..NumCgroups
      /\ nextCgroup \in 0..NumCgroups /\ NumCgroups \in Nat
      /\ cluster[p] = [phase |-> cluster[p].phase, ip |-> cluster[p].ip, cgroup |-> cluster[p].cgroup]
  BY MaxEntriesAssumption DEF IInv, TypeOK, NoCgroup, PodState
<1>a. /\ cluster[p].phase \in {"absent", "pending"} => cluster[p].ip = NoIp
      /\ cluster[p].phase \in {"running", "completed"} => cluster[p].ip \in Ips
      /\ \A q \in Existing \ {p} :
            p \in Existing /\ cluster[p].ip = cluster[q].ip => cluster[p].ip \in reused \cup {NoIp}
  BY DEF CacheInv, ClusterInv
<1>2. CASE CreatePod(p)
  <2> DEFINE state == [phase |-> "pending", ip |-> NoIp, cgroup |-> NoCgroup]
  <2>1. state \in PodState
    BY <1>0 DEF PodState, Phases
  <2>2. ChangeFacts(p, state, "Apply")
    BY <1>2, <1>a DEF CreatePod, ChangeFacts
  <2>3. QED
    BY <2>1, <2>2
<1>3. CASE RestartContainer(p)
  <2> DEFINE state == [cluster[p] EXCEPT !.cgroup = nextCgroup']
  <2>1. /\ state \in PodState
        /\ state.phase = "running" /\ state.ip = cluster[p].ip /\ p \in Existing
    BY <1>0, <1>3 DEF RestartContainer, PodState, Existing
  <2>2. Change(p, state, "Apply") /\ cluster[p].phase = "running" /\ reused' = reused
    BY <1>3 DEF RestartContainer
  <2> HIDE DEF state
  <2>3. ChangeFacts(p, state, "Apply")
    BY <1>a, <2>1, <2>2 DEF ChangeFacts
  <2>4. QED
    BY <2>1, <2>3
<1>4. CASE CompletePod(p)
  <2> DEFINE state == [cluster[p] EXCEPT !.phase = "completed"]
  <2>1. /\ state \in PodState
        /\ state.phase = "completed" /\ state.ip = cluster[p].ip /\ p \in Existing
    BY <1>0, <1>4 DEF CompletePod, PodState, Phases, Existing
  <2>2. Change(p, state, "Apply") /\ cluster[p].phase = "running" /\ reused' = reused
    BY <1>4 DEF CompletePod
  <2> HIDE DEF state
  <2>3. ChangeFacts(p, state, "Apply")
    BY <1>a, <2>1, <2>2 DEF ChangeFacts
  <2>4. QED
    BY <2>1, <2>3
<1>5. CASE DeletePod(p)
  <2> DEFINE state == [cluster[p] EXCEPT !.phase = "deleted"]
  <2>1. /\ state \in PodState /\ state.phase = "deleted" /\ state.ip = cluster[p].ip
        /\ cluster[p].phase # "deleted"
    BY <1>0, <1>5 DEF DeletePod, PodState, Phases, Existing
  <2>2. Change(p, state, "Delete") /\ reused' = reused
    BY <1>5 DEF DeletePod
  <2> HIDE DEF state
  <2>3. ChangeFacts(p, state, "Delete")
    BY <1>a, <2>1, <2>2 DEF ChangeFacts
  <2>4. QED
    BY <2>1, <2>3
<1>6. ASSUME NEW ip \in Ips, StartPod(p, ip)
      PROVE  \E st \in PodState, kind \in {"Apply", "Delete"} : ChangeFacts(p, st, kind)
  <2> DEFINE state == [phase |-> "running", ip |-> ip, cgroup |-> nextCgroup']
  <2>1. state \in PodState /\ state.phase = "running" /\ state.ip = ip
    BY <1>0, <1>6 DEF StartPod, PodState, Phases
  <2>2. /\ Change(p, state, "Apply") /\ cluster[p].phase = "pending"
        /\ \A q \in Running : cluster[q].ip # ip
        /\ reused' = IF \E q \in Existing : cluster[q].ip = ip THEN reused \cup {ip} ELSE reused
    BY <1>6 DEF StartPod
  <2> HIDE DEF state
  <2>3. /\ reused \subseteq reused' /\ reused' \subseteq reused \cup {ip}
        /\ \A q \in Existing \ {p} : ip = cluster[q].ip => ip \in reused'
    BY <2>2
  <2>4. \A q \in Running : cluster[q].ip \in reused' => cluster[q].ip \in reused
    BY <2>2, <2>3
  <2>5. ChangeFacts(p, state, "Apply")
    BY <1>a, <2>1, <2>2, <2>3, <2>4 DEF ChangeFacts
  <2>6. QED
    BY <2>1, <2>5
<1>7. QED
  BY <1>1, <1>2, <1>3, <1>4, <1>5, <1>6

(***************************************************************************)
(* The stream after a change: what was there, and one event more while a   *)
(* watch is open.                                                          *)
(***************************************************************************)
NewEvent(n, p, state, kind) ==
    /\ Len(stream') = n /\ n \in Nat /\ 1..n = (1..Len(stream)) \cup {n}
    /\ 1 \in 1..n /\ n \in 1..n
    /\ \A k \in 1..n : k..Len(stream) \subseteq 1..Len(stream) /\ k..Len(stream) \subseteq k..n /\ n \in k..n
    /\ \A i \in 1..Len(stream) : i + 1 \in 1..n
    /\ \A i \in 1..Len(stream) : stream'[i] = stream[i]
    /\ stream'[n].kind = kind /\ stream'[n].object.pod = p /\ stream'[n].object.ip = state.ip

LEMMA ChangedStream ==
    ASSUME IInv, NEW p \in Pods, NEW state \in PodState, NEW kind, Change(p, state, kind),
           wpc = "watching"
    PROVE  \E n : NewEvent(n, p, state, kind)
<1> DEFINE e == [kind |-> kind, object |-> ObjectIn(cluster', p)]
           m == Len(stream) + 1
<1>1. stream \in Seq(Event) /\ stream' = Append(stream, e) /\ cluster' = [cluster EXCEPT ![p] = state]
  BY DEF IInv, TypeOK, Change
<1>2. e.kind = kind /\ e.object.pod = p /\ e.object.ip = state.ip
  BY <1>1 DEF ObjectIn, IInv, TypeOK
<1> HIDE DEF e
<1>3. /\ Len(stream) \in Nat /\ Len(stream') = m
      /\ \A i \in 1..Len(stream) : stream'[i] = stream[i]
      /\ stream'[m] = e
  BY <1>1
<1>4. /\ m \in Nat /\ 1..m = (1..Len(stream)) \cup {m} /\ 1 \in 1..m /\ m \in 1..m
      /\ \A k \in 1..m : k..Len(stream) \subseteq 1..Len(stream) /\ k..Len(stream) \subseteq k..m /\ m \in k..m
      /\ \A i \in 1..Len(stream) : i + 1 \in 1..m
  BY <1>3
<1> HIDE DEF m
<1>5. QED
  BY <1>2, <1>3, <1>4 DEF NewEvent

LEMMA ChangedCluster ==
    ASSUME IInv, NEW p \in Pods, NEW state \in PodState, NEW kind, ChangeFacts(p, state, kind)
    PROVE  /\ \A q \in Pods : cluster'[q] = IF q = p THEN state ELSE cluster[q]
           /\ \A q \in Pods, ip \in Ips : cluster[q].ip = ip => cluster'[q].ip = ip
           /\ \A q \in Pods : cluster[q].phase = "deleted" => q # p
           /\ \A q \in Pods \ {p} : /\ q \in Running' <=> q \in Running
                                    /\ q \in Existing' <=> q \in Existing
           /\ p \in Running' <=> state.phase = "running"
           /\ p \in Existing' <=> state.phase \in {"pending", "running", "completed"}
           /\ UNCHANGED <<faults, wpc, listing, cache>>
           /\ wpc # "watching" => stream' = stream
<1>1. \A q \in Pods : cluster'[q] = IF q = p THEN state ELSE cluster[q]
  BY DEF ChangeFacts, Change, IInv, TypeOK
<1>2. \A q \in Pods, ip \in Ips : cluster[q].ip = ip => cluster'[q].ip = ip
  BY <1>1, IpsAssumption DEF ChangeFacts
<1>3. cluster[p].phase # "deleted"
  BY DEF ChangeFacts
<1>4. /\ UNCHANGED <<faults, wpc, listing, cache>>
      /\ wpc # "watching" => stream' = stream
  BY DEF ChangeFacts, Change
<1>5. QED
  BY <1>1, <1>2, <1>3, <1>4 DEF Running, Existing

LEMMA ChangeClusterInv ==
    ASSUME IInv, CacheInv,
           NEW p \in Pods, NEW state \in PodState, NEW kind, ChangeFacts(p, state, kind)
    PROVE  ClusterInv'
<1>1. ClusterInv
  BY DEF CacheInv
<1>2. /\ state.phase \notin {"absent"}
      /\ state.phase = "pending" => state.ip = NoIp
      /\ state.phase \in {"running", "completed"} => state.ip \in Ips
      /\ reused \subseteq reused'
      /\ \A q \in Existing \ {p} :
            state.phase # "deleted" /\ state.ip = cluster[q].ip => state.ip \in reused' \cup {NoIp}
  BY DEF ChangeFacts
<1>3. ASSUME NEW q \in Pods
      PROVE  /\ cluster'[q].phase \in {"absent", "pending"} => cluster'[q].ip = NoIp
             /\ cluster'[q].phase \in {"running", "completed"} => cluster'[q].ip \in Ips
  BY <1>1, <1>2, ChangedCluster DEF ClusterInv
<1>4. ASSUME NEW q \in Existing', NEW r \in Existing', q # r, cluster'[q].ip = cluster'[r].ip
      PROVE  cluster'[q].ip \in reused' \cup {NoIp}
  <2>0. q \in Pods /\ r \in Pods
    BY DEF Existing
  <2>1. CASE q = p
    <3>1. r \in Existing \ {p} /\ state.phase # "deleted" /\ state.ip = cluster[r].ip
      BY <1>4, <2>0, <2>1, ChangedCluster
    <3>2. QED
      BY <1>2, <2>0, <2>1, <3>1, ChangedCluster
  <2>2. CASE r = p
    <3>1. q \in Existing \ {p} /\ state.phase # "deleted" /\ state.ip = cluster[q].ip
      BY <1>4, <2>0, <2>2, ChangedCluster
    <3>2. QED
      BY <1>2, <1>4, <2>0, <2>2, <3>1, ChangedCluster
  <2>3. CASE q # p /\ r # p
    <3>1. q \in Existing /\ r \in Existing /\ cluster'[q] = cluster[q] /\ cluster'[r] = cluster[r]
      BY <2>0, <2>3, ChangedCluster
    <3>2. cluster[q].ip \in reused \cup {NoIp}
      BY <1>1, <1>4, <3>1 DEF ClusterInv
    <3>3. QED
      BY <1>2, <3>1, <3>2
  <2>4. QED
    BY <2>1, <2>2, <2>3
<1>5. QED
  BY <1>3, <1>4 DEF ClusterInv

LEMMA ChangeStreamInv ==
    ASSUME IInv, CacheInv,
           NEW p \in Pods, NEW state \in PodState, NEW kind, ChangeFacts(p, state, kind)
    PROVE  StreamInv'
<1>1. StreamInv
  BY DEF CacheInv
<1>2. /\ wpc' # "watching" => stream' = <<>>
      /\ wpc' # "applying" => listing' = <<>>
  BY <1>1, ChangedCluster DEF StreamInv
<1>3. ASSUME NEW i \in 1..Len(stream), NEW q \in Pods, stream'[i] = stream[i]
      PROVE  /\ \A ip \in Ips : EntersAt(i, q, ip)' => cluster'[q].ip = ip
             /\ RemovesAt(i, q)' => cluster'[q].phase = "deleted"
  <2>1. /\ \A ip \in Ips : EntersAt(i, q, ip) => cluster[q].ip = ip
        /\ RemovesAt(i, q) => cluster[q].phase = "deleted"
    BY <1>1 DEF StreamInv
  <2>2. /\ \A ip \in Ips : EntersAt(i, q, ip)' <=> EntersAt(i, q, ip)
        /\ RemovesAt(i, q)' <=> RemovesAt(i, q)
    BY <1>3 DEF EntersAt, RemovesAt
  <2>3. QED
    BY <2>1, <2>2, ChangedCluster
<1>4. CASE wpc # "watching"
  <2>1. stream' = stream
    BY <1>4, ChangedCluster
  <2>2. \A i \in 1..Len(stream'), q \in Pods :
          /\ \A ip \in Ips : EntersAt(i, q, ip)' => cluster'[q].ip = ip
          /\ RemovesAt(i, q)' => cluster'[q].phase = "deleted"
    BY <1>3, <2>1
  <2>3. QED
    BY <1>2, <2>2 DEF StreamInv
<1>5. CASE wpc = "watching"
  <2>1. PICK n : NewEvent(n, p, state, kind)
    BY <1>5, ChangedStream DEF ChangeFacts
  <2> USE <2>1 DEF NewEvent
  <2>2. kind = "Delete" => state.phase = "deleted"
    BY DEF ChangeFacts
  <2>3. ASSUME NEW q \in Pods
        PROVE  /\ \A ip \in Ips : EntersAt(n, q, ip)' => cluster'[q].ip = ip
               /\ RemovesAt(n, q)' => cluster'[q].phase = "deleted"
    BY <2>1, <2>2, ChangedCluster DEF EntersAt, RemovesAt
  <2>4. \A i \in 1..Len(stream'), q \in Pods :
          /\ \A ip \in Ips : EntersAt(i, q, ip)' => cluster'[q].ip = ip
          /\ RemovesAt(i, q)' => cluster'[q].phase = "deleted"
    BY <1>3, <2>1, <2>3
  <2>5. QED
    BY <1>2, <2>4 DEF StreamInv
<1>6. QED
  BY <1>4, <1>5

LEMMA ChangeResolveInv ==
    ASSUME IInv, CacheInv,
           NEW p \in Pods, NEW state \in PodState, NEW kind, ChangeFacts(p, state, kind)
    PROVE  ResolveInv'
<1> SUFFICES ASSUME wpc = "watching", NEW q \in Running', cluster'[q].ip \notin reused'
             PROVE  /\ \/ Knows(cache, q, cluster'[q].ip)
                       \/ \E i \in 1..Len(stream') : EntersAt(i, q, cluster[q].ip)'
                    /\ \A i \in 1..Len(stream'), r \in Pods \ {q} :
                          EntersAt(i, r, cluster[q].ip)' =>
                              \E j \in (i+1)..Len(stream') : EntersAt(j, q, cluster[q].ip)'
  <2>1. wpc' = wpc /\ cache' = cache
    BY ChangedCluster
  <2>2. QED
    BY <2>1 DEF ResolveInv, Knows
<1>a. PICK n : NewEvent(n, p, state, kind)
  BY ChangedStream DEF ChangeFacts
<1>1. /\ Len(stream') = n /\ 1..n = (1..Len(stream)) \cup {n}
      /\ \A i \in 1..Len(stream) : stream'[i] = stream[i]
      /\ stream'[n].kind = kind /\ stream'[n].object.pod = p /\ stream'[n].object.ip = state.ip
  BY <1>a DEF NewEvent
<1>0. /\ \A i \in 1..Len(stream) :
            n \in (i+1)..n /\ (i+1)..Len(stream) \subseteq (i+1)..n
      /\ n \in 1..n /\ q \in Pods
  BY <1>a DEF NewEvent, Running
<1>2. ASSUME NEW i \in 1..Len(stream), NEW r, NEW ip PROVE EntersAt(i, r, ip)' <=> EntersAt(i, r, ip)
  BY <1>1 DEF EntersAt
<1>3. CASE q = p
  <2>1. state.phase = "running" /\ kind = "Apply" /\ cluster'[q].ip = state.ip
    BY <1>0, <1>3, ChangedCluster DEF ChangeFacts
  <2>2. EntersAt(n, q, cluster[q].ip)'
    BY <1>1, <1>3, <2>1 DEF EntersAt
  <2>3. ASSUME NEW i \in 1..n, NEW r \in Pods \ {q}, EntersAt(i, r, cluster[q].ip)'
        PROVE  i \in 1..Len(stream)
    BY <1>1, <1>3, <2>3 DEF EntersAt
  <2>4. QED
    BY <1>0, <1>1, <2>2, <2>3
<1>4. CASE q # p
  <2>1. q \in Running /\ cluster'[q] = cluster[q] /\ cluster[q].ip \notin reused
    BY <1>0, <1>4, ChangedCluster DEF ChangeFacts
  <2>2. cluster[q].ip \in Ips /\ q \in Existing
    BY <2>1 DEF CacheInv, ClusterInv, Running, Existing
  <2>3. /\ \/ Knows(cache, q, cluster[q].ip)
           \/ \E i \in 1..Len(stream) : EntersAt(i, q, cluster[q].ip)
        /\ \A i \in 1..Len(stream), r \in Pods \ {q} :
              EntersAt(i, r, cluster[q].ip) =>
                  \E j \in (i+1)..Len(stream) : EntersAt(j, q, cluster[q].ip)
    BY <2>1 DEF CacheInv, ResolveInv
  <2>4. ASSUME NEW r \in Pods \ {q} PROVE ~ EntersAt(n, r, cluster[q].ip)'
    <3>1. SUFFICES ASSUME kind = "Apply", state.ip = cluster[q].ip PROVE FALSE
      BY <1>1, <2>1 DEF EntersAt
    <3>2. state.phase # "deleted"
      BY <3>1 DEF ChangeFacts
    <3>3. state.ip \in reused' \cup {NoIp}
      BY <1>4, <2>2, <3>1, <3>2 DEF ChangeFacts
    <3>4. QED
      BY <2>1, <2>2, <3>1, <3>3, IpsAssumption
  <2>5. ASSUME NEW j \in 1..Len(stream)
        PROVE  EntersAt(j, q, cluster[q].ip)' <=> EntersAt(j, q, cluster[q].ip)
    <3>1. stream'[j] = stream[j]
      BY <1>1
    <3>2. QED
      BY <2>1, <3>1, Zenon DEF EntersAt
  <2>6. ASSUME NEW i \in 1..n, NEW r \in Pods \ {q}, EntersAt(i, r, cluster[q].ip)'
        PROVE  \E j \in (i+1)..n : EntersAt(j, q, cluster[q].ip)'
    <3>1. i \in 1..Len(stream)
      BY <1>1, <2>4, <2>6
    <3>2. EntersAt(i, r, cluster[q].ip)
      BY <1>1, <2>1, <2>6, <3>1 DEF EntersAt
    <3>3. PICK j \in (i+1)..Len(stream) : EntersAt(j, q, cluster[q].ip)
      BY <2>3, <3>1, <3>2
    <3>4. j \in 1..Len(stream) /\ j \in (i+1)..n
      BY <1>0, <3>1, <3>3
    <3>5. QED
      BY <2>5, <3>3, <3>4
  <2>7. \/ Knows(cache, q, cluster'[q].ip)
        \/ \E i \in 1..n : EntersAt(i, q, cluster[q].ip)'
    BY <1>1, <2>1, <2>3, <2>5
  <2>8. QED
    BY <1>1, <2>6, <2>7
<1>5. QED
  BY <1>3, <1>4

LEMMA ChangeGhostInv ==
    ASSUME IInv, CacheInv,
           NEW p \in Pods, NEW state \in PodState, NEW kind, ChangeFacts(p, state, kind)
    PROVE  GhostInv'
<1>1. SUFFICES ASSUME faults = 0 PROVE GhostInv'
  BY ChangedCluster DEF GhostInv
<1>2. /\ wpc' \in {"open", "watching", "stopped"}
      /\ wpc' = "open" => DOMAIN cache'.by_ip = {} /\ DOMAIN cache'.by_cgroup = {}
  BY <1>1, ChangedCluster DEF CacheInv, GhostInv
<1>3. ASSUME wpc = "watching"
      PROVE  /\ \A ip \in DOMAIN cache.by_ip :
                    cluster'[cache.by_ip[ip]].ip = ip /\ RemovedAfter(1, cache.by_ip[ip])'
             /\ \A c \in DOMAIN cache.by_cgroup : RemovedAfter(1, cache.by_cgroup[c])'
             /\ \A i \in 1..Len(stream'), q \in Pods :
                    stream'[i].kind = "Apply" /\ stream'[i].object.pod = q => RemovedAfter(i + 1, q)'
  <2>1. PICK n : NewEvent(n, p, state, kind)
    BY <1>3, ChangedStream DEF ChangeFacts
  <2> USE <2>1 DEF NewEvent
  <2>2. /\ \A k \in 1..n : k..Len(stream) \subseteq 1..Len(stream)
        /\ \A k \in 1..n : k..Len(stream) \subseteq k..n /\ n \in k..n
        /\ 1 \in 1..n /\ \A i \in 1..Len(stream) : i + 1 \in 1..n
    BY <2>1 DEF NewEvent
  <2>3. ASSUME NEW k \in 1..n, NEW q \in Pods, RemovedAfter(k, q) PROVE RemovedAfter(k, q)'
    <3>1. CASE q \in Existing /\ q # p
      BY <3>1, ChangedCluster DEF RemovedAfter
    <3>2. CASE q = p /\ kind = "Apply"
      <4>1. q \in Existing'
        BY <3>2, ChangedCluster DEF ChangeFacts
      <4>2. QED
        BY <4>1 DEF RemovedAfter
    <3>3. CASE q = p /\ kind = "Delete"
      <4>1. RemovesAt(n, q)'
        BY <2>1, <3>3 DEF RemovesAt
      <4>2. QED
        BY <2>1, <2>2, <4>1 DEF RemovedAfter
    <3>4. CASE \E j \in k..Len(stream) : RemovesAt(j, q)
      <4>1. PICK j \in k..Len(stream) : RemovesAt(j, q)
        BY <3>4
      <4>2. RemovesAt(j, q)' /\ j \in k..n
        BY <2>1, <2>2, <4>1 DEF RemovesAt
      <4>3. QED
        BY <2>1, <4>2 DEF RemovedAfter
    <3>5. kind \in {"Apply", "Delete"}
      BY DEF ChangeFacts
    <3>6. QED
      BY <2>3, <3>1, <3>2, <3>3, <3>4, <3>5 DEF RemovedAfter
  <2>4. /\ \A ip \in DOMAIN cache.by_ip :
              ip \in Ips /\ cache.by_ip[ip] \in Pods
        /\ \A c \in DOMAIN cache.by_cgroup : cache.by_cgroup[c] \in Pods
    BY DEF IInv, CacheOK, IsCache, IsPodMap
  <2>5. /\ \A ip \in DOMAIN cache.by_ip :
              cluster[cache.by_ip[ip]].ip = ip /\ RemovedAfter(1, cache.by_ip[ip])
        /\ \A c \in DOMAIN cache.by_cgroup : RemovedAfter(1, cache.by_cgroup[c])
        /\ \A i \in 1..Len(stream), q \in Pods :
              stream[i].kind = "Apply" /\ stream[i].object.pod = q => RemovedAfter(i + 1, q)
    BY <1>1, <1>3 DEF CacheInv, GhostInv
  <2>6. \A ip \in DOMAIN cache.by_ip :
              cluster'[cache.by_ip[ip]].ip = ip /\ RemovedAfter(1, cache.by_ip[ip])'
    BY <2>2, <2>3, <2>4, <2>5, ChangedCluster
  <2>7. \A c \in DOMAIN cache.by_cgroup : RemovedAfter(1, cache.by_cgroup[c])'
    BY <2>2, <2>3, <2>4, <2>5, ChangedCluster
  <2>8. ASSUME NEW i \in 1..n, NEW q \in Pods, stream'[i].kind = "Apply", stream'[i].object.pod = q
        PROVE  RemovedAfter(i + 1, q)'
    <3>1. CASE i = n
      <4>1. q = p /\ kind = "Apply"
        BY <2>1, <2>8, <3>1
      <4>2. q \in Existing'
        BY <4>1, ChangedCluster DEF ChangeFacts
      <4>3. QED
        BY <4>2 DEF RemovedAfter
    <3>2. CASE i \in 1..Len(stream)
      <4>1. RemovedAfter(i + 1, q)
        BY <2>1, <2>5, <2>8, <3>2
      <4>2. QED
        BY <2>2, <2>3, <3>2, <4>1
    <3>3. QED
      BY <2>1, <3>1, <3>2
  <2>9. QED
    BY <2>1, <2>6, <2>7, <2>8
<1>4. wpc' = wpc /\ cache' = cache
  BY ChangedCluster
<1>5. QED
  BY <1>2, <1>3, <1>4, Zenon DEF GhostInv, RemovedAfter

LEMMA ChangeCacheInv == IInv /\ CacheInv /\ ClusterStep => CacheInv'
<1> SUFFICES ASSUME IInv, CacheInv, ClusterStep PROVE CacheInv'
  OBVIOUS
<1>1. PICK p \in Pods, state \in PodState, kind \in {"Apply", "Delete"} : ChangeFacts(p, state, kind)
  BY ClusterFacts
<1>2. QED
  BY <1>1, ChangeClusterInv, ChangeStreamInv, ChangeResolveInv, ChangeGhostInv, Zenon DEF CacheInv
-----------------------------------------------------------------------------
(***************************************************************************)
(* A list names every existing pod, and no other.                          *)
(***************************************************************************)
LEMMA ListingFacts ==
    ASSUME TypeOK, NEW l \in Listings
    PROVE  /\ \A i \in 1..Len(l) : l[i].pod \in Existing /\ l[i].ip = cluster[l[i].pod].ip
           /\ \A p \in Existing : \E i \in 1..Len(l) : l[i].pod = p
<1>1. PICK s \in SetToSeqs(Existing) : l = [i \in DOMAIN s |-> ObjectIn(cluster, s[i])]
  BY DEF Listings
<1> DEFINE n == Cardinality(Existing)
<1>2. IsFiniteSet(Existing) /\ n \in Nat
  BY PodsAssumption, FS_Subset, FS_CardinalityType DEF Existing
<1>3. s \in [1..n -> Existing] /\ \A i, j \in 1..n : i # j => s[i] # s[j]
  BY DEF SetToSeqs
<1>4. Cardinality(1..n) = n
  BY <1>2, FS_Interval
<1> HIDE DEF n
<1>5. s \in Injection(1..n, Existing)
  BY <1>3 DEF Injection, IsInjective
<1>6. s \in Surjection(1..n, Existing)
  BY <1>2, <1>4, <1>5, FS_Injection DEF n
<1>7. l \in [1..n -> {ObjectIn(cluster, p) : p \in Existing}]
  BY <1>1, <1>3
<1>8. Len(l) = n
  BY <1>2, <1>7
<1>9. \A i \in 1..n : s[i] \in Existing /\ l[i].pod = s[i] /\ l[i].ip = cluster[s[i]].ip
  BY <1>1, <1>3 DEF ObjectIn
<1>10. \A p \in Existing : \E i \in 1..n : s[i] = p
  BY <1>6 DEF Surjection
<1>11. QED
  BY <1>8, <1>9, <1>10

(***************************************************************************)
(* The events of a new watch.                                              *)
(***************************************************************************)
OpenedStream ==
    /\ \A i \in 1..Len(stream') :
          \/ stream'[i].kind = "InitDone"
          \/ /\ stream'[i].kind = "Apply" /\ stream'[i].object.pod \in Existing
             /\ stream'[i].object.ip = cluster[stream'[i].object.pod].ip
    /\ \A p \in Existing : \E i \in 1..Len(stream') :
          stream'[i].kind = "Apply" /\ stream'[i].object.pod = p

LEMMA OpenWatchStream ==
    ASSUME TypeOK, OpenWatch
    PROVE  OpenedStream
<1>1. PICK l \in Listings :
        stream' = [i \in 1..(Len(l) + 1) |->
                      IF i <= Len(l) THEN [kind |-> "Apply", object |-> l[i]] ELSE InitDone]
  BY DEF OpenWatch
<1>2. Len(l) \in Nat
  BY ListingType
<1>3. Len(stream') = Len(l) + 1
  BY <1>1, <1>2
<1>4. /\ \A i \in 1..Len(l) :
            i \in 1..Len(stream') /\ stream'[i] = [kind |-> "Apply", object |-> l[i]]
      /\ \A i \in 1..Len(stream') : i \in 1..Len(l) \/ stream'[i] = InitDone
  BY <1>1, <1>2, <1>3
<1>5. \A i \in 1..Len(l) :
        i \in 1..Len(stream') /\ stream'[i].kind = "Apply" /\ stream'[i].object = l[i]
  <2> SUFFICES ASSUME NEW i \in 1..Len(l)
               PROVE  i \in 1..Len(stream') /\ stream'[i].kind = "Apply" /\ stream'[i].object = l[i]
    OBVIOUS
  <2>1. i \in 1..Len(stream') /\ stream'[i] = [kind |-> "Apply", object |-> l[i]]
    BY <1>4
  <2>2. QED
    BY <2>1
<1>6. \A i \in 1..Len(stream') : i \in 1..Len(l) \/ stream'[i].kind = "InitDone"
  <2>1. InitDone.kind = "InitDone"
    BY DEF InitDone
  <2>2. QED
    BY <1>4, <2>1
<1>7. /\ \A i \in 1..Len(l) : l[i].pod \in Existing /\ l[i].ip = cluster[l[i].pod].ip
      /\ \A p \in Existing : \E i \in 1..Len(l) : l[i].pod = p
  BY ListingFacts
<1>8. \A i \in 1..Len(stream') :
        \/ stream'[i].kind = "InitDone"
        \/ /\ stream'[i].kind = "Apply" /\ stream'[i].object.pod \in Existing
           /\ stream'[i].object.ip = cluster[stream'[i].object.pod].ip
  BY <1>5, <1>6, <1>7
<1>9. \A p \in Existing : \E i \in 1..Len(stream') :
        stream'[i].kind = "Apply" /\ stream'[i].object.pod = p
  BY <1>5, <1>7
<1>10. QED
  BY <1>8, <1>9, Zenon DEF OpenedStream

LEMMA OpenWatchCacheInv == IInv /\ CacheInv /\ OpenWatch => CacheInv'
<1> SUFFICES ASSUME IInv, CacheInv, OpenWatch PROVE CacheInv'
  OBVIOUS
<1>1. /\ UNCHANGED <<cluster, reused, faults, listing, cache>>
      /\ wpc = "open" /\ wpc' = "watching"
  BY DEF OpenWatch, clusterVars
<1>2. OpenedStream
  BY OpenWatchStream DEF IInv
<1>3. ClusterInv /\ ClusterInv'
  BY <1>1 DEF CacheInv, ClusterInv, Existing
<1>4. ASSUME NEW i \in 1..Len(stream'), NEW q \in Pods, stream'[i].kind # "InitDone",
             stream'[i].object.pod = q
      PROVE  /\ stream'[i].kind = "Apply" /\ q \in Existing
             /\ stream'[i].object.ip = cluster[q].ip
  BY <1>2, <1>4 DEF OpenedStream
<1>5. StreamInv'
  <2>1. listing' = <<>>
    BY <1>1 DEF CacheInv, StreamInv
  <2>2. \A i \in 1..Len(stream'), q \in Pods :
          /\ \A ip \in Ips : EntersAt(i, q, ip)' => cluster'[q].ip = ip
          /\ RemovesAt(i, q)' => cluster'[q].phase = "deleted"
    BY <1>1, <1>4 DEF EntersAt, RemovesAt
  <2>3. QED
    BY <1>1, <2>1, <2>2 DEF StreamInv
<1>6. ResolveInv'
  <2> SUFFICES ASSUME NEW p \in Running, cluster[p].ip \notin reused
               PROVE  /\ \E i \in 1..Len(stream') : EntersAt(i, p, cluster[p].ip)'
                      /\ \A i \in 1..Len(stream'), q \in Pods \ {p} : ~ EntersAt(i, q, cluster[p].ip)'
    <3>1. Running' = Running /\ cluster' = cluster /\ reused' = reused
      BY <1>1 DEF Running
    <3>2. QED
      BY <3>1 DEF ResolveInv
  <2>1. p \in Existing /\ p \in Pods /\ cluster[p].ip \in Ips
    BY <1>3 DEF ClusterInv, Running, Existing
  <2>2. \E i \in 1..Len(stream') : EntersAt(i, p, cluster[p].ip)'
    BY <1>1, <1>2, <2>1 DEF OpenedStream, EntersAt
  <2>3. ASSUME NEW i \in 1..Len(stream'), NEW q \in Pods \ {p}, EntersAt(i, q, cluster[p].ip)'
        PROVE  FALSE
    <3>1. q \in Existing /\ cluster[q].ip = cluster[p].ip
      BY <1>1, <1>4, <2>3 DEF EntersAt
    <3>2. cluster[p].ip \in reused \cup {NoIp}
      BY <1>3, <2>1, <3>1 DEF ClusterInv
    <3>3. QED
      BY <2>1, <3>2, IpsAssumption
  <2>4. QED
    BY <2>2, <2>3
<1>7. GhostInv'
  <2> SUFFICES ASSUME faults = 0 PROVE GhostInv'
    BY <1>1 DEF GhostInv
  <2>1. DOMAIN cache'.by_ip = {} /\ DOMAIN cache'.by_cgroup = {}
    BY <1>1 DEF CacheInv, GhostInv
  <2>2. \A i \in 1..Len(stream'), q \in Pods :
          stream'[i].kind = "Apply" /\ stream'[i].object.pod = q => q \in Existing'
    BY <1>1, <1>4 DEF Existing
  <2>3. \A i \in 1..Len(stream'), q \in Pods :
          stream'[i].kind = "Apply" /\ stream'[i].object.pod = q => RemovedAfter(i + 1, q)'
    BY <2>2 DEF RemovedAfter
  <2>4. QED
    BY <1>1, <2>1, <2>3 DEF GhostInv
<1>8. QED
  BY <1>3, <1>5, <1>6, <1>7, Zenon DEF CacheInv
-----------------------------------------------------------------------------
(***************************************************************************)
(* An event is taken: the others move one place ahead.                     *)
(***************************************************************************)
Shifted ==
    /\ 1 \in 1..Len(stream)
    /\ \A i \in 1..Len(stream') : i + 1 \in 1..Len(stream) /\ stream'[i] = stream[i + 1]
    /\ \A k \in 1..(Len(stream') + 1) : \A j \in (k + 1)..Len(stream) :
          \E i \in k..Len(stream') : i \in 1..Len(stream') /\ j = i + 1
    /\ \A j \in 1..Len(stream) : j = 1 \/ j \in (1 + 1)..Len(stream)
    /\ 1 \in 1..(Len(stream') + 1)
    /\ \A i \in 1..Len(stream') : i + 1 \in 1..(Len(stream') + 1)

LEMMA TailShifts ==
    ASSUME TypeOK, stream # <<>>, stream' = Tail(stream)
    PROVE  Shifted /\ Head(stream) = stream[1] /\ stream[1] \in Event
<1>1. /\ stream \in Seq(Event) /\ Len(stream) \in Nat /\ Len(stream) > 0
      /\ Len(stream') = Len(stream) - 1
      /\ \A i \in 1..Len(stream') : stream'[i] = stream[i + 1]
      /\ Head(stream) = stream[1] /\ stream[1] \in Event
  BY DEF TypeOK
<1>2. \A k \in 1..(Len(stream') + 1) : \A j \in (k + 1)..Len(stream) :
          \E i \in k..Len(stream') : i \in 1..Len(stream') /\ j = i + 1
  <2> SUFFICES ASSUME NEW k \in 1..(Len(stream') + 1), NEW j \in (k + 1)..Len(stream)
               PROVE  /\ j - 1 \in k..Len(stream') /\ j - 1 \in 1..Len(stream')
                      /\ j = (j - 1) + 1
    OBVIOUS
  <2>1. QED
    BY <1>1
<1>3. /\ 1 \in 1..Len(stream)
      /\ \A i \in 1..Len(stream') : i + 1 \in 1..Len(stream)
      /\ \A j \in 1..Len(stream) : j = 1 \/ j \in (1 + 1)..Len(stream)
      /\ 1 \in 1..(Len(stream') + 1)
      /\ \A i \in 1..Len(stream') : i + 1 \in 1..(Len(stream') + 1)
  BY <1>1
<1>4. QED
  BY <1>1, <1>2, <1>3 DEF Shifted

LEMMA ShiftFacts ==
    ASSUME Shifted
    PROVE  /\ \A i \in 1..Len(stream') : \A p, ip : EntersAt(i, p, ip)' <=> EntersAt(i + 1, p, ip)
           /\ \A i \in 1..Len(stream') : \A p : RemovesAt(i, p)' <=> RemovesAt(i + 1, p)
  BY DEF Shifted, EntersAt, RemovesAt

LEMMA RemovedShift ==
    ASSUME Shifted, cluster' = cluster, NEW p,
           NEW k \in 1..(Len(stream') + 1), RemovedAfter(k + 1, p)
    PROVE  RemovedAfter(k, p)'
<1>1. CASE p \in Existing
  BY <1>1 DEF RemovedAfter, Existing
<1>2. CASE \E j \in (k + 1)..Len(stream) : RemovesAt(j, p)
  <2>1. PICK j \in (k + 1)..Len(stream) : RemovesAt(j, p)
    BY <1>2
  <2>2. PICK i \in k..Len(stream') : i \in 1..Len(stream') /\ j = i + 1
    BY DEF Shifted
  <2>3. RemovesAt(i, p)'
    BY <2>1, <2>2, ShiftFacts
  <2>4. QED
    BY <2>2, <2>3 DEF RemovedAfter
<1>3. QED
  BY <1>1, <1>2 DEF RemovedAfter

(***************************************************************************)
(* Which of the three events it is, and what it does to the cache.         *)
(***************************************************************************)
EventEffect(e) ==
    \/ /\ e.kind = "Apply" /\ e.object \in Object
       /\ EnteredBy(cache, cache', e.object.ip, e.object.pod)
    \/ e.kind = "Delete" /\ e.object \in Object /\ RemovedBy(cache, cache', e.object.pod)
    \/ e.kind = "InitDone" /\ cache' = cache

LEMMA WatchEventFacts ==
    ASSUME IInv, CacheInv, WatchEvent
    PROVE  /\ Shifted /\ EventEffect(stream[1])
           /\ UNCHANGED <<cluster, reused, faults, wpc, listing>> /\ wpc = "watching"
<1>1. /\ stream # <<>> /\ stream' = Tail(stream)
      /\ UNCHANGED <<cluster, reused, faults, wpc, listing>> /\ wpc = "watching"
  BY DEF WatchEvent, clusterVars
<1>2. Shifted /\ Head(stream) = stream[1] /\ stream[1] \in Event
  BY <1>1, TailShifts DEF IInv
<1>3. CASE stream[1].kind = "Apply" /\ HandlePodApply(stream[1].object)
  <2>1. stream[1].object \in Object
    BY <1>2, <1>3 DEF Event, InitDone
  <2>2. QED
    BY <1>1, <1>2, <1>3, <2>1, ApplyEffect DEF EventEffect
<1>4. CASE stream[1].kind = "Delete" /\ HandlePodDelete(stream[1].object)
  <2>1. stream[1].object \in Object
    BY <1>2, <1>4 DEF Event, InitDone
  <2>2. QED
    BY <1>1, <1>2, <1>4, <2>1, DeleteEffect DEF EventEffect
<1>5. CASE stream[1].kind = "InitDone" /\ cache' = cache
  BY <1>1, <1>2, <1>5 DEF EventEffect
<1>6. QED
  BY <1>2, <1>3, <1>4, <1>5 DEF WatchEvent

LEMMA WatchEventStreamInv ==
    ASSUME IInv, CacheInv, WatchEvent
    PROVE  StreamInv'
<1>1. /\ Shifted /\ UNCHANGED <<cluster, wpc, listing>> /\ wpc = "watching"
  BY WatchEventFacts
<1>2. StreamInv
  BY DEF CacheInv
<1>3. ASSUME NEW i \in 1..Len(stream'), NEW q \in Pods
      PROVE  /\ \A ip \in Ips : EntersAt(i, q, ip)' => cluster'[q].ip = ip
             /\ RemovesAt(i, q)' => cluster'[q].phase = "deleted"
  <2>1. i + 1 \in 1..Len(stream)
    BY <1>1 DEF Shifted
  <2>2. /\ \A ip \in Ips : EntersAt(i + 1, q, ip) => cluster[q].ip = ip
        /\ RemovesAt(i + 1, q) => cluster[q].phase = "deleted"
    BY <1>2, <2>1 DEF StreamInv
  <2>3. /\ \A ip \in Ips : EntersAt(i, q, ip)' <=> EntersAt(i + 1, q, ip)
        /\ RemovesAt(i, q)' <=> RemovesAt(i + 1, q)
    BY <1>1, ShiftFacts
  <2>4. QED
    BY <1>1, <2>2, <2>3
<1>4. QED
  BY <1>1, <1>2, <1>3 DEF StreamInv

LEMMA WatchEventResolveInv ==
    ASSUME IInv, CacheInv, WatchEvent
    PROVE  ResolveInv'
<1>1. /\ Shifted /\ UNCHANGED <<cluster, reused, wpc>> /\ wpc = "watching"
      /\ EventEffect(stream[1])
  BY WatchEventFacts
<1> SUFFICES ASSUME NEW p \in Running, cluster[p].ip \notin reused
             PROVE  /\ \/ Knows(cache', p, cluster[p].ip)
                       \/ \E i \in 1..Len(stream') : EntersAt(i, p, cluster[p].ip)'
                    /\ \A i \in 1..Len(stream'), q \in Pods \ {p} :
                          EntersAt(i, q, cluster[p].ip)' =>
                              \E j \in (i+1)..Len(stream') : EntersAt(j, p, cluster[p].ip)'
  <2>1. Running' = Running /\ cluster' = cluster /\ reused' = reused
    BY <1>1 DEF Running
  <2>2. QED
    BY <2>1 DEF ResolveInv, Knows
<1>2. PICK ip \in Ips : ip = cluster[p].ip /\ p \in Pods /\ cluster[p].phase = "running"
  BY DEF CacheInv, ClusterInv, Running
<1>3. /\ \/ Knows(cache, p, ip)
         \/ \E i \in 1..Len(stream) : EntersAt(i, p, ip)
      /\ \A i \in 1..Len(stream), q \in Pods \ {p} :
            EntersAt(i, q, ip) => \E j \in (i+1)..Len(stream) : EntersAt(j, p, ip)
  BY <1>1, <1>2 DEF CacheInv, ResolveInv
<1>4. ASSUME NEW k \in 1..(Len(stream') + 1), \E j \in (k + 1)..Len(stream) : EntersAt(j, p, ip)
      PROVE  \E i \in k..Len(stream') : i \in 1..Len(stream') /\ EntersAt(i, p, cluster[p].ip)'
  <2>1. PICK j \in (k + 1)..Len(stream) : EntersAt(j, p, ip)
    BY <1>4
  <2>2. PICK i \in k..Len(stream') : i \in 1..Len(stream') /\ j = i + 1
    BY <1>1 DEF Shifted
  <2>3. EntersAt(i, p, cluster[p].ip)'
    BY <1>1, <1>2, <2>1, <2>2, ShiftFacts
  <2>4. QED
    BY <2>2, <2>3
<1>5. ASSUME NEW i \in 1..Len(stream'), NEW q \in Pods \ {p}, EntersAt(i, q, cluster[p].ip)'
      PROVE  \E j \in (i+1)..Len(stream') : EntersAt(j, p, cluster[p].ip)'
  <2>1. /\ i + 1 \in 1..Len(stream) /\ i + 1 \in 1..(Len(stream') + 1)
        /\ EntersAt(i + 1, q, ip)
    BY <1>1, <1>2, <1>5, ShiftFacts DEF Shifted
  <2>2. \E j \in ((i + 1) + 1)..Len(stream) : EntersAt(j, p, ip)
    BY <1>3, <2>1
  <2>3. QED
    BY <1>4, <2>1, <2>2
<1>6. ASSUME \E j \in (1 + 1)..Len(stream) : EntersAt(j, p, ip)
      PROVE  \E i \in 1..Len(stream') : EntersAt(i, p, cluster[p].ip)'
  BY <1>1, <1>4, <1>6 DEF Shifted
<1>7. ASSUME EntersAt(1, p, ip) PROVE Knows(cache', p, ip)
  <2>1. EnteredBy(cache, cache', ip, p)
    BY <1>1, <1>7 DEF EntersAt, EventEffect
  <2>2. QED
    BY <2>1 DEF EnteredBy
<1>8. ASSUME Knows(cache, p, ip)
      PROVE  \/ Knows(cache', p, ip)
             \/ \E i \in 1..Len(stream') : EntersAt(i, p, cluster[p].ip)'
  <2>0. cache.evictions \in Nat
    BY DEF IInv, CacheOK, IsCache
  <2>1. CASE stream[1].kind = "Apply"
    <3>1. /\ stream[1].object.pod \in Pods
          /\ EnteredBy(cache, cache', stream[1].object.ip, stream[1].object.pod)
      BY <1>1, <2>1 DEF EventEffect, Object
    <3>2. CASE stream[1].object.ip # ip
      BY <1>8, <2>0, <3>1, <3>2 DEF EnteredBy, Knows
    <3>3. CASE stream[1].object.ip = ip /\ stream[1].object.pod = p
      BY <1>7, <2>1, <3>3 DEF EntersAt
    <3>4. CASE stream[1].object.ip = ip /\ stream[1].object.pod # p
      <4>1. EntersAt(1, stream[1].object.pod, ip)
        BY <2>1, <3>4 DEF EntersAt
      <4>2. \E j \in (1 + 1)..Len(stream) : EntersAt(j, p, ip)
        BY <1>1, <1>3, <3>1, <3>4, <4>1 DEF Shifted
      <4>3. QED
        BY <1>6, <4>2
    <3>5. QED
      BY <3>2, <3>3, <3>4
  <2>2. CASE stream[1].kind = "Delete"
    <3>1. stream[1].object.pod \in Pods /\ RemovedBy(cache, cache', stream[1].object.pod)
      BY <1>1, <2>2 DEF EventEffect, Object
    <3>2. RemovesAt(1, stream[1].object.pod)
      BY <2>2 DEF RemovesAt
    <3>3. stream[1].object.pod # p
      BY <1>1, <1>2, <3>1, <3>2 DEF CacheInv, StreamInv, Shifted
    <3>4. QED
      BY <1>8, <3>1, <3>3 DEF RemovedBy, Knows
  <2>3. CASE cache' = cache
    BY <1>8, <2>3
  <2>4. QED
    BY <1>1, <2>1, <2>2, <2>3 DEF EventEffect
<1>9. \/ Knows(cache', p, ip)
      \/ \E i \in 1..Len(stream') : EntersAt(i, p, cluster[p].ip)'
  <2>1. CASE Knows(cache, p, ip)
    BY <1>8, <2>1
  <2>2. CASE \E i \in 1..Len(stream) : EntersAt(i, p, ip)
    BY <1>1, <1>6, <1>7, <2>2 DEF Shifted
  <2>3. QED
    BY <1>3, <2>1, <2>2
<1>10. QED
  BY <1>2, <1>5, <1>9

LEMMA WatchEventGhostInv ==
    ASSUME IInv, CacheInv, WatchEvent
    PROVE  GhostInv'
<1>1. /\ Shifted /\ UNCHANGED <<cluster, faults, wpc>> /\ wpc = "watching"
      /\ EventEffect(stream[1])
  BY WatchEventFacts
<1>2. SUFFICES ASSUME faults = 0
               PROVE  /\ \A ip \in DOMAIN cache'.by_ip :
                            /\ cluster[cache'.by_ip[ip]].ip = ip
                            /\ RemovedAfter(1, cache.by_ip[ip])'
                      /\ \A c \in DOMAIN cache'.by_cgroup : RemovedAfter(1, cache.by_cgroup[c])'
                      /\ \A i \in 1..Len(stream'), p \in Pods :
                            stream'[i].kind = "Apply" /\ stream'[i].object.pod = p
                                => RemovedAfter(i + 1, p)'
  BY <1>1 DEF GhostInv
<1>3. /\ \A ip \in DOMAIN cache.by_ip :
            cluster[cache.by_ip[ip]].ip = ip /\ RemovedAfter(1, cache.by_ip[ip])
      /\ \A c \in DOMAIN cache.by_cgroup : RemovedAfter(1, cache.by_cgroup[c])
      /\ \A i \in 1..Len(stream), p \in Pods :
            stream[i].kind = "Apply" /\ stream[i].object.pod = p => RemovedAfter(i + 1, p)
  BY <1>1, <1>2 DEF CacheInv, GhostInv
<1>4. IInv'
  BY StepIInv DEF Next, WatcherStep
<1>5. /\ DOMAIN cache.by_ip \subseteq Ips /\ DOMAIN cache'.by_ip \subseteq Ips
  BY <1>4 DEF IInv, CacheOK, IsCache, IsPodMap
<1>6. ASSUME NEW p, RemovedAfter(1, p), ~ RemovesAt(1, p) PROVE RemovedAfter(1, p)'
  <2>1. RemovedAfter(1 + 1, p)
    BY <1>1, <1>6 DEF RemovedAfter, Shifted
  <2>2. QED
    BY <1>1, <2>1, RemovedShift DEF Shifted
<1>7. \A i \in 1..Len(stream'), p \in Pods :
        stream'[i].kind = "Apply" /\ stream'[i].object.pod = p => RemovedAfter(i + 1, p)'
  <2> SUFFICES ASSUME NEW i \in 1..Len(stream'), NEW p \in Pods,
                      stream'[i].kind = "Apply", stream'[i].object.pod = p
               PROVE  RemovedAfter(i + 1, p)'
    OBVIOUS
  <2>1. /\ i + 1 \in 1..Len(stream) /\ i + 1 \in 1..(Len(stream') + 1)
        /\ stream[i + 1].kind = "Apply" /\ stream[i + 1].object.pod = p
    BY <1>1 DEF Shifted
  <2>2. RemovedAfter((i + 1) + 1, p)
    BY <1>3, <2>1
  <2>3. QED
    BY <1>1, <2>1, <2>2, RemovedShift
<1>8. CASE stream[1].kind = "Apply"
  <2>1. /\ stream[1].object.pod \in Pods /\ stream[1].object.ip \in Ips \cup {NoIp}
        /\ EnteredBy(cache, cache', stream[1].object.ip, stream[1].object.pod)
    BY <1>1, <1>8 DEF EventEffect, Object
  <2>2. \A p : ~ RemovesAt(1, p)
    BY <1>8 DEF RemovesAt
  <2>3. ASSUME NEW p, p = stream[1].object.pod PROVE RemovedAfter(1, p)'
    <3>1. RemovedAfter(1 + 1, p)
      BY <1>1, <1>3, <1>8, <2>1, <2>3 DEF Shifted
    <3>2. QED
      BY <1>1, <3>1, RemovedShift DEF Shifted
  <2>4. ASSUME NEW ip \in DOMAIN cache'.by_ip
        PROVE  cluster[cache'.by_ip[ip]].ip = ip /\ RemovedAfter(1, cache.by_ip[ip])'
    <3>1. CASE ip # stream[1].object.ip
      BY <1>3, <1>5, <1>6, <2>1, <2>2, <3>1 DEF EnteredBy
    <3>2. CASE ip = stream[1].object.ip
      <4>1. cache'.by_ip[ip] = stream[1].object.pod
        BY <1>5, <2>1, <3>2 DEF EnteredBy, Knows
      <4>2. cluster[stream[1].object.pod].ip = ip
        BY <1>1, <1>5, <1>8, <2>1, <3>2 DEF CacheInv, StreamInv, EntersAt, Shifted
      <4>3. QED
        BY <2>3, <4>1, <4>2
    <3>3. QED
      BY <3>1, <3>2
  <2>5. ASSUME NEW c \in DOMAIN cache'.by_cgroup PROVE RemovedAfter(1, cache.by_cgroup[c])'
    BY <1>3, <1>6, <2>1, <2>2, <2>3 DEF EnteredBy
  <2>6. QED
    BY <1>7, <2>4, <2>5
<1>9. CASE stream[1].kind = "Delete"
  <2>1. RemovedBy(cache, cache', stream[1].object.pod)
    BY <1>1, <1>9 DEF EventEffect
  <2>2. \A p : p # stream[1].object.pod => ~ RemovesAt(1, p)
    BY DEF RemovesAt
  <2>3. ASSUME NEW ip \in DOMAIN cache'.by_ip
        PROVE  cluster[cache'.by_ip[ip]].ip = ip /\ RemovedAfter(1, cache.by_ip[ip])'
    BY <1>3, <1>6, <2>1, <2>2 DEF RemovedBy
  <2>4. ASSUME NEW c \in DOMAIN cache'.by_cgroup PROVE RemovedAfter(1, cache.by_cgroup[c])'
    BY <1>3, <1>6, <2>1, <2>2 DEF RemovedBy
  <2>5. QED
    BY <1>7, <2>3, <2>4
<1>10. CASE stream[1].kind = "InitDone" /\ cache' = cache
  <2>1. \A p : ~ RemovesAt(1, p)
    BY <1>10 DEF RemovesAt
  <2>2. QED
    BY <1>3, <1>6, <1>7, <1>10, <2>1
<1>11. QED
  BY <1>1, <1>8, <1>9, <1>10 DEF EventEffect

LEMMA WatchEventCacheInv == IInv /\ CacheInv /\ WatchEvent => CacheInv'
<1> SUFFICES ASSUME IInv, CacheInv, WatchEvent PROVE CacheInv'
  OBVIOUS
<1>1. ClusterInv'
  BY WatchEventFacts DEF CacheInv, ClusterInv, Existing
<1>2. QED
  BY <1>1, WatchEventStreamInv, WatchEventResolveInv, WatchEventGhostInv DEF CacheInv
-----------------------------------------------------------------------------
(***************************************************************************)
(* The steps after which no watch is open: nothing is on its way, and but  *)
(* for a stop before any failure there has been one.                       *)
(***************************************************************************)
LEMMA UnwatchedCacheInv ==
    ASSUME IInv, CacheInv, cluster' = cluster, reused' = reused,
           wpc' # "watching", stream' = <<>>, wpc' = "applying" \/ listing' = <<>>,
           faults' > 0 \/ (faults' = faults /\ wpc' = "stopped")
    PROVE  CacheInv'
<1>1. ClusterInv'
  BY DEF CacheInv, ClusterInv, Existing
<1>2. StreamInv'
  BY DEF StreamInv
<1>3. ResolveInv'
  BY DEF ResolveInv
<1>4. GhostInv'
  BY DEF GhostInv
<1>5. QED
  BY <1>1, <1>2, <1>3, <1>4 DEF CacheInv

(***************************************************************************)
(* A step that leaves the parts alone which the invariant speaks of.       *)
(***************************************************************************)
LEMMA IdleCacheInv ==
    ASSUME CacheInv, UNCHANGED <<cluster, reused, faults, wpc, stream, listing, cache>>
    PROVE  CacheInv'
<1>1. ClusterInv'
  BY DEF CacheInv, ClusterInv, Existing
<1>2. StreamInv'
  BY DEF CacheInv, StreamInv, EntersAt, RemovesAt
<1>3. ResolveInv'
  BY DEF CacheInv, ResolveInv, EntersAt, Knows, Running
<1>4. GhostInv'
  BY DEF CacheInv, GhostInv, RemovedAfter, RemovesAt, Existing
<1>5. QED
  BY <1>1, <1>2, <1>3, <1>4 DEF CacheInv

LEMMA InitCacheInv == Init => CacheInv
<1> SUFFICES ASSUME Init PROVE CacheInv
  OBVIOUS
<1>1. /\ \A p \in Pods : cluster[p].phase = "absent" /\ cluster[p].ip = NoIp
      /\ wpc = "open" /\ stream = <<>> /\ listing = <<>> /\ cache = EmptyCache
  BY DEF Init
<1>2. ClusterInv
  BY <1>1 DEF ClusterInv, Existing
<1>3. StreamInv
  BY <1>1 DEF StreamInv
<1>4. ResolveInv
  BY <1>1 DEF ResolveInv
<1>5. GhostInv
  BY <1>1 DEF GhostInv, EmptyCache, NoPods
<1>6. QED
  BY <1>2, <1>3, <1>4, <1>5 DEF CacheInv

LEMMA StepCacheInv == IInv /\ CacheInv /\ [Next]_vars => CacheInv'
<1> SUFFICES ASSUME IInv, CacheInv, [Next]_vars PROVE CacheInv'
  OBVIOUS
<1>0. /\ wpc # "watching" => stream = <<>>
      /\ wpc # "applying" => listing = <<>>
      /\ faults = 0 => wpc \in {"open", "watching", "stopped"}
      /\ faults \in Nat
  BY EnvironmentAssumption DEF CacheInv, StreamInv, GhostInv, IInv, TypeOK
<1>1. CASE ClusterStep
  BY <1>1, ChangeCacheInv
<1>2. CASE OpenWatch
  BY <1>2, OpenWatchCacheInv
<1>3. CASE WatchEvent
  BY <1>3, WatchEventCacheInv
<1>4. CASE WatchFails \/ WatchEnds \/ ListFails
  <2>1. /\ cluster' = cluster /\ reused' = reused /\ stream' = <<>> /\ listing' = <<>>
        /\ wpc' # "watching" /\ faults' > 0
    BY <1>0, <1>4 DEF WatchFails, WatchEnds, ListFails, clusterVars
  <2>2. QED
    BY <2>1, UnwatchedCacheInv
<1>5. CASE BackoffElapsed \/ StartResync \/ ListReply \/ ResyncApply \/ ResyncDone
  <2>1. /\ cluster' = cluster /\ reused' = reused /\ stream' = <<>>
        /\ wpc' # "watching" /\ faults' > 0
        /\ wpc' = "applying" \/ listing' = <<>>
    BY <1>0, <1>5 DEF BackoffElapsed, StartResync, ListReply, ResyncApply, ResyncDone, clusterVars
  <2>2. QED
    BY <2>1, UnwatchedCacheInv
<1>6. CASE Stop
  <2>1. /\ cluster' = cluster /\ reused' = reused /\ stream' = <<>> /\ listing' = <<>>
        /\ wpc' = "stopped" /\ faults' = faults
    BY <1>0, <1>6 DEF Stop, clusterVars
  <2>2. QED
    BY <2>1, UnwatchedCacheInv
<1>7. CASE Cancel \/ UNCHANGED vars
  <2>1. UNCHANGED <<cluster, reused, faults, wpc, stream, listing, cache>>
    BY <1>7 DEF Cancel, vars, clusterVars
  <2>2. QED
    BY <2>1, IdleCacheInv
<1>8. QED
  BY <1>1, <1>2, <1>3, <1>4, <1>5, <1>6, <1>7 DEF Next, WatcherStep, Fault

LEMMA CacheInductive == Spec => [](IInv /\ CacheInv)
  BY InitIInv, StepIInv, InitCacheInv, StepCacheInv, PTL DEF Spec

(***************************************************************************)
(* RunningPodsResolve, whatever the order of changes, events, resyncs and  *)
(* failures: the events give an address to the pod it belongs to last.     *)
(***************************************************************************)
LEMMA CaughtUpResolves ==
    ASSUME CacheInv
    PROVE  RunningPodsResolve
<1> SUFFICES ASSUME CaughtUp, NEW p \in Running, cluster[p].ip \notin reused
             PROVE  Knows(cache, p, cluster[p].ip)
  BY DEF RunningPodsResolve, Knows
<1>1. wpc = "watching" /\ \A i \in 1..Len(stream) : FALSE
  BY DEF CaughtUp
<1>2. QED
  BY <1>1 DEF CacheInv, ResolveInv

LEMMA CaughtUpHasNoGhosts ==
    ASSUME IInv, CacheInv, faults = 0
    PROVE  NoGhosts
<1> SUFFICES ASSUME CaughtUp
             PROVE  /\ \A ip \in DOMAIN cache.by_ip :
                          cache.by_ip[ip] \in Existing /\ cluster[cache.by_ip[ip]].ip = ip
                    /\ \A c \in DOMAIN cache.by_cgroup : cache.by_cgroup[c] \in Existing
  BY DEF NoGhosts
<1>1. wpc = "watching" /\ \A j \in 1..Len(stream) : FALSE
  BY DEF CaughtUp
<1>2. \A p : RemovedAfter(1, p) => p \in Existing
  BY <1>1 DEF RemovedAfter
<1>3. QED
  BY <1>1, <1>2 DEF CacheInv, GhostInv

(***************************************************************************)
(* handle_pod_apply, handle_pod_delete and resync_all keep by_ip true: a   *)
(* watch that has delivered everything leaves the address of every running *)
(* pod with that pod, or unknown after a counted refusal.                  *)
(***************************************************************************)
THEOREM PodsResolve == Spec => []RunningPodsResolve
  BY CacheInductive, CaughtUpResolves, PTL

(***************************************************************************)
(* While no request to the API server has failed, handle_pod_delete finds  *)
(* every deleted pod and the cache keeps none of them.                     *)
(***************************************************************************)
THEOREM NoGhostsWithoutFaults == Spec => []GhostsNeedFaults
<1>1. IInv /\ CacheInv => GhostsNeedFaults
  BY CaughtUpHasNoGhosts DEF GhostsNeedFaults
<1>2. QED
  BY <1>1, CacheInductive, PTL
-----------------------------------------------------------------------------
(***************************************************************************)
(* Whatever can put a pod under address x: the cluster, the cache, and     *)
(* what is on its way to the cache.                                        *)
(***************************************************************************)
SourcesIn(x, S) ==
    /\ \A p \in Pods : cluster[p].phase \in {"running", "completed"} /\ cluster[p].ip = x => p \in S
    /\ x \in DOMAIN cache.by_ip => cache.by_ip[x] \in S
    /\ \A i \in 1..Len(stream), p \in Pods : EntersAt(i, p, x) => p \in S
    /\ \A i \in 1..Len(listing) : listing[i].ip = x => listing[i].pod \in S

(***************************************************************************)
(* Pod p is known under its address, and nothing is to take it away.       *)
(***************************************************************************)
KnownAt(p, ip) ==
    /\ cluster[p].ip = ip /\ ip \notin reused
    /\ ip \in DOMAIN cache.by_ip
    /\ SourcesIn(ip, {p})

Started(p) == cluster[p].phase \in {"running", "completed", "deleted"}

SureInv ==
    stage # "none" =>
        /\ sure \in Pods => Started(sure)
        /\ sure \in Running =>
              /\ KnownAt(sure, Near(packet))
              /\ stage = "half" /\ ~packet.ingress => srcPod = sure
              /\ stage = "named" => name = sure

OwnersInv ==
    stage # "none" =>
        /\ SourcesIn(packet.src, owners) /\ SourcesIn(packet.dst, owners)
        /\ srcPod \in owners \cup {NoPod} /\ name \in owners \cup {NoPod}

PacketInv ==
    /\ stage \in {"none", "captured", "half", "named"}
    /\ packet.src \in Addresses /\ packet.dst \in Addresses /\ packet.ingress \in BOOLEAN
    /\ sure \in Pods \cup {NoPod}
    /\ stage = "none" => srcPod = NoPod /\ name = NoPod

AttrInv == IInv /\ CacheInv /\ PacketInv /\ SureInv /\ OwnersInv
-----------------------------------------------------------------------------
(***************************************************************************)
(* Each step of the watcher keeps the sources of an address within T, if   *)
(* they were and the pods that now show it are in T.                       *)
(***************************************************************************)
LEMMA ChangeSources ==
    ASSUME IInv, CacheInv, ClusterStep, NEW x, x # NoIp, NEW S, NEW T, S \subseteq T, SourcesIn(x, S),
           \A p \in Pods : cluster'[p].phase \in {"running", "completed"} /\ cluster'[p].ip = x => p \in T
    PROVE  SourcesIn(x, T)'
<1>1. PICK q \in Pods, state \in PodState, kind \in {"Apply", "Delete"} : ChangeFacts(q, state, kind)
  BY ClusterFacts
<1>2. listing' = listing /\ cache' = cache
  BY <1>1, ChangedCluster
<1>3. \A i \in 1..Len(stream'), p \in Pods : EntersAt(i, p, x)' => p \in T
  <2>1. CASE wpc # "watching"
    <3>1. stream' = stream
      BY <1>1, <2>1, ChangedCluster
    <3>2. QED
      BY <3>1 DEF SourcesIn, EntersAt
  <2>2. CASE wpc = "watching"
    <3>1. PICK n : NewEvent(n, q, state, kind)
      BY <1>1, <2>2, ChangedStream DEF ChangeFacts
    <3>2. ASSUME NEW p \in Pods, EntersAt(n, p, x)' PROVE p \in T
      <4>1. p = q /\ kind = "Apply" /\ state.ip = x
        BY <3>1, <3>2 DEF NewEvent, EntersAt
      <4>2. state.phase \in {"running", "completed"}
        BY <1>1, <4>1 DEF ChangeFacts
      <4>3. cluster'[q] = state
        BY <1>1, ChangedCluster
      <4>4. QED
        BY <4>1, <4>2, <4>3
    <3>3. ASSUME NEW i \in 1..Len(stream), NEW p \in Pods, EntersAt(i, p, x)' PROVE p \in T
      <4>1. EntersAt(i, p, x)
        BY <3>1, <3>3 DEF NewEvent, EntersAt
      <4>2. QED
        BY <4>1 DEF SourcesIn
    <3>4. QED
      BY <3>1, <3>2, <3>3 DEF NewEvent
  <2>3. QED
    BY <2>1, <2>2
<1>4. QED
  BY <1>2, <1>3 DEF SourcesIn

LEMMA OpenWatchSources ==
    ASSUME IInv, CacheInv, OpenWatch, NEW x, x # NoIp, NEW S, NEW T, S \subseteq T, SourcesIn(x, S),
           \A p \in Pods : cluster'[p].phase \in {"running", "completed"} /\ cluster'[p].ip = x => p \in T
    PROVE  SourcesIn(x, T)'
<1>1. listing' = listing /\ cache' = cache /\ cluster' = cluster
  BY DEF OpenWatch, clusterVars
<1>2. OpenedStream
  BY OpenWatchStream DEF IInv
<1>3. ASSUME NEW i \in 1..Len(stream'), NEW p \in Pods, EntersAt(i, p, x)' PROVE p \in T
  <2>1. p \in Existing /\ cluster[p].ip = x
    BY <1>2, <1>3 DEF OpenedStream, EntersAt
  <2>2. cluster[p].phase \in {"running", "completed"}
    BY <2>1 DEF CacheInv, ClusterInv, Existing
  <2>3. QED
    BY <1>1, <2>1, <2>2
<1>4. QED
  BY <1>1, <1>3 DEF SourcesIn

(***************************************************************************)
(* A pod entered in the cache, from the watch or from the list.            *)
(***************************************************************************)
LEMMA EnterSources ==
    ASSUME IInv', NEW x, NEW S, NEW ip, NEW p, EnteredBy(cache, cache', ip, p),
           x \in DOMAIN cache.by_ip => cache.by_ip[x] \in S, x = ip => p \in S,
           x \in DOMAIN cache'.by_ip
    PROVE  cache'.by_ip[x] \in S
<1>1. x \in Ips
  BY DEF IInv, CacheOK, IsCache, IsPodMap
<1>2. CASE x = ip
  BY <1>1, <1>2 DEF EnteredBy, Knows
<1>3. CASE x # ip
  BY <1>1, <1>3 DEF EnteredBy
<1>4. QED
  BY <1>2, <1>3

LEMMA WatchEventSources ==
    ASSUME IInv, CacheInv, IInv', WatchEvent, NEW x, NEW S, NEW T, S \subseteq T, SourcesIn(x, S),
           \A p \in Pods : cluster'[p].phase \in {"running", "completed"} /\ cluster'[p].ip = x => p \in T
    PROVE  SourcesIn(x, T)'
<1>1. Shifted /\ EventEffect(stream[1]) /\ listing' = listing
  BY WatchEventFacts
<1>2. ASSUME NEW i \in 1..Len(stream'), NEW p \in Pods, EntersAt(i, p, x)' PROVE p \in T
  <2>1. i + 1 \in 1..Len(stream) /\ EntersAt(i + 1, p, x)
    BY <1>1, <1>2, ShiftFacts DEF Shifted
  <2>2. QED
    BY <2>1 DEF SourcesIn
<1>3. ASSUME x \in DOMAIN cache'.by_ip PROVE cache'.by_ip[x] \in T
  <2>1. CASE stream[1].kind = "Apply"
    <3>1. /\ stream[1].object.pod \in Pods
          /\ EnteredBy(cache, cache', stream[1].object.ip, stream[1].object.pod)
      BY <1>1, <2>1 DEF EventEffect, Object
    <3>2. x = stream[1].object.ip => stream[1].object.pod \in S
      BY <1>1, <2>1, <3>1 DEF SourcesIn, EntersAt, Shifted
    <3>3. x \in DOMAIN cache.by_ip => cache.by_ip[x] \in S
      BY DEF SourcesIn
    <3>4. cache'.by_ip[x] \in S
      BY <1>3, <3>1, <3>2, <3>3, EnterSources
    <3>5. QED
      BY <3>4
  <2>2. CASE stream[1].kind = "Delete"
    BY <1>1, <1>3, <2>2 DEF EventEffect, RemovedBy, SourcesIn
  <2>3. CASE cache' = cache
    BY <1>3, <2>3 DEF SourcesIn
  <2>4. QED
    BY <1>1, <2>1, <2>2, <2>3 DEF EventEffect
<1>4. QED
  BY <1>1, <1>2, <1>3 DEF SourcesIn

LEMMA ListReplySources ==
    ASSUME IInv, CacheInv, ListReply, NEW x, x # NoIp, NEW S, NEW T, S \subseteq T, SourcesIn(x, S),
           \A p \in Pods : cluster'[p].phase \in {"running", "completed"} /\ cluster'[p].ip = x => p \in T
    PROVE  SourcesIn(x, T)'
<1>1. listing' \in Listings /\ cache' = cache /\ cluster' = cluster /\ stream' = stream
  BY DEF ListReply, clusterVars
<1>2. ASSUME NEW i \in 1..Len(listing'), listing'[i].ip = x PROVE listing'[i].pod \in T
  <2>1. listing'[i].pod \in Existing /\ cluster[listing'[i].pod].ip = x
    BY <1>1, <1>2, ListingFacts DEF IInv
  <2>2. listing'[i].pod \in Pods /\ cluster[listing'[i].pod].phase \in {"running", "completed"}
    BY <2>1 DEF CacheInv, ClusterInv, Existing
  <2>3. QED
    BY <1>1, <2>1, <2>2
<1>3. \A i \in 1..Len(stream'), p \in Pods : EntersAt(i, p, x)' => p \in T
  BY <1>1 DEF SourcesIn, EntersAt
<1>4. QED
  BY <1>1, <1>2, <1>3 DEF SourcesIn

LEMMA ResyncApplySources ==
    ASSUME IInv, CacheInv, IInv', ResyncApply, NEW x, NEW S, NEW T, S \subseteq T, SourcesIn(x, S),
           \A p \in Pods : cluster'[p].phase \in {"running", "completed"} /\ cluster'[p].ip = x => p \in T
    PROVE  SourcesIn(x, T)'
<1>1. /\ listing \in Seq(Object) /\ listing # <<>> /\ listing' = Tail(listing)
      /\ stream' = stream /\ HandlePodApply(Head(listing))
  BY DEF ResyncApply, IInv, TypeOK
<1>2. /\ 1 \in 1..Len(listing) /\ Head(listing) = listing[1] /\ listing[1] \in Object
      /\ \A i \in 1..Len(listing') : i + 1 \in 1..Len(listing) /\ listing'[i] = listing[i + 1]
  BY <1>1
<1>3. EnteredBy(cache, cache', listing[1].ip, listing[1].pod)
  BY <1>1, <1>2, ApplyEffect
<1>4. x = listing[1].ip => listing[1].pod \in S
  BY <1>2 DEF SourcesIn
<1>5. ASSUME x \in DOMAIN cache'.by_ip PROVE cache'.by_ip[x] \in T
  <2>1. x \in DOMAIN cache.by_ip => cache.by_ip[x] \in S
    BY DEF SourcesIn
  <2>2. cache'.by_ip[x] \in S
    BY <1>3, <1>4, <1>5, <2>1, EnterSources
  <2>3. QED
    BY <2>2
<1>6. \A i \in 1..Len(listing') : listing'[i].ip = x => listing'[i].pod \in T
  BY <1>2 DEF SourcesIn
<1>7. \A i \in 1..Len(stream'), p \in Pods : EntersAt(i, p, x)' => p \in T
  BY <1>1 DEF SourcesIn, EntersAt
<1>8. QED
  BY <1>5, <1>6, <1>7 DEF SourcesIn

LEMMA StepSources ==
    ASSUME IInv, CacheInv, [Next]_vars, NEW x, x # NoIp, NEW S, NEW T, S \subseteq T, SourcesIn(x, S),
           \A p \in Pods : cluster'[p].phase \in {"running", "completed"} /\ cluster'[p].ip = x => p \in T
    PROVE  SourcesIn(x, T)'
<1>0. IInv'
  BY StepIInv
<1>1. CASE ClusterStep
  BY <1>1, ChangeSources
<1>2. CASE OpenWatch
  BY <1>2, OpenWatchSources
<1>3. CASE WatchEvent
  BY <1>0, <1>3, WatchEventSources
<1>4. CASE ListReply
  BY <1>4, ListReplySources
<1>5. CASE ResyncApply
  BY <1>0, <1>5, ResyncApplySources
<1>6. CASE \/ WatchFails \/ WatchEnds \/ ListFails \/ BackoffElapsed \/ StartResync
           \/ ResyncDone \/ Stop \/ Cancel \/ UNCHANGED vars
  <2>1. /\ cache' = cache /\ listing' = listing
        /\ stream' = stream \/ stream' = <<>>
    BY <1>6 DEF WatchFails, WatchEnds, ListFails, BackoffElapsed, StartResync,
                ResyncDone, Stop, Cancel, vars
  <2>2. \A i \in 1..Len(stream'), p \in Pods : EntersAt(i, p, x)' => p \in T
    <3>1. CASE stream' = stream
      BY <3>1 DEF SourcesIn, EntersAt
    <3>2. CASE stream' = <<>>
      BY <3>2
    <3>3. QED
      BY <2>1, <3>1, <3>2
  <2>3. QED
    BY <2>1, <2>2 DEF SourcesIn
<1>7. QED
  BY <1>1, <1>2, <1>3, <1>4, <1>5, <1>6 DEF Next, WatcherStep, Fault
-----------------------------------------------------------------------------
(***************************************************************************)
(* A pod runs once.                                                        *)
(***************************************************************************)
LEMMA RunsOnce ==
    ASSUME IInv, CacheInv, [Next]_vars, NEW p \in Pods, Started(p)
    PROVE  Started(p)' /\ (p \in Running' => p \in Running)
<1>1. CASE ClusterStep
  <2>1. PICK q \in Pods, state \in PodState, kind \in {"Apply", "Delete"} : ChangeFacts(q, state, kind)
    BY <1>1, ClusterFacts
  <2>2. QED
    BY <2>1, ChangedCluster DEF ChangeFacts, Started, Running
<1>2. CASE cluster' = cluster
  BY <1>2 DEF Started, Running
<1>3. QED
  BY <1>1, <1>2 DEF Next, WatcherStep, Fault, Cancel, OpenWatch, WatchEvent, BackoffElapsed,
     StartResync, ListReply, ResyncApply, ResyncDone, Stop, WatchFails, WatchEnds, ListFails,
     vars, clusterVars

LEMMA KnownStays ==
    ASSUME IInv, CacheInv, [Next]_vars, NEW p, p \in Running, p \in Running', NEW ip, KnownAt(p, ip)
    PROVE  KnownAt(p, ip)'
<1>0. IInv' /\ ClusterInv /\ ClusterInv'
  BY StepIInv, StepCacheInv DEF CacheInv
<1>1. p \in Pods /\ ip \in Ips /\ p \in Existing'
  BY <1>0 DEF ClusterInv, KnownAt, Running, Existing
<1>2. cluster'[p].ip = ip /\ ip \notin reused'
  <2>1. CASE ClusterStep
    <3>1. PICK q \in Pods, state \in PodState, kind \in {"Apply", "Delete"} : ChangeFacts(q, state, kind)
      BY <2>1, ClusterFacts
    <3>2. QED
      BY <1>1, <3>1, ChangedCluster DEF ChangeFacts, KnownAt
  <2>2. CASE UNCHANGED <<cluster, reused>>
    BY <2>2 DEF KnownAt
  <2>3. QED
    BY <2>1, <2>2 DEF Next, WatcherStep, Fault, Cancel, OpenWatch, WatchEvent, BackoffElapsed,
       StartResync, ListReply, ResyncApply, ResyncDone, Stop, WatchFails, WatchEnds, ListFails,
       vars, clusterVars
<1>3. \A q \in Pods : cluster'[q].phase \in {"running", "completed"} /\ cluster'[q].ip = ip => q \in {p}
  <2> SUFFICES ASSUME NEW q \in Pods, cluster'[q].phase \in {"running", "completed"},
                      cluster'[q].ip = ip, q # p
               PROVE  FALSE
    OBVIOUS
  <2>1. q \in Existing'
    BY DEF Existing
  <2>2. ip \in reused' \cup {NoIp}
    BY <1>0, <1>1, <1>2, <2>1 DEF ClusterInv
  <2>3. QED
    BY <1>1, <1>2, <2>2, IpsAssumption
<1>4. SourcesIn(ip, {p})'
  <2>1. SourcesIn(ip, {p}) /\ ip # NoIp
    BY <1>1, IpsAssumption DEF KnownAt
  <2>2. \A S : S = {p} /\ SourcesIn(ip, S) => SourcesIn(ip, S)'
    BY <1>3, <2>1, StepSources
  <2>3. QED
    BY <2>1, <2>2
<1>5. ip \in DOMAIN cache'.by_ip
  <2>0. ip \in DOMAIN cache.by_ip /\ cache.by_ip[ip] = p
    BY DEF KnownAt, SourcesIn
  <2>1. CASE WatchEvent
    <3>1. Shifted /\ EventEffect(stream[1])
      BY <2>1, WatchEventFacts
    <3>2. CASE stream[1].kind = "Apply"
      BY <2>0, <3>1, <3>2 DEF EventEffect, EnteredBy
    <3>3. CASE stream[1].kind = "Delete"
      <4>1. stream[1].object.pod \in Pods /\ RemovedBy(cache, cache', stream[1].object.pod)
        BY <3>1, <3>3 DEF EventEffect, Object
      <4>2. stream[1].object.pod # p
        BY <1>1, <3>1, <3>3, <4>1 DEF CacheInv, StreamInv, RemovesAt, Shifted, Running
      <4>3. QED
        BY <2>0, <4>1, <4>2 DEF RemovedBy
    <3>4. CASE cache' = cache
      BY <2>0, <3>4
    <3>5. QED
      BY <3>1, <3>2, <3>3, <3>4 DEF EventEffect
  <2>2. CASE ResyncApply
    <3>1. Head(listing) \in Object /\ HandlePodApply(Head(listing))
      BY <2>2 DEF ResyncApply, IInv, TypeOK
    <3>2. QED
      BY <2>0, <3>1, ApplyEffect DEF EnteredBy
  <2>3. CASE cache' = cache
    BY <2>0, <2>3
  <2>4. QED
    BY <2>1, <2>2, <2>3 DEF Next, ClusterStep, CreatePod, StartPod, RestartContainer, CompletePod,
       DeletePod, Change, WatcherStep, Fault, Cancel, OpenWatch, BackoffElapsed,
       StartResync, ListReply, ResyncDone, Stop, WatchFails, WatchEnds, ListFails, vars
<1>6. QED
  BY <1>2, <1>4, <1>5 DEF KnownAt
-----------------------------------------------------------------------------
(***************************************************************************)
(* The steps of the packet, which leave the watcher alone.                 *)
(***************************************************************************)
LEMMA PacketStep == [AttrNext]_attrVars => [Next]_vars
  BY DEF AttrNext, attrVars, Capture, LookupSrc, Attribute, Elsewhere

LEMMA SourcesUnchanged ==
    ASSUME UNCHANGED vars, NEW x, NEW S, SourcesIn(x, S)
    PROVE  SourcesIn(x, S)'
  BY DEF vars, SourcesIn, EntersAt, clusterVars

LEMMA KnownUnchanged ==
    ASSUME UNCHANGED vars, NEW p, NEW ip, KnownAt(p, ip)
    PROVE  KnownAt(p, ip)'
<1>1. SourcesIn(ip, {p})'
  <2>1. \A S : S = {p} => SourcesIn(ip, S)'
    BY SourcesUnchanged DEF KnownAt
  <2>2. QED
    BY <2>1
<1>2. QED
  BY <1>1 DEF KnownAt, vars, clusterVars

(***************************************************************************)
(* The parts of the invariant after a step, from values that name sure,    *)
(* the packet and owners after it.                                         *)
(***************************************************************************)
LEMMA KnownNext ==
    ASSUME NEW s, NEW near, s = sure', near = Near(packet)', KnownAt(s, near)'
    PROVE  KnownAt(sure, Near(packet))'
  BY DEF KnownAt, SourcesIn, EntersAt

LEMMA OwnersNext ==
    ASSUME NEW T, NEW src, NEW dst, T = owners', src = packet'.src, dst = packet'.dst,
           SourcesIn(src, T)', SourcesIn(dst, T)'
    PROVE  SourcesIn(packet.src, owners)' /\ SourcesIn(packet.dst, owners)'
  BY DEF SourcesIn, EntersAt

(***************************************************************************)
(* At the capture RunningPodsResolve says that the pod is known, and       *)
(* GhostsNeedFaults that nobody else has been.                             *)
(***************************************************************************)
LEMMA CaptureKnows ==
    ASSUME IInv, CacheInv, CaughtUp, NEW p \in Running, cluster[p].ip \notin reused,
           GetByIp(cluster[p].ip) # NoPod
    PROVE  KnownAt(p, cluster[p].ip)
<1>1. stream = <<>> /\ listing = <<>>
  BY DEF CaughtUp, CacheInv, StreamInv
<1>2. ClusterInv /\ p \in Existing /\ cluster[p].ip \in Ips
  BY DEF CacheInv, ClusterInv, Running, Existing
<1>3. cluster[p].ip \in DOMAIN cache.by_ip
  BY DEF GetByIp
<1>4. cache.by_ip[cluster[p].ip] = p
  BY <1>3, CaughtUpResolves DEF RunningPodsResolve
<1>5. ASSUME NEW q \in Pods, cluster[q].phase \in {"running", "completed"}, cluster[q].ip = cluster[p].ip
      PROVE  q = p
  <2>1. q \in Existing
    BY <1>5 DEF Existing
  <2>2. QED
    BY <1>2, <1>5, <2>1, IpsAssumption DEF ClusterInv
<1>6. SourcesIn(cluster[p].ip, {p})
  BY <1>1, <1>4, <1>5 DEF SourcesIn
<1>7. QED
  BY <1>3, <1>6 DEF KnownAt

LEMMA CaptureSources ==
    ASSUME IInv, CacheInv, NEW pkt, NEW x \in {pkt.src, pkt.dst}
    PROVE  SourcesIn(x, IF CaughtUp /\ faults = 0 THEN OwnersIn(cluster, pkt) ELSE Pods)
<1>1. CASE CaughtUp /\ faults = 0
  <2> DEFINE S == OwnersIn(cluster, pkt)
  <2>1. stream = <<>> /\ listing = <<>>
    BY <1>1 DEF CaughtUp, CacheInv, StreamInv
  <2>2. ASSUME x \in DOMAIN cache.by_ip PROVE cache.by_ip[x] \in S
    <3>1. cache.by_ip[x] \in Existing /\ cluster[cache.by_ip[x]].ip = x
      BY <1>1, <2>2, CaughtUpHasNoGhosts DEF NoGhosts
    <3>2. x \in Ips
      BY <2>2 DEF IInv, CacheOK, IsCache, IsPodMap
    <3>3. cache.by_ip[x] \in Pods /\ cluster[cache.by_ip[x]].phase \in {"running", "completed"}
      BY <3>1, <3>2, IpsAssumption DEF CacheInv, ClusterInv, Existing
    <3>4. QED
      BY <3>1, <3>3 DEF OwnersIn
  <2>3. \A p \in Pods : cluster[p].phase \in {"running", "completed"} /\ cluster[p].ip = x => p \in S
    BY DEF OwnersIn
  <2> HIDE DEF S
  <2>4. SourcesIn(x, S)
    BY <2>1, <2>2, <2>3 DEF SourcesIn
  <2>5. QED
    BY <1>1, <2>4 DEF S
<1>2. CASE ~(CaughtUp /\ faults = 0)
  <2>1. x \in DOMAIN cache.by_ip => cache.by_ip[x] \in Pods
    BY DEF IInv, CacheOK, IsCache, IsPodMap
  <2>2. \A i \in 1..Len(listing) : listing[i].pod \in Pods
    <3>1. \A i \in 1..Len(listing) : listing[i] \in Object
      BY DEF IInv, TypeOK
    <3>2. QED
      BY <3>1 DEF Object
  <2>3. SourcesIn(x, Pods)
    BY <2>1, <2>2 DEF SourcesIn
  <2>4. QED
    BY <1>2, <2>3
<1>3. QED
  BY <1>1, <1>2

LEMMA CaptureInv ==
    ASSUME AttrInv, NEW src \in Addresses, NEW dst \in Addresses, NEW ingress \in BOOLEAN,
           Capture([src |-> src, dst |-> dst, ingress |-> ingress])
    PROVE  PacketInv' /\ SureInv' /\ OwnersInv'
<1>1. PICK pkt : pkt = [src |-> src, dst |-> dst, ingress |-> ingress]
  OBVIOUS
<1>2. pkt.src = src /\ pkt.dst = dst /\ pkt.ingress = ingress
  BY <1>1
<1>3. /\ stage = "none" /\ stage' = "captured" /\ packet' = pkt
      /\ UNCHANGED vars /\ srcPod' = NoPod /\ name' = NoPod
  BY <1>1 DEF Capture, AttrInv, PacketInv
<1>4. /\ sure' = IF /\ CaughtUp
                    /\ \E p \in Running : cluster[p].ip = Near(pkt)
                    /\ Near(pkt) \notin reused
                    /\ GetByIp(Near(pkt)) # NoPod
                 THEN CHOOSE p \in Running : cluster[p].ip = Near(pkt)
                 ELSE NoPod
      /\ owners' = IF CaughtUp /\ faults = 0 THEN OwnersIn(cluster, pkt) ELSE Pods
  BY <1>1 DEF Capture
<1>5. cluster' = cluster /\ Running' = Running /\ Running \subseteq Pods
  BY <1>3 DEF vars, clusterVars, Running
<1>6. ASSUME sure' = NoPod PROVE SureInv'
  BY <1>5, <1>6, NoPodAssumption DEF SureInv
<1>7. ASSUME sure' # NoPod PROVE SureInv'
  <2>1. PICK s \in Running : s = sure' /\ cluster[s].ip = Near(pkt)
    BY <1>4, <1>7
  <2>2. KnownAt(s, cluster[s].ip)
    BY <1>4, <1>7, <2>1, CaptureKnows DEF AttrInv
  <2>3. PICK near : near = Near(pkt)
    OBVIOUS
  <2>4. KnownAt(s, near)'
    BY <1>3, <2>1, <2>2, <2>3, KnownUnchanged
  <2>5. near = Near(packet)'
    BY <1>3, <2>3 DEF Near
  <2>6. KnownAt(sure, Near(packet))'
    BY <2>1, <2>4, <2>5, KnownNext
  <2>7. Started(sure)'
    BY <1>5, <2>1 DEF Started, Running
  <2>8. QED
    BY <1>3, <2>6, <2>7 DEF SureInv
<1>8. SureInv'
  BY <1>6, <1>7
<1>9. OwnersInv'
  <2>1. PICK T : T = owners'
    OBVIOUS
  <2>2. SourcesIn(src, T) /\ SourcesIn(dst, T)
    BY <1>2, <1>4, <2>1, CaptureSources DEF AttrInv
  <2>3. SourcesIn(src, T)' /\ SourcesIn(dst, T)'
    BY <1>3, <2>2, SourcesUnchanged
  <2>4. SourcesIn(packet.src, owners)' /\ SourcesIn(packet.dst, owners)'
    BY <1>2, <1>3, <2>1, <2>3, OwnersNext
  <2>5. QED
    BY <1>3, <2>4 DEF OwnersInv
<1>10. PacketInv'
  <2>1. sure' \in Pods \cup {NoPod}
    BY <1>4, <1>5
  <2>2. QED
    BY <1>2, <1>3, <2>1 DEF PacketInv
<1>11. QED
  BY <1>8, <1>9, <1>10

(***************************************************************************)
(* The lookups take what the cache has; the near end is the pod that was   *)
(* sure, if it still runs.                                                 *)
(***************************************************************************)
LEMMA LookupOwners ==
    ASSUME NEW x, NEW S, SourcesIn(x, S)
    PROVE  GetByIp(x) \in S \cup {NoPod}
  BY DEF GetByIp, SourcesIn

LEMMA LookupKnown ==
    ASSUME NEW p, NEW ip, KnownAt(p, ip)
    PROVE  GetByIp(ip) = p
  BY DEF GetByIp, KnownAt, SourcesIn

LEMMA LookupSrcInv ==
    ASSUME AttrInv, LookupSrc
    PROVE  PacketInv' /\ SureInv' /\ OwnersInv'
<1>1. /\ stage = "captured" /\ stage' = "half" /\ srcPod' = GetByIp(packet.src)
      /\ UNCHANGED <<vars, packet, name, sure, owners>>
  BY DEF LookupSrc
<1>2. cluster' = cluster /\ Running' = Running
  BY <1>1 DEF vars, clusterVars, Running
<1>3. SureInv'
  <2>1. sure \in Pods => Started(sure)'
    BY <1>1, <1>2 DEF AttrInv, SureInv, Started
  <2>2. ASSUME sure \in Running
        PROVE  KnownAt(sure, Near(packet))' /\ (~packet.ingress => srcPod' = sure)
    <3>1. KnownAt(sure, Near(packet))
      BY <1>1, <2>2 DEF AttrInv, SureInv
    <3>2. PICK s, near : s = sure /\ near = Near(packet)
      OBVIOUS
    <3>3. KnownAt(s, near)'
      BY <1>1, <3>1, <3>2, KnownUnchanged
    <3>4. KnownAt(sure, Near(packet))'
      BY <1>1, <3>2, <3>3, KnownNext DEF Near
    <3>5. ~packet.ingress => srcPod' = sure
      BY <1>1, <3>1, LookupKnown DEF Near
    <3>6. QED
      BY <3>4, <3>5
  <2>3. QED
    BY <1>1, <1>2, <2>1, <2>2 DEF SureInv
<1>4. OwnersInv'
  <2>1. PICK T, src, dst : T = owners /\ src = packet.src /\ dst = packet.dst
    OBVIOUS
  <2>2. SourcesIn(src, T) /\ SourcesIn(dst, T) /\ name \in T \cup {NoPod}
    BY <1>1, <2>1 DEF AttrInv, OwnersInv
  <2>3. SourcesIn(src, T)' /\ SourcesIn(dst, T)'
    BY <1>1, <2>2, SourcesUnchanged
  <2>4. SourcesIn(packet.src, owners)' /\ SourcesIn(packet.dst, owners)'
    BY <1>1, <2>1, <2>3, OwnersNext
  <2>5. srcPod' \in owners \cup {NoPod}
    BY <1>1, <2>1, <2>2, LookupOwners
  <2>6. QED
    BY <1>1, <2>1, <2>2, <2>4, <2>5 DEF OwnersInv
<1>5. PacketInv'
  BY <1>1 DEF AttrInv, PacketInv
<1>6. QED
  BY <1>3, <1>4, <1>5

LEMMA AttributeInv ==
    ASSUME AttrInv, Attribute
    PROVE  PacketInv' /\ SureInv' /\ OwnersInv'
<1>1. /\ stage = "half" /\ stage' = "named"
      /\ UNCHANGED <<vars, packet, srcPod, sure, owners>>
  BY DEF Attribute
<1>a. PICK dstPod : dstPod = GetByIp(packet.dst)
  OBVIOUS
<1>b. name' = IF packet.ingress THEN (IF dstPod # NoPod THEN dstPod ELSE srcPod)
                                ELSE (IF srcPod # NoPod THEN srcPod ELSE dstPod)
  BY <1>a DEF Attribute, AttrInv, PacketInv
<1>2. cluster' = cluster /\ Running' = Running /\ Running \subseteq Pods
  BY <1>1 DEF vars, clusterVars, Running
<1>3. SureInv'
  <2>1. sure \in Pods => Started(sure)'
    BY <1>1, <1>2 DEF AttrInv, SureInv, Started
  <2>2. ASSUME sure \in Running
        PROVE  KnownAt(sure, Near(packet))' /\ name' = sure
    <3>1. KnownAt(sure, Near(packet)) /\ (~packet.ingress => srcPod = sure) /\ sure # NoPod
      BY <1>1, <1>2, <2>2, NoPodAssumption DEF AttrInv, SureInv
    <3>2. PICK s, near : s = sure /\ near = Near(packet)
      OBVIOUS
    <3>3. KnownAt(s, near)'
      BY <1>1, <3>1, <3>2, KnownUnchanged
    <3>4. KnownAt(sure, Near(packet))'
      BY <1>1, <3>2, <3>3, KnownNext DEF Near
    <3>5. packet.ingress => dstPod = sure
      BY <1>a, <3>1, LookupKnown DEF Near
    <3>6. name' = sure
      BY <1>b, <3>1, <3>5
    <3>7. QED
      BY <3>4, <3>6
  <2>3. QED
    BY <1>1, <1>2, <2>1, <2>2 DEF SureInv
<1>4. OwnersInv'
  <2>1. PICK T, src, dst : T = owners /\ src = packet.src /\ dst = packet.dst
    OBVIOUS
  <2>2. SourcesIn(src, T) /\ SourcesIn(dst, T) /\ srcPod \in T \cup {NoPod}
    BY <1>1, <2>1 DEF AttrInv, OwnersInv
  <2>3. SourcesIn(src, T)' /\ SourcesIn(dst, T)'
    BY <1>1, <2>2, SourcesUnchanged
  <2>4. SourcesIn(packet.src, owners)' /\ SourcesIn(packet.dst, owners)'
    BY <1>1, <2>1, <2>3, OwnersNext
  <2>5. dstPod \in T \cup {NoPod}
    BY <1>a, <2>1, <2>2, LookupOwners
  <2>6. name' \in T \cup {NoPod}
    BY <1>b, <2>2, <2>5
  <2>7. QED
    BY <1>1, <2>1, <2>2, <2>4, <2>6 DEF OwnersInv
<1>5. PacketInv'
  BY <1>1 DEF AttrInv, PacketInv
<1>6. QED
  BY <1>3, <1>4, <1>5

(***************************************************************************)
(* A step of the watcher or the cluster, or none at all, while the packet  *)
(* waits.                                                                  *)
(***************************************************************************)
LEMMA WaitInv ==
    ASSUME AttrInv, [Next]_vars, UNCHANGED <<stage, packet, srcPod, name, sure>>,
           owners \subseteq owners',
           stage # "none" => OwnersIn(cluster', packet) \subseteq owners'
    PROVE  PacketInv' /\ SureInv' /\ OwnersInv'
<1>1. IInv /\ CacheInv /\ PacketInv /\ SureInv /\ OwnersInv
  BY DEF AttrInv
<1>2. SureInv'
  <2> SUFFICES ASSUME stage # "none" PROVE SureInv'
    BY DEF SureInv
  <2>1. sure \in Pods => Started(sure)' /\ (sure \in Running' => sure \in Running)
    <3>1. \A p \in Pods : Started(p) => Started(p)' /\ (p \in Running' => p \in Running)
      BY <1>1, RunsOnce
    <3>2. \A p : p = sure /\ Started(p)' => Started(sure)'
      BY DEF Started
    <3>3. QED
      BY <1>1, <3>1, <3>2 DEF SureInv
  <2>2. ASSUME sure \in Running'
        PROVE  /\ KnownAt(sure, Near(packet))'
               /\ stage = "half" /\ ~packet.ingress => srcPod = sure
               /\ stage = "named" => name = sure
    <3>1. sure \in Running
      BY <2>1, <2>2 DEF Running
    <3>2. PICK s, near : s = sure /\ near = Near(packet)
      OBVIOUS
    <3>3. KnownAt(s, near)
      BY <1>1, <3>1, <3>2 DEF SureInv
    <3>4. KnownAt(s, near)'
      BY <1>1, <2>2, <3>1, <3>2, <3>3, KnownStays
    <3>5. KnownAt(sure, Near(packet))'
      BY <3>2, <3>4, KnownNext DEF Near
    <3>6. QED
      BY <1>1, <3>1, <3>5 DEF SureInv
  <2>3. QED
    BY <2>1, <2>2 DEF SureInv
<1>3. OwnersInv'
  <2> SUFFICES ASSUME stage # "none" PROVE OwnersInv'
    BY DEF OwnersInv
  <2>1. PICK S, T, src, dst : S = owners /\ T = owners' /\ src = packet.src /\ dst = packet.dst
    OBVIOUS
  <2>2. /\ SourcesIn(src, S) /\ SourcesIn(dst, S) /\ S \subseteq T
        /\ srcPod \in S \cup {NoPod} /\ name \in S \cup {NoPod}
    BY <1>1, <2>1 DEF OwnersInv
  <2>3. src # NoIp /\ dst # NoIp
    BY <1>1, <2>1, IpsAssumption, OutsideAssumption DEF PacketInv, Addresses
  <2>4. \A x \in {src, dst} : \A p \in Pods :
            cluster'[p].phase \in {"running", "completed"} /\ cluster'[p].ip = x => p \in T
    BY <2>1 DEF OwnersIn
  <2>5. SourcesIn(src, T)'
    BY <1>1, <2>2, <2>3, <2>4, StepSources
  <2>6. SourcesIn(dst, T)'
    BY <1>1, <2>2, <2>3, <2>4, StepSources
  <2>7. SourcesIn(packet.src, owners)' /\ SourcesIn(packet.dst, owners)'
    BY <2>1, <2>5, <2>6, OwnersNext
  <2>8. QED
    BY <2>1, <2>2, <2>7 DEF OwnersInv
<1>4. PacketInv'
  BY <1>1 DEF PacketInv
<1>5. QED
  BY <1>2, <1>3, <1>4

LEMMA InitAttrInv == AttrInit => AttrInv
<1> SUFFICES ASSUME AttrInit PROVE AttrInv
  OBVIOUS
<1>1. IInv /\ CacheInv
  BY InitIInv, InitCacheInv DEF AttrInit
<1>2. PacketInv /\ SureInv /\ OwnersInv
  BY DEF AttrInit, PacketInv, SureInv, OwnersInv, Addresses
<1>3. QED
  BY <1>1, <1>2 DEF AttrInv

LEMMA StepAttrInv == AttrInv /\ [AttrNext]_attrVars => AttrInv'
<1> SUFFICES ASSUME AttrInv, [AttrNext]_attrVars PROVE AttrInv'
  OBVIOUS
<1>1. [Next]_vars
  BY PacketStep
<1>2. IInv' /\ CacheInv'
  BY <1>1, StepIInv, StepCacheInv DEF AttrInv
<1> SUFFICES PacketInv' /\ SureInv' /\ OwnersInv'
  BY <1>2 DEF AttrInv
<1>3. ASSUME NEW src \in Addresses, NEW dst \in Addresses, NEW ingress \in BOOLEAN,
             Capture([src |-> src, dst |-> dst, ingress |-> ingress])
      PROVE  PacketInv' /\ SureInv' /\ OwnersInv'
  BY <1>3, CaptureInv
<1>4. CASE LookupSrc
  BY <1>4, LookupSrcInv
<1>5. CASE Attribute
  BY <1>5, AttributeInv
<1>6. CASE Elsewhere
  <2>1. UNCHANGED <<stage, packet, srcPod, name, sure>> /\ owners \subseteq owners'
    BY <1>6 DEF Elsewhere
  <2>2. stage # "none" => OwnersIn(cluster', packet) \subseteq owners'
    BY <1>6 DEF Elsewhere, AttrInv, PacketInv
  <2>3. QED
    BY <1>1, <2>1, <2>2, WaitInv
<1>7. CASE UNCHANGED attrVars
  <2>1. UNCHANGED <<stage, packet, srcPod, name, sure>> /\ owners' = owners /\ cluster' = cluster
    BY <1>7 DEF attrVars, packetVars, vars, clusterVars
  <2>2. stage # "none" => OwnersIn(cluster', packet) \subseteq owners'
    BY <2>1 DEF AttrInv, OwnersInv, SourcesIn, OwnersIn
  <2>3. QED
    BY <1>1, <1>2, <2>1, <2>2, WaitInv DEF AttrInv
<1>8. QED
  BY <1>3, <1>4, <1>5, <1>6, <1>7 DEF AttrNext

LEMMA AttrInductive == AttrSpec => []AttrInv
  BY InitAttrInv, StepAttrInv, PTL DEF AttrSpec

(***************************************************************************)
(* The event loop books a packet on the pod it belongs to when the cache   *)
(* knew the pod at the capture and the pod still runs.                     *)
(***************************************************************************)
THEOREM StableAttribution == AttrSpec => []AttributionStable
<1>1. AttrInv => AttributionStable
  BY DEF AttrInv, SureInv, AttributionStable
<1>2. QED
  BY <1>1, AttrInductive, PTL

(***************************************************************************)
(* The event loop books no packet on a pod that was gone at the capture,   *)
(* when the cache was true then.                                           *)
(***************************************************************************)
THEOREM HonestAttribution == AttrSpec => []AttributionHonest
<1>1. AttrInv => AttributionHonest
  BY DEF AttrInv, OwnersInv, AttributionHonest
<1>2. QED
  BY <1>1, AttrInductive, PTL
=============================================================================
