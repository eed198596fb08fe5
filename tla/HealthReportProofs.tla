------------------------- MODULE HealthReportProofs -------------------------
(***************************************************************************)
(* Proofs about the health report, for any number of stores during a       *)
(* request, any counter values and any threshold of the kubelet.           *)
(***************************************************************************)
EXTENDS HealthReport, SequenceTheorems, TLAPS

Kinds == {"liveness", "readiness", "status"}
Fields == Flags \cup Counters

HealthOK(h) ==
    /\ DOMAIN h = Fields /\ h = [f \in DOMAIN h |-> h[f]]
    /\ \A f \in Flags : h[f] \in BOOLEAN
    /\ \A c \in Counters : h[c] \in Nat

LoadsOK ==
    /\ request \in Kinds \cup {"idle"}
    /\ seen \in Seq(BOOLEAN \cup Nat)
    /\ request = "idle" => seen = <<>>
    /\ request # "idle" => Len(seen) <= Len(Loads(request))

(***************************************************************************)
(* What was loaded was the case at some moment of the request.             *)
(***************************************************************************)
FactsInv ==
    request # "idle" =>
        /\ Facts(health) \subseteq facts
        /\ \A i \in 1..Len(seen) :
              Loads(request)[i] \in Flags =>
                  seen[i] \in BOOLEAN /\ <<Loads(request)[i], seen[i]>> \in facts

(***************************************************************************)
(* So was what a pair of loads says of the agent: probes found attached    *)
(* stay so, and the second load then decides.  There are three such pairs, *)
(* for the status, the first two issues and the severity.                  *)
(***************************************************************************)
Pairs == {1, 3, 10}
StatusInv ==
    request \in {"liveness", "status"} =>
        \A k \in Pairs :
            /\ Len(seen) >= k /\ seen[k] = FALSE => <<"healthy", FALSE>> \in facts
            /\ Len(seen) >= k + 1 => <<"healthy", Healthy(seen[k], seen[k + 1])>> \in facts

(***************************************************************************)
(* Probes once found attached are attached, now and in every later load.   *)
(***************************************************************************)
AttachedInv ==
    \A i \in 1..Len(seen) :
        Loads(request)[i] = "probes_attached" /\ seen[i] = TRUE => health.probes_attached = TRUE

(***************************************************************************)
(* A counter that was not 0 when the request came is loaded as such.       *)
(***************************************************************************)
CountedInv ==
    /\ before \in BOOLEAN
    /\ request = "idle" => before = FALSE
    /\ before = TRUE =>
          \E c \in Counters :
              /\ health[c] > 0
              /\ \A i \in 1..Len(seen) : Loads(request)[i] = c => seen[i] > 0

IInv ==
    /\ HealthOK(health) /\ LoadsOK
    /\ FactsInv /\ StatusInv /\ AttachedInv /\ CountedInv
-----------------------------------------------------------------------------
LEMMA Joined ==
    ASSUME NEW S, NEW s \in Seq(S), NEW t \in Seq(S)
    PROVE  /\ s \o t \in Seq(S) /\ Len(s \o t) = Len(s) + Len(t)
           /\ \A i \in 1..Len(s) : (s \o t)[i] = s[i]
           /\ \A i \in 1..Len(t) : (s \o t)[Len(s) + i] = t[i]
  OBVIOUS

LEMMA MessageLoadsFacts ==
    /\ MessageLoads \in Seq(Fields) /\ Len(MessageLoads) = 7
    /\ MessageLoads[1] = "probes_attached" /\ MessageLoads[2] = "flow_table_at_capacity"
    /\ MessageLoads[3] = "k8s_watcher_connected" /\ MessageLoads[4] = "pod_cache_at_capacity"
    /\ MessageLoads[5] = "broadcast_drops" /\ MessageLoads[6] = "flow_evictions"
    /\ MessageLoads[7] = "pod_cache_evictions"
<1> DEFINE rest == <<"k8s_watcher_connected", "pod_cache_at_capacity",
                     "broadcast_drops", "flow_evictions", "pod_cache_evictions">>
<1>1. /\ HealthyLoads \in Seq(Fields) /\ Len(HealthyLoads) = 2
      /\ HealthyLoads[1] = "probes_attached" /\ HealthyLoads[2] = "flow_table_at_capacity"
  BY DEF HealthyLoads, Fields, Flags, Counters
<1>2. /\ rest \in Seq(Fields) /\ Len(rest) = 5
      /\ rest[1] = "k8s_watcher_connected" /\ rest[2] = "pod_cache_at_capacity"
      /\ rest[3] = "broadcast_drops" /\ rest[4] = "flow_evictions"
      /\ rest[5] = "pod_cache_evictions"
  BY DEF Fields, Flags, Counters
<1>3. MessageLoads = HealthyLoads \o rest
  BY DEF MessageLoads
<1> HIDE DEF rest
<1>4. HealthyLoads \in Seq(Fields) /\ rest \in Seq(Fields)
  BY <1>1, <1>2
<1>5. /\ MessageLoads \in Seq(Fields) /\ Len(MessageLoads) = Len(HealthyLoads) + Len(rest)
      /\ \A i \in 1..Len(HealthyLoads) : MessageLoads[i] = HealthyLoads[i]
      /\ \A i \in 1..Len(rest) : MessageLoads[Len(HealthyLoads) + i] = rest[i]
  BY <1>3, <1>4, Joined
<1>6. /\ Len(MessageLoads) = 7
      /\ MessageLoads[1] = HealthyLoads[1] /\ MessageLoads[2] = HealthyLoads[2]
      /\ MessageLoads[3] = rest[1] /\ MessageLoads[4] = rest[2] /\ MessageLoads[5] = rest[3]
      /\ MessageLoads[6] = rest[4] /\ MessageLoads[7] = rest[5]
  BY <1>1, <1>2, <1>5
<1>7. QED
  BY <1>1, <1>2, <1>5, <1>6

LEMMA LoadsFacts ==
    /\ Len(Loads("readiness")) = 1 /\ Loads("readiness")[1] = "probes_attached"
    /\ \A kind \in {"liveness", "status"} :
          /\ Len(Loads(kind)) = 11
          /\ Loads(kind)[1] = "probes_attached" /\ Loads(kind)[2] = "flow_table_at_capacity"
          /\ \A i \in 1..7 : Loads(kind)[2 + i] = MessageLoads[i]
          /\ Loads(kind)[10] = "probes_attached" /\ Loads(kind)[11] = "flow_table_at_capacity"
<1>1. /\ HealthyLoads \in Seq(Fields) /\ Len(HealthyLoads) = 2
      /\ HealthyLoads[1] = "probes_attached" /\ HealthyLoads[2] = "flow_table_at_capacity"
  BY DEF HealthyLoads, Fields, Flags, Counters
<1> DEFINE front == HealthyLoads \o MessageLoads
           all   == front \o HealthyLoads
<1>2. HealthyLoads \in Seq(Fields) /\ MessageLoads \in Seq(Fields)
  BY <1>1, MessageLoadsFacts
<1>3. /\ front \in Seq(Fields) /\ Len(front) = Len(HealthyLoads) + Len(MessageLoads)
      /\ \A i \in 1..Len(HealthyLoads) : front[i] = HealthyLoads[i]
      /\ \A i \in 1..Len(MessageLoads) : front[Len(HealthyLoads) + i] = MessageLoads[i]
  BY <1>2, Joined
<1> HIDE DEF front
<1>4. /\ Len(all) = Len(front) + Len(HealthyLoads)
      /\ \A i \in 1..Len(front) : all[i] = front[i]
      /\ \A i \in 1..Len(HealthyLoads) : all[Len(front) + i] = HealthyLoads[i]
  <2>1. front \in Seq(Fields)
    BY <1>3
  <2>2. QED
    BY <1>2, <2>1, Joined
<1>5. \A kind \in {"liveness", "status"} : Loads(kind) = all
  BY DEF Loads, front
<1> HIDE DEF all
<1>a. Len(HealthyLoads) = 2 /\ Len(MessageLoads) = 7
  BY <1>1, MessageLoadsFacts
<1>b. Len(front) = 9
  BY <1>3, <1>a
<1>6. \A i \in 1..7 : all[2 + i] = MessageLoads[i]
  <2> SUFFICES ASSUME NEW i \in 1..7 PROVE all[2 + i] = MessageLoads[i]
    OBVIOUS
  <2>1. 2 + i \in 1..9
    OBVIOUS
  <2>2. all[2 + i] = front[2 + i]
    BY <1>4, <1>b, <2>1
  <2>3. front[2 + i] = MessageLoads[i]
    BY <1>3, <1>a
  <2>4. QED
    BY <2>2, <2>3
<1>7. /\ Len(all) = 11 /\ all[1] = front[1] /\ all[2] = front[2]
      /\ all[10] = HealthyLoads[1] /\ all[11] = HealthyLoads[2]
  BY <1>4, <1>a, <1>b
<1>8. front[1] = HealthyLoads[1] /\ front[2] = HealthyLoads[2]
  BY <1>3, <1>a
<1>9. Len(Loads("readiness")) = 1 /\ Loads("readiness")[1] = "probes_attached"
  BY DEF Loads
<1>10. QED
  BY <1>1, <1>5, <1>6, <1>7, <1>8, <1>9, Zenon

LEMMA LoadsAreFields ==
    ASSUME NEW kind \in Kinds, NEW i \in 1..Len(Loads(kind))
    PROVE  Loads(kind)[i] \in Fields
<1>1. "probes_attached" \in Fields /\ "flow_table_at_capacity" \in Fields
  BY DEF Fields, Flags
<1>2. CASE kind = "readiness"
  BY <1>1, <1>2, LoadsFacts
<1>3. CASE kind \in {"liveness", "status"}
  <2>1. i \in 1..11
    BY <1>3, LoadsFacts
  <2>2. CASE i \in 3..9
    <3>1. PICK j \in 1..7 : i = 2 + j
      <4>1. i - 2 \in 1..7 /\ i = 2 + (i - 2)
        BY <2>2
      <4>2. QED
        BY <4>1, Zenon
    <3>2. Loads(kind)[i] = MessageLoads[j]
      BY <1>3, <3>1, LoadsFacts
    <3>3. MessageLoads[j] \in Fields
      BY MessageLoadsFacts DEF Fields, Flags, Counters
    <3>4. QED
      BY <3>2, <3>3
  <2>3. CASE i \in {1, 2, 10, 11}
    BY <1>1, <1>3, <2>3, LoadsFacts
  <2>4. QED
    BY <2>1, <2>2, <2>3
<1>4. QED
  BY <1>2, <1>3 DEF Kinds

LEMMA PairsOfLoads ==
    ASSUME NEW kind \in {"liveness", "status"}, NEW k \in Pairs
    PROVE  /\ Loads(kind)[k] = "probes_attached"
           /\ Loads(kind)[k + 1] = "flow_table_at_capacity"
<1>1. 1 \in 1..7 /\ 2 \in 1..7 /\ 2 + 1 = 3 /\ 2 + 2 = 4
  OBVIOUS
<1>2. Loads(kind)[3] = MessageLoads[1] /\ Loads(kind)[4] = MessageLoads[2]
  <2>1. Loads(kind)[2 + 1] = MessageLoads[1] /\ Loads(kind)[2 + 2] = MessageLoads[2]
    BY <1>1, LoadsFacts, Zenon
  <2>2. QED
    BY <1>1, <2>1
<1>3. CASE k = 1
  BY <1>3, LoadsFacts
<1>4. CASE k = 3
  BY <1>2, <1>4, MessageLoadsFacts
<1>5. CASE k = 10
  BY <1>5, LoadsFacts
<1>6. QED
  BY <1>3, <1>4, <1>5 DEF Pairs

LEMMA InitIInv == Init => IInv
<1> SUFFICES ASSUME Init PROVE IInv
  OBVIOUS
<1>1. HealthOK(health)
  BY DEF Init, New, HealthOK, Fields, Flags, Counters
<1>2. request = "idle" /\ seen = <<>> /\ before = FALSE
  BY DEF Init
<1>b. LoadsOK
  BY <1>2 DEF LoadsOK
<1>c. FactsInv
  BY <1>2 DEF FactsInv
<1>d. AttachedInv
  BY <1>2 DEF AttachedInv
<1>e. CountedInv
  BY <1>2 DEF CountedInv
<1>a. StatusInv
  BY DEF Init, StatusInv
<1>3. QED
  BY <1>1, <1>a, <1>b, <1>c, <1>d, <1>e DEF IInv
-----------------------------------------------------------------------------
(***************************************************************************)
(* Stores: probes are not detached and counters do not fall.               *)
(***************************************************************************)
LEMMA StoreOK ==
    ASSUME IInv, NEW field \in Fields, NEW value, Store(field, value),
           field \in Flags => value \in BOOLEAN,
           field \in Counters => value \in Nat /\ value >= health[field],
           field = "probes_attached" => value = TRUE
    PROVE  IInv'
<1>0. /\ HealthOK(health) /\ UNCHANGED <<request, seen, before>>
      /\ health' = [health EXCEPT ![field] = value]
  BY DEF IInv, Store
<1>1. HealthOK(health')
  BY <1>0 DEF HealthOK, Fields, Flags, Counters
<1>2. LoadsOK'
  BY <1>0 DEF IInv, LoadsOK
<1>3. facts \subseteq facts' /\ (request # "idle" => Facts(health') \subseteq facts')
  BY DEF Store
<1>4. FactsInv'
  BY <1>0, <1>3 DEF IInv, FactsInv
<1>5. StatusInv'
  <2>1. CASE request \in {"liveness", "status"}
    BY <1>0, <1>3 DEF IInv, StatusInv
  <2>2. CASE request \notin {"liveness", "status"}
    BY <1>0, <2>2 DEF StatusInv
  <2>3. QED
    BY <2>1, <2>2
<1>6. health.probes_attached = TRUE => health'.probes_attached = TRUE
  BY <1>0 DEF HealthOK, Fields, Flags
<1>7. AttachedInv'
  BY <1>0, <1>6 DEF IInv, AttachedInv
<1>8. \A c \in Counters : health[c] > 0 => health'[c] > 0
  BY <1>0 DEF HealthOK, Fields
<1>9. CountedInv'
  BY <1>0, <1>8 DEF IInv, CountedInv
<1>10. QED
  BY <1>1, <1>2, <1>4, <1>5, <1>7, <1>9 DEF IInv

LEMMA CountOK ==
    ASSUME IInv, NEW c \in Counters, Count(c)
    PROVE  IInv'
<1>1. health[c] + 1 \in Nat /\ health[c] + 1 >= health[c]
  BY DEF IInv, HealthOK
<1>2. c \in Fields /\ c \notin Flags /\ c # "probes_attached"
  BY DEF Fields, Flags, Counters
<1>3. QED
  BY <1>1, <1>2, StoreOK DEF Count

LEMMA StoresOK == IInv /\ Stores => IInv'
<1> SUFFICES ASSUME IInv, Stores PROVE IInv'
  OBVIOUS
<1> USE DEF Fields, Flags, Counters
<1>1. CASE SetProbesAttached
  BY <1>1, StoreOK DEF SetProbesAttached
<1>2. ASSUME NEW val \in BOOLEAN, SetFlowTableAtCapacity(val) PROVE IInv'
  BY <1>2, StoreOK DEF SetFlowTableAtCapacity
<1>3. ASSUME NEW val \in BOOLEAN, SetK8sWatcherConnected(val) PROVE IInv'
  BY <1>3, StoreOK DEF SetK8sWatcherConnected
<1>4. CASE Inc("broadcast_drops") \/ Inc("flow_evictions")
  BY <1>4, CountOK DEF Inc
<1>5. CASE RefuseEntry
  BY <1>5, StoreOK DEF RefuseEntry
<1>6. CASE CountRefusal
  BY <1>6, CountOK DEF CountRefusal
<1>7. CASE PodRemoved
  BY <1>7, StoreOK DEF PodRemoved
<1>8. QED
  BY <1>1, <1>2, <1>3, <1>4, <1>5, <1>6, <1>7 DEF Stores
-----------------------------------------------------------------------------
LEMMA AskOK ==
    ASSUME IInv, NEW kind \in Kinds, Ask(kind)
    PROVE  IInv'
<1>1. /\ seen = <<>> /\ request' = kind /\ facts' = Facts(health)
      /\ UNCHANGED <<health, seen>> /\ kind # "idle"
  BY DEF Ask, IInv, LoadsOK, Kinds
<1>2. HealthOK(health')
  BY <1>1 DEF IInv
<1>3. LoadsOK'
  BY <1>1, LoadsFacts DEF LoadsOK, Kinds
<1>4. FactsInv' /\ StatusInv' /\ AttachedInv'
  BY <1>1 DEF IInv, FactsInv, StatusInv, AttachedInv, Pairs
<1>5. CountedInv'
  <2>1. before' = (\E c \in Counters : health[c] > 0)
    BY DEF Ask, IInv, CountedInv
  <2>2. QED
    BY <1>1, <2>1 DEF CountedInv
<1>6. QED
  BY <1>2, <1>3, <1>4, <1>5 DEF IInv

(***************************************************************************)
(* A load adds what is the case now.                                       *)
(***************************************************************************)
LEMMA LoadOK ==
    ASSUME IInv, Load
    PROVE  IInv'
<1> DEFINE n == Len(seen) + 1
           field == Loads(request)[n]
<1>0. /\ request \in Kinds /\ seen \in Seq(BOOLEAN \cup Nat)
      /\ Len(seen) < Len(Loads(request)) /\ seen' = Append(seen, health[field])
      /\ UNCHANGED <<health, request, facts, before>>
  BY DEF Load, IInv, LoadsOK
<1>1. Len(Loads(request)) \in Nat /\ Len(seen) \in Nat
  <2>1. Len(Loads(request)) = 1 \/ Len(Loads(request)) = 11
    BY <1>0, LoadsFacts, Zenon DEF Kinds
  <2>2. \A k : k = 1 \/ k = 11 => k \in Nat
    OBVIOUS
  <2>3. Len(seen) \in Nat
    BY <1>0, LenProperties
  <2>4. QED
    BY <2>1, <2>2, <2>3, Zenon
<1>2. field \in Fields
  BY <1>0, <1>1, LoadsAreFields
<1>3. health[field] \in BOOLEAN \cup Nat
  BY <1>2 DEF IInv, HealthOK, Fields
<1>4. /\ seen' \in Seq(BOOLEAN \cup Nat) /\ Len(seen') = n
      /\ \A i \in 1..Len(seen) : seen'[i] = seen[i]
      /\ seen'[n] = health[field]
  BY <1>0, <1>3, AppendProperties
<1>5. n \in Nat /\ n <= Len(Loads(request)) /\ 1..n = (1..Len(seen)) \cup {n}
  BY <1>0, <1>1
<1> HIDE DEF field
<1>6. LoadsOK'
  BY <1>0, <1>4, <1>5 DEF LoadsOK, Kinds
<1>7. FactsInv'
  <2>1. Facts(health) \subseteq facts
    BY <1>0 DEF IInv, FactsInv, Kinds
  <2>2. field \in Flags => health[field] \in BOOLEAN /\ <<field, health[field]>> \in facts
    BY <2>1 DEF Facts, IInv, HealthOK
  <2>3. ASSUME NEW i \in 1..n, Loads(request)[i] \in Flags
        PROVE  seen'[i] \in BOOLEAN /\ <<Loads(request)[i], seen'[i]>> \in facts
    <3>1. CASE i = n
      BY <1>4, <2>2, <2>3, <3>1 DEF field
    <3>2. CASE i \in 1..Len(seen)
      BY <1>0, <1>4, <2>3, <3>2 DEF IInv, FactsInv, Kinds
    <3>3. QED
      BY <1>5, <3>1, <3>2
  <2>4. QED
    BY <1>0, <1>4, <2>1, <2>3 DEF FactsInv
<1>8. StatusInv'
  <2> SUFFICES ASSUME request \in {"liveness", "status"}, NEW k \in Pairs
               PROVE  /\ n >= k /\ seen'[k] = FALSE => <<"healthy", FALSE>> \in facts
                      /\ n >= k + 1 => <<"healthy", Healthy(seen'[k], seen'[k + 1])>> \in facts
    BY <1>0, <1>4 DEF StatusInv
  <2>1. /\ Loads(request)[k] = "probes_attached"
        /\ Loads(request)[k + 1] = "flow_table_at_capacity"
    BY PairsOfLoads
  <2>2. <<"healthy", IsHealthy(health)>> \in facts
    BY <1>0 DEF IInv, FactsInv, Facts
  <2>3. health.probes_attached \in BOOLEAN /\ health.flow_table_at_capacity \in BOOLEAN
    BY DEF IInv, HealthOK, Flags
  <2>0. k \in Nat /\ k >= 1
    BY DEF Pairs
  <2>4. CASE n = k
    <3>1. seen'[k] = health.probes_attached
      BY <1>4, <2>1, <2>4 DEF field
    <3>2. seen'[k] = FALSE => IsHealthy(health) = FALSE
      BY <3>1, <2>3 DEF IsHealthy
    <3>3. seen'[k] = FALSE => <<"healthy", FALSE>> \in facts
      BY <2>2, <3>2
    <3>4. ~(n >= k + 1)
      BY <2>0, <2>4
    <3>5. QED
      BY <3>3, <3>4, Zenon
  <2>5. CASE n = k + 1
    <3>1. k \in 1..Len(seen) /\ Len(seen) >= k
      BY <2>0, <2>5, <1>1
    <3>2. seen'[k + 1] = health.flow_table_at_capacity /\ seen'[k] = seen[k]
      BY <1>4, <2>1, <2>5, <3>1 DEF field
    <3>3. "probes_attached" \in Flags
      BY DEF Flags
    <3>4. seen[k] \in BOOLEAN /\ (seen[k] = TRUE => health.probes_attached = TRUE)
      BY <1>0, <2>1, <3>1, <3>3 DEF IInv, FactsInv, AttachedInv
    <3>5. seen[k] = FALSE => <<"healthy", FALSE>> \in facts
      BY <3>1 DEF IInv, StatusInv
    <3>6. CASE seen[k] = TRUE
      <4>1. Healthy(seen'[k], seen'[k + 1]) = IsHealthy(health)
        BY <3>2, <3>4, <3>6, <2>3 DEF Healthy, IsHealthy
      <4>2. QED
        BY <2>2, <3>2, <3>6, <4>1
    <3>7. CASE seen[k] = FALSE
      <4>1. Healthy(seen'[k], seen'[k + 1]) = FALSE
        BY <3>2, <3>7 DEF Healthy
      <4>2. QED
        BY <3>5, <3>7, <4>1
    <3>8. QED
      BY <3>4, <3>6, <3>7
  <2>6. CASE n > k + 1
    <3>1. k \in 1..Len(seen) /\ k + 1 \in 1..Len(seen) /\ Len(seen) >= k + 1 /\ Len(seen) >= k
      BY <1>1, <2>0, <2>6
    <3>2. seen'[k] = seen[k] /\ seen'[k + 1] = seen[k + 1]
      BY <1>4, <3>1
    <3>3. QED
      BY <3>1, <3>2 DEF IInv, StatusInv
  <2>7. CASE n < k
    <3>1. ~(n >= k) /\ ~(n >= k + 1)
      BY <2>0, <2>7, <1>5
    <3>2. QED
      BY <3>1, Zenon
  <2>8. n = k \/ n = k + 1 \/ n > k + 1 \/ n < k
    BY <1>5, <2>0
  <2>9. QED
    BY <2>4, <2>5, <2>6, <2>7, <2>8, Zenon
<1>9. AttachedInv'
  <2>1. ASSUME NEW i \in 1..n, Loads(request)[i] = "probes_attached", seen'[i] = TRUE
        PROVE  health.probes_attached = TRUE
    <3>1. CASE i = n
      BY <1>4, <2>1, <3>1 DEF field
    <3>2. CASE i \in 1..Len(seen)
      BY <1>4, <2>1, <3>2 DEF IInv, AttachedInv
    <3>3. QED
      BY <1>5, <3>1, <3>2
  <2>2. QED
    BY <1>0, <1>4, <2>1 DEF AttachedInv
<1>10. CountedInv'
  <2>1. CASE before = TRUE
    <3>1. PICK c \in Counters :
              /\ health[c] > 0
              /\ \A i \in 1..Len(seen) : Loads(request)[i] = c => seen[i] > 0
      BY <2>1 DEF IInv, CountedInv
    <3>2. ASSUME NEW i \in 1..n, Loads(request)[i] = c PROVE seen'[i] > 0
      <4>1. CASE i = n
        BY <1>4, <3>1, <3>2, <4>1 DEF field
      <4>2. CASE i \in 1..Len(seen)
        BY <1>4, <3>1, <3>2, <4>2
      <4>3. QED
        BY <1>5, <4>1, <4>2
    <3>3. QED
      BY <1>0, <1>4, <3>1, <3>2 DEF IInv, CountedInv
  <2>2. CASE before # TRUE
    BY <1>0, <2>2 DEF IInv, CountedInv
  <2>3. QED
    BY <2>1, <2>2
<1>11. QED
  BY <1>0, <1>6, <1>7, <1>8, <1>9, <1>10 DEF IInv

LEMMA AnswerOK ==
    ASSUME IInv, Answer
    PROVE  IInv'
<1>1. /\ request' = "idle" /\ seen' = <<>> /\ UNCHANGED health
      /\ before' = FALSE
  BY DEF Answer
<1>2. HealthOK(health') /\ LoadsOK' /\ FactsInv' /\ StatusInv' /\ CountedInv'
  <2>1. HealthOK(health')
    BY <1>1 DEF IInv
  <2>2. LoadsOK' /\ FactsInv' /\ StatusInv'
    BY <1>1 DEF LoadsOK, FactsInv, StatusInv
  <2>3. CountedInv'
    BY <1>1 DEF CountedInv
  <2>4. QED
    BY <2>1, <2>2, <2>3
<1>3. AttachedInv'
  BY <1>1 DEF AttachedInv
<1>4. QED
  BY <1>2, <1>3 DEF IInv

LEMMA RestartOK ==
    ASSUME IInv, Restart
    PROVE  IInv'
<1>1. HealthOK(New)
  BY DEF New, HealthOK, Fields, Flags, Counters
<1>2. /\ request = "idle" /\ seen = <<>> /\ health' = New
      /\ UNCHANGED <<request, seen, facts, before>> /\ before = FALSE
  BY DEF Restart, IInv, LoadsOK, CountedInv
<1>3. QED
  BY <1>1, <1>2 DEF IInv, LoadsOK, FactsInv, StatusInv, AttachedInv, CountedInv

LEMMA StepIInv == IInv /\ [Next]_vars => IInv'
<1> SUFFICES ASSUME IInv, [Next]_vars PROVE IInv'
  OBVIOUS
<1>1. CASE Stores
  BY <1>1, StoresOK
<1>2. ASSUME NEW kind \in {"liveness", "readiness", "status"}, Ask(kind) PROVE IInv'
  BY <1>2, AskOK DEF Kinds
<1>3. CASE Load
  BY <1>3, LoadOK
<1>4. CASE Answer
  BY <1>4, AnswerOK
<1>5. CASE Restart
  BY <1>5, RestartOK
<1>6. CASE UNCHANGED vars
  BY <1>6 DEF vars, IInv, LoadsOK, FactsInv, StatusInv, AttachedInv, CountedInv
<1>7. QED
  BY <1>1, <1>2, <1>3, <1>4, <1>5, <1>6 DEF Next

LEMMA Inductive == Spec => []IInv
  BY InitIInv, StepIInv, PTL DEF Spec
-----------------------------------------------------------------------------
(***************************************************************************)
(* A report that is complete, in terms of its loads.                       *)
(***************************************************************************)
LEMMA ReportFacts ==
    ASSUME IInv, Reported
    PROVE  /\ request \in {"liveness", "status"} /\ Len(seen) = 11
           /\ TheAnswer.ok = Healthy(seen[1], seen[2])
           /\ TheAnswer.message = HealthMessage(SubSeq(seen, 3, 11))
           /\ \A i \in 1..7 : /\ SubSeq(seen, 3, 11)[i] = seen[2 + i]
                              /\ Loads(request)[2 + i] = MessageLoads[i]
<1>1. request \in {"liveness", "status"}
  BY DEF Reported, Answered, IInv, LoadsOK, Kinds
<1>2. Len(seen) = 11 /\ \A i \in 1..7 : Loads(request)[2 + i] = MessageLoads[i]
  BY <1>1, LoadsFacts DEF Reported, Answered
<1>3. TheAnswer = [ok      |-> Healthy(seen[1], seen[2]),
                   message |-> HealthMessage(SubSeq(seen, 3, 11))]
  BY <1>1, <1>2 DEF TheAnswer, AnswerTo
<1>4. \A i \in 1..7 : SubSeq(seen, 3, 11)[i] = seen[2 + i]
  <2>1. seen \in Seq(BOOLEAN \cup Nat)
    BY DEF IInv, LoadsOK
  <2>2. \A i \in 3..11 : seen[i] \in BOOLEAN \cup Nat
    <3>1. \A i \in 3..11 : i \in 1..Len(seen)
      BY <1>2
    <3>2. \A i \in 1..Len(seen) : seen[i] \in BOOLEAN \cup Nat
      BY ONLY <2>1
    <3>3. QED
      BY ONLY <3>1, <3>2
  <2>3. \A i \in 1..11-3+1 : SubSeq(seen, 3, 11)[i] = seen[3 + i - 1]
    <3>1. 3 \in Int /\ 11 \in Int
      OBVIOUS
    <3>2. QED
      BY ONLY <2>2, <3>1, SubSeqProperties
  <2>4. \A i \in 1..7 : i \in 1..11-3+1 /\ 3 + i - 1 = 2 + i
    OBVIOUS
  <2>5. QED
    BY <2>3, <2>4, Zenon
<1>5. QED
  BY <1>1, <1>2, <1>3, <1>4

(***************************************************************************)
(* The issues of a report are the flags that were not loaded as they       *)
(* should be.                                                              *)
(***************************************************************************)
LEMMA IssueFacts ==
    ASSUME NEW s, \A i \in 1..4 : s[i] \in BOOLEAN
    PROVE  /\ "probes_attached" \in HealthMessage(s).issues <=> s[1] = FALSE
           /\ "flow_table_at_capacity" \in HealthMessage(s).issues <=> s[2] = TRUE
           /\ "k8s_watcher_connected" \in HealthMessage(s).issues <=> s[3] = FALSE
           /\ "pod_cache_at_capacity" \in HealthMessage(s).issues <=> s[4] = TRUE
<1>1. HealthMessage(s).issues = {MessageLoads[i] : i \in Issues(s)}
  BY DEF HealthMessage, Message
<1>2. /\ Issues(s) \subseteq 1..4
      /\ \A i \in 1..4 : i \in Issues(s) <=> s[i] # (i \in {1, 3})
  BY DEF Issues
<1>3. /\ (1 \in {1, 3}) = TRUE /\ (2 \in {1, 3}) = FALSE
      /\ (3 \in {1, 3}) = TRUE /\ (4 \in {1, 3}) = FALSE
      /\ 1 \in 1..4 /\ 2 \in 1..4 /\ 3 \in 1..4 /\ 4 \in 1..4
  OBVIOUS
<1>4. /\ 1 \in Issues(s) <=> s[1] # TRUE
      /\ 2 \in Issues(s) <=> s[2] # FALSE
      /\ 3 \in Issues(s) <=> s[3] # TRUE
      /\ 4 \in Issues(s) <=> s[4] # FALSE
  BY <1>2, <1>3, Zenon
<1>5. /\ s[1] \in BOOLEAN /\ s[2] \in BOOLEAN /\ s[3] \in BOOLEAN /\ s[4] \in BOOLEAN
  BY <1>3, Zenon
<1>6. \A f : f \in HealthMessage(s).issues <=> \E i \in Issues(s) : f = MessageLoads[i]
  BY <1>1
<1>7. \A i \in Issues(s) : i = 1 \/ i = 2 \/ i = 3 \/ i = 4
  BY <1>2
<1>8. ASSUME NEW f
      PROVE  f \in HealthMessage(s).issues <=>
                \/ 1 \in Issues(s) /\ f = "probes_attached"
                \/ 2 \in Issues(s) /\ f = "flow_table_at_capacity"
                \/ 3 \in Issues(s) /\ f = "k8s_watcher_connected"
                \/ 4 \in Issues(s) /\ f = "pod_cache_at_capacity"
  <2>1. ASSUME f \in HealthMessage(s).issues
        PROVE  \/ 1 \in Issues(s) /\ f = "probes_attached"
               \/ 2 \in Issues(s) /\ f = "flow_table_at_capacity"
               \/ 3 \in Issues(s) /\ f = "k8s_watcher_connected"
               \/ 4 \in Issues(s) /\ f = "pod_cache_at_capacity"
    <3>1. PICK i \in Issues(s) : f = MessageLoads[i]
      BY <1>6, <2>1
    <3>2. QED
      BY <1>7, <3>1, MessageLoadsFacts
  <2>2. ASSUME \/ 1 \in Issues(s) /\ f = "probes_attached"
               \/ 2 \in Issues(s) /\ f = "flow_table_at_capacity"
               \/ 3 \in Issues(s) /\ f = "k8s_watcher_connected"
               \/ 4 \in Issues(s) /\ f = "pod_cache_at_capacity"
        PROVE  f \in HealthMessage(s).issues
    <3>1. \E i \in Issues(s) : f = MessageLoads[i]
      BY <2>2, MessageLoadsFacts
    <3>2. QED
      BY <1>6, <3>1
  <2>3. QED
    BY <2>1, <2>2, Zenon
<1>9. /\ "probes_attached" \in HealthMessage(s).issues <=> 1 \in Issues(s)
      /\ "flow_table_at_capacity" \in HealthMessage(s).issues <=> 2 \in Issues(s)
      /\ "k8s_watcher_connected" \in HealthMessage(s).issues <=> 3 \in Issues(s)
      /\ "pod_cache_at_capacity" \in HealthMessage(s).issues <=> 4 \in Issues(s)
  BY <1>8
<1>10. \A x \in BOOLEAN : (x # TRUE <=> x = FALSE) /\ (x # FALSE <=> x = TRUE)
  OBVIOUS
<1>11. QED
  BY <1>4, <1>5, <1>9, <1>10, Zenon

LEMMA ReportedSpan ==
    ASSUME IInv, Reported
    PROVE  /\ 1 \in 1..Len(seen) /\ 2 \in 1..Len(seen) /\ Len(seen) >= 2
           /\ \A i \in 1..7 : 2 + i \in 1..Len(seen)
<1>1. Len(seen) = 11
  BY ReportFacts, Zenon
<1>2. \A n : n = 11 => /\ 1 \in 1..n /\ 2 \in 1..n /\ n >= 2
                        /\ \A i \in 1..7 : 2 + i \in 1..n
  OBVIOUS
<1>3. QED
  BY <1>1, <1>2, Zenon

(***************************************************************************)
(* The four flags of a report: what was loaded of each was the case.       *)
(***************************************************************************)
LEMMA ReportedFlags ==
    ASSUME IInv, Reported
    PROVE  \A i \in 1..4 : /\ SubSeq(seen, 3, 11)[i] \in BOOLEAN
                           /\ <<MessageLoads[i], SubSeq(seen, 3, 11)[i]>> \in facts
<1>1. /\ request # "idle"
      /\ \A i \in 1..Len(seen) :
            Loads(request)[i] \in Flags =>
                seen[i] \in BOOLEAN /\ <<Loads(request)[i], seen[i]>> \in facts
  BY ReportFacts DEF IInv, FactsInv
<1>2. \A i \in 1..4 : MessageLoads[i] \in Flags
  <2>1. \A i \in 1..4 : i = 1 \/ i = 2 \/ i = 3 \/ i = 4
    OBVIOUS
  <2>2. QED
    BY <2>1, MessageLoadsFacts DEF Flags
<1>3. \A i \in 1..4 : i \in 1..7 /\ 2 + i \in 1..Len(seen)
  <2>1. \A i \in 1..4 : i \in 1..7
    OBVIOUS
  <2>2. QED
    BY <2>1, ReportedSpan, Zenon
<1>4. \A i \in 1..7 : /\ SubSeq(seen, 3, 11)[i] = seen[2 + i]
                      /\ Loads(request)[2 + i] = MessageLoads[i]
  BY ReportFacts
<1>5. QED
  BY <1>1, <1>2, <1>3, <1>4, Zenon

LEMMA ReportIssues ==
    ASSUME IInv, Reported
    PROVE  LET s == SubSeq(seen, 3, 11)
               issues == TheAnswer.message.issues
           IN  /\ "probes_attached" \in issues <=> s[1] = FALSE
               /\ "flow_table_at_capacity" \in issues <=> s[2] = TRUE
               /\ "k8s_watcher_connected" \in issues <=> s[3] = FALSE
               /\ "pod_cache_at_capacity" \in issues <=> s[4] = TRUE
<1>1. TheAnswer.message = HealthMessage(SubSeq(seen, 3, 11))
  BY ReportFacts
<1>2. \A i \in 1..4 : SubSeq(seen, 3, 11)[i] \in BOOLEAN
  BY ReportedFlags
<1>3. QED
  BY <1>1, <1>2, IssueFacts
-----------------------------------------------------------------------------
LEMMA ReportWasTrueOK == IInv => ReportWasTrue
<1> SUFFICES ASSUME IInv, Reported
             PROVE  /\ <<"healthy", TheAnswer.ok>> \in facts
                    /\ \A f \in Flags :
                          <<f, (f \in TheAnswer.message.issues)
                                 # (f \in {"probes_attached", "k8s_watcher_connected"})>> \in facts
  BY DEF ReportWasTrue
<1> DEFINE s == SubSeq(seen, 3, 11)
           bad(f) == f \in TheAnswer.message.issues
           should(f) == f \in {"probes_attached", "k8s_watcher_connected"}
<1>1. <<"healthy", TheAnswer.ok>> \in facts
  <2>1. request \in {"liveness", "status"} /\ Len(seen) >= 2
    BY ReportFacts, ReportedSpan, Zenon
  <2>2. 1 \in Pairs /\ 1 + 1 = 2
    BY DEF Pairs
  <2>3. <<"healthy", Healthy(seen[1], seen[2])>> \in facts
    BY <2>1, <2>2 DEF IInv, StatusInv
  <2>4. QED
    BY <2>3, ReportFacts
<1>2. /\ bad("probes_attached") <=> s[1] = FALSE
      /\ bad("flow_table_at_capacity") <=> s[2] = TRUE
      /\ bad("k8s_watcher_connected") <=> s[3] = FALSE
      /\ bad("pod_cache_at_capacity") <=> s[4] = TRUE
  BY ReportIssues
<1>3. /\ 1 \in 1..4 /\ 2 \in 1..4 /\ 3 \in 1..4 /\ 4 \in 1..4
  OBVIOUS
<1>4. /\ <<"probes_attached", s[1]>> \in facts /\ s[1] \in BOOLEAN
      /\ <<"flow_table_at_capacity", s[2]>> \in facts /\ s[2] \in BOOLEAN
      /\ <<"k8s_watcher_connected", s[3]>> \in facts /\ s[3] \in BOOLEAN
      /\ <<"pod_cache_at_capacity", s[4]>> \in facts /\ s[4] \in BOOLEAN
  <2>1. \A i \in 1..4 : s[i] \in BOOLEAN /\ <<MessageLoads[i], s[i]>> \in facts
    BY ReportedFlags
  <2> HIDE DEF s
  <2>2. /\ <<MessageLoads[1], s[1]>> \in facts /\ <<MessageLoads[2], s[2]>> \in facts
        /\ <<MessageLoads[3], s[3]>> \in facts /\ <<MessageLoads[4], s[4]>> \in facts
        /\ s[1] \in BOOLEAN /\ s[2] \in BOOLEAN /\ s[3] \in BOOLEAN /\ s[4] \in BOOLEAN
    BY <1>3, <2>1, Zenon
  <2>3. QED
    BY <2>2, MessageLoadsFacts, Zenon
<1>5. /\ should("probes_attached") = TRUE /\ should("k8s_watcher_connected") = TRUE
      /\ should("flow_table_at_capacity") = FALSE /\ should("pod_cache_at_capacity") = FALSE
      /\ \A f : bad(f) \in BOOLEAN
  OBVIOUS
<1> HIDE DEF s, bad, should
<1>6. /\ (bad("probes_attached") # should("probes_attached")) = s[1]
      /\ (bad("flow_table_at_capacity") # should("flow_table_at_capacity")) = s[2]
      /\ (bad("k8s_watcher_connected") # should("k8s_watcher_connected")) = s[3]
      /\ (bad("pod_cache_at_capacity") # should("pod_cache_at_capacity")) = s[4]
  BY <1>2, <1>4, <1>5, Zenon
<1>7. \A f \in Flags : <<f, bad(f) # should(f)>> \in facts
  <2>1. /\ <<"probes_attached", bad("probes_attached") # should("probes_attached")>> \in facts
        /\ <<"flow_table_at_capacity",
              bad("flow_table_at_capacity") # should("flow_table_at_capacity")>> \in facts
        /\ <<"k8s_watcher_connected",
              bad("k8s_watcher_connected") # should("k8s_watcher_connected")>> \in facts
        /\ <<"pod_cache_at_capacity",
              bad("pod_cache_at_capacity") # should("pod_cache_at_capacity")>> \in facts
    BY <1>4, <1>6, Zenon
  <2>2. QED
    BY <2>1, Zenon DEF Flags
<1>8. QED
  BY <1>1, <1>7 DEF bad, should

LEMMA NeverBareOKOK == IInv => NeverBareOK
<1> SUFFICES ASSUME IInv, Reported, before,
                    TheAnswer.message.severity = "OK"
             PROVE  TheAnswer.message.counters # <<>>
  BY DEF NeverBareOK
<1> DEFINE s == SubSeq(seen, 3, 11)
<1>1. PICK c \in Counters : \A i \in 1..Len(seen) : Loads(request)[i] = c => seen[i] > 0
  BY DEF IInv, CountedInv
<1>2. \E i \in 5..7 : s[i] > 0
  <2>1. PICK i \in 5..7 : MessageLoads[i] = c
    BY MessageLoadsFacts DEF Counters
  <2>2. /\ s[i] = seen[2 + i] /\ Loads(request)[2 + i] = c
        /\ 2 + i \in 1..Len(seen)
    <3>1. i \in 1..7
      OBVIOUS
    <3>2. QED
      BY <2>1, <3>1, ReportFacts, ReportedSpan, Zenon
  <2>3. QED
    BY <1>1, <2>2
<1>3. TheAnswer.message = HealthMessage(s)
  BY ReportFacts
<1>4. Issues(s) = {}
  <2> HIDE DEF s
  <2>1. Issues(s) # {} => HealthMessage(s).severity \in {"DEGRADED", "UNHEALTHY"}
    BY DEF HealthMessage, Message
  <2>2. QED
    BY <1>3, <2>1
<1>5. TheAnswer.message.counters = Counted(s)
  <2> HIDE DEF s
  <2>1. QED
    BY <1>2, <1>3, <1>4 DEF HealthMessage, Message
<1>6. Counted(s) # <<>>
  <2>1. \A i \in 5..7 : s[i] \in BOOLEAN \cup Nat
    <3>1. \A i \in 5..7 : s[i] = seen[2 + i] /\ 2 + i \in 1..Len(seen)
      <4>1. \A i \in 5..7 : i \in 1..7
        OBVIOUS
      <4>2. QED
        BY <4>1, ReportFacts, ReportedSpan, Zenon
    <3>2. \A i \in 1..Len(seen) : seen[i] \in BOOLEAN \cup Nat
      <4>1. seen \in Seq(BOOLEAN \cup Nat)
        BY DEF IInv, LoadsOK
      <4>2. QED
        BY ONLY <4>1
    <3> HIDE DEF s
    <3>3. QED
      BY ONLY <3>1, <3>2
  <2> HIDE DEF s
  <2>2. Len(SubSeq(s, 5, 7)) = 3
    <3>1. 5 \in Int /\ 7 \in Int /\ 7 - 5 + 1 = 3
      OBVIOUS
    <3>2. Len(SubSeq(s, 5, 7)) = IF 5 <= 7 THEN 7 - 5 + 1 ELSE 0
      BY ONLY <2>1, <3>1, SubSeqProperties
    <3>3. QED
      BY <3>2
  <2>3. \A t : Len(t) = 3 => t # <<>>
    <3>1. \A t : t = <<>> => Len(t) = 0
      OBVIOUS
    <3>2. QED
      BY ONLY <3>1
  <2>4. QED
    BY <2>2, <2>3, Zenon DEF Counted
<1>7. QED
  BY <1>5, <1>6

(***************************************************************************)
(* Without an issue the loads of the first two found the agent healthy;    *)
(* with one, the severity is what the last two loads found.                *)
(***************************************************************************)
LEMMA SeverityWasTrueOK == IInv => SeverityWasTrue
<1> SUFFICES ASSUME IInv, Reported
             PROVE  <<"healthy", TheAnswer.message.severity # "UNHEALTHY">> \in facts
  BY DEF SeverityWasTrue
<1> DEFINE s == SubSeq(seen, 3, 11)
<1>1. /\ request \in {"liveness", "status"} /\ Len(seen) = 11
      /\ TheAnswer.message = HealthMessage(s)
  BY ReportFacts
<1>2. \A k \in Pairs : <<"healthy", Healthy(seen[k], seen[k + 1])>> \in facts
  <2>1. \A k \in Pairs : Len(seen) >= k + 1
    BY <1>1 DEF Pairs
  <2>2. QED
    BY <1>1, <2>1 DEF IInv, StatusInv
<1>3. /\ <<"healthy", Healthy(seen[3], seen[4])>> \in facts
      /\ <<"healthy", Healthy(seen[10], seen[11])>> \in facts
  BY <1>2 DEF Pairs
<1>4. s[1] = seen[3] /\ s[2] = seen[4] /\ s[8] = seen[10] /\ s[9] = seen[11]
  <2>1. seen \in Seq(BOOLEAN \cup Nat)
    BY DEF IInv, LoadsOK
  <2>2. \A i \in 3..11 : seen[i] \in BOOLEAN \cup Nat
    <3>1. \A i \in 3..11 : i \in 1..Len(seen)
      BY <1>1
    <3>2. \A i \in 1..Len(seen) : seen[i] \in BOOLEAN \cup Nat
      BY ONLY <2>1
    <3>3. QED
      BY ONLY <3>1, <3>2
  <2>3. \A i \in 1..11-3+1 : s[i] = seen[3 + i - 1]
    <3>1. 3 \in Int /\ 11 \in Int
      OBVIOUS
    <3>2. QED
      BY ONLY <2>2, <3>1, SubSeqProperties
  <2> HIDE DEF s
  <2>4. QED
    BY <2>3
<1>5. \A i \in 1..4 : s[i] \in BOOLEAN
  BY ReportedFlags
<1> HIDE DEF s
<1>6. CASE Issues(s) = {}
  <2>1. HealthMessage(s).severity = "OK"
    BY <1>6 DEF HealthMessage, Message
  <2>2. 1 \notin Issues(s) /\ 2 \notin Issues(s)
    BY <1>6
  <2>3. s[1] = TRUE /\ s[2] = FALSE
    <3>1. (s[1] # (1 \in {1, 3})) = FALSE /\ (s[2] # (2 \in {1, 3})) = FALSE
      BY <2>2 DEF Issues
    <3>2. (1 \in {1, 3}) = TRUE /\ (2 \in {1, 3}) = FALSE
      OBVIOUS
    <3>3. QED
      BY ONLY <3>1, <3>2
  <2>4. Healthy(seen[3], seen[4]) = TRUE
    BY <1>4, <2>3 DEF Healthy
  <2>5. (HealthMessage(s).severity # "UNHEALTHY") = TRUE
    BY <2>1
  <2>6. QED
    BY <1>1, <1>3, <2>4, <2>5
<1>7. CASE Issues(s) # {}
  <2>1. HealthMessage(s).severity = IF Healthy(seen[10], seen[11]) THEN "DEGRADED" ELSE "UNHEALTHY"
    BY <1>4, <1>7 DEF HealthMessage, Message
  <2>2. Healthy(seen[10], seen[11]) \in BOOLEAN
    BY DEF Healthy
  <2>3. (HealthMessage(s).severity # "UNHEALTHY") = Healthy(seen[10], seen[11])
    BY <2>1, <2>2
  <2>4. QED
    BY <1>1, <1>3, <2>3
<1>8. QED
  BY <1>6, <1>7
-----------------------------------------------------------------------------
(***************************************************************************)
(* Each part of a report of health_message was the case while the report   *)
(* was put together, whatever the tasks stored in between.                 *)
(***************************************************************************)
THEOREM ReportsTrue == Spec => []ReportWasTrue
  BY Inductive, ReportWasTrueOK, PTL

(***************************************************************************)
(* A loss that was counted before the request is part of the report, or an *)
(* issue hides it; never does health_message say a bare "OK".              *)
(***************************************************************************)
THEOREM LossReported == Spec => []NeverBareOK
  BY Inductive, NeverBareOKOK, PTL

(***************************************************************************)
(* The severity that health_message computes from a second is_healthy was  *)
(* the case at some moment of the request.                                 *)
(***************************************************************************)
THEOREM SeverityTrue == Spec => []SeverityWasTrue
  BY Inductive, SeverityWasTrueOK, PTL
=============================================================================
