----------------------------- MODULE PodWatcher -----------------------------
(***************************************************************************)
(* The pod watcher (orb8-agent/src/k8s_watcher.rs), which keeps the pod    *)
(* cache in step with the cluster, together with what it talks to: the API *)
(* server and the watcher of the kube crate, both modelled from the way    *)
(* the code uses them.  An opened watch first delivers every existing pod  *)
(* (InitApply), then InitDone, then every change in order, without a gap;  *)
(* the connection may fail at any time and what it had not delivered is    *)
(* gone.  Event::Init has no effect and is left out.                       *)
(*                                                                         *)
(* A pod has one container at a time; a restarted container is a new       *)
(* cgroup.  Two running pods never share an IP address (host network pods  *)
(* are out of scope, see ARCHITECTURE.md); the address of a pod that ran   *)
(* to completion is free for another pod while its status still shows it.  *)
(***************************************************************************)
EXTENDS PodCache, Sequences, SequencesExt

CONSTANTS
    BackoffMin, BackoffMax,     \* PodWatcher::backoff_min, backoff_max
    MaxFaults                   \* bound: failures of the API connection

ASSUME BackoffAssumption == BackoffMin \in Nat /\ BackoffMax \in Nat
ASSUME EnvironmentAssumption == MaxFaults \in Nat

NoCgroup == 0

VARIABLES
    \* the cluster
    cluster,        \* pod -> [phase, ip, cgroup]
    nextCgroup,     \* the last cgroup id given to a container
    reused,         \* addresses given to a pod while a completed one still showed them
    faults,         \* failures so far
    \* the watcher task
    wpc,
    stream,         \* events of the watch not yet taken
    listing,        \* pods of the resync list not yet applied
    backoff,
    cancelled,      \* the CancellationToken
    connected,      \* HealthState::k8s_watcher_connected
    cache           \* the PodCache

clusterVars == <<cluster, nextCgroup, reused>>
vars == <<clusterVars, faults, wpc, stream, listing, backoff, cancelled, connected, cache>>

Phases == {"absent", "pending", "running", "completed", "deleted"}
PodState == [phase : Phases, ip : Ips \cup {NoIp}, cgroup : 0..NumCgroups]
Object == [pod : Pods, ip : Ips \cup {NoIp}, cgroup : 0..NumCgroups]
InitDone == [kind |-> "InitDone"]
Event == [kind : {"Apply", "Delete"}, object : Object] \cup {InitDone}

Existing == {p \in Pods : cluster[p].phase \in {"pending", "running", "completed"}}
Running  == {p \in Pods : cluster[p].phase = "running"}
ObjectIn(cl, p) == [pod |-> p, ip |-> cl[p].ip, cgroup |-> cl[p].cgroup]

(***************************************************************************)
(* The answers of a list request: every existing pod, in any order.        *)
(***************************************************************************)
Listings == {[i \in DOMAIN s |-> ObjectIn(cluster, s[i])] : s \in SetToSeqs(Existing)}

Init ==
    /\ cluster = [p \in Pods |-> [phase |-> "absent", ip |-> NoIp, cgroup |-> NoCgroup]]
    /\ nextCgroup = 0 /\ reused = {}
    /\ faults = 0
    /\ wpc = "open"
    /\ stream = <<>>
    /\ listing = <<>>
    /\ backoff = BackoffMin
    /\ cancelled = FALSE
    /\ connected = FALSE
    /\ cache = EmptyCache
-----------------------------------------------------------------------------
(***************************************************************************)
(* The cluster: a change of a pod reaches the watch if one is open.        *)
(***************************************************************************)
Change(p, state, kind) ==
    /\ cluster' = [cluster EXCEPT ![p] = state]
    /\ stream' = IF wpc = "watching"
                 THEN Append(stream, [kind |-> kind, object |-> ObjectIn(cluster', p)])
                 ELSE stream
    /\ UNCHANGED <<faults, wpc, listing, backoff, cancelled, connected, cache>>

CreatePod(p) ==
    /\ cluster[p].phase = "absent"
    /\ Change(p, [phase |-> "pending", ip |-> NoIp, cgroup |-> NoCgroup], "Apply")
    /\ UNCHANGED <<nextCgroup, reused>>

StartPod(p, ip) ==
    /\ cluster[p].phase = "pending"
    /\ \A q \in Running : cluster[q].ip # ip
    /\ nextCgroup < NumCgroups
    /\ nextCgroup' = nextCgroup + 1
    /\ reused' = IF \E q \in Existing : cluster[q].ip = ip THEN reused \cup {ip} ELSE reused
    /\ Change(p, [phase |-> "running", ip |-> ip, cgroup |-> nextCgroup'], "Apply")

RestartContainer(p) ==
    /\ cluster[p].phase = "running"
    /\ nextCgroup < NumCgroups
    /\ nextCgroup' = nextCgroup + 1
    /\ Change(p, [cluster[p] EXCEPT !.cgroup = nextCgroup'], "Apply")
    /\ UNCHANGED reused

CompletePod(p) ==
    /\ cluster[p].phase = "running"
    /\ Change(p, [cluster[p] EXCEPT !.phase = "completed"], "Apply")
    /\ UNCHANGED <<nextCgroup, reused>>

DeletePod(p) ==
    /\ p \in Existing
    /\ Change(p, [cluster[p] EXCEPT !.phase = "deleted"], "Delete")
    /\ UNCHANGED <<nextCgroup, reused>>

ClusterStep ==
    \E p \in Pods :
        \/ CreatePod(p) \/ RestartContainer(p) \/ CompletePod(p) \/ DeletePod(p)
        \/ \E ip \in Ips : StartPod(p, ip)

Cancel ==
    /\ ~cancelled
    /\ cancelled' = TRUE
    /\ UNCHANGED <<clusterVars, faults, wpc, stream, listing, backoff, connected, cache>>
-----------------------------------------------------------------------------
(***************************************************************************)
(* CgroupResolver::resolve: the id of the pod's container, found in one of *)
(* three directories, one per QoS class, or none: the container runs on    *)
(* another node, has no cgroup yet or none any more.                       *)
(***************************************************************************)
Resolve(pod) == {pod.cgroup, NoCgroup}

(***************************************************************************)
(* handle_pod_apply: the address first, then the container, if its cgroup  *)
(* is found, with a second insert_ip.                                      *)
(***************************************************************************)
HandlePodApply(pod) ==
    LET c == InsertByIp(cache, pod.ip, pod.pod)
    IN  \E id \in Resolve(pod) :
            cache' = IF id = NoCgroup THEN c ELSE Insert(c, id, pod.ip, pod.pod)

HandlePodDelete(pod) == cache' = RemovePod(cache, pod.pod)

(***************************************************************************)
(* watch_pods: the watch is opened; its list fixes the point from which it *)
(* reports every change.                                                   *)
(***************************************************************************)
OpenWatch ==
    /\ wpc = "open"
    /\ \E l \in Listings :
          stream' = [i \in 1..(Len(l) + 1) |->
                        IF i <= Len(l)
                        THEN [kind |-> "Apply", object |-> l[i]]
                        ELSE InitDone]
    /\ wpc' = "watching"
    /\ UNCHANGED <<clusterVars, faults, listing, backoff, cancelled, connected, cache>>

\* Mutant: a deletion is only logged.
WatchEventKeepsDeleted ==
    /\ wpc = "watching" /\ stream # <<>>
    /\ stream' = Tail(stream)
    /\ LET event == Head(stream) IN
       \/ event.kind = "Apply" /\ HandlePodApply(event.object) /\ UNCHANGED connected
       \/ event.kind = "Delete" /\ UNCHANGED <<cache, connected>>
       \/ event.kind = "InitDone" /\ connected' = TRUE /\ UNCHANGED cache
    /\ UNCHANGED <<clusterVars, faults, wpc, listing, backoff, cancelled>>

WatchEvent ==
    /\ wpc = "watching" /\ stream # <<>>
    /\ stream' = Tail(stream)
    /\ LET event == Head(stream) IN
       \/ event.kind = "Apply" /\ HandlePodApply(event.object) /\ UNCHANGED connected
       \/ event.kind = "Delete" /\ HandlePodDelete(event.object) /\ UNCHANGED connected
       \/ event.kind = "InitDone" /\ connected' = TRUE /\ UNCHANGED cache
    /\ UNCHANGED <<clusterVars, faults, wpc, listing, backoff, cancelled>>

(***************************************************************************)
(* The two ways out of watch_pods in run: an error, and the end of the     *)
(* stream, which leaves the health flag alone.                             *)
(***************************************************************************)
WatchFails ==
    /\ wpc \in {"open", "watching"}
    /\ faults < MaxFaults
    /\ faults' = faults + 1
    /\ connected' = FALSE
    /\ stream' = <<>>
    /\ wpc' = "backoff"
    /\ UNCHANGED <<clusterVars, listing, backoff, cancelled, cache>>

WatchEnds ==
    /\ wpc = "watching" /\ stream = <<>>
    /\ faults < MaxFaults
    /\ faults' = faults + 1
    /\ backoff' = BackoffMin
    /\ wpc' = "retry"
    /\ UNCHANGED <<clusterVars, stream, listing, cancelled, connected, cache>>

BackoffElapsed ==
    /\ wpc = "backoff"
    /\ backoff' = IF 2 * backoff < BackoffMax THEN 2 * backoff ELSE BackoffMax
    /\ wpc' = "retry"
    /\ UNCHANGED <<clusterVars, faults, stream, listing, cancelled, connected, cache>>

\* Mutant: the token is looked at between two watches only.
StopBetweenWatches ==
    /\ cancelled
    /\ wpc \in {"backoff", "retry"}
    /\ wpc' = "stopped"
    /\ stream' = <<>>
    /\ UNCHANGED <<clusterVars, faults, listing, backoff, cancelled, connected, cache>>

(***************************************************************************)
(* The select! of run, that of the backoff and the check after them.  The  *)
(* list request of resync_all does not look at the token.                  *)
(***************************************************************************)
Stop ==
    /\ cancelled
    /\ wpc \in {"open", "watching", "backoff", "retry"}
    /\ wpc' = "stopped"
    /\ stream' = <<>>
    /\ UNCHANGED <<clusterVars, faults, listing, backoff, cancelled, connected, cache>>

StartResync ==
    /\ wpc = "retry" /\ ~cancelled
    /\ wpc' = "resync"
    /\ UNCHANGED <<clusterVars, faults, stream, listing, backoff, cancelled, connected, cache>>

ListReply ==
    /\ wpc = "resync"
    /\ listing' \in Listings
    /\ wpc' = "applying"
    /\ UNCHANGED <<clusterVars, faults, stream, backoff, cancelled, connected, cache>>

ListFails ==
    /\ wpc = "resync"
    /\ faults < MaxFaults
    /\ faults' = faults + 1
    /\ wpc' = "open"
    /\ UNCHANGED <<clusterVars, stream, listing, backoff, cancelled, connected, cache>>

ResyncApply ==
    /\ wpc = "applying" /\ listing # <<>>
    /\ listing' = Tail(listing)
    /\ HandlePodApply(Head(listing))
    /\ UNCHANGED <<clusterVars, faults, wpc, stream, backoff, cancelled, connected>>

\* Mutant: the loop returns to waiting for the list instead of the watch.
ResyncDoneRelists ==
    /\ wpc = "applying" /\ listing = <<>>
    /\ connected' = TRUE
    /\ wpc' = "resync"
    /\ UNCHANGED <<clusterVars, faults, stream, listing, backoff, cancelled, cache>>

ResyncDone ==
    /\ wpc = "applying" /\ listing = <<>>
    /\ connected' = TRUE
    /\ wpc' = "open"
    /\ UNCHANGED <<clusterVars, faults, stream, listing, backoff, cancelled, cache>>

WatcherStep ==
    \/ OpenWatch \/ WatchEvent \/ BackoffElapsed \/ StartResync
    \/ ListReply \/ ResyncApply \/ ResyncDone

Fault == WatchFails \/ WatchEnds \/ ListFails

Next == ClusterStep \/ Cancel \/ WatcherStep \/ Stop \/ Fault

Spec == Init /\ [][Next]_vars

(***************************************************************************)
(* The runtime polls the task, the timer fires, and the API server answers *)
(* (the client has a read timeout, after which the request fails).         *)
(***************************************************************************)
FairSpec == Spec /\ WF_vars(WatcherStep) /\ WF_vars(Stop)
-----------------------------------------------------------------------------
Wpcs == {"open", "watching", "backoff", "retry", "resync", "applying", "stopped"}

(***************************************************************************)
(* Type invariant of the cluster, the watcher task and the cache.          *)
(***************************************************************************)
TypeOK ==
    /\ cluster \in [Pods -> PodState] /\ nextCgroup \in 0..NumCgroups /\ reused \subseteq Ips
    /\ faults \in 0..MaxFaults
    /\ wpc \in Wpcs
    /\ stream \in Seq(Event) /\ listing \in Seq(Object)
    /\ backoff \in Nat /\ cancelled \in BOOLEAN /\ connected \in BOOLEAN
    /\ IsCache(cache)

(***************************************************************************)
(* insert_ip keeps by_ip within max_pod_cache_entries, whatever the order  *)
(* of events, lists and failures.                                          *)
(***************************************************************************)
ByIpBounded == Cardinality(DOMAIN cache.by_ip) <= MaxEntries

CaughtUp == wpc = "watching" /\ stream = <<>>

(***************************************************************************)
(* When the watch has nothing left to deliver, no running pod's address is *)
(* attributed to another pod, not even one whose deletion was missed while *)
(* the watch was down; and an address is unknown only after the cache      *)
(* refused an entry and counted it.  Not so an address that was given away *)
(* while a completed pod still showed it: handle_pod_apply enters the      *)
(* address of a finished pod too, and whichever event is last takes it.    *)
(***************************************************************************)
RunningPodsResolve ==
    CaughtUp => \A p \in Running :
        \/ cluster[p].ip \in reused
        \/ IF cluster[p].ip \in DOMAIN cache.by_ip
           THEN cache.by_ip[cluster[p].ip] = p
           ELSE cache.evictions > 0

(***************************************************************************)
(* A cache that is caught up knows existing pods only, each under its      *)
(* present address: what the lifecycle events of ROADMAP.md are to ensure, *)
(* network failures or not.                                                *)
(***************************************************************************)
NoGhosts ==
    CaughtUp =>
        /\ \A ip \in DOMAIN cache.by_ip :
              cache.by_ip[ip] \in Existing /\ cluster[cache.by_ip[ip]].ip = ip
        /\ \A c \in DOMAIN cache.by_cgroup : cache.by_cgroup[c] \in Existing

(***************************************************************************)
(* What watch_pods achieves of it: NoGhosts holds while no connection has  *)
(* failed, under reuse of addresses, restarts of containers and refusals   *)
(* of a full cache.                                                        *)
(***************************************************************************)
GhostsNeedFaults == faults = 0 => NoGhosts

(***************************************************************************)
(* Once the cluster and the connection are quiet the watcher catches up    *)
(* and stays so, unless it was cancelled; it does not stay behind in a     *)
(* backoff or a resync.                                                    *)
(***************************************************************************)
CatchesUp == <>[](cancelled \/ CaughtUp)

(***************************************************************************)
(* A cancelled watcher ends, wherever the token finds it.                  *)
(***************************************************************************)
CancelStops == cancelled ~> wpc = "stopped"
=============================================================================
