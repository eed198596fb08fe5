# A formal model of orb8

orb8 watches the network traffic of a Kubernetes node: BPF programs report
every IPv4 packet, an agent attributes the packets to pods, books them on flows
and serves flows and events over gRPC. This directory models the agent and its
probe in TLA+, checks the models with TLC on small instances and proves the
central theorems with TLAPS for all values of the constants. `PROJECT.json`
maps every definition to the lines of source it translates and lists the runs,
the mutants that show each property can fail, the hazards, the findings and the
theorems. Paths below are relative to the repository.

## 1. The system

| component | state | operations | talks to |
|---|---|---|---|
| network probe, `orb8-probes/src/network_probe.rs` | per-CPU locals; maps `EVENTS` (ring buffer) and `EVENTS_DROPPED` | `try_network_probe`: timestamp, parse, reserve, write, submit; or count a drop | ring buffer, read by the event loop |
| `poll_events`, `read_events_dropped`, `orb8-agent/src/probe_loader.rs` | the batch | take records up to the batch limit; read the counter | event loop |
| event loop, `orb8-agent/src/main.rs` | copy of the drop counter, signals, cancellation token | on every timer: copy the counter, poll, and for each event filter, look up two pods, `process_event`, broadcast | all others |
| flow table, `aggregator.rs` | `flows` (DashMap), `events_processed`, capacity flag and eviction counter in the health state | `process_event`, `evict_oldest_flows`, `update_capacity_flag`, `expire_old_flows`, `get_flows` | event loop, expiration task, gRPC |
| pod cache, `pod_cache.rs` | `by_ip`, `by_cgroup`, capacity flag, refusal counter | `insert`, `insert_by_ip`, `remove_pod`, `get_by_ip` | watcher (writes), event loop (reads) |
| pod watcher, `k8s_watcher.rs` | backoff, the open watch, `k8s_watcher_connected` | `run`, `watch_pods`, `resync_all`, `handle_pod_apply`, `handle_pod_delete` | API server, pod cache |
| health state, `health.rs` | four flags, three counters, all atomics | `set_*`, `inc_*`, `is_healthy`, `is_ready`, `health_message` | everyone |
| gRPC service, `grpc_server.rs` | broadcast channel | `query_flows`, `stream_events`, `get_status` | clients, flow table, pod cache |
| health server, `health_server.rs` | none | `/healthz`, `/readyz` | health state |
| start-up and shutdown, `main.rs` | task handles, cancellation token | start tasks, attach probes, wait with timeout | all tasks |
| helpers: `net.rs`, `cgroup.rs`, `config.rs` | none | parse and format addresses, local addresses, search for a cgroup, read the environment | |
| client, `orb8-cli` | none | `trace`, `flows`, `status` | gRPC service |
| `orb8-server`, `orb8-proto`, build scripts | none | stub, generated code | |

What is hard here:

* **Threads.** The event loop and the expiration task work on one DashMap
  without a common lock. Traversals, lengths and flags are read shard by shard
  and used later. Correct means: the table stays bounded, no packet is lost or
  booked twice, an eviction takes the flow least recently seen, a sweep takes
  idle flows only, the capacity flag follows the table.
* **The kernel boundary.** CPUs reserve and submit independently, the reader
  stops at a record not yet submitted, the drop counter is a plain increment.
  Correct means: no event is delivered twice and hardly any is lost without a
  count, counted losses show, events of one CPU keep their order, nothing stays
  behind.
* **An external source of truth.** The pod cache follows the cluster through a
  watch that may fail at any point, while addresses move from pod to pod.
  Correct means: a running pod's address is attributed to it, no pod that is
  gone stays, the cache stays bounded, the watcher catches up after a failure
  and stops when cancelled.
* **Start-up and shutdown.** Tasks are started one by one between early returns;
  signals may come at any moment; at the end main waits for tasks that wait for
  clients and for the API server; one file outlives the process. Correct means:
  a signal ends the agent, nothing in it holds the shutdown up, "clean" is true of
  the tasks main waits for, and what a killed agent leaves behind does not harm
  the next.
* **Subscribers** come, filter, fall behind and leave while events are sent.
  Correct means: each is given all it asked for, in order, but for what the
  channel overwrote, and the drop counter counts what nobody heard.
* **Composite reads.** A report of health is eleven loads of atomics that tasks
  store into; an event is named by two lookups in a cache the watcher changes; a
  reply to `QueryFlows` is a walk of a table that is written to. Correct means:
  each part of a report was true while it was made and no counted loss is passed over; a
  packet is booked on the pod it belongs to, or on one that had its address; no
  flow is missing because of what happened to others.
* **A snapshot that ages.** Interfaces and addresses of the node are read once, one
  after the other, while the node brings its network up, and attachments fail one
  by one. Correct means: if the node was quiet, the interfaces cover what they
  should, each is tried once per direction, and a failure at one costs the others
  nothing; the agent drops the events of its own connections, which would echo for
  ever, and keeps those of pods that use the same port.

## 2. Modules

| module | models | on |
|---|---|---|
| `FlowLedger` | abstract specification: a bounded ledger of flows, every step atomic | |
| `FlowTable` | `aggregator.rs`, its two callers interleaved access by access; implements `FlowLedger` | |
| `MCFlowTable` | bounds for TLC | `FlowTable` |
| `FlowTableProofs` | theorems | `FlowTable` |
| `PodCache` | `pod_cache.rs` as operators on a record | |
| `PodWatcher` | `k8s_watcher.rs` with the cluster, the API server and the kube watcher | `PodCache` |
| `Attribution` | the watcher composed with one packet, from its capture through the two lookups of the event loop to the pod it is booked on | `PodWatcher` |
| `MCAttribution` | symmetry for TLC | `Attribution` |
| `AttributionProofs` | theorems about `PodWatcher` and `Attribution` | `Attribution` |
| `EventPipeline` | probe, ring buffer, drop counter, `poll_events`, event loop | |
| `EventPipelineProofs` | theorems | `EventPipeline` |
| `EventStream` | broadcast channel, `stream_events`, the client's trace loop | |
| `EventStreamProofs` | theorems | `EventStream` |
| `AgentLifecycle` | start-up and shutdown of `main.rs`, the tasks as far as they obey the token, the pinned drop counter | |
| `AgentLifecycleProofs` | theorems | `AgentLifecycle` |
| `HealthReport` | `health.rs`: the stores of all tasks against `/healthz`, `/readyz` and the health part of `get_status`, load by load, and the kubelet that restarts | |
| `HealthReportProofs` | theorems | `HealthReport` |
| `FlowQuery` | the client's request, `query_flows` and `get_flows`, as a walk of the ledger while it changes | `FlowLedger` |
| `MCFlowQuery` | flows, pods and requests for TLC | `FlowQuery` |
| `FlowQueryProofs` | theorems | `FlowQuery` |
| `NodeView` | interface discovery and attachment of `probe_loader.rs`, `resolve_local_ips` and `is_self_traffic` of `net.rs`, on a node that changes | |
| `NodeViewProofs` | theorems | `NodeView` |

### Flow table

`flows` is the DashMap: a partial function from keys to packets and last time
seen. `loopPc` and the variables after it are the locals of `process_event` and
`evict_oldest_flows`, `sweepPc` and the variables after it those of
`expire_old_flows`. Each action is one access to shared state: the `get_mut`
(`UpdateHit`, `LookupMiss`), the first `len()` (`HasRoom`, `TableFull`), one
entry of the `iter()` (`ScanVisit`), the sort (`TakeOldest`), one `remove`
(`EvictNext`), the counter (`CountEvictions`), the `entry()` (`Insert`), and the
length and the store of `update_capacity_flag` (`CheckHigh`, `RaiseFlag`); on
the other side `StartSweep`, one entry of each `len()` (`LenVisit`) and of
`retain` (`RetainVisit`), and what is done with the results.

DashMap's traversals lock one shard at a time, always in the same order, and
hold no lock in between; a key is named by its place in this order. The finest
interleaving, one key per shard, includes the coarser ones. The `len()` of the
event loop is one step: nobody else inserts, so that during its traversal the
table only shrinks, and the sum is a size the table passed through. For the
expiration task this is not so, and its `len()` is a traversal. `Instant::now()`
is the variable `now`; equal times may be sorted either way, as the order of the
hash table decides.

### Pod watcher

`cluster` is the truth: each pod's phase, address and cgroup. A change is
appended to the `stream` of the watch, if one is open. The kube watcher is
modelled by what the code relies on: opening a watch lists all pods (in any
order) and then reports every change, without a gap; a failure loses what was
not delivered. `wpc` is the place of `run`: opening, watching, backing off,
about to resync, waiting for the list, applying it, stopped. A pod without a
status or an address is an object without address and container. Whether the
cgroup of a container is found on this node is a choice (`HandlePodApply`).

`reused` holds the addresses a completed pod still shows after another pod got
them: there the cache may be wrong although the watcher is caught up
(section 6), and `RunningPodsResolve` leaves exactly these out.

### Attribution

One packet per behaviour: `Capture` happens at any moment, `LookupSrc` is the
first `get_by_ip`, `Attribute` the second and the choice between the two pods by
the direction of the event; between any two of them `Elsewhere` lets the cluster,
the API server and the watcher take their steps. One packet is enough, since the
lookups of different packets do not meet: they change nothing in the cache. An
event stands for the time it spends in the ring buffer and in the batch by the
steps of `Elsewhere` before `LookupSrc`.

### Event pipeline

`probe[c]` is the classifier running on CPU `c`; a packet's event is reserved,
then submitted, or, when the ring buffer is full, the drop counter is loaded and
stored. `poll_events` takes records until the ring buffer has none it can read
or the batch is full; the latter is found out after the next record was taken.
`PollFull` then throws that record away. `captured`, `lost`, `filtered` and
`processed` are history variables (of `captured - lost` and the rest, `Vanished`
makes the difference no counter shows); `captured` also serves as the clock of `bpf_ktime_get_ns`. The agent
is modelled with the drop counter map available and before any signal;
`AgentLifecycle` has the rest.

### Event stream

Events are numbered in the order they are sent; `sent` holds their namespaces.
`next[c]` is the place of a client's receiver in the channel, which keeps the
last `Slots` events. `Send` is the end of the loop body, `Subscribe`, `Forward`
and `Skip` are `stream_events` (`Skip` is the error arm of its `filter_map`),
`Receive` one turn of the loop of `trace_network`. The transport holds `Window`
events for a client (`wire`) and does not poll the stream when they are there,
which is how a slow client falls behind. A client that left (`"left"`) is still
subscribed until the server learns of it (`DropReceiver`).

### Start-up and shutdown

`pc` follows `main` from one `await`, early return or spawn to the next;
`handles` and `joined` are its list of handles and how far it has awaited them.
`task[t]` is the state of each task: the servers are `"starting"` until they have
bound their port, or ended because they could not; the gRPC server is
`"draining"` between the token and its last stream; the watcher, while it waits
for the API server in `resync_all` (`resyncing`), does not look at the token.
`noticed` are the signals a listener of main has been told of: SIGTERM's listener
lives as long as main, SIGINT's only as long as the `select!` it belongs to
(`TimerFires`). The process may be killed at any time (`Kill`): by SIGKILL, for
want of memory, and, before there are handlers, by a SIGTERM, though not where the
agent is process 1, as in its container: there the kernel drops such a signal, and
nothing happens until the grace period ends in a SIGKILL. `Signal` is therefore a
signal to an agent that has handlers. `connections` are the peers the health server
has accepted, each served by a task of its own that obeys no token and whose handle
nobody keeps (`AcceptConnection`, `EndConnection`); the process ends without regard
to them. Pinning the drop counter fails when the file exists (`PinRefused`) and for
other reasons, which leave no file behind (`PinFails`). The kubelet starts the agent again on the same host
(`Restart`), where `pin`, the file of `events_dropped_reader`, is what it was.
Removing the file is assumed to succeed.

### Health report

`health` is the seven atomics of `HealthState`. A store is one action; the two
stores of a refused `insert_ip`, the flag and then the counter, are two
(`RefuseEntry`, `CountRefusal`). A request (`Ask`) loads the atomics in the order
of `Loads`: `is_healthy`, then `health_message`, which calls `is_healthy` again
for its severity; `Answer` puts the loads together and, for the liveness probe,
lets the kubelet count. `facts` collects what was the case at any moment of the
request. Requests do not change what they read, so that one at a time shows
everything. The code orders its loads and stores `Relaxed`; the model interleaves
them in one order. What a weaker memory may reorder are loads and stores of
different atomics, and the properties are of the kind "at some moment of the
request", but this is not checked.

### Flow query

The table is `FlowLedger`, which `FlowTable` is shown to implement: `flows` of
the ledger changes with the map accesses of `FlowTable`, one at a time, so that
what a third party reads of the table it reads of the ledger. `Visit` is one
entry of the iterator, each in a shard of its own; `SendReply` sorts, truncates
and sends. `Matches` is the filter of `query_flows`, `Limit` the clamp.

### Node view

`FindPrimary` and `FindEth0`, `FindBridge` for one of the usual container bridges,
and `FindDockerBridge` are the questions `discover_interfaces` puts to `/proc` and
`/sys`, one by one; `interfaces` is what it makes of the answers. `AddClsact` and
`Attach(d)` are one turn of a loop of `attach_to_interfaces`: either may fail for
whatever reason and is then only logged, `Attach` with a warning that `warned`
counts; it has to fail when the interface is gone, or when the kernel attaches to
the clsact qdisc (`NeedsQdisc`) and there is none. `LoadFails` is a program that
cannot be loaded, which ends the agent, and `AttachDone` the end of a loop, after
the second of which the agent calls its probes attached. `ResolveLocalIps` is the
reading of `/proc/net/fib_trie` or the failure to. `ChangeLinks` and
`ChangeAddress` are the node's.

A packet comes from somewhere before it is looked at. The agent's server listens at
its port on all addresses of the node, and each packet of a connection goes to or
comes from there (`PacketAtPort("own")`), wherever the client is. Something else may
use the port there (`PacketAtPort("port")`): a process with a UDP socket, or one that
has the port when the agent did not get it. Everything else (`OtherPacket`) has no
end at this port on the node; pods may use the same port. `is_self_traffic` is asked
about all of them (`Capture`) and sees ports and addresses only.

## 3. What the runs check

| run | bounds | shows |
|---|---|---|
| `FlowTable` | 3 keys, table of 2, 4 events, clock to 2 | types, bound, conservation of packets, the inductive invariant, `FlowLedger` implemented; under fairness the table empties and the flag clears |
| `FlowTable_expired` | 2 keys, 3 events | a counterexample, section 6 |
| `PodWatcher` | 2 pods that may complete, 2 addresses, 2 containers, room for 1 entry, 2 failures, backoff to 2 | types, bound, right attribution of running pods, no ghosts as long as no connection failed; under fairness the watcher catches up, and stops when cancelled |
| `Attribution` | 2 pods, 2 addresses and one outside, 2 containers, room for 2 entries, 1 failure, 1 packet | a packet of a pod that was known and still runs gets that pod; no packet gets a pod that had lost both its addresses |
| `EventPipeline` | 2 CPUs, 5 packets, ring buffer of 3, batches of 2 | types, uncounted loss at most one event per full batch and no event twice, drop counter never too high and never silent, order per CPU; under fairness the ring buffer drains and the drop count is reported |
| `EventStream` | 2 clients, channel of 1, window of 1, 3 events, with and without filter and duration | types, complete and ordered streams, skips only when overwritten, the drop counter; under fairness clients catch up and a trace ends with the first event after its duration |
| `AgentLifecycle` | 2 clients, 1 peer of the health server, 2 lives | types, clean means that what main awaits has ended, the counter is refused only after a kill; under fairness SIGTERM ends the agent, and a shutdown completes without the deadline |
| `AgentLifecycle_pin` | 2 lives | a counterexample, section 6 |
| `HealthReport` | 2 stores during a request, counters to 1, 3 failures for a restart | every part of a report was true during the request; its severity included; counted losses are reported; under fairness a saturated table does not stay |
| `FlowQuery` | 3 flows of 3 pods, table of 2, 5 packets, clock to 2, 12 requests, maximum limit 2 | a reply adds up to no more than was booked; no flow that stayed is missing unless larger ones fill the reply |
| `NodeView` | 3 interfaces (`eth0`, a container bridge, a Docker bridge), 2 addresses and the loopback, 1 change, any failures | after a quiet start the interfaces cover the default route and the bridges, and each was tried once per direction; own packets are dropped, those of pods are kept |
| `NodeView_unresolved` | the same | a counterexample, section 6 |

Why the bounds are enough to be interesting: three keys with room for two make
evictions happen; an eviction takes one victim of two, which the sweep may have
taken first (the proofs cover any number of victims); the clock passes the
timeout while events still arrive.
One entry for two pods makes the cache refuse; two addresses for two pods that
restart and complete make an address change hands and be shown by two pods; two
failures can fall before, during and after any event, the second also during the
recovery from the first. In `Attribution` both pods fit, so that a lookup gives a
wrong pod if it gives none of the right ones; refusals are in `PodWatcher`.
Two CPUs race on the counter; a ring buffer of three holds a batch of two and the
event it costs, and two more packets arrive while it is taken, so that a loss of one
per batch can be told from a larger one. A channel of one overwrites an event
as soon as the window of a client is full and two more are sent; the third event
shows that the stream goes on. Two lives are what it takes for a process to meet
what another left behind, and two clients for one to stay while the other hangs
up. Two stores during a request are enough for a flag to change and change back
between two loads; the proofs cover any number. A third flow in a table of two
makes an eviction, and its return, fall into a walk; a limit of 1 and of 0, and
one above the maximum, are all clamps. `NodeView` has one interface of each
kind in every combination, any of them as the default route; one change can fall
between any two questions, every attachment may fail, and the properties are at
stake without a change.

TLC bounds the environment only: `MCFlowTable` limits the number of events and
the clock (and lets the last event be booked before the clock runs on),
`MaxPackets` the packets, `NumCgroups` the containers started, `MaxFaults` the
failures, `MaxEvents` the events sent to subscribers, each of whom comes once,
`MaxLives` the restarts, `MaxStores` the stores during one request, `MaxCount`
the counters, `MaxChanges` the changes of the node, and `MaxPackets` and `MaxTime`
in `FlowQuery` the packets and the clock of the ledger. Pods and addresses are
interchangeable; `Attribution`, whose run checks invariants only, uses that
symmetry. `CHECK_DEADLOCK FALSE` is set where the system, or the environment
within its bound, may stop: the watcher that is cancelled when every pod is
deleted, the agent that ends, the clients that leave, the packet that has its
name, the kubelet's turn when nothing is left to store, the clock and the packets
of `FlowQuery`, the quiet node.

## 4. Fairness

* `MCFairSpec`: weak fairness of the event loop's steps, the sweep's steps and
  the clock. Both are loops of the runtime whose timers keep firing
  (`main.rs:142-154`, `164-176`). Arrival of events is not assumed.
* `PodWatcher!FairSpec`: weak fairness of the watcher's steps and of `Stop`: the
  task is polled, its timer fires and the API server answers a list request or
  the client's timeout turns it into a failure. Failures and changes of the
  cluster are not assumed to happen.
* `EventPipeline!FairSpec`: weak fairness of each CPU's started classifier,
  which the kernel runs to its end, and of the event loop.
* `EventStream!FairSpec`: weak fairness of the server's steps for each client and
  of the client that reads what arrived. Sending and hanging up are not assumed.
* `AgentLifecycle!FairSpec`: weak fairness of start-up, event loop, shutdown and
  tasks; strong fairness of the signal branches, because `select!` starts with a
  random branch, so that one that is ready in every iteration is taken some time.
  The deadline is assumed only in `SigtermStops`, clients that hang up and an API
  server that answers only in `CleanShutdown`; each is an antecedent of the
  property.
* `HealthReport!FairSpec`: weak fairness of loads, answers and the kubelet's
  restart; strong fairness of its liveness request, because the requests of other
  clients come and go between while the kubelet keeps asking. No store is fair:
  that the expiration task clears the flag is not assumed.

## 5. What is proved

From the assumptions on the constants only (natural numbers, finite sets,
`UsizeModulus` above the number of keys, markers such as `NoPod` and `NoIp` that are
no pod and no address), for every number of keys, pods, CPUs, clients and
interfaces and every limit. The bounds of the runs (`MaxFaults`, `MaxEvents`
and the like) are constants of the modules, and the theorems hold for each value.

* `FlowTableProofs!TypeCorrect`, `BoundKept`: `TypeOK` and `TableBounded`. The
  bound alone is not inductive: between the capacity check and the insertion the
  table changes. `RoomInv` says why there is room at the insertion: during the
  scan, the flows alive and the candidates together are no more than the table
  held when it was found full, and every flow alive is a candidate or still
  ahead of the cursor; so once the victims, at least one, are gone there is
  room, and only the event loop inserts.
* `FlowTableProofs!LedgerImplemented`: every step is a step of `FlowLedger` or a
  stutter. The refinement mapping books a packet at its update or insertion,
  not at the increment of `events_processed`, and counts the evictions of the
  call in progress. The argument is `AgeInv`: a time copied during the scan is
  still that of the flow, if it is alive; no flow that is not a victim is older
  than a victim, as flows updated or created later are younger; the cutoff of a
  sweep stays at least `flow_timeout` in the past.
* `FlowTableProofs!Inductive` states the invariant itself, `Conserved` that no packet
  is lost or counted twice (`PacketsConserved`). `Booked` is what a step may do to
  the sum: an entry removed leaves with its packets, an entry booked gains one, the
  others keep theirs. That the sum over a set does not depend on the order in which
  the set is walked, which its definition leaves to CHOOSE, is shown first, in a
  section of its own: the least set for which it fails, by the well-foundedness of
  the finite subsets, would have a smaller one. This takes the place of an induction
  on finite sets, whose rule the provers cannot instantiate.
* `AttributionProofs!TypeCorrect`, `CacheBounded`: every cache operation keeps
  the types and the bound of `by_ip`, and the watcher changes the cache by these
  operations only, under any events, lists and failures.
* `AttributionProofs!PodsResolve`, `NoGhostsWithoutFaults`: a cache that has caught up is
  right. `RunningPodsResolve` speaks of the moment the stream is empty, `ResolveInv`
  and `GhostInv` of every moment of a watch: a running pod is known or an event that
  enters it is on its way, and behind every event that would give its address to
  another pod comes one of its own; as long as no connection failed, whatever the
  cache or an event holds exists or its deletion is on its way. Both rest on
  `StreamInv`, that an event is true of the cluster or was: an address, once
  assigned, does not change while the pod exists, and nothing comes back from
  deletion. A list enters every pod, in any order, and so reestablishes `ResolveInv`
  after a failure, but not `GhostInv`: it removes nothing.
* `AttributionProofs!StableAttribution`, `HonestAttribution`, about `Attribution`. At the capture, `SourcesIn`
  says which pods the cluster, the cache, the stream or the list in hand could put
  under an address: the pod that is known and nobody else (`SureInv`), or those the
  history variable `owners` collects (`OwnersInv`). Every step of the cluster and of
  the watcher keeps this, so that each of the two lookups, whenever it comes, finds
  one of them.
* `EventPipelineProofs!TypeCorrect`, `SilentLoss`, `NoInventedDrops`, `LossNoticed`:
  types and the limits of ring buffer and batch; what vanishes without a count is at
  most one event per full batch; the racy drop counter never exceeds the drops, nor
  is it 0 after one unless an increment is under way. The bound on the loss needs
  `LossInv`: a batch is processed to its end before the next poll, so that the events
  of the current one have not paid for an earlier loss. The bound on the counter needs `DropsInv`: a CPU that has
  not yet stored its increment owes one, and neither the counter nor a loaded
  value exceeds the drops already paid for. That a loss shows needs only that
  whatever is stored is positive.
* `EventPipelineProofs!OrderPerCpu`: `OrderInv` splits the pending events: batch and
  ring buffer are in order, CPU by CPU; what is in the batch is older than what is
  in the ring buffer; a reserved record is the last of its CPU, since the classifier
  finishes one packet before the next; and the clock is ahead of all of them.
* `EventStreamProofs!TypeCorrect`, `StreamsAreComplete`, `SkipsOnlyOverwritten`,
  `DropsExact`, for any finite set of clients and any length of channel and window.
  `Place` bounds where a receiver is: it starts behind what was sent before it
  subscribed, and what it skipped lies behind it and is overwritten. A number is
  delivered as it is passed over, the largest so far, so that order and completeness
  are kept together. `DropsExact` compares a counter with the size of a set defined
  over all that was sent: an event, once unheard, stays so.
* `HealthReportProofs!ReportsTrue`, `LossReported`, `SeverityTrue`, for any number of
  stores in a request. Each load is a fact of its moment (`FactsInv`). The status
  is a conjunction of two loads of different moments, and true of one moment only
  because probes are never detached: if the first load found them attached they
  still are at the second, which then decides (`StatusInv`, `AttachedInv`); the
  severity, which takes two loads of its own at the end, is argued the same way. No
  counter falls, so that one that was positive when the request came is loaded as
  positive (`CountedInv`).
* `NodeViewProofs!FilterStopsEcho`: a packet is related to the node's addresses by
  where it comes from, the filter's answer to `localIps`; `LocalInv` says that the two
  differ by the addresses that changed since the start only, as long as the file could
  be read.
* `NodeViewProofs!ReadyAgentTried`: unless a link came or went (`SeesInv`), the loop
  over the container bridges has passed over those only that are not there
  (`LoopOverBridges`), so that one of each kind is found if there is one; probes and
  failures of an interface in a direction together are as many as it occurs in the
  part of the list the loop has done (`AttachInv`); and none occurs twice but the one
  that carries the default route and is a bridge, which comes first (`DiscoverInv`),
  so that no interface occurs three times (`OnceOrTwice`).
* `AgentLifecycleProofs!TypeCorrect`, `HandlesAwaited`, `CounterOpens`. The
  invariant says that every task started has a handle (`StartedInv`), that every
  handle awaited was ended and nothing is awaited before the shutdown
  (`AwaitedInv`), that an open stream keeps the gRPC server from ending
  (`StreamInv`), and that the file of the drop counter exists only between its
  making and its removal, unless a process was killed (`PinInv`): none of the
  early returns lies in between.
* `FlowQueryProofs!CountsHold`, `NothingMissed`, for any set of flows and any
  requests. What was collected and what is still ahead of the walk add up to no more
  than was booked (`BytesInv`): a flow that was evicted and comes back behind the walk
  is not met again, and one that comes back ahead starts from nothing. A flow that
  stayed has no fewer packets than at the request, and once passed it is collected
  (`KeptInv`). `LargestFirst` gives each flow the place that the number of flows
  before it gives; as no two have the same (`PlaceGrows`), every place has its flow
  (`Sorted`), and cutting the sequence leaves out none that is larger than one kept.

Only model-checked: `DrainsWhenQuiet`, `CatchesUp` and the other liveness properties,
which with fairness and ENABLED are out of reach of the prover. The properties the
three violation runs refute have no theorem, being false.

## 6. Where code and documentation disagree

Each of these is a run that TLC ends with a counterexample; `PROJECT.json`
quotes the lines.

1. `FlowTable_expired`: `expire_old_flows` subtracts two lengths between which
   the event loop may insert or evict (`aggregator.rs:160-162`); the result is
   wrong, and may underflow.
2. `AgentLifecycle_pin`: a kill while the drop counter is pinned turns the counter
   off for every later agent on the host (`probe_loader.rs:158`).
3. `NodeView_unresolved`: the fallback to the port alone, documented for the case
   that the local addresses cannot be resolved, is never taken: the loopback
   address is in the set before the file is opened (`net.rs`), so that the agent's
   own packets on the node's addresses pass the filter.

Kept in the model without a run of their own, the properties saying what holds
instead:

* A full batch costs one event that no counter shows (`probe_loader.rs:200-204`),
  against `docs/ROADMAP.md:12`, "track and expose drops as metrics". `Vanished` is
  this loss, and `SilentLossBounded` its bound.
* The tasks that serve connections of the health server (`health_server.rs:36`) obey
  no token, and nobody keeps their handles, against `docs/ROADMAP.md:73-74`:
  "propagated to all spawned tasks", "All spawned tasks tracked via `JoinHandle`".
  "All tasks shut down cleanly" (`main.rs:244`) may be logged while some are at
  work; `CleanMeansEnded` is about the tasks main starts, and leaves `connections`
  out.
* An attachment that fails is warned of and otherwise forgotten
  (`probe_loader.rs:60-63`, `76-80`), and so is the qdisc (`44-48`): the agent is
  then ready with some of its probes or with none, against "won't silently fail"
  (`docs/ROADMAP.md:65`) and the meaning of "not ready: probes not attached"
  (`health_server.rs:62`). `ReadyTried` is what ready means.
* The filter knows neither protocol nor process (`net.rs:92-93`): what another
  process of the node exchanges at the agent's port, over UDP for one, is dropped
  with the agent's packets, against "avoid filtering out legitimate application
  traffic on the same port" (`net.rs:81-82`). `NoEcho` speaks of the agent's own
  packets and of those that have no end there.
* Pods deleted while the watch is down stay in the cache (`resync_all` adds only),
  which `GhostsNeedFaults` shows to be the only way ghosts come about. A pod that has
  completed takes the address of the pod that uses it now (`handle_pod_apply` does not
  look at the phase), the set `reused`.
* A Ctrl+C during a batch is lost, because its listener lives only as long as one
  `select!` (`main.rs:166`), which is why `SigtermStops` speaks of SIGTERM, and of one
  sent once there are handlers.
* A trace whose duration is over goes on until the next event, against the example
  "stop after 30 seconds" (`README.md:163`); `TraceEndsAtEvent`.
* A container bridge that carries the default route is found twice and its packets
  are counted twice; `ReadyTried` excepts it.

Found while modelling and kept in the model: with `max_flows = 1` the low
watermark is 0 and the capacity flag is never cleared again (`DrainsWhenQuiet`
excepts it); `max_flows = 0` is accepted and holds one flow (`Bound`); the
backoff is only reset by a stream that ends without an error; the drop counter
loses increments when two CPUs drop at once (`network_probe.rs:151`), so that
`DropsNotInvented` is an inequality; a subscriber that falls behind is not told,
nor is its loss counted (`Skip`); a server that cannot bind its port ends while the agent goes on
(`Bind`); a sweep can clear the capacity flag on the strength of a length read
before the table filled up (`aggregator.rs:164-168`); `by_cgroup` has no bound
(`pod_cache.rs:37`), and `TypeOK` gives it none. When two CPUs drop at once, the
drop counter may even go back, though never to 0 (`DropsNoticed`). `docs/ROADMAP.md:100` has `/healthz` answer
503 when the agent is degraded; the code answers 200 "DEGRADED" when only the
watcher or the pod cache is at fault (`AnswerTo`), and 503 when probes are not
attached or the flow table is full.

## 7. Not modelled, and the plan

Left out for good: header parsing in the probe and the loading of BPF programs
(input and output), the pre-flight checks, the layout of shared structs,
configuration (its values are the constants, the zeros it accepts included),
conversions between addresses and their text, logging, the text the client
prints, the paths `cgroup.rs` tries (its outcome is a choice in `PodWatcher`),
generated code, the stub server. Host-network pods share the node's address and
are outside of attribution by address.

Every invariant and every action property that a passing run checks is stated by a
theorem. What is left is the composition of the flow table with a query: that
`FlowQuery` may stand for a query over `FlowTable`, because the ledger is implemented
step by step, is argued in section 2 and not itself a theorem.
