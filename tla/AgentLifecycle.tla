---------------------------- MODULE AgentLifecycle ---------------------------
(***************************************************************************)
(* Start-up and shutdown of the agent, orb8-agent/src/main.rs: the order   *)
(* in which tasks are started and probes attached, the early returns, the  *)
(* signals, the cancellation token each task obeys in its own way, the     *)
(* shutdown deadline, and the file in the BPF file system through which    *)
(* the drop counter is opened and which outlives the process.              *)
(*                                                                         *)
(* External are the signals, the kubelet that starts the agent again, the  *)
(* API server, the clients, and tokio: a signal is noticed by the          *)
(* listeners that exist when it is delivered; select! may take any branch  *)
(* that is ready and drops the futures of the others; the tasks end with   *)
(* main.  tonic stops accepting when its token is cancelled and ends with  *)
(* its last stream.  A file in the BPF file system can be removed.         *)
(***************************************************************************)
EXTENDS Naturals, Sequences

CONSTANTS
    Clients,        \* subscribers of StreamEvents
    Peers,          \* those who connect to the health server
    MaxLives        \* bound: how often the agent is started

ASSUME LivesAssumption == MaxLives \in Nat

Tasks == {"watcher", "grpc", "health", "expiration"}
Signals == {"INT", "TERM"}

VARIABLES
    pc,             \* where main is
    handles,        \* the tasks in the order they were started
    joined,         \* how many of them main has awaited
    outcome,        \* of the shutdown: "none", "clean" or "timeout"
    reader,         \* how opening the drop counter ended
    cancelled,      \* the cancellation token
    noticed,        \* signals a listener of main has been told of
    task,           \* task -> state
    resyncing,      \* the watcher waits for the API server in resync_all
    streams,        \* clients with an open event stream
    connections,    \* peers whose connection a task of its own serves
    pin,            \* /sys/fs/bpf/orb8_events_dropped exists
    \* history
    sent,           \* signals sent to this process
    lives,
    killed          \* some process was killed

mainVars == <<handles, joined, outcome, reader, cancelled>>
taskVars == <<task, resyncing, streams, connections>>
hostVars == <<pin, lives, killed>>
vars == <<pc, mainVars, noticed, taskVars, hostVars, sent>>

Armed == pc \in {"select", "batch", "join", "unload"}
Over == pc \in {"stopped", "failed", "killed"}

Unborn == [t \in Tasks |-> "unborn"]

Init ==
    /\ pc = "k8s"
    /\ handles = <<>> /\ joined = 0 /\ outcome = "none" /\ reader = "none"
    /\ cancelled = FALSE /\ noticed = {} /\ sent = {}
    /\ task = Unborn /\ resyncing = FALSE /\ streams = {} /\ connections = {}
    /\ pin = FALSE /\ lives = 1 /\ killed = FALSE
-----------------------------------------------------------------------------
(***************************************************************************)
(* Start-up.  Without an API server the agent does without the watcher.    *)
(***************************************************************************)
Spawn(t, state) ==
    /\ task' = [task EXCEPT ![t] = state]
    /\ handles' = Append(handles, t)
    /\ UNCHANGED <<joined, outcome, reader, cancelled, noticed,
                   resyncing, streams, connections, hostVars, sent>>

StartWatcher == pc = "k8s" /\ pc' = "grpc" /\ Spawn("watcher", "running")

NoWatcher ==
    /\ pc = "k8s" /\ pc' = "grpc"
    /\ UNCHANGED <<mainVars, noticed, taskVars, hostVars, sent>>

StartGrpc == pc = "grpc" /\ pc' = "health" /\ Spawn("grpc", "starting")

StartHealth == pc = "health" /\ pc' = "load" /\ Spawn("health", "starting")

(***************************************************************************)
(* Pre-flight checks and the loading of the probes; loading and attaching  *)
(* the two programs.                                                       *)
(***************************************************************************)
LoadProbes ==
    /\ pc = "load" /\ pc' = "attach"
    /\ UNCHANGED <<mainVars, noticed, taskVars, hostVars, sent>>

AttachProbes ==
    /\ pc = "attach" /\ pc' = "pin"
    /\ UNCHANGED <<mainVars, noticed, taskVars, hostVars, sent>>

(***************************************************************************)
(* events_dropped_reader: the map is pinned, which fails when the file     *)
(* exists, and for other reasons (there is no such map or no BPF file      *)
(* system) without making one; it is opened from the file, which may fail, *)
(* and the file is removed.                                                *)
(***************************************************************************)
PinCounter ==
    /\ pc = "pin" /\ ~pin
    /\ pin' = TRUE /\ pc' = "open"
    /\ UNCHANGED <<mainVars, noticed, taskVars, lives, killed, sent>>

PinRefused ==
    /\ pc = "pin" /\ pin
    /\ reader' = "refused" /\ pc' = "ring"
    /\ UNCHANGED <<handles, joined, outcome, cancelled, noticed, taskVars, hostVars, sent>>

PinFails ==
    /\ pc = "pin"
    /\ reader' = "failed" /\ pc' = "ring"
    /\ UNCHANGED <<handles, joined, outcome, cancelled, noticed, taskVars, hostVars, sent>>

\* Mutant: the file is left behind when it cannot be opened.
OpenCounterLeavesPin ==
    /\ pc = "open"
    /\ \/ reader' = "open" /\ pc' = "unpin"
       \/ reader' = "failed" /\ pc' = "ring"
    /\ UNCHANGED <<handles, joined, outcome, cancelled, noticed, taskVars, hostVars, sent>>

OpenCounter ==
    /\ pc = "open" /\ pc' = "unpin"
    /\ reader' \in {"open", "failed"}
    /\ UNCHANGED <<handles, joined, outcome, cancelled, noticed, taskVars, hostVars, sent>>

UnpinCounter ==
    /\ pc = "unpin" /\ pc' = "ring"
    /\ pin' = FALSE
    /\ UNCHANGED <<mainVars, noticed, taskVars, lives, killed, sent>>

OpenRing ==
    /\ pc = "ring" /\ pc' = "expiration"
    /\ UNCHANGED <<mainVars, noticed, taskVars, hostVars, sent>>

\* Mutant: nobody keeps the handle of the expiration task.
StartExpirationDetached ==
    /\ pc = "expiration" /\ pc' = "select"
    /\ task' = [task EXCEPT !["expiration"] = "running"]
    /\ UNCHANGED <<mainVars, noticed, resyncing, streams, connections, hostVars, sent>>

(***************************************************************************)
(* The expiration task; then the signal handlers, and the event loop.      *)
(***************************************************************************)
StartExpiration == pc = "expiration" /\ pc' = "select" /\ Spawn("expiration", "running")

(***************************************************************************)
(* The process is over, and with it every task and every stream.           *)
(***************************************************************************)
EndProcess(how) ==
    /\ pc' = how
    /\ task' = Unborn /\ resyncing' = FALSE /\ streams' = {} /\ connections' = {}
    /\ UNCHANGED <<mainVars, noticed, pin, lives, sent>>

\* main returns early, through the ? of ProbeManager::new, attach_to_interfaces
\* or events_ring_buf.
StartupFails ==
    /\ pc \in {"load", "attach", "ring"}
    /\ EndProcess("failed")
    /\ UNCHANGED killed
-----------------------------------------------------------------------------
\* Mutant: a SIGTERM listener made anew in each iteration, as that of SIGINT is.
TimerFiresDropsAll ==
    /\ pc = "select" /\ pc' = "batch"
    /\ noticed' = {}
    /\ UNCHANGED <<mainVars, taskVars, hostVars, sent>>

(***************************************************************************)
(* The event loop.  The future of ctrl_c() is dropped when another branch  *)
(* is taken, with what it was told of; the SIGTERM listener stays.         *)
(***************************************************************************)
TimerFires ==
    /\ pc = "select" /\ pc' = "batch"
    /\ noticed' = noticed \ {"INT"}
    /\ UNCHANGED <<mainVars, taskVars, hostVars, sent>>

BatchDone ==
    /\ pc = "batch" /\ pc' = "select"
    /\ UNCHANGED <<mainVars, noticed, taskVars, hostVars, sent>>

SignalBranch(s) ==
    /\ pc = "select" /\ s \in noticed
    /\ cancelled' = TRUE
    /\ pc' = "join"
    /\ UNCHANGED <<handles, joined, outcome, reader, noticed, taskVars, hostVars, sent>>

\* Mutant: every other handle is passed over.
AwaitHandleSkips ==
    /\ pc = "join" /\ joined < Len(handles)
    /\ task[handles[joined + 1]] = "ended"
    /\ joined' = joined + 2
    /\ UNCHANGED <<pc, handles, outcome, reader, cancelled, noticed, taskVars, hostVars, sent>>

(***************************************************************************)
(* Shutdown: the handles are awaited in order, until the deadline.         *)
(***************************************************************************)
AwaitHandle ==
    /\ pc = "join" /\ joined < Len(handles)
    /\ task[handles[joined + 1]] = "ended"
    /\ joined' = joined + 1
    /\ UNCHANGED <<pc, handles, outcome, reader, cancelled, noticed, taskVars, hostVars, sent>>

AllJoined ==
    /\ pc = "join" /\ joined = Len(handles)
    /\ outcome' = "clean" /\ pc' = "unload"
    /\ UNCHANGED <<handles, joined, reader, cancelled, noticed, taskVars, hostVars, sent>>

JoinTimeout ==
    /\ pc = "join"
    /\ \E i \in (joined + 1)..Len(handles) : task[handles[i]] # "ended"
    /\ outcome' = "timeout" /\ pc' = "unload"
    /\ UNCHANGED <<handles, joined, reader, cancelled, noticed, taskVars, hostVars, sent>>

Unload ==
    /\ pc = "unload"
    /\ EndProcess("stopped")
    /\ UNCHANGED killed
-----------------------------------------------------------------------------
(***************************************************************************)
(* The tasks.  The two servers first bind their port and end if they can't.*)
(***************************************************************************)
SetTask(t, state) ==
    /\ task' = [task EXCEPT ![t] = state]
    /\ UNCHANGED <<pc, mainVars, noticed, resyncing, streams, connections, hostVars, sent>>

Bind(t) ==
    /\ task[t] = "starting"
    /\ SetTask(t, "running") \/ SetTask(t, "ended")

\* Mutant: the token is not looked at before a resync.
StartResyncBlind ==
    /\ task["watcher"] = "running" /\ ~resyncing
    /\ resyncing' = TRUE
    /\ UNCHANGED <<pc, mainVars, noticed, task, streams, connections, hostVars, sent>>

\* The token is looked at before a resync, not while it waits for the list.
StartResync ==
    /\ task["watcher"] = "running" /\ ~resyncing /\ ~cancelled
    /\ resyncing' = TRUE
    /\ UNCHANGED <<pc, mainVars, noticed, task, streams, connections, hostVars, sent>>

WatcherStops ==
    task["watcher"] = "running" /\ ~resyncing /\ cancelled /\ SetTask("watcher", "ended")

(***************************************************************************)
(* Each connection the health server accepts, which it may still do when   *)
(* the token is cancelled, has a task that nobody waits for or cancels: it *)
(* ends with its answer, or when the peer has gone away without a request. *)
(***************************************************************************)
AcceptConnection(p) ==
    /\ task["health"] = "running" /\ p \notin connections
    /\ connections' = connections \cup {p}
    /\ UNCHANGED <<pc, mainVars, noticed, task, resyncing, streams, hostVars, sent>>

EndConnection(p) ==
    /\ p \in connections
    /\ connections' = connections \ {p}
    /\ UNCHANGED <<pc, mainVars, noticed, task, resyncing, streams, hostVars, sent>>

HealthStops == task["health"] = "running" /\ cancelled /\ SetTask("health", "ended")

ExpirationStops ==
    task["expiration"] = "running" /\ cancelled /\ SetTask("expiration", "ended")

GrpcNotices == task["grpc"] = "running" /\ cancelled /\ SetTask("grpc", "draining")

GrpcDrained == task["grpc"] = "draining" /\ streams = {} /\ SetTask("grpc", "ended")
-----------------------------------------------------------------------------
(***************************************************************************)
(* Clients, the API server, signals, and the host.                         *)
(***************************************************************************)
OpenStream(c) ==
    /\ task["grpc"] = "running" /\ c \notin streams
    /\ streams' = streams \cup {c}
    /\ UNCHANGED <<pc, mainVars, noticed, task, resyncing, connections, hostVars, sent>>

CloseStream(c) ==
    /\ c \in streams
    /\ streams' = streams \ {c}
    /\ UNCHANGED <<pc, mainVars, noticed, task, resyncing, connections, hostVars, sent>>

ApiAnswers ==
    /\ resyncing
    /\ resyncing' = FALSE
    /\ UNCHANGED <<pc, mainVars, noticed, task, streams, connections, hostVars, sent>>

Signal(s) ==
    /\ Armed /\ s \notin sent
    /\ sent' = sent \cup {s}
    /\ noticed' = IF s = "TERM" \/ pc = "select" THEN noticed \cup {s} ELSE noticed
    /\ UNCHANGED <<pc, mainVars, taskVars, hostVars>>

(***************************************************************************)
(* SIGKILL or lack of memory at any time; before there are handlers also a *)
(* SIGTERM or SIGINT, unless the agent is process 1, as in its container:  *)
(* then the kernel drops the signal, which is no step.                     *)
(***************************************************************************)
Kill ==
    /\ ~Over
    /\ EndProcess("killed")
    /\ killed' = TRUE

Restart ==
    /\ Over /\ lives < MaxLives
    /\ lives' = lives + 1
    /\ pc' = "k8s"
    /\ handles' = <<>> /\ joined' = 0 /\ outcome' = "none" /\ reader' = "none"
    /\ cancelled' = FALSE /\ noticed' = {} /\ sent' = {}
    /\ UNCHANGED <<taskVars, pin, killed>>
-----------------------------------------------------------------------------
StartupStep ==
    \/ StartWatcher \/ NoWatcher \/ StartGrpc \/ StartHealth
    \/ LoadProbes \/ AttachProbes
    \/ PinCounter \/ PinRefused \/ PinFails \/ OpenCounter \/ UnpinCounter
    \/ OpenRing \/ StartExpiration \/ StartupFails

LoopStep == TimerFires \/ BatchDone

ShutdownStep == AwaitHandle \/ AllJoined \/ Unload

WatcherTask == StartResync \/ WatcherStops
GrpcTask == Bind("grpc") \/ GrpcNotices \/ GrpcDrained
HealthTask == Bind("health") \/ HealthStops
ExpirationTask == ExpirationStops

Next ==
    \/ StartupStep \/ LoopStep \/ ShutdownStep \/ JoinTimeout
    \/ \E s \in Signals : SignalBranch(s) \/ Signal(s)
    \/ WatcherTask \/ GrpcTask \/ HealthTask \/ ExpirationTask
    \/ \E c \in Clients : OpenStream(c) \/ CloseStream(c)
    \/ \E p \in Peers : AcceptConnection(p) \/ EndConnection(p)
    \/ ApiAnswers \/ Kill \/ Restart

Spec == Init /\ [][Next]_vars

(***************************************************************************)
(* Every task is polled and the timer fires.  select! starts polling at a  *)
(* random branch, so that one that is ready again and again is taken.      *)
(* Signals, clients, the API server and the deadline are not assumed to do *)
(* anything.                                                               *)
(***************************************************************************)
FairSpec ==
    /\ Spec
    /\ WF_vars(StartupStep) /\ WF_vars(LoopStep) /\ WF_vars(ShutdownStep)
    /\ \A s \in Signals : SF_vars(SignalBranch(s))
    /\ WF_vars(WatcherStops) /\ WF_vars(GrpcTask) /\ WF_vars(HealthTask)
    /\ WF_vars(ExpirationTask)
-----------------------------------------------------------------------------
Pcs == {"k8s", "grpc", "health", "load", "attach", "pin", "open", "unpin", "ring",
        "expiration", "select", "batch", "join", "unload", "stopped", "failed", "killed"}

(***************************************************************************)
(* Type invariant of main, the tasks and the host.                         *)
(***************************************************************************)
TypeOK ==
    /\ pc \in Pcs
    /\ handles \in Seq(Tasks) /\ joined \in 0..Len(handles)
    /\ outcome \in {"none", "clean", "timeout"}
    /\ reader \in {"none", "open", "failed", "refused"}
    /\ cancelled \in BOOLEAN /\ noticed \subseteq Signals /\ sent \subseteq Signals
    /\ task \in [Tasks -> {"unborn", "starting", "running", "draining", "ended"}]
    /\ resyncing \in BOOLEAN /\ streams \subseteq Clients /\ connections \subseteq Peers
    /\ pin \in BOOLEAN /\ lives \in Nat /\ killed \in BOOLEAN

(***************************************************************************)
(* "All tasks shut down cleanly" (main.rs:244) holds of the tasks main     *)
(* starts itself, those that returned early included, and of the streams   *)
(* of the gRPC server, none of which is cut off.  It does not hold of the  *)
(* connections of the health server: their tasks obey no token and nobody  *)
(* has their handles, against docs/ROADMAP.md:73-74 ("CancellationToken    *)
(* propagated to all spawned tasks", "All spawned tasks tracked via        *)
(* JoinHandle"), and whatever is left of them is cut off with the process. *)
(***************************************************************************)
CleanMeansEnded ==
    pc = "unload" /\ outcome = "clean" =>
        /\ \A t \in Tasks : task[t] \in {"unborn", "ended"}
        /\ streams = {}

(***************************************************************************)
(* The drop counter is available, or its file could not be opened, in an   *)
(* agent none of whose predecessors on the host was killed: no way out of  *)
(* events_dropped_reader and no failed start leaves the file behind.       *)
(***************************************************************************)
RefusedOnlyAfterKill == reader = "refused" => killed

(***************************************************************************)
(* The inductive invariant behind the two: who started is awaited, who was *)
(* awaited has ended, streams keep the gRPC server from ending, and the    *)
(* file exists only while it is used, unless a process was killed.         *)
(***************************************************************************)
StartedInv ==
    \A t \in Tasks : task[t] # "unborn" => ~Over /\ \E i \in 1..Len(handles) : handles[i] = t

AwaitedInv ==
    /\ ~Over => \A i \in 1..joined : task[handles[i]] = "ended"
    /\ ~Over /\ pc \notin {"join", "unload"} => joined = 0
    /\ pc = "unload" /\ outcome = "clean" => joined = Len(handles)

StreamInv ==
    /\ streams # {} => task["grpc"] \in {"running", "draining"}
    /\ pc \in {"k8s", "grpc"} => task["grpc"] = "unborn"

PinInv == pin => killed \/ pc \in {"open", "unpin"}

IInv == StartedInv /\ AwaitedInv /\ StreamInv /\ PinInv /\ RefusedOnlyAfterKill

(***************************************************************************)
(* docs/ROADMAP.md: the drop counter is surfaced in GetStatus.  An agent   *)
(* that got to its event loop reads the counter unless the BPF file system *)
(* failed to open it.                                                      *)
(***************************************************************************)
DropCounterSurfaced == pc \in {"select", "batch"} => reader # "refused"

(***************************************************************************)
(* A SIGTERM ends the agent, whatever it is doing, when its deadline works,*)
(* even though clients stay and the API server is silent: the signal is    *)
(* not lost to a batch and the deadline covers every task.                 *)
(***************************************************************************)
SigtermStops == WF_vars(JoinTimeout) => ("TERM" \in sent ~> Over)

(***************************************************************************)
(* Nothing in the agent holds up a shutdown: as soon as clients hang up    *)
(* and the API server answers, every task obeys the token and main ends,   *)
(* even if the deadline is never reached.                                  *)
(***************************************************************************)
CleanShutdown ==
    WF_vars(\E c \in Clients : CloseStream(c)) /\ WF_vars(ApiAnswers)
        => (cancelled ~> Over)
=============================================================================
