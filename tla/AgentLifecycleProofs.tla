------------------------- MODULE AgentLifecycleProofs ------------------------
(***************************************************************************)
(* Theorems about start-up and shutdown, for every number of clients and   *)
(* of lives.                                                               *)
(***************************************************************************)
EXTENDS AgentLifecycle, TLAPS

LEMMA NoHandles == <<>> \in Seq(Tasks) /\ 0 \in 0..Len(<<>>)
  OBVIOUS

LEMMA InitTyped == Init => TypeOK
  <1> SUFFICES ASSUME Init PROVE TypeOK
    OBVIOUS
  <1>1. handles \in Seq(Tasks) /\ joined \in 0..Len(handles)
    BY NoHandles DEF Init
  <1>2. task \in [Tasks -> {"unborn", "starting", "running", "draining", "ended"}]
    BY DEF Init, Unborn
  <1> QED
    BY <1>1, <1>2 DEF Init, TypeOK, Pcs

LEMMA SpawnTyped ==
    ASSUME TypeOK, NEW t \in Tasks, NEW state \in {"starting", "running"},
           Spawn(t, state), pc' \in Pcs
    PROVE  TypeOK'
  <1>1. handles' \in Seq(Tasks) /\ Len(handles') = Len(handles) + 1 /\ Len(handles) \in Nat
    BY DEF TypeOK, Spawn
  <1>2. joined' \in 0..Len(handles')
    BY <1>1 DEF TypeOK, Spawn
  <1> QED
    BY <1>1, <1>2 DEF TypeOK, Spawn, hostVars

LEMMA SetTaskTyped ==
    ASSUME TypeOK, NEW t \in Tasks, NEW state \in {"running", "draining", "ended"},
           SetTask(t, state)
    PROVE  TypeOK'
  BY DEF TypeOK, SetTask, mainVars, hostVars

LEMMA EndTyped ==
    ASSUME TypeOK, NEW how \in {"stopped", "failed", "killed"}, EndProcess(how), killed' \in BOOLEAN
    PROVE  TypeOK'
  BY DEF TypeOK, EndProcess, mainVars, Unborn, Pcs

LEMMA StartupTyped == TypeOK /\ StartupStep => TypeOK'
  <1> SUFFICES ASSUME TypeOK, StartupStep PROVE TypeOK'
    OBVIOUS
  <1>1. CASE StartWatcher
    BY <1>1, SpawnTyped DEF StartWatcher, Tasks, Pcs
  <1>2. CASE StartGrpc
    BY <1>2, SpawnTyped DEF StartGrpc, Tasks, Pcs
  <1>3. CASE StartHealth
    BY <1>3, SpawnTyped DEF StartHealth, Tasks, Pcs
  <1>4. CASE StartExpiration
    BY <1>4, SpawnTyped DEF StartExpiration, Tasks, Pcs
  <1>5. CASE NoWatcher \/ LoadProbes \/ AttachProbes \/ OpenRing
    BY <1>5 DEF NoWatcher, LoadProbes, AttachProbes, OpenRing, TypeOK, Pcs,
                mainVars, taskVars, hostVars
  <1>6. CASE PinCounter \/ UnpinCounter
    BY <1>6 DEF PinCounter, UnpinCounter, TypeOK, Pcs, mainVars, taskVars
  <1>7. CASE PinRefused \/ PinFails \/ OpenCounter
    BY <1>7 DEF PinRefused, PinFails, OpenCounter, TypeOK, Pcs, taskVars, hostVars
  <1>8. CASE StartupFails
    BY <1>8, EndTyped DEF StartupFails, TypeOK
  <1> QED
    BY <1>1, <1>2, <1>3, <1>4, <1>5, <1>6, <1>7, <1>8 DEF StartupStep

LEMMA MainTyped ==
    ASSUME TypeOK,
           \/ LoopStep \/ ShutdownStep \/ JoinTimeout
           \/ \E s \in Signals : SignalBranch(s)
    PROVE  TypeOK'
  <1>1. CASE LoopStep
    BY <1>1 DEF LoopStep, TimerFires, BatchDone, TypeOK, Pcs, mainVars, taskVars, hostVars
  <1>2. CASE AwaitHandle
    BY <1>2 DEF AwaitHandle, TypeOK, taskVars, hostVars
  <1>3. CASE AllJoined \/ JoinTimeout
    BY <1>3 DEF AllJoined, JoinTimeout, TypeOK, Pcs, taskVars, hostVars
  <1>4. CASE Unload
    BY <1>4, EndTyped DEF Unload, TypeOK
  <1>5. CASE \E s \in Signals : SignalBranch(s)
    BY <1>5 DEF SignalBranch, TypeOK, Pcs, taskVars, hostVars
  <1> QED
    BY <1>1, <1>2, <1>3, <1>4, <1>5 DEF ShutdownStep

LEMMA TaskTyped ==
    ASSUME TypeOK, WatcherTask \/ GrpcTask \/ HealthTask \/ ExpirationTask
    PROVE  TypeOK'
  <1>1. CASE StartResync
    BY <1>1 DEF StartResync, TypeOK, mainVars, hostVars
  <1>2. CASE WatcherStops \/ HealthStops \/ ExpirationStops
    BY <1>2, SetTaskTyped DEF WatcherStops, HealthStops, ExpirationStops, Tasks
  <1>3. CASE GrpcNotices \/ GrpcDrained
    BY <1>3, SetTaskTyped DEF GrpcNotices, GrpcDrained, Tasks
  <1>4. CASE Bind("grpc") \/ Bind("health")
    BY <1>4, SetTaskTyped DEF Bind, Tasks
  <1> QED
    BY <1>1, <1>2, <1>3, <1>4 DEF WatcherTask, GrpcTask, HealthTask, ExpirationTask

LEMMA OutsideTyped ==
    ASSUME TypeOK,
           \/ \E s \in Signals : Signal(s)
           \/ \E c \in Clients : OpenStream(c) \/ CloseStream(c)
           \/ \E p \in Peers : AcceptConnection(p) \/ EndConnection(p)
           \/ ApiAnswers \/ Kill \/ Restart
    PROVE  TypeOK'
  <1>1. CASE \E s \in Signals : Signal(s)
    BY <1>1 DEF Signal, TypeOK, mainVars, taskVars, hostVars
  <1>2. CASE \E c \in Clients : OpenStream(c) \/ CloseStream(c)
    BY <1>2 DEF OpenStream, CloseStream, TypeOK, mainVars, hostVars
  <1>6. CASE \E p \in Peers : AcceptConnection(p) \/ EndConnection(p)
    BY <1>6 DEF AcceptConnection, EndConnection, TypeOK, mainVars, hostVars
  <1>3. CASE ApiAnswers
    BY <1>3 DEF ApiAnswers, TypeOK, mainVars, hostVars
  <1>4. CASE Kill
    BY <1>4, EndTyped DEF Kill
  <1>5. CASE Restart
    <2>1. handles' \in Seq(Tasks) /\ joined' \in 0..Len(handles')
      BY <1>5, NoHandles DEF Restart
    <2>2. /\ pc' \in Pcs
          /\ outcome' \in {"none", "clean", "timeout"}
          /\ reader' \in {"none", "open", "failed", "refused"}
          /\ cancelled' \in BOOLEAN /\ noticed' \subseteq Signals /\ sent' \subseteq Signals
      BY <1>5 DEF Restart, Pcs
    <2>3. /\ task' = task /\ resyncing' = resyncing /\ streams' = streams
          /\ connections' = connections
          /\ pin' = pin /\ killed' = killed /\ lives' \in Nat
      BY <1>5 DEF Restart, TypeOK, taskVars
    <2> QED
      BY <2>1, <2>2, <2>3 DEF TypeOK
  <1> QED
    BY <1>1, <1>2, <1>3, <1>4, <1>5, <1>6

LEMMA NextTyped == TypeOK /\ [Next]_vars => TypeOK'
  <1> SUFFICES ASSUME TypeOK, [Next]_vars PROVE TypeOK'
    OBVIOUS
  <1>1. CASE UNCHANGED vars
    BY <1>1 DEF vars, TypeOK, mainVars, taskVars, hostVars
  <1>2. CASE Next
    BY <1>2, StartupTyped, MainTyped, TaskTyped, OutsideTyped DEF Next
  <1> QED
    BY <1>1, <1>2

(***************************************************************************)
(* main, the tasks and the host keep their types, whatever signals, kills, *)
(* failures and restarts there are.                                        *)
(***************************************************************************)
THEOREM TypeCorrect == Spec => []TypeOK
  BY InitTyped, NextTyped, PTL DEF Spec
-----------------------------------------------------------------------------
LEMMA InitInv == Init => IInv
  BY DEF Init, IInv, StartedInv, AwaitedInv, StreamInv, PinInv, RefusedOnlyAfterKill,
         Unborn, Tasks

(***************************************************************************)
(* Starting a task adds its handle at the end, so that it is awaited, and  *)
(* nothing has been awaited yet.                                           *)
(***************************************************************************)
LEMMA SpawnInv ==
    ASSUME TypeOK, IInv, NEW t \in Tasks, NEW state \in {"starting", "running"},
           Spawn(t, state),
           pc \in {"k8s", "grpc", "health", "expiration"},
           pc' \in {"grpc", "health", "load", "select"},
           t = "grpc" => pc = "grpc",
           pc' = "grpc" => pc = "k8s"
    PROVE  IInv'
  <1> USE DEF Over
  <1>1. /\ handles' = Append(handles, t) /\ handles \in Seq(Tasks)
        /\ Len(handles') = Len(handles) + 1 /\ Len(handles) \in Nat
        /\ handles'[Len(handles) + 1] = t
        /\ \A i \in 1..Len(handles) : handles'[i] = handles[i]
    BY DEF TypeOK, Spawn
  <1>2. task' = [task EXCEPT ![t] = state] /\ task \in [Tasks -> {"unborn", "starting", "running", "draining", "ended"}]
    BY DEF TypeOK, Spawn
  <1>3. joined = 0 /\ joined' = 0
    BY DEF Spawn, IInv, AwaitedInv
  <1>4. StartedInv'
    <2> SUFFICES ASSUME NEW u \in Tasks, task'[u] # "unborn"
                 PROVE  \E i \in 1..Len(handles') : handles'[i] = u
      BY DEF StartedInv
    <2>1. CASE u = t
      <3>1. Len(handles) + 1 \in 1..Len(handles')
        BY <1>1
      <3> QED
        BY <1>1, <2>1, <3>1
    <2>2. CASE u # t
      <3>1. task[u] # "unborn"
        BY <1>2, <2>2
      <3>2. PICK i \in 1..Len(handles) : handles[i] = u
        BY <3>1 DEF IInv, StartedInv
      <3>3. i \in 1..Len(handles')
        BY <1>1
      <3> QED
        BY <1>1, <3>2, <3>3
    <2> QED
      BY <2>1, <2>2
  <1>5. AwaitedInv'
    BY <1>3 DEF AwaitedInv
  <1>6. StreamInv'
    <2>1. streams = {} \/ t # "grpc"
      BY DEF IInv, StreamInv
    <2> QED
      BY <1>2, <2>1 DEF IInv, StreamInv, Spawn, Tasks
  <1>7. PinInv' /\ RefusedOnlyAfterKill'
    BY DEF IInv, PinInv, RefusedOnlyAfterKill, Spawn, hostVars
  <1> QED
    BY <1>4, <1>5, <1>6, <1>7 DEF IInv

(***************************************************************************)
(* A task that changes its state was started and has not been awaited.     *)
(***************************************************************************)
LEMMA SetTaskInv ==
    ASSUME TypeOK, IInv, NEW t \in Tasks, NEW state \in {"running", "draining", "ended"},
           SetTask(t, state),
           task[t] \in {"starting", "running", "draining"},
           t = "grpc" => state # "ended" \/ streams = {}
    PROVE  IInv'
  <1> USE DEF Over
  <1>1. /\ pc' = pc /\ handles' = handles /\ joined' = joined /\ outcome' = outcome
        /\ reader' = reader /\ streams' = streams /\ pin' = pin /\ killed' = killed
    BY DEF SetTask, mainVars, hostVars
  <1>2. /\ task' = [task EXCEPT ![t] = state]
        /\ task \in [Tasks -> {"unborn", "starting", "running", "draining", "ended"}]
    BY DEF TypeOK, SetTask
  <1>3. StartedInv'
    BY <1>1, <1>2 DEF IInv, StartedInv
  <1>4. AwaitedInv'
    <2>1. ASSUME ~Over, NEW i \in 1..joined PROVE task'[handles[i]] = "ended"
      <3>1. task[handles[i]] = "ended"
        BY <2>1 DEF IInv, AwaitedInv
      <3>2. handles[i] \in Tasks /\ handles[i] # t
        BY <3>1 DEF TypeOK
      <3> QED
        BY <1>2, <3>1, <3>2
    <2> QED
      BY <1>1, <2>1 DEF IInv, AwaitedInv
  <1>5. StreamInv'
    BY <1>1, <1>2 DEF IInv, StreamInv, Tasks
  <1>6. PinInv' /\ RefusedOnlyAfterKill'
    BY <1>1 DEF IInv, PinInv, RefusedOnlyAfterKill
  <1> QED
    BY <1>3, <1>4, <1>5, <1>6 DEF IInv

LEMMA EndInv ==
    ASSUME TypeOK, IInv, NEW how \in {"stopped", "failed", "killed"}, EndProcess(how),
           \/ killed' = TRUE
           \/ killed' = killed /\ pc \notin {"open", "unpin"}
    PROVE  IInv'
  BY DEF EndProcess, IInv, StartedInv, AwaitedInv, StreamInv, PinInv, RefusedOnlyAfterKill,
         Over, mainVars, Unborn, Tasks

LEMMA StartupInv == TypeOK /\ IInv /\ StartupStep => IInv'
  <1> SUFFICES ASSUME TypeOK, IInv, StartupStep PROVE IInv'
    OBVIOUS
  <1>1. CASE StartWatcher
    BY <1>1, SpawnInv DEF StartWatcher, Tasks
  <1>2. CASE StartGrpc
    BY <1>2, SpawnInv DEF StartGrpc, Tasks
  <1>3. CASE StartHealth
    BY <1>3, SpawnInv DEF StartHealth, Tasks
  <1>4. CASE StartExpiration
    BY <1>4, SpawnInv DEF StartExpiration, Tasks
  <1>5. CASE NoWatcher \/ LoadProbes \/ AttachProbes \/ OpenRing
    BY <1>5 DEF NoWatcher, LoadProbes, AttachProbes, OpenRing, mainVars, taskVars, hostVars,
                IInv, StartedInv, AwaitedInv, StreamInv, PinInv, RefusedOnlyAfterKill, Over
  <1>6. CASE PinCounter \/ UnpinCounter
    BY <1>6 DEF PinCounter, UnpinCounter, mainVars, taskVars,
                IInv, StartedInv, AwaitedInv, StreamInv, PinInv, RefusedOnlyAfterKill, Over
  <1>7. CASE PinRefused \/ PinFails \/ OpenCounter
    BY <1>7 DEF PinRefused, PinFails, OpenCounter, taskVars, hostVars,
                IInv, StartedInv, AwaitedInv, StreamInv, PinInv, RefusedOnlyAfterKill, Over
  <1>8. CASE StartupFails
    BY <1>8, EndInv DEF StartupFails
  <1> QED
    BY <1>1, <1>2, <1>3, <1>4, <1>5, <1>6, <1>7, <1>8 DEF StartupStep

LEMMA MainInv ==
    ASSUME TypeOK, IInv,
           \/ LoopStep \/ ShutdownStep \/ JoinTimeout
           \/ \E s \in Signals : SignalBranch(s)
    PROVE  IInv'
  <1> USE DEF Over
  <1>1. CASE LoopStep
    BY <1>1 DEF LoopStep, TimerFires, BatchDone, mainVars, taskVars, hostVars,
                IInv, StartedInv, AwaitedInv, StreamInv, PinInv, RefusedOnlyAfterKill
  <1>2. CASE AwaitHandle
    <2>1. /\ pc = "join" /\ pc' = pc /\ handles' = handles /\ joined' = joined + 1
          /\ task' = task /\ task[handles[joined + 1]] = "ended"
          /\ UNCHANGED <<streams, pin, killed, reader, outcome>>
      BY <1>2 DEF AwaitHandle, taskVars, hostVars
    <2>2. \A i \in 1..joined' : i \in 1..joined \/ i = joined + 1
      BY <2>1 DEF TypeOK
    <2>3. AwaitedInv'
      BY <2>1, <2>2 DEF IInv, AwaitedInv
    <2> QED
      BY <2>1, <2>3 DEF IInv, StartedInv, StreamInv, PinInv, RefusedOnlyAfterKill
  <1>3. CASE AllJoined \/ JoinTimeout
    BY <1>3 DEF AllJoined, JoinTimeout, taskVars, hostVars,
                IInv, StartedInv, AwaitedInv, StreamInv, PinInv, RefusedOnlyAfterKill
  <1>4. CASE Unload
    BY <1>4, EndInv DEF Unload
  <1>5. CASE \E s \in Signals : SignalBranch(s)
    BY <1>5 DEF SignalBranch, taskVars, hostVars,
                IInv, StartedInv, AwaitedInv, StreamInv, PinInv, RefusedOnlyAfterKill
  <1> QED
    BY <1>1, <1>2, <1>3, <1>4, <1>5 DEF ShutdownStep

LEMMA TaskInv ==
    ASSUME TypeOK, IInv, WatcherTask \/ GrpcTask \/ HealthTask \/ ExpirationTask
    PROVE  IInv'
  <1>1. CASE StartResync
    BY <1>1 DEF StartResync, mainVars, hostVars,
                IInv, StartedInv, AwaitedInv, StreamInv, PinInv, RefusedOnlyAfterKill, Over
  <1>2. CASE WatcherStops \/ HealthStops \/ ExpirationStops
    BY <1>2, SetTaskInv DEF WatcherStops, HealthStops, ExpirationStops, Tasks
  <1>3. CASE GrpcNotices \/ GrpcDrained
    BY <1>3, SetTaskInv DEF GrpcNotices, GrpcDrained, Tasks
  <1>4. CASE Bind("grpc") \/ Bind("health")
    <2>1. task["grpc"] = "starting" => streams = {}
      BY DEF IInv, StreamInv
    <2> QED
      BY <1>4, <2>1, SetTaskInv DEF Bind, Tasks
  <1> QED
    BY <1>1, <1>2, <1>3, <1>4 DEF WatcherTask, GrpcTask, HealthTask, ExpirationTask

LEMMA OutsideInv ==
    ASSUME TypeOK, IInv,
           \/ \E s \in Signals : Signal(s)
           \/ \E c \in Clients : OpenStream(c) \/ CloseStream(c)
           \/ \E p \in Peers : AcceptConnection(p) \/ EndConnection(p)
           \/ ApiAnswers \/ Kill \/ Restart
    PROVE  IInv'
  <1> USE DEF Over
  <1>1. CASE (\E s \in Signals : Signal(s)) \/ ApiAnswers
    BY <1>1 DEF Signal, ApiAnswers, mainVars, taskVars, hostVars,
                IInv, StartedInv, AwaitedInv, StreamInv, PinInv, RefusedOnlyAfterKill
  <1>2. CASE \E c \in Clients : OpenStream(c) \/ CloseStream(c)
    BY <1>2 DEF OpenStream, CloseStream, mainVars, hostVars,
                IInv, StartedInv, AwaitedInv, StreamInv, PinInv, RefusedOnlyAfterKill
  <1>5. CASE \E p \in Peers : AcceptConnection(p) \/ EndConnection(p)
    BY <1>5 DEF AcceptConnection, EndConnection, mainVars, hostVars,
                IInv, StartedInv, AwaitedInv, StreamInv, PinInv, RefusedOnlyAfterKill
  <1>3. CASE Kill
    BY <1>3, EndInv DEF Kill
  <1>4. CASE Restart
    <2>1. /\ pc' = "k8s" /\ joined' = 0 /\ reader' = "none"
          /\ task' = task /\ streams' = streams /\ pin' = pin /\ killed' = killed
          /\ pc \in {"stopped", "failed", "killed"}
      BY <1>4 DEF Restart, taskVars
    <2>2. \A t \in Tasks : task[t] = "unborn"
      BY <2>1 DEF IInv, StartedInv
    <2>3. streams = {}
      BY <2>2 DEF IInv, StreamInv, Tasks
    <2>4. StartedInv' /\ StreamInv'
      BY <2>1, <2>2, <2>3 DEF StartedInv, StreamInv, Tasks
    <2>5. AwaitedInv'
      BY <2>1 DEF AwaitedInv
    <2> QED
      BY <2>1, <2>4, <2>5 DEF IInv, PinInv, RefusedOnlyAfterKill
  <1> QED
    BY <1>1, <1>2, <1>3, <1>4, <1>5

LEMMA NextInv == TypeOK /\ IInv /\ [Next]_vars => IInv'
  <1> SUFFICES ASSUME TypeOK, IInv, [Next]_vars PROVE IInv'
    OBVIOUS
  <1>1. CASE UNCHANGED vars
    BY <1>1 DEF vars, mainVars, taskVars, hostVars,
                IInv, StartedInv, AwaitedInv, StreamInv, PinInv, RefusedOnlyAfterKill, Over
  <1>2. CASE Next
    BY <1>2, StartupInv, MainInv, TaskInv, OutsideInv DEF Next
  <1> QED
    BY <1>1, <1>2

(***************************************************************************)
(* Types and the inductive invariant hold in every reachable state.        *)
(***************************************************************************)
THEOREM InvariantHolds == Spec => [](TypeOK /\ IInv)
  BY InitTyped, NextTyped, InitInv, NextInv, PTL DEF Spec

(***************************************************************************)
(* When the last handle was awaited, all handles were found ended; every   *)
(* task started has a handle, and an ended gRPC server has no streams.     *)
(***************************************************************************)
LEMMA CleanFollows == TypeOK /\ IInv => CleanMeansEnded
  <1> SUFFICES ASSUME TypeOK, IInv, pc = "unload", outcome = "clean"
               PROVE  (\A t \in Tasks : task[t] \in {"unborn", "ended"}) /\ streams = {}
    BY DEF CleanMeansEnded
  <1>1. ASSUME NEW t \in Tasks, task[t] # "unborn" PROVE task[t] = "ended"
    <2>1. PICK i \in 1..Len(handles) : handles[i] = t
      BY <1>1 DEF IInv, StartedInv, Over
    <2>2. joined = Len(handles)
      BY DEF IInv, AwaitedInv
    <2> QED
      BY <2>1, <2>2 DEF IInv, AwaitedInv, Over
  <1>2. streams = {}
    BY <1>1 DEF IInv, StreamInv, Tasks
  <1> QED
    BY <1>1, <1>2

(***************************************************************************)
(* A shutdown called clean leaves none of the tasks main started at work   *)
(* and cuts off no event stream; the connections of the health server are  *)
(* not among the tasks it waits for.                                       *)
(***************************************************************************)
THEOREM HandlesAwaited == Spec => []CleanMeansEnded
  BY InvariantHolds, CleanFollows, PTL

(***************************************************************************)
(* The drop counter is refused only to an agent with a killed predecessor. *)
(***************************************************************************)
THEOREM CounterOpens == Spec => []RefusedOnlyAfterKill
  <1>1. IInv => RefusedOnlyAfterKill
    BY DEF IInv
  <1> QED
    BY InvariantHolds, <1>1, PTL
=============================================================================
