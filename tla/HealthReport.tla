---------------------------- MODULE HealthReport ----------------------------
(***************************************************************************)
(* What the agent says of its health (orb8-agent/src/health.rs) while its  *)
(* tasks change it.  HealthState is seven atomics, each stored on its own  *)
(* by the task it belongs to; a report, for /healthz or GetStatus, loads   *)
(* eleven times, one after another, and a kubelet that asks /healthz       *)
(* restarts the agent after FailureThreshold bad answers in a row.         *)
(*                                                                         *)
(* Reports do not change what they read, so one at a time is enough.  A    *)
(* load the short circuit of && skips is made here and not used.  Loads    *)
(* and stores interleave in one order (the code uses Ordering::Relaxed).   *)
(***************************************************************************)
EXTENDS Naturals, Sequences

CONSTANTS
    FailureThreshold,   \* of the livenessProbe
    MaxCount,           \* bound: the counters
    MaxStores           \* bound: stores while a request is answered

ASSUME HealthAssumption ==
    FailureThreshold \in Nat \ {0} /\ MaxCount \in Nat /\ MaxStores \in Nat

VARIABLES
    health,         \* HealthState::inner
    refusing,       \* insert_ip has raised the flag and not yet counted
    request,        \* "idle", "liveness", "readiness", "status"
    seen,           \* what the request has loaded
    failures,       \* bad liveness answers in a row
    \* history
    stores,         \* stores since the request was accepted
    facts,          \* what was the case at some moment of the request
    before          \* something had been counted when it was accepted

vars == <<health, refusing, request, seen, failures, stores, facts, before>>

Flags == {"probes_attached", "k8s_watcher_connected",
          "flow_table_at_capacity", "pod_cache_at_capacity"}
Counters == {"broadcast_drops", "flow_evictions", "pod_cache_evictions"}
New == [f \in Flags \cup Counters |-> IF f \in Flags THEN FALSE ELSE 0]

IsHealthy(h) == h.probes_attached /\ ~h.flow_table_at_capacity

Facts(h) == {<<f, h[f]>> : f \in Flags} \cup {<<"healthy", IsHealthy(h)>>}

Init ==
    /\ health = New /\ refusing = FALSE
    /\ request = "idle" /\ seen = <<>> /\ failures = 0
    /\ stores = 0 /\ facts = {} /\ before = FALSE
-----------------------------------------------------------------------------
(***************************************************************************)
(* The stores.  The event loop and the expiration task start after the     *)
(* probes were attached.                                                   *)
(***************************************************************************)
Store(field, value) ==
    /\ health' = [health EXCEPT ![field] = value]
    /\ IF request = "idle" THEN UNCHANGED <<stores, facts>>
       ELSE /\ stores < MaxStores
            /\ stores' = stores + 1
            /\ facts' = facts \cup Facts(health')
    /\ UNCHANGED <<request, seen, failures, before>>

Count(field) == health[field] < MaxCount /\ Store(field, health[field] + 1)

SetProbesAttached == Store("probes_attached", TRUE) /\ UNCHANGED refusing

SetFlowTableAtCapacity(val) ==
    /\ health.probes_attached
    /\ Store("flow_table_at_capacity", val)
    /\ UNCHANGED refusing

Inc(field) ==
    /\ health.probes_attached
    /\ Count(field)
    /\ UNCHANGED refusing

SetK8sWatcherConnected(val) ==
    /\ ~refusing
    /\ Store("k8s_watcher_connected", val)
    /\ UNCHANGED refusing

RefuseEntry == ~refusing /\ refusing' = TRUE /\ Store("pod_cache_at_capacity", TRUE)
CountRefusal == refusing /\ refusing' = FALSE /\ Count("pod_cache_evictions")

PodRemoved ==
    /\ ~refusing
    /\ Store("pod_cache_at_capacity", FALSE)
    /\ UNCHANGED refusing

Stores ==
    \/ SetProbesAttached
    \/ \E val \in BOOLEAN : SetFlowTableAtCapacity(val) \/ SetK8sWatcherConnected(val)
    \/ Inc("broadcast_drops") \/ Inc("flow_evictions")
    \/ RefuseEntry \/ CountRefusal \/ PodRemoved
-----------------------------------------------------------------------------
(***************************************************************************)
(* The loads of is_ready, is_healthy and health_message in their order;    *)
(* the severity of a message is a second call of is_healthy.               *)
(***************************************************************************)
HealthyLoads == <<"probes_attached", "flow_table_at_capacity">>
MessageLoads == HealthyLoads \o <<"k8s_watcher_connected", "pod_cache_at_capacity",
                    "broadcast_drops", "flow_evictions", "pod_cache_evictions">>
Loads(kind) == IF kind = "readiness" THEN <<"probes_attached">>
               ELSE HealthyLoads \o MessageLoads \o HealthyLoads

\* Mutant: a full flow table is part of the message only.
HealthyIfAttached(probes, full) == probes

Healthy(probes, full) == probes /\ ~full

\* Mutant: an issue that does not make the agent unhealthy lowers the severity.
MessageOfLast(s, issues, counters) ==
    [issues   |-> {MessageLoads[i] : i \in issues},
     severity |-> IF issues = {} THEN "OK"
                  ELSE IF issues \cap {3, 4} # {} THEN "DEGRADED" ELSE "UNHEALTHY",
     counters |-> IF issues = {} THEN counters ELSE <<>>]

Message(s, issues, counters) ==
    [issues   |-> {MessageLoads[i] : i \in issues},
     severity |-> IF issues = {} THEN "OK"
                  ELSE IF Healthy(s[8], s[9]) THEN "DEGRADED" ELSE "UNHEALTHY",
     counters |-> IF issues = {} THEN counters ELSE <<>>]

Issues(s) == {i \in 1..4 : s[i] # (i \in {1, 3})}
Counted(s) == SubSeq(s, 5, 7)

\* Mutant: else if, so that only the first issue is named.
FirstIssue(s) == Message(s, {i \in Issues(s) : \A j \in Issues(s) : i <= j}, Counted(s))

\* Mutant: && between the counters.
CountersTogether(s) ==
    Message(s, Issues(s), IF \A i \in 5..7 : s[i] > 0 THEN Counted(s) ELSE <<>>)

(***************************************************************************)
(* health_message: an issue is a flag that is not as it should be; the     *)
(* counters are added in the absence of issues, if one is not 0.           *)
(***************************************************************************)
HealthMessage(s) ==
    Message(s, Issues(s), IF \E i \in 5..7 : s[i] > 0 THEN Counted(s) ELSE <<>>)

AnswerTo(kind, s) ==
    IF kind = "readiness" THEN [ok |-> s[1]]
    ELSE [ok      |-> Healthy(s[1], s[2]),
          message |-> HealthMessage(SubSeq(s, 3, Len(s)))]

Answered == request # "idle" /\ Len(seen) = Len(Loads(request))
TheAnswer == AnswerTo(request, seen)

Ask(kind) ==
    /\ request = "idle"
    /\ request' = kind
    /\ facts' = Facts(health)
    /\ before' = \E c \in Counters : health[c] > 0
    /\ UNCHANGED <<health, refusing, seen, failures, stores>>

Load ==
    /\ request # "idle" /\ Len(seen) < Len(Loads(request))
    /\ seen' = Append(seen, health[Loads(request)[Len(seen) + 1]])
    /\ UNCHANGED <<health, refusing, request, failures, stores, facts, before>>

Answer ==
    /\ Answered
    /\ failures' = IF request # "liveness" THEN failures
                   ELSE IF TheAnswer.ok THEN 0 ELSE failures + 1
    /\ request' = "idle" /\ seen' = <<>>
    /\ stores' = 0 /\ facts' = {} /\ before' = FALSE
    /\ UNCHANGED <<health, refusing>>

\* The kubelet restarts the container; a new process starts from new().
Restart ==
    /\ request = "idle" /\ failures = FailureThreshold
    /\ health' = New /\ refusing' = FALSE
    /\ failures' = 0
    /\ UNCHANGED <<request, seen, stores, facts, before>>

Next ==
    \/ Stores
    \/ failures < FailureThreshold /\ \E kind \in {"liveness", "readiness", "status"} : Ask(kind)
    \/ Load \/ Answer \/ Restart

Spec == Init /\ [][Next]_vars

(***************************************************************************)
(* A request that was accepted is answered, and the kubelet keeps asking   *)
(* whatever other clients do.  No store is fair: a task may have nothing   *)
(* to store.                                                               *)
(***************************************************************************)
FairSpec ==
    /\ Spec
    /\ WF_vars(Load) /\ WF_vars(Answer) /\ WF_vars(Restart)
    /\ SF_vars(failures < FailureThreshold /\ Ask("liveness"))
-----------------------------------------------------------------------------
Reported == Answered /\ request # "readiness"

(***************************************************************************)
(* A report is put together from loads of different moments, but each part *)
(* of it was the case at some moment of the request: the status, every     *)
(* issue it names, and the absence of every issue it does not.             *)
(***************************************************************************)
ReportWasTrue ==
    Reported =>
        /\ <<"healthy", TheAnswer.ok>> \in facts
        /\ \A f \in Flags :
              LET bad == f \in TheAnswer.message.issues
              IN  <<f, bad # (f \in {"probes_attached", "k8s_watcher_connected"})>> \in facts

(***************************************************************************)
(* No loss is passed over in silence: once an event found no subscriber, a *)
(* flow was evicted or an address refused, no later report is a bare "OK". *)
(***************************************************************************)
NeverBareOK ==
    Reported /\ before =>
        TheAnswer.message.severity # "OK" \/ TheAnswer.message.counters # <<>>

(***************************************************************************)
(* The severity comes from loads of its own, made after the status and the *)
(* issues it goes with, and may contradict both; but it, too, was the case *)
(* at some moment of the request.  So an agent that was unhealthy all the  *)
(* time is never called "OK" or "DEGRADED", nor a healthy one "UNHEALTHY". *)
(***************************************************************************)
SeverityWasTrue ==
    Reported => <<"healthy", TheAnswer.message.severity # "UNHEALTHY">> \in facts

(***************************************************************************)
(* A saturated flow table does not stay: if the expiration task does not   *)
(* clear the flag, the kubelet sees 503 often enough in a row to restart   *)
(* the agent, whatever else happens to the other flags.                    *)
(***************************************************************************)
SaturationEnds == health.flow_table_at_capacity ~> ~health.flow_table_at_capacity
=============================================================================
