---------------------------- MODULE MCFlowTable -----------------------------
(***************************************************************************)
(* Bounded instances of FlowTable for TLC.  Only the environment is        *)
(* bounded: the number of events, and the clock.  Events arrive up to time *)
(* TrafficEnd, the last of them is booked by then, and the clock goes on   *)
(* until the flow seen last is past its timeout.                           *)
(***************************************************************************)
EXTENDS FlowTable

CONSTANTS MaxEvents, TrafficEnd

MaxNow == TrafficEnd + FlowTimeout

BoundedEvent(k) ==
    /\ eventsProcessed < MaxEvents
    /\ now <= TrafficEnd
    /\ ProcessEvent(k)

BoundedTick ==
    /\ now < MaxNow
    /\ now >= TrafficEnd => loopPc = "idle"
    /\ Tick

MCNext ==
    \/ \E k \in Keys : BoundedEvent(k)
    \/ LoopStep
    \/ SweepStep
    \/ BoundedTick

MCSpec == Init /\ [][MCNext]_vars

(***************************************************************************)
(* The runtime schedules both tasks, the interval of the expiration task   *)
(* keeps firing and time passes.  That events arrive is not assumed.       *)
(***************************************************************************)
MCFairSpec ==
    /\ MCSpec
    /\ WF_vars(LoopStep)
    /\ WF_vars(SweepStep)
    /\ WF_vars(BoundedTick)
=============================================================================
