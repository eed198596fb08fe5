----------------------------- MODULE MCFlowQuery -----------------------------
(***************************************************************************)
(* An instance of FlowQuery for TLC: three flows of three pods, of which   *)
(* two share their namespace and two, of different ones, their name.       *)
(***************************************************************************)
EXTENDS FlowQuery

MCPodOf == <<[namespace |-> "a", pod_name |-> "x"],
             [namespace |-> "b", pod_name |-> "x"],
             [namespace |-> "b", pod_name |-> "y"]>>

MCRequests == [namespaces : {{}, {"b"}}, pod_names : {{}, {"x"}}, limit : {0, 1, 3}]
=============================================================================
