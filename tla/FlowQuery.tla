------------------------------ MODULE FlowQuery ------------------------------
(***************************************************************************)
(* QueryFlows: one request of the command line client (orb8-cli/src/lib.rs) *)
(* to the agent (orb8-agent/src/grpc_server.rs) over the flow table, here  *)
(* the ledger that FlowTable implements.  get_flows walks the table shard  *)
(* by shard while flows are booked, evicted and expired; every flow is in  *)
(* a shard of its own here, in the order of the keys.  The packets of a    *)
(* flow stand for its bytes: nothing but the order of the reply uses them. *)
(***************************************************************************)
EXTENDS FlowLedger, Sequences, FiniteSetsExt

CONSTANTS
    PodOf,          \* flow key -> [namespace, pod_name]
    Requests,       \* [namespaces, pod_names, limit] the clients send
    MaxQueryLimit,  \* AgentConfig::max_query_limit
    MaxPackets,     \* bound: packets booked
    MaxTime         \* bound: the clock

ASSUME QueryAssumption ==
    /\ Keys \subseteq Nat /\ IsFiniteSet(Keys) /\ MaxQueryLimit \in Nat
    /\ \A req \in Requests : req.limit \in Nat

VARIABLES
    asked,          \* the request being answered, or NoRequest
    todo,           \* keys get_flows has still to visit
    collected,      \* set of [key, bytes]
    \* history
    kept            \* flow -> bytes at the start, of the flows that stayed in the table

queryVars == <<asked, todo, collected, kept>>
allVars == <<vars, queryVars>>

NoRequest == [limit |-> -1]
Asking == asked # NoRequest

QueryInit ==
    /\ Init
    /\ asked = NoRequest /\ todo = {} /\ collected = {} /\ kept = <<>>
-----------------------------------------------------------------------------
Book ==
    /\ Next
    /\ recorded' <= MaxPackets /\ now' <= MaxTime
    /\ kept' = [k \in DOMAIN kept \cap DOMAIN flows' |-> kept[k]]
    /\ UNCHANGED <<asked, todo, collected>>

QueryFlows(req) ==
    /\ ~Asking
    /\ asked' = req
    /\ todo' = Keys
    /\ kept' = [k \in DOMAIN flows |-> flows[k].packets]
    /\ UNCHANGED <<vars, collected>>

Matches(req, k) ==
    /\ req.namespaces = {} \/ PodOf[k].namespace \in req.namespaces
    /\ req.pod_names = {} \/ PodOf[k].pod_name \in req.pod_names

(***************************************************************************)
(* The iterator of get_flows locks one shard at a time and clones what it  *)
(* finds there.                                                            *)
(***************************************************************************)
Visit ==
    /\ Asking /\ todo # {}
    /\ LET k == CHOOSE j \in todo : \A i \in todo : j <= i
       IN  /\ todo' = todo \ {k}
           /\ collected' = IF k \in DOMAIN flows /\ Matches(asked, k)
                           THEN collected \cup {[key |-> k, bytes |-> flows[k].packets]}
                           ELSE collected
    /\ UNCHANGED <<vars, asked, kept>>

\* 0, which the client sends when it leaves the field out, means the maximum.
Limit(req) ==
    IF req.limit = 0 \/ req.limit > MaxQueryLimit THEN MaxQueryLimit ELSE req.limit

Before(f, g) == f.bytes > g.bytes \/ (f.bytes = g.bytes /\ f.key < g.key)

\* Each flow at the place the number of those before it gives it.
LargestFirst(flowSet) ==
    [i \in 1..Cardinality(flowSet) |->
        CHOOSE f \in flowSet : Cardinality({g \in flowSet : Before(g, f)}) = i - 1]

Cut(n, s) == SubSeq(s, 1, IF Len(s) < n THEN Len(s) ELSE n)

\* Mutant: the walk ends at the limit.
ReplyOfFirst ==
    LargestFirst({f \in collected : Cardinality({g \in collected : g.key < f.key}) < Limit(asked)})

(***************************************************************************)
(* The reply: largest flows first (the sort is stable, so that equal ones  *)
(* stay in the order of the walk), cut at the limit.                       *)
(***************************************************************************)
Reply == Cut(Limit(asked), LargestFirst(collected))

Walked == Asking /\ todo = {}

\* Mutant: the buffer of the walk is reused and not cleared.
SendReplyKeepsBuffer ==
    /\ Walked
    /\ asked' = NoRequest /\ kept' = <<>>
    /\ UNCHANGED <<vars, todo, collected>>

SendReply ==
    /\ Walked
    /\ asked' = NoRequest /\ collected' = {} /\ kept' = <<>>
    /\ UNCHANGED <<vars, todo>>

QueryNext == Book \/ (\E req \in Requests : QueryFlows(req)) \/ Visit \/ SendReply

QuerySpec == QueryInit /\ [][QueryNext]_allVars
-----------------------------------------------------------------------------
(***************************************************************************)
(* Although its flows are read at different moments, while some are        *)
(* evicted and come back, a reply never shows more packets than were       *)
(* booked, never less of a flow than it had when the client asked, and     *)
(* never more flows than max_query_limit.                                  *)
(***************************************************************************)
ReplyCounts ==
    Walked =>
        /\ MapThenSumSet(LAMBDA f : f.bytes, collected) <= recorded
        /\ \A f \in collected : f.key \in DOMAIN kept => kept[f.key] <= f.bytes
        /\ Len(Reply) <= MaxQueryLimit

(***************************************************************************)
(* A flow that was asked for and stayed in the table from the request to   *)
(* the end of the walk is in the reply, unless the reply is full of flows  *)
(* at least as large as this one was: what is booked, evicted or expired   *)
(* behind or before the walk costs no other flow its place.                *)
(***************************************************************************)
NoneMissed ==
    Walked =>
        \A k \in DOMAIN kept :
            Matches(asked, k) =>
                \/ \E i \in DOMAIN Reply : Reply[i].key = k
                \/ /\ Len(Reply) = Limit(asked)
                   /\ \A i \in DOMAIN Reply : Reply[i].bytes >= kept[k]
=============================================================================
