----------------------------- MODULE Attribution -----------------------------
(***************************************************************************)
(* Who a packet is booked on: the event loop (orb8-agent/src/main.rs) looks *)
(* up the two addresses of an event in the pod cache, one after the other, *)
(* while the watcher changes it, and a packet may have waited in the ring  *)
(* buffer through any number of changes of the cluster.  PodWatcher is     *)
(* composed with one packet, captured at any moment, up to its name; the   *)
(* events of other packets have no part in it.                             *)
(***************************************************************************)
EXTENDS PodWatcher

CONSTANT Outside        \* an address no pod has

ASSUME OutsideAssumption == Outside \notin Ips \cup {NoIp}

VARIABLES
    stage,      \* of the packet: "none", "captured", "half" (src looked up), "named"
    packet,     \* [src, dst, ingress]
    srcPod,     \* pod_cache.get_by_ip(event.src_ip), or NoPod
    name,       \* the pod the event is booked on, NoPod for external/unknown
    \* history
    sure,       \* the pod the agent knew at the packet's near end when it was captured
    owners      \* pods that showed one of its addresses since then, if the agent can tell

packetVars == <<stage, packet, srcPod, name, sure, owners>>
attrVars == <<vars, packetVars>>

NoPod == NoIp
ASSUME NoPodAssumption == NoPod \notin Pods

Addresses == Ips \cup {Outside}
Near(pkt) == IF pkt.ingress THEN pkt.dst ELSE pkt.src
OwnersIn(cl, pkt) ==    \* a completed pod still shows its address
    {p \in Pods : cl[p].phase \in {"running", "completed"} /\ cl[p].ip \in {pkt.src, pkt.dst}}

AttrInit ==
    /\ Init
    /\ stage = "none" /\ packet = [src |-> Outside, dst |-> Outside, ingress |-> FALSE]
    /\ srcPod = NoPod /\ name = NoPod
    /\ sure = NoPod /\ owners = {}
-----------------------------------------------------------------------------
GetByIp(ip) == IF ip \in DOMAIN cache.by_ip THEN cache.by_ip[ip] ELSE NoPod

(***************************************************************************)
(* A probe sees a packet of the host's interfaces, on its way into or out  *)
(* of it.  What the agent could know at this moment is kept for the        *)
(* properties: owners is all pods when the cache is behind the cluster or  *)
(* a failed connection may have left ghosts in it.                         *)
(***************************************************************************)
Capture(pkt) ==
    /\ stage = "none"
    /\ stage' = "captured"
    /\ packet' = pkt
    /\ sure' = IF /\ CaughtUp
                  /\ \E p \in Running : cluster[p].ip = Near(pkt)
                  /\ Near(pkt) \notin reused
                  /\ GetByIp(Near(pkt)) # NoPod
               THEN CHOOSE p \in Running : cluster[p].ip = Near(pkt)
               ELSE NoPod
    /\ owners' = IF CaughtUp /\ faults = 0 THEN OwnersIn(cluster, pkt) ELSE Pods
    /\ UNCHANGED <<vars, srcPod, name>>

LookupSrc ==
    /\ stage = "captured"
    /\ srcPod' = GetByIp(packet.src)
    /\ stage' = "half"
    /\ UNCHANGED <<vars, packet, name, sure, owners>>

\* Mutant: the pod at the source names every event.
AttributeToSource ==
    /\ stage = "half"
    /\ name' = IF srcPod # NoPod THEN srcPod ELSE GetByIp(packet.dst)
    /\ stage' = "named"
    /\ UNCHANGED <<vars, packet, srcPod, sure, owners>>

Attribute ==
    /\ stage = "half"
    /\ LET dstPod == GetByIp(packet.dst)
           near   == IF packet.ingress THEN dstPod ELSE srcPod
           far    == IF packet.ingress THEN srcPod ELSE dstPod
       IN  name' = IF near # NoPod THEN near ELSE far
    /\ stage' = "named"
    /\ UNCHANGED <<vars, packet, srcPod, sure, owners>>

\* Everything else goes on meanwhile.
Elsewhere ==
    /\ stage # "named"
    /\ Next
    /\ owners' = IF stage \in {"captured", "half"}
                 THEN owners \cup OwnersIn(cluster', packet) ELSE owners
    /\ UNCHANGED <<stage, packet, srcPod, name, sure>>

AttrNext ==
    \/ \E src, dst \in Addresses, ingress \in BOOLEAN :
          src # dst /\ Capture([src |-> src, dst |-> dst, ingress |-> ingress])
    \/ LookupSrc \/ Attribute
    \/ Elsewhere

AttrSpec == AttrInit /\ [][AttrNext]_attrVars
-----------------------------------------------------------------------------
(***************************************************************************)
(* A packet of a pod the agent knew when it was captured is booked on that *)
(* pod, if the pod still runs when the name is chosen: no event, deletion  *)
(* or failure of other pods, no resync and no refusal in between takes the *)
(* name away, and the second lookup is never in conflict with the first.   *)
(***************************************************************************)
AttributionStable ==
    stage = "named" /\ sure \in Running => name = sure

(***************************************************************************)
(* No packet is booked on a pod whose status showed neither of its         *)
(* addresses at the capture or later, when the cache was true at the       *)
(* capture: what waited in the ring buffer may go to the next owner of an  *)
(* address, never to one that was deleted before.                          *)
(***************************************************************************)
AttributionHonest ==
    stage = "named" => name \in owners \cup {NoPod}
=============================================================================
