------------------------------ MODULE NodeView ------------------------------
(***************************************************************************)
(* What the agent makes of the node it runs on, once, when it starts, and  *)
(* goes by ever after: the interfaces it attaches its probes to            *)
(* (discover_interfaces and attach_to_interfaces of                        *)
(* orb8-agent/src/probe_loader.rs) and the addresses by which it           *)
(* recognises the packets of its own gRPC connections                      *)
(* (orb8-agent/src/net.rs).  The node may change at any time; the pod      *)
(* network brings up bridges and addresses while the agent starts.         *)
(*                                                                         *)
(* Each question put to /sys or /proc, and each interface of a loop, is    *)
(* one step.  The loopback interface is always there.  Attaching a probe   *)
(* may fail for any reason, and does when the interface is gone, or the    *)
(* kernel wants the clsact qdisc for it and there is none.  An address is  *)
(* the number parse_ipv4 makes of it, which is also what a probe reads; on *)
(* its way past a probe a packet has the addresses its sockets see.        *)
(***************************************************************************)
EXTENDS Naturals, Sequences, FiniteSets, SequencesExt

CONSTANTS
    Ifaces,         \* interfaces the node may have, besides "lo"
    DockerBridges,  \* those named br-...
    Addresses,      \* addresses the node, pods and others may have, besides Loopback
    Loopback,
    NeedsQdisc,     \* the kernel attaches classifiers to the clsact qdisc only
    MaxChanges      \* bound: changes of the node

ASSUME NodeAssumption ==
    /\ "lo" \notin Ifaces /\ DockerBridges \subseteq Ifaces
    /\ Loopback \notin Addresses /\ NeedsQdisc \in BOOLEAN /\ MaxChanges \in Nat

VARIABLES
    \* the node
    ifaces, route, addrs, changes,
    clsact,         \* interfaces with the qdisc, the agent's or another's
    \* the agent
    pc,
    interfaces,     \* what discover_interfaces found
    todo,           \* what the current loop has left
    probes,         \* direction -> interface -> how many probes it has
    localIps,
    packet,         \* the last packet and what became of it
    \* history
    warned,         \* direction -> interface -> failures to attach
    disturbed,      \* an interface or the route changed while the agent started
    unsettled,      \* addresses that came or went since localIps was made
    readable        \* /proc/net/fib_trie could be read

node == <<ifaces, route, addrs, changes, clsact>>
vars == <<node, pc, interfaces, todo, probes, localIps, packet,
          warned, disturbed, unsettled, readable>>

None == "none"
Directions == {"ingress", "egress"}
ContainerBridges == <<"cni0", "docker0", "cbr0">>
Bridges == {ContainerBridges[i] : i \in DOMAIN ContainerBridges}

Init ==
    /\ ifaces \in SUBSET Ifaces /\ route \in ifaces \cup {None}
    /\ addrs \in SUBSET Addresses /\ changes = 0 /\ clsact = {}
    /\ pc = "primary" /\ interfaces = <<>> /\ todo = <<>>
    /\ probes = [d \in Directions |-> [i \in Ifaces \cup {"lo"} |-> 0]]
    /\ localIps = {}
    /\ packet = [origin |-> None, filtered |-> FALSE, settled |-> FALSE]
    /\ warned = probes /\ disturbed = FALSE /\ unsettled = {} /\ readable = TRUE
-----------------------------------------------------------------------------
(***************************************************************************)
(* Changes of the node: links come and go, with them routes, qdiscs and    *)
(* probes; addresses come and go.                                          *)
(***************************************************************************)
ChangeLinks ==
    /\ changes < MaxChanges
    /\ \E i \in Ifaces :
          \/ ifaces' = ifaces \cup {i} /\ route' \in {route, i}
          \/ ifaces' = ifaces \ {i} /\ route' = IF route = i THEN None ELSE route
    /\ changes' = changes + 1
    /\ clsact' = clsact \cap (ifaces' \cup {"lo"})
    /\ probes' = [d \in Directions |-> [i \in Ifaces \cup {"lo"} |->
                     IF i \in ifaces' \cup {"lo"} THEN probes[d][i] ELSE 0]]
    /\ disturbed' = (disturbed \/ pc # "running")
    /\ UNCHANGED <<addrs, pc, interfaces, todo, localIps, packet, warned, unsettled, readable>>

ChangeAddress(a) ==
    /\ changes < MaxChanges
    /\ addrs' = IF a \in addrs THEN addrs \ {a} ELSE addrs \cup {a}
    /\ changes' = changes + 1
    /\ unsettled' = IF pc = "running" THEN unsettled \cup {a} ELSE unsettled
    /\ UNCHANGED <<ifaces, route, clsact, pc, interfaces, todo, probes, localIps, packet,
                   warned, disturbed, readable>>
-----------------------------------------------------------------------------
Discovers ==
    UNCHANGED <<node, probes, localIps, packet, warned, disturbed, unsettled, readable>>

InterfaceExists(i) == i \in ifaces
GetDefaultRouteInterface == route
FindDockerBridges == DockerBridges \cap ifaces     \* one of them, in no particular order

(***************************************************************************)
(* discover_interfaces: the interface of the default route, ...            *)
(***************************************************************************)
FindPrimary ==
    /\ pc = "primary"
    /\ \/ /\ GetDefaultRouteInterface # None
          /\ interfaces' = <<GetDefaultRouteInterface>>
          /\ pc' = "bridge" /\ todo' = ContainerBridges
       \/ /\ GetDefaultRouteInterface = None
          /\ pc' = "eth0" /\ UNCHANGED <<interfaces, todo>>
    /\ Discovers

\* ... or eth0 if it exists; ...
FindEth0 ==
    /\ pc = "eth0" /\ pc' = "bridge" /\ todo' = ContainerBridges
    /\ interfaces' = IF InterfaceExists("eth0") THEN <<"eth0">> ELSE <<>>
    /\ Discovers

\* ... the first of the usual container bridges, without a look at what was found; ...
FindBridge ==
    /\ pc = "bridge"
    /\ \/ todo = <<>> /\ pc' = "docker" /\ UNCHANGED <<interfaces, todo>>
       \/ /\ todo # <<>> /\ InterfaceExists(Head(todo))
          /\ interfaces' = Append(interfaces, Head(todo))
          /\ pc' = "docker" /\ UNCHANGED todo
       \/ /\ todo # <<>> /\ ~InterfaceExists(Head(todo))
          /\ todo' = Tail(todo) /\ UNCHANGED <<pc, interfaces>>
    /\ Discovers

\* ... a Docker bridge that was not found yet; and the fallback.
FindDockerBridge ==
    /\ pc = "docker" /\ pc' = "clsact"
    /\ IF FindDockerBridges = {} THEN interfaces' = IF interfaces = <<>> THEN <<"lo">> ELSE interfaces
       ELSE \E b \in FindDockerBridges :
               interfaces' = IF b \in Range(interfaces) THEN interfaces ELSE Append(interfaces, b)
    /\ todo' = interfaces'
    /\ Discovers
-----------------------------------------------------------------------------
Attaches ==
    UNCHANGED <<ifaces, route, addrs, changes, interfaces, localIps, packet,
                disturbed, unsettled, readable>>

(***************************************************************************)
(* attach_to_interfaces: a qdisc for each interface that is there, unless  *)
(* it cannot be had, which is taken for a sign that there is one already.  *)
(***************************************************************************)
AddClsact ==
    /\ pc = "clsact"
    /\ \/ todo = <<>> /\ pc' = "ingress" /\ todo' = interfaces /\ UNCHANGED clsact
       \/ /\ todo # <<>> /\ todo' = Tail(todo) /\ UNCHANGED pc
          /\ \/ Head(todo) \in ifaces \cup {"lo"} /\ clsact' = clsact \cup {Head(todo)}
             \/ UNCHANGED clsact
    /\ UNCHANGED <<probes, warned>> /\ Attaches

\* The program of a direction is loaded before the loop; if that fails, the agent ends.
LoadFails(d) ==
    /\ pc = d /\ todo = interfaces
    /\ pc' = "failed"
    /\ UNCHANGED <<clsact, todo, probes, warned>> /\ Attaches

CanAttach(i) == i \in ifaces \cup {"lo"} /\ (NeedsQdisc => i \in clsact)

\* Mutant: the first failure ends the loop.
AttachOrGiveUp(d) ==
    /\ pc = d /\ todo # <<>>
    /\ \/ /\ CanAttach(Head(todo))
          /\ probes' = [probes EXCEPT ![d][Head(todo)] = @ + 1]
          /\ todo' = Tail(todo) /\ UNCHANGED warned
       \/ /\ warned' = [warned EXCEPT ![d][Head(todo)] = @ + 1]
          /\ todo' = <<>> /\ UNCHANGED probes
    /\ UNCHANGED <<pc, clsact>> /\ Attaches

\* One interface of the loop for a direction; a failure is warned of and otherwise ignored.
Attach(d) ==
    /\ pc = d /\ todo # <<>>
    /\ \/ /\ CanAttach(Head(todo))
          /\ probes' = [probes EXCEPT ![d][Head(todo)] = @ + 1]
          /\ UNCHANGED warned
       \/ /\ warned' = [warned EXCEPT ![d][Head(todo)] = @ + 1]
          /\ UNCHANGED probes
    /\ todo' = Tail(todo)
    /\ UNCHANGED <<pc, clsact>> /\ Attaches

\* After the loop for ingress that for egress; then set_probes_attached(true).
AttachDone(d) ==
    /\ pc = d /\ todo = <<>>
    /\ IF d = "ingress" THEN pc' = "egress" /\ todo' = interfaces
                        ELSE pc' = "ready" /\ UNCHANGED todo
    /\ UNCHANGED <<clsact, probes, warned>> /\ Attaches
-----------------------------------------------------------------------------
(***************************************************************************)
(* resolve_local_ips: the loopback address, and those of the node if       *)
(* fib_trie can be read.                                                   *)
(***************************************************************************)
ResolveLocalIps ==
    /\ pc = "ready" /\ pc' = "running"
    /\ \/ localIps' = {Loopback} \cup addrs /\ readable' = TRUE
       \/ localIps' = {Loopback} /\ readable' = FALSE
    /\ UNCHANGED <<node, interfaces, todo, probes, packet, warned, disturbed, unsettled>>

\* The ends of a packet: an address, and whether the port is that of the agent's server.
End == [addr : Addresses \cup {Loopback}, grpc : BOOLEAN]

\* Mutant: the addresses are compared without the ports they belong to.
SelfTrafficMixed(src, dst) ==
    IF localIps = {} THEN src.grpc \/ dst.grpc
    ELSE (src.grpc \/ dst.grpc) /\ (src.addr \in localIps \/ dst.addr \in localIps)

IsSelfTraffic(src, dst) ==
    IF localIps = {} THEN src.grpc \/ dst.grpc
    ELSE \E e \in {src, dst} : e.grpc /\ e.addr \in localIps

\* A packet is captured, and the event loop decides whether it is the agent's own.
Capture(from, src, dst) ==
    /\ pc = "running"
    /\ packet' = [origin   |-> from,
                  filtered |-> IsSelfTraffic(src, dst),
                  settled  |-> {src.addr, dst.addr} \cap unsettled = {}]
    /\ UNCHANGED <<node, pc, interfaces, todo, probes, localIps,
                   warned, disturbed, unsettled, readable>>

(***************************************************************************)
(* Where packets come from.  The agent's server listens on its port at all *)
(* addresses of the node, for clients anywhere: each packet of a           *)
(* connection goes to or from there.  With UDP, or if the agent did not    *)
(* get the port, another process of the node may use it there ("port").    *)
(* All else, pods that use the same port included, is "other".             *)
(***************************************************************************)
AtServer(e) == e.grpc /\ e.addr \in addrs \cup {Loopback}

PacketAtPort(from) ==
    \E server, client \in End :
        /\ AtServer(server)
        /\ Capture(from, server, client) \/ Capture(from, client, server)

OtherPacket ==
    \E src, dst \in End : ~AtServer(src) /\ ~AtServer(dst) /\ Capture("other", src, dst)

Next ==
    \/ ChangeLinks \/ \E a \in Addresses : ChangeAddress(a)
    \/ FindPrimary \/ FindEth0 \/ FindBridge \/ FindDockerBridge
    \/ AddClsact \/ \E d \in Directions : LoadFails(d) \/ Attach(d) \/ AttachDone(d)
    \/ ResolveLocalIps
    \/ PacketAtPort("own") \/ PacketAtPort("port") \/ OtherPacket

Spec == Init /\ [][Next]_vars
-----------------------------------------------------------------------------
(***************************************************************************)
(* What an agent that calls its probes attached has done, if no link came  *)
(* or went while it started.  The interfaces it goes by are not none, and  *)
(* cover the default route, a container bridge and a Docker bridge if the  *)
(* node has them.  On each, in each direction, it has attached one probe   *)
(* or warned that it could not: a failure costs no other interface or      *)
(* direction its probe, and a packet is not captured twice by one          *)
(* interface, unless the default route leads through one of the container  *)
(* bridges, which is then found a second time.                             *)
(*                                                                         *)
(* It does not say that there is a probe.  Failures are only warned of, so *)
(* that the agent may be ready with no probe at all, against /readyz       *)
(* ("not ready: probes not attached", health_server.rs:62) and             *)
(* docs/ROADMAP.md:65 ("won't silently fail").                             *)
(***************************************************************************)
ReadyTried ==
    pc = "ready" /\ ~disturbed =>
        /\ interfaces # <<>>
        /\ route # None => route \in Range(interfaces)
        /\ \A kind \in {Bridges, DockerBridges} :
              kind \cap ifaces # {} => kind \cap Range(interfaces) # {}
        /\ \A i \in Range(interfaces), d \in Directions :
              LET tried == probes[d][i] + warned[d][i]
              IN  IF i = route /\ i \in Bridges THEN tried \in {1, 2} ELSE tried = 1

(***************************************************************************)
(* No echo: among addresses that have neither come nor gone since the      *)
(* agent started, packets of its own gRPC connections are dropped, else    *)
(* each packet that carries an event would make another one; and what pods *)
(* and others exchange is kept, even on the same port.                     *)
(*                                                                         *)
(* It does not say that nothing but the agent's own packets is dropped.    *)
(* What another process of the node sends or gets at the port goes, too,   *)
(* since the protocol is not looked at, though the port is compared along  *)
(* with the address "to avoid filtering out legitimate application traffic *)
(* on the same port" (net.rs:81-82).                                       *)
(***************************************************************************)
NoEcho ==
    readable /\ packet.settled =>
        /\ packet.origin = "own" => packet.filtered
        /\ packet.origin = "other" => ~packet.filtered

(***************************************************************************)
(* "Falls back to port-only matching when local IPs couldn't be resolved"  *)
(* (net.rs:83): then the agent's own packets at least are recognised.      *)
(***************************************************************************)
FallbackFilters == ~readable /\ packet.origin = "own" => packet.filtered
=============================================================================
