--------------------------- MODULE NodeViewProofs ---------------------------
(***************************************************************************)
(* Proofs about NodeView, for any set of addresses and interfaces and any  *)
(* number of changes of the node: the self-traffic filter stops echoes and *)
(* spares what pods exchange, and an agent that calls its probes attached  *)
(* has tried to attach them wherever it should.                            *)
(***************************************************************************)
EXTENDS NodeView, FiniteSetTheorems, TLAPS

(***************************************************************************)
(* What resolve_local_ips leaves behind: while an address has neither come *)
(* nor gone since, it is in the set just when the node has it.             *)
(***************************************************************************)
LocalInv ==
    pc = "running" /\ readable =>
        /\ Loopback \in localIps
        /\ \A a \in Addresses \ unsettled : a \in localIps <=> a \in addrs

IInv == NoEcho /\ LocalInv /\ (readable \/ pc = "running")

LEMMA InitIInv == Init => IInv
  BY DEF Init, IInv, NoEcho, LocalInv, None

(***************************************************************************)
(* A step that leaves addresses, filter and packet alone, and does not     *)
(* start the event loop, cannot disturb the invariant.                     *)
(***************************************************************************)
LEMMA ElsewhereOK ==
    ASSUME IInv, UNCHANGED <<addrs, localIps, packet, unsettled, readable>>,
           pc' = "running" <=> pc = "running"
    PROVE  IInv'
  BY DEF IInv, NoEcho, LocalInv

(***************************************************************************)
(* Among settled addresses the agent knows the ends at its server's port.  *)
(***************************************************************************)
LEMMA LocalKnown ==
    ASSUME LocalInv, pc = "running", readable, NEW e \in End, e.addr \notin unsettled
    PROVE  e.addr \in localIps <=> e.addr \in addrs \cup {Loopback}
<1>1. e.addr \in Addresses \cup {Loopback}
  BY DEF End
<1>2. CASE e.addr = Loopback
  BY <1>2 DEF LocalInv
<1>3. CASE e.addr \in Addresses /\ e.addr # Loopback
  BY <1>3 DEF LocalInv
<1>4. QED
  BY <1>1, <1>2, <1>3

(***************************************************************************)
(* A packet is decided about: whose it is and what the filter makes of it. *)
(***************************************************************************)
LEMMA CaptureOK ==
    ASSUME IInv, NEW from \in {"own", "port", "other"}, NEW src \in End, NEW dst \in End,
           Capture(from, src, dst),
           from = "own" => AtServer(src) \/ AtServer(dst),
           from = "other" => ~AtServer(src) /\ ~AtServer(dst)
    PROVE  IInv'
<1>1. /\ pc = "running" /\ packet'.origin = from
      /\ packet'.filtered = IsSelfTraffic(src, dst)
      /\ packet'.settled = ({src.addr, dst.addr} \cap unsettled = {})
      /\ UNCHANGED <<addrs, pc, localIps, unsettled, readable>>
  BY DEF Capture, node
<1>2. ASSUME readable, {src.addr, dst.addr} \cap unsettled = {}
      PROVE  /\ from = "own" => IsSelfTraffic(src, dst)
             /\ from = "other" => ~IsSelfTraffic(src, dst)
  <2>1. \A e \in {src, dst} : e.addr \in localIps <=> e.addr \in addrs \cup {Loopback}
    BY <1>1, <1>2, LocalKnown DEF IInv
  <2>2. localIps # {}
    BY <1>1, <1>2 DEF IInv, LocalInv
  <2>3. \A e \in {src, dst} : AtServer(e) <=> e.grpc /\ e.addr \in localIps
    BY <2>1 DEF AtServer
  <2>4. IsSelfTraffic(src, dst) <=> AtServer(src) \/ AtServer(dst)
    BY <2>2, <2>3 DEF IsSelfTraffic
  <2>5. QED
    BY <2>4
<1>3. NoEcho'
  BY <1>1, <1>2 DEF NoEcho
<1>4. QED
  BY <1>1, <1>3 DEF IInv, LocalInv

LEMMA StepIInv == IInv /\ [Next]_vars => IInv'
<1> SUFFICES ASSUME IInv, [Next]_vars PROVE IInv'
  OBVIOUS
<1>1. CASE ChangeLinks
  BY <1>1, ElsewhereOK DEF ChangeLinks
<1>2. ASSUME NEW a \in Addresses, ChangeAddress(a) PROVE IInv'
  <2>1. unsettled \subseteq unsettled' /\ UNCHANGED <<pc, packet, localIps, readable>>
    BY <1>2 DEF ChangeAddress
  <2>2. NoEcho'
    BY <2>1 DEF IInv, NoEcho
  <2>3. LocalInv'
    <3> SUFFICES ASSUME pc = "running", readable
                 PROVE  /\ Loopback \in localIps
                        /\ \A b \in Addresses \ unsettled' : b \in localIps <=> b \in addrs'
      BY <2>1 DEF LocalInv
    <3>1. a \in unsettled'
      BY <1>2 DEF ChangeAddress
    <3>2. \A b \in Addresses : b # a => (b \in addrs' <=> b \in addrs)
      BY <1>2 DEF ChangeAddress
    <3>3. QED
      BY <2>1, <3>1, <3>2 DEF IInv, LocalInv
  <2>4. QED
    BY <2>1, <2>2, <2>3 DEF IInv
<1>3. CASE FindPrimary \/ FindEth0 \/ FindBridge \/ FindDockerBridge
  BY <1>3, ElsewhereOK DEF FindPrimary, FindEth0, FindBridge, FindDockerBridge, Discovers, node
<1>4. CASE AddClsact
  BY <1>4, ElsewhereOK DEF AddClsact, Attaches
<1>5. ASSUME NEW d \in Directions, LoadFails(d) \/ Attach(d) \/ AttachDone(d) PROVE IInv'
  BY <1>5, ElsewhereOK DEF LoadFails, Attach, AttachDone, Attaches, Directions
<1>6. CASE ResolveLocalIps
  <2>1. UNCHANGED <<addrs, packet, unsettled>> /\ pc # "running" /\ pc' = "running"
    BY <1>6 DEF ResolveLocalIps, node
  <2>2. readable /\ NoEcho'
    BY <2>1 DEF IInv, NoEcho
  <2>3. readable' => localIps' = {Loopback} \cup addrs
    BY <1>6 DEF ResolveLocalIps
  <2>4. LocalInv'
    BY <2>1, <2>3, NodeAssumption DEF LocalInv
  <2>5. QED
    BY <2>1, <2>2, <2>4 DEF IInv
<1>7. ASSUME NEW from \in {"own", "port"}, PacketAtPort(from) PROVE IInv'
  <2>1. PICK server \in End, client \in End :
           /\ AtServer(server)
           /\ Capture(from, server, client) \/ Capture(from, client, server)
    BY <1>7 DEF PacketAtPort
  <2>2. QED
    BY <2>1, CaptureOK
<1>8. CASE OtherPacket
  <2>1. PICK src \in End, dst \in End :
           ~AtServer(src) /\ ~AtServer(dst) /\ Capture("other", src, dst)
    BY <1>8 DEF OtherPacket
  <2>2. QED
    BY <2>1, CaptureOK
<1>9. CASE UNCHANGED vars
  BY <1>9, ElsewhereOK DEF vars, node
<1>10. QED
  BY <1>1, <1>2, <1>3, <1>4, <1>5, <1>6, <1>7, <1>8, <1>9 DEF Next

(***************************************************************************)
(* Among addresses that have not changed since they were read,             *)
(* is_self_traffic drops every packet of the agent's own connections, in   *)
(* both directions and wherever the client is, and none that has no end at *)
(* the server's port on the node, whatever ports pods use.                 *)
(***************************************************************************)
THEOREM FilterStopsEcho == Spec => []NoEcho
<1>1. IInv => NoEcho
  BY DEF IInv
<1>2. QED
  BY InitIInv, StepIInv, <1>1, PTL DEF Spec
-----------------------------------------------------------------------------
(***************************************************************************)
(* Discovery.  Only the default route's interface can be found twice, and  *)
(* only if it is a container bridge; it is found first.  A bridge of each  *)
(* kind is found if there is one: the loop over the container bridges has  *)
(* passed over those only that are not there.                              *)
(***************************************************************************)
Known == ifaces \cup {"lo"}
OnlyRouteTwice ==
    \A i, j \in 1..Len(interfaces) :
        i < j /\ interfaces[i] = interfaces[j]
            => i = 1 /\ interfaces[i] = route /\ route \in Bridges
RouteFound == route # None => \E i \in 1..Len(interfaces) : interfaces[i] = route
Covered(kind) == kind \cap ifaces # {} => \E i \in 1..Len(interfaces) : interfaces[i] \in kind
LoopOverBridges ==
    /\ Len(interfaces) <= 1
    /\ interfaces = <<>> \/ interfaces[1] \in {route, "eth0"}
    /\ todo \in Seq(Bridges)
    /\ \A b \in Bridges \cap ifaces : \E j \in 1..Len(todo) : todo[j] = b
DiscoverInv ==
    /\ ifaces \subseteq Ifaces /\ route \in ifaces \cup {None}
    /\ interfaces \in Seq(Known)
    /\ pc \in {"primary", "eth0", "bridge", "docker", "clsact", "ingress", "egress", "ready"}
    /\ pc \in {"primary", "eth0"} => interfaces = <<>>
    /\ pc = "bridge" => LoopOverBridges
    /\ OnlyRouteTwice
    /\ pc # "primary" => RouteFound
    /\ pc \notin {"primary", "eth0", "bridge"} => Covered(Bridges)
    /\ pc \notin {"primary", "eth0", "bridge", "docker"}
          => interfaces # <<>> /\ Covered(DockerBridges)

(***************************************************************************)
(* Attachment.  A loop has attached a probe to an interface, or warned of  *)
(* it, once for each time the interface occurs in the part of the list     *)
(* that is behind it.                                                      *)
(***************************************************************************)
All == Ifaces \cup {"lo"}
Occurs(i, n) == {j \in 1..n : interfaces[j] = i}
Done == Len(interfaces) - Len(todo)
TodoIsRest ==
    /\ todo \in Seq(Known) /\ Len(todo) <= Len(interfaces)
    /\ \A j \in 1..Len(todo) : todo[j] = interfaces[Done + j]
Tried(attached, failed, n) ==
    \A i \in All : attached[i] + failed[i] = Cardinality(Occurs(i, n))
AttachInv ==
    /\ probes \in [Directions -> [All -> Nat]] /\ warned \in [Directions -> [All -> Nat]]
    /\ pc \in {"ingress", "egress"} => TodoIsRest
    /\ Tried(probes["ingress"], warned["ingress"],
             CASE pc = "ingress" -> Done
               [] pc \in {"egress", "ready"} -> Len(interfaces)
               [] OTHER -> 0)
    /\ Tried(probes["egress"], warned["egress"],
             CASE pc = "egress" -> Done
               [] pc = "ready" -> Len(interfaces)
               [] OTHER -> 0)

SeesInv == disturbed \/ pc \in {"running", "failed"} \/ (DiscoverInv /\ AttachInv)

(***************************************************************************)
(* Discovery and the qdiscs leave the probes alone; none is attached yet.  *)
(***************************************************************************)
LEMMA NoneAttached ==
    ASSUME AttachInv, pc \in {"primary", "eth0", "bridge", "docker", "clsact"},
           pc' \in {"eth0", "bridge", "docker", "clsact"}, UNCHANGED <<probes, warned>>
    PROVE  AttachInv'
<1>1. \A i : Occurs(i, 0) = {} /\ Occurs(i, 0)' = {}
  BY DEF Occurs
<1>2. \A d \in Directions : Tried(probes[d], warned[d], 0)
  BY DEF AttachInv, Directions
<1>3. \A d \in Directions : Tried(probes[d], warned[d], 0)'
  <2> SUFFICES ASSUME NEW d \in Directions, NEW i \in All
               PROVE  probes[d][i] + warned[d][i] = Cardinality(Occurs(i, 0)')
    BY DEF Tried
  <2>1. Occurs(i, 0)' = Occurs(i, 0)
    BY <1>1
  <2>2. QED
    BY <1>2, <2>1 DEF Tried
<1>4. QED
  BY <1>3 DEF AttachInv, Directions

LEMMA OneFound ==
    ASSUME NEW S, NEW x \in S
    PROVE  <<x>> \in Seq(S) /\ Len(<<x>>) = 1 /\ <<x>>[1] = x
  OBVIOUS

LEMMA AllBridges ==
    /\ ContainerBridges \in Seq(Bridges)
    /\ \A b \in Bridges : \E j \in 1..Len(ContainerBridges) : ContainerBridges[j] = b
<1>1. DOMAIN ContainerBridges = 1..3 /\ Len(ContainerBridges) = 3
  BY DEF ContainerBridges
<1>2. \A i \in 1..3 : ContainerBridges[i] \in Bridges
  BY <1>1 DEF Bridges
<1>3. ContainerBridges \in Seq({"cni0", "docker0", "cbr0"})
  BY DEF ContainerBridges
<1>4. {"cni0", "docker0", "cbr0"} = Bridges
  <2>1. \A b : b \in Bridges <=> \E i \in 1..3 : b = ContainerBridges[i]
    BY <1>1 DEF Bridges
  <2>2. /\ ContainerBridges[1] = "cni0" /\ ContainerBridges[2] = "docker0"
        /\ ContainerBridges[3] = "cbr0"
    BY DEF ContainerBridges
  <2>3. 1..3 = {1, 2, 3}
    OBVIOUS
  <2>4. QED
    BY <2>1, <2>2, <2>3
<1>5. QED
  BY <1>1, <1>3, <1>4 DEF Bridges

(***************************************************************************)
(* The primary interface, with which the loop over the bridges begins.     *)
(***************************************************************************)
LEMMA PrimaryFound ==
    ASSUME DiscoverInv, pc \in {"primary", "eth0"}, pc' = "bridge",
           UNCHANGED <<ifaces, route>>, todo' = ContainerBridges,
           \/ interfaces' = <<>> /\ route = None
           \/ \E i \in ifaces : interfaces' = <<i>> /\ (i = route \/ (i = "eth0" /\ route = None))
    PROVE  DiscoverInv'
<1>1. /\ interfaces' \in Seq(Known') /\ Len(interfaces') <= 1
      /\ interfaces' = <<>> \/ interfaces'[1] \in {route, "eth0"}
      /\ RouteFound'
  <2>1. CASE interfaces' = <<>> /\ route = None
    BY <2>1 DEF RouteFound
  <2>2. ASSUME NEW i \in ifaces, interfaces' = <<i>>, i = route \/ (i = "eth0" /\ route = None)
        PROVE  /\ interfaces' \in Seq(Known') /\ Len(interfaces') <= 1
               /\ interfaces'[1] \in {route, "eth0"} /\ RouteFound'
    <3>1. i \in Known'
      BY DEF Known
    <3>2. <<i>> \in Seq(Known') /\ Len(<<i>>) = 1 /\ <<i>>[1] = i
      BY <3>1, OneFound
    <3>3. QED
      BY <2>2, <3>2 DEF RouteFound
  <2>3. QED
    BY <2>1, <2>2
<1>2. OnlyRouteTwice'
  BY <1>1 DEF OnlyRouteTwice
<1>3. LoopOverBridges'
  BY <1>1, AllBridges DEF LoopOverBridges
<1>4. QED
  BY <1>1, <1>2, <1>3 DEF DiscoverInv

(***************************************************************************)
(* An interface appended to the list: it is new, or it is the default      *)
(* route's and a bridge.                                                   *)
(***************************************************************************)
LEMMA Appended ==
    ASSUME DiscoverInv, pc \notin {"primary", "eth0"}, UNCHANGED <<ifaces, route>>,
           NEW b \in Known, interfaces' = Append(interfaces, b),
           \A i \in 1..Len(interfaces) : interfaces[i] = b => i = 1 /\ b = route /\ b \in Bridges
    PROVE  /\ interfaces' \in Seq(Known') /\ interfaces' # <<>>
           /\ OnlyRouteTwice' /\ RouteFound'
           /\ \A kind : Covered(kind) \/ b \in kind => Covered(kind)'
<1>1. interfaces \in Seq(Known) /\ Known' = Known
  BY DEF DiscoverInv, Known
<1>2. interfaces' \in Seq(Known') /\ interfaces' # <<>>
  BY <1>1
<1>3. PICK n \in Nat : /\ Len(interfaces') = n /\ 1..n = (1..Len(interfaces)) \cup {n}
                       /\ \A i \in 1..Len(interfaces) : interfaces'[i] = interfaces[i] /\ i < n
                       /\ interfaces'[n] = b /\ ~(n < n)
  <2>1. Len(interfaces) \in Nat /\ Len(interfaces') = Len(interfaces) + 1
    BY <1>1
  <2>2. \A i \in 1..Len(interfaces) : interfaces'[i] = interfaces[i]
    BY <1>1
  <2>3. interfaces'[Len(interfaces) + 1] = b
    BY <1>1
  <2>4. QED
    BY <2>1, <2>2, <2>3
<1>4. OnlyRouteTwice'
  <2> SUFFICES ASSUME NEW i \in 1..n, NEW j \in 1..n, i < j, interfaces'[i] = interfaces'[j]
               PROVE  i = 1 /\ interfaces'[i] = route /\ route \in Bridges
    BY <1>3 DEF OnlyRouteTwice
  <2>1. i \in 1..Len(interfaces)
    BY <1>3
  <2>2. CASE j \in 1..Len(interfaces)
    BY <1>3, <2>1, <2>2 DEF DiscoverInv, OnlyRouteTwice
  <2>3. CASE j = n
    BY <1>3, <2>1, <2>3
  <2>4. QED
    BY <1>3, <2>2, <2>3
<1>5. RouteFound'
  BY <1>3 DEF DiscoverInv, RouteFound
<1>6. \A kind : Covered(kind) \/ b \in kind => Covered(kind)'
  BY <1>3 DEF Covered
<1>7. QED
  BY <1>2, <1>4, <1>5, <1>6

(***************************************************************************)
(* The loop over the container bridges: its end, a hit, and a miss.        *)
(***************************************************************************)
LEMMA BridgeFound ==
    ASSUME DiscoverInv, FindBridge
    PROVE  DiscoverInv'
<1>1. pc = "bridge" /\ LoopOverBridges /\ UNCHANGED <<ifaces, route>>
  BY DEF FindBridge, Discovers, node, DiscoverInv
<1>2. Known' = Known /\ interfaces \in Seq(Known)
  BY <1>1 DEF Known, DiscoverInv
<1>3. CASE todo = <<>> /\ pc' = "docker" /\ UNCHANGED <<interfaces, todo>>
  <2>1. Covered(Bridges)'
    BY <1>1, <1>3 DEF LoopOverBridges, Covered
  <2>2. OnlyRouteTwice' /\ RouteFound'
    BY <1>1, <1>3 DEF DiscoverInv, OnlyRouteTwice, RouteFound
  <2>3. QED
    BY <1>1, <1>2, <1>3, <2>1, <2>2 DEF DiscoverInv
<1>4. CASE /\ todo # <<>> /\ Head(todo) \in ifaces
           /\ interfaces' = Append(interfaces, Head(todo)) /\ pc' = "docker"
  <2> DEFINE b == Head(todo)
  <2>1. b \in Bridges
    BY <1>1, <1>4 DEF LoopOverBridges
  <2>2. "eth0" \notin Bridges
    BY DEF Bridges, ContainerBridges
  <2>3. b \in Known
    BY <1>4 DEF Known
  <2> HIDE DEF b
  <2>4. \A i \in 1..Len(interfaces) : interfaces[i] = b => i = 1 /\ b = route /\ b \in Bridges
    <3>1. \A i \in 1..Len(interfaces) : i = 1 /\ interfaces # <<>>
      BY <1>1, <1>2 DEF LoopOverBridges
    <3>2. QED
      BY <1>1, <2>1, <2>2, <3>1 DEF LoopOverBridges
  <2>5. interfaces' = Append(interfaces, b)
    BY <1>4 DEF b
  <2>6. /\ interfaces' \in Seq(Known') /\ interfaces' # <<>>
        /\ OnlyRouteTwice' /\ RouteFound' /\ Covered(Bridges)'
    BY <1>1, <2>1, <2>3, <2>4, <2>5, Appended
  <2>7. QED
    BY <1>1, <1>4, <2>6 DEF DiscoverInv
<1>5. CASE /\ todo # <<>> /\ Head(todo) \notin ifaces
           /\ todo' = Tail(todo) /\ UNCHANGED <<pc, interfaces>>
  <2>1. todo' \in Seq(Bridges)
    BY <1>1, <1>5 DEF LoopOverBridges
  <2>2. ASSUME NEW b \in Bridges \cap ifaces PROVE \E j \in 1..Len(todo') : todo'[j] = b
    <3>1. PICK j \in 1..Len(todo) : todo[j] = b
      BY <1>1 DEF LoopOverBridges
    <3>2. j # 1
      BY <1>1, <1>5, <3>1 DEF LoopOverBridges
    <3>3. j - 1 \in 1..Len(todo') /\ todo'[j - 1] = todo[j]
      BY <1>1, <1>5, <3>1, <3>2 DEF LoopOverBridges
    <3>4. QED
      BY <3>1, <3>3
  <2>3. LoopOverBridges'
    BY <1>1, <1>5, <2>1, <2>2 DEF LoopOverBridges
  <2>4. OnlyRouteTwice' /\ RouteFound'
    BY <1>1, <1>5 DEF DiscoverInv, OnlyRouteTwice, RouteFound
  <2>5. QED
    BY <1>1, <1>2, <1>5, <2>3, <2>4 DEF DiscoverInv
<1>6. QED
  BY <1>3, <1>4, <1>5 DEF FindBridge, InterfaceExists

LEMMA DockerBridgeFound ==
    ASSUME DiscoverInv, FindDockerBridge
    PROVE  DiscoverInv'
<1>1. /\ pc = "docker" /\ pc' = "clsact" /\ UNCHANGED <<ifaces, route>>
  BY DEF FindDockerBridge, Discovers, node
<1>2. interfaces \in Seq(Known) /\ Covered(Bridges)
  BY <1>1 DEF DiscoverInv
<1>3. ASSUME UNCHANGED interfaces, interfaces # <<>>, Covered(DockerBridges) PROVE DiscoverInv'
  BY <1>1, <1>3 DEF DiscoverInv, Known, OnlyRouteTwice, RouteFound, Covered
<1>4. ASSUME NEW b \in Known, b \notin Range(interfaces), interfaces' = Append(interfaces, b),
             Covered(DockerBridges) \/ b \in DockerBridges
      PROVE DiscoverInv'
  <2>1. \A i \in 1..Len(interfaces) : interfaces[i] = b => i = 1 /\ b = route /\ b \in Bridges
    BY <1>2, <1>4 DEF Range
  <2>2. /\ interfaces' \in Seq(Known') /\ interfaces' # <<>>
        /\ OnlyRouteTwice' /\ RouteFound' /\ Covered(Bridges)' /\ Covered(DockerBridges)'
    BY <1>1, <1>2, <1>4, <2>1, Appended
  <2>3. QED
    BY <1>1, <2>2 DEF DiscoverInv
<1>5. CASE FindDockerBridges = {}
  <2>0. Covered(DockerBridges)
    BY <1>5 DEF FindDockerBridges, Covered
  <2>1. CASE interfaces = <<>>
    <3>1. interfaces' = Append(interfaces, "lo") /\ "lo" \in Known /\ "lo" \notin Range(interfaces)
      BY <1>5, <2>1 DEF FindDockerBridge, Known, Range
    <3>2. QED
      BY <1>4, <2>0, <3>1
  <2>2. QED
    BY <1>3, <1>5, <2>0, <2>1 DEF FindDockerBridge
<1>6. CASE FindDockerBridges # {}
  <2>1. PICK b \in FindDockerBridges :
           interfaces' = IF b \in Range(interfaces) THEN interfaces ELSE Append(interfaces, b)
    BY <1>6 DEF FindDockerBridge
  <2>2. b \in DockerBridges /\ b \in Known
    BY DEF FindDockerBridges, Known
  <2>3. CASE b \in Range(interfaces)
    <3>1. PICK i \in 1..Len(interfaces) : interfaces[i] = b
      BY <1>2, <2>3 DEF Range
    <3>2. interfaces # <<>>
      BY <1>2, <3>1
    <3>3. Covered(DockerBridges)
      BY <2>2, <3>1 DEF Covered
    <3>4. QED
      BY <1>3, <2>1, <2>3, <3>2, <3>3
  <2>4. CASE b \notin Range(interfaces)
    BY <1>4, <2>1, <2>2, <2>4
  <2>5. QED
    BY <2>3, <2>4
<1>7. QED
  BY <1>5, <1>6

LEMMA DiscoveryOK ==
    ASSUME DiscoverInv, FindPrimary \/ FindEth0 \/ FindBridge \/ FindDockerBridge
    PROVE  DiscoverInv'
<1>1. UNCHANGED <<ifaces, route>> /\ Known' = Known
  BY DEF FindPrimary, FindEth0, FindBridge, FindDockerBridge, Discovers, node, Known
<1>2. CASE FindPrimary
  <2>1. CASE route # None
    <3>1. /\ route \in ifaces /\ interfaces' = <<route>> /\ pc = "primary" /\ pc' = "bridge"
          /\ todo' = ContainerBridges
      BY <1>2, <2>1 DEF FindPrimary, GetDefaultRouteInterface, DiscoverInv
    <3>2. QED
      BY <1>1, <3>1, PrimaryFound
  <2>2. CASE route = None
    <3>1. pc = "primary" /\ pc' = "eth0" /\ UNCHANGED interfaces
      BY <1>2, <2>2 DEF FindPrimary, GetDefaultRouteInterface
    <3>2. RouteFound' /\ OnlyRouteTwice'
      BY <1>1, <2>2, <3>1 DEF RouteFound, OnlyRouteTwice, DiscoverInv
    <3>3. QED
      BY <1>1, <2>2, <3>1, <3>2 DEF DiscoverInv
  <2>3. QED
    BY <2>1, <2>2
<1>3. CASE FindEth0
  <2>1. pc = "eth0" /\ pc' = "bridge" /\ todo' = ContainerBridges
    BY <1>3 DEF FindEth0
  <2>2. route = None
    <3>1. interfaces = <<>> /\ RouteFound
      BY <2>1 DEF DiscoverInv
    <3>2. QED
      BY <3>1 DEF RouteFound
  <2>3. interfaces' = <<>> \/ ("eth0" \in ifaces /\ interfaces' = <<"eth0">>)
    BY <1>3 DEF FindEth0, InterfaceExists
  <2>4. QED
    BY <1>1, <2>1, <2>2, <2>3, PrimaryFound
<1>4. QED
  BY <1>2, <1>3, BridgeFound, DockerBridgeFound

(***************************************************************************)
(* One interface of a loop of attach_to_interfaces: it gets a probe, or    *)
(* its failure is noted.                                                   *)
(***************************************************************************)
LEMMA OccursFinite ==
    ASSUME NEW i, NEW n \in Nat
    PROVE  IsFiniteSet(Occurs(i, n)) /\ Cardinality(Occurs(i, n)) \in Nat
<1>1. Occurs(i, n) \subseteq 1..n /\ IsFiniteSet(1..n)
  BY FS_Interval DEF Occurs
<1>2. QED
  BY <1>1, FS_Subset, FS_CardinalityType

LEMMA OneMore ==
    ASSUME NEW i, NEW n \in Nat
    PROVE  Cardinality(Occurs(i, n + 1))
             = Cardinality(Occurs(i, n)) + IF interfaces[n + 1] = i THEN 1 ELSE 0
<1>1. n + 1 \notin Occurs(i, n)
  BY DEF Occurs
<1>2. CASE interfaces[n + 1] = i
  <2>1. Occurs(i, n + 1) = Occurs(i, n) \cup {n + 1}
    BY <1>2 DEF Occurs
  <2>2. QED
    BY <1>1, <1>2, <2>1, OccursFinite, FS_AddElement
<1>3. CASE interfaces[n + 1] # i
  <2>1. Occurs(i, n + 1) = Occurs(i, n)
    BY <1>3 DEF Occurs
  <2>2. QED
    BY <1>3, <2>1, OccursFinite
<1>4. QED
  BY <1>2, <1>3

LEMMA OneAttached ==
    ASSUME DiscoverInv, TodoIsRest, todo # <<>>, todo' = Tail(todo),
           UNCHANGED <<ifaces, interfaces>>,
           NEW f \in [All -> Nat], NEW g \in [All -> Nat], NEW f1, NEW g1, Tried(f, g, Done),
           \/ f1 = [f EXCEPT ![Head(todo)] = @ + 1] /\ g1 = g
           \/ g1 = [g EXCEPT ![Head(todo)] = @ + 1] /\ f1 = f
    PROVE  /\ TodoIsRest' /\ Done' = Done + 1
           /\ f1 \in [All -> Nat] /\ g1 \in [All -> Nat] /\ Tried(f1, g1, Done + 1)
<1>1. /\ interfaces \in Seq(Known) /\ todo \in Seq(Known)
      /\ Len(interfaces) \in Nat /\ Len(todo) \in Nat /\ Len(todo) <= Len(interfaces)
      /\ Len(todo) >= 1 /\ 1 \in 1..Len(todo)
  BY DEF DiscoverInv, TodoIsRest
<1>2. /\ todo' \in Seq(Known) /\ Len(todo') = Len(todo) - 1
      /\ \A j \in 1..Len(todo') : j + 1 \in 1..Len(todo) /\ todo'[j] = todo[j + 1]
  BY <1>1
<1>3. Done \in Nat /\ Done' = Done + 1
  BY <1>1, <1>2 DEF Done
<1>4. TodoIsRest'
  <2>1. ASSUME NEW j \in 1..Len(todo') PROVE todo'[j] = interfaces[Done' + j]
    <3>1. todo'[j] = todo[j + 1] /\ todo[j + 1] = interfaces[Done + (j + 1)]
      BY <1>2 DEF TodoIsRest
    <3>2. Done + (j + 1) = Done' + j
      BY <1>2, <1>3
    <3>3. QED
      BY <3>1, <3>2
  <2>2. Known' = Known
    BY DEF Known
  <2>3. QED
    BY <1>1, <1>2, <2>1, <2>2 DEF TodoIsRest
<1>5. PICK i \in All : i = Head(todo) /\ i = interfaces[Done + 1]
  BY <1>1 DEF TodoIsRest, DiscoverInv, Known, All
<1>6. \/ f1 = [f EXCEPT ![i] = @ + 1] /\ g1 = g
      \/ g1 = [g EXCEPT ![i] = @ + 1] /\ f1 = f
  BY <1>5
<1>7. /\ f1 \in [All -> Nat] /\ g1 \in [All -> Nat]
      /\ \A k \in All : f1[k] + g1[k] = f[k] + g[k] + IF i = k THEN 1 ELSE 0
  <2>1. \A h \in [All -> Nat] : LET h1 == [h EXCEPT ![i] = @ + 1]
                               IN  /\ h1 \in [All -> Nat] /\ h1[i] = h[i] + 1
                                   /\ \A k \in All : k # i => h1[k] = h[k]
    OBVIOUS
  <2>2. CASE f1 = [f EXCEPT ![i] = @ + 1] /\ g1 = g
    <3>1. f1 \in [All -> Nat] /\ f1[i] = f[i] + 1 /\ \A k \in All : k # i => f1[k] = f[k]
      BY <2>1, <2>2
    <3>2. QED
      BY <2>2, <3>1
  <2>3. CASE g1 = [g EXCEPT ![i] = @ + 1] /\ f1 = f
    <3>1. g1 \in [All -> Nat] /\ g1[i] = g[i] + 1 /\ \A k \in All : k # i => g1[k] = g[k]
      BY <2>1, <2>3
    <3>2. QED
      BY <2>3, <3>1
  <2>4. QED
    BY <1>6, <2>2, <2>3
<1>8. ASSUME NEW k \in All PROVE f1[k] + g1[k] = Cardinality(Occurs(k, Done + 1))
  <2>1. f[k] + g[k] = Cardinality(Occurs(k, Done))
    BY DEF Tried
  <2>2. Cardinality(Occurs(k, Done + 1)) = Cardinality(Occurs(k, Done)) + IF i = k THEN 1 ELSE 0
    BY <1>3, <1>5, OneMore
  <2>3. QED
    BY <1>7, <2>1, <2>2
<1>9. QED
  BY <1>3, <1>4, <1>7, <1>8 DEF Tried

LEMMA AttachUnfolds ==
    ASSUME AttachInv
    PROVE  /\ pc = "clsact" => \A d \in Directions : Tried(probes[d], warned[d], 0)
           /\ pc = "ingress" => /\ TodoIsRest /\ Tried(probes["ingress"], warned["ingress"], Done)
                                /\ Tried(probes["egress"], warned["egress"], 0)
           /\ pc = "egress" =>
                 /\ TodoIsRest /\ Tried(probes["ingress"], warned["ingress"], Len(interfaces))
                 /\ Tried(probes["egress"], warned["egress"], Done)
           /\ pc = "ready" => \A d \in Directions : Tried(probes[d], warned[d], Len(interfaces))
  BY DEF AttachInv, Directions

(***************************************************************************)
(* A loop begins with the whole list and ends with none of it left.        *)
(***************************************************************************)
LEMMA LoopBegins ==
    ASSUME DiscoverInv, UNCHANGED <<ifaces, interfaces>>, todo' = interfaces
    PROVE  TodoIsRest' /\ Done' = 0
<1>1. interfaces \in Seq(Known) /\ Len(interfaces) \in Nat /\ Known' = Known
  BY DEF DiscoverInv, Known
<1>2. Done' = 0
  BY <1>1 DEF Done
<1>3. QED
  BY <1>1, <1>2 DEF TodoIsRest

LEMMA LoopEnds ==
    ASSUME DiscoverInv, todo = <<>>
    PROVE  Done = Len(interfaces)
<1>1. interfaces \in Seq(Known) /\ Len(interfaces) \in Nat /\ Len(todo) = 0
  BY DEF DiscoverInv
<1>2. QED
  BY <1>1 DEF Done

LEMMA AttachingKeepsDiscovery ==
    ASSUME DiscoverInv, UNCHANGED <<ifaces, route, interfaces>>,
           pc \in {"clsact", "ingress", "egress"}, pc' \in {"clsact", "ingress", "egress", "ready"}
    PROVE  DiscoverInv'
  BY DEF DiscoverInv, Known, OnlyRouteTwice, RouteFound, Covered

LEMMA ListKept ==
    ASSUME UNCHANGED interfaces
    PROVE  /\ Len(interfaces)' = Len(interfaces)
           /\ \A i, n : Occurs(i, n)' = Occurs(i, n)
  BY DEF Occurs

(***************************************************************************)
(* The steps of attach_to_interfaces.                                      *)
(***************************************************************************)
LEMMA ClsactOK ==
    ASSUME DiscoverInv, AttachInv, AddClsact
    PROVE  DiscoverInv' /\ AttachInv'
<1>1. UNCHANGED <<ifaces, route, interfaces, probes, warned>> /\ pc = "clsact"
  BY DEF AddClsact, Attaches
<1>2. CASE todo # <<>>
  <2>1. pc' = "clsact"
    BY <1>1, <1>2 DEF AddClsact
  <2>2. QED
    BY <1>1, <2>1, AttachingKeepsDiscovery, NoneAttached
<1>3. CASE todo = <<>>
  <2>1. pc' = "ingress" /\ todo' = interfaces
    BY <1>3 DEF AddClsact
  <2>2. TodoIsRest' /\ Done' = 0
    BY <1>1, <2>1, LoopBegins
  <2>3. /\ Tried(probes["ingress"], warned["ingress"], 0)
        /\ Tried(probes["egress"], warned["egress"], 0)
    BY <1>1, AttachUnfolds DEF Directions
  <2>4. /\ Tried(probes["ingress"], warned["ingress"], Done)'
        /\ Tried(probes["egress"], warned["egress"], 0)'
    BY <1>1, <2>2, <2>3, ListKept DEF Tried
  <2>5. AttachInv'
    BY <1>1, <2>1, <2>2, <2>4 DEF AttachInv
  <2>6. QED
    BY <1>1, <2>1, <2>5, AttachingKeepsDiscovery
<1>4. QED
  BY <1>2, <1>3

LEMMA AttachOK ==
    ASSUME DiscoverInv, AttachInv, NEW d \in Directions, Attach(d)
    PROVE  DiscoverInv' /\ AttachInv'
<1>1. /\ UNCHANGED <<ifaces, route, interfaces, pc>> /\ pc = d
      /\ todo # <<>> /\ todo' = Tail(todo)
  BY DEF Attach, Attaches
<1>2. DiscoverInv'
  BY <1>1, AttachingKeepsDiscovery DEF Directions
<1>3. /\ probes \in [Directions -> [All -> Nat]] /\ warned \in [Directions -> [All -> Nat]]
      /\ TodoIsRest /\ Tried(probes[d], warned[d], Done)
  BY <1>1 DEF AttachInv, Directions
<1>4. /\ \/ probes'[d] = [probes[d] EXCEPT ![Head(todo)] = @ + 1] /\ warned'[d] = warned[d]
         \/ warned'[d] = [warned[d] EXCEPT ![Head(todo)] = @ + 1] /\ probes'[d] = probes[d]
      /\ \A e \in Directions \ {d} : probes'[e] = probes[e] /\ warned'[e] = warned[e]
      /\ probes' = [e \in Directions |-> probes'[e]] /\ warned' = [e \in Directions |-> warned'[e]]
  <2>1. CASE /\ probes' = [probes EXCEPT ![d][Head(todo)] = @ + 1] /\ warned' = warned
    BY <1>3, <2>1
  <2>2. CASE /\ warned' = [warned EXCEPT ![d][Head(todo)] = @ + 1] /\ probes' = probes
    BY <1>3, <2>2
  <2>3. QED
    BY <2>1, <2>2 DEF Attach
<1>5. /\ TodoIsRest' /\ Done' = Done + 1 /\ probes'[d] \in [All -> Nat] /\ warned'[d] \in [All -> Nat]
      /\ Tried(probes'[d], warned'[d], Done + 1)
  <2> DEFINE f == probes[d]
             g == warned[d]
             f1 == probes'[d]
             g1 == warned'[d]
  <2>1. /\ f \in [All -> Nat] /\ g \in [All -> Nat] /\ Tried(f, g, Done)
        /\ \/ f1 = [f EXCEPT ![Head(todo)] = @ + 1] /\ g1 = g
           \/ g1 = [g EXCEPT ![Head(todo)] = @ + 1] /\ f1 = f
    BY <1>3, <1>4
  <2>2. DiscoverInv /\ TodoIsRest /\ UNCHANGED <<ifaces, interfaces>>
    BY <1>1, <1>3
  <2> HIDE DEF f, g, f1, g1
  <2>3. /\ TodoIsRest' /\ Done' = Done + 1
        /\ f1 \in [All -> Nat] /\ g1 \in [All -> Nat] /\ Tried(f1, g1, Done + 1)
    BY ONLY <1>1, <2>1, <2>2, OneAttached
  <2>4. QED
    BY <2>3 DEF f1, g1
<1>6. probes' \in [Directions -> [All -> Nat]] /\ warned' \in [Directions -> [All -> Nat]]
  <2>1. \A e \in Directions : probes'[e] \in [All -> Nat] /\ warned'[e] \in [All -> Nat]
    BY <1>3, <1>4, <1>5
  <2>2. QED
    BY <1>4, <2>1
<1>7. \A i : /\ Occurs(i, Done)' = Occurs(i, Done + 1) /\ Occurs(i, 0)' = Occurs(i, 0)
             /\ Occurs(i, Len(interfaces))' = Occurs(i, Len(interfaces))
  BY <1>1, <1>5 DEF Occurs
<1>8. CASE d = "ingress"
  <2>1. pc' = "ingress" /\ Tried(probes["egress"], warned["egress"], 0) /\ "egress" \in Directions \ {d}
    BY <1>1, <1>8, AttachUnfolds DEF Directions
  <2>2. Tried(probes["ingress"], warned["ingress"], Done)' /\ Tried(probes["egress"], warned["egress"], 0)'
    BY <1>4, <1>5, <1>7, <1>8, <2>1 DEF Tried
  <2>3. QED
    BY <1>2, <1>5, <1>6, <2>1, <2>2 DEF AttachInv
<1>9. CASE d = "egress"
  <2>1. /\ pc' = "egress" /\ Tried(probes["ingress"], warned["ingress"], Len(interfaces))
        /\ "ingress" \in Directions \ {d}
    BY <1>1, <1>9, AttachUnfolds DEF Directions
  <2>2. /\ Tried(probes["ingress"], warned["ingress"], Len(interfaces))'
        /\ Tried(probes["egress"], warned["egress"], Done)'
    BY <1>4, <1>5, <1>7, <1>9, <2>1 DEF Tried
  <2>3. QED
    BY <1>2, <1>5, <1>6, <2>1, <2>2 DEF AttachInv
<1>10. QED
  BY <1>8, <1>9 DEF Directions

LEMMA DoneOK ==
    ASSUME DiscoverInv, AttachInv, NEW d \in Directions, AttachDone(d)
    PROVE  DiscoverInv' /\ AttachInv'
<1>1. /\ UNCHANGED <<ifaces, route, interfaces, probes, warned>> /\ pc = d /\ todo = <<>>
      /\ Done = Len(interfaces)
  BY LoopEnds DEF AttachDone, Attaches
<1>2. CASE d = "ingress"
  <2>1. pc = "ingress" /\ pc' = "egress" /\ todo' = interfaces
    BY <1>1, <1>2 DEF AttachDone
  <2>2. TodoIsRest' /\ Done' = 0
    BY <1>1, <2>1, LoopBegins
  <2>3. /\ Tried(probes["ingress"], warned["ingress"], Len(interfaces))
        /\ Tried(probes["egress"], warned["egress"], 0)
    BY <1>1, <2>1, AttachUnfolds
  <2>4. /\ Tried(probes["ingress"], warned["ingress"], Len(interfaces))'
        /\ Tried(probes["egress"], warned["egress"], Done)'
    BY <1>1, <2>2, <2>3, ListKept DEF Tried
  <2>5. AttachInv'
    BY <1>1, <2>1, <2>2, <2>4 DEF AttachInv
  <2>6. QED
    BY <1>1, <2>1, <2>5, AttachingKeepsDiscovery
<1>3. CASE d = "egress"
  <2>1. pc = "egress" /\ pc' = "ready"
    BY <1>1, <1>3 DEF AttachDone
  <2>2. /\ Tried(probes["ingress"], warned["ingress"], Len(interfaces))
        /\ Tried(probes["egress"], warned["egress"], Len(interfaces))
    BY <1>1, <2>1, AttachUnfolds
  <2>3. /\ Tried(probes["ingress"], warned["ingress"], Len(interfaces))'
        /\ Tried(probes["egress"], warned["egress"], Len(interfaces))'
    BY <1>1, <2>2, ListKept DEF Tried
  <2>4. AttachInv'
    BY <1>1, <2>1, <2>3 DEF AttachInv
  <2>5. QED
    BY <1>1, <2>1, <2>4, AttachingKeepsDiscovery
<1>4. QED
  BY <1>2, <1>3 DEF Directions

LEMMA SeesInit == Init => SeesInv
<1> SUFFICES ASSUME Init PROVE DiscoverInv /\ AttachInv
  BY DEF SeesInv
<1>1. DiscoverInv
  BY DEF Init, DiscoverInv, OnlyRouteTwice
<1>2. \A i : Cardinality(Occurs(i, 0)) = 0
  BY FS_EmptySet DEF Occurs
<1>3. /\ probes \in [Directions -> [All -> Nat]] /\ warned \in [Directions -> [All -> Nat]]
      /\ \A d \in Directions, i \in All : probes[d][i] = 0 /\ warned[d][i] = 0
  BY DEF Init, All
<1>4. \A d \in Directions : Tried(probes[d], warned[d], 0)
  BY <1>2, <1>3 DEF Tried
<1>5. AttachInv
  BY <1>3, <1>4 DEF Init, AttachInv, Directions
<1>6. QED
  BY <1>1, <1>5

LEMMA SeesStep == SeesInv /\ [Next]_vars => SeesInv'
<1> SUFFICES ASSUME SeesInv, [Next]_vars PROVE SeesInv'
  OBVIOUS
<1>1. CASE disturbed \/ pc \in {"running", "failed"}
  <2>1. CASE ChangeLinks
    BY <1>1, <2>1, Zenon DEF ChangeLinks, SeesInv
  <2>2. ASSUME UNCHANGED disturbed, pc \in {"running", "failed"} => pc' = pc PROVE SeesInv'
    BY <1>1, <2>2 DEF SeesInv
  <2>3. ~ChangeLinks => UNCHANGED disturbed /\ (pc \in {"running", "failed"} => pc' = pc)
    BY DEF Next, ChangeAddress, FindPrimary, FindEth0, FindBridge, FindDockerBridge, Discovers,
        AddClsact, LoadFails, Attach, AttachDone, Attaches, ResolveLocalIps, Directions,
        PacketAtPort, OtherPacket, Capture, vars
  <2>4. QED
    BY <2>1, <2>2, <2>3
<1>2. CASE DiscoverInv /\ AttachInv /\ ~(disturbed \/ pc \in {"running", "failed"})
  <2>1. CASE ChangeLinks
    BY <1>2, <2>1 DEF ChangeLinks, SeesInv
  <2>2. CASE FindPrimary \/ FindEth0 \/ FindBridge \/ FindDockerBridge
    <3>1. /\ pc \in {"primary", "eth0", "bridge", "docker"}
          /\ pc' \in {"eth0", "bridge", "docker", "clsact"} /\ UNCHANGED <<probes, warned>>
      BY <2>2 DEF FindPrimary, FindEth0, FindBridge, FindDockerBridge, Discovers
    <3>2. DiscoverInv'
      BY <1>2, <2>2, DiscoveryOK
    <3>3. AttachInv'
      BY <1>2, <3>1, NoneAttached
    <3>4. QED
      BY <3>2, <3>3 DEF SeesInv
  <2>3. CASE AddClsact
    BY <1>2, <2>3, ClsactOK DEF SeesInv
  <2>4. ASSUME NEW d \in Directions, LoadFails(d) \/ Attach(d) \/ AttachDone(d) PROVE SeesInv'
    BY <1>2, <2>4, AttachOK, DoneOK DEF LoadFails, SeesInv
  <2>5. CASE ResolveLocalIps
    BY <2>5 DEF ResolveLocalIps, SeesInv
  <2>6. CASE PacketAtPort("own") \/ PacketAtPort("port") \/ OtherPacket
    BY <1>2, <2>6 DEF PacketAtPort, OtherPacket, Capture
  <2>7. ASSUME UNCHANGED <<ifaces, route, pc, interfaces, todo, probes, warned>> PROVE SeesInv'
    <3>1. DiscoverInv'
      BY <1>2, <2>7 DEF DiscoverInv, Known, OnlyRouteTwice, RouteFound, Covered, LoopOverBridges
    <3>2. (\A i, n : Occurs(i, n)' = Occurs(i, n)) /\ Done' = Done /\ Known' = Known
      BY <2>7 DEF Occurs, Done, Known
    <3>3. TodoIsRest => TodoIsRest'
      BY <2>7, <3>2 DEF TodoIsRest
    <3>4. \A n : \A d \in Directions :
             Tried(probes[d], warned[d], n) => Tried(probes'[d], warned'[d], n)
      BY <2>7 DEF Tried
    <3>5. \A f, g, n : Tried(f, g, n) => \A i \in All : f[i] + g[i] = Cardinality(Occurs(i, n)')
      BY <3>2 DEF Tried
    <3>6. AttachInv'
      BY <1>2, <2>7, <3>2, <3>3, <3>4, <3>5 DEF AttachInv, Tried, Directions
    <3>7. QED
      BY <3>1, <3>6 DEF SeesInv
  <2>8. (\E a \in Addresses : ChangeAddress(a)) \/ UNCHANGED vars
          => UNCHANGED <<ifaces, route, pc, interfaces, todo, probes, warned>>
    BY DEF ChangeAddress, vars, node
  <2>9. QED
    BY <2>1, <2>2, <2>3, <2>4, <2>5, <2>6, <2>7, <2>8 DEF Next
<1>3. QED
  BY <1>1, <1>2 DEF SeesInv

LEMMA TwoElements ==
    ASSUME NEW a, NEW b, a # b
    PROVE  Cardinality({a, b}) = 2
<1> DEFINE one == {a}
<1>1. Cardinality(one) = 1 /\ IsFiniteSet(one) /\ b \notin one /\ {a, b} = one \cup {b}
  BY FS_Singleton
<1> HIDE DEF one
<1>2. Cardinality(one \cup {b}) = Cardinality(one) + 1
  BY <1>1, FS_AddElement
<1>3. QED
  BY <1>1, <1>2

(***************************************************************************)
(* How often the list has an interface: once, or twice if it is the        *)
(* default route's and a container bridge.                                 *)
(***************************************************************************)
LEMMA OnceOrTwice ==
    ASSUME DiscoverInv, NEW k \in 1..Len(interfaces), NEW i, interfaces[k] = i
    PROVE  IF i = route /\ i \in Bridges THEN Cardinality(Occurs(i, Len(interfaces))) \in {1, 2}
           ELSE Cardinality(Occurs(i, Len(interfaces))) = 1
<1> DEFINE occ == Occurs(i, Len(interfaces))
<1>1. Len(interfaces) \in Nat
  BY DEF DiscoverInv
<1>2. k \in occ /\ \A j \in occ : j \in 1..Len(interfaces) /\ interfaces[j] = i
  BY DEF Occurs
<1>3. ASSUME NEW j \in occ, NEW l \in occ, j < l
      PROVE  j = 1 /\ i = route /\ i \in Bridges
  BY <1>2, <1>3 DEF DiscoverInv, OnlyRouteTwice
<1>4. \A j, l \in occ : j < l \/ l < j \/ j = l
  BY <1>1, <1>2
<1> HIDE DEF occ
<1>5. CASE occ = {k}
  BY <1>5, FS_Singleton DEF occ
<1>6. CASE occ # {k}
  <2>1. PICK j \in occ : j # k
    BY <1>2, <1>6
  <2>2. PICK m \in occ : m # 1 /\ 1 \in occ
    BY <1>2, <1>3, <1>4, <2>1
  <2>3. \A x \in occ : x = 1 \/ x = m
    BY <1>3, <1>4, <2>2
  <2>4. occ = {1, m} /\ m # 1
    BY <2>2, <2>3
  <2>5. Cardinality(occ) = 2
    BY <2>4, TwoElements, Zenon
  <2>6. i = route /\ i \in Bridges
    BY <1>2, <1>3, <1>4, <2>1
  <2>7. QED
    BY <2>5, <2>6 DEF occ
<1>7. QED
  BY <1>5, <1>6

(***************************************************************************)
(* What an agent that calls its probes attached has done, if the links     *)
(* held still: the interfaces it goes by are not none and cover the        *)
(* default route and a bridge of each kind the node has, and none of them  *)
(* was left out, in either direction, on account of a failure at another.  *)
(***************************************************************************)
THEOREM ReadyAgentTried == Spec => []ReadyTried
<1>1. SeesInv => ReadyTried
  <2> SUFFICES ASSUME SeesInv, pc = "ready", ~disturbed
               PROVE  /\ interfaces # <<>>
                      /\ route # None => route \in Range(interfaces)
                      /\ \A kind \in {Bridges, DockerBridges} :
                            kind \cap ifaces # {} => kind \cap Range(interfaces) # {}
                      /\ \A i \in Range(interfaces), d \in Directions :
                            LET tried == probes[d][i] + warned[d][i]
                            IN  IF i = route /\ i \in Bridges THEN tried \in {1, 2} ELSE tried = 1
    BY DEF ReadyTried
  <2>1. DiscoverInv /\ AttachInv
    BY DEF SeesInv
  <2>2. interfaces \in Seq(Known) /\ \A i : i \in Range(interfaces)
                                         <=> \E k \in 1..Len(interfaces) : interfaces[k] = i
    BY <2>1 DEF DiscoverInv, Range
  <2>3. interfaces # <<>> /\ (route # None => route \in Range(interfaces))
    BY <2>1, <2>2 DEF DiscoverInv, RouteFound
  <2>4. ASSUME NEW kind \in {Bridges, DockerBridges}, kind \cap ifaces # {}
        PROVE  kind \cap Range(interfaces) # {}
    <3>1. Covered(Bridges) /\ Covered(DockerBridges)
      BY <2>1 DEF DiscoverInv
    <3>2. PICK k \in 1..Len(interfaces) : interfaces[k] \in kind
      BY <2>4, <3>1 DEF Covered
    <3>3. QED
      BY <2>2, <3>2
  <2>5. ASSUME NEW i \in Range(interfaces), NEW d \in Directions
        PROVE  LET tried == probes[d][i] + warned[d][i]
               IN  IF i = route /\ i \in Bridges THEN tried \in {1, 2} ELSE tried = 1
    <3>1. PICK k \in 1..Len(interfaces) : interfaces[k] = i
      BY <2>2
    <3>2. i \in All
      BY <2>1, <2>2, <3>1 DEF DiscoverInv, Known, All
    <3>3. probes[d][i] + warned[d][i] = Cardinality(Occurs(i, Len(interfaces)))
      BY <2>1, <3>2, AttachUnfolds DEF Tried
    <3>4. QED
      BY <2>1, <3>1, <3>3, OnceOrTwice
  <2>6. QED
    BY <2>3, <2>4, <2>5
<1>2. QED
  BY SeesInit, SeesStep, <1>1, PTL DEF Spec
=============================================================================
