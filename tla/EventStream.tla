----------------------------- MODULE EventStream -----------------------------
(***************************************************************************)
(* From the event loop to the terminal: main.rs sends every event into a   *)
(* broadcast channel, stream_events of grpc_server.rs subscribes each      *)
(* client to it and filters by namespace, and trace_network of the client  *)
(* (orb8-cli/src/lib.rs) prints what arrives until its duration is over.   *)
(*                                                                         *)
(* External are the channel, of which a subscriber sees what is sent after *)
(* it subscribed, as long as it is among the last Slots events, and is     *)
(* told once when it missed some; and the transport, which asks the server *)
(* for events while the client's window has room, and tells it some time   *)
(* later that a client has gone.                                           *)
(***************************************************************************)
EXTENDS Naturals, Sequences, FiniteSets

CONSTANTS
    Clients,
    Namespaces,
    Filters,        \* lists of namespaces clients ask for
    Slots,          \* broadcast_channel_size, rounded up to a power of two
    Window,         \* events the transport holds for a client
    MaxEvents       \* bound: events sent

ASSUME ClientsAssumption == IsFiniteSet(Clients)
ASSUME FiltersAssumption == Filters \subseteq SUBSET Namespaces
ASSUME StreamAssumption == Slots \in Nat \ {0} /\ Window \in Nat \ {0} /\ MaxEvents \in Nat

VARIABLES
    sent,           \* namespaces of the events sent so far
    broadcastDrops, \* HealthState::broadcast_drops
    status,         \* client -> "off", "open", "left" (the server does not know), "closed"
    filter,         \* client -> namespaces it asked for, none meaning all
    timed,          \* clients with a duration
    overdue,        \* clients whose duration is over
    next,           \* client -> the event its receiver takes next
    wire,           \* client -> events on their way to it
    printed,        \* client -> events it printed
    \* history
    since,          \* client -> events sent before it subscribed
    until,          \* client -> events sent before its receiver was dropped
    missed          \* client -> events its receiver skipped

clientVars == <<status, filter, timed, overdue, since>>
vars == <<sent, broadcastDrops, clientVars, next, wire, printed, until, missed>>

Events == 1..Len(sent)
Receiving(c) == status[c] \in {"open", "left"}

Init ==
    /\ sent = <<>> /\ broadcastDrops = 0
    /\ status = [c \in Clients |-> "off"]
    /\ filter = [c \in Clients |-> {}]
    /\ timed = {} /\ overdue = {}
    /\ next = [c \in Clients |-> 1]
    /\ wire = [c \in Clients |-> <<>>]
    /\ printed = [c \in Clients |-> <<>>]
    /\ since = [c \in Clients |-> 0] /\ until = [c \in Clients |-> 0]
    /\ missed = [c \in Clients |-> {}]
-----------------------------------------------------------------------------
\* Mutant: clients that hung up are not counted as subscribers.
SendToOpen(ns) ==
    /\ Len(sent) < MaxEvents
    /\ sent' = Append(sent, ns)
    /\ broadcastDrops' = IF \E c \in Clients : status[c] = "open" THEN broadcastDrops
                         ELSE broadcastDrops + 1
    /\ UNCHANGED <<clientVars, next, wire, printed, until, missed>>

(***************************************************************************)
(* The event loop: sending fails only if there is no receiver.  The count  *)
(* of a failure is part of the step: what clients do between the two does  *)
(* not change it, and who reads the counter is in HealthReport, where its  *)
(* increment is a step of its own.                                         *)
(***************************************************************************)
Send(ns) ==
    /\ Len(sent) < MaxEvents
    /\ sent' = Append(sent, ns)
    /\ broadcastDrops' = IF \E c \in Clients : Receiving(c) THEN broadcastDrops
                         ELSE broadcastDrops + 1
    /\ UNCHANGED <<clientVars, next, wire, printed, until, missed>>

(***************************************************************************)
(* stream_events: a client subscribes.                                     *)
(***************************************************************************)
Subscribe(c) ==
    /\ status[c] = "off"
    /\ status' = [status EXCEPT ![c] = "open"]
    /\ \E namespaces \in Filters : filter' = [filter EXCEPT ![c] = namespaces]
    /\ timed' \in {timed, timed \cup {c}}
    /\ since' = [since EXCEPT ![c] = Len(sent)]
    /\ next' = [next EXCEPT ![c] = Len(sent) + 1]
    /\ UNCHANGED <<sent, broadcastDrops, overdue, wire, printed, until, missed>>

\* Mutant: an empty list of namespaces selects nothing.
WantsListed(c, i) == sent[i] \in filter[c]

Wants(c, i) == filter[c] = {} \/ sent[i] \in filter[c]

Oldest == IF Len(sent) > Slots THEN Len(sent) - Slots + 1 ELSE 1

\* Mutant: the server does not wait for the client.
ForwardUnasked(c) ==
    /\ Receiving(c)
    /\ next[c] \in Oldest..Len(sent)
    /\ wire' = IF Wants(c, next[c]) THEN [wire EXCEPT ![c] = Append(@, next[c])] ELSE wire
    /\ next' = [next EXCEPT ![c] = @ + 1]
    /\ UNCHANGED <<sent, broadcastDrops, clientVars, printed, until, missed>>

(***************************************************************************)
(* The server takes the next event for a client and passes it on if the    *)
(* client asked for its namespace.                                         *)
(***************************************************************************)
Forward(c) ==
    /\ Receiving(c) /\ Len(wire[c]) < Window
    /\ next[c] \in Oldest..Len(sent)
    /\ wire' = IF Wants(c, next[c]) THEN [wire EXCEPT ![c] = Append(@, next[c])] ELSE wire
    /\ next' = [next EXCEPT ![c] = @ + 1]
    /\ UNCHANGED <<sent, broadcastDrops, clientVars, printed, until, missed>>

\* Mutant: after an error the server subscribes again.
SkipResubscribes(c) ==
    /\ Receiving(c) /\ Len(wire[c]) < Window
    /\ next[c] < Oldest
    /\ missed' = [missed EXCEPT ![c] = @ \cup next[c]..Len(sent)]
    /\ next' = [next EXCEPT ![c] = Len(sent) + 1]
    /\ UNCHANGED <<sent, broadcastDrops, clientVars, wire, printed, until>>

\* Mutant: after an error the stream is not polled any more.
SkipStalls(c) ==
    /\ Receiving(c) /\ Len(wire[c]) < Window
    /\ next[c] < Oldest
    /\ missed' = [missed EXCEPT ![c] = @ \cup next[c]..(Oldest - 1)]
    /\ UNCHANGED <<sent, broadcastDrops, clientVars, next, wire, printed, until>>

(***************************************************************************)
(* A receiver that fell behind gets an error, which filter_map drops, and  *)
(* goes on with the oldest event the channel still has.                    *)
(***************************************************************************)
Skip(c) ==
    /\ Receiving(c) /\ Len(wire[c]) < Window
    /\ next[c] < Oldest
    /\ missed' = [missed EXCEPT ![c] = @ \cup next[c]..(Oldest - 1)]
    /\ next' = [next EXCEPT ![c] = Oldest]
    /\ UNCHANGED <<sent, broadcastDrops, clientVars, wire, printed, until>>

(***************************************************************************)
(* The server learns that the client has gone and drops its receiver.      *)
(***************************************************************************)
DropReceiver(c) ==
    /\ status[c] = "left"
    /\ status' = [status EXCEPT ![c] = "closed"]
    /\ filter' = [filter EXCEPT ![c] = {}]
    /\ next' = [next EXCEPT ![c] = 1]
    /\ wire' = [wire EXCEPT ![c] = <<>>]
    /\ missed' = [missed EXCEPT ![c] = {}]
    /\ until' = [until EXCEPT ![c] = Len(sent)]
    /\ UNCHANGED <<sent, broadcastDrops, timed, overdue, since, printed>>
-----------------------------------------------------------------------------
\* The client ends; what was on its way to it is lost.
Leave(c) ==
    /\ status' = [status EXCEPT ![c] = "left"]
    /\ wire' = [wire EXCEPT ![c] = <<>>]
    /\ printed' = [printed EXCEPT ![c] = <<>>]
    /\ timed' = timed \ {c} /\ overdue' = overdue \ {c}
    /\ UNCHANGED <<sent, broadcastDrops, filter, since, next, until, missed>>

PrintEvent(c) ==
    /\ printed' = [printed EXCEPT ![c] = Append(@, Head(wire[c]))]
    /\ wire' = [wire EXCEPT ![c] = Tail(@)]
    /\ UNCHANGED <<sent, broadcastDrops, clientVars, next, until, missed>>

\* Mutant: the duration is looked at when the stream is opened only.
ReceiveOn(c) ==
    /\ status[c] = "open" /\ wire[c] # <<>>
    /\ PrintEvent(c)

(***************************************************************************)
(* trace_network: the duration is looked at when an event arrives, and     *)
(* then the event is not printed.                                          *)
(***************************************************************************)
Receive(c) ==
    /\ status[c] = "open" /\ wire[c] # <<>>
    /\ \/ c \in overdue /\ Leave(c)
       \/ c \notin overdue /\ PrintEvent(c)

DurationOver(c) ==
    /\ status[c] = "open" /\ c \in timed \ overdue
    /\ overdue' = overdue \cup {c}
    /\ UNCHANGED <<sent, broadcastDrops, status, filter, timed, since,
                   next, wire, printed, until, missed>>

\* The client is interrupted or the connection breaks.
HangUp(c) == status[c] = "open" /\ Leave(c)

ServerStep(c) == Forward(c) \/ Skip(c) \/ DropReceiver(c)

Next ==
    \/ \E ns \in Namespaces : Send(ns)
    \/ \E c \in Clients :
          Subscribe(c) \/ ServerStep(c) \/ Receive(c) \/ DurationOver(c) \/ HangUp(c)

Spec == Init /\ [][Next]_vars

(***************************************************************************)
(* The runtime polls every stream and clients read what arrives.  That     *)
(* events are sent, or that a client hangs up, is not assumed.             *)
(***************************************************************************)
FairSpec ==
    Spec /\ \A c \in Clients : WF_vars(ServerStep(c)) /\ WF_vars(Receive(c))
-----------------------------------------------------------------------------
(***************************************************************************)
(* Type invariant of the channel, the streams and the clients.             *)
(***************************************************************************)
TypeOK ==
    /\ sent \in Seq(Namespaces) /\ Len(sent) <= MaxEvents
    /\ broadcastDrops \in Nat
    /\ status \in [Clients -> {"off", "open", "left", "closed"}]
    /\ filter \in [Clients -> SUBSET Namespaces]
    /\ overdue \subseteq timed /\ timed \subseteq Clients
    /\ next \in [Clients -> Nat] /\ since \in [Clients -> Nat] /\ until \in [Clients -> Nat]
    /\ \A c \in Clients : next[c] \in 1..(Len(sent) + 1)
    /\ wire \in [Clients -> Seq(Nat)] /\ \A c \in Clients : Len(wire[c]) <= Window
    /\ printed \in [Clients -> Seq(Nat)]
    /\ missed \in [Clients -> SUBSET Nat]

Delivered(c) == printed[c] \o wire[c]

(***************************************************************************)
(* What a client was given is exactly, and in order, what was sent in its  *)
(* namespaces since it subscribed, up to its place in the channel and but  *)
(* for what its receiver skipped.                                          *)
(***************************************************************************)
StreamComplete ==
    \A c \in Clients : status[c] = "open" =>
        /\ \A i, j \in DOMAIN Delivered(c) : i < j => Delivered(c)[i] < Delivered(c)[j]
        /\ {Delivered(c)[i] : i \in DOMAIN Delivered(c)} =
               {i \in (since[c] + 1)..(next[c] - 1) :
                    (filter[c] = {} \/ sent[i] \in filter[c]) /\ i \notin missed[c]}

(***************************************************************************)
(* An event is skipped only after the channel was filled behind it: a      *)
(* client less than a channel's length behind loses nothing.               *)
(***************************************************************************)
SkippedOnlyWhenFull ==
    \A c \in Clients : \A i \in missed[c] : since[c] < i /\ i + Slots <= Len(sent)

Subscribed(c, i) ==
    /\ status[c] # "off" /\ since[c] < i
    /\ status[c] = "closed" => i <= until[c]

(***************************************************************************)
(* broadcast_drops counts the events nobody was subscribed to, and no      *)
(* others, however clients come and go.                                    *)
(***************************************************************************)
DropsAreUnheard ==
    broadcastDrops = Cardinality({i \in Events : \A c \in Clients : ~Subscribed(c, i)})

(***************************************************************************)
(* A client that stays connected and has time left is given, in the end,   *)
(* everything the channel kept for it; falling behind does not end a       *)
(* stream.                                                                 *)
(***************************************************************************)
ClientsCatchUp ==
    <>[](\A c \in Clients : status[c] = "open" /\ c \notin overdue =>
             next[c] = Len(sent) + 1 /\ wire[c] = <<>>)

(***************************************************************************)
(* A trace with a duration ends with the first event that arrives after    *)
(* it.  (Without another event it does not end.)                           *)
(***************************************************************************)
TraceEndsAtEvent ==
    \A c \in Clients :
        (status[c] = "open" /\ c \in overdue /\ wire[c] # <<>>) ~> (status[c] # "open")
=============================================================================
