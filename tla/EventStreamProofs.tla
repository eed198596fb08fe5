-------------------------- MODULE EventStreamProofs --------------------------
(***************************************************************************)
(* Proofs about EventStream, for every finite set of clients and every     *)
(* length of the channel and of the transport's window: a client is given  *)
(* what it asked for, in order and but for what its receiver had to skip;  *)
(* it skips only what the channel overwrote; and broadcast_drops counts    *)
(* the events nobody was subscribed to.                                    *)
(***************************************************************************)
EXTENDS EventStream, FiniteSetTheorems, SequenceTheorems, TLAPS

(***************************************************************************)
(* Where a receiver is in the channel.  It starts after the events its     *)
(* client was not subscribed to and skips only what lies behind it.        *)
(***************************************************************************)
Place(c) ==
    /\ since[c] <= Len(sent) /\ until[c] <= Len(sent)
    /\ status[c] = "off" => wire[c] = <<>> /\ printed[c] = <<>>
    /\ ~Receiving(c) => missed[c] = {}
    /\ Receiving(c) => since[c] < next[c]
    /\ \A i \in missed[c] : since[c] < i /\ i < next[c] /\ i + Slots <= Len(sent)

(***************************************************************************)
(* What StreamComplete says of one client.                                 *)
(***************************************************************************)
Ordered(s) == \A i, j \in DOMAIN s : i < j => s[i] < s[j]
Members(s) == {s[i] : i \in DOMAIN s}
Due(c) == {i \in (since[c] + 1)..(next[c] - 1) : Wants(c, i) /\ i \notin missed[c]}
Complete(c) ==
    status[c] = "open" => Ordered(Delivered(c)) /\ Members(Delivered(c)) = Due(c)

ClientInv == \A c \in Clients : Place(c) /\ Complete(c)

LEMMA CompleteForAll == (\A c \in Clients : Complete(c)) <=> StreamComplete
  BY DEF Complete, StreamComplete, Ordered, Members, Due, Wants

LEMMA InitType == Init => TypeOK
  BY ClientsAssumption, StreamAssumption DEF Init, TypeOK

LEMMA OldestBound ==
    ASSUME TypeOK
    PROVE  /\ Oldest \in 1..(Len(sent) + 1) /\ Len(sent) \in Nat
           /\ \A i \in Nat : i < Oldest /\ i >= 1 => i + Slots <= Len(sent)
  BY StreamAssumption DEF TypeOK, Oldest

(***************************************************************************)
(* The type invariant is inductive as it stands.                           *)
(***************************************************************************)
LEMMA TypeStep == TypeOK /\ [Next]_vars => TypeOK'
<1> SUFFICES ASSUME TypeOK, [Next]_vars PROVE TypeOK'
  OBVIOUS
<1> USE StreamAssumption
<1>1. ASSUME NEW ns \in Namespaces, Send(ns) PROVE TypeOK'
  <2>1. /\ sent' \in Seq(Namespaces) /\ Len(sent') = Len(sent) + 1 /\ Len(sent) \in Nat
        /\ Len(sent') <= MaxEvents
    BY <1>1 DEF TypeOK, Send
  <2>2. broadcastDrops' \in Nat
    BY <1>1 DEF TypeOK, Send
  <2>3. QED
    BY <1>1, <2>1, <2>2 DEF TypeOK, Send, clientVars
<1>2. ASSUME NEW c \in Clients, Subscribe(c) PROVE TypeOK'
  <2>1. filter' \in [Clients -> SUBSET Namespaces]
    BY <1>2, FiltersAssumption DEF TypeOK, Subscribe
  <2>2. /\ next' \in [Clients -> Nat] /\ since' \in [Clients -> Nat]
        /\ \A d \in Clients : next'[d] \in 1..(Len(sent) + 1)
    <3>1. /\ next' = [next EXCEPT ![c] = Len(sent) + 1] /\ since' = [since EXCEPT ![c] = Len(sent)]
      BY <1>2 DEF Subscribe
    <3>2. /\ Len(sent) \in Nat
          /\ next \in [Clients -> Nat] /\ \A d \in Clients : next[d] \in 1..(Len(sent) + 1)
          /\ since \in [Clients -> Nat]
      BY DEF TypeOK
    <3>3. QED
      BY <3>1, <3>2
  <2>3. /\ status' \in [Clients -> {"off", "open", "left", "closed"}]
        /\ overdue' \subseteq timed' /\ timed' \subseteq Clients
    BY <1>2 DEF TypeOK, Subscribe
  <2>4. QED
    BY <1>2, <2>1, <2>2, <2>3 DEF TypeOK, Subscribe
<1>3. ASSUME NEW c \in Clients, Forward(c) PROVE TypeOK'
  <2>1. /\ next[c] \in 1..Len(sent) /\ Len(sent) \in Nat
    BY <1>3, OldestBound DEF Forward
  <2>2. /\ next' \in [Clients -> Nat] /\ \A d \in Clients : next'[d] \in 1..(Len(sent) + 1)
    BY <1>3, <2>1 DEF Forward, TypeOK
  <2>3. /\ wire' \in [Clients -> Seq(Nat)] /\ \A d \in Clients : Len(wire'[d]) <= Window
    <3>1. /\ wire[c] \in Seq(Nat) /\ next[c] \in Nat /\ Len(wire[c]) < Window
      BY <1>3 DEF Forward, TypeOK
    <3>2. /\ Append(wire[c], next[c]) \in Seq(Nat)
          /\ Len(Append(wire[c], next[c])) <= Window
      BY <3>1
    <3>3. QED
      BY <1>3, <3>2 DEF Forward, TypeOK
  <2>4. QED
    BY <1>3, <2>2, <2>3 DEF TypeOK, Forward, clientVars
<1>4. ASSUME NEW c \in Clients, Skip(c) PROVE TypeOK'
  <2>1. /\ next' \in [Clients -> Nat] /\ \A d \in Clients : next'[d] \in 1..(Len(sent) + 1)
    <3>1. Oldest \in 1..(Len(sent) + 1) /\ Oldest \in Nat
      BY OldestBound
    <3>2. next' = [next EXCEPT ![c] = Oldest]
      BY <1>4 DEF Skip
    <3>3. next \in [Clients -> Nat] /\ \A d \in Clients : next[d] \in 1..(Len(sent) + 1)
      BY DEF TypeOK
    <3>4. QED
      BY <3>1, <3>2, <3>3
  <2>2. missed' \in [Clients -> SUBSET Nat]
    BY <1>4, OldestBound DEF Skip, TypeOK
  <2>3. QED
    BY <1>4, <2>1, <2>2 DEF TypeOK, Skip, clientVars
<1>5. ASSUME NEW c \in Clients, DropReceiver(c) PROVE TypeOK'
  <2>1. /\ wire' \in [Clients -> Seq(Nat)] /\ \A d \in Clients : Len(wire'[d]) <= Window
    BY <1>5 DEF DropReceiver, TypeOK
  <2>2. /\ status' \in [Clients -> {"off", "open", "left", "closed"}]
        /\ filter' \in [Clients -> SUBSET Namespaces]
        /\ next' \in [Clients -> Nat] /\ until' \in [Clients -> Nat]
        /\ \A d \in Clients : next'[d] \in 1..(Len(sent) + 1)
        /\ missed' \in [Clients -> SUBSET Nat]
    BY <1>5 DEF DropReceiver, TypeOK
  <2>3. QED
    BY <1>5, <2>1, <2>2 DEF TypeOK, DropReceiver
<1>6. ASSUME NEW c \in Clients, Leave(c) PROVE TypeOK'
  <2>1. /\ wire' \in [Clients -> Seq(Nat)] /\ \A d \in Clients : Len(wire'[d]) <= Window
        /\ printed' \in [Clients -> Seq(Nat)]
    BY <1>6 DEF Leave, TypeOK
  <2>2. QED
    BY <1>6, <2>1 DEF TypeOK, Leave
<1>7. ASSUME NEW c \in Clients, wire[c] # <<>>, PrintEvent(c) PROVE TypeOK'
  <2>1. /\ wire[c] \in Seq(Nat) /\ printed[c] \in Seq(Nat) /\ Len(wire[c]) <= Window
    BY DEF TypeOK
  <2>2. /\ Tail(wire[c]) \in Seq(Nat) /\ Len(Tail(wire[c])) <= Window
        /\ Append(printed[c], Head(wire[c])) \in Seq(Nat)
    BY <1>7, <2>1
  <2>3. /\ wire' \in [Clients -> Seq(Nat)] /\ \A d \in Clients : Len(wire'[d]) <= Window
        /\ printed' \in [Clients -> Seq(Nat)]
    BY <1>7, <2>2 DEF PrintEvent, TypeOK
  <2>4. QED
    BY <1>7, <2>3 DEF TypeOK, PrintEvent, clientVars
<1>8. ASSUME NEW c \in Clients, DurationOver(c) PROVE TypeOK'
  BY <1>8 DEF TypeOK, DurationOver
<1>9. CASE UNCHANGED vars
  BY <1>9 DEF TypeOK, vars, clientVars
<1>10. QED
  BY <1>1, <1>2, <1>3, <1>4, <1>5, <1>6, <1>7, <1>8, <1>9 DEF Next, ServerStep, Receive, HangUp

(***************************************************************************)
(* The events of the channel only grow.                                    *)
(***************************************************************************)
SentGrows ==
    /\ Len(sent') \in Nat /\ Len(sent) <= Len(sent')
    /\ \A i \in 1..Len(sent) : sent'[i] = sent[i]

LEMMA Grows == TypeOK /\ [Next]_vars => SentGrows
<1> SUFFICES ASSUME TypeOK, [Next]_vars PROVE SentGrows
  OBVIOUS
<1>1. sent \in Seq(Namespaces) /\ Len(sent) \in Nat
  BY DEF TypeOK
<1>2. CASE UNCHANGED sent
  BY <1>1, <1>2 DEF SentGrows
<1>3. ASSUME NEW ns \in Namespaces, sent' = Append(sent, ns) PROVE SentGrows
  BY <1>1, <1>3 DEF SentGrows
<1>4. QED
  BY <1>2, <1>3 DEF Next, Send, Subscribe, ServerStep, Forward, Skip, DropReceiver, Receive,
      Leave, PrintEvent, DurationOver, HangUp, vars

(***************************************************************************)
(* A client no step touches keeps what holds of it.                        *)
(***************************************************************************)
Untouched(c) ==
    /\ status'[c] = status[c] /\ filter'[c] = filter[c] /\ next'[c] = next[c]
    /\ wire'[c] = wire[c] /\ printed'[c] = printed[c] /\ missed'[c] = missed[c]
    /\ since'[c] = since[c] /\ until'[c] = until[c]

LEMMA UntouchedKeeps ==
    ASSUME TypeOK, SentGrows, NEW c \in Clients, Place(c), Complete(c), Untouched(c)
    PROVE  Place(c)' /\ Complete(c)'
<1>1. /\ next[c] \in 1..(Len(sent) + 1) /\ since[c] \in Nat /\ until[c] \in Nat
      /\ Len(sent) \in Nat /\ \A i \in missed[c] : i \in Nat
  BY DEF TypeOK
<1>2. Place(c)'
  BY <1>1, StreamAssumption DEF Place, Receiving, Untouched, SentGrows
<1>3. \A i \in (since[c] + 1)..(next[c] - 1) : Wants(c, i)' <=> Wants(c, i)
  <2>1. \A i \in (since[c] + 1)..(next[c] - 1) : sent'[i] = sent[i]
    BY <1>1 DEF SentGrows
  <2>2. QED
    BY <2>1 DEF Wants, Untouched
<1>4. Due(c)' = Due(c) /\ Delivered(c)' = Delivered(c)
  BY <1>3 DEF Due, Untouched, Delivered
<1>5. Complete(c)'
  BY <1>4 DEF Complete, Untouched
<1>6. QED
  BY <1>2, <1>5

(***************************************************************************)
(* Sequences that grow at the end; an element that moves from the head of  *)
(* one sequence to the end of another.                                     *)
(***************************************************************************)
LEMMA AppendOrdered ==
    ASSUME NEW s \in Seq(Nat), NEW x \in Nat, Ordered(s), \A y \in Members(s) : y < x
    PROVE  Ordered(Append(s, x)) /\ Members(Append(s, x)) = Members(s) \cup {x}
<1> PICK t : t = Append(s, x)
  OBVIOUS
<1>1. PICK n \in Nat : /\ DOMAIN t = DOMAIN s \cup {n} /\ t[n] = x
                       /\ \A i \in DOMAIN s : t[i] = s[i] /\ i < n
  <2>1. /\ DOMAIN s = 1..Len(s) /\ Len(s) \in Nat
        /\ DOMAIN Append(s, x) = 1..(Len(s) + 1)
        /\ Append(s, x)[Len(s) + 1] = x
        /\ \A i \in 1..Len(s) : Append(s, x)[i] = s[i]
    OBVIOUS
  <2>2. /\ 1..(Len(s) + 1) = (1..Len(s)) \cup {Len(s) + 1} /\ Len(s) + 1 \in Nat
        /\ \A i \in 1..Len(s) : i < Len(s) + 1
    BY <2>1
  <2>3. QED
    BY <2>1, <2>2, Zenon
<1>2. Members(t) = Members(s) \cup {x}
  BY <1>1 DEF Members
<1>3. Ordered(t)
  <2> SUFFICES ASSUME NEW i \in DOMAIN t, NEW j \in DOMAIN t, i < j PROVE t[i] < t[j]
    BY DEF Ordered
  <2>0. DOMAIN s \subseteq Nat
    OBVIOUS
  <2>1. i \in DOMAIN s
    BY <1>1, <2>0
  <2>2. CASE j \in DOMAIN s
    BY <1>1, <2>1, <2>2 DEF Ordered
  <2>3. CASE j = n
    BY <1>1, <2>1, <2>3 DEF Members
  <2>4. QED
    BY <1>1, <2>2, <2>3
<1>4. QED
  BY <1>1, <1>2, <1>3

LEMMA AppendRight ==
    ASSUME NEW p \in Seq(Nat), NEW w \in Seq(Nat), NEW x \in Nat
    PROVE  p \o Append(w, x) = Append(p \o w, x) /\ p \o w \in Seq(Nat)
<1>1. p \o w \in Seq(Nat) /\ <<x>> \in Seq(Nat)
  OBVIOUS
<1>2. Append(w, x) = w \o <<x>> /\ Append(p \o w, x) = (p \o w) \o <<x>>
  BY <1>1, AppendIsConcat
<1>3. (p \o w) \o <<x>> = p \o (w \o <<x>>)
  BY <1>1, ConcatAssociative
<1>4. QED
  BY <1>1, <1>2, <1>3

LEMMA MoveHead ==
    ASSUME NEW p \in Seq(Nat), NEW w \in Seq(Nat), w # <<>>
    PROVE  Append(p, Head(w)) \o Tail(w) = p \o w
<1>1. Head(w) \in Nat /\ Tail(w) \in Seq(Nat) /\ <<Head(w)>> \in Seq(Nat)
  OBVIOUS
<1>2. Append(p, Head(w)) = p \o <<Head(w)>>
  BY <1>1, AppendIsConcat
<1>3. <<Head(w)>> \o Tail(w) = w
  <2>1. PICK h \in Nat, t \in Seq(Nat) : h = Head(w) /\ t = Tail(w)
    BY <1>1
  <2>2. <<h>> \o t \in Seq(Nat) /\ Len(<<h>> \o t) = Len(t) + 1 /\ Len(w) = Len(t) + 1
    BY <2>1
  <2>3. ASSUME NEW i \in 1..Len(w) PROVE (<<h>> \o t)[i] = w[i]
    <3>1. CASE i = 1
      BY <2>1, <3>1
    <3>2. CASE i # 1
      <4>1. (<<h>> \o t)[i] = t[i - 1]
        BY <2>2, <3>2
      <4>2. t[i - 1] = w[i]
        BY <2>1, <2>2, <3>2
      <4>3. QED
        BY <4>1, <4>2
    <3>3. QED
      BY <3>1, <3>2
  <2>4. QED
    BY <2>1, <2>2, <2>3, SeqEqual
<1>4. (p \o <<Head(w)>>) \o Tail(w) = p \o (<<Head(w)>> \o Tail(w))
  BY <1>1, ConcatAssociative
<1>5. QED
  BY <1>2, <1>3, <1>4

(***************************************************************************)
(* The steps of one client and of its receiver.                            *)
(***************************************************************************)
LEMMA SubscribeClient ==
    ASSUME TypeOK, NEW c \in Clients, Place(c), Subscribe(c)
    PROVE  Place(c)' /\ Complete(c)'
<1>1. /\ status[c] = "off" /\ status'[c] = "open" /\ since'[c] = Len(sent)
      /\ next'[c] = Len(sent) + 1 /\ UNCHANGED <<sent, wire, printed, missed, until>>
      /\ Len(sent) \in Nat
  BY DEF Subscribe, TypeOK
<1>2. wire[c] = <<>> /\ printed[c] = <<>> /\ missed[c] = {}
  BY <1>1 DEF Place, Receiving
<1>3. Place(c)'
  BY <1>1, <1>2 DEF Place, Receiving
<1>4. Delivered(c)' = <<>>
  BY <1>1, <1>2 DEF Delivered
<1>5. Due(c)' = {}
  BY <1>1 DEF Due
<1>6. Complete(c)'
  BY <1>4, <1>5 DEF Complete, Ordered, Members
<1>7. QED
  BY <1>3, <1>6

LEMMA ForwardClient ==
    ASSUME TypeOK, NEW c \in Clients, Place(c), Complete(c), Forward(c)
    PROVE  Place(c)' /\ Complete(c)'
<1>1. PICK n \in Nat : n = next[c] /\ n \in 1..Len(sent)
  BY OldestBound DEF Forward, TypeOK
<1>2. /\ next'[c] = n + 1 /\ Receiving(c) /\ since[c] \in Nat /\ Len(sent) \in Nat
      /\ UNCHANGED <<sent, status, filter, since, until, printed, missed>>
  BY <1>1 DEF Forward, TypeOK, clientVars
<1>3. wire'[c] = IF Wants(c, n) THEN Append(wire[c], n) ELSE wire[c]
  BY <1>1 DEF Forward, TypeOK
<1>4. since[c] < n /\ n \notin missed[c] /\ \A i \in missed[c] : i \in Nat /\ i < n
  BY <1>1, <1>2 DEF Place, TypeOK
<1>5. Place(c)'
  BY <1>1, <1>2, <1>4 DEF Place, Receiving
<1>6. \A i : Wants(c, i)' <=> Wants(c, i)
  BY <1>2 DEF Wants
<1>7. Due(c)' = Due(c) \cup (IF Wants(c, n) THEN {n} ELSE {}) /\ \A i \in Due(c) : i < n
  BY <1>1, <1>2, <1>4, <1>6 DEF Due
<1>8. Complete(c)'
  <2> SUFFICES ASSUME status[c] = "open"
               PROVE  Ordered(Delivered(c)') /\ Members(Delivered(c)') = Due(c)'
    BY <1>2 DEF Complete
  <2>1. Ordered(Delivered(c)) /\ Members(Delivered(c)) = Due(c)
    BY DEF Complete
  <2>2. CASE Wants(c, n)
    <3>1. printed[c] \in Seq(Nat) /\ wire[c] \in Seq(Nat)
      BY DEF TypeOK
    <3>2. Delivered(c)' = Append(Delivered(c), n) /\ Delivered(c) \in Seq(Nat)
      <4>1. Delivered(c)' = printed[c] \o Append(wire[c], n)
        BY <1>2, <1>3, <2>2 DEF Delivered
      <4>2. /\ printed[c] \o Append(wire[c], n) = Append(printed[c] \o wire[c], n)
            /\ printed[c] \o wire[c] \in Seq(Nat)
        BY <3>1, AppendRight
      <4>3. QED
        BY <4>1, <4>2 DEF Delivered
    <3>3. QED
      BY <1>7, <2>1, <2>2, <3>2, AppendOrdered
  <2>3. CASE ~Wants(c, n)
    BY <1>2, <1>3, <1>7, <2>1, <2>3 DEF Delivered
  <2>4. QED
    BY <2>2, <2>3
<1>9. QED
  BY <1>5, <1>8

LEMMA SkipClient ==
    ASSUME TypeOK, NEW c \in Clients, Place(c), Complete(c), Skip(c)
    PROVE  Place(c)' /\ Complete(c)'
<1>1. PICK n \in Nat, o \in Nat : n = next[c] /\ o = Oldest /\ n < o
  BY OldestBound DEF Skip, TypeOK
<1>2. /\ next'[c] = o /\ missed'[c] = missed[c] \cup n..(o - 1)
      /\ Receiving(c) /\ since[c] \in Nat /\ Len(sent) \in Nat
      /\ UNCHANGED <<sent, status, filter, since, until, wire, printed>>
  BY <1>1 DEF Skip, TypeOK, clientVars
<1>3. /\ since[c] < n /\ n >= 1 /\ \A i \in n..(o - 1) : i + Slots <= Len(sent)
      /\ \A i \in missed[c] : i \in Nat /\ i < n
  <2>1. since[c] < n /\ n >= 1 /\ \A i \in missed[c] : i \in Nat /\ i < n
    BY <1>1, <1>2 DEF Place, TypeOK
  <2>2. \A i \in Nat : i < o /\ i >= 1 => i + Slots <= Len(sent)
    BY <1>1, OldestBound
  <2>3. \A i \in n..(o - 1) : i \in Nat /\ i < o /\ i >= 1
    BY <1>1, <2>1
  <2>4. QED
    BY <2>1, <2>2, <2>3
<1>4. Place(c)'
  <2>1. ASSUME NEW i \in missed'[c]
        PROVE  since'[c] < i /\ i < next'[c] /\ i + Slots <= Len(sent')
    <3>1. CASE i \in missed[c]
      BY <1>1, <1>2, <1>3, <3>1 DEF Place
    <3>2. CASE i \in n..(o - 1)
      BY <1>1, <1>2, <1>3, <3>2
    <3>3. QED
      BY <1>2, <2>1, <3>1, <3>2
  <2>2. QED
    BY <1>1, <1>2, <1>3, <2>1 DEF Place, Receiving
<1>5. \A i : Wants(c, i)' <=> Wants(c, i)
  BY <1>2 DEF Wants
<1>6. Due(c)' = Due(c)
  BY <1>1, <1>2, <1>3, <1>5 DEF Due
<1>7. Complete(c)'
  BY <1>2, <1>6 DEF Complete, Delivered
<1>8. QED
  BY <1>4, <1>7

LEMMA PrintClient ==
    ASSUME TypeOK, NEW c \in Clients, Place(c), Complete(c), PrintEvent(c),
           status[c] = "open", wire[c] # <<>>
    PROVE  Place(c)' /\ Complete(c)'
<1>1. /\ wire'[c] = Tail(wire[c]) /\ printed'[c] = Append(printed[c], Head(wire[c]))
      /\ UNCHANGED <<sent, status, filter, since, until, next, missed>>
  BY DEF PrintEvent, TypeOK, clientVars
<1>2. Delivered(c)' = Delivered(c)
  <2>1. printed[c] \in Seq(Nat) /\ wire[c] \in Seq(Nat)
    BY DEF TypeOK
  <2>2. QED
    BY <1>1, <2>1, MoveHead DEF Delivered
<1>3. Due(c)' = Due(c)
  BY <1>1 DEF Due, Wants
<1>4. Place(c)'
  BY <1>1 DEF Place, Receiving
<1>5. Complete(c)'
  BY <1>1, <1>2, <1>3 DEF Complete
<1>6. QED
  BY <1>4, <1>5

LEMMA GoneClient ==
    ASSUME TypeOK, NEW c \in Clients, Place(c),
           (Leave(c) /\ status[c] = "open") \/ DropReceiver(c)
    PROVE  Place(c)' /\ Complete(c)'
<1>1. CASE Leave(c) /\ status[c] = "open"
  <2>1. /\ status'[c] = "left" /\ UNCHANGED <<sent, since, until, next, missed>>
    BY <1>1 DEF Leave, TypeOK
  <2>2. QED
    BY <1>1, <2>1 DEF Place, Complete, Receiving
<1>2. CASE DropReceiver(c)
  <2>1. /\ status'[c] = "closed" /\ missed'[c] = {} /\ until'[c] = Len(sent)
        /\ UNCHANGED <<sent, since>> /\ Len(sent) \in Nat
    BY <1>2 DEF DropReceiver, TypeOK
  <2>2. QED
    BY <2>1 DEF Place, Complete, Receiving
<1>3. QED
  BY <1>1, <1>2

LEMMA OthersUntouched ==
    ASSUME TypeOK, NEW c \in Clients, NEW d \in Clients, d # c,
           Subscribe(c) \/ ServerStep(c) \/ Receive(c) \/ DurationOver(c) \/ HangUp(c)
    PROVE  Untouched(d)
<1>1. CASE Subscribe(c)
  BY <1>1 DEF TypeOK, Subscribe, Untouched
<1>2. CASE Forward(c)
  BY <1>2 DEF TypeOK, Forward, Untouched, clientVars
<1>3. CASE Skip(c)
  BY <1>3 DEF TypeOK, Skip, Untouched, clientVars
<1>4. CASE DropReceiver(c)
  BY <1>4 DEF TypeOK, DropReceiver, Untouched
<1>5. CASE Leave(c)
  BY <1>5 DEF TypeOK, Leave, Untouched
<1>6. CASE PrintEvent(c)
  BY <1>6 DEF TypeOK, PrintEvent, Untouched, clientVars
<1>7. CASE DurationOver(c)
  BY <1>7 DEF DurationOver, Untouched
<1>8. QED
  BY <1>1, <1>2, <1>3, <1>4, <1>5, <1>6, <1>7 DEF ServerStep, Receive, HangUp

LEMMA InitClients == Init => ClientInv
  BY DEF Init, ClientInv, Place, Complete, Receiving

LEMMA ClientStep == TypeOK /\ ClientInv /\ [Next]_vars => ClientInv'
<1> SUFFICES ASSUME TypeOK, ClientInv, [Next]_vars, NEW d \in Clients
             PROVE  Place(d)' /\ Complete(d)'
  BY DEF ClientInv
<1>1. Place(d) /\ Complete(d) /\ SentGrows
  BY Grows DEF ClientInv
<1>2. CASE Untouched(d)
  BY <1>1, <1>2, UntouchedKeeps
<1>3. CASE UNCHANGED vars \/ \E ns \in Namespaces : Send(ns)
  BY <1>2, <1>3 DEF Send, vars, clientVars, Untouched
<1>4. ASSUME NEW c \in Clients,
             Subscribe(c) \/ ServerStep(c) \/ Receive(c) \/ DurationOver(c) \/ HangUp(c)
      PROVE  Place(d)' /\ Complete(d)'
  <2>1. CASE d # c
    BY <1>2, <1>4, <2>1, OthersUntouched
  <2>2. CASE d = c
    <3>1. CASE DurationOver(c)
      BY <1>2, <3>1 DEF DurationOver, Untouched
    <3>2. QED
      BY <1>1, <1>4, <2>2, <3>1, SubscribeClient, ForwardClient, SkipClient, PrintClient,
         GoneClient DEF ServerStep, Receive, HangUp
  <2>3. QED
    BY <2>1, <2>2
<1>5. QED
  BY <1>3, <1>4 DEF Next
-----------------------------------------------------------------------------
(***************************************************************************)
(* Which events somebody was subscribed to never changes afterwards: who   *)
(* comes later starts behind them, and who goes stays accounted for.       *)
(***************************************************************************)
Heard(i) == \E c \in Clients : Subscribed(c, i)
Unheard == {i \in Events : ~Heard(i)}

LEMMA HeardFixed ==
    ASSUME TypeOK, ClientInv, [Next]_vars, NEW i \in Events
    PROVE  Heard(i)' <=> Heard(i)
<1> SUFFICES ASSUME NEW d \in Clients PROVE Subscribed(d, i)' <=> Subscribed(d, i)
  BY DEF Heard
<1>1. Place(d) /\ Len(sent) \in Nat /\ since[d] \in Nat /\ until[d] \in Nat
      /\ i \in Nat /\ i <= Len(sent)
  BY DEF ClientInv, TypeOK, Events
<1>2. CASE Untouched(d)
  BY <1>2 DEF Untouched, Subscribed
<1>3. CASE UNCHANGED vars \/ \E ns \in Namespaces : Send(ns)
  BY <1>2, <1>3 DEF Send, vars, clientVars, Untouched
<1>4. ASSUME NEW c \in Clients,
             Subscribe(c) \/ ServerStep(c) \/ Receive(c) \/ DurationOver(c) \/ HangUp(c)
      PROVE  Subscribed(d, i)' <=> Subscribed(d, i)
  <2>1. CASE d # c
    BY <1>2, <1>4, <2>1, OthersUntouched
  <2>2. CASE d = c /\ Subscribe(d)
    BY <1>1, <2>2 DEF Subscribe, Subscribed, TypeOK
  <2>3. CASE d = c /\ DropReceiver(d)
    BY <1>1, <2>3 DEF DropReceiver, Subscribed, TypeOK
  <2>4. CASE d = c /\ Leave(d) /\ status[d] = "open"
    BY <1>1, <2>4 DEF Leave, Subscribed, TypeOK
  <2>5. CASE d = c /\ (Forward(d) \/ Skip(d) \/ PrintEvent(d) \/ DurationOver(d))
    BY <2>5 DEF Forward, Skip, PrintEvent, DurationOver, clientVars, Subscribed
  <2>6. QED
    BY <1>4, <2>1, <2>2, <2>3, <2>4, <2>5 DEF ServerStep, Receive, HangUp
<1>5. QED
  BY <1>3, <1>4 DEF Next

LEMMA DropsStep == TypeOK /\ ClientInv /\ DropsAreUnheard /\ [Next]_vars => DropsAreUnheard'
<1> SUFFICES ASSUME TypeOK, ClientInv, DropsAreUnheard, [Next]_vars
             PROVE  broadcastDrops' = Cardinality(Unheard')
  BY DEF DropsAreUnheard, Unheard, Heard
<1>1. broadcastDrops = Cardinality(Unheard)
  BY DEF DropsAreUnheard, Unheard, Heard
<1>2. Len(sent) \in Nat /\ Events = 1..Len(sent)
  BY DEF TypeOK, Events
<1>3. IsFiniteSet(Unheard) /\ Cardinality(Unheard) \in Nat
  <2>1. Unheard \subseteq 1..Len(sent)
    BY <1>2 DEF Unheard
  <2>2. QED
    <3>1. IsFiniteSet(1..Len(sent))
      BY <1>2, FS_Interval
    <3>2. QED
      BY <2>1, <3>1, FS_Subset, FS_CardinalityType
<1>4. ASSUME UNCHANGED <<sent, broadcastDrops>> PROVE broadcastDrops' = Cardinality(Unheard')
  <2>1. Events' = Events
    BY <1>4 DEF Events
  <2>2. Unheard' = Unheard
    BY <2>1, HeardFixed DEF Unheard
  <2>3. QED
    BY <1>1, <1>4, <2>2
<1>5. ASSUME NEW ns \in Namespaces, Send(ns) PROVE broadcastDrops' = Cardinality(Unheard')
  <2>1. PICK n \in Nat : n = Len(sent) + 1
    BY <1>2
  <2>2. Events' = Events \cup {n} /\ n \notin Events
    <3>1. Len(sent') = Len(sent) + 1
      BY <1>5 DEF Send, TypeOK
    <3>2. Events' = 1..(Len(sent) + 1)
      BY <3>1 DEF Events
    <3>3. QED
      BY <1>2, <2>1, <3>2
  <2>3. Heard(n)' <=> \E c \in Clients : Receiving(c)
    <3>1. ASSUME NEW c \in Clients PROVE Subscribed(c, n)' <=> Receiving(c)
      <4>1. /\ status'[c] = status[c] /\ since'[c] = since[c] /\ until'[c] = until[c]
        BY <1>5 DEF Send, clientVars
      <4>2. since[c] < n /\ ~(n <= until[c])
        BY <1>2, <2>1 DEF ClientInv, Place, TypeOK
      <4>3. status[c] \in {"off", "open", "left", "closed"}
        BY DEF TypeOK
      <4>4. QED
        BY <4>1, <4>2, <4>3 DEF Subscribed, Receiving
    <3>2. QED
      BY <3>1 DEF Heard
  <2>4. Unheard' = Unheard \cup (IF Heard(n)' THEN {} ELSE {n}) /\ n \notin Unheard
    BY <2>2, HeardFixed DEF Unheard
  <2>5. broadcastDrops' = IF Heard(n)' THEN broadcastDrops ELSE broadcastDrops + 1
    BY <1>5, <2>3 DEF Send
  <2>6. CASE Heard(n)'
    BY <1>1, <2>4, <2>5, <2>6
  <2>7. CASE ~Heard(n)'
    <3>1. Unheard' = Unheard \cup {n}
      BY <2>4, <2>7
    <3>2. Cardinality(Unheard') = Cardinality(Unheard) + 1
      BY <1>3, <2>4, <3>1, FS_AddElement
    <3>3. QED
      BY <1>1, <2>5, <2>7, <3>2
  <2>8. QED
    BY <2>6, <2>7
<1>6. (\E ns \in Namespaces : Send(ns)) \/ UNCHANGED <<sent, broadcastDrops>>
  BY DEF Next, Subscribe, ServerStep, Forward, Skip, DropReceiver, Receive, Leave, PrintEvent,
      DurationOver, HangUp, vars
<1>7. QED
  BY <1>4, <1>5, <1>6

IInv == TypeOK /\ ClientInv /\ DropsAreUnheard

LEMMA Inductive == Spec => []IInv
<1>1. Init => IInv
  <2> SUFFICES ASSUME Init PROVE DropsAreUnheard
    BY InitType, InitClients DEF IInv
  <2>1. Events = {}
    BY DEF Init, Events
  <2>2. {i \in Events : \A c \in Clients : ~Subscribed(c, i)} = {}
    BY <2>1
  <2>3. QED
    BY <2>2, FS_EmptySet DEF Init, DropsAreUnheard
<1>2. IInv /\ [Next]_vars => IInv'
  BY TypeStep, ClientStep, DropsStep DEF IInv
<1>3. QED
  BY <1>1, <1>2, PTL DEF Spec

(***************************************************************************)
(* Type correctness of the channel, the streams and the clients.           *)
(***************************************************************************)
THEOREM TypeCorrect == Spec => []TypeOK
<1>1. IInv => TypeOK
  BY DEF IInv
<1>2. QED
  BY Inductive, <1>1, PTL

(***************************************************************************)
(* stream_events and trace_network together lose, repeat and reorder       *)
(* nothing but what the receiver skipped: a client was given exactly what  *)
(* it asked for.                                                           *)
(***************************************************************************)
THEOREM StreamsAreComplete == Spec => []StreamComplete
<1>1. IInv => StreamComplete
  BY CompleteForAll DEF IInv, ClientInv
<1>2. QED
  BY Inductive, <1>1, PTL

(***************************************************************************)
(* A receiver skips an event only after the channel overwrote it.          *)
(***************************************************************************)
THEOREM SkipsOnlyOverwritten == Spec => []SkippedOnlyWhenFull
<1>1. IInv => SkippedOnlyWhenFull
  BY DEF IInv, ClientInv, Place, SkippedOnlyWhenFull
<1>2. QED
  BY Inductive, <1>1, PTL

(***************************************************************************)
(* broadcast_drops is the number of events nobody was subscribed to.       *)
(***************************************************************************)
THEOREM DropsExact == Spec => []DropsAreUnheard
<1>1. IInv => DropsAreUnheard
  BY DEF IInv
<1>2. QED
  BY Inductive, <1>1, PTL
=============================================================================
