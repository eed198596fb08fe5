--------------------------- MODULE FlowQueryProofs ---------------------------
(***************************************************************************)
(* Proofs about QueryFlows for every set of flows and requests, any limit  *)
(* and any number of packets: what a reply shows was booked, and what it   *)
(* leaves out it has no room for.                                          *)
(***************************************************************************)
EXTENDS FlowQuery, FiniteSetTheorems, FunctionTheorems, WellFoundedInduction, TLAPS

(***************************************************************************)
(* Sums over finite sets, as in FlowTableProofs.  MapThenSumSet takes the  *)
(* elements one by one, in an order of CHOOSE's; the sum does not depend   *)
(* on it.  Both that the recursion defines a function and that order does  *)
(* not matter is shown by a least counterexample.                          *)
(***************************************************************************)
Pick(s) == CHOOSE x \in s : TRUE
SumStep(g, w, s) == IF s = {} THEN 0 ELSE w[Pick(s)] + g[s \ {Pick(s)}]
Sums(g, w, S) == g = [s \in SUBSET S |-> SumStep(g, w, s)]

LEMMA PickIn == \A s : s # {} => Pick(s) \in s
  BY DEF Pick

LEMMA LeastNat ==
    ASSUME NEW T \in SUBSET Nat, T # {}
    PROVE  \E m \in T : \A k \in T : m <= k
<1> DEFINE R == OpToRel(<, Nat)
<1>1. IsWellFoundedOn(R, Nat)
  BY NatLessThanWellFounded
<1>2. \A x, y \in Nat : <<x, y>> \in R <=> x < y
  BY DEF OpToRel
<1> HIDE DEF R
<1>3. PICK m \in T : \A y \in T : ~(<<y, m>> \in R)
  BY <1>1, WFMin
<1>4. \A k \in T : k \in Nat /\ m \in Nat /\ ~(k < m)
  BY <1>2, <1>3
<1>5. \A k \in T : m <= k
  BY <1>4
<1>6. QED
  BY <1>5

LEMMA LeastSet ==
    ASSUME NEW S, IsFiniteSet(S), NEW B \in SUBSET SUBSET S, B # {}
    PROVE  \E T \in B : \A W \in B : ~(W \subseteq T /\ W # T)
<1>1. B \subseteq FiniteSubsetsOf(S)
  BY FS_Subset DEF FiniteSubsetsOf
<1>2. IsWellFoundedOn(StrictSubsetOrdering(S), FiniteSubsetsOf(S))
  BY FS_StrictSubsetOrderingWellFounded
<1>3. PICK T \in B : \A W \in B : ~(<<W, T>> \in StrictSubsetOrdering(S))
  BY <1>1, <1>2, WFMin
<1>4. QED
  BY <1>3 DEF StrictSubsetOrdering

LEMMA SumsExist ==
    ASSUME NEW S, IsFiniteSet(S), NEW w
    PROVE  \E g : Sums(g, w, S)
<1> DEFINE Upto(n, g) == \A s \in SUBSET S : Cardinality(s) <= n => g[s] = SumStep(g, w, s)
           Unrolled(g) == [s \in SUBSET S |-> SumStep(g, w, s)]
<1>1. \A s \in SUBSET S : IsFiniteSet(s) /\ Cardinality(s) \in Nat /\ Cardinality(s) <= Cardinality(S)
  BY FS_Subset, FS_CardinalityType
<1>2. \A s \in SUBSET S : s # {} =>
         /\ s \ {Pick(s)} \in SUBSET S
         /\ Cardinality(s \ {Pick(s)}) = Cardinality(s) - 1
  BY <1>1, PickIn, FS_RemoveElement
<1>3. \A s \in SUBSET S : Cardinality(s) = 0 <=> s = {}
  BY <1>1, FS_EmptySet
<1>4. ASSUME NEW n \in Nat, NEW g, Upto(n, g) PROVE Upto(n + 1, Unrolled(g))
  <2> SUFFICES ASSUME NEW s \in SUBSET S, Cardinality(s) <= n + 1
               PROVE  Unrolled(g)[s] = SumStep(Unrolled(g), w, s)
    OBVIOUS
  <2>1. CASE s = {}
    BY <2>1 DEF SumStep
  <2>2. CASE s # {}
    <3>1. PICK t \in SUBSET S : t = s \ {Pick(s)} /\ Cardinality(t) <= n
      <4> HIDE DEF Unrolled, Upto
      <4>1. Cardinality(s) \in Nat /\ Cardinality(s \ {Pick(s)}) = Cardinality(s) - 1
        BY <1>1, <1>2, <2>2
      <4>2. Cardinality(s \ {Pick(s)}) <= n
        BY <4>1
      <4>3. QED
        BY <1>2, <2>2, <4>2
    <3>2. Unrolled(g)[t] = g[t]
      BY <1>4, <3>1
    <3>3. QED
      BY <2>2, <3>1, <3>2 DEF SumStep
  <2>3. QED
    BY <2>1, <2>2
<1>5. Upto(0, [s \in SUBSET S |-> 0])
  BY <1>1, <1>3 DEF SumStep
<1> DEFINE Bad == {n \in Nat : ~ \E g : Upto(n, g)}
<1>6. Bad = {}
  <2> HIDE DEF Upto, Unrolled
  <2> SUFFICES ASSUME Bad # {} PROVE FALSE
    OBVIOUS
  <2>1. PICK m \in Bad : \A k \in Bad : m <= k
    <3> HIDE DEF Bad
    <3> Bad \in SUBSET Nat
      BY DEF Bad
    <3> QED
      BY LeastNat
  <2>2. m \in Nat /\ m # 0
    BY <1>5
  <2>3. m - 1 \in Nat /\ m - 1 \notin Bad /\ (m - 1) + 1 = m
    BY <2>1, <2>2
  <2>4. PICK g : Upto(m - 1, g)
    BY <2>3
  <2>5. Upto(m, Unrolled(g))
    BY <1>4, <2>3, <2>4
  <2>6. QED
    BY <2>1, <2>5
<1>7. PICK g : Upto(Cardinality(S), g)
  <2> HIDE DEF Upto
  <2>1. Cardinality(S) \in Nat
    BY FS_CardinalityType
  <2>2. QED
    BY <1>6, <2>1
<1>8. Sums(Unrolled(g), w, S)
  <2>1. \A s \in SUBSET S : Unrolled(g)[s] = g[s]
    BY <1>1, <1>7
  <2>2. \A s \in SUBSET S : SumStep(Unrolled(g), w, s) = SumStep(g, w, s)
    BY <1>2, <2>1 DEF SumStep
  <2>3. QED
    BY <2>2 DEF Sums
<1>9. QED
  BY <1>8

\* What a sum is, whatever the order.
Adds(g, w, S) ==
    /\ g \in [SUBSET S -> Nat] /\ g[{}] = 0
    /\ \A T \in SUBSET S : \A x \in T : g[T] = w[x] + g[T \ {x}]

LEMMA SumsAdd ==
    ASSUME NEW S, IsFiniteSet(S), NEW w \in [S -> Nat], NEW g, Sums(g, w, S)
    PROVE  Adds(g, w, S)
<1>1. \A s \in SUBSET S : s # {} => /\ g[s] = w[Pick(s)] + g[s \ {Pick(s)}]
                                   /\ Pick(s) \in s /\ w[Pick(s)] \in Nat
  BY PickIn DEF Sums, SumStep
<1>2. g[{}] = 0
  BY DEF Sums, SumStep
<1>3. \A s \in SUBSET S : g[s] \in Nat
  <2> DEFINE Bad == {s \in SUBSET S : g[s] \notin Nat}
  <2> SUFFICES ASSUME Bad # {} PROVE FALSE
    OBVIOUS
  <2>1. PICK T \in Bad : \A W \in Bad : ~(W \subseteq T /\ W # T)
    <3> HIDE DEF Bad
    <3> Bad \in SUBSET SUBSET S
      BY DEF Bad
    <3> QED
      BY LeastSet
  <2>2. T # {}
    BY <1>2
  <2>3. T \ {Pick(T)} \notin Bad
    BY <1>1, <2>1, <2>2
  <2>4. T \in SUBSET S /\ g[T] \notin Nat /\ g[T \ {Pick(T)}] \in Nat
    BY <2>3
  <2>5. g[T] = w[Pick(T)] + g[T \ {Pick(T)}] /\ w[Pick(T)] \in Nat
    BY <1>1, <2>2, <2>4
  <2>6. QED
    BY <2>4, <2>5
<1>4. \A T \in SUBSET S : \A x \in T : g[T] = w[x] + g[T \ {x}]
  <2> DEFINE Bad == {T \in SUBSET S : \E x \in T : g[T] # w[x] + g[T \ {x}]}
  <2> SUFFICES ASSUME Bad # {} PROVE FALSE
    OBVIOUS
  <2>1. PICK T \in Bad : \A W \in Bad : ~(W \subseteq T /\ W # T)
    <3> HIDE DEF Bad
    <3> Bad \in SUBSET SUBSET S
      BY DEF Bad
    <3> QED
      BY LeastSet
  <2>2. PICK x \in T : g[T] # w[x] + g[T \ {x}]
    OBVIOUS
  <2>3. PICK p \in T : p = Pick(T) /\ g[T] = w[p] + g[T \ {p}]
    BY <1>1, <2>2
  <2>4. p # x
    BY <2>2, <2>3
  <2>5. T \ {p} \notin Bad /\ T \ {x} \notin Bad
    BY <2>1, <2>2, <2>3
  <2>6. g[T \ {p}] = w[x] + g[(T \ {p}) \ {x}]
    BY <2>4, <2>5
  <2>7. g[T \ {x}] = w[p] + g[(T \ {x}) \ {p}]
    BY <2>4, <2>5
  <2>8. (T \ {p}) \ {x} = (T \ {x}) \ {p}
    OBVIOUS
  <2>9. w[x] \in Nat /\ w[p] \in Nat /\ (T \ {x}) \ {p} \in SUBSET S
    OBVIOUS
  <2>10. g[(T \ {x}) \ {p}] \in Nat
    BY <1>3, <2>9
  <2> HIDE DEF Bad
  <2>11. g[T] = w[p] + (w[x] + g[(T \ {x}) \ {p}])
    BY <2>3, <2>6, <2>8
  <2>12. QED
    BY <2>2, <2>7, <2>9, <2>10, <2>11
<1>5. g \in [SUBSET S -> Nat]
  BY <1>3 DEF Sums
<1>6. QED
  BY <1>2, <1>4, <1>5 DEF Adds

LEMMA AddsAgree ==
    ASSUME NEW S, NEW g, NEW w, Adds(g, w, S), NEW R, NEW h, NEW v, Adds(h, v, R),
           NEW D \in SUBSET S, D \subseteq R, IsFiniteSet(D), \A x \in D : w[x] = v[x]
    PROVE  g[D] = h[D]
<1> DEFINE Bad == {T \in SUBSET D : g[T] # h[T]}
<1> SUFFICES ASSUME Bad # {} PROVE FALSE
  OBVIOUS
<1>1. PICK T \in Bad : \A W \in Bad : ~(W \subseteq T /\ W # T)
  <2> HIDE DEF Bad
  <2> Bad \in SUBSET SUBSET D
    BY DEF Bad
  <2> QED
    BY LeastSet
<1>2. T # {}
  BY DEF Adds
<1>3. PICK x \in T : TRUE
  BY <1>2
<1>4. T \ {x} \notin Bad
  BY <1>1, <1>3
<1>5. g[T \ {x}] = h[T \ {x}]
  BY <1>4
<1>6. g[T] = w[x] + g[T \ {x}] /\ h[T] = v[x] + h[T \ {x}]
  BY <1>3 DEF Adds
<1>7. QED
  BY <1>5, <1>6

(***************************************************************************)
(* The bytes of a set of flows.                                            *)
(***************************************************************************)
Shown == [key : Keys, bytes : Nat]
Bytes(D) == MapThenSumSet(LAMBDA f : f.bytes, D)
BytesOf(D) == [f \in D |-> f.bytes]

LEMMA BytesAdd ==
    ASSUME NEW D \in SUBSET Shown, IsFiniteSet(D)
    PROVE  \E g : Adds(g, BytesOf(D), D) /\ Bytes(D) = g[D]
<1> DEFINE w == BytesOf(D)
<1> DEFINE it(g) == [s \in SUBSET D |-> IF s = {} THEN 0 ELSE Pick(s).bytes + g[s \ {Pick(s)}]]
<1>1. Bytes(D) = (CHOOSE h : h = it(h))[D]
  BY DEF Bytes, MapThenSumSet, MapThenFoldSet, Pick
<1>2. \A g : it(g) = [s \in SUBSET D |-> SumStep(g, w, s)]
  BY PickIn DEF SumStep, BytesOf
<1>3. PICK g : g = it(g)
  <2> HIDE DEF it, w
  <2>1. PICK g : Sums(g, w, D)
    BY SumsExist
  <2>2. g = it(g)
    BY <1>2, <2>1 DEF Sums
  <2>3. QED
    BY <2>2
<1>4. PICK h : h = it(h) /\ Bytes(D) = h[D]
  <2> HIDE DEF it
  <2> QED
    BY <1>1, <1>3, Zenon
<1>5. Sums(h, w, D)
  BY <1>2, <1>4 DEF Sums
<1>6. w \in [D -> Nat]
  BY DEF BytesOf, Shown
<1> HIDE DEF w
<1>7. QED
  BY <1>4, <1>5, <1>6, SumsAdd DEF w

LEMMA BytesOfNone == Bytes({}) = 0
<1>1. PICK g : Adds(g, BytesOf({}), {}) /\ Bytes({}) = g[{}]
  BY BytesAdd, FS_EmptySet
<1>2. QED
  BY <1>1 DEF Adds

LEMMA BytesPoint ==
    ASSUME NEW D \in SUBSET Shown, IsFiniteSet(D), NEW x \in D
    PROVE  /\ Bytes(D) \in Nat /\ Bytes(D \ {x}) \in Nat /\ x.bytes \in Nat
           /\ Bytes(D) = x.bytes + Bytes(D \ {x})
<1>1. PICK E \in SUBSET D : E = D \ {x}
  OBVIOUS
<1>2. E \in SUBSET Shown /\ IsFiniteSet(E)
  BY <1>1, FS_Subset
<1>3. PICK g : Adds(g, BytesOf(D), D) /\ Bytes(D) = g[D]
  BY BytesAdd
<1>4. PICK h : Adds(h, BytesOf(E), E) /\ Bytes(E) = h[E]
  BY <1>2, BytesAdd
<1>5. g[E] = h[E]
  <2>1. PICK w, v : w = BytesOf(D) /\ v = BytesOf(E)
    OBVIOUS
  <2>2. /\ IsFiniteSet(E) /\ E \subseteq E /\ \A f \in E : w[f] = v[f]
        /\ Adds(g, w, D) /\ Adds(h, v, E)
    BY <1>1, <1>2, <1>3, <1>4, <2>1 DEF BytesOf
  <2>3. QED
    BY ONLY <2>2, AddsAgree
<1>6. g[D] = x.bytes + g[E] /\ g[D] \in Nat /\ g[E] \in Nat
  BY <1>1, <1>3 DEF Adds, BytesOf
<1>7. QED
  BY <1>1, <1>3, <1>4, <1>5, <1>6 DEF Shown

-----------------------------------------------------------------------------
(***************************************************************************)
(* The largest first: no two flows have equally many before them, so that  *)
(* every place up to the size of the set is one flow's.                    *)
(***************************************************************************)
Earlier(D, f) == {g \in D : Before(g, f)}
Place(D) == [f \in D |-> Cardinality(Earlier(D, f)) + 1]

LEMMA BeforeOrders ==
    \A f, g, h \in Shown :
        /\ ~Before(f, f)
        /\ f # g => Before(f, g) \/ Before(g, f)
        /\ Before(f, g) /\ Before(g, h) => Before(f, h)
        /\ Before(f, g) => f.bytes >= g.bytes
<1> SUFFICES ASSUME NEW f \in Shown, NEW g \in Shown, NEW h \in Shown
             PROVE  /\ ~Before(f, f)
                    /\ f # g => Before(f, g) \/ Before(g, f)
                    /\ Before(f, g) /\ Before(g, h) => Before(f, h)
                    /\ Before(f, g) => f.bytes >= g.bytes
  OBVIOUS
<1>1. /\ f.bytes \in Nat /\ g.bytes \in Nat /\ h.bytes \in Nat
      /\ f.key \in Nat /\ g.key \in Nat /\ h.key \in Nat
  BY QueryAssumption DEF Shown
<1>2. f = [key |-> f.key, bytes |-> f.bytes] /\ g = [key |-> g.key, bytes |-> g.bytes]
  BY DEF Shown
<1>3. f.bytes = g.bytes /\ f.key = g.key => f = g
  BY <1>2, Zenon
<1>4. QED
  BY <1>1, <1>3 DEF Before

LEMMA PlaceGrows ==
    ASSUME NEW D \in SUBSET Shown, IsFiniteSet(D), NEW f \in D
    PROVE  /\ Place(D)[f] \in 1..Cardinality(D)
           /\ \A g \in D : Before(f, g) => Place(D)[f] < Place(D)[g]
<1>1. /\ Earlier(D, f) \in SUBSET (D \ {f})
      /\ \A g \in D : Before(f, g) => Earlier(D, f) \in SUBSET Earlier(D, g) /\ f \in Earlier(D, g)
  BY BeforeOrders DEF Earlier
<1>2. \A g \in D : /\ IsFiniteSet(Earlier(D, g)) /\ Cardinality(Earlier(D, g)) \in Nat
                   /\ Place(D)[g] = Cardinality(Earlier(D, g)) + 1
  BY FS_Subset, FS_CardinalityType DEF Earlier, Place
<1>3. /\ IsFiniteSet(D \ {f}) /\ Cardinality(D \ {f}) = Cardinality(D) - 1
      /\ Cardinality(D) \in Nat
  BY FS_RemoveElement, FS_CardinalityType
<1>4. Cardinality(Earlier(D, f)) <= Cardinality(D) - 1
  BY <1>1, <1>3, FS_Subset
<1>5. Place(D)[f] \in 1..Cardinality(D)
  BY <1>2, <1>3, <1>4
<1>6. ASSUME NEW g \in D, Before(f, g) PROVE Place(D)[f] < Place(D)[g]
  <2>1. /\ Cardinality(Earlier(D, f)) <= Cardinality(Earlier(D, g))
        /\ Cardinality(Earlier(D, f)) # Cardinality(Earlier(D, g))
    BY <1>1, <1>2, <1>6, FS_Subset
  <2>2. QED
    BY <1>2, <2>1
<1>7. QED
  BY <1>5, <1>6

LEMMA Sorted ==
    ASSUME NEW D \in SUBSET Shown, IsFiniteSet(D), NEW s, s = LargestFirst(D)
    PROVE  /\ Cardinality(D) \in Nat
           /\ s \in [1..Cardinality(D) -> D]
           /\ \A f \in D : \E i \in 1..Cardinality(D) : s[i] = f
           /\ \A i, j \in 1..Cardinality(D) : i < j => s[i].bytes >= s[j].bytes
<1> DEFINE n == Cardinality(D)
           p == Place(D)
<1>1. n \in Nat /\ Cardinality(1..n) = n /\ IsFiniteSet(1..n)
  BY FS_CardinalityType, FS_Interval
<1>2. \A f \in D : p[f] \in 1..n /\ \A g \in D : Before(f, g) => p[f] < p[g]
  BY PlaceGrows
<1>3. \A f, g \in D : p[f] = p[g] => f = g
  <2> SUFFICES ASSUME NEW f \in D, NEW g \in D, p[f] = p[g], f # g PROVE FALSE
    OBVIOUS
  <2>1. Before(f, g) \/ Before(g, f)
    BY BeforeOrders
  <2>2. p[f] \in Nat /\ p[g] \in Nat /\ (p[f] < p[g] \/ p[g] < p[f])
    BY <1>2, <2>1
  <2>3. QED
    BY <2>2
<1>4. \A f \in D : p[f] = Cardinality(Earlier(D, f)) + 1 /\ Cardinality(Earlier(D, f)) \in Nat
  BY FS_Subset, FS_CardinalityType DEF Earlier, Place
<1>5. \A i \in 1..n : \E f \in D : p[f] = i
  <2>1. p \in [D -> 1..n]
    BY <1>2 DEF Place
  <2> HIDE DEF n, p
  <2>2. p \in Injection(D, 1..n)
    BY <1>3, <2>1 DEF Injection, IsInjective
  <2>3. p \in Surjection(D, 1..n)
    BY <1>1, <2>2, FS_Injection DEF n
  <2>4. QED
    BY <2>3 DEF Surjection
<1>6. \A i \in 1..n : s[i] \in D /\ p[s[i]] = i
  <2> SUFFICES ASSUME NEW i \in 1..n PROVE s[i] \in D /\ p[s[i]] = i
    OBVIOUS
  <2>1. s[i] = CHOOSE f \in D : Cardinality(Earlier(D, f)) = i - 1
    BY DEF LargestFirst, Earlier
  <2>2. PICK f \in D : p[f] = i
    BY <1>5
  <2>3. Cardinality(Earlier(D, f)) = i - 1
    BY <1>4, <2>2
  <2>4. s[i] \in D /\ Cardinality(Earlier(D, s[i])) = i - 1
    BY <2>1, <2>3
  <2>5. QED
    BY <1>4, <2>4
<1>7. s \in [1..n -> D]
  BY <1>6 DEF LargestFirst
<1> HIDE DEF n, p
<1>8. \A f \in D : \E i \in 1..n : s[i] = f
  BY <1>2, <1>3, <1>6
<1>9. ASSUME NEW i \in 1..n, NEW j \in 1..n, i < j PROVE s[i].bytes >= s[j].bytes
  <2>1. s[i] \in D /\ s[j] \in D /\ p[s[i]] = i /\ p[s[j]] = j
    BY <1>6
  <2>2. ~ Before(s[j], s[i]) /\ s[i] # s[j]
    BY <1>2, <1>9, <2>1
  <2>3. QED
    BY <2>1, <2>2, BeforeOrders
<1>10. QED
  BY <1>1, <1>7, <1>8, <1>9 DEF n

(***************************************************************************)
(* A flow collected is in the reply, or the reply is full without it.      *)
(***************************************************************************)
LEMMA ReplyFacts ==
    ASSUME asked \in Requests, collected \in SUBSET Shown, IsFiniteSet(collected)
    PROVE  /\ Limit(asked) \in Nat /\ Limit(asked) <= MaxQueryLimit
           /\ Len(Reply) \in Nat /\ Len(Reply) <= Limit(asked)
           /\ \A i \in DOMAIN Reply : Reply[i] \in collected
           /\ \A f \in collected :
                 \/ \E i \in DOMAIN Reply : Reply[i] = f
                 \/ /\ Len(Reply) = Limit(asked)
                    /\ \A i \in DOMAIN Reply : Reply[i].bytes >= f.bytes
<1> DEFINE l == Limit(asked)
           n == Cardinality(collected)
<1>1. l \in Nat /\ l <= MaxQueryLimit
  BY QueryAssumption DEF Limit
<1>2. PICK s : s = LargestFirst(collected)
  OBVIOUS
<1>3. /\ n \in Nat /\ s \in [1..n -> collected]
      /\ \A f \in collected : \E i \in 1..n : s[i] = f
      /\ \A i, j \in 1..n : i < j => s[i].bytes >= s[j].bytes
  BY <1>2, Sorted
<1>4. PICK m \in Nat : m = (IF n < l THEN n ELSE l) /\ m <= n /\ m <= l
  BY <1>1, <1>3
<1>5. Len(Reply) = m /\ DOMAIN Reply = 1..m /\ \A i \in 1..m : Reply[i] = s[i]
  <2> HIDE DEF l, n
  <2>1. s \in Seq(collected) /\ Len(s) = n
    BY <1>3
  <2>2. Reply = SubSeq(s, 1, m)
    BY <1>2, <1>4, <2>1 DEF Reply, Cut, l
  <2>3. QED
    BY <1>3, <1>4, <2>1, <2>2
<1> HIDE DEF l, n
<1>6. ASSUME NEW f \in collected
      PROVE  \/ \E i \in DOMAIN Reply : Reply[i] = f
             \/ Len(Reply) = l /\ \A i \in DOMAIN Reply : Reply[i].bytes >= f.bytes
  <2>1. PICK j \in 1..n : s[j] = f
    BY <1>3
  <2>2. CASE j \in 1..m
    BY <1>5, <2>1, <2>2
  <2>3. CASE j \notin 1..m
    <3>1. m = l /\ \A i \in 1..m : i \in 1..n /\ i < j
      BY <1>1, <1>3, <1>4, <2>3
    <3>2. QED
      BY <1>3, <1>5, <2>1, <3>1
  <2>4. QED
    BY <2>2, <2>3
<1>7. \A i \in DOMAIN Reply : Reply[i] \in collected
  BY <1>3, <1>4, <1>5
<1>8. QED
  BY <1>1, <1>4, <1>5, <1>6, <1>7 DEF l

-----------------------------------------------------------------------------
QueryTypes ==
    /\ flows \in [DOMAIN flows -> Flow] /\ DOMAIN flows \subseteq Keys
    /\ now \in Nat /\ recorded \in Nat
    /\ asked \in Requests \cup {NoRequest}
    /\ todo \subseteq Keys
    /\ collected \subseteq Shown /\ IsFiniteSet(collected)
    /\ kept \in [DOMAIN kept -> Nat]

\* What get_flows would collect of the keys of T if it visited them now.
Entries(table, T) == {[key |-> k, bytes |-> table[k].packets] : k \in T \cap DOMAIN table}

(***************************************************************************)
(* What was collected and what is still ahead were booked.  A flow that    *)
(* was passed is not counted a second time when it comes back: its key is  *)
(* no longer ahead.                                                        *)
(***************************************************************************)
BytesInv ==
    /\ \A f \in collected : f.key \notin todo
    /\ Bytes(collected \cup Entries(flows, todo)) <= recorded
    /\ Bytes(Entries(flows, Keys)) <= recorded

(***************************************************************************)
(* A flow that stayed has not lost packets, and is collected once passed.  *)
(***************************************************************************)
KeptInv ==
    /\ ~Asking => collected = {}
    /\ \A k \in DOMAIN kept : k \in DOMAIN flows /\ kept[k] <= flows[k].packets
    /\ \A f \in collected : f.key \in DOMAIN kept => kept[f.key] <= f.bytes
    /\ \A k \in DOMAIN kept \ todo : Matches(asked, k) => \E f \in collected : f.key = k

QueryInv == QueryTypes /\ BytesInv /\ KeptInv

(***************************************************************************)
(* What a step of the ledger does to its flows.                            *)
(***************************************************************************)
Booked(k) == k \in Keys /\ flows' = Touch(flows, k, now) /\ recorded' = recorded + 1
Gone(k) == k \in DOMAIN flows /\ flows' = Without(flows, k) /\ recorded' = recorded
Idle == flows' = flows /\ recorded' = recorded

LEMMA LedgerSteps ==
    ASSUME QueryTypes, Next
    PROVE  /\ Idle \/ \E k \in Keys : Booked(k) \/ Gone(k)
           /\ now' \in Nat
  BY DEF QueryTypes, Next, Record, Evict, Expire, Forget, Tick, Booked, Gone, Idle

LEMMA LedgerKeeps ==
    ASSUME QueryTypes, Next
    PROVE  /\ flows' \in [DOMAIN flows' -> Flow] /\ DOMAIN flows' \subseteq Keys
           /\ recorded' \in Nat /\ now' \in Nat
           /\ \A k \in DOMAIN flows \cap DOMAIN flows' : flows[k].packets <= flows'[k].packets
<1>1. CASE Idle
  BY <1>1, LedgerSteps DEF QueryTypes, Idle, Flow
<1>2. ASSUME NEW k \in Keys, Booked(k)
      PROVE  /\ flows' \in [DOMAIN flows' -> Flow] /\ DOMAIN flows' \subseteq Keys
             /\ recorded' \in Nat
             /\ \A j \in DOMAIN flows \cap DOMAIN flows' : flows[j].packets <= flows'[j].packets
  <2>1. /\ DOMAIN flows' = DOMAIN flows \cup {k}
        /\ \A j \in DOMAIN flows' :
              flows'[j] = IF j # k THEN flows[j]
                          ELSE [packets   |-> IF k \in DOMAIN flows THEN flows[k].packets + 1 ELSE 1,
                                last_seen |-> now]
        /\ flows' = [j \in DOMAIN flows' |-> flows'[j]]
    BY <1>2 DEF Booked, Touch
  <2>2. \A j \in DOMAIN flows : flows[j] \in Flow /\ flows[j].packets \in Nat
    BY DEF QueryTypes, Flow
  <2>3. \A j \in DOMAIN flows' : flows'[j] \in Flow
    BY <2>1, <2>2 DEF QueryTypes, Flow
  <2>4. QED
    BY <1>2, <2>1, <2>2, <2>3 DEF Booked, QueryTypes
<1>3. ASSUME NEW k \in Keys, Gone(k)
      PROVE  /\ flows' \in [DOMAIN flows' -> Flow] /\ DOMAIN flows' \subseteq Keys
             /\ recorded' \in Nat
             /\ \A j \in DOMAIN flows \cap DOMAIN flows' : flows[j].packets <= flows'[j].packets
  BY <1>3 DEF QueryTypes, Gone, Without, Flow
<1>4. QED
  BY <1>1, <1>2, <1>3, LedgerSteps

(***************************************************************************)
(* A packet booked adds one to the bytes in view, at most; a flow that     *)
(* leaves takes its own with it.                                           *)
(***************************************************************************)
LEMMA EntriesFinite ==
    ASSUME QueryTypes, NEW C \in SUBSET Shown, IsFiniteSet(C), NEW T \in SUBSET Keys
    PROVE  /\ C \cup Entries(flows, T) \in SUBSET Shown
           /\ IsFiniteSet(C \cup Entries(flows, T))
<1> DEFINE E == Entries(flows, T)
<1>1. E \in SUBSET Shown
  BY DEF QueryTypes, Entries, Shown, Flow
<1>2. IsFiniteSet(E)
  <2> DEFINE at == [k \in T \cap DOMAIN flows |-> [key |-> k, bytes |-> flows[k].packets]]
  <2>1. IsFiniteSet(T \cap DOMAIN flows)
    BY QueryAssumption, FS_Subset
  <2>2. at \in Surjection(T \cap DOMAIN flows, E)
    BY DEF Surjection, Entries
  <2> HIDE DEF E, at
  <2>3. QED
    BY <2>1, <2>2, FS_Surjection
<1> HIDE DEF E
<1>3. QED
  BY <1>1, <1>2, FS_Union DEF E

LEMMA OneMore ==
    ASSUME NEW D \in SUBSET Shown, IsFiniteSet(D), NEW y \in Shown \ D
    PROVE  /\ D \cup {y} \in SUBSET Shown /\ IsFiniteSet(D \cup {y})
           /\ Bytes(D) \in Nat /\ Bytes(D \cup {y}) = y.bytes + Bytes(D)
<1>1. PICK U \in SUBSET Shown : U = D \cup {y}
  OBVIOUS
<1>2. IsFiniteSet(U) /\ y \in U /\ U \ {y} = D
  BY <1>1, FS_AddElement
<1>3. Bytes(U) = y.bytes + Bytes(U \ {y}) /\ Bytes(U \ {y}) \in Nat
  BY <1>2, BytesPoint
<1>4. QED
  BY <1>1, <1>2, <1>3

LEMMA LedgerBytes ==
    ASSUME QueryTypes, Next, NEW C \in SUBSET Shown, IsFiniteSet(C), NEW T \in SUBSET Keys,
           \A f \in C : f.key \notin T,
           Bytes(C \cup Entries(flows, T)) <= recorded
    PROVE  Bytes(C \cup Entries(flows', T)) <= recorded'
<1>1. PICK D, D1 : D = C \cup Entries(flows, T) /\ D1 = C \cup Entries(flows', T)
  OBVIOUS
<1>2. D \in SUBSET Shown /\ IsFiniteSet(D) /\ Bytes(D) <= recorded /\ recorded \in Nat
  BY <1>1, EntriesFinite DEF QueryTypes
<1>3. Bytes(D) \in Nat
  <2>1. CASE D = {}
    BY <2>1, BytesOfNone
  <2>2. CASE D # {}
    BY <1>2, <2>2, BytesPoint
  <2>3. QED
    BY <2>1, <2>2
<1>4. CASE Idle
  BY <1>1, <1>2, <1>4 DEF Idle
<1>5. ASSUME NEW k \in DOMAIN flows \cap T
      PROVE  \E x \in D : /\ x = [key |-> k, bytes |-> flows[k].packets]
                         /\ D \ {x} = C \cup Entries(flows, T \ {k})
                         /\ \A f \in D \ {x} : f.key # k
  <2>1. PICK x : x = [key |-> k, bytes |-> flows[k].packets]
    OBVIOUS
  <2>2. \A f \in Entries(flows, T \ {k}) : f.key # k
    BY DEF Entries
  <2>3. Entries(flows, T) = Entries(flows, T \ {k}) \cup {x}
    BY <2>1 DEF Entries
  <2>4. x.key = k /\ x \notin C
    BY <2>1
  <2>5. /\ D \ {x} = C \cup Entries(flows, T \ {k}) /\ x \in D
        /\ \A f \in D \ {x} : f.key # k
    BY <1>1, <2>2, <2>3, <2>4
  <2>6. QED
    BY <2>1, <2>5
<1>6. ASSUME NEW k \in Keys, Booked(k) PROVE Bytes(D1) <= recorded'
  <2>1. /\ DOMAIN flows' = DOMAIN flows \cup {k} /\ recorded' = recorded + 1
        /\ \A j \in DOMAIN flows \ {k} : flows'[j] = flows[j]
        /\ flows'[k].packets = IF k \in DOMAIN flows THEN flows[k].packets + 1 ELSE 1
    BY <1>6 DEF Booked, Touch
  <2>2. Entries(flows', T \ {k}) = Entries(flows, T \ {k})
    BY <2>1 DEF Entries
  <2>3. CASE k \notin T
    <3>1. T \ {k} = T
      BY <2>3
    <3>2. D1 = D
      BY <1>1, <2>2, <3>1
    <3>3. QED
      BY <1>2, <1>3, <2>1, <3>2
  <2>4. CASE k \in T
    <3>1. PICK y \in Shown : y = [key |-> k, bytes |-> flows'[k].packets]
      <4>1. flows'[k].packets \in Nat
        BY <2>1, LedgerKeeps DEF Flow
      <4>2. QED
        BY <4>1 DEF Shown
    <3>2. D1 = (C \cup Entries(flows, T \ {k})) \cup {y}
      <4>1. Entries(flows', T) = Entries(flows', T \ {k}) \cup {y}
        BY <2>1, <2>4, <3>1 DEF Entries
      <4>2. QED
        BY <1>1, <2>2, <4>1
    <3>3. CASE k \in DOMAIN flows
      <4>1. PICK x \in D : /\ x = [key |-> k, bytes |-> flows[k].packets]
                           /\ D \ {x} = C \cup Entries(flows, T \ {k})
                           /\ \A f \in D \ {x} : f.key # k
        BY <1>5, <2>4, <3>3
      <4>2. PICK R \in SUBSET Shown : R = D \ {x} /\ IsFiniteSet(R) /\ y \notin R
        <5>1. IsFiniteSet(D \ {x}) /\ D \ {x} \in SUBSET Shown
          BY <1>2, FS_Subset
        <5>2. y.key = k
          BY <3>1
        <5>3. y \notin D \ {x}
          BY <4>1, <5>2
        <5>4. QED
          BY <5>1, <5>3
      <4>3. Bytes(R \cup {y}) = y.bytes + Bytes(R) /\ Bytes(R) \in Nat
        BY <4>2, OneMore
      <4>4. Bytes(D) = x.bytes + Bytes(R) /\ x.bytes \in Nat
        BY <1>2, <4>2, BytesPoint
      <4>5. y.bytes = x.bytes + 1 /\ D1 = R \cup {y}
        BY <2>1, <3>1, <3>2, <3>3, <4>1, <4>2
      <4>6. QED
        BY <1>2, <2>1, <4>3, <4>4, <4>5
    <3>4. CASE k \notin DOMAIN flows
      <4>1. D1 = D \cup {y} /\ y.bytes = 1
        <5>1. Entries(flows, T \ {k}) = Entries(flows, T)
          BY <3>4 DEF Entries
        <5>2. QED
          BY <1>1, <2>1, <3>1, <3>2, <3>4, <5>1
      <4>2. y \notin D
        BY <1>1, <2>4, <3>1, <3>4 DEF Entries
      <4>3. Bytes(D \cup {y}) = y.bytes + Bytes(D)
        BY <1>2, <4>2, OneMore
      <4>4. QED
        BY <1>2, <1>3, <2>1, <4>1, <4>3
    <3>5. QED
      BY <3>3, <3>4
  <2>5. QED
    BY <2>3, <2>4
<1>7. ASSUME NEW k \in Keys, Gone(k) PROVE Bytes(D1) <= recorded'
  <2>1. /\ DOMAIN flows' = DOMAIN flows \ {k} /\ recorded' = recorded /\ k \in DOMAIN flows
        /\ \A j \in DOMAIN flows \ {k} : flows'[j] = flows[j]
    BY <1>7 DEF Gone, Without
  <2>2. Entries(flows', T) = Entries(flows, T \ {k})
    BY <2>1 DEF Entries
  <2>3. CASE k \notin T
    <3>1. T \ {k} = T
      BY <2>3
    <3>2. QED
      BY <1>1, <1>2, <2>1, <2>2, <3>1
  <2>4. CASE k \in T
    <3>1. PICK x \in D : D \ {x} = C \cup Entries(flows, T \ {k})
      BY <1>5, <2>1, <2>4
    <3>2. D1 = D \ {x}
      BY <1>1, <2>2, <3>1
    <3>3. Bytes(D) = x.bytes + Bytes(D1) /\ x.bytes \in Nat /\ Bytes(D1) \in Nat
      BY <1>2, <3>2, BytesPoint
    <3>4. QED
      BY <1>2, <2>1, <3>3
  <2>5. QED
    BY <2>3, <2>4
<1>8. QED
  BY <1>1, <1>4, <1>6, <1>7, LedgerSteps

(***************************************************************************)
(* One step of the invariant for each action.                              *)
(***************************************************************************)
LEMMA InitQueryInv == QueryInit => QueryInv
<1> SUFFICES ASSUME QueryInit PROVE QueryInv
  OBVIOUS
<1>1. QueryTypes
  BY FS_EmptySet DEF QueryInit, Init, QueryTypes, Flow
<1>2. collected = {} /\ todo = {} /\ DOMAIN kept = {} /\ DOMAIN flows = {} /\ recorded = 0
  BY DEF QueryInit, Init
<1>3. collected \cup Entries(flows, todo) = {} /\ Entries(flows, Keys) = {}
  BY <1>2 DEF Entries
<1>4. BytesInv
  <2>1. Bytes(collected \cup Entries(flows, todo)) = 0 /\ Bytes(Entries(flows, Keys)) = 0
    BY <1>3, BytesOfNone
  <2>2. QED
    BY <1>2, <2>1 DEF BytesInv
<1>5. KeptInv
  BY <1>2 DEF KeptInv
<1>6. QED
  BY <1>1, <1>4, <1>5 DEF QueryInv

LEMMA BookInv == QueryInv /\ Book => QueryInv'
<1> SUFFICES ASSUME QueryInv, Book PROVE QueryInv'
  OBVIOUS
<1>1. /\ QueryTypes /\ BytesInv /\ KeptInv /\ Next /\ UNCHANGED <<asked, todo, collected>>
      /\ DOMAIN kept' = DOMAIN kept \cap DOMAIN flows' /\ \A k \in DOMAIN kept' : kept'[k] = kept[k]
      /\ kept' = [k \in DOMAIN kept' |-> kept'[k]]
  BY DEF Book, QueryInv
<1>2. /\ flows' \in [DOMAIN flows' -> Flow] /\ DOMAIN flows' \subseteq Keys
      /\ recorded' \in Nat /\ now' \in Nat
      /\ \A k \in DOMAIN flows \cap DOMAIN flows' : flows[k].packets <= flows'[k].packets
  BY <1>1, LedgerKeeps
<1>3. QueryTypes'
  BY <1>1, <1>2 DEF QueryTypes
<1>4. BytesInv'
  <2>1. Bytes(collected \cup Entries(flows', todo)) <= recorded'
    BY <1>1, LedgerBytes DEF QueryTypes, BytesInv
  <2>2. Bytes({} \cup Entries(flows', Keys)) <= recorded'
    <3>1. {} \cup Entries(flows, Keys) = Entries(flows, Keys)
      OBVIOUS
    <3>2. Bytes({} \cup Entries(flows, Keys)) <= recorded
      BY <1>1, <3>1 DEF BytesInv
    <3>3. QED
      BY <1>1, <3>2, LedgerBytes, FS_EmptySet
  <2>3. {} \cup Entries(flows', Keys) = Entries(flows', Keys)
    OBVIOUS
  <2>4. QED
    BY <1>1, <2>1, <2>2, <2>3 DEF BytesInv
<1>5. KeptInv'
  <2>1. \A k \in DOMAIN kept' : k \in DOMAIN flows' /\ kept'[k] <= flows'[k].packets
    <3> SUFFICES ASSUME NEW k \in DOMAIN kept'
                 PROVE  k \in DOMAIN flows' /\ kept'[k] <= flows'[k].packets
      OBVIOUS
    <3>1. k \in DOMAIN flows' /\ k \in DOMAIN flows /\ kept'[k] = kept[k]
          /\ kept[k] <= flows[k].packets /\ flows[k].packets <= flows'[k].packets
      BY <1>1, <1>2 DEF KeptInv
    <3>2. kept[k] \in Nat /\ flows[k] \in Flow /\ flows'[k] \in Flow
      BY <1>1, <1>2, <3>1 DEF QueryTypes
    <3>3. QED
      BY <3>1, <3>2 DEF Flow
  <2>2. QED
    BY <1>1, <2>1 DEF KeptInv, Asking, Matches
<1>6. QED
  BY <1>3, <1>4, <1>5 DEF QueryInv

LEMMA AskInv ==
    ASSUME QueryInv, NEW req \in Requests, QueryFlows(req)
    PROVE  QueryInv'
<1>1. /\ QueryTypes /\ BytesInv /\ KeptInv /\ UNCHANGED <<flows, now, recorded>>
      /\ asked' = req /\ todo' = Keys /\ collected' = collected /\ collected = {}
      /\ kept' = [k \in DOMAIN flows |-> flows[k].packets]
  BY DEF QueryInv, KeptInv, QueryFlows, vars
<1>2. \A k \in DOMAIN flows : k \in Keys /\ flows[k].packets \in Nat
  BY <1>1 DEF QueryTypes, Flow
<1>3. QueryTypes'
  BY <1>1, <1>2 DEF QueryTypes
<1>4. BytesInv'
  <2>1. collected' \cup Entries(flows', todo') = Entries(flows, Keys)
    BY <1>1
  <2>2. Bytes(collected' \cup Entries(flows', todo')) <= recorded'
    BY <1>1, <2>1 DEF BytesInv
  <2>3. QED
    BY <1>1, <2>2 DEF BytesInv
<1>5. KeptInv'
  BY <1>1, <1>2 DEF KeptInv
<1>6. QED
  BY <1>3, <1>4, <1>5 DEF QueryInv

LEMMA VisitInv == QueryInv /\ Visit => QueryInv'
<1> SUFFICES ASSUME QueryInv, Visit PROVE QueryInv'
  OBVIOUS
<1>1. /\ QueryTypes /\ BytesInv /\ KeptInv /\ Asking /\ todo # {}
      /\ UNCHANGED <<flows, now, recorded, asked, kept>>
  BY DEF QueryInv, Visit, vars
<1>2. PICK k \in todo :
        /\ todo' = todo \ {k}
        /\ collected' = IF k \in DOMAIN flows /\ Matches(asked, k)
                        THEN collected \cup {[key |-> k, bytes |-> flows[k].packets]}
                        ELSE collected
  <2>1. PICK m \in todo : \A i \in todo : m <= i
    BY <1>1, LeastNat, QueryAssumption DEF QueryTypes
  <2>2. (CHOOSE j \in todo : \A i \in todo : j <= i) \in todo
    BY <2>1
  <2>3. QED
    BY <2>2 DEF Visit
<1>3. PICK y : y = [key |-> k, bytes |-> flows[k].packets]
  OBVIOUS
<1>4. y.key = k /\ y \notin collected /\ k \in Keys
  BY <1>1, <1>2, <1>3 DEF BytesInv, QueryTypes
<1>5. k \in DOMAIN flows => y \in Shown /\ y.bytes = flows[k].packets
  BY <1>1, <1>3, <1>4 DEF QueryTypes, Shown, Flow
<1>6. /\ collected' \subseteq Shown /\ IsFiniteSet(collected')
      /\ \A f \in collected' : f \in collected \/ (f = y /\ k \in DOMAIN flows)
      /\ collected \subseteq collected'
  <2>1. IsFiniteSet(collected \cup {y})
    BY <1>1, FS_AddElement DEF QueryTypes
  <2>2. QED
    BY <1>1, <1>2, <1>3, <1>5, <2>1 DEF QueryTypes
<1>7. QueryTypes'
  BY <1>1, <1>2, <1>6 DEF QueryTypes
<1>8. BytesInv'
  <2>1. PICK D, D1 : D = collected \cup Entries(flows, todo) /\ D1 = collected' \cup Entries(flows, todo')
    OBVIOUS
  <2>2. D \in SUBSET Shown /\ IsFiniteSet(D) /\ Bytes(D) <= recorded /\ recorded \in Nat
    BY <1>1, <2>1, EntriesFinite DEF QueryTypes, BytesInv
  <2>3. Bytes(D1) <= recorded
    <3>1. CASE k \in DOMAIN flows
      <4>1. Entries(flows, todo) = Entries(flows, todo \ {k}) \cup {y}
        BY <1>2, <1>3, <3>1 DEF Entries
      <4>2. y \notin Entries(flows, todo \ {k})
        BY <1>4 DEF Entries
      <4>3. y \in D /\ (D1 = D \/ D1 = D \ {y})
        BY <1>2, <1>3, <1>4, <2>1, <4>1, <4>2
      <4>4. Bytes(D) = y.bytes + Bytes(D \ {y}) /\ y.bytes \in Nat /\ Bytes(D \ {y}) \in Nat
        BY <2>2, <4>3, BytesPoint
      <4>5. CASE D1 = D
        BY <2>2, <4>5
      <4>6. CASE D1 = D \ {y}
        <5>1. Bytes(D1) = Bytes(D \ {y})
          BY <4>6
        <5>2. QED
          BY <2>2, <4>4, <5>1
      <4>7. QED
        BY <4>3, <4>5, <4>6
    <3>2. CASE k \notin DOMAIN flows
      <4>1. Entries(flows, todo \ {k}) = Entries(flows, todo)
        BY <3>2 DEF Entries
      <4>2. D1 = D
        BY <1>2, <2>1, <3>2, <4>1
      <4>3. QED
        BY <2>2, <4>2
    <3>3. QED
      BY <3>1, <3>2
  <2>4. \A f \in collected' : f.key \notin todo'
    BY <1>1, <1>2, <1>4, <1>6 DEF BytesInv
  <2>5. QED
    BY <1>1, <2>1, <2>3, <2>4 DEF BytesInv
<1>9. KeptInv'
  <2>1. \A f \in collected' : f.key \in DOMAIN kept => kept[f.key] <= f.bytes
    BY <1>1, <1>4, <1>5, <1>6 DEF KeptInv
  <2>2. ASSUME NEW j \in DOMAIN kept \ todo', Matches(asked, j)
        PROVE  \E f \in collected' : f.key = j
    <3>1. CASE j = k
      BY <1>1, <1>2, <1>3, <1>4, <2>2, <3>1 DEF KeptInv
    <3>2. CASE j # k
      BY <1>1, <1>2, <1>6, <2>2, <3>2 DEF KeptInv
    <3>3. QED
      BY <3>1, <3>2
  <2>3. \A j \in DOMAIN kept \ todo' : Matches(asked, j)' => \E f \in collected' : f.key = j
    BY <1>1, <2>2 DEF Matches
  <2>4. Asking'
    BY <1>1 DEF Asking
  <2>5. QED
    BY <1>1, <2>1, <2>3, <2>4 DEF KeptInv
<1>10. QED
  BY <1>7, <1>8, <1>9 DEF QueryInv

LEMMA SendInv == QueryInv /\ SendReply => QueryInv'
<1> SUFFICES ASSUME QueryInv, SendReply PROVE QueryInv'
  OBVIOUS
<1>1. /\ QueryTypes /\ BytesInv /\ UNCHANGED <<flows, now, recorded, todo>> /\ todo = {}
      /\ asked' = NoRequest /\ collected' = {} /\ kept' = <<>> /\ DOMAIN kept' = {}
  BY DEF QueryInv, SendReply, Walked, vars
<1>2. QueryTypes'
  BY <1>1, FS_EmptySet DEF QueryTypes
<1>3. BytesInv'
  <2>1. collected' \cup Entries(flows', todo') = {}
    BY <1>1 DEF Entries
  <2>2. Bytes(collected' \cup Entries(flows', todo')) = 0 /\ recorded' \in Nat
    BY <1>1, <2>1, BytesOfNone DEF QueryTypes
  <2>3. QED
    BY <1>1, <2>2 DEF BytesInv
<1>4. KeptInv'
  BY <1>1 DEF KeptInv
<1>5. QED
  BY <1>2, <1>3, <1>4 DEF QueryInv

LEMMA StepQueryInv == QueryInv /\ [QueryNext]_allVars => QueryInv'
<1> SUFFICES ASSUME QueryInv, [QueryNext]_allVars PROVE QueryInv'
  OBVIOUS
<1>1. CASE Book
  BY <1>1, BookInv
<1>2. ASSUME NEW req \in Requests, QueryFlows(req) PROVE QueryInv'
  BY <1>2, AskInv
<1>3. CASE Visit
  BY <1>3, VisitInv
<1>4. CASE SendReply
  BY <1>4, SendInv
<1>5. CASE UNCHANGED allVars
  BY <1>5 DEF allVars, queryVars, vars, QueryInv, QueryTypes, BytesInv, KeptInv, Asking, Matches
<1>6. QED
  BY <1>1, <1>2, <1>3, <1>4, <1>5 DEF QueryNext

LEMMA QueryInvHolds == QuerySpec => []QueryInv
  BY InitQueryInv, StepQueryInv, PTL DEF QuerySpec

(***************************************************************************)
(* get_flows and query_flows: a reply shows no more packets than were      *)
(* booked, of a flow that stayed no fewer than it had at the request, and  *)
(* no more flows than max_query_limit.                                     *)
(***************************************************************************)
THEOREM CountsHold == QuerySpec => []ReplyCounts
<1>1. QueryInv => ReplyCounts
  <2> SUFFICES ASSUME QueryInv, Walked PROVE ReplyCounts
    BY DEF ReplyCounts
  <2>1. QueryTypes /\ BytesInv /\ KeptInv /\ todo = {} /\ asked \in Requests
    BY DEF QueryInv, QueryTypes, Walked, Asking
  <2>2. collected \cup Entries(flows, todo) = collected
    BY <2>1 DEF Entries
  <2>3. MapThenSumSet(LAMBDA f : f.bytes, collected) <= recorded
    BY <2>1, <2>2 DEF BytesInv, Bytes
  <2>4. Len(Reply) \in Nat /\ Len(Reply) <= Limit(asked) /\ Limit(asked) \in Nat
        /\ Limit(asked) <= MaxQueryLimit
    BY <2>1, ReplyFacts DEF QueryTypes
  <2>5. Len(Reply) <= MaxQueryLimit
    BY <2>4, QueryAssumption
  <2>6. QED
    BY <2>1, <2>3, <2>5 DEF ReplyCounts, KeptInv
<1>2. QED
  BY <1>1, QueryInvHolds, PTL

(***************************************************************************)
(* get_flows and query_flows: a flow that was asked for and stayed is in   *)
(* the reply, unless the reply is full of flows at least as large as it    *)
(* was at the request.                                                     *)
(***************************************************************************)
THEOREM NothingMissed == QuerySpec => []NoneMissed
<1>1. QueryInv => NoneMissed
  <2> SUFFICES ASSUME QueryInv, Walked, NEW k \in DOMAIN kept, Matches(asked, k)
               PROVE  \/ \E i \in DOMAIN Reply : Reply[i].key = k
                      \/ /\ Len(Reply) = Limit(asked)
                         /\ \A i \in DOMAIN Reply : Reply[i].bytes >= kept[k]
    BY DEF NoneMissed
  <2>1. QueryTypes /\ KeptInv /\ todo = {} /\ asked \in Requests
    BY DEF QueryInv, QueryTypes, Walked, Asking
  <2>2. PICK f \in collected : f.key = k /\ kept[k] <= f.bytes
    BY <2>1 DEF KeptInv
  <2>3. CASE \E i \in DOMAIN Reply : Reply[i] = f
    BY <2>2, <2>3
  <2>4. CASE Len(Reply) = Limit(asked) /\ \A i \in DOMAIN Reply : Reply[i].bytes >= f.bytes
    <3>1. \A i \in DOMAIN Reply : Reply[i].bytes \in Nat
      BY <2>1, ReplyFacts DEF QueryTypes, Shown
    <3>2. f.bytes \in Nat /\ kept[k] \in Nat
      BY <2>1 DEF QueryTypes, Shown
    <3>3. \A i \in DOMAIN Reply : Reply[i].bytes >= kept[k]
      BY <2>2, <2>4, <3>1, <3>2
    <3>4. QED
      BY <2>4, <3>3
  <2>5. QED
    BY <2>1, <2>3, <2>4, ReplyFacts DEF QueryTypes
<1>2. QED
  BY <1>1, QueryInvHolds, PTL
=============================================================================
