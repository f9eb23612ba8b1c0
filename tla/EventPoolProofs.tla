-------------------------- MODULE EventPoolProofs --------------------------
(***************************************************************************)
(* That the linked nodes of interrupt.c implement the queue of QueueSpec,  *)
(* and that none of the nodes is lost or handed out twice, for every       *)
(* capacity of the pool, every range of Count and every set of types and   *)
(* delays.                                                                 *)
(*                                                                         *)
(* The invariant names the sequence p of the nodes in the list (Good).  It *)
(* makes the three loops over the links computable: what they reach is     *)
(* p (LinkedPath, ListPath, StopPath).  Linking a free node behind the     *)
(* k-th and unlinking the k-th are then an insertion into p and a removal  *)
(* from it (LinkNode, UnlinkNode), and each operation is one of these at   *)
(* the place where the sequence of events changes (AddNode, DropNode,      *)
(* PopNode, PushNode, InitNodes, TranslateNodes, LoadNodes).               *)
(***************************************************************************)
EXTENDS EventPool, TLAPS, SequenceTheorems, FiniteSetTheorems, WellFoundedInduction

Event(m, e) == [type |-> m.nodes[e].type, count |-> m.nodes[e].count]

Nth(p, i) == IF i <= Len(p) THEN p[i] ELSE NULL

Pools ==
    [nodes : [Nodes -> [type : Q!EventTypes \cup Types \cup {"free"}, count : Q!Counts,
                        next : Nodes \cup {NULL}]],
     free : Seq(Nodes), first : Nodes \cup {NULL}, next_interrupt : Q!Counts,
     special_done : BOOLEAN, failed : BOOLEAN]

Distinct(p) == \A i, j \in 1 .. Len(p) : p[i] = p[j] => i = j

\* The list of m is the nodes p; a node that is not in it links to nothing.
Chain(m, p) ==
    /\ m \in Pools
    /\ p \in Seq(Nodes)
    /\ Distinct(p)
    /\ m.first = Nth(p, 1)
    /\ \A i \in 1 .. Len(p) : m.nodes[p[i]].next = Nth(p, i + 1)
    /\ \A e \in Nodes : (\A i \in 1 .. Len(p) : p[i] # e) => m.nodes[e].next = NULL
-----------------------------------------------------------------------------
\* A set of naturals that is not empty has a least element, the form in which this
\* module argues by induction.
LEMMA LeastExists ==
    ASSUME NEW T, T \subseteq Nat, T # {}
    PROVE  \E x \in T : \A y \in T : x <= y
  <1>1. PICK x \in T : \A y \in T : ~ (<<y, x>> \in OpToRel(<, Nat))
    BY NatLessThanWellFounded, WFMin
  <1>2. \A y \in T : ~ (y < x)
    BY <1>1, Zenon DEF OpToRel
  <1>. QED  BY <1>2

\* A set of places that is not empty has a greatest element.
LEMMA GreatestExists ==
    ASSUME NEW n \in Nat, NEW T, T \subseteq 1 .. n, T # {}
    PROVE  \E x \in T : \A y \in T : y <= x
  <1>. DEFINE S == {k \in Nat : n - k \in T}
  <1>1. S # {}
    <2>1. PICK x \in T : TRUE
      OBVIOUS
    <2>2. n - x \in Nat /\ n - (n - x) = x
      OBVIOUS
    <2>. QED  BY <2>1, <2>2
  <1>2. PICK k \in S : \A l \in S : k <= l
    BY <1>1, LeastExists
  <1>3. ASSUME NEW y \in T PROVE y <= n - k
    <2>1. n - y \in Nat /\ n - (n - y) = y
      OBVIOUS
    <2>2. n - y \in S
      BY <2>1
    <2>. QED  BY <1>2, <2>2, SMTT(60)
  <1>. QED  BY <1>2, <1>3

\* Linked and ListNodes satisfy the equations that define them.
LinkedEq(m, f) ==
    f = [e \in Nodes \cup {NULL} |->
            IF e = NULL THEN << >>
            ELSE <<[type |-> m.nodes[e].type, count |-> m.nodes[e].count]>>
                    \o f[m.nodes[e].next]]

\* Linked reads its value off some solution of its equation, if there is one.
LEMMA LinkedChoice ==
    ASSUME NEW m, \E f : LinkedEq(m, f)
    PROVE  \E f : LinkedEq(m, f) /\ Linked(m) = f[m.first]
  <1>. DEFINE g == CHOOSE f : LinkedEq(m, f)
  <1>1. LinkedEq(m, g)
    OBVIOUS
  <1>2. Linked(m) = g[m.first]
    BY DEF Linked, LinkedEq
  <1>. QED  BY <1>1, <1>2

StopEq(m, passed, f) ==
    f = [e \in Nodes |-> IF m.nodes[e].next \in passed THEN f[m.nodes[e].next] ELSE e]

\* So does StopAt.
LEMMA StopChoice ==
    ASSUME NEW m, NEW passed, \E f : StopEq(m, passed, f)
    PROVE  \E f : StopEq(m, passed, f) /\ \A e : StopAt(m, e, passed) = f[e]
  <1>. DEFINE g == CHOOSE f : StopEq(m, passed, f)
  <1>1. StopEq(m, passed, g)
    OBVIOUS
  <1>2. ASSUME NEW e PROVE StopAt(m, e, passed) = g[e]
    BY DEF StopAt, StopEq
  <1>. QED  BY <1>1, <1>2
-----------------------------------------------------------------------------
PoolEvents == [type : Q!EventTypes \cup Types \cup {"free"}, count : Q!Counts]

\* The events of the nodes of p from the i-th on.
From(m, p, i) == [j \in 1 .. Len(p) - i + 1 |-> Event(m, p[i + j - 1])]

\* Where the node e is in p.
Place(p, e) == CHOOSE i \in 1 .. Len(p) : p[i] = e

On(p, e) == \E i \in 1 .. Len(p) : p[i] = e

\* The i-th node of the list is at place i only.
LEMMA PlaceOn ==
    ASSUME NEW m, NEW p, Chain(m, p), NEW i \in 1 .. Len(p)
    PROVE  On(p, p[i]) /\ Place(p, p[i]) = i
  <1>1. On(p, p[i])
    BY DEF On
  <1>2. Place(p, p[i]) \in 1 .. Len(p) /\ p[Place(p, p[i])] = p[i]
    BY <1>1 DEF Place, On
  <1>. QED  BY <1>1, <1>2 DEF Chain, Distinct

\* What the links of a list say of its nodes.
LEMMA ChainFacts ==
    ASSUME NEW m, NEW p, Chain(m, p)
    PROVE  /\ Len(p) \in Nat
           /\ \A i \in 1 .. Len(p) : p[i] \in Nodes /\ p[i] # NULL
           /\ \A i \in 1 .. Len(p) : Event(m, p[i]) \in PoolEvents
           /\ \A e \in Nodes : Event(m, e) \in PoolEvents
           /\ \A i \in 1 .. Len(p) : m.nodes[p[i]].next = Nth(p, i + 1)
           /\ \A e \in Nodes : ~On(p, e) => m.nodes[e].next = NULL
           /\ \A i \in 1 .. Len(p) + 1 : Nth(p, i) \in Nodes \cup {NULL}
           /\ Nth(p, Len(p) + 1) = NULL
           /\ \A i \in 1 .. Len(p) : Nth(p, i) = p[i]
  <1>1. Len(p) \in Nat /\ \A i \in 1 .. Len(p) : p[i] \in Nodes
    BY DEF Chain
  <1>2. \A e \in Nodes : e # NULL
    BY DEF Nodes, NULL
  <1>3. \A e \in Nodes : Event(m, e) \in PoolEvents
    BY DEF Chain, Pools, Event, PoolEvents
  <1>4. \A e \in Nodes : ~On(p, e) => m.nodes[e].next = NULL
    BY DEF Chain, On
  <1>5. \A i \in 1 .. Len(p) : m.nodes[p[i]].next = Nth(p, i + 1)
    BY DEF Chain
  <1>6. Nth(p, Len(p) + 1) = NULL /\ \A i \in 1 .. Len(p) : Nth(p, i) = p[i]
    BY <1>1 DEF Nth
  <1>7. \A i \in 1 .. Len(p) + 1 : Nth(p, i) \in Nodes \cup {NULL}
    BY <1>1, <1>6 DEF Nth
  <1>. QED  BY <1>1, <1>2, <1>3, <1>4, <1>5, <1>6, <1>7

\* The events from the i-th node on: the i-th, then those from the next on.
LEMMA FromCons ==
    ASSUME NEW m, NEW p, Chain(m, p), NEW i \in 1 .. Len(p)
    PROVE  From(m, p, i) = <<Event(m, p[i])>> \o From(m, p, i + 1)
  <1>0. Len(p) \in Nat /\ \A k \in 1 .. Len(p) : Event(m, p[k]) \in PoolEvents
    BY ChainFacts
  <1>. DEFINE a == <<Event(m, p[i])>>
              b == From(m, p, i + 1)
              c == From(m, p, i)
  <1>1. a \in Seq(PoolEvents) /\ Len(a) = 1 /\ a[1] = Event(m, p[i])
    BY <1>0
  <1>2. /\ b \in Seq(PoolEvents) /\ Len(b) = Len(p) - i
        /\ \A j \in 1 .. Len(p) - i : b[j] = Event(m, p[i + j])
    <2>1. Len(p) - (i + 1) + 1 = Len(p) - i /\ Len(p) - i \in Nat
      BY <1>0
    <2>2. b = [j \in 1 .. Len(p) - i |-> Event(m, p[i + j])]
      <3>1. \A j \in 1 .. Len(p) - i : (i + 1) + j - 1 = i + j
        BY <1>0
      <3>. QED  BY <2>1, <3>1 DEF From
    <2>3. \A j \in 1 .. Len(p) - i : i + j \in 1 .. Len(p)
      BY <1>0
    <2>. HIDE DEF b
    <2>. QED  BY <1>0, <2>1, <2>2, <2>3
  <1>3. /\ c \in Seq(PoolEvents) /\ Len(c) = Len(p) - i + 1
        /\ \A j \in 1 .. Len(p) - i + 1 : c[j] = Event(m, p[i + j - 1])
    <2>1. Len(p) - i + 1 \in Nat
      BY <1>0
    <2>2. \A j \in 1 .. Len(p) - i + 1 : i + j - 1 \in 1 .. Len(p)
      BY <1>0
    <2>. QED  BY <1>0, <2>1, <2>2 DEF From
  <1>. HIDE DEF a, b, c
  <1>4. /\ a \o b \in Seq(PoolEvents) /\ Len(a \o b) = Len(p) - i + 1
        /\ \A j \in 1 .. Len(p) - i + 1 : (a \o b)[j] = IF j <= 1 THEN a[j] ELSE b[j - 1]
    <2>1. /\ a \o b \in Seq(PoolEvents) /\ Len(a \o b) = Len(a) + Len(b)
          /\ \A j \in 1 .. Len(a) + Len(b) :
                (a \o b)[j] = IF j <= Len(a) THEN a[j] ELSE b[j - Len(a)]
      BY <1>1, <1>2, ConcatProperties
    <2>2. Len(a) = 1 /\ Len(a) + Len(b) = Len(p) - i + 1
      BY <1>0, <1>1, <1>2
    <2>. QED  BY <2>1, <2>2
  <1>5. ASSUME NEW j \in 1 .. Len(p) - i + 1 PROVE c[j] = (a \o b)[j]
    <2>1. CASE j = 1
      <3>1. i + j - 1 = i /\ j <= 1
        BY <2>1
      <3>. QED  BY <1>1, <1>3, <1>4, <2>1, <3>1
    <2>2. CASE j # 1
      <3>1. ~(j <= 1) /\ j - 1 \in 1 .. Len(p) - i /\ i + (j - 1) = i + j - 1
        BY <2>2, <1>0
      <3>2. b[j - 1] = Event(m, p[i + (j - 1)])
        BY <1>2, <3>1
      <3>. QED  BY <1>3, <1>4, <3>1, <3>2
    <2>. QED  BY <2>1, <2>2
  <1>. QED  BY <1>3, <1>4, <1>5, SeqEqual DEF a, b, c

\* No event is left behind the last node.
LEMMA FromEnd ==
    ASSUME NEW m, NEW p, Chain(m, p)
    PROVE  From(m, p, Len(p) + 1) = << >>
  <1>1. Len(p) - (Len(p) + 1) + 1 = 0
    BY ChainFacts
  <1>. QED  BY <1>1 DEF From

\* The equation of Linked has a solution.
LEMMA LinkedSolution ==
    ASSUME NEW m, NEW p, Chain(m, p)
    PROVE  \E f : LinkedEq(m, f)
  <1>. DEFINE f == [e \in Nodes \cup {NULL} |->
                      IF e = NULL THEN << >>
                      ELSE IF On(p, e) THEN From(m, p, Place(p, e)) ELSE <<Event(m, e)>>]
  <1>0. f[NULL] = << >>
    OBVIOUS
  <1>1. ASSUME NEW i \in 1 .. Len(p) + 1 PROVE f[Nth(p, i)] = From(m, p, i)
    <2>1. CASE i = Len(p) + 1
      BY <2>1, FromEnd, ChainFacts
    <2>2. CASE i \in 1 .. Len(p)
      BY <2>2, PlaceOn, ChainFacts
    <2>. QED  BY <2>1, <2>2, ChainFacts
  <1>2. ASSUME NEW e \in Nodes
        PROVE  f[e] = <<Event(m, e)>> \o f[m.nodes[e].next]
    <2>1. CASE On(p, e)
      <3>1. PICK i \in 1 .. Len(p) : p[i] = e
        BY <2>1 DEF On
      <3>2. i + 1 \in 1 .. Len(p) + 1 /\ i \in 1 .. Len(p) + 1
        BY ChainFacts
      <3>3. Nth(p, i) = e /\ m.nodes[e].next = Nth(p, i + 1)
        BY <3>1, ChainFacts
      <3>. HIDE DEF f
      <3>4. f[e] = From(m, p, i) /\ f[m.nodes[e].next] = From(m, p, i + 1)
        BY <1>1, <3>2, <3>3
      <3>. QED  BY <3>1, <3>4, FromCons
    <2>2. CASE ~On(p, e)
      <3>1. f[e] = <<Event(m, e)>>
        <4>1. e # NULL
          BY DEF Nodes, NULL
        <4>. QED  BY <2>2, <4>1, Zenon
      <3>2. f[m.nodes[e].next] = << >>
        BY <2>2, <1>0, ChainFacts
      <3>3. Event(m, e) \in PoolEvents
        BY ChainFacts
      <3>4. <<Event(m, e)>> \in Seq(PoolEvents)
        BY <3>3
      <3>. HIDE DEF f
      <3>. QED  BY <3>1, <3>2, <3>4, ConcatEmptySeq
    <2>. QED  BY <2>1, <2>2
  <1>3. \A e \in Nodes : e # NULL
    BY DEF Nodes, NULL
  <1>4. f = [e \in Nodes \cup {NULL} |-> f[e]]
    OBVIOUS
  <1>. HIDE DEF f
  <1>5. LinkedEq(m, f)
    BY <1>0, <1>2, <1>3, <1>4 DEF LinkedEq, Event
  <1>. QED  BY <1>5

\* The list read through the links is the events of the nodes p.
LEMMA LinkedPath ==
    ASSUME NEW m, NEW p, Chain(m, p)
    PROVE  Linked(m) = [i \in 1 .. Len(p) |-> Event(m, p[i])]
  <1>1. PICK f : LinkedEq(m, f) /\ Linked(m) = f[m.first]
    BY LinkedSolution, LinkedChoice
  <1>2. /\ f[NULL] = << >>
        /\ \A e \in Nodes : f[e] = <<Event(m, e)>> \o f[m.nodes[e].next]
    <2>1. \A e \in Nodes : e # NULL
      BY DEF Nodes, NULL
    <2>. QED  BY <1>1, <2>1 DEF LinkedEq, Event
  <1>. DEFINE n == Len(p)
              T == {i \in 1 .. n : f[p[i]] # From(m, p, i)}
  <1>3. T = {}
    <2>1. SUFFICES ASSUME T # {} PROVE FALSE
      OBVIOUS
    <2>2. PICK i \in T : \A j \in T : j <= i
      BY <2>1, ChainFacts, GreatestExists
    <2>3. i \in 1 .. n /\ i + 1 \in 1 .. n + 1 /\ i + 1 \notin T /\ n \in Nat
      BY <2>2, ChainFacts
    <2>4. f[Nth(p, i + 1)] = From(m, p, i + 1)
      <3>1. CASE i = n
        BY <3>1, <1>2, FromEnd, ChainFacts
      <3>2. CASE i # n
        BY <3>2, <2>3, ChainFacts
      <3>. QED  BY <3>1, <3>2
    <2>5. f[p[i]] = <<Event(m, p[i])>> \o f[Nth(p, i + 1)]
      <3>1. p[i] \in Nodes /\ m.nodes[p[i]].next = Nth(p, i + 1)
        BY <2>3, ChainFacts
      <3>. QED  BY <1>2, <3>1
    <2>6. f[p[i]] = From(m, p, i)
      BY <2>3, <2>4, <2>5, FromCons
    <2>. QED  BY <2>2, <2>6
  <1>4. f[m.first] = From(m, p, 1)
    <2>1. CASE n = 0
      <3>1. m.first = NULL
        <4>1. Nth(p, Len(p) + 1) = NULL /\ Len(p) + 1 = 1
          BY <2>1, ChainFacts
        <4>. QED  BY <4>1 DEF Chain
      <3>2. From(m, p, Len(p) + 1) = << >> /\ Len(p) + 1 = 1
        BY <2>1, FromEnd
      <3>. QED  BY <3>1, <3>2, <1>2
    <2>2. CASE n # 0
      <3>1. 1 \in 1 .. n /\ m.first = p[1]
        BY <2>2, ChainFacts DEF Chain
      <3>. QED  BY <3>1, <1>3
    <2>. QED  BY <2>1, <2>2
  <1>5. From(m, p, 1) = [i \in 1 .. Len(p) |-> Event(m, p[i])]
    <2>1. Len(p) \in Nat /\ Len(p) - 1 + 1 = Len(p) /\ \A j \in 1 .. Len(p) : 1 + j - 1 = j
      BY ChainFacts
    <2>. QED  BY <2>1 DEF From
  <1>. QED  BY <1>1, <1>4, <1>5
-----------------------------------------------------------------------------
\* The nodes of p from the i-th on.
Rest(p, i) == {p[j] : j \in i .. Len(p)}

ListEq(m, f) ==
    f = [e \in Nodes \cup {NULL} |->
            IF e = NULL THEN {} ELSE {e} \cup f[m.nodes[e].next]]

\* ListNodes reads its value off a solution of its equation, if there is one.
LEMMA ListChoice ==
    ASSUME NEW m, \E f : ListEq(m, f)
    PROVE  \E f : ListEq(m, f) /\ ListNodes(m) = f[m.first]
  <1>. DEFINE g == CHOOSE f : ListEq(m, f)
  <1>1. ListEq(m, g)
    OBVIOUS
  <1>2. ListNodes(m) = g[m.first]
    BY DEF ListNodes, ListEq
  <1>. QED  BY <1>1, <1>2

\* The nodes from the i-th on: the i-th and those from the next on.
LEMMA RestCons ==
    ASSUME NEW m, NEW p, Chain(m, p), NEW i \in 1 .. Len(p)
    PROVE  Rest(p, i) = {p[i]} \cup Rest(p, i + 1)
  BY ChainFacts DEF Rest

\* No node is left behind the last.
LEMMA RestEnd ==
    ASSUME NEW m, NEW p, Chain(m, p)
    PROVE  Rest(p, Len(p) + 1) = {}
  BY ChainFacts DEF Rest

\* A list without repetition solves the equation of ListNodes.
LEMMA ListSolution ==
    ASSUME NEW m, NEW p, Chain(m, p)
    PROVE  \E f : ListEq(m, f)
  <1>. DEFINE f == [e \in Nodes \cup {NULL} |->
                      IF e = NULL THEN {}
                      ELSE IF On(p, e) THEN Rest(p, Place(p, e)) ELSE {e}]
  <1>0. f[NULL] = {}
    OBVIOUS
  <1>1. ASSUME NEW i \in 1 .. Len(p) + 1 PROVE f[Nth(p, i)] = Rest(p, i)
    <2>1. CASE i = Len(p) + 1
      BY <2>1, RestEnd, ChainFacts
    <2>2. CASE i \in 1 .. Len(p)
      BY <2>2, PlaceOn, ChainFacts
    <2>. QED  BY <2>1, <2>2, ChainFacts
  <1>2. ASSUME NEW e \in Nodes
        PROVE  f[e] = {e} \cup f[m.nodes[e].next]
    <2>1. CASE On(p, e)
      <3>1. PICK i \in 1 .. Len(p) : p[i] = e
        BY <2>1 DEF On
      <3>2. i + 1 \in 1 .. Len(p) + 1 /\ i \in 1 .. Len(p) + 1
        BY ChainFacts
      <3>3. Nth(p, i) = e /\ m.nodes[e].next = Nth(p, i + 1)
        BY <3>1, ChainFacts
      <3>. HIDE DEF f
      <3>4. f[e] = Rest(p, i) /\ f[m.nodes[e].next] = Rest(p, i + 1)
        BY <1>1, <3>2, <3>3
      <3>. QED  BY <3>1, <3>4, RestCons
    <2>2. CASE ~On(p, e)
      <3>1. f[e] = {e}
        <4>1. e # NULL
          BY DEF Nodes, NULL
        <4>. QED  BY <2>2, <4>1, Zenon
      <3>2. f[m.nodes[e].next] = {}
        BY <2>2, <1>0, ChainFacts
      <3>. QED  BY <3>1, <3>2, Zenon
    <2>. QED  BY <2>1, <2>2
  <1>3. \A e \in Nodes : e # NULL
    BY DEF Nodes, NULL
  <1>4. f = [e \in Nodes \cup {NULL} |-> f[e]]
    OBVIOUS
  <1>. HIDE DEF f
  <1>5. ListEq(m, f)
    BY <1>0, <1>2, <1>3, <1>4 DEF ListEq
  <1>. QED  BY <1>5

\* The nodes reached through the links are the nodes p.
LEMMA ListPath ==
    ASSUME NEW m, NEW p, Chain(m, p)
    PROVE  ListNodes(m) = {p[i] : i \in 1 .. Len(p)}
  <1>1. PICK f : ListEq(m, f) /\ ListNodes(m) = f[m.first]
    BY ListSolution, ListChoice
  <1>2. /\ f[NULL] = {}
        /\ \A e \in Nodes : f[e] = {e} \cup f[m.nodes[e].next]
    <2>1. \A e \in Nodes : e # NULL
      BY DEF Nodes, NULL
    <2>. QED  BY <1>1, <2>1 DEF ListEq
  <1>. DEFINE n == Len(p)
              T == {i \in 1 .. n : f[p[i]] # Rest(p, i)}
  <1>3. T = {}
    <2>1. SUFFICES ASSUME T # {} PROVE FALSE
      OBVIOUS
    <2>2. PICK i \in T : \A j \in T : j <= i
      BY <2>1, ChainFacts, GreatestExists
    <2>3. i \in 1 .. n /\ i + 1 \in 1 .. n + 1 /\ i + 1 \notin T /\ n \in Nat
      BY <2>2, ChainFacts
    <2>4. f[Nth(p, i + 1)] = Rest(p, i + 1)
      <3>1. CASE i = n
        BY <3>1, <1>2, RestEnd, ChainFacts
      <3>2. CASE i # n
        BY <3>2, <2>3, ChainFacts
      <3>. QED  BY <3>1, <3>2
    <2>5. f[p[i]] = {p[i]} \cup f[Nth(p, i + 1)]
      <3>1. p[i] \in Nodes /\ m.nodes[p[i]].next = Nth(p, i + 1)
        BY <2>3, ChainFacts
      <3>. QED  BY <1>2, <3>1
    <2>6. f[p[i]] = Rest(p, i)
      BY <2>3, <2>4, <2>5, RestCons
    <2>. QED  BY <2>2, <2>6
  <1>4. f[m.first] = Rest(p, 1)
    <2>1. CASE n = 0
      <3>1. m.first = NULL
        <4>1. Nth(p, Len(p) + 1) = NULL /\ Len(p) + 1 = 1
          BY <2>1, ChainFacts
        <4>. QED  BY <4>1 DEF Chain
      <3>2. Rest(p, Len(p) + 1) = {} /\ Len(p) + 1 = 1
        BY <2>1, RestEnd
      <3>. QED  BY <3>1, <3>2, <1>2
    <2>2. CASE n # 0
      <3>1. 1 \in 1 .. n /\ m.first = p[1]
        BY <2>2, ChainFacts DEF Chain
      <3>. QED  BY <3>1, <1>3
    <2>. QED  BY <2>1, <2>2
  <1>. QED  BY <1>1, <1>4 DEF Rest
-----------------------------------------------------------------------------
\* From the i-th node of p on, a loop that passes the nodes of passed stops at
\* the k-th.
StopsAt(p, i, passed, k) ==
    /\ k \in i .. Len(p)
    /\ k = Len(p) \/ p[k + 1] \notin passed
    /\ \A j \in i .. k - 1 : p[j + 1] \in passed

\* The loop stops somewhere.
LEMMA StopExists ==
    ASSUME NEW m, NEW p, Chain(m, p), NEW i \in 1 .. Len(p), NEW passed
    PROVE  \E k : StopsAt(p, i, passed, k)
  <1>. DEFINE T == {k \in i .. Len(p) : k = Len(p) \/ p[k + 1] \notin passed}
  <1>1. Len(p) \in T /\ T \subseteq Nat
    BY ChainFacts
  <1>2. PICK k \in T : \A l \in T : k <= l
    BY <1>1, LeastExists
  <1>3. ASSUME NEW j \in i .. k - 1 PROVE p[j + 1] \in passed
    <2>1. j \in i .. Len(p) /\ ~(k <= j)
      BY <1>2, ChainFacts
    <2>. QED  BY <1>2, <2>1
  <1>. QED  BY <1>2, <1>3 DEF StopsAt

\* A list without repetition solves the equation of StopAt.
LEMMA StopSolution ==
    ASSUME NEW m, NEW p, Chain(m, p), NEW passed \in SUBSET Nodes
    PROVE  \E f : StopEq(m, passed, f)
  <1>. DEFINE K(i) == CHOOSE k : StopsAt(p, i, passed, k)
              f == [e \in Nodes |-> IF On(p, e) THEN p[K(Place(p, e))] ELSE e]
  <1>1. ASSUME NEW i \in 1 .. Len(p) PROVE StopsAt(p, i, passed, K(i)) /\ f[p[i]] = p[K(i)]
    <2>1. StopsAt(p, i, passed, K(i))
      BY StopExists
    <2>. HIDE DEF K
    <2>2. f[p[i]] = p[K(i)]
      BY PlaceOn, ChainFacts
    <2>. QED  BY <2>1, <2>2
  <1>. HIDE DEF K
  <1>2. ASSUME NEW e \in Nodes
        PROVE  f[e] = IF m.nodes[e].next \in passed THEN f[m.nodes[e].next] ELSE e
    <2>1. CASE On(p, e)
      <3>1. PICK i \in 1 .. Len(p) : p[i] = e
        BY <2>1 DEF On
      <3>2. m.nodes[e].next = Nth(p, i + 1) /\ Len(p) \in Nat
        BY <3>1, ChainFacts
      <3>3. StopsAt(p, i, passed, K(i)) /\ f[e] = p[K(i)]
        BY <1>1, <3>1
      <3>4. CASE m.nodes[e].next \in passed
        <4>1. i + 1 \in 1 .. Len(p) /\ m.nodes[e].next = p[i + 1]
          BY <3>2, <3>4 DEF Nth, Nodes, NULL
        <4>2. StopsAt(p, i + 1, passed, K(i + 1)) /\ f[p[i + 1]] = p[K(i + 1)]
          BY <1>1, <4>1
        <4>3. K(i) = K(i + 1)
          BY <3>2, <3>3, <3>4, <4>1, <4>2, SMTT(60) DEF StopsAt
        <4>. HIDE DEF f
        <4>. QED  BY <3>3, <3>4, <4>1, <4>2, <4>3
      <3>5. CASE m.nodes[e].next \notin passed
        <4>1. K(i) = i
          <5>1. CASE i = Len(p)
            BY <5>1, <3>2, <3>3 DEF StopsAt
          <5>2. CASE i # Len(p)
            <6>1. p[i + 1] \notin passed
              BY <5>2, <3>2, <3>5 DEF Nth
            <6>. QED  BY <6>1, <3>2, <3>3 DEF StopsAt
          <5>. QED  BY <5>1, <5>2
        <4>. HIDE DEF f
        <4>. QED  BY <3>1, <3>3, <3>5, <4>1
      <3>. QED  BY <3>4, <3>5
    <2>2. CASE ~On(p, e)
      <3>1. m.nodes[e].next = NULL
        BY <2>2, ChainFacts
      <3>2. m.nodes[e].next \notin passed
        BY <3>1 DEF Nodes, NULL
      <3>. QED  BY <2>2, <3>2, Zenon
    <2>. QED  BY <2>1, <2>2
  <1>3. f = [e \in Nodes |-> f[e]]
    OBVIOUS
  <1>. HIDE DEF f
  <1>4. StopEq(m, passed, f)
    BY <1>2, <1>3 DEF StopEq
  <1>. QED  BY <1>4

\* The loop stops where StopsAt says.
LEMMA StopPath ==
    ASSUME NEW m, NEW p, Chain(m, p), NEW passed \in SUBSET Nodes,
           NEW i \in 1 .. Len(p), NEW k, StopsAt(p, i, passed, k)
    PROVE  StopAt(m, p[i], passed) = p[k]
  <1>1. PICK f : StopEq(m, passed, f) /\ \A e : StopAt(m, e, passed) = f[e]
    <2>1. \E f : StopEq(m, passed, f)
      BY StopSolution
    <2>. QED  BY <2>1, StopChoice
  <1>2. \A e \in Nodes : f[e] = IF m.nodes[e].next \in passed THEN f[m.nodes[e].next] ELSE e
    BY <1>1 DEF StopEq
  <1>. DEFINE n == Len(p)
              T == {j \in 1 .. n : j >= i /\ j <= k /\ f[p[j]] # p[k]}
  <1>3. T = {}
    <2>1. SUFFICES ASSUME T # {} PROVE FALSE
      OBVIOUS
    <2>2. PICK j \in T : \A l \in T : l <= j
      BY <2>1, ChainFacts, GreatestExists
    <2>3. /\ j \in 1 .. n /\ j + 1 \notin T /\ n \in Nat /\ j >= i /\ j <= k
          /\ f[p[j]] # p[k] /\ k \in 1 .. n
      BY <2>2, ChainFacts DEF StopsAt
    <2>4. p[j] \in Nodes /\ m.nodes[p[j]].next = Nth(p, j + 1)
      BY <2>3, ChainFacts
    <2>5. f[p[j]] = IF Nth(p, j + 1) \in passed THEN f[Nth(p, j + 1)] ELSE p[j]
      BY <1>2, <2>4
    <2>6. CASE j = k
      <3>1. Nth(p, j + 1) \notin passed
        BY <2>3, <2>6 DEF StopsAt, Nth, Nodes, NULL
      <3>. QED  BY <3>1, <2>3, <2>5, <2>6
    <2>7. CASE j # k
      <3>1. j + 1 \in 1 .. n /\ j + 1 <= k /\ j + 1 >= i /\ j \in i .. k - 1
        BY <2>3, <2>7
      <3>2. Nth(p, j + 1) = p[j + 1] /\ p[j + 1] \in passed
        BY <3>1, <2>3 DEF StopsAt, Nth
      <3>3. f[p[j + 1]] = p[k]
        BY <3>1, <2>3
      <3>. QED  BY <2>3, <2>5, <3>2, <3>3
    <2>. QED  BY <2>6, <2>7
  <1>4. i <= k /\ i >= i
    BY ChainFacts DEF StopsAt
  <1>5. f[p[i]] = p[k]
    BY <1>3, <1>4
  <1>. QED  BY <1>1, <1>5
-----------------------------------------------------------------------------
\* p with x behind its k-th element, and p without its k-th element.
Ins(p, k, x) ==
    [i \in 1 .. Len(p) + 1 |-> IF i <= k THEN p[i] ELSE IF i = k + 1 THEN x ELSE p[i - 1]]
Del(p, k) ==
    [i \in 1 .. Len(p) - 1 |-> IF i < k THEN p[i] ELSE p[i + 1]]

\* The length and the elements of a sequence with one more element.
LEMMA InsSeq ==
    ASSUME NEW S, NEW p \in Seq(S), NEW k \in 0 .. Len(p), NEW x \in S
    PROVE  /\ Ins(p, k, x) \in Seq(S) /\ Len(Ins(p, k, x)) = Len(p) + 1
           /\ \A i \in 1 .. Len(p) + 1 : Ins(p, k, x)[i] =
                 IF i <= k THEN p[i] ELSE IF i = k + 1 THEN x ELSE p[i - 1]
  <1>1. \A i \in 1 .. Len(p) + 1 :
           (IF i <= k THEN p[i] ELSE IF i = k + 1 THEN x ELSE p[i - 1]) \in S
    OBVIOUS
  <1>. QED  BY <1>1 DEF Ins

\* The length and the elements of a sequence with one element less.
LEMMA DelSeq ==
    ASSUME NEW S, NEW p \in Seq(S), NEW k \in 1 .. Len(p)
    PROVE  /\ Del(p, k) \in Seq(S) /\ Len(Del(p, k)) = Len(p) - 1
           /\ \A i \in 1 .. Len(p) - 1 : Del(p, k)[i] = IF i < k THEN p[i] ELSE p[i + 1]
  <1>1. \A i \in 1 .. Len(p) - 1 : (IF i < k THEN p[i] ELSE p[i + 1]) \in S
    OBVIOUS
  <1>2. Len(p) - 1 \in Nat
    OBVIOUS
  <1>. QED  BY <1>1, <1>2 DEF Del

\* Min is the least element.
LEMMA MinIs ==
    ASSUME NEW T, T \subseteq Nat, NEW k \in T, \A l \in T : k <= l
    PROVE  Q!Min(T) = k
  <1>1. Q!Min(T) \in T /\ \A l \in T : Q!Min(T) <= l
    BY DEF Q!Min
  <1>2. Q!Min(T) <= k /\ k <= Q!Min(T) /\ k \in Nat /\ Q!Min(T) \in Nat
    BY <1>1
  <1>. QED  BY <1>2

\* InsertAt of the community modules is Ins.
LEMMA InsertAtIns ==
    ASSUME NEW S, NEW p \in Seq(S), NEW k \in 0 .. Len(p), NEW x \in S
    PROVE  Q!InsertAt(p, 1 + k, x) = Ins(p, k, x)
  <1>k. PICK K \in 1 .. Len(p) + 1 : K = 1 + k
    OBVIOUS
  <1>. DEFINE a == SubSeq(p, 1, K - 1)
              b == SubSeq(p, K, Len(p))
              r == Ins(p, k, x)
  <1>n. k \in Nat /\ Len(p) \in Nat
    OBVIOUS
  <1>0. /\ r \in Seq(S) /\ Len(r) = Len(p) + 1
        /\ \A i \in 1 .. Len(p) + 1 :
              r[i] = IF i <= k THEN p[i] ELSE IF i = k + 1 THEN x ELSE p[i - 1]
    BY InsSeq
  <1>1. /\ a \in Seq(S) /\ Len(a) = k
        /\ \A i \in 1 .. k : a[i] = p[i]
    BY <1>k, SubSeqProperties, ElementOfSeq
  <1>2. /\ b \in Seq(S) /\ Len(b) = Len(p) - k
        /\ \A i \in 1 .. Len(p) - k : b[i] = p[k + i]
    BY <1>k, SubSeqProperties, ElementOfSeq
  <1>3. /\ <<x>> \in Seq(S) /\ Len(<<x>>) = 1 /\ <<x>>[1] = x
    OBVIOUS
  <1>. DEFINE c == a \o <<x>>
  <1>4. /\ c \in Seq(S) /\ Len(c) = k + 1
        /\ \A i \in 1 .. k + 1 : c[i] = IF i <= k THEN a[i] ELSE x
    BY <1>1, <1>3, ConcatProperties
  <1>. DEFINE d == c \o b
  <1>. HIDE DEF a, b, c, r
  <1>5. /\ d \in Seq(S) /\ Len(d) = Len(p) + 1
        /\ \A i \in 1 .. Len(p) + 1 : d[i] = IF i <= k + 1 THEN c[i] ELSE b[i - (k + 1)]
    BY <1>2, <1>4, ConcatProperties
  <1>. HIDE DEF d
  <1>6. ASSUME NEW i \in 1 .. Len(p) + 1 PROVE d[i] = r[i]
    <2>1. CASE i <= k
      <3>1. i \in 1 .. k /\ i \in 1 .. k + 1 /\ i <= k + 1
        BY <2>1, <1>n
      <3>2. d[i] = c[i] /\ c[i] = a[i] /\ a[i] = p[i]
        BY <2>1, <3>1, <1>1, <1>4, <1>5
      <3>3. r[i] = p[i]
        BY <2>1, <1>0
      <3>. QED  BY <3>2, <3>3
    <2>2. CASE i = k + 1
      BY <2>2, <1>n, <1>0, <1>4, <1>5
    <2>3. CASE i > k + 1
      <3>1. i - (k + 1) \in 1 .. Len(p) - k /\ k + (i - (k + 1)) = i - 1
        BY <2>3
      <3>2. d[i] = p[i - 1]
        BY <1>2, <1>5, <2>3, <3>1
      <3>. QED  BY <2>3, <3>2, <1>n, <1>0
    <2>. QED  BY <2>1, <2>2, <2>3
  <1>7. d = r
    BY <1>0, <1>5, <1>6, SeqEqual
  <1>8. Q!InsertAt(p, K, x) = d
    BY DEF Q!InsertAt, a, b, c, d
  <1>. QED  BY <1>k, <1>7, <1>8 DEF r

\* So is putting an element in front.
LEMMA PushIns ==
    ASSUME NEW S, NEW p \in Seq(S), NEW x \in S
    PROVE  <<x>> \o p = Ins(p, 0, x)
  <1>. DEFINE r == Ins(p, 0, x)
              d == <<x>> \o p
  <1>0. /\ r \in Seq(S) /\ Len(r) = Len(p) + 1 /\ Len(p) \in Nat
        /\ \A i \in 1 .. Len(p) + 1 :
              r[i] = IF i <= 0 THEN p[i] ELSE IF i = 0 + 1 THEN x ELSE p[i - 1]
    BY InsSeq
  <1>1. <<x>> \in Seq(S) /\ Len(<<x>>) = 1 /\ <<x>>[1] = x
    OBVIOUS
  <1>2. /\ d \in Seq(S) /\ Len(d) = Len(p) + 1
        /\ \A i \in 1 .. Len(p) + 1 : d[i] = IF i <= 1 THEN <<x>>[i] ELSE p[i - 1]
    BY <1>1, ConcatProperties
  <1>. HIDE DEF r, d
  <1>3. ASSUME NEW i \in 1 .. Len(p) + 1 PROVE d[i] = r[i]
    <2>1. CASE i = 1
      <3>1. d[1] = <<x>>[1]
        BY <1>2
      <3>2. r[1] = x
        BY <1>0
      <3>. QED  BY <1>1, <2>1, <3>1, <3>2
    <2>2. CASE i # 1
      <3>1. ~(i <= 1) /\ ~(i <= 0) /\ ~(i = 0 + 1)
        BY <2>2
      <3>2. d[i] = p[i - 1]
        BY <1>2, <3>1
      <3>3. r[i] = p[i - 1]
        BY <1>0, <3>1
      <3>. QED  BY <3>2, <3>3
    <2>. QED  BY <2>1, <2>2
  <1>4. d = r
    BY <1>0, <1>2, <1>3, SeqEqual
  <1>. QED  BY <1>4 DEF d, r

\* RemoveAt of the community modules is Del.
LEMMA RemoveAtDel ==
    ASSUME NEW S, NEW p \in Seq(S), NEW k \in 1 .. Len(p)
    PROVE  Q!RemoveAt(p, k) = Del(p, k)
  <1>. DEFINE r == Del(p, k)
  <1>0. /\ r \in Seq(S) /\ Len(r) = Len(p) - 1 /\ Len(p) \in Nat
        /\ \A i \in 1 .. Len(p) - 1 : r[i] = IF i < k THEN p[i] ELSE p[i + 1]
    BY DelSeq
  <1>. DEFINE a == SubSeq(p, 1, k - 1)
              b == SubSeq(p, k + 1, Len(p))
  <1>1. /\ a \in Seq(S) /\ Len(a) = k - 1
        /\ \A i \in 1 .. k - 1 : a[i] = p[i]
    BY SubSeqProperties, ElementOfSeq
  <1>2. /\ b \in Seq(S) /\ Len(b) = Len(p) - k
        /\ \A i \in 1 .. Len(p) - k : b[i] = p[k + i]
    BY SubSeqProperties, ElementOfSeq
  <1>. DEFINE d == a \o b
  <1>. HIDE DEF a, b
  <1>3. /\ d \in Seq(S) /\ Len(d) = Len(p) - 1
        /\ \A i \in 1 .. Len(p) - 1 : d[i] = IF i <= k - 1 THEN a[i] ELSE b[i - (k - 1)]
    BY <1>1, <1>2, ConcatProperties
  <1>. HIDE DEF d, r
  <1>4. ASSUME NEW i \in 1 .. Len(p) - 1 PROVE d[i] = r[i]
    <2>1. CASE i < k
      BY <2>1, <1>0, <1>1, <1>3
    <2>2. CASE i >= k
      <3>1. i - (k - 1) \in 1 .. Len(p) - k /\ k + (i - (k - 1)) = i + 1
        BY <2>2
      <3>. QED  BY <3>1, <2>2, <1>0, <1>2, <1>3
    <2>. QED  BY <2>1, <2>2
  <1>5. d = r
    BY <1>0, <1>3, <1>4, SeqEqual
  <1>. QED  BY <1>5 DEF Q!RemoveAt, a, b, d, r

\* So is Tail.
LEMMA TailDel ==
    ASSUME NEW S, NEW p \in Seq(S), p # << >>
    PROVE  Tail(p) = Del(p, 1)
  <1>1. 1 \in 1 .. Len(p)
    BY EmptySeq
  <1>2. /\ Tail(p) \in Seq(S) /\ Len(Tail(p)) = Len(p) - 1
        /\ \A i \in 1 .. Len(p) - 1 : Tail(p)[i] = p[i + 1]
    BY <1>1, HeadTailProperties
  <1>3. ASSUME NEW i \in 1 .. Len(p) - 1 PROVE Tail(p)[i] = Del(p, 1)[i]
    BY <1>1, <1>2, DelSeq
  <1>4. Del(p, 1) \in Seq(S) /\ Len(Del(p, 1)) = Len(p) - 1
    BY <1>1, DelSeq
  <1>. QED  BY <1>2, <1>3, <1>4, SeqEqual
-----------------------------------------------------------------------------
\* A node that was not in the list can be added without repetition.
LEMMA InsDistinct ==
    ASSUME NEW p \in Seq(Nodes), Distinct(p), NEW x \in Nodes, ~On(p, x),
           NEW k \in 0 .. Len(p)
    PROVE  /\ Distinct(Ins(p, k, x))
           /\ \A e : On(Ins(p, k, x), e) <=> On(p, e) \/ e = x
  <1>. DEFINE r == Ins(p, k, x)
  <1>n. k \in Nat /\ Len(p) \in Nat
    OBVIOUS
  <1>0. /\ r \in Seq(Nodes) /\ Len(r) = Len(p) + 1
        /\ \A i \in 1 .. Len(p) + 1 :
              r[i] = IF i <= k THEN p[i] ELSE IF i = k + 1 THEN x ELSE p[i - 1]
    BY InsSeq
  <1>. HIDE DEF r
  <1>1. \A i \in 1 .. Len(p) : p[i] # x
    BY DEF On
  <1>2. Distinct(r)
    <2>1. SUFFICES ASSUME NEW i \in 1 .. Len(p) + 1, NEW j \in 1 .. Len(p) + 1, r[i] = r[j]
                   PROVE  i = j
      BY <1>0 DEF Distinct
    <2>2. \A a, b \in 1 .. Len(p) : p[a] = p[b] => a = b
      BY DEF Distinct
    <2>. DEFINE InsPlace(a) ==
                  \/ a <= k /\ a \in 1 .. Len(p) /\ r[a] = p[a]
                  \/ a = k + 1 /\ r[a] = x
                  \/ a > k + 1 /\ a - 1 \in 1 .. Len(p) /\ r[a] = p[a - 1]
    <2>3. ASSUME NEW a \in 1 .. Len(p) + 1 PROVE InsPlace(a)
      <3>1. CASE a <= k
        BY <3>1, <1>n, <1>0
      <3>2. CASE a = k + 1
        BY <3>2, <1>n, <1>0
      <3>3. CASE a > k + 1
        BY <3>3, <1>n, <1>0
      <3>. QED  BY <3>1, <3>2, <3>3, <1>n
    <2>4. InsPlace(i) /\ InsPlace(j)
      BY <2>3
    <2>5. CASE i <= k
      <3>1. i \in 1 .. Len(p) /\ r[i] = p[i]
        BY <2>4, <2>5, <1>n
      <3>2. CASE j <= k
        <4>1. j \in 1 .. Len(p) /\ p[i] = p[j]
          BY <2>1, <2>4, <3>1, <3>2, <1>n
        <4>. QED  BY <2>2, <3>1, <4>1
      <3>3. CASE j = k + 1
        <4>1. p[i] = x
          BY <2>1, <2>4, <3>1, <3>3, <1>n
        <4>. QED  BY <1>1, <3>1, <4>1
      <3>4. CASE j > k + 1
        <4>1. j - 1 \in 1 .. Len(p) /\ p[i] = p[j - 1]
          BY <2>1, <2>4, <3>1, <3>4, <1>n
        <4>2. i = j - 1
          BY <2>2, <3>1, <4>1
        <4>. QED  BY <2>5, <3>4, <4>2, <1>n
      <3>. QED  BY <3>2, <3>3, <3>4, <1>n
    <2>6. CASE i = k + 1
      <3>1. r[i] = x
        BY <2>4, <2>6, <1>n
      <3>2. CASE j <= k
        <4>1. j \in 1 .. Len(p) /\ p[j] = x
          BY <2>1, <2>4, <3>1, <3>2, <1>n
        <4>. QED  BY <1>1, <4>1
      <3>3. CASE j > k + 1
        <4>1. j - 1 \in 1 .. Len(p) /\ p[j - 1] = x
          BY <2>1, <2>4, <3>1, <3>3, <1>n
        <4>. QED  BY <1>1, <4>1
      <3>. QED  BY <2>6, <3>2, <3>3, <1>n
    <2>7. CASE i > k + 1
      <3>1. i - 1 \in 1 .. Len(p) /\ r[i] = p[i - 1]
        BY <2>4, <2>7, <1>n
      <3>2. CASE j <= k
        <4>1. j \in 1 .. Len(p) /\ p[j] = p[i - 1]
          BY <2>1, <2>4, <3>1, <3>2, <1>n
        <4>2. j = i - 1
          BY <2>2, <3>1, <4>1
        <4>. QED  BY <2>7, <3>2, <4>2, <1>n
      <3>3. CASE j = k + 1
        <4>1. p[i - 1] = x
          BY <2>1, <2>4, <3>1, <3>3, <1>n
        <4>. QED  BY <1>1, <3>1, <4>1
      <3>4. CASE j > k + 1
        <4>1. j - 1 \in 1 .. Len(p) /\ p[j - 1] = p[i - 1]
          BY <2>1, <2>4, <3>1, <3>4, <1>n
        <4>2. j - 1 = i - 1
          BY <2>2, <3>1, <4>1
        <4>. QED  BY <4>2
      <3>. QED  BY <3>2, <3>3, <3>4, <1>n
    <2>. QED  BY <2>5, <2>6, <2>7, <1>n
  <1>3. ASSUME NEW e, On(p, e) PROVE On(r, e)
    <2>1. PICK i \in 1 .. Len(p) : p[i] = e
      BY <1>3 DEF On
    <2>2. CASE i <= k
      BY <2>1, <2>2, <1>0, <1>n DEF On
    <2>3. CASE i > k
      <3>1. i + 1 \in 1 .. Len(p) + 1 /\ ~(i + 1 <= k) /\ i + 1 # k + 1 /\ (i + 1) - 1 = i
        BY <2>3, <1>n
      <3>2. r[i + 1] = p[i]
        BY <1>0, <3>1
      <3>. QED  BY <1>0, <2>1, <3>1, <3>2 DEF On
    <2>. QED  BY <2>2, <2>3, <1>n
  <1>4. On(r, x)
    <2>1. k + 1 \in 1 .. Len(p) + 1 /\ r[k + 1] = x
      BY <1>n, <1>0
    <2>. QED  BY <1>0, <2>1 DEF On
  <1>5. ASSUME NEW e, On(r, e), e # x PROVE On(p, e)
    <2>1. PICK i \in 1 .. Len(p) + 1 : r[i] = e
      BY <1>0, <1>5 DEF On
    <2>2. CASE i <= k
      BY <2>1, <2>2, <1>0, <1>n DEF On
    <2>3. CASE i > k
      <3>1. i # k + 1
        BY <1>0, <1>n, <1>5, <2>1, <2>3
      <3>2. i - 1 \in 1 .. Len(p) /\ p[i - 1] = e
        BY <1>0, <1>n, <2>1, <2>3, <3>1
      <3>. QED  BY <3>2 DEF On
    <2>. QED  BY <2>2, <2>3, <1>n
  <1>. QED  BY <1>2, <1>3, <1>4, <1>5 DEF r

\* A node taken out of a list without repetition is no longer in it.
LEMMA DelDistinct ==
    ASSUME NEW p \in Seq(Nodes), Distinct(p), NEW k \in 1 .. Len(p)
    PROVE  /\ Distinct(Del(p, k))
           /\ \A e : On(Del(p, k), e) <=> On(p, e) /\ e # p[k]
  <1>. DEFINE r == Del(p, k)
  <1>n. k \in Nat /\ Len(p) \in Nat
    OBVIOUS
  <1>0. /\ r \in Seq(Nodes) /\ Len(r) = Len(p) - 1
        /\ \A i \in 1 .. Len(p) - 1 : r[i] = IF i < k THEN p[i] ELSE p[i + 1]
    BY DelSeq
  <1>. HIDE DEF r
  <1>2. Distinct(r)
    <2>1. SUFFICES ASSUME NEW i \in 1 .. Len(p) - 1, NEW j \in 1 .. Len(p) - 1, r[i] = r[j]
                   PROVE  i = j
      BY <1>0 DEF Distinct
    <2>2. r[i] = IF i < k THEN p[i] ELSE p[i + 1]
      BY <1>0
    <2>3. r[j] = IF j < k THEN p[j] ELSE p[j + 1]
      BY <1>0
    <2>4. \A a, b \in 1 .. Len(p) : p[a] = p[b] => a = b
      BY DEF Distinct
    <2>5. CASE i < k /\ j < k
      <3>1. i \in 1 .. Len(p) /\ j \in 1 .. Len(p)
        BY <1>n
      <3>2. r[i] = p[i]
        BY <2>2, <2>5
      <3>3. r[j] = p[j]
        BY <2>3, <2>5
      <3>4. p[i] = p[j]
        BY <2>1, <3>2, <3>3
      <3>. QED  BY <2>4, <3>1, <3>4
    <2>6. CASE i < k /\ ~(j < k)
      <3>1. i \in 1 .. Len(p) /\ j + 1 \in 1 .. Len(p)
        BY <1>n
      <3>2. r[i] = p[i]
        BY <2>2, <2>6
      <3>3. r[j] = p[j + 1]
        BY <2>3, <2>6
      <3>4. p[i] = p[j + 1]
        BY <2>1, <3>2, <3>3
      <3>5. i = j + 1
        BY <2>4, <3>1, <3>4
      <3>. QED  BY <2>6, <3>5, <1>n
    <2>7. CASE ~(i < k) /\ j < k
      <3>1. i + 1 \in 1 .. Len(p) /\ j \in 1 .. Len(p)
        BY <1>n
      <3>2. r[i] = p[i + 1]
        BY <2>2, <2>7
      <3>3. r[j] = p[j]
        BY <2>3, <2>7
      <3>4. p[i + 1] = p[j]
        BY <2>1, <3>2, <3>3
      <3>5. i + 1 = j
        BY <2>4, <3>1, <3>4
      <3>. QED  BY <2>7, <3>5, <1>n
    <2>8. CASE ~(i < k) /\ ~(j < k)
      <3>1. i + 1 \in 1 .. Len(p) /\ j + 1 \in 1 .. Len(p)
        BY <1>n
      <3>2. r[i] = p[i + 1]
        BY <2>2, <2>8
      <3>3. r[j] = p[j + 1]
        BY <2>3, <2>8
      <3>4. p[i + 1] = p[j + 1]
        BY <2>1, <3>2, <3>3
      <3>5. i + 1 = j + 1
        BY <2>4, <3>1, <3>4
      <3>. QED  BY <3>5
    <2>. QED  BY <2>5, <2>6, <2>7, <2>8
  <1>3. ASSUME NEW e, On(p, e), e # p[k] PROVE On(r, e)
    <2>1. PICK i \in 1 .. Len(p) : p[i] = e
      BY <1>3 DEF On
    <2>2. CASE i < k
      BY <2>1, <2>2, <1>0, <1>n DEF On
    <2>3. CASE i >= k
      <3>1. i # k
        BY <1>3, <2>1
      <3>2. i - 1 \in 1 .. Len(p) - 1 /\ ~(i - 1 < k) /\ (i - 1) + 1 = i
        BY <2>3, <3>1, <1>n
      <3>3. r[i - 1] = p[i]
        BY <1>0, <3>2
      <3>. QED  BY <1>0, <2>1, <3>2, <3>3 DEF On
    <2>. QED  BY <2>2, <2>3, <1>n
  <1>4. ASSUME NEW e, On(r, e) PROVE On(p, e) /\ e # p[k]
    <2>1. PICK i \in 1 .. Len(p) - 1 : r[i] = e
      BY <1>0, <1>4 DEF On
    <2>2. CASE i < k
      <3>1. i \in 1 .. Len(p) /\ p[i] = e /\ i # k
        BY <1>0, <1>n, <2>1, <2>2
      <3>. QED  BY <3>1 DEF On, Distinct
    <2>3. CASE i >= k
      <3>1. i + 1 \in 1 .. Len(p) /\ p[i + 1] = e /\ i + 1 # k
        BY <1>0, <1>n, <2>1, <2>3
      <3>. QED  BY <3>1 DEF On, Distinct
    <2>. QED  BY <2>2, <2>3, <1>n
  <1>. QED  BY <1>2, <1>3, <1>4 DEF r
-----------------------------------------------------------------------------
\* Every node is in the list p of m or free, never both and never twice.
Good(m, p) ==
    /\ Chain(m, p)
    /\ Distinct(m.free)
    /\ \A e \in Nodes : On(p, e) <=> ~On(m.free, e)
    /\ Len(p) + Len(m.free) = PoolCapacity

\* The types of a pool whose nodes are accounted for, and its list of events.
LEMMA GoodTypes ==
    ASSUME NEW m, NEW p, Good(m, p)
    PROVE  /\ Chain(m, p) /\ m \in Pools
           /\ p \in Seq(Nodes) /\ Distinct(p)
           /\ m.free \in Seq(Nodes) /\ Distinct(m.free)
           /\ Linked(m) \in Seq(PoolEvents) /\ Len(Linked(m)) = Len(p)
           /\ \A i \in 1 .. Len(p) : Linked(m)[i] = Event(m, p[i])
  <1>1. /\ Chain(m, p) /\ m \in Pools
        /\ p \in Seq(Nodes) /\ Distinct(p)
        /\ m.free \in Seq(Nodes) /\ Distinct(m.free)
    BY DEF Good, Chain, Pools
  <1>2. Linked(m) = [i \in 1 .. Len(p) |-> Event(m, p[i])]
    BY <1>1, LinkedPath
  <1>3. Len(p) \in Nat /\ \A i \in 1 .. Len(p) : Event(m, p[i]) \in PoolEvents
    BY <1>1, ChainFacts
  <1>. QED  BY <1>1, <1>2, <1>3

\* A free node is linked behind the k-th of the list.
LEMMA LinkNode ==
    ASSUME NEW m, NEW p, Good(m, p), m.free # << >>, NEW k \in 0 .. Len(p), NEW m2 \in Pools,
           m2.free = Tail(m.free),
           m2.first = IF k = 0 THEN Head(m.free) ELSE m.first,
           \A e \in Nodes : m2.nodes[e].next =
               IF e = Head(m.free) THEN Nth(p, k + 1)
               ELSE IF k > 0 /\ e = p[k] THEN Head(m.free) ELSE m.nodes[e].next,
           \A e \in Nodes : e # Head(m.free) => Event(m2, e) = Event(m, e)
    PROVE  /\ Good(m2, Ins(p, k, Head(m.free)))
           /\ Linked(m2) = Ins(Linked(m), k, Event(m2, Head(m.free)))
  <1>. DEFINE x == Head(m.free)
              r == Ins(p, k, x)
              n == Len(p)
  <1>1. /\ Chain(m, p) /\ m \in Pools
        /\ p \in Seq(Nodes) /\ Distinct(p)
        /\ m.free \in Seq(Nodes) /\ Distinct(m.free)
        /\ Linked(m) \in Seq(PoolEvents) /\ Len(Linked(m)) = Len(p)
        /\ \A i \in 1 .. Len(p) : Linked(m)[i] = Event(m, p[i])
    BY GoodTypes
  <1>2. 1 \in 1 .. Len(m.free) /\ x = m.free[1] /\ x \in Nodes
    <2>1. Len(m.free) \in Nat \ {0}
      BY <1>1, EmptySeq
    <2>2. x = m.free[1]
      BY <1>1
    <2>. QED  BY <1>1, <2>1, <2>2
  <1>3. On(m.free, x) /\ ~On(p, x)
    BY <1>2 DEF Good, On
  <1>. HIDE DEF x
  <1>4. Distinct(r) /\ \A e : On(r, e) <=> On(p, e) \/ e = x
    BY <1>1, <1>2, <1>3, InsDistinct
  <1>5. /\ r \in Seq(Nodes) /\ Len(r) = n + 1
        /\ \A i \in 1 .. n + 1 :
              r[i] = IF i <= k THEN p[i] ELSE IF i = k + 1 THEN x ELSE p[i - 1]
    <2>1. p \in Seq(Nodes) /\ x \in Nodes
      BY <1>1, <1>2
    <2>. QED  BY <2>1, InsSeq
  <1>. HIDE DEF r
  <1>6. n \in Nat /\ k \in Nat /\ k <= n
    BY <1>1
  <1>7. \A i \in 1 .. n : p[i] \in Nodes /\ p[i] # x /\ m.nodes[p[i]].next = Nth(p, i + 1)
    BY <1>1, <1>3, ChainFacts DEF On
  <1>8. /\ m2.first = IF k = 0 THEN x ELSE m.first
        /\ \A e \in Nodes : m2.nodes[e].next =
               IF e = x THEN Nth(p, k + 1)
               ELSE IF k > 0 /\ e = p[k] THEN x ELSE m.nodes[e].next
        /\ \A e \in Nodes : e # x => Event(m2, e) = Event(m, e)
    BY DEF x
  <1>9. m2.first = Nth(r, 1)
    <2>1. CASE k = 0
      BY <2>1, <1>5, <1>6, <1>8 DEF Nth
    <2>2. CASE k # 0
      <3>1. Nth(r, 1) = p[1] /\ Nth(p, 1) = p[1]
        BY <2>2, <1>5, <1>6 DEF Nth
      <3>. QED  BY <2>2, <3>1, <1>1, <1>8 DEF Chain
    <2>. QED  BY <2>1, <2>2
  <1>10. ASSUME NEW i \in 1 .. n + 1 PROVE m2.nodes[r[i]].next = Nth(r, i + 1)
    <2>1. CASE i < k
      <3>1. i \in 1 .. n /\ k \in 1 .. n /\ r[i] = p[i] /\ Nth(r, i + 1) = p[i + 1]
        BY <2>1, <1>5, <1>6 DEF Nth
      <3>2. p[i] # p[k] /\ Nth(p, i + 1) = p[i + 1]
        BY <2>1, <3>1, <1>1, <1>6 DEF Distinct, Nth
      <3>3. m2.nodes[p[i]].next = m.nodes[p[i]].next
        BY <3>1, <3>2, <1>7, <1>8
      <3>. QED  BY <3>1, <3>2, <3>3, <1>7
    <2>2. CASE i = k
      <3>1. i \in 1 .. n /\ k > 0 /\ r[i] = p[k] /\ Nth(r, i + 1) = x
        BY <2>2, <1>5, <1>6 DEF Nth
      <3>. QED  BY <2>2, <3>1, <1>7, <1>8
    <2>3. CASE i = k + 1
      <3>1. r[i] = x /\ Nth(r, i + 1) = Nth(p, k + 1)
        BY <2>3, <1>5, <1>6 DEF Nth
      <3>. QED  BY <3>1, <1>2, <1>8
    <2>4. CASE i > k + 1
      <3>1. i - 1 \in 1 .. n /\ i - 1 # k /\ (i - 1) + 1 = i
        BY <2>4, <1>6
      <3>2. r[i] = p[i - 1] /\ Nth(r, i + 1) = Nth(p, i)
        BY <2>4, <1>5, <1>6 DEF Nth
      <3>3. k > 0 => p[i - 1] # p[k]
        BY <3>1, <1>1, <1>6, SMTT(60) DEF Distinct
      <3>4. m2.nodes[p[i - 1]].next = m.nodes[p[i - 1]].next
        BY <3>1, <3>3, <1>7, <1>8
      <3>5. m.nodes[p[i - 1]].next = Nth(p, i)
        BY <3>1, <1>7
      <3>. QED  BY <3>2, <3>4, <3>5
    <2>. QED  BY <2>1, <2>2, <2>3, <2>4, <1>6
  <1>11. ASSUME NEW e \in Nodes, ~On(r, e) PROVE m2.nodes[e].next = NULL
    <2>1. ~On(p, e) /\ e # x
      BY <1>4, <1>11
    <2>2. k > 0 => e # p[k]
      BY <2>1, <1>6 DEF On
    <2>3. m.nodes[e].next = NULL
      BY <2>1, <1>1, ChainFacts
    <2>. QED  BY <2>1, <2>2, <2>3, <1>8
  <1>12. Chain(m2, r)
    BY <1>4, <1>5, <1>9, <1>10, <1>11 DEF Chain, On
  <1>13. /\ Distinct(m2.free)
         /\ \A e : On(m2.free, e) <=> On(m.free, e) /\ e # x
         /\ Len(m2.free) = Len(m.free) - 1
    <2>1. m.free \in Seq(Nodes) /\ Distinct(m.free) /\ m.free # << >> /\ 1 \in 1 .. Len(m.free)
      BY <1>1, <1>2
    <2>2. m2.free = Del(m.free, 1)
      BY <2>1, TailDel
    <2>3. /\ Distinct(Del(m.free, 1))
          /\ \A e : On(Del(m.free, 1), e) <=> On(m.free, e) /\ e # m.free[1]
      BY <2>1, DelDistinct
    <2>4. Len(Del(m.free, 1)) = Len(m.free) - 1
      BY <2>1, DelSeq
    <2>. QED  BY <1>2, <2>2, <2>3, <2>4
  <1>14. Good(m2, r)
    <2>1. \A e \in Nodes : On(r, e) <=> ~On(m2.free, e)
      BY <1>3, <1>4, <1>13 DEF Good
    <2>2. Len(r) + Len(m2.free) = PoolCapacity
      <3>1. Len(m.free) \in Nat /\ n + Len(m.free) = PoolCapacity
        BY <1>1 DEF Good
      <3>. HIDE DEF n
      <3>2. Len(r) = n + 1 /\ Len(m2.free) = Len(m.free) - 1 /\ n \in Nat
        BY <1>5, <1>6, <1>13
      <3>3. \A u \in Nat : n + u = PoolCapacity => (n + 1) + (u - 1) = PoolCapacity
        BY <3>2
      <3>4. (n + 1) + (Len(m.free) - 1) = PoolCapacity
        BY <3>1, <3>3
      <3>. QED  BY <3>2, <3>4, Zenon
    <2>. QED  BY <1>12, <1>13, <2>1, <2>2 DEF Good
  <1>15. Linked(m2) = Ins(Linked(m), k, Event(m2, x))
    <2>. DEFINE l == Ins(Linked(m), k, Event(m2, x))
    <2>1. Event(m2, x) \in PoolEvents
      BY <1>2, <1>12, ChainFacts
    <2>2. /\ l \in Seq(PoolEvents) /\ Len(l) = n + 1
          /\ \A i \in 1 .. n + 1 : l[i] =
                IF i <= k THEN Linked(m)[i]
                ELSE IF i = k + 1 THEN Event(m2, x) ELSE Linked(m)[i - 1]
      <3>1. Linked(m) \in Seq(PoolEvents) /\ Len(Linked(m)) = n /\ k \in 0 .. Len(Linked(m))
        BY <1>1
      <3>2. /\ l \in Seq(PoolEvents) /\ Len(l) = Len(Linked(m)) + 1
            /\ \A i \in 1 .. Len(Linked(m)) + 1 : l[i] =
                  IF i <= k THEN Linked(m)[i]
                  ELSE IF i = k + 1 THEN Event(m2, x) ELSE Linked(m)[i - 1]
        <4>1. PICK q : q = Linked(m)
          OBVIOUS
        <4>2. PICK z \in PoolEvents : z = Event(m2, x)
          BY <2>1
        <4>3. q \in Seq(PoolEvents) /\ k \in 0 .. Len(q)
          BY <3>1, <4>1
        <4>4. /\ Ins(q, k, z) \in Seq(PoolEvents) /\ Len(Ins(q, k, z)) = Len(q) + 1
              /\ \A i \in 1 .. Len(q) + 1 : Ins(q, k, z)[i] =
                    IF i <= k THEN q[i] ELSE IF i = k + 1 THEN z ELSE q[i - 1]
          BY <4>3, InsSeq
        <4>. QED  BY <4>1, <4>2, <4>4, Zenon
      <3>. QED  BY <3>1, <3>2
    <2>3. /\ Linked(m2) \in Seq(PoolEvents) /\ Len(Linked(m2)) = n + 1
          /\ \A i \in 1 .. n + 1 : Linked(m2)[i] = Event(m2, r[i])
      BY <1>5, <1>14, GoodTypes
    <2>. HIDE DEF l
    <2>4. ASSUME NEW i \in 1 .. n + 1 PROVE Linked(m2)[i] = l[i]
      <3>1. CASE i <= k
        <4>1. i \in 1 .. n /\ r[i] = p[i]
          BY <3>1, <1>5, <1>6
        <4>. QED  BY <3>1, <4>1, <1>1, <1>7, <1>8, <2>2, <2>3, SMTT(60)
      <3>2. CASE i = k + 1
        <4>1. r[i] = x /\ ~(i <= k)
          BY <3>2, <1>5, <1>6
        <4>. QED  BY <3>2, <4>1, <2>2, <2>3
      <3>3. CASE i > k + 1
        <4>1. i - 1 \in 1 .. n /\ r[i] = p[i - 1] /\ ~(i <= k) /\ i # k + 1
          BY <3>3, <1>5, <1>6
        <4>2. l[i] = Linked(m)[i - 1]
          BY <4>1, <2>2
        <4>3. Linked(m)[i - 1] = Event(m, p[i - 1]) /\ Event(m2, p[i - 1]) = Event(m, p[i - 1])
          BY <4>1, <1>1, <1>7, <1>8
        <4>. QED  BY <4>1, <4>2, <4>3, <2>3
      <3>. QED  BY <3>1, <3>2, <3>3, <1>6
    <2>. QED  BY <2>2, <2>3, <2>4, SeqEqual DEF l
  <1>. QED  BY <1>14, <1>15 DEF r, x

\* The k-th node of the list is unlinked and freed.
LEMMA UnlinkNode ==
    ASSUME NEW m, NEW p, Good(m, p), NEW k \in 1 .. Len(p), NEW m2 \in Pools,
           m2.free = <<p[k]>> \o m.free,
           m2.first = IF k = 1 THEN Nth(p, 2) ELSE m.first,
           \A e \in Nodes : m2.nodes[e].next =
               IF e = p[k] THEN NULL
               ELSE IF k > 1 /\ e = p[k - 1] THEN Nth(p, k + 1) ELSE m.nodes[e].next,
           \A e \in Nodes : e # p[k] => Event(m2, e) = Event(m, e)
    PROVE  Good(m2, Del(p, k)) /\ Linked(m2) = Del(Linked(m), k)
  <1>. DEFINE x == p[k]
              r == Del(p, k)
              n == Len(p)
  <1>1. /\ Chain(m, p) /\ m \in Pools
        /\ p \in Seq(Nodes) /\ Distinct(p)
        /\ m.free \in Seq(Nodes) /\ Distinct(m.free)
        /\ Linked(m) \in Seq(PoolEvents) /\ Len(Linked(m)) = Len(p)
        /\ \A i \in 1 .. Len(p) : Linked(m)[i] = Event(m, p[i])
    BY GoodTypes
  <1>2. x \in Nodes /\ On(p, x) /\ ~On(m.free, x)
    <2>1. x \in Nodes
      BY <1>1
    <2>2. On(p, x)
      BY DEF On
    <2>. QED  BY <2>1, <2>2 DEF Good
  <1>4. Distinct(r) /\ \A e : On(r, e) <=> On(p, e) /\ e # x
    BY <1>1, DelDistinct
  <1>5. /\ r \in Seq(Nodes) /\ Len(r) = n - 1
        /\ \A i \in 1 .. n - 1 : r[i] = IF i < k THEN p[i] ELSE p[i + 1]
    <2>1. p \in Seq(Nodes)
      BY <1>1
    <2>. QED  BY <2>1, DelSeq
  <1>. HIDE DEF r
  <1>6. n \in Nat /\ k \in Nat /\ k <= n /\ k >= 1
    BY <1>1
  <1>7. \A i \in 1 .. n : p[i] \in Nodes /\ (i # k => p[i] # x)
                          /\ m.nodes[p[i]].next = Nth(p, i + 1)
    BY <1>1, ChainFacts DEF Distinct
  <1>8. /\ m2.first = IF k = 1 THEN Nth(p, 2) ELSE m.first
        /\ \A e \in Nodes : m2.nodes[e].next =
               IF e = x THEN NULL
               ELSE IF k > 1 /\ e = p[k - 1] THEN Nth(p, k + 1) ELSE m.nodes[e].next
        /\ \A e \in Nodes : e # x => Event(m2, e) = Event(m, e)
    OBVIOUS
  <1>x. x = p[k]
    OBVIOUS
  <1>. HIDE DEF x
  <1>9. m2.first = Nth(r, 1)
    <2>1. CASE k = 1
      <3>1. Nth(r, 1) = Nth(p, 2)
        BY <2>1, <1>5, <1>6 DEF Nth
      <3>. QED  BY <2>1, <3>1, <1>8
    <2>2. CASE k # 1
      <3>1. Nth(r, 1) = p[1] /\ Nth(p, 1) = p[1]
        BY <2>2, <1>5, <1>6, SMTT(60) DEF Nth
      <3>. QED  BY <2>2, <3>1, <1>1, <1>8 DEF Chain
    <2>. QED  BY <2>1, <2>2
  <1>10. ASSUME NEW i \in 1 .. n - 1 PROVE m2.nodes[r[i]].next = Nth(r, i + 1)
    <2>1. CASE i < k - 1
      <3>1. i \in 1 .. n /\ k - 1 \in 1 .. n /\ i # k /\ i # k - 1
        BY <2>1, <1>6
      <3>2. r[i] = p[i] /\ Nth(r, i + 1) = p[i + 1] /\ Nth(p, i + 1) = p[i + 1]
        BY <2>1, <1>5, <1>6 DEF Nth
      <3>3. p[i] # p[k - 1] /\ p[i] # x
        BY <3>1, <1>1, <1>7 DEF Distinct
      <3>4. m2.nodes[p[i]].next = m.nodes[p[i]].next
        BY <3>1, <3>3, <1>7, <1>8
      <3>. QED  BY <3>1, <3>2, <3>4, <1>7
    <2>2. CASE i = k - 1
      <3>1. i \in 1 .. n /\ k > 1 /\ i # k
        BY <2>2, <1>6
      <3>2. r[i] = p[k - 1] /\ Nth(r, i + 1) = Nth(p, k + 1)
        BY <2>2, <1>5, <1>6 DEF Nth
      <3>3. p[k - 1] \in Nodes /\ p[k - 1] # x
        BY <2>2, <3>1, <1>7
      <3>. QED  BY <3>1, <3>2, <3>3, <1>8
    <2>3. CASE i >= k
      <3>1. i + 1 \in 1 .. n /\ i + 1 # k /\ i + 1 # k - 1
        BY <2>3, <1>6
      <3>2. r[i] = p[i + 1]
        BY <2>3, <1>5, <1>6
      <3>3. Nth(r, i + 1) = Nth(p, (i + 1) + 1)
        BY <2>3, <1>5, <1>6 DEF Nth
      <3>4. p[i + 1] # x /\ (k > 1 => p[i + 1] # p[k - 1])
        <4>1. p[i + 1] # x
          BY <3>1, <1>7
        <4>2. ASSUME k > 1 PROVE p[i + 1] # p[k - 1]
          <5>1. k - 1 \in 1 .. n
            BY <4>2, <1>6
          <5>. QED  BY <5>1, <3>1, <1>1 DEF Distinct
        <4>. QED  BY <4>1, <4>2
      <3>5. m2.nodes[p[i + 1]].next = m.nodes[p[i + 1]].next
        BY <3>1, <3>4, <1>7, <1>8
      <3>6. m.nodes[p[i + 1]].next = Nth(p, (i + 1) + 1)
        BY <3>1, <1>7
      <3>. QED  BY <3>2, <3>3, <3>5, <3>6
    <2>. QED  BY <2>1, <2>2, <2>3, <1>6
  <1>11. ASSUME NEW e \in Nodes, ~On(r, e) PROVE m2.nodes[e].next = NULL
    <2>1. CASE e = x
      BY <2>1, <1>8
    <2>2. CASE e # x
      <3>1. ~On(p, e)
        BY <1>4, <1>11, <2>2
      <3>2. k > 1 => e # p[k - 1]
        BY <3>1, <1>6 DEF On
      <3>3. m.nodes[e].next = NULL
        BY <3>1, <1>1, ChainFacts
      <3>. QED  BY <2>2, <3>2, <3>3, <1>8
    <2>. QED  BY <2>1, <2>2
  <1>12. Chain(m2, r)
    BY <1>4, <1>5, <1>9, <1>10, <1>11 DEF Chain, On
  <1>13. /\ Distinct(m2.free)
         /\ \A e : On(m2.free, e) <=> On(m.free, e) \/ e = x
         /\ Len(m2.free) = Len(m.free) + 1
    <2>1. m.free \in Seq(Nodes) /\ Distinct(m.free) /\ x \in Nodes /\ ~On(m.free, x)
      BY <1>1, <1>2
    <2>2. m2.free = Ins(m.free, 0, x)
      BY <2>1, <1>x, PushIns
    <2>3. 0 \in 0 .. Len(m.free)
      BY <2>1
    <2>4. /\ Distinct(Ins(m.free, 0, x))
          /\ \A e : On(Ins(m.free, 0, x), e) <=> On(m.free, e) \/ e = x
      BY <2>1, <2>3, InsDistinct
    <2>5. Len(Ins(m.free, 0, x)) = Len(m.free) + 1
      BY <2>1, <2>3, InsSeq
    <2>. QED  BY <2>2, <2>4, <2>5
  <1>14. Good(m2, r)
    <2>1. \A e \in Nodes : On(r, e) <=> ~On(m2.free, e)
      BY <1>2, <1>4, <1>13 DEF Good
    <2>2. Len(r) + Len(m2.free) = PoolCapacity
      <3>1. Len(m.free) \in Nat /\ n + Len(m.free) = PoolCapacity
        BY <1>1 DEF Good
      <3>. HIDE DEF n
      <3>2. Len(r) = n - 1 /\ Len(m2.free) = Len(m.free) + 1 /\ n \in Nat
        BY <1>5, <1>6, <1>13
      <3>3. \A u \in Nat : n + u = PoolCapacity => (n - 1) + (u + 1) = PoolCapacity
        BY <3>2
      <3>4. (n - 1) + (Len(m.free) + 1) = PoolCapacity
        BY <3>1, <3>3
      <3>. QED  BY <3>2, <3>4, Zenon
    <2>. QED  BY <1>12, <1>13, <2>1, <2>2 DEF Good
  <1>15. Linked(m2) = Del(Linked(m), k)
    <2>. DEFINE l == Del(Linked(m), k)
    <2>2. /\ l \in Seq(PoolEvents) /\ Len(l) = n - 1
          /\ \A i \in 1 .. n - 1 : l[i] = IF i < k THEN Linked(m)[i] ELSE Linked(m)[i + 1]
      <3>1. PICK q : q = Linked(m)
        OBVIOUS
      <3>2. q \in Seq(PoolEvents) /\ k \in 1 .. Len(q) /\ Len(q) = n
        BY <3>1, <1>1
      <3>3. /\ Del(q, k) \in Seq(PoolEvents) /\ Len(Del(q, k)) = Len(q) - 1
            /\ \A i \in 1 .. Len(q) - 1 : Del(q, k)[i] = IF i < k THEN q[i] ELSE q[i + 1]
        BY <3>2, DelSeq
      <3>. QED  BY <3>1, <3>2, <3>3, Zenon
    <2>3. /\ Linked(m2) \in Seq(PoolEvents) /\ Len(Linked(m2)) = n - 1
          /\ \A i \in 1 .. n - 1 : Linked(m2)[i] = Event(m2, r[i])
      <3>1. /\ Linked(m2) \in Seq(PoolEvents) /\ Len(Linked(m2)) = Len(r)
            /\ \A i \in 1 .. Len(r) : Linked(m2)[i] = Event(m2, r[i])
        BY <1>14, GoodTypes
      <3>2. Len(r) = n - 1
        BY <1>5
      <3>. QED  BY <3>1, <3>2
    <2>. HIDE DEF l
    <2>4. ASSUME NEW i \in 1 .. n - 1 PROVE Linked(m2)[i] = l[i]
      <3>1. CASE i < k
        <4>0. r[i] = p[i]
          BY <3>1, <1>5
        <4>1. i \in 1 .. n /\ i # k /\ r[i] = p[i]
          BY <3>1, <4>0, <1>6
        <4>2. l[i] = Linked(m)[i]
          BY <3>1, <2>2
        <4>3. Linked(m)[i] = Event(m, p[i]) /\ Event(m2, p[i]) = Event(m, p[i])
          BY <4>1, <1>1, <1>7, <1>8
        <4>. QED  BY <4>1, <4>2, <4>3, <2>3
      <3>2. CASE i >= k
        <4>1. i + 1 \in 1 .. n /\ i + 1 # k /\ r[i] = p[i + 1] /\ ~(i < k)
          BY <3>2, <1>5, <1>6
        <4>2. l[i] = Linked(m)[i + 1]
          BY <4>1, <2>2
        <4>3. Linked(m)[i + 1] = Event(m, p[i + 1]) /\ Event(m2, p[i + 1]) = Event(m, p[i + 1])
          BY <4>1, <1>1, <1>7, <1>8
        <4>. QED  BY <4>1, <4>2, <4>3, <2>3
      <3>. QED  BY <3>1, <3>2, <1>6
    <2>. QED  BY <2>2, <2>3, <2>4, SeqEqual DEF l
  <1>. QED  BY <1>14, <1>15 DEF r
-----------------------------------------------------------------------------
\* The abstract queue the pool m stands for.
EvqOf(m) ==
    [q |-> Linked(m), next_interrupt |-> m.next_interrupt,
     special_done |-> m.special_done, failed |-> m.failed]

PoolTypes == Q!EventTypes \cup Types \cup {"free"}

\* What the links depend on.
LEMMA ChainSame ==
    ASSUME NEW m, NEW p, Chain(m, p), NEW m2 \in Pools, m2.first = m.first,
           \A e \in Nodes : m2.nodes[e].next = m.nodes[e].next
    PROVE  Chain(m2, p)
  BY DEF Chain

\* The other fields do not matter to the accounting.
LEMMA GoodSame ==
    ASSUME NEW m, NEW p, Good(m, p), NEW m2 \in Pools,
           m2.first = m.first, m2.nodes = m.nodes, m2.free = m.free
    PROVE  Good(m2, p) /\ Linked(m2) = Linked(m)
  <1>1. Chain(m, p) /\ Chain(m2, p)
    BY DEF Good, Chain
  <1>2. Linked(m2) = Linked(m)
    BY <1>1, LinkedPath DEF Event
  <1>. QED  BY <1>1, <1>2 DEF Good

\* The event is refused exactly when the list has PoolCapacity nodes.
LEMMA FullPool ==
    ASSUME NEW m, NEW p, Good(m, p)
    PROVE  /\ m.free = << >> <=> Len(Linked(m)) >= PoolCapacity
           /\ m.first = NULL <=> Linked(m) = << >>
           /\ m.first # NULL => Len(p) >= 1 /\ m.first = p[1] /\ Linked(m)[1] = Event(m, p[1])
  <1>1. /\ Chain(m, p) /\ m \in Pools
        /\ p \in Seq(Nodes) /\ Distinct(p)
        /\ m.free \in Seq(Nodes) /\ Distinct(m.free)
        /\ Linked(m) \in Seq(PoolEvents) /\ Len(Linked(m)) = Len(p)
        /\ \A i \in 1 .. Len(p) : Linked(m)[i] = Event(m, p[i])
    BY GoodTypes
  <1>2. Len(p) + Len(m.free) = PoolCapacity /\ Len(p) \in Nat /\ Len(m.free) \in Nat
    BY <1>1 DEF Good
  <1>3. m.free = << >> <=> Len(m.free) = 0
    BY <1>1, EmptySeq
  <1>4. Linked(m) = << >> <=> Len(p) = 0
    BY <1>1, EmptySeq
  <1>5. m.first = Nth(p, 1) /\ \A i \in 1 .. Len(p) : p[i] # NULL
    BY <1>1, ChainFacts DEF Chain
  <1>6. Len(p) = 0 => m.first = NULL
    BY <1>2, <1>5 DEF Nth
  <1>7. Len(p) # 0 => Len(p) >= 1 /\ 1 \in 1 .. Len(p) /\ m.first = p[1] /\ m.first # NULL
    BY <1>2, <1>5 DEF Nth
  <1>8. m.free = << >> <=> Len(Linked(m)) >= PoolCapacity
    BY <1>1, <1>2, <1>3
  <1>. QED  BY <1>1, <1>4, <1>6, <1>7, <1>8

\* Where the two loops of the insertion stop is where the sequence is cut.
LEMMA NodesBeforeStop ==
    ASSUME NEW m, NEW p, Good(m, p), Len(p) >= 1, NEW type, NEW evt, NEW done,
           NEW A, NEW B, A \subseteq Nodes, B \subseteq Nodes,
           \A i \in 1 .. Len(p) :
              p[i] \in A <=> ~(/\ type # Q!SPECIAL_INT
                               /\ Q!before_event(count, done, evt, m.nodes[p[i]].count,
                                                 m.nodes[p[i]].type)),
           \A i \in 1 .. Len(p) : p[i] \in B <=> m.nodes[p[i]].count = evt,
           NEW k1, StopsAt(p, 1, A, k1), NEW k2, StopsAt(p, k1, B, k2)
    PROVE  Q!NodesBefore(Linked(m), count, done, type, evt) =
              IF type = Q!SPECIAL_INT THEN k1 ELSE k2
  <1>. DEFINE q == Linked(m)
              n == Len(p)
              S1 == {i \in 1 .. n : \/ i = n
                                    \/ /\ type # Q!SPECIAL_INT
                                       /\ Q!before_event(count, done, evt, q[i + 1].count,
                                                         q[i + 1].type)}
              S2 == {i \in k1 .. n : i = n \/ q[i + 1].count # evt}
  <1>1. n \in Nat /\ Len(q) = n
    <2>1. p \in Seq(Nodes) /\ Len(Linked(m)) = Len(p)
      BY GoodTypes
    <2>2. Len(p) \in Nat
      BY <2>1
    <2>. QED  BY <2>1, <2>2, Zenon
  <1>2. \A i \in 1 .. n : q[i].count = m.nodes[p[i]].count /\ q[i].type = m.nodes[p[i]].type
    <2>1. \A i \in 1 .. n : q[i] = Event(m, p[i])
      BY GoodTypes
    <2>2. \A e : Event(m, e).count = m.nodes[e].count /\ Event(m, e).type = m.nodes[e].type
      BY DEF Event
    <2>. QED  BY <2>1, <2>2, Zenon
  <1>3. k1 \in 1 .. n /\ k2 \in k1 .. n
    BY DEF StopsAt
  <1>. HIDE DEF q
  <1>4. Q!Min(S1) = k1
    <2>1. k1 \in S1
      <3>1. CASE k1 = n
        BY <3>1, <1>3
      <3>2. CASE k1 # n
        <4>1. k1 + 1 \in 1 .. n /\ p[k1 + 1] \notin A
          BY <3>2, <1>1, <1>3 DEF StopsAt
        <4>2. /\ type # Q!SPECIAL_INT
              /\ Q!before_event(count, done, evt, q[k1 + 1].count, q[k1 + 1].type)
          BY <4>1, <1>2
        <4>. QED  BY <1>3, <4>2
      <3>. QED  BY <3>1, <3>2
    <2>2. ASSUME NEW j \in S1 PROVE k1 <= j
      <3>1. SUFFICES ASSUME ~(k1 <= j) PROVE FALSE
        OBVIOUS
      <3>2. j \in 1 .. k1 - 1 /\ j + 1 \in 1 .. n /\ j # n
        BY <3>1, <1>1, <1>3
      <3>3. p[j + 1] \in A
        BY <3>2 DEF StopsAt
      <3>4. ~(/\ type # Q!SPECIAL_INT
              /\ Q!before_event(count, done, evt, q[j + 1].count, q[j + 1].type))
        BY <3>2, <3>3, <1>2
      <3>. QED  BY <3>2, <3>4
    <2>3. S1 \subseteq Nat
      BY <1>1
    <2>. HIDE DEF S1
    <2>. QED  BY <2>1, <2>2, <2>3, MinIs
  <1>5. Q!Min(S2) = k2
    <2>1. k2 \in S2
      <3>1. CASE k2 = n
        BY <3>1, <1>3
      <3>2. CASE k2 # n
        <4>1. k2 + 1 \in 1 .. n /\ p[k2 + 1] \notin B
          BY <3>2, <1>1, <1>3 DEF StopsAt
        <4>2. q[k2 + 1].count # evt
          BY <4>1, <1>2
        <4>. QED  BY <1>3, <4>2
      <3>. QED  BY <3>1, <3>2
    <2>2. ASSUME NEW j \in S2 PROVE k2 <= j
      <3>1. SUFFICES ASSUME ~(k2 <= j) PROVE FALSE
        OBVIOUS
      <3>2. j \in k1 .. k2 - 1 /\ j + 1 \in 1 .. n /\ j # n
        BY <3>1, <1>1, <1>3
      <3>3. p[j + 1] \in B
        BY <3>2 DEF StopsAt
      <3>4. q[j + 1].count = evt
        BY <3>2, <3>3, <1>2
      <3>. QED  BY <3>2, <3>4
    <2>3. S2 \subseteq Nat
      BY <1>1, <1>3
    <2>. HIDE DEF S2
    <2>. QED  BY <2>1, <2>2, <2>3, MinIs
  <1>6. k1 = n => k2 = n
    BY <1>1, <1>3
  <1>7. Q!NodesBefore(q, count, done, type, evt) =
           IF type = Q!SPECIAL_INT \/ Q!Min(S1) = n THEN Q!Min(S1)
           ELSE Q!Min({i \in Q!Min(S1) .. n : i = n \/ q[i + 1].count # evt})
    BY <1>1, Zenon DEF Q!NodesBefore
  <1>. HIDE DEF S1
  <1>. QED  BY <1>4, <1>5, <1>6, <1>7 DEF q

\* m2 is m with the first free node linked behind the k-th of the list p.
Linking(m, p, k, m2) ==
    /\ m.free # << >> /\ k \in 0 .. Len(p) /\ m2 \in Pools
    /\ m2.free = Tail(m.free)
    /\ m2.first = IF k = 0 THEN Head(m.free) ELSE m.first
    /\ \A e \in Nodes : m2.nodes[e].next =
           IF e = Head(m.free) THEN Nth(p, k + 1)
           ELSE IF k > 0 /\ e = p[k] THEN Head(m.free) ELSE m.nodes[e].next
    /\ \A e \in Nodes : e # Head(m.free) => Event(m2, e) = Event(m, e)

\* LinkNode, for Linking.
LEMMA LinkingNode ==
    ASSUME NEW m, NEW p, Good(m, p), NEW k, NEW m2, Linking(m, p, k, m2)
    PROVE  /\ Good(m2, Ins(p, k, Head(m.free)))
           /\ Linked(m2) = Ins(Linked(m), k, Event(m2, Head(m.free)))
  BY LinkNode, SMTT(60) DEF Linking

Pool(nodes, free, first, next_interrupt, special_done, failed) ==
    [nodes |-> nodes, free |-> free, first |-> first, next_interrupt |-> next_interrupt,
     special_done |-> special_done, failed |-> failed]

\* What an insertion leaves in the pool: the free node at the top of the stack,
\* filled in, is linked behind the k-th of the list.
LEMMA AddedPool ==
    ASSUME NEW m, NEW p, Good(m, p), m.free # << >>, NEW k \in 0 .. Len(p),
           NEW type \in PoolTypes, NEW evt \in Q!Counts, NEW done \in BOOLEAN,
           NEW nodes, NEW m2,
           m2 = Pool(nodes, Tail(m.free), IF k = 0 THEN Head(m.free) ELSE m.first,
                     IF k = 0 THEN evt ELSE m.next_interrupt, done, m.failed),
           nodes = [e \in Nodes |->
                      IF e = Head(m.free)
                      THEN [type |-> type, count |-> evt, next |-> Nth(p, k + 1)]
                      ELSE IF k > 0 /\ e = p[k]
                      THEN [m.nodes[e] EXCEPT !.next = Head(m.free)] ELSE m.nodes[e]]
    PROVE  /\ Good(m2, Ins(p, k, Head(m.free)))
           /\ Linked(m2) = Ins(Linked(m), k, [type |-> type, count |-> evt])
  <1>1. /\ Chain(m, p) /\ m \in Pools /\ p \in Seq(Nodes) /\ m.free \in Seq(Nodes)
    BY GoodTypes
  <1>2. Head(m.free) \in Nodes /\ Tail(m.free) \in Seq(Nodes)
    BY <1>1, HeadTailProperties
  <1>3. Nth(p, k + 1) \in Nodes \cup {NULL}
    <2>1. k + 1 \in 1 .. Len(p) + 1
      BY <1>1
    <2>. QED  BY <1>1, <2>1, ChainFacts
  <1>. DEFINE NodeRecords == [type : PoolTypes, count : Q!Counts, next : Nodes \cup {NULL}]
  <1>4. m.nodes \in [Nodes -> NodeRecords]
    BY <1>1 DEF Pools, PoolTypes
  <1>5. nodes \in [Nodes -> NodeRecords]
    <2>1. ASSUME NEW e \in Nodes PROVE nodes[e] \in NodeRecords
      <3>1. m.nodes[e] \in NodeRecords
        BY <1>4
      <3>2. [type |-> type, count |-> evt, next |-> Nth(p, k + 1)] \in NodeRecords
        BY <1>3
      <3>3. [m.nodes[e] EXCEPT !.next = Head(m.free)] \in NodeRecords
        BY <1>2, <3>1
      <3>. QED  BY <3>1, <3>2, <3>3
    <2>. QED  BY <2>1
  <1>6. m2 \in Pools
    <2>1. m.first \in Nodes \cup {NULL} /\ m.next_interrupt \in Q!Counts /\ m.failed \in BOOLEAN
      BY <1>1 DEF Pools
    <2>. HIDE DEF NodeRecords
    <2>2. m2 \in [nodes : [Nodes -> NodeRecords], free : Seq(Nodes), first : Nodes \cup {NULL},
                  next_interrupt : Q!Counts, special_done : BOOLEAN, failed : BOOLEAN]
      BY <1>2, <1>5, <2>1 DEF Pool
    <2>. QED  BY <2>2 DEF Pools, PoolTypes, NodeRecords
  <1>7. /\ m2.free = Tail(m.free) /\ m2.nodes = nodes
        /\ m2.first = IF k = 0 THEN Head(m.free) ELSE m.first
    BY DEF Pool
  <1>8. ASSUME NEW e \in Nodes
        PROVE  /\ m2.nodes[e].next =
                    IF e = Head(m.free) THEN Nth(p, k + 1)
                    ELSE IF k > 0 /\ e = p[k] THEN Head(m.free) ELSE m.nodes[e].next
               /\ e # Head(m.free) => Event(m2, e) = Event(m, e)
               /\ e = Head(m.free) => Event(m2, e) = [type |-> type, count |-> evt]
    <2>1. m.nodes[e] \in NodeRecords
      BY <1>4
    <2>2. m2.nodes[e] = nodes[e]
      BY <1>7
    <2>3. CASE e = Head(m.free)
      <3>1. m2.nodes[e] = [type |-> type, count |-> evt, next |-> Nth(p, k + 1)]
        BY <2>2, <2>3
      <3>2. /\ m2.nodes[e].next = Nth(p, k + 1) /\ m2.nodes[e].type = type
            /\ m2.nodes[e].count = evt
        <4>1. \A v : [type |-> type, count |-> evt, next |-> v].next = v
          OBVIOUS
        <4>2. \A v : [type |-> type, count |-> evt, next |-> v].type = type
          OBVIOUS
        <4>3. \A v : [type |-> type, count |-> evt, next |-> v].count = evt
          OBVIOUS
        <4>. QED  BY <3>1, <4>1, <4>2, <4>3, ZenonT(60)
      <3>. QED  BY <2>3, <3>2, Zenon DEF Event
    <2>4. CASE e # Head(m.free) /\ k > 0 /\ e = p[k]
      <3>1. m2.nodes[e] = [m.nodes[e] EXCEPT !.next = Head(m.free)]
        BY <2>2, <2>4, SMTT(60)
      <3>2. /\ m2.nodes[e].next = Head(m.free) /\ m2.nodes[e].type = m.nodes[e].type
            /\ m2.nodes[e].count = m.nodes[e].count
        BY <2>1, <3>1, SMTT(60)
      <3>. QED  BY <2>4, <3>2 DEF Event
    <2>5. CASE e # Head(m.free) /\ ~(k > 0 /\ e = p[k])
      <3>1. m2.nodes[e] = m.nodes[e]
        BY <2>2, <2>5
      <3>. QED  BY <2>5, <3>1 DEF Event
    <2>. QED  BY <2>3, <2>4, <2>5
  <1>9. Event(m2, Head(m.free)) = [type |-> type, count |-> evt]
    BY <1>2, <1>8
  <1>10. /\ Good(m2, Ins(p, k, Head(m.free)))
         /\ Linked(m2) = Ins(Linked(m), k, Event(m2, Head(m.free)))
    <2>1. \A e \in Nodes : m2.nodes[e].next =
             IF e = Head(m.free) THEN Nth(p, k + 1)
             ELSE IF k > 0 /\ e = p[k] THEN Head(m.free) ELSE m.nodes[e].next
      BY <1>8
    <2>2. \A e \in Nodes : e # Head(m.free) => Event(m2, e) = Event(m, e)
      BY <1>8
    <2>3. Linking(m, p, k, m2)
      BY <1>6, <1>7, <2>1, <2>2, Zenon DEF Linking
    <2>. QED  BY <2>3, LinkingNode
  <1>. QED  BY <1>9, <1>10

\* What the steps of the operations do to the fields of a pool.
LEMMA PoolFields ==
    ASSUME NEW a, NEW b, NEW c, NEW d, NEW f, NEW g
    PROVE  /\ Pool(a, b, c, d, f, g).nodes = a /\ Pool(a, b, c, d, f, g).free = b
           /\ Pool(a, b, c, d, f, g).first = c /\ Pool(a, b, c, d, f, g).next_interrupt = d
           /\ Pool(a, b, c, d, f, g).special_done = f /\ Pool(a, b, c, d, f, g).failed = g
  BY DEF Pool

\* A pool is its six fields.
LEMMA PoolIs ==
    ASSUME NEW m \in Pools
    PROVE  /\ m = Pool(m.nodes, m.free, m.first, m.next_interrupt, m.special_done, m.failed)
           /\ m.nodes = [e \in Nodes |-> m.nodes[e]]
  BY DEF Pools, Pool

\* alloc_node on the six fields.
LEMMA AllocPool ==
    ASSUME NEW a, NEW b, NEW c, NEW d, NEW f, NEW g, NEW type, NEW evt
    PROVE  alloc_node(Pool(a, b, c, d, f, g), type, evt) =
              Pool([a EXCEPT ![Head(b)] = [type |-> type, count |-> evt, next |-> NULL]],
                   Tail(b), c, d, f, g)
  <1>. DEFINE P == Pool(a, b, c, d, f, g)
              P1 == Pool(a, Tail(b), c, d, f, g)
              rec == [type |-> type, count |-> evt, next |-> NULL]
  <1>1. P.free = b
    BY PoolFields
  <1>2. [P EXCEPT !.free = Tail(b)] = P1
    <2>1. \A y : [P EXCEPT !.free = y] = Pool(a, y, c, d, f, g)
      BY DEF Pool
    <2>. QED  BY <2>1
  <1>3. [P1 EXCEPT !.nodes[Head(b)] = rec] = Pool([a EXCEPT ![Head(b)] = rec], Tail(b), c, d, f, g)
    <2>1. \A x, y, z : [Pool(a, z, c, d, f, g) EXCEPT !.nodes[x] = y] =
                         Pool([a EXCEPT ![x] = y], z, c, d, f, g)
      BY DEF Pool
    <2>. QED  BY <2>1
  <1>. HIDE DEF P
  <1>4. alloc_node(P, type, evt) =
           [[P EXCEPT !.free = Tail(P.free)] EXCEPT !.nodes[Head(P.free)] = rec]
    BY DEF alloc_node, FreeNode
  <1>. QED  BY <1>1, <1>2, <1>3, <1>4, Zenon DEF P

\* LinkFirst on the six fields.
LEMMA LinkFirstPool ==
    ASSUME NEW a, NEW b, NEW c, NEW d, NEW f, NEW g, NEW x
    PROVE  LinkFirst(Pool(a, b, c, d, f, g), x) =
              Pool([a EXCEPT ![x].next = c], b, x, a[x].count, f, g)
  <1>. DEFINE P == Pool(a, b, c, d, f, g)
              n == [a EXCEPT ![x].next = c]
  <1>1. P.first = c /\ P.nodes = a
    BY PoolFields
  <1>2. [P EXCEPT !.nodes[x].next = c] = Pool(n, b, c, d, f, g)
    BY DEF Pool
  <1>. HIDE DEF P, n
  <1>3. [Pool(n, b, c, d, f, g) EXCEPT !.first = x] = Pool(n, b, x, d, f, g)
    BY DEF Pool
  <1>4. [Pool(n, b, x, d, f, g) EXCEPT !.next_interrupt = a[x].count]
          = Pool(n, b, x, a[x].count, f, g)
    BY DEF Pool
  <1>5. LinkFirst(P, x) =
           [[[P EXCEPT !.nodes[x].next = P.first] EXCEPT !.first = x] EXCEPT
               !.next_interrupt = P.nodes[x].count]
    BY DEF LinkFirst
  <1>. QED  BY <1>1, <1>2, <1>3, <1>4, <1>5, Zenon DEF P, n

\* LinkBehind on the six fields.
LEMMA LinkBehindPool ==
    ASSUME NEW a, NEW b, NEW c, NEW d, NEW f, NEW g, NEW x, NEW e
    PROVE  LinkBehind(Pool(a, b, c, d, f, g), x, e) =
              Pool([[a EXCEPT ![x].next = a[e].next] EXCEPT ![e].next = x], b, c, d, f, g)
  <1>. DEFINE P == Pool(a, b, c, d, f, g)
              n == [a EXCEPT ![x].next = a[e].next]
  <1>1. P.nodes = a
    BY PoolFields
  <1>2. [P EXCEPT !.nodes[x].next = a[e].next] = Pool(n, b, c, d, f, g)
    BY DEF Pool
  <1>. HIDE DEF P, n
  <1>3. [Pool(n, b, c, d, f, g) EXCEPT !.nodes[e].next = x] =
           Pool([n EXCEPT ![e].next = x], b, c, d, f, g)
    BY DEF Pool
  <1>4. LinkBehind(P, x, e) =
           [[P EXCEPT !.nodes[x].next = P.nodes[e].next] EXCEPT !.nodes[e].next = x]
    BY DEF LinkBehind
  <1>. QED  BY <1>1, <1>2, <1>3, <1>4, Zenon DEF P, n

\* The pool once a node has been taken for an event.
TakenNodes(m, type, evt) ==
    [m.nodes EXCEPT ![Head(m.free)] = [type |-> type, count |-> evt, next |-> NULL]]
Taken(m, done, type, evt) ==
    Pool(TakenNodes(m, type, evt), Tail(m.free), m.first, m.next_interrupt, done, m.failed)

\* alloc_node takes the node on top of the stack, which is not in the list.
LEMMA TakenNode ==
    ASSUME NEW m, NEW p, Good(m, p), m.free # << >>, NEW done \in BOOLEAN,
           NEW type \in PoolTypes, NEW evt \in Q!Counts
    PROVE  /\ alloc_node([m EXCEPT !.special_done = done], type, evt) = Taken(m, done, type, evt)
           /\ Head(m.free) \in Nodes /\ ~On(p, Head(m.free))
           /\ TakenNodes(m, type, evt) =
                 [e \in Nodes |-> IF e = Head(m.free)
                                  THEN [type |-> type, count |-> evt, next |-> NULL]
                                  ELSE m.nodes[e]]
  <1>1. /\ m = Pool(m.nodes, m.free, m.first, m.next_interrupt, m.special_done, m.failed)
        /\ m.nodes = [e \in Nodes |-> m.nodes[e]] /\ m.free \in Seq(Nodes)
    BY GoodTypes, PoolIs
  <1>2. [m EXCEPT !.special_done = done] =
           Pool(m.nodes, m.free, m.first, m.next_interrupt, done, m.failed)
    <2>1. \A a, b, c, d, f, g : [Pool(a, b, c, d, f, g) EXCEPT !.special_done = done]
                                  = Pool(a, b, c, d, done, g)
      BY DEF Pool
    <2>. QED  BY <1>1, <2>1
  <1>3. alloc_node([m EXCEPT !.special_done = done], type, evt) = Taken(m, done, type, evt)
    <2>1. alloc_node(Pool(m.nodes, m.free, m.first, m.next_interrupt, done, m.failed), type, evt) =
             Pool([m.nodes EXCEPT ![Head(m.free)] = [type |-> type, count |-> evt, next |-> NULL]],
                  Tail(m.free), m.first, m.next_interrupt, done, m.failed)
      BY AllocPool
    <2>. QED  BY <1>2, <2>1, Zenon DEF Taken, TakenNodes
  <1>4. Head(m.free) \in Nodes
    BY <1>1, HeadTailProperties
  <1>5. On(m.free, Head(m.free))
    <2>1. 1 \in 1 .. Len(m.free)
      BY <1>1, EmptySeq
    <2>2. m.free[1] = Head(m.free)
      BY <1>1
    <2>. QED  BY <2>1, <2>2 DEF On
  <1>6. ~On(p, Head(m.free))
    BY <1>4, <1>5 DEF Good
  <1>7. TakenNodes(m, type, evt) =
           [e \in Nodes |-> IF e = Head(m.free)
                            THEN [type |-> type, count |-> evt, next |-> NULL] ELSE m.nodes[e]]
    BY <1>1 DEF TakenNodes
  <1>. QED  BY <1>3, <1>4, <1>6, <1>7

\* The nodes after an insertion behind the k-th.
AddedNodes(m, p, k, type, evt) ==
    [e \in Nodes |->
        IF e = Head(m.free) THEN [type |-> type, count |-> evt, next |-> Nth(p, k + 1)]
        ELSE IF k > 0 /\ e = p[k]
        THEN [m.nodes[e] EXCEPT !.next = Head(m.free)] ELSE m.nodes[e]]

\* The node taken, linked in front of the list.
LEMMA FrontPool ==
    ASSUME NEW m, NEW p, Good(m, p), m.free # << >>,
           NEW type \in PoolTypes, NEW evt \in Q!Counts, NEW done \in BOOLEAN
    PROVE  /\ \E r : Good(LinkFirst(Taken(m, done, type, evt), Head(m.free)), r)
           /\ EvqOf(LinkFirst(Taken(m, done, type, evt), Head(m.free))) =
                [q |-> <<[type |-> type, count |-> evt]>> \o Linked(m),
                 next_interrupt |-> evt, special_done |-> done, failed |-> m.failed]
  <1>. DEFINE x == Head(m.free)
              ns == TakenNodes(m, type, evt)
              nodes == AddedNodes(m, p, 0, type, evt)
              rec == [type |-> type, count |-> evt]
  <1>1. p \in Seq(Nodes) /\ Linked(m) \in Seq(PoolEvents)
    BY GoodTypes
  <1>t. /\ alloc_node([m EXCEPT !.special_done = done], type, evt) = Taken(m, done, type, evt)
        /\ Head(m.free) \in Nodes /\ ~On(p, Head(m.free))
        /\ TakenNodes(m, type, evt) =
              [e \in Nodes |-> IF e = Head(m.free)
                               THEN [type |-> type, count |-> evt, next |-> NULL]
                               ELSE m.nodes[e]]
    BY TakenNode
  <1>2. /\ x \in Nodes
        /\ ns = [e \in Nodes |-> IF e = x THEN [type |-> type, count |-> evt, next |-> NULL]
                                 ELSE m.nodes[e]]
    BY <1>t
  <1>3. m.first = Nth(p, 0 + 1)
    BY DEF Good, Chain
  <1>4. [ns EXCEPT ![x].next = m.first] = nodes /\ ns[x].count = evt
    <2>1. ns[x] = [type |-> type, count |-> evt, next |-> NULL]
      BY <1>2
    <2>2. [ns[x] EXCEPT !.next = m.first] = [type |-> type, count |-> evt, next |-> m.first]
      BY <2>1
    <2>. HIDE DEF ns
    <2>3. [ns EXCEPT ![x].next = m.first] =
             [e \in Nodes |-> IF e = x THEN [type |-> type, count |-> evt, next |-> m.first]
                              ELSE m.nodes[e]]
      BY <1>2, <2>2
    <2>4. ~(0 > 0)
      OBVIOUS
    <2>5. ns[x].count = evt
      BY <2>1
    <2>. QED  BY <1>3, <2>3, <2>4, <2>5 DEF AddedNodes
  <1>. DEFINE m2 == LinkFirst(Taken(m, done, type, evt), x)
  <1>5. m2 = Pool(nodes, Tail(m.free), x, evt, done, m.failed)
    <2>1. m2 = Pool([ns EXCEPT ![x].next = m.first], Tail(m.free), x, ns[x].count, done, m.failed)
      <3>. HIDE DEF ns, x
      <3>1. LinkFirst(Pool(ns, Tail(m.free), m.first, m.next_interrupt, done, m.failed), x) =
               Pool([ns EXCEPT ![x].next = m.first], Tail(m.free), x, ns[x].count, done, m.failed)
        BY LinkFirstPool
      <3>2. Taken(m, done, type, evt) =
               Pool(ns, Tail(m.free), m.first, m.next_interrupt, done, m.failed)
        BY Zenon DEF Taken, ns
      <3>. QED  BY <3>1, <3>2, Zenon
    <2>. HIDE DEF m2, ns, nodes
    <2>. QED  BY <1>4, <2>1
  <1>6. m2 = Pool(nodes, Tail(m.free), IF 0 = 0 THEN x ELSE m.first,
                  IF 0 = 0 THEN evt ELSE m.next_interrupt, done, m.failed)
    BY <1>5, Zenon
  <1>7. 0 \in 0 .. Len(p)
    BY <1>1
  <1>. HIDE DEF m2
  <1>8. Good(m2, Ins(p, 0, x)) /\ Linked(m2) = Ins(Linked(m), 0, rec)
    <2>1. nodes = [e \in Nodes |->
                     IF e = Head(m.free)
                     THEN [type |-> type, count |-> evt, next |-> Nth(p, 0 + 1)]
                     ELSE IF 0 > 0 /\ e = p[0]
                     THEN [m.nodes[e] EXCEPT !.next = Head(m.free)] ELSE m.nodes[e]]
      BY Zenon DEF AddedNodes
    <2>. HIDE DEF nodes
    <2>. QED  BY <1>6, <1>7, <2>1, AddedPool
  <1>9. Linked(m2) = <<rec>> \o Linked(m)
    <2>1. rec \in PoolEvents
      BY DEF PoolEvents, PoolTypes
    <2>. HIDE DEF rec
    <2>. QED  BY <1>1, <1>8, <2>1, PushIns
  <1>. HIDE DEF nodes, rec
  <1>10. m2.next_interrupt = evt /\ m2.special_done = done /\ m2.failed = m.failed
    BY <1>5, PoolFields
  <1>11. EvqOf(m2) = [q |-> <<rec>> \o Linked(m), next_interrupt |-> evt,
                      special_done |-> done, failed |-> m.failed]
    BY <1>9, <1>10 DEF EvqOf
  <1>. QED  BY <1>8, <1>11 DEF m2, rec

\* The node taken, linked behind the k-th of the list.
LEMMA BehindPool ==
    ASSUME NEW m, NEW p, Good(m, p), m.free # << >>,
           NEW type \in PoolTypes, NEW evt \in Q!Counts, NEW done \in BOOLEAN,
           NEW k \in 1 .. Len(p)
    PROVE  /\ \E r : Good(LinkBehind(Taken(m, done, type, evt), Head(m.free), p[k]), r)
           /\ EvqOf(LinkBehind(Taken(m, done, type, evt), Head(m.free), p[k])) =
                [q |-> Q!InsertAt(Linked(m), 1 + k, [type |-> type, count |-> evt]),
                 next_interrupt |-> m.next_interrupt, special_done |-> done,
                 failed |-> m.failed]
  <1>. DEFINE x == Head(m.free)
              ns == TakenNodes(m, type, evt)
              nodes == AddedNodes(m, p, k, type, evt)
              rec == [type |-> type, count |-> evt]
  <1>1. /\ p \in Seq(Nodes) /\ Linked(m) \in Seq(PoolEvents) /\ Chain(m, p)
        /\ Len(Linked(m)) = Len(p) /\ m \in Pools
    BY GoodTypes
  <1>t. /\ alloc_node([m EXCEPT !.special_done = done], type, evt) = Taken(m, done, type, evt)
        /\ Head(m.free) \in Nodes /\ ~On(p, Head(m.free))
        /\ TakenNodes(m, type, evt) =
              [e \in Nodes |-> IF e = Head(m.free)
                               THEN [type |-> type, count |-> evt, next |-> NULL]
                               ELSE m.nodes[e]]
    BY TakenNode
  <1>2. /\ x \in Nodes /\ ~On(p, x)
        /\ ns = [e \in Nodes |-> IF e = x THEN [type |-> type, count |-> evt, next |-> NULL]
                                 ELSE m.nodes[e]]
    BY <1>t
  <1>3. p[k] \in Nodes /\ p[k] # x /\ m.nodes[p[k]].next = Nth(p, k + 1)
    BY <1>1, <1>2, ChainFacts DEF On
  <1>4. [[ns EXCEPT ![x].next = ns[p[k]].next] EXCEPT ![p[k]].next = x] = nodes
    <2>1. ns[x] = [type |-> type, count |-> evt, next |-> NULL] /\ ns[p[k]] = m.nodes[p[k]]
      BY <1>2, <1>3
    <2>2. ns[p[k]].next = Nth(p, k + 1)
      BY <1>3, <2>1
    <2>3. [ns[x] EXCEPT !.next = Nth(p, k + 1)] =
             [type |-> type, count |-> evt, next |-> Nth(p, k + 1)]
      BY <2>1
    <2>. HIDE DEF ns
    <2>4. [ns EXCEPT ![x].next = ns[p[k]].next] =
             [e \in Nodes |-> IF e = x THEN [type |-> type, count |-> evt, next |-> Nth(p, k + 1)]
                              ELSE m.nodes[e]]
      BY <1>2, <2>2, <2>3
    <2>. DEFINE n1 == [e \in Nodes |-> IF e = x
                          THEN [type |-> type, count |-> evt, next |-> Nth(p, k + 1)]
                          ELSE m.nodes[e]]
    <2>5. n1[p[k]] = m.nodes[p[k]]
      BY <1>3
    <2>6. k > 0
      BY <1>1
    <2>7. [n1 EXCEPT ![p[k]].next = x] = nodes
      <3>1. [n1 EXCEPT ![p[k]].next = x] = [e \in Nodes |-> IF e = p[k]
               THEN [m.nodes[e] EXCEPT !.next = x] ELSE n1[e]]
        <4>1. [n1 EXCEPT ![p[k]].next = x] = [n1 EXCEPT ![p[k]] = [n1[p[k]] EXCEPT !.next = x]]
          OBVIOUS
        <4>2. \A y : [n1 EXCEPT ![p[k]] = y] = [e \in Nodes |-> IF e = p[k] THEN y ELSE n1[e]]
          OBVIOUS
        <4>. HIDE DEF n1
        <4>3. [n1 EXCEPT ![p[k]] = [n1[p[k]] EXCEPT !.next = x]] =
                 [e \in Nodes |-> IF e = p[k] THEN [n1[p[k]] EXCEPT !.next = x] ELSE n1[e]]
          BY <4>2
        <4>. QED  BY <2>5, <4>1, <4>3
      <3>. QED  BY <1>3, <2>6, <3>1 DEF AddedNodes
    <2>. QED  BY <2>4, <2>7
  <1>. DEFINE m2 == LinkBehind(Taken(m, done, type, evt), x, p[k])
  <1>5. m2 = Pool(nodes, Tail(m.free), m.first, m.next_interrupt, done, m.failed)
    <2>1. m2 = Pool([[ns EXCEPT ![x].next = ns[p[k]].next] EXCEPT ![p[k]].next = x],
                    Tail(m.free), m.first, m.next_interrupt, done, m.failed)
      <3>. HIDE DEF ns, x
      <3>1. LinkBehind(Pool(ns, Tail(m.free), m.first, m.next_interrupt, done, m.failed), x, p[k]) =
               Pool([[ns EXCEPT ![x].next = ns[p[k]].next] EXCEPT ![p[k]].next = x],
                    Tail(m.free), m.first, m.next_interrupt, done, m.failed)
        BY LinkBehindPool
      <3>2. Taken(m, done, type, evt) =
               Pool(ns, Tail(m.free), m.first, m.next_interrupt, done, m.failed)
        BY Zenon DEF Taken, ns
      <3>. QED  BY <3>1, <3>2, Zenon
    <2>. HIDE DEF m2, ns, nodes
    <2>. QED  BY <1>4, <2>1
  <1>6. m2 = Pool(nodes, Tail(m.free), IF k = 0 THEN x ELSE m.first,
                  IF k = 0 THEN evt ELSE m.next_interrupt, done, m.failed)
    <2>1. k # 0
      BY <1>1
    <2>. QED  BY <1>5, <2>1, Zenon
  <1>7. k \in 0 .. Len(p) /\ k \in 0 .. Len(Linked(m))
    BY <1>1
  <1>. HIDE DEF m2
  <1>8. Good(m2, Ins(p, k, x)) /\ Linked(m2) = Ins(Linked(m), k, rec)
    <2>1. nodes = [e \in Nodes |->
                     IF e = Head(m.free)
                     THEN [type |-> type, count |-> evt, next |-> Nth(p, k + 1)]
                     ELSE IF k > 0 /\ e = p[k]
                     THEN [m.nodes[e] EXCEPT !.next = Head(m.free)] ELSE m.nodes[e]]
      BY Zenon DEF AddedNodes
    <2>. HIDE DEF nodes
    <2>. QED  BY <1>6, <1>7, <2>1, AddedPool
  <1>9. Linked(m2) = Q!InsertAt(Linked(m), 1 + k, rec)
    <2>1. rec \in PoolEvents
      BY DEF PoolEvents, PoolTypes
    <2>. HIDE DEF rec
    <2>. QED  BY <1>1, <1>7, <1>8, <2>1, InsertAtIns
  <1>. HIDE DEF nodes, rec
  <1>10. /\ m2.next_interrupt = m.next_interrupt /\ m2.special_done = done
         /\ m2.failed = m.failed
    BY <1>5, PoolFields
  <1>11. EvqOf(m2) = [q |-> Q!InsertAt(Linked(m), 1 + k, rec),
                      next_interrupt |-> m.next_interrupt,
                      special_done |-> done, failed |-> m.failed]
    BY <1>9, <1>10 DEF EvqOf
  <1>. QED  BY <1>8, <1>11 DEF m2, rec

\* Taking a node leaves the links of the list.
LEMMA TakenChain ==
    ASSUME NEW m, NEW p, Good(m, p), m.free # << >>, NEW done \in BOOLEAN,
           NEW type \in PoolTypes, NEW evt \in Q!Counts
    PROVE  /\ Chain(Taken(m, done, type, evt), p)
           /\ \A i \in 1 .. Len(p) : Taken(m, done, type, evt).nodes[p[i]] = m.nodes[p[i]]
  <1>. DEFINE m1 == Taken(m, done, type, evt)
              ns == TakenNodes(m, type, evt)
              x == Head(m.free)
  <1>1. /\ alloc_node([m EXCEPT !.special_done = done], type, evt) = Taken(m, done, type, evt)
        /\ Head(m.free) \in Nodes /\ ~On(p, Head(m.free))
        /\ TakenNodes(m, type, evt) =
              [e \in Nodes |-> IF e = Head(m.free)
                               THEN [type |-> type, count |-> evt, next |-> NULL]
                               ELSE m.nodes[e]]
    BY TakenNode
  <1>2. Chain(m, p) /\ m \in Pools /\ m.free \in Seq(Nodes) /\ p \in Seq(Nodes)
    BY GoodTypes
  <1>3. m1.nodes = ns /\ m1.first = m.first
    <2>. HIDE DEF ns
    <2>1. /\ Pool(ns, Tail(m.free), m.first, m.next_interrupt, done, m.failed).nodes = ns
          /\ Pool(ns, Tail(m.free), m.first, m.next_interrupt, done, m.failed).first = m.first
      BY DEF Pool
    <2>2. m1 = Pool(ns, Tail(m.free), m.first, m.next_interrupt, done, m.failed)
      BY Zenon DEF Taken, ns
    <2>. HIDE DEF m1
    <2>. QED  BY <2>1, <2>2, Zenon
  <1>. DEFINE NodeRecords == [type : PoolTypes, count : Q!Counts, next : Nodes \cup {NULL}]
  <1>4. m.nodes \in [Nodes -> NodeRecords]
    BY <1>2 DEF Pools, PoolTypes
  <1>5. ns \in [Nodes -> NodeRecords]
    <2>1. \A e \in Nodes : m.nodes[e] \in NodeRecords
      BY <1>4
    <2>2. [type |-> type, count |-> evt, next |-> NULL] \in NodeRecords
      OBVIOUS
    <2>. QED  BY <1>1, <2>1, <2>2, Zenon
  <1>6. m1 \in Pools
    <2>1. Tail(m.free) \in Seq(Nodes)
      BY <1>2, HeadTailProperties
    <2>2. m.first \in Nodes \cup {NULL} /\ m.next_interrupt \in Q!Counts /\ m.failed \in BOOLEAN
      BY <1>2 DEF Pools
    <2>. HIDE DEF NodeRecords, ns
    <2>3. m1 \in [nodes : [Nodes -> NodeRecords], free : Seq(Nodes), first : Nodes \cup {NULL},
                  next_interrupt : Q!Counts, special_done : BOOLEAN, failed : BOOLEAN]
      BY <1>5, <2>1, <2>2 DEF Pool, Taken, ns
    <2>. QED  BY <2>3 DEF Pools, PoolTypes, NodeRecords
  <1>. HIDE DEF m1
  <1>7. ASSUME NEW e \in Nodes PROVE m1.nodes[e].next = m.nodes[e].next
    <2>1. CASE e = x
      <3>1. m.nodes[e].next = NULL
        BY <1>1, <1>2, <2>1, ChainFacts
      <3>2. m1.nodes[e] = [type |-> type, count |-> evt, next |-> NULL]
        BY <1>1, <1>3, <2>1
      <3>. QED  BY <3>1, <3>2
    <2>2. CASE e # x
      BY <1>1, <1>3, <2>2
    <2>. QED  BY <2>1, <2>2
  <1>8. Chain(m1, p)
    BY <1>2, <1>3, <1>6, <1>7, ChainSame
  <1>9. ASSUME NEW i \in 1 .. Len(p) PROVE m1.nodes[p[i]] = m.nodes[p[i]]
    <2>1. p[i] # x /\ p[i] \in Nodes
      BY <1>1, <1>2 DEF On
    <2>. QED  BY <1>1, <1>3, <2>1
  <1>. QED  BY <1>8, <1>9 DEF m1

\* The insertion into the pool is the insertion into the sequence.
LEMMA AddNode ==
    ASSUME count \in Q!Counts, NEW m, NEW p, Good(m, p), NEW type \in PoolTypes,
           NEW evt \in Q!Counts
    PROVE  /\ \E r : Good(add_interrupt_event_count(m, type, evt), r)
           /\ EvqOf(add_interrupt_event_count(m, type, evt)) =
                 Q!add_interrupt_event_count(EvqOf(m), count, type, evt)
  <1>1. PICK done \in BOOLEAN : done = (m.special_done /\ count <= Q!Half)
    OBVIOUS
  <1>2. PICK pre : pre = Preceded(m, done, type, evt)
    OBVIOUS
  <1>3. PICK m1 : m1 = alloc_node([m EXCEPT !.special_done = done], type, evt)
    OBVIOUS
  <1>4. /\ Chain(m, p) /\ m \in Pools
        /\ p \in Seq(Nodes) /\ Distinct(p)
        /\ m.free \in Seq(Nodes) /\ Distinct(m.free)
        /\ Linked(m) \in Seq(PoolEvents) /\ Len(Linked(m)) = Len(p)
        /\ \A i \in 1 .. Len(p) : Linked(m)[i] = Event(m, p[i])
    BY GoodTypes
  <1>5. /\ m.free = << >> <=> Len(Linked(m)) >= PoolCapacity
        /\ m.first = NULL <=> Linked(m) = << >>
        /\ m.first # NULL => Len(p) >= 1 /\ m.first = p[1] /\ Linked(m)[1] = Event(m, p[1])
    BY FullPool
  <1>p. /\ m.free = << >> => add_interrupt_event_count(m, type, evt) =
                                [m EXCEPT !.special_done = done, !.failed = TRUE]
        /\ m.free # << >> /\ (m.first = NULL \/ m.first \in pre) =>
              add_interrupt_event_count(m, type, evt) = LinkFirst(m1, Head(m.free))
        /\ m.free # << >> /\ ~(m.first = NULL \/ m.first \in pre) =>
              add_interrupt_event_count(m, type, evt) =
                 LinkBehind(m1, Head(m.free),
                    IF type = Q!SPECIAL_INT THEN StopAt(m1, m.first, Nodes \ pre)
                    ELSE StopAt(m1, StopAt(m1, m.first, Nodes \ pre),
                                {x \in Nodes : m1.nodes[x].count = evt}))
    BY <1>1, <1>2, <1>3, Zenon DEF add_interrupt_event_count, FreeNode
  <1>q. /\ Len(Linked(m)) >= PoolCapacity =>
             Q!add_interrupt_event_count(EvqOf(m), count, type, evt) =
                [q |-> Linked(m), next_interrupt |-> m.next_interrupt,
                 special_done |-> done, failed |-> TRUE]
        /\ ~(Len(Linked(m)) >= PoolCapacity)
           /\ (\/ Linked(m) = << >>
               \/ /\ type # Q!SPECIAL_INT
                  /\ Q!before_event(count, done, evt, Linked(m)[1].count, Linked(m)[1].type))
           => Q!add_interrupt_event_count(EvqOf(m), count, type, evt) =
                [q |-> <<[type |-> type, count |-> evt]>> \o Linked(m),
                 next_interrupt |-> evt, special_done |-> done, failed |-> m.failed]
        /\ ~(Len(Linked(m)) >= PoolCapacity)
           /\ ~(\/ Linked(m) = << >>
                \/ /\ type # Q!SPECIAL_INT
                   /\ Q!before_event(count, done, evt, Linked(m)[1].count, Linked(m)[1].type))
           => Q!add_interrupt_event_count(EvqOf(m), count, type, evt) =
                [q |-> Q!InsertAt(Linked(m), 1 + Q!NodesBefore(Linked(m), count, done,
                                                               type, evt),
                                  [type |-> type, count |-> evt]),
                 next_interrupt |-> m.next_interrupt, special_done |-> done,
                 failed |-> m.failed]
    BY <1>1 DEF Q!add_interrupt_event_count, EvqOf
  <1>6. CASE m.free = << >>
    <2>1. add_interrupt_event_count(m, type, evt) = [m EXCEPT !.special_done = done, !.failed = TRUE]
      BY <1>6, <1>p, Zenon
    <2>2. PICK m2 : m2 = Pool(m.nodes, m.free, m.first, m.next_interrupt, done, TRUE)
      OBVIOUS
    <2>3. [m EXCEPT !.special_done = done, !.failed = TRUE] = m2
      <3>1. m = Pool(m.nodes, m.free, m.first, m.next_interrupt, m.special_done, m.failed)
        BY <1>4, PoolIs
      <3>2. [m EXCEPT !.special_done = done] =
               Pool(m.nodes, m.free, m.first, m.next_interrupt, done, m.failed)
        <4>1. \A a, b, c, d, f, g : [Pool(a, b, c, d, f, g) EXCEPT !.special_done = done]
                                      = Pool(a, b, c, d, done, g)
          BY DEF Pool
        <4>. QED  BY <3>1, <4>1
      <3>3. \A a, b, c, d, f, g, y : [Pool(a, b, c, d, f, g) EXCEPT !.failed = y]
                                      = Pool(a, b, c, d, f, y)
        BY DEF Pool
      <3>4. \A y : [m EXCEPT !.special_done = done, !.failed = y] =
                      [[m EXCEPT !.special_done = done] EXCEPT !.failed = y]
        OBVIOUS
      <3>5. [Pool(m.nodes, m.free, m.first, m.next_interrupt, done, m.failed) EXCEPT !.failed = TRUE]
               = Pool(m.nodes, m.free, m.first, m.next_interrupt, done, TRUE)
        <4>1. PICK y : y = TRUE
          OBVIOUS
        <4>2. [Pool(m.nodes, m.free, m.first, m.next_interrupt, done, m.failed) EXCEPT !.failed = y]
                 = Pool(m.nodes, m.free, m.first, m.next_interrupt, done, y)
          BY <3>3
        <4>. QED  BY <4>1, <4>2, Zenon
      <3>6. [m EXCEPT !.special_done = done, !.failed = TRUE] =
               [[m EXCEPT !.special_done = done] EXCEPT !.failed = TRUE]
        BY <3>4, Zenon
      <3>. QED  BY <2>2, <3>2, <3>5, <3>6, Zenon
    <2>4. /\ m2.nodes = m.nodes /\ m2.free = m.free /\ m2.first = m.first
          /\ m2.next_interrupt = m.next_interrupt /\ m2.special_done = done /\ m2.failed = TRUE
      BY <2>2 DEF Pool
    <2>5. m2 \in Pools
      BY <1>4, <2>2 DEF Pools, Pool
    <2>6. Good(m2, p) /\ Linked(m2) = Linked(m)
      BY <2>4, <2>5, GoodSame
    <2>7. EvqOf(m2) = [q |-> Linked(m), next_interrupt |-> m.next_interrupt,
                       special_done |-> done, failed |-> TRUE]
      BY <2>4, <2>6 DEF EvqOf
    <2>8. Q!add_interrupt_event_count(EvqOf(m), count, type, evt) =
             [q |-> Linked(m), next_interrupt |-> m.next_interrupt,
              special_done |-> done, failed |-> TRUE]
      BY <1>5, <1>6, <1>q, Zenon
    <2>. QED  BY <2>1, <2>3, <2>6, <2>7, <2>8
  <1>7. ASSUME NEW i \in 1 .. Len(p)
        PROVE  /\ p[i] \in Nodes
               /\ p[i] \in pre <=> /\ type # Q!SPECIAL_INT
                                   /\ Q!before_event(count, done, evt, m.nodes[p[i]].count,
                                                     m.nodes[p[i]].type)
               /\ Linked(m)[i].count = m.nodes[p[i]].count
               /\ Linked(m)[i].type = m.nodes[p[i]].type
    <2>1. p[i] \in Nodes
      BY <1>4
    <2>2. p[i] \in pre <=> /\ type # Q!SPECIAL_INT
                          /\ Q!before_event(count, done, evt, m.nodes[p[i]].count,
                                            m.nodes[p[i]].type)
      BY <1>2, <2>1, Zenon DEF Preceded
    <2>3. /\ Event(m, p[i]).count = m.nodes[p[i]].count
          /\ Event(m, p[i]).type = m.nodes[p[i]].type
      BY DEF Event
    <2>. QED  BY <1>4, <2>1, <2>2, <2>3
  <1>8. ASSUME m.free # << >>
        PROVE  m1 = Taken(m, done, type, evt)
    BY <1>3, <1>8, TakenNode
  <1>9. (\/ Linked(m) = << >>
         \/ /\ type # Q!SPECIAL_INT
            /\ Q!before_event(count, done, evt, Linked(m)[1].count, Linked(m)[1].type))
        <=> (m.first = NULL \/ m.first \in pre)
    <2>1. CASE m.first = NULL
      BY <1>5, <2>1
    <2>2. CASE m.first # NULL
      <3>1. 1 \in 1 .. Len(p) /\ m.first = p[1] /\ Linked(m) # << >>
        BY <1>4, <1>5, <2>2
      <3>2. /\ p[1] \in pre <=> /\ type # Q!SPECIAL_INT
                                /\ Q!before_event(count, done, evt, m.nodes[p[1]].count,
                                                  m.nodes[p[1]].type)
            /\ Linked(m)[1].count = m.nodes[p[1]].count
            /\ Linked(m)[1].type = m.nodes[p[1]].type
        BY <1>7, <3>1, Zenon
      <3>. QED  BY <2>2, <3>1, <3>2, Zenon
    <2>. QED  BY <2>1, <2>2
  <1>10. CASE m.free # << >> /\ (m.first = NULL \/ m.first \in pre)
    <2>1. add_interrupt_event_count(m, type, evt) = LinkFirst(m1, Head(m.free))
      BY <1>10, <1>p, Zenon
    <2>2. /\ \E r : Good(LinkFirst(Taken(m, done, type, evt), Head(m.free)), r)
          /\ EvqOf(LinkFirst(Taken(m, done, type, evt), Head(m.free))) =
                [q |-> <<[type |-> type, count |-> evt]>> \o Linked(m),
                 next_interrupt |-> evt, special_done |-> done, failed |-> m.failed]
      BY <1>10, FrontPool
    <2>3. Q!add_interrupt_event_count(EvqOf(m), count, type, evt) =
                [q |-> <<[type |-> type, count |-> evt]>> \o Linked(m),
                 next_interrupt |-> evt, special_done |-> done, failed |-> m.failed]
      BY <1>5, <1>9, <1>10, <1>q, Zenon
    <2>. QED  BY <1>8, <1>10, <2>1, <2>2, <2>3, Zenon
  <1>11. CASE m.free # << >> /\ ~(m.first = NULL \/ m.first \in pre)
    <2>. DEFINE A == Nodes \ pre
                B == {x \in Nodes : m1.nodes[x].count = evt}
    <2>1. /\ Chain(m1, p)
          /\ \A i \in 1 .. Len(p) : m1.nodes[p[i]] = m.nodes[p[i]]
      <3>1. /\ Chain(Taken(m, done, type, evt), p)
            /\ \A i \in 1 .. Len(p) : Taken(m, done, type, evt).nodes[p[i]] = m.nodes[p[i]]
        BY <1>11, TakenChain
      <3>. QED  BY <1>8, <1>11, <3>1, Zenon
    <2>2. 1 \in 1 .. Len(p) /\ m.first = p[1] /\ Len(p) >= 1
      BY <1>4, <1>5, <1>11
    <2>3. PICK k1 : StopsAt(p, 1, A, k1)
      BY <2>1, <2>2, StopExists
    <2>4. k1 \in 1 .. Len(p)
      BY <2>3 DEF StopsAt
    <2>5. PICK k2 : StopsAt(p, k1, B, k2)
      BY <2>1, <2>4, StopExists
    <2>6. k2 \in 1 .. Len(p)
      BY <2>4, <2>5 DEF StopsAt
    <2>7. A \in SUBSET Nodes /\ B \in SUBSET Nodes
      OBVIOUS
    <2>a. \A i \in 1 .. Len(p) :
              p[i] \in A <=> ~(/\ type # Q!SPECIAL_INT
                               /\ Q!before_event(count, done, evt, m.nodes[p[i]].count,
                                                 m.nodes[p[i]].type))
      BY <1>7, Zenon DEF A
    <2>b. \A i \in 1 .. Len(p) : p[i] \in B <=> m.nodes[p[i]].count = evt
      BY <1>7, <2>1, Zenon DEF B
    <2>c. A \subseteq Nodes /\ B \subseteq Nodes
      OBVIOUS
    <2>. HIDE DEF A, B
    <2>8. StopAt(m1, p[1], A) = p[k1]
      BY <2>1, <2>2, <2>3, <2>7, StopPath
    <2>9. StopAt(m1, p[k1], B) = p[k2]
      BY <2>1, <2>4, <2>5, <2>7, StopPath
    <2>10. PICK k \in 1 .. Len(p) : k = IF type = Q!SPECIAL_INT THEN k1 ELSE k2
      BY <2>4, <2>6
    <2>11. Q!NodesBefore(Linked(m), count, done, type, evt) =
              IF type = Q!SPECIAL_INT THEN k1 ELSE k2
      BY <2>2, <2>3, <2>5, <2>a, <2>b, <2>c, NodesBeforeStop
    <2>12. add_interrupt_event_count(m, type, evt) =
              LinkBehind(m1, Head(m.free),
                 IF type = Q!SPECIAL_INT THEN StopAt(m1, m.first, A)
                 ELSE StopAt(m1, StopAt(m1, m.first, A), B))
      BY <1>11, <1>p, Zenon DEF A, B
    <2>13. add_interrupt_event_count(m, type, evt) = LinkBehind(m1, Head(m.free), p[k])
      BY <2>2, <2>8, <2>9, <2>10, <2>12, Zenon
    <2>14. /\ \E r : Good(LinkBehind(Taken(m, done, type, evt), Head(m.free), p[k]), r)
           /\ EvqOf(LinkBehind(Taken(m, done, type, evt), Head(m.free), p[k])) =
                [q |-> Q!InsertAt(Linked(m), 1 + k, [type |-> type, count |-> evt]),
                 next_interrupt |-> m.next_interrupt, special_done |-> done,
                 failed |-> m.failed]
      <3>1. m.free # << >>
        BY <1>11
      <3>2. \A done1 \in BOOLEAN, k3 \in 1 .. Len(p) :
               /\ \E r : Good(LinkBehind(Taken(m, done1, type, evt), Head(m.free), p[k3]), r)
               /\ EvqOf(LinkBehind(Taken(m, done1, type, evt), Head(m.free), p[k3])) =
                    [q |-> Q!InsertAt(Linked(m), 1 + k3, [type |-> type, count |-> evt]),
                     next_interrupt |-> m.next_interrupt, special_done |-> done1,
                     failed |-> m.failed]
        BY <3>1, BehindPool
      <3>. QED  BY <3>2, Zenon
    <2>15. Q!add_interrupt_event_count(EvqOf(m), count, type, evt) =
                   [q |-> Q!InsertAt(Linked(m), 1 + Q!NodesBefore(Linked(m), count, done,
                                                                  type, evt),
                                     [type |-> type, count |-> evt]),
                    next_interrupt |-> m.next_interrupt, special_done |-> done,
                    failed |-> m.failed]
      BY <1>5, <1>9, <1>11, <1>q, Zenon
    <2>. QED  BY <1>8, <1>11, <2>10, <2>11, <2>13, <2>14, <2>15, Zenon
  <1>. QED  BY <1>6, <1>10, <1>11

\* m2 is m with the k-th node of the list p unlinked and freed.
Unlinking(m, p, k, m2) ==
    /\ k \in 1 .. Len(p) /\ m2 \in Pools
    /\ m2.free = <<p[k]>> \o m.free
    /\ m2.first = IF k = 1 THEN Nth(p, 2) ELSE m.first
    /\ \A e \in Nodes : m2.nodes[e].next =
           IF e = p[k] THEN NULL
           ELSE IF k > 1 /\ e = p[k - 1] THEN Nth(p, k + 1) ELSE m.nodes[e].next
    /\ \A e \in Nodes : e # p[k] => Event(m2, e) = Event(m, e)

\* UnlinkNode, for Unlinking.
LEMMA UnlinkingNode ==
    ASSUME NEW m, NEW p, Good(m, p), NEW k, NEW m2, Unlinking(m, p, k, m2)
    PROVE  Good(m2, Del(p, k)) /\ Linked(m2) = Del(Linked(m), k)
  <1>1. /\ k \in 1 .. Len(p) /\ m2 \in Pools
        /\ m2.free = <<p[k]>> \o m.free
        /\ m2.first = IF k = 1 THEN Nth(p, 2) ELSE m.first
    BY Zenon DEF Unlinking
  <1>2. \A e \in Nodes : m2.nodes[e].next =
            IF e = p[k] THEN NULL
            ELSE IF k > 1 /\ e = p[k - 1] THEN Nth(p, k + 1) ELSE m.nodes[e].next
    BY Zenon DEF Unlinking
  <1>3. \A e \in Nodes : e # p[k] => Event(m2, e) = Event(m, e)
    BY Zenon DEF Unlinking
  <1>. QED  BY <1>1, <1>2, <1>3, UnlinkNode, SMTT(60)

\* What an unlinking leaves in the pool: the k-th node of the list, blank, on top
\* of the stack.
LEMMA RemovedPool ==
    ASSUME NEW m, NEW p, Good(m, p), NEW k \in 1 .. Len(p), NEW nodes, NEW m2,
           m2 = Pool(nodes, <<p[k]>> \o m.free, IF k = 1 THEN Nth(p, 2) ELSE m.first,
                     m.next_interrupt, m.special_done, m.failed),
           nodes = [e \in Nodes |->
                      IF e = p[k] THEN Blank
                      ELSE IF k > 1 /\ e = p[k - 1]
                      THEN [m.nodes[e] EXCEPT !.next = Nth(p, k + 1)] ELSE m.nodes[e]]
    PROVE  Good(m2, Del(p, k)) /\ Linked(m2) = Del(Linked(m), k)
  <1>1. /\ Chain(m, p) /\ m \in Pools /\ p \in Seq(Nodes) /\ m.free \in Seq(Nodes)
    BY GoodTypes
  <1>2. p[k] \in Nodes /\ <<p[k]>> \o m.free \in Seq(Nodes)
    BY <1>1
  <1>3. Nth(p, k + 1) \in Nodes \cup {NULL} /\ Nth(p, 2) \in Nodes \cup {NULL}
    <2>1. k + 1 \in 1 .. Len(p) + 1 /\ 2 \in 1 .. Len(p) + 1
      BY <1>1
    <2>. QED  BY <1>1, <2>1, ChainFacts
  <1>. DEFINE NodeRecords == [type : PoolTypes, count : Q!Counts, next : Nodes \cup {NULL}]
  <1>4. m.nodes \in [Nodes -> NodeRecords]
    BY <1>1 DEF Pools, PoolTypes
  <1>b. Blank \in NodeRecords
    <2>1. 0 \in Q!Counts
      BY EventPoolAssumption DEF Q!Counts
    <2>2. "free" \in PoolTypes
      BY DEF PoolTypes
    <2>. QED  BY <2>1, <2>2 DEF Blank
  <1>5. nodes \in [Nodes -> NodeRecords]
    <2>1. ASSUME NEW e \in Nodes PROVE nodes[e] \in NodeRecords
      <3>1. m.nodes[e] \in NodeRecords
        BY <1>4
      <3>3. [m.nodes[e] EXCEPT !.next = Nth(p, k + 1)] \in NodeRecords
        BY <1>3, <3>1
      <3>. HIDE DEF NodeRecords
      <3>. QED  BY <1>b, <3>1, <3>3
    <2>. QED  BY <2>1
  <1>6. m2 \in Pools
    <2>1. /\ m.first \in Nodes \cup {NULL} /\ m.next_interrupt \in Q!Counts
          /\ m.failed \in BOOLEAN /\ m.special_done \in BOOLEAN
      BY <1>1 DEF Pools
    <2>. HIDE DEF NodeRecords
    <2>2. m2 \in [nodes : [Nodes -> NodeRecords], free : Seq(Nodes), first : Nodes \cup {NULL},
                  next_interrupt : Q!Counts, special_done : BOOLEAN, failed : BOOLEAN]
      BY <1>2, <1>3, <1>5, <2>1 DEF Pool
    <2>. QED  BY <2>2 DEF Pools, PoolTypes, NodeRecords
  <1>7. /\ m2.free = <<p[k]>> \o m.free /\ m2.nodes = nodes
        /\ m2.first = IF k = 1 THEN Nth(p, 2) ELSE m.first
    BY DEF Pool
  <1>8. ASSUME NEW e \in Nodes
        PROVE  /\ m2.nodes[e].next =
                    IF e = p[k] THEN NULL
                    ELSE IF k > 1 /\ e = p[k - 1] THEN Nth(p, k + 1) ELSE m.nodes[e].next
               /\ e # p[k] => Event(m2, e) = Event(m, e)
    <2>1. m.nodes[e] \in NodeRecords
      BY <1>4
    <2>2. m2.nodes[e] = nodes[e]
      BY <1>7
    <2>3. CASE e = p[k]
      <3>1. m2.nodes[e] = Blank
        BY <2>2, <2>3, SMTT(60)
      <3>. QED  BY <2>3, <3>1 DEF Blank
    <2>4. CASE e # p[k] /\ k > 1 /\ e = p[k - 1]
      <3>1. m2.nodes[e] = [m.nodes[e] EXCEPT !.next = Nth(p, k + 1)]
        BY <2>2, <2>4
      <3>2. /\ m2.nodes[e].next = Nth(p, k + 1) /\ m2.nodes[e].type = m.nodes[e].type
            /\ m2.nodes[e].count = m.nodes[e].count
        BY <2>1, <3>1, SMTT(60)
      <3>. QED  BY <2>4, <3>2 DEF Event
    <2>5. CASE e # p[k] /\ ~(k > 1 /\ e = p[k - 1])
      <3>1. m2.nodes[e] = m.nodes[e]
        BY <2>2, <2>5
      <3>. QED  BY <2>5, <3>1 DEF Event
    <2>. QED  BY <2>3, <2>4, <2>5
  <1>9. \A e \in Nodes : m2.nodes[e].next =
           IF e = p[k] THEN NULL
           ELSE IF k > 1 /\ e = p[k - 1] THEN Nth(p, k + 1) ELSE m.nodes[e].next
    BY <1>8
  <1>10. \A e \in Nodes : e # p[k] => Event(m2, e) = Event(m, e)
    BY <1>8
  <1>11. Unlinking(m, p, k, m2)
    BY <1>6, <1>7, <1>9, <1>10, Zenon DEF Unlinking
  <1>. QED  BY <1>11, UnlinkingNode

\* free_node on the six fields.
LEMMA FreePool ==
    ASSUME NEW a, NEW b, NEW c, NEW d, NEW f, NEW g, NEW node, Len(b) # PoolCapacity, node # NULL
    PROVE  free_node(Pool(a, b, c, d, f, g), node) =
              Pool([a EXCEPT ![node] = Blank], <<node>> \o b, c, d, f, g)
  <1>. DEFINE P == Pool(a, b, c, d, f, g)
  <1>1. P.free = b
    BY PoolFields
  <1>2. [P EXCEPT !.free = <<node>> \o b] = Pool(a, <<node>> \o b, c, d, f, g)
    <2>1. \A y : [P EXCEPT !.free = y] = Pool(a, y, c, d, f, g)
      BY DEF Pool
    <2>. QED  BY <2>1
  <1>3. \A z, y : [Pool(a, z, c, d, f, g) EXCEPT !.nodes[node] = y] =
                  Pool([a EXCEPT ![node] = y], z, c, d, f, g)
    BY DEF Pool
  <1>3a. [Pool(a, <<node>> \o b, c, d, f, g) EXCEPT !.nodes[node] = Blank] =
           Pool([a EXCEPT ![node] = Blank], <<node>> \o b, c, d, f, g)
    BY <1>3
  <1>. HIDE DEF P
  <1>4. free_node(P, node) =
           [[P EXCEPT !.free = <<node>> \o P.free] EXCEPT !.nodes[node] = Blank]
    BY <1>1 DEF free_node
  <1>. QED  BY <1>1, <1>2, <1>3a, <1>4, Zenon DEF P

\* A pool with a node in its list has room on its stack for one more.
LEMMA RoomToFree ==
    ASSUME NEW m, NEW p, Good(m, p), NEW k \in 1 .. Len(p)
    PROVE  Len(m.free) # PoolCapacity /\ p[k] \in Nodes /\ p[k] # NULL
  <1>1. Len(p) \in Nat /\ Len(m.free) \in Nat /\ Chain(m, p)
    BY GoodTypes
  <1>2. Len(p) + Len(m.free) = PoolCapacity
    BY DEF Good
  <1>3. Len(p) >= 1
    BY <1>1
  <1>4. Len(m.free) # PoolCapacity
    BY <1>1, <1>2, <1>3
  <1>. QED  BY <1>1, <1>4, ChainFacts

\* The node x is made to link to y.
SetNext(m, x, y) == [m EXCEPT !.nodes[x].next = y]

\* A new link on the six fields.
LEMMA NextPool ==
    ASSUME NEW a, NEW b, NEW c, NEW d, NEW f, NEW g, NEW x, NEW y
    PROVE  SetNext(Pool(a, b, c, d, f, g), x, y) = Pool([a EXCEPT ![x].next = y], b, c, d, f, g)
  BY DEF Pool, SetNext

\* The first node of the list, unlinked and freed.
LEMMA FreeFirst ==
    ASSUME NEW m, NEW p, Good(m, p), Len(p) >= 1,
           NEW m2, m2 = free_node([m EXCEPT !.first = m.nodes[m.first].next], m.first)
    PROVE  /\ Good(m2, Del(p, 1)) /\ Linked(m2) = Del(Linked(m), 1)
           /\ m2.next_interrupt = m.next_interrupt /\ m2.special_done = m.special_done
           /\ m2.failed = m.failed
  <1>1. /\ Chain(m, p) /\ m \in Pools
        /\ p \in Seq(Nodes) /\ Distinct(p)
        /\ m.free \in Seq(Nodes) /\ Distinct(m.free)
        /\ Linked(m) \in Seq(PoolEvents) /\ Len(Linked(m)) = Len(p)
        /\ \A i \in 1 .. Len(p) : Linked(m)[i] = Event(m, p[i])
    BY GoodTypes
  <1>2. 1 \in 1 .. Len(p)
    BY <1>1
  <1>3. Len(m.free) # PoolCapacity /\ p[1] \in Nodes /\ p[1] # NULL
    BY <1>2, RoomToFree
  <1>4. m.first = p[1] /\ m.nodes[p[1]].next = Nth(p, 2)
    <2>1. m.first = Nth(p, 1) /\ Nth(p, 1) = p[1]
      BY <1>1, <1>2, ChainFacts, SMTT(60) DEF Chain
    <2>2. m.nodes[p[1]].next = Nth(p, 1 + 1)
      BY <1>1, <1>2, ChainFacts
    <2>. QED  BY <2>1, <2>2
  <1>5. /\ m = Pool(m.nodes, m.free, m.first, m.next_interrupt, m.special_done, m.failed)
        /\ m.nodes = [e \in Nodes |-> m.nodes[e]]
    BY <1>1, PoolIs
  <1>6. [m EXCEPT !.first = Nth(p, 2)] =
           Pool(m.nodes, m.free, Nth(p, 2), m.next_interrupt, m.special_done, m.failed)
    <2>1. \A a, b, c, d, f, g, y : [Pool(a, b, c, d, f, g) EXCEPT !.first = y]
                                     = Pool(a, b, y, d, f, g)
      BY DEF Pool
    <2>. QED  BY <1>5, <2>1
  <1>. DEFINE nodes == [e \in Nodes |->
                      IF e = p[1] THEN Blank
                      ELSE IF 1 > 1 /\ e = p[1 - 1]
                      THEN [m.nodes[e] EXCEPT !.next = Nth(p, 1 + 1)] ELSE m.nodes[e]]
  <1>7. [m.nodes EXCEPT ![p[1]] = Blank] = nodes
    <2>1. \A y : [m.nodes EXCEPT ![p[1]] = y] = [e \in Nodes |-> IF e = p[1] THEN y ELSE m.nodes[e]]
      BY <1>3, <1>5
    <2>2. nodes = [e \in Nodes |-> IF e = p[1] THEN Blank ELSE m.nodes[e]]
      <3>1. ~(1 > 1)
        OBVIOUS
      <3>. QED  BY <3>1, Zenon
    <2>. HIDE DEF nodes
    <2>. QED  BY <2>1, <2>2
  <1>8. free_node(Pool(m.nodes, m.free, Nth(p, 2), m.next_interrupt, m.special_done, m.failed), p[1])
          = Pool([m.nodes EXCEPT ![p[1]] = Blank], <<p[1]>> \o m.free, Nth(p, 2),
                 m.next_interrupt, m.special_done, m.failed)
    BY <1>3, FreePool
  <1>. HIDE DEF nodes
  <1>9. m2 = Pool(nodes, <<p[1]>> \o m.free, Nth(p, 2), m.next_interrupt, m.special_done, m.failed)
    BY <1>4, <1>6, <1>7, <1>8, Zenon
  <1>k. PICK k \in 1 .. Len(p) : k = 1
    BY <1>2
  <1>10. m2 = Pool(nodes, <<p[k]>> \o m.free, IF k = 1 THEN Nth(p, 2) ELSE m.first,
                   m.next_interrupt, m.special_done, m.failed)
    BY <1>k, <1>9, Zenon
  <1>11. nodes = [e \in Nodes |->
                      IF e = p[k] THEN Blank
                      ELSE IF k > 1 /\ e = p[k - 1]
                      THEN [m.nodes[e] EXCEPT !.next = Nth(p, k + 1)] ELSE m.nodes[e]]
    BY <1>k, Zenon DEF nodes
  <1>12. Good(m2, Del(p, k)) /\ Linked(m2) = Del(Linked(m), k)
    BY <1>10, <1>11, RemovedPool
  <1>13. /\ m2.next_interrupt = m.next_interrupt /\ m2.special_done = m.special_done
         /\ m2.failed = m.failed
    BY <1>9, PoolFields
  <1>. QED  BY <1>k, <1>12, <1>13, Zenon

\* The k-th node, unlinked from the one before it and freed.
LEMMA FreeBehind ==
    ASSUME NEW m, NEW p, Good(m, p), NEW k \in 2 .. Len(p),
           NEW m2, m2 = free_node([m EXCEPT !.nodes[p[k - 1]].next = m.nodes[p[k]].next], p[k])
    PROVE  /\ Good(m2, Del(p, k)) /\ Linked(m2) = Del(Linked(m), k)
           /\ m2.next_interrupt = m.next_interrupt /\ m2.special_done = m.special_done
           /\ m2.failed = m.failed
  <1>1. /\ Chain(m, p) /\ m \in Pools
        /\ p \in Seq(Nodes) /\ Distinct(p)
        /\ m.free \in Seq(Nodes) /\ Distinct(m.free)
        /\ Linked(m) \in Seq(PoolEvents) /\ Len(Linked(m)) = Len(p)
        /\ \A i \in 1 .. Len(p) : Linked(m)[i] = Event(m, p[i])
    BY GoodTypes
  <1>2. k \in 1 .. Len(p) /\ k - 1 \in 1 .. Len(p) /\ k > 1 /\ k # 1 /\ k - 1 # k
    BY <1>1
  <1>3. Len(m.free) # PoolCapacity /\ p[k] \in Nodes /\ p[k] # NULL
    BY <1>2, RoomToFree
  <1>4. /\ m.nodes[p[k]].next = Nth(p, k + 1) /\ p[k - 1] \in Nodes /\ p[k - 1] # p[k]
    <2>1. m.nodes[p[k]].next = Nth(p, k + 1)
      BY <1>1, <1>2, ChainFacts
    <2>2. p[k - 1] \in Nodes
      BY <1>1, <1>2
    <2>3. p[k - 1] # p[k]
      BY <1>1, <1>2 DEF Distinct
    <2>. QED  BY <2>1, <2>2, <2>3
  <1>5. /\ m = Pool(m.nodes, m.free, m.first, m.next_interrupt, m.special_done, m.failed)
        /\ m.nodes = [e \in Nodes |-> m.nodes[e]]
    BY <1>1, PoolIs
  <1>z. PICK z : z = p[k - 1]
    OBVIOUS
  <1>v. PICK v : v = Nth(p, k + 1)
    OBVIOUS
  <1>n. PICK ns : ns = [m.nodes EXCEPT ![z].next = v]
    OBVIOUS
  <1>6. [m EXCEPT !.nodes[z].next = v] =
           Pool(ns, m.free, m.first, m.next_interrupt, m.special_done, m.failed)
    <2>2. SetNext(Pool(m.nodes, m.free, m.first, m.next_interrupt, m.special_done, m.failed),
                  z, v) =
             Pool([m.nodes EXCEPT ![z].next = v], m.free, m.first, m.next_interrupt,
                  m.special_done, m.failed)
      BY NextPool
    <2>. QED  BY <1>5, <1>n, <2>2, Zenon DEF SetNext
  <1>. DEFINE nodes == [e \in Nodes |->
                      IF e = p[k] THEN Blank
                      ELSE IF k > 1 /\ e = p[k - 1]
                      THEN [m.nodes[e] EXCEPT !.next = Nth(p, k + 1)] ELSE m.nodes[e]]
  <1>7. [ns EXCEPT ![p[k]] = Blank] = nodes
    <2>1. ns = [e \in Nodes |-> IF e = z THEN [m.nodes[e] EXCEPT !.next = v] ELSE m.nodes[e]]
      <3>1. ns = [m.nodes EXCEPT ![z] = [m.nodes[z] EXCEPT !.next = v]]
        BY <1>n
      <3>2. \A y : [m.nodes EXCEPT ![z] = y] = [e \in Nodes |-> IF e = z THEN y ELSE m.nodes[e]]
        BY <1>4, <1>5, <1>z
      <3>3. ns = [e \in Nodes |-> IF e = z THEN [m.nodes[z] EXCEPT !.next = v] ELSE m.nodes[e]]
        BY <3>1, <3>2
      <3>. QED  BY <3>3
    <2>2. \A y : [ns EXCEPT ![p[k]] = y] = [e \in Nodes |-> IF e = p[k] THEN y ELSE ns[e]]
      BY <1>3, <2>1
    <2>3. [ns EXCEPT ![p[k]] = Blank] = [e \in Nodes |-> IF e = p[k] THEN Blank ELSE ns[e]]
      BY <2>2
    <2>4. ASSUME NEW e \in Nodes
          PROVE  (IF e = p[k] THEN Blank ELSE ns[e]) = nodes[e]
      BY <1>2, <1>v, <1>z, <2>1
    <2>. QED  BY <2>3, <2>4
  <1>8. free_node(Pool(ns, m.free, m.first, m.next_interrupt, m.special_done, m.failed), p[k])
          = Pool([ns EXCEPT ![p[k]] = Blank], <<p[k]>> \o m.free, m.first,
                 m.next_interrupt, m.special_done, m.failed)
    BY <1>3, FreePool
  <1>. HIDE DEF nodes
  <1>9. m2 = Pool(nodes, <<p[k]>> \o m.free, m.first, m.next_interrupt, m.special_done, m.failed)
    BY <1>4, <1>6, <1>7, <1>8, <1>z, <1>v, Zenon
  <1>10. m2 = Pool(nodes, <<p[k]>> \o m.free, IF k = 1 THEN Nth(p, 2) ELSE m.first,
                   m.next_interrupt, m.special_done, m.failed)
    BY <1>2, <1>9, Zenon
  <1>11. nodes = [e \in Nodes |->
                      IF e = p[k] THEN Blank
                      ELSE IF k > 1 /\ e = p[k - 1]
                      THEN [m.nodes[e] EXCEPT !.next = Nth(p, k + 1)] ELSE m.nodes[e]]
    BY Zenon DEF nodes
  <1>12. Good(m2, Del(p, k)) /\ Linked(m2) = Del(Linked(m), k)
    BY <1>2, <1>10, <1>11, RemovedPool
  <1>13. /\ m2.next_interrupt = m.next_interrupt /\ m2.special_done = m.special_done
         /\ m2.failed = m.failed
    BY <1>9, PoolFields
  <1>. QED  BY <1>12, <1>13

\* Removing a type from the sequence: nothing happens without such an event, and
\* otherwise the first one goes.
LEMMA QueueDrop ==
    ASSUME NEW m, NEW p, Good(m, p), NEW type
    PROVE  /\ (\A i \in 1 .. Len(p) : m.nodes[p[i]].type # type) =>
                 Q!remove_event(EvqOf(m), type) = EvqOf(m)
           /\ \A k \in 1 .. Len(p) :
                 /\ m.nodes[p[k]].type = type
                 /\ \A j \in 1 .. k - 1 : m.nodes[p[j]].type # type
                 => Q!remove_event(EvqOf(m), type) =
                      [q |-> Del(Linked(m), k), next_interrupt |-> m.next_interrupt,
                       special_done |-> m.special_done, failed |-> m.failed]
  <1>1. /\ Chain(m, p) /\ m \in Pools
        /\ p \in Seq(Nodes) /\ Distinct(p)
        /\ m.free \in Seq(Nodes) /\ Distinct(m.free)
        /\ Linked(m) \in Seq(PoolEvents) /\ Len(Linked(m)) = Len(p)
        /\ \A i \in 1 .. Len(p) : Linked(m)[i] = Event(m, p[i])
    BY GoodTypes
  <1>. DEFINE q == Linked(m)
              I == {i \in 1 .. Len(p) : q[i].type = type}
  <1>2. DOMAIN q = 1 .. Len(p) /\ Len(p) \in Nat
    BY <1>1
  <1>3. \A i \in 1 .. Len(p) : q[i].type = m.nodes[p[i]].type
    <2>1. \A e : Event(m, e).type = m.nodes[e].type
      BY DEF Event
    <2>. QED  BY <1>1, <2>1, Zenon
  <1>4. Q!remove_event(EvqOf(m), type) =
           IF I = {} THEN EvqOf(m) ELSE [EvqOf(m) EXCEPT !.q = Q!RemoveAt(q, Q!Min(I))]
    <2>1. EvqOf(m).q = q
      BY DEF EvqOf
    <2>. QED  BY <1>2, <2>1, Zenon DEF Q!remove_event
  <1>. HIDE DEF I, q
  <1>5. ASSUME \A i \in 1 .. Len(p) : m.nodes[p[i]].type # type
        PROVE  Q!remove_event(EvqOf(m), type) = EvqOf(m)
    <2>1. I = {}
      BY <1>3, <1>5 DEF I
    <2>. QED  BY <1>4, <2>1, Zenon
  <1>6. ASSUME NEW k \in 1 .. Len(p), m.nodes[p[k]].type = type,
               \A j \in 1 .. k - 1 : m.nodes[p[j]].type # type
        PROVE  Q!remove_event(EvqOf(m), type) =
                 [q |-> Del(Linked(m), k), next_interrupt |-> m.next_interrupt,
                  special_done |-> m.special_done, failed |-> m.failed]
    <2>1. k \in I /\ I \subseteq Nat
      BY <1>2, <1>3, <1>6 DEF I
    <2>2. ASSUME NEW l \in I PROVE k <= l
      <3>1. l \in 1 .. Len(p) /\ m.nodes[p[l]].type = type
        BY <1>3 DEF I
      <3>2. l \notin 1 .. k - 1
        BY <1>6, <3>1
      <3>. QED  BY <1>2, <3>1, <3>2
    <2>3. Q!Min(I) = k
      BY <2>1, <2>2, MinIs
    <2>4. Q!RemoveAt(q, k) = Del(q, k)
      BY <1>1, <1>2, RemoveAtDel DEF q
    <2>5. Q!remove_event(EvqOf(m), type) = [EvqOf(m) EXCEPT !.q = Del(q, k)]
      BY <1>4, <2>1, <2>3, <2>4, Zenon
    <2>6. \A y : [EvqOf(m) EXCEPT !.q = y] =
                   [q |-> y, next_interrupt |-> m.next_interrupt,
                    special_done |-> m.special_done, failed |-> m.failed]
      BY DEF EvqOf
    <2>. QED  BY <2>5, <2>6, Zenon DEF q
  <1>. QED  BY <1>5, <1>6

\* remove_event unlinks the node of the event the sequence loses.
LEMMA DropNode ==
    ASSUME NEW m, NEW p, Good(m, p), NEW type
    PROVE  /\ \E r : Good(remove_event(m, type), r)
           /\ EvqOf(remove_event(m, type)) = Q!remove_event(EvqOf(m), type)
  <1>1. /\ Chain(m, p) /\ m \in Pools
        /\ p \in Seq(Nodes) /\ Distinct(p)
        /\ m.free \in Seq(Nodes) /\ Distinct(m.free)
        /\ Linked(m) \in Seq(PoolEvents) /\ Len(Linked(m)) = Len(p)
        /\ \A i \in 1 .. Len(p) : Linked(m)[i] = Event(m, p[i])
    BY GoodTypes
  <1>2. /\ m.free = << >> <=> Len(Linked(m)) >= PoolCapacity
        /\ m.first = NULL <=> Linked(m) = << >>
        /\ m.first # NULL => Len(p) >= 1 /\ m.first = p[1] /\ Linked(m)[1] = Event(m, p[1])
    BY FullPool
  <1>3. /\ (\A i \in 1 .. Len(p) : m.nodes[p[i]].type # type) =>
              Q!remove_event(EvqOf(m), type) = EvqOf(m)
        /\ \A k \in 1 .. Len(p) :
              /\ m.nodes[p[k]].type = type
              /\ \A j \in 1 .. k - 1 : m.nodes[p[j]].type # type
              => Q!remove_event(EvqOf(m), type) =
                   [q |-> Del(Linked(m), k), next_interrupt |-> m.next_interrupt,
                    special_done |-> m.special_done, failed |-> m.failed]
    BY QueueDrop
  <1>. DEFINE A == {x \in Nodes : m.nodes[x].type # type}
  <1>4. PICK e : e = StopAt(m, m.first, A)
    OBVIOUS
  <1>5. /\ m.first = NULL => remove_event(m, type) = m
        /\ m.first # NULL /\ m.nodes[m.first].type = type =>
             remove_event(m, type) = free_node([m EXCEPT !.first = m.nodes[m.first].next], m.first)
        /\ m.first # NULL /\ m.nodes[m.first].type # type /\ m.nodes[e].next = NULL =>
             remove_event(m, type) = m
        /\ m.first # NULL /\ m.nodes[m.first].type # type /\ m.nodes[e].next # NULL =>
             remove_event(m, type) =
                free_node([m EXCEPT !.nodes[e].next = m.nodes[m.nodes[e].next].next],
                          m.nodes[e].next)
    BY <1>4, Zenon DEF remove_event
  <1>. HIDE DEF A
  <1>6. CASE m.first = NULL
    <2>1. Len(p) = 0
      BY <1>1, <1>2, <1>6
    <2>2. \A i \in 1 .. Len(p) : m.nodes[p[i]].type # type
      BY <2>1
    <2>. QED  BY <1>3, <1>5, <1>6, <2>2
  <1>7. CASE m.first # NULL /\ m.nodes[m.first].type = type
    <2>1. PICK m2 : m2 = remove_event(m, type)
      OBVIOUS
    <2>2. Len(p) >= 1 /\ m.first = p[1] /\ 1 \in 1 .. Len(p)
      BY <1>1, <1>2, <1>7
    <2>3. /\ Good(m2, Del(p, 1)) /\ Linked(m2) = Del(Linked(m), 1)
          /\ m2.next_interrupt = m.next_interrupt /\ m2.special_done = m.special_done
          /\ m2.failed = m.failed
      <3>1. m2 = free_node([m EXCEPT !.first = m.nodes[m.first].next], m.first)
        BY <1>5, <1>7, <2>1, Zenon
      <3>. QED  BY <2>2, <3>1, FreeFirst
    <2>4. EvqOf(m2) = [q |-> Del(Linked(m), 1), next_interrupt |-> m.next_interrupt,
                       special_done |-> m.special_done, failed |-> m.failed]
      BY <2>3 DEF EvqOf
    <2>5. \A j \in 1 .. 1 - 1 : m.nodes[p[j]].type # type
      OBVIOUS
    <2>6. Q!remove_event(EvqOf(m), type) =
             [q |-> Del(Linked(m), 1), next_interrupt |-> m.next_interrupt,
              special_done |-> m.special_done, failed |-> m.failed]
      BY <1>3, <1>7, <2>2, <2>5, Zenon
    <2>. QED  BY <2>1, <2>3, <2>4, <2>6, Zenon
  <1>8. CASE m.first # NULL /\ m.nodes[m.first].type # type
    <2>1. Len(p) >= 1 /\ m.first = p[1] /\ 1 \in 1 .. Len(p)
      BY <1>1, <1>2, <1>8
    <2>2. PICK k1 : StopsAt(p, 1, A, k1)
      BY <1>1, <2>1, StopExists
    <2>3. A \in SUBSET Nodes
      BY DEF A
    <2>4. e = p[k1]
      <3>1. StopAt(m, p[1], A) = p[k1]
        BY <1>1, <2>1, <2>2, <2>3, StopPath
      <3>. QED  BY <1>4, <2>1, <3>1
    <2>5. k1 \in 1 .. Len(p) /\ Len(p) \in Nat
      BY <1>1, <2>2 DEF StopsAt
    <2>6. m.nodes[e].next = Nth(p, k1 + 1)
      BY <1>1, <2>4, <2>5, ChainFacts
    <2>7. ASSUME NEW j \in 1 .. k1 PROVE m.nodes[p[j]].type # type
      <3>1. CASE j = 1
        BY <1>8, <2>1, <3>1
      <3>2. CASE j # 1
        <4>1. j - 1 \in 1 .. k1 - 1 /\ (j - 1) + 1 = j
          BY <2>5, <3>2
        <4>2. p[j] \in A
          BY <2>2, <4>1 DEF StopsAt
        <4>. QED  BY <4>2 DEF A
      <3>. QED  BY <3>1, <3>2
    <2>8. CASE k1 = Len(p)
      <3>1. m.nodes[e].next = NULL
        BY <2>5, <2>6, <2>8 DEF Nth
      <3>2. \A i \in 1 .. Len(p) : m.nodes[p[i]].type # type
        BY <2>7, <2>8
      <3>. QED  BY <1>3, <1>5, <1>8, <3>1, <3>2
    <2>9. CASE k1 # Len(p)
      <3>1. PICK k \in 2 .. Len(p) : k = k1 + 1
        BY <2>5, <2>9
      <3>2. k \in 1 .. Len(p) /\ k - 1 = k1
        BY <2>5, <3>1
      <3>3. m.nodes[e].next = p[k] /\ p[k] \in Nodes /\ p[k] # NULL
        <4>1. Nth(p, k) = p[k] /\ p[k] \in Nodes /\ p[k] # NULL
          BY <1>1, <3>2, ChainFacts
        <4>. QED  BY <2>6, <3>1, <4>1
      <3>4. m.nodes[p[k]].type = type
        <4>1. p[k] \notin A
          BY <2>2, <2>9, <3>1 DEF StopsAt
        <4>. QED  BY <3>3, <4>1 DEF A
      <3>5. \A j \in 1 .. k - 1 : m.nodes[p[j]].type # type
        BY <2>7, <3>2
      <3>6. PICK m2 : m2 = remove_event(m, type)
        OBVIOUS
      <3>7. m2 = free_node([m EXCEPT !.nodes[p[k - 1]].next = m.nodes[p[k]].next], p[k])
        BY <1>5, <1>8, <2>4, <3>2, <3>3, <3>6, Zenon
      <3>8. /\ Good(m2, Del(p, k)) /\ Linked(m2) = Del(Linked(m), k)
            /\ m2.next_interrupt = m.next_interrupt /\ m2.special_done = m.special_done
            /\ m2.failed = m.failed
        BY <3>7, FreeBehind
      <3>9. EvqOf(m2) = [q |-> Del(Linked(m), k), next_interrupt |-> m.next_interrupt,
                         special_done |-> m.special_done, failed |-> m.failed]
        BY <3>8 DEF EvqOf
      <3>10. Q!remove_event(EvqOf(m), type) =
               [q |-> Del(Linked(m), k), next_interrupt |-> m.next_interrupt,
                special_done |-> m.special_done, failed |-> m.failed]
        BY <1>3, <3>2, <3>4, <3>5, Zenon
      <3>. QED  BY <3>6, <3>8, <3>9, <3>10, Zenon
    <2>. QED  BY <2>8, <2>9
  <1>. QED  BY <1>6, <1>7, <1>8

\* A field of the pool that the links do not depend on.
LEMMA OtherFields ==
    ASSUME NEW m, NEW p, Good(m, p), NEW n \in Q!Counts, NEW s \in BOOLEAN, NEW f \in BOOLEAN,
           NEW m2, m2 = Pool(m.nodes, m.free, m.first, n, s, f)
    PROVE  /\ Good(m2, p)
           /\ EvqOf(m2) = [q |-> Linked(m), next_interrupt |-> n, special_done |-> s, failed |-> f]
  <1>1. m \in Pools
    BY GoodTypes
  <1>2. /\ m2.nodes = m.nodes /\ m2.free = m.free /\ m2.first = m.first
        /\ m2.next_interrupt = n /\ m2.special_done = s /\ m2.failed = f
    BY DEF Pool
  <1>3. m2 \in Pools
    BY <1>1 DEF Pools, Pool
  <1>4. Good(m2, p) /\ Linked(m2) = Linked(m)
    BY <1>2, <1>3, GoodSame
  <1>. QED  BY <1>2, <1>4 DEF EvqOf

\* remove_interrupt_event drops the first event and looks at the one behind it.
LEMMA PopNode ==
    ASSUME NEW m, NEW p, Good(m, p), m.first # NULL
    PROVE  /\ \E r : Good(remove_interrupt_event(m), r)
           /\ EvqOf(remove_interrupt_event(m)) = Q!remove_interrupt_event(EvqOf(m), count)
           /\ EvqOf(m).q # << >>
  <1>1. /\ Chain(m, p) /\ m \in Pools
        /\ p \in Seq(Nodes) /\ Distinct(p)
        /\ m.free \in Seq(Nodes) /\ Distinct(m.free)
        /\ Linked(m) \in Seq(PoolEvents) /\ Len(Linked(m)) = Len(p)
        /\ \A i \in 1 .. Len(p) : Linked(m)[i] = Event(m, p[i])
    BY GoodTypes
  <1>2. /\ m.free = << >> <=> Len(Linked(m)) >= PoolCapacity
        /\ m.first = NULL <=> Linked(m) = << >>
        /\ m.first # NULL => Len(p) >= 1 /\ m.first = p[1] /\ Linked(m)[1] = Event(m, p[1])
    BY FullPool
  <1>3. PICK m1 : m1 = free_node([m EXCEPT !.first = m.nodes[m.first].next], m.first)
    OBVIOUS
  <1>4. PICK r : r = Del(p, 1)
    OBVIOUS
  <1>5. /\ Good(m1, r) /\ Linked(m1) = Tail(Linked(m))
        /\ m1.next_interrupt = m.next_interrupt /\ m1.special_done = m.special_done
        /\ m1.failed = m.failed
    <2>1. /\ Good(m1, Del(p, 1)) /\ Linked(m1) = Del(Linked(m), 1)
          /\ m1.next_interrupt = m.next_interrupt /\ m1.special_done = m.special_done
          /\ m1.failed = m.failed
      BY <1>2, <1>3, FreeFirst
    <2>2. Tail(Linked(m)) = Del(Linked(m), 1)
      BY <1>1, <1>2, TailDel
    <2>. QED  BY <1>4, <2>1, <2>2
  <1>6. /\ m1.free = << >> <=> Len(Linked(m1)) >= PoolCapacity
        /\ m1.first = NULL <=> Linked(m1) = << >>
        /\ m1.first # NULL => Len(r) >= 1 /\ m1.first = r[1] /\ Linked(m1)[1] = Event(m1, r[1])
    BY <1>5, FullPool
  <1>7. m1 \in Pools
    BY <1>5, GoodTypes
  <1>8. PICK c : c = m1.nodes[m1.first].count
    OBVIOUS
  <1>9. m1.first # NULL => Linked(m1)[1].count = c /\ c \in Q!Counts
    <2>1. \A e : Event(m1, e).count = m1.nodes[e].count
      BY DEF Event
    <2>2. m1.first # NULL => m1.nodes[m1.first].count \in Q!Counts
      BY <1>7 DEF Pools
    <2>. QED  BY <1>6, <1>8, <2>1, <2>2
  <1>10. PICK n : n = IF m1.first # NULL /\ (c > count \/ Q!Sub(count, c) < Q!Half) THEN c ELSE 0
    OBVIOUS
  <1>11. n = Q!NextInterrupt(Linked(m1), count)
    <2>1. CASE m1.first = NULL
      BY <1>6, <1>10, <2>1, Zenon DEF Q!NextInterrupt
    <2>2. CASE m1.first # NULL
      BY <1>6, <1>9, <1>10, <2>2, Zenon DEF Q!NextInterrupt
    <2>. QED  BY <2>1, <2>2
  <1>12. n \in Q!Counts
    <2>1. 0 \in Q!Counts
      BY EventPoolAssumption DEF Q!Counts
    <2>. QED  BY <1>9, <1>10, <2>1, Zenon
  <1>13. remove_interrupt_event(m) = [m1 EXCEPT !.next_interrupt = n]
    BY <1>3, <1>8, <1>10, Zenon DEF remove_interrupt_event
  <1>14. [m1 EXCEPT !.next_interrupt = n] =
            Pool(m1.nodes, m1.free, m1.first, n, m1.special_done, m1.failed)
    <2>1. m1 = Pool(m1.nodes, m1.free, m1.first, m1.next_interrupt, m1.special_done, m1.failed)
      BY <1>7, PoolIs
    <2>2. \A a, b, c1, d, f, g : [Pool(a, b, c1, d, f, g) EXCEPT !.next_interrupt = n]
                                  = Pool(a, b, c1, n, f, g)
      BY DEF Pool
    <2>. QED  BY <2>1, <2>2
  <1>15. m1.special_done \in BOOLEAN /\ m1.failed \in BOOLEAN
    BY <1>7 DEF Pools
  <1>16. PICK m2 : m2 = remove_interrupt_event(m)
    OBVIOUS
  <1>17. m2 = Pool(m1.nodes, m1.free, m1.first, n, m1.special_done, m1.failed)
    BY <1>13, <1>14, <1>16, Zenon
  <1>18. /\ Good(m2, r)
         /\ EvqOf(m2) = [q |-> Linked(m1), next_interrupt |-> n,
                         special_done |-> m1.special_done, failed |-> m1.failed]
    <2>1. Good(m1, r)
      BY <1>5
    <2>. QED  BY <1>12, <1>15, <1>17, <2>1, OtherFields
  <1>19. Q!remove_interrupt_event(EvqOf(m), count) =
            [q |-> Tail(Linked(m)), next_interrupt |-> Q!NextInterrupt(Tail(Linked(m)), count),
             special_done |-> m.special_done, failed |-> m.failed]
    <2>1. PICK x : x = Tail(Linked(m))
      OBVIOUS
    <2>2. PICK y : y = Q!NextInterrupt(x, count)
      OBVIOUS
    <2>3. EvqOf(m).q = Linked(m)
      BY DEF EvqOf
    <2>4. Q!remove_interrupt_event(EvqOf(m), count) =
             [[EvqOf(m) EXCEPT !.q = x] EXCEPT !.next_interrupt = y]
      BY <2>1, <2>2, <2>3 DEF Q!remove_interrupt_event
    <2>5. [EvqOf(m) EXCEPT !.q = x] =
             [q |-> x, next_interrupt |-> m.next_interrupt,
              special_done |-> m.special_done, failed |-> m.failed]
      BY DEF EvqOf
    <2>6. [[q |-> x, next_interrupt |-> m.next_interrupt,
            special_done |-> m.special_done, failed |-> m.failed] EXCEPT !.next_interrupt = y] =
             [q |-> x, next_interrupt |-> y,
              special_done |-> m.special_done, failed |-> m.failed]
      OBVIOUS
    <2>. QED  BY <2>1, <2>2, <2>4, <2>5, <2>6, Zenon
  <1>20. EvqOf(m).q # << >>
    BY <1>2 DEF EvqOf
  <1>21. EvqOf(m2) = Q!remove_interrupt_event(EvqOf(m), count)
    BY <1>5, <1>11, <1>18, <1>19, Zenon
  <1>. QED  BY <1>16, <1>18, <1>20, <1>21

\* r4300_check_interrupt puts its event in front of every other.
LEMMA PushNode ==
    ASSUME count \in Q!Counts, NEW m, NEW p, Good(m, p)
    PROVE  /\ \E r : Good(PushCheck(m), r)
           /\ EvqOf(PushCheck(m)) = Q!PushCheck(EvqOf(m), count)
  <1>1. m \in Pools
    BY GoodTypes
  <1>2. /\ m.free = << >> <=> Len(Linked(m)) >= PoolCapacity
        /\ m.first = NULL <=> Linked(m) = << >>
        /\ m.first # NULL => Len(p) >= 1 /\ m.first = p[1] /\ Linked(m)[1] = Event(m, p[1])
    BY FullPool
  <1>3. m = Pool(m.nodes, m.free, m.first, m.next_interrupt, m.special_done, m.failed)
    BY <1>1, PoolIs
  <1>4. m.special_done \in BOOLEAN /\ m.next_interrupt \in Q!Counts
    BY <1>1 DEF Pools
  <1>5. PICK yes \in BOOLEAN : yes = TRUE
    OBVIOUS
  <1>6. /\ Len(Linked(m)) >= PoolCapacity =>
             Q!PushCheck(EvqOf(m), count) =
                [q |-> Linked(m), next_interrupt |-> m.next_interrupt,
                 special_done |-> m.special_done, failed |-> TRUE]
        /\ ~(Len(Linked(m)) >= PoolCapacity) =>
             Q!PushCheck(EvqOf(m), count) =
                [q |-> <<[type |-> Q!CHECK_INT, count |-> count]>> \o Linked(m),
                 next_interrupt |-> count,
                 special_done |-> m.special_done, failed |-> m.failed]
    BY DEF Q!PushCheck, EvqOf
  <1>7. CASE m.free = << >>
    <2>1. [m EXCEPT !.failed = yes] =
             Pool(m.nodes, m.free, m.first, m.next_interrupt, m.special_done, yes)
      <3>1. \A a, b, c, d, f, g : [Pool(a, b, c, d, f, g) EXCEPT !.failed = yes]
                                   = Pool(a, b, c, d, f, yes)
        BY DEF Pool
      <3>. QED  BY <1>3, <3>1
    <2>2. PICK m2 : m2 = PushCheck(m)
      OBVIOUS
    <2>3. m2 = Pool(m.nodes, m.free, m.first, m.next_interrupt, m.special_done, yes)
      BY <1>5, <1>7, <2>1, <2>2, Zenon DEF PushCheck
    <2>4. /\ Good(m2, p)
          /\ EvqOf(m2) = [q |-> Linked(m), next_interrupt |-> m.next_interrupt,
                          special_done |-> m.special_done, failed |-> yes]
      BY <1>4, <2>3, OtherFields
    <2>. QED  BY <1>2, <1>5, <1>6, <1>7, <2>2, <2>4, Zenon
  <1>8. CASE m.free # << >>
    <2>1. PICK type \in PoolTypes : type = Q!CHECK_INT
      BY DEF PoolTypes, Q!EventTypes
    <2>2. PICK done \in BOOLEAN : done = m.special_done
      BY <1>4
    <2>3. [m EXCEPT !.special_done = done] = m
      BY <1>1, <2>2 DEF Pools
    <2>4. /\ alloc_node([m EXCEPT !.special_done = done], type, count) =
               Taken(m, done, type, count)
          /\ Head(m.free) \in Nodes /\ ~On(p, Head(m.free))
          /\ TakenNodes(m, type, count) =
                [e \in Nodes |-> IF e = Head(m.free)
                                 THEN [type |-> type, count |-> count, next |-> NULL]
                                 ELSE m.nodes[e]]
      BY <1>8, TakenNode
    <2>5. PushCheck(m) = LinkFirst(Taken(m, done, type, count), Head(m.free))
      BY <1>8, <2>1, <2>3, <2>4, Zenon DEF PushCheck, FreeNode
    <2>6. /\ \E r : Good(LinkFirst(Taken(m, done, type, count), Head(m.free)), r)
          /\ EvqOf(LinkFirst(Taken(m, done, type, count), Head(m.free))) =
                [q |-> <<[type |-> type, count |-> count]>> \o Linked(m),
                 next_interrupt |-> count, special_done |-> done, failed |-> m.failed]
      BY <1>8, FrontPool
    <2>. QED  BY <1>2, <1>6, <1>8, <2>1, <2>2, <2>5, <2>6, Zenon
  <1>. QED  BY <1>7, <1>8

\* clear_queue leaves an empty list and every node on the stack.
LEMMA ClearNodes ==
    ASSUME NEW m \in Pools, NEW m2, m2 = clear_queue(m)
    PROVE  /\ Good(m2, << >>)
           /\ EvqOf(m2) = [q |-> << >>, next_interrupt |-> m.next_interrupt,
                           special_done |-> m.special_done, failed |-> m.failed]
           /\ m2.next_interrupt = m.next_interrupt /\ m2.special_done = m.special_done
           /\ m2.failed = m.failed
  <1>1. PICK all : all = [i \in Nodes |-> i]
    OBVIOUS
  <1>2. PICK nodes : nodes = [e \in Nodes |-> Blank]
    OBVIOUS
  <1>3. m2 = Pool(nodes, all, NULL, m.next_interrupt, m.special_done, m.failed)
    <2>1. m = Pool(m.nodes, m.free, m.first, m.next_interrupt, m.special_done, m.failed)
      BY PoolIs
    <2>2. PICK null : null = NULL
      OBVIOUS
    <2>3. m2 = [[[m EXCEPT !.first = null] EXCEPT !.free = all] EXCEPT !.nodes = nodes]
      BY <1>1, <1>2, <2>2 DEF clear_queue
    <2>4. \A a, b, c, d, f, g : [Pool(a, b, c, d, f, g) EXCEPT !.first = null]
                                  = Pool(a, b, null, d, f, g)
      BY DEF Pool
    <2>5. \A a, b, c, d, f, g : [Pool(a, b, c, d, f, g) EXCEPT !.free = all]
                                  = Pool(a, all, c, d, f, g)
      BY DEF Pool
    <2>6. \A a, b, c, d, f, g : [Pool(a, b, c, d, f, g) EXCEPT !.nodes = nodes]
                                  = Pool(nodes, b, c, d, f, g)
      BY DEF Pool
    <2>7. [m EXCEPT !.first = null] =
             Pool(m.nodes, m.free, null, m.next_interrupt, m.special_done, m.failed)
      BY <2>1, <2>4
    <2>8. [Pool(m.nodes, m.free, null, m.next_interrupt, m.special_done, m.failed)
             EXCEPT !.free = all] =
             Pool(m.nodes, all, null, m.next_interrupt, m.special_done, m.failed)
      BY <2>5
    <2>9. [Pool(m.nodes, all, null, m.next_interrupt, m.special_done, m.failed)
             EXCEPT !.nodes = nodes] =
             Pool(nodes, all, null, m.next_interrupt, m.special_done, m.failed)
      BY <2>6
    <2>. QED  BY <2>2, <2>3, <2>7, <2>8, <2>9, Zenon
  <1>4. /\ m2.nodes = nodes /\ m2.free = all /\ m2.first = NULL
        /\ m2.next_interrupt = m.next_interrupt /\ m2.special_done = m.special_done
        /\ m2.failed = m.failed
    BY <1>3 DEF Pool
  <1>5. all \in Seq(Nodes) /\ Len(all) = PoolCapacity /\ \A i \in 1 .. PoolCapacity : all[i] = i
    BY <1>1, EventPoolAssumption DEF Nodes
  <1>6. m2 \in Pools
    <2>. DEFINE NodeRecords == [type : PoolTypes, count : Q!Counts, next : Nodes \cup {NULL}]
    <2>1. 0 \in Q!Counts /\ "free" \in PoolTypes
      BY EventPoolAssumption DEF Q!Counts, PoolTypes
    <2>2. Blank \in NodeRecords
      BY <2>1 DEF Blank
    <2>3. m.next_interrupt \in Q!Counts /\ m.failed \in BOOLEAN /\ m.special_done \in BOOLEAN
      BY DEF Pools
    <2>. HIDE DEF NodeRecords
    <2>4. nodes \in [Nodes -> NodeRecords]
      BY <1>2, <2>2
    <2>5. m2 \in [nodes : [Nodes -> NodeRecords], free : Seq(Nodes), first : Nodes \cup {NULL},
                  next_interrupt : Q!Counts, special_done : BOOLEAN, failed : BOOLEAN]
      BY <1>3, <1>5, <2>3, <2>4 DEF Pool
    <2>. QED  BY <2>5 DEF Pools, PoolTypes, NodeRecords
  <1>7. << >> \in Seq(Nodes) /\ Len(<< >>) = 0
    OBVIOUS
  <1>8. \A e \in Nodes : m2.nodes[e].next = NULL
    <2>1. Blank.next = NULL
      BY DEF Blank
    <2>. QED  BY <1>2, <1>4, <2>1
  <1>9. Chain(m2, << >>)
    BY <1>4, <1>6, <1>7, <1>8 DEF Chain, Distinct, Nth
  <1>10. Distinct(m2.free)
    BY <1>4, <1>5 DEF Distinct
  <1>11. \A e \in Nodes : On(<< >>, e) <=> ~On(m2.free, e)
    <2>1. ASSUME NEW e \in Nodes PROVE On(m2.free, e) /\ ~On(<< >>, e)
      <3>1. e \in 1 .. PoolCapacity
        BY DEF Nodes
      <3>. QED  BY <1>4, <1>5, <1>7, <3>1 DEF On
    <2>. QED  BY <2>1
  <1>12. Good(m2, << >>)
    BY <1>4, <1>5, <1>7, <1>9, <1>10, <1>11, EventPoolAssumption DEF Good
  <1>13. Linked(m2) = << >>
    <2>1. Linked(m2) \in Seq(PoolEvents) /\ Len(Linked(m2)) = Len(<< >>)
      BY <1>12, GoodTypes
    <2>. QED  BY <1>7, <2>1, EmptySeq
  <1>. QED  BY <1>4, <1>12, <1>13 DEF EvqOf

\* init_interrupt.
LEMMA InitNodes ==
    ASSUME count \in Q!Counts, NEW m \in Pools
    PROVE  /\ \E r : Good(init_interrupt(m), r)
           /\ EvqOf(init_interrupt(m)) = Q!init_interrupt(EvqOf(m), count)
  <1>1. PICK m1 : m1 = clear_queue(m)
    OBVIOUS
  <1>2. /\ Good(m1, << >>)
        /\ EvqOf(m1) = [q |-> << >>, next_interrupt |-> m.next_interrupt,
                        special_done |-> m.special_done, failed |-> m.failed]
        /\ m1.next_interrupt = m.next_interrupt /\ m1.special_done = m.special_done
        /\ m1.failed = m.failed
    BY <1>1, ClearNodes
  <1>3. PICK yes \in BOOLEAN : yes = TRUE
    OBVIOUS
  <1>4. PICK m2 : m2 = [m1 EXCEPT !.special_done = yes]
    OBVIOUS
  <1>5. m1 \in Pools
    BY <1>2, GoodTypes
  <1>6. m2 = Pool(m1.nodes, m1.free, m1.first, m1.next_interrupt, yes, m1.failed)
    <2>1. m1 = Pool(m1.nodes, m1.free, m1.first, m1.next_interrupt, m1.special_done, m1.failed)
      BY <1>5, PoolIs
    <2>2. \A a, b, c, d, f, g : [Pool(a, b, c, d, f, g) EXCEPT !.special_done = yes]
                                  = Pool(a, b, c, d, yes, g)
      BY DEF Pool
    <2>. QED  BY <1>4, <2>1, <2>2
  <1>7. Linked(m1) = << >>
    <2>1. EvqOf(m1).q = Linked(m1)
      BY DEF EvqOf
    <2>. QED  BY <1>2, <2>1
  <1>8. /\ Good(m2, << >>)
        /\ EvqOf(m2) = [q |-> Linked(m1), next_interrupt |-> m1.next_interrupt,
                        special_done |-> yes, failed |-> m1.failed]
    <2>1. m1.next_interrupt \in Q!Counts /\ m1.failed \in BOOLEAN
      BY <1>5 DEF Pools
    <2>2. Good(m1, << >>)
      BY <1>2
    <2>. QED  BY <1>6, <2>1, <2>2, OtherFields
  <1>9. PICK type \in PoolTypes : type = Q!SPECIAL_INT
    BY DEF PoolTypes, Q!EventTypes
  <1>10. PICK zero \in Q!Counts : zero = 0
    BY EventPoolAssumption DEF Q!Counts
  <1>11. /\ \E r : Good(add_interrupt_event_count(m2, type, zero), r)
         /\ EvqOf(add_interrupt_event_count(m2, type, zero)) =
               Q!add_interrupt_event_count(EvqOf(m2), count, type, zero)
    BY <1>8, AddNode
  <1>12. init_interrupt(m) = add_interrupt_event_count(m2, type, zero)
    BY <1>1, <1>3, <1>4, <1>9, <1>10, Zenon DEF init_interrupt
  <1>13. Q!init_interrupt(EvqOf(m), count) = Q!add_interrupt_event_count(EvqOf(m2), count, type, zero)
    <2>1. PICK empty : empty = << >>
      OBVIOUS
    <2>2. Q!init_interrupt(EvqOf(m), count) = Q!add_interrupt_event_count(
             [EvqOf(m) EXCEPT !.q = empty, !.special_done = yes], count, type, zero)
      BY <1>3, <1>9, <1>10, <2>1, Zenon DEF Q!init_interrupt
    <2>3. [EvqOf(m) EXCEPT !.q = empty, !.special_done = yes] =
             [[EvqOf(m) EXCEPT !.q = empty] EXCEPT !.special_done = yes]
      OBVIOUS
    <2>4. [EvqOf(m) EXCEPT !.q = empty] =
             [q |-> empty, next_interrupt |-> m.next_interrupt,
              special_done |-> m.special_done, failed |-> m.failed]
      BY DEF EvqOf
    <2>5. [[q |-> empty, next_interrupt |-> m.next_interrupt,
            special_done |-> m.special_done, failed |-> m.failed] EXCEPT !.special_done = yes] =
             [q |-> empty, next_interrupt |-> m.next_interrupt,
              special_done |-> yes, failed |-> m.failed]
      OBVIOUS
    <2>6. EvqOf(m2) = [q |-> empty, next_interrupt |-> m.next_interrupt,
                       special_done |-> yes, failed |-> m.failed]
      BY <1>2, <1>7, <1>8, <2>1, Zenon
    <2>. QED  BY <2>2, <2>3, <2>4, <2>5, <2>6, Zenon
  <1>. QED  BY <1>11, <1>12, <1>13, Zenon

\* The pool before init_interrupt first runs.
LEMMA PoweronNodes ==
    /\ Poweron \in Pools
    /\ EvqOf(Poweron) = [q |-> << >>, next_interrupt |-> 0, special_done |-> FALSE,
                         failed |-> FALSE]
  <1>. DEFINE NodeRecords == [type : PoolTypes, count : Q!Counts, next : Nodes \cup {NULL}]
              m == Poweron
  <1>1. 0 \in Q!Counts /\ "free" \in PoolTypes
    BY EventPoolAssumption DEF Q!Counts, PoolTypes
  <1>2. Blank \in NodeRecords /\ Blank.next = NULL
    BY <1>1 DEF Blank
  <1>3. PICK nodes : nodes = [e \in Nodes |-> Blank]
    OBVIOUS
  <1>4. m = [nodes |-> nodes, free |-> << >>, first |-> NULL,
             next_interrupt |-> 0, special_done |-> FALSE, failed |-> FALSE]
    BY <1>3, Zenon DEF Poweron
  <1>5. nodes \in [Nodes -> NodeRecords]
    BY <1>2, <1>3
  <1>6. /\ m.nodes = nodes /\ m.first = NULL /\ m.next_interrupt = 0
        /\ m.special_done = FALSE /\ m.failed = FALSE
    <2>. HIDE DEF m
    <2>. QED  BY <1>4
  <1>. HIDE DEF NodeRecords, m
  <1>7. m \in Pools
    <2>1. << >> \in Seq(Nodes)
      OBVIOUS
    <2>2. m \in [nodes : [Nodes -> NodeRecords], free : Seq(Nodes), first : Nodes \cup {NULL},
                 next_interrupt : Q!Counts, special_done : BOOLEAN, failed : BOOLEAN]
      BY <1>1, <1>4, <1>5, <2>1
    <2>. QED  BY <2>2 DEF Pools, PoolTypes, NodeRecords
  <1>8. \A e \in Nodes : m.nodes[e].next = NULL
    BY <1>2, <1>3, <1>6
  <1>9. << >> \in Seq(Nodes) /\ Len(<< >>) = 0
    OBVIOUS
  <1>10. Chain(m, << >>)
    BY <1>6, <1>7, <1>8, <1>9 DEF Chain, Distinct, Nth
  <1>11. Linked(m) = [i \in 1 .. Len(<< >>) |-> Event(m, << >>[i])]
    BY <1>10, LinkedPath
  <1>12. Linked(m) = << >>
    BY <1>9, <1>11
  <1>13. EvqOf(m) = [q |-> << >>, next_interrupt |-> 0, special_done |-> FALSE, failed |-> FALSE]
    BY <1>6, <1>12, Zenon DEF EvqOf
  <1>. QED  BY <1>7, <1>13 DEF m

\* The wrapped arithmetic on counts stays in the range of the Count register.
LEMMA CountArith ==
    ASSUME NEW a \in Q!Counts, NEW b \in Q!Counts
    PROVE  Q!Sub(a, b) \in Q!Counts /\ Q!Plus(a, b) \in Q!Counts
  BY EventPoolAssumption DEF Q!Counts, Q!Sub, Q!Plus

\* The pool once Count has become base.
Shifted(m, base) ==
    [m EXCEPT !.nodes = [e \in Nodes |->
        IF e \in ListNodes(m)
        THEN [m.nodes[e] EXCEPT !.count = Q!Plus(Q!Sub(@, count), base)]
        ELSE m.nodes[e]]]

\* Every event of the list moves with Count, wherever its node is.
LEMMA ShiftNodes ==
    ASSUME count \in Q!Counts, NEW base \in Q!Counts, NEW m, NEW p, Good(m, p), NEW m2,
           m2 = Shifted(m, base)
    PROVE  /\ Good(m2, p)
           /\ EvqOf(m2) = [EvqOf(m) EXCEPT !.q = [i \in DOMAIN EvqOf(m).q |->
                             [EvqOf(m).q[i] EXCEPT !.count = Q!Plus(Q!Sub(@, count), base)]]]
  <1>1. /\ Chain(m, p) /\ m \in Pools
        /\ p \in Seq(Nodes) /\ Distinct(p)
        /\ m.free \in Seq(Nodes) /\ Distinct(m.free)
        /\ Linked(m) \in Seq(PoolEvents) /\ Len(Linked(m)) = Len(p)
        /\ \A i \in 1 .. Len(p) : Linked(m)[i] = Event(m, p[i])
    BY GoodTypes
  <1>. DEFINE Shift(c) == Q!Plus(Q!Sub(c, count), base)
              live == ListNodes(m)
              NodeRecords == [type : PoolTypes, count : Q!Counts, next : Nodes \cup {NULL}]
  <1>2. \A c \in Q!Counts : Shift(c) \in Q!Counts
    BY CountArith
  <1>. HIDE DEF Shift
  <1>3. PICK nodes : nodes = [e \in Nodes |-> IF e \in live
                                THEN [m.nodes[e] EXCEPT !.count = Shift(m.nodes[e].count)]
                                ELSE m.nodes[e]]
    OBVIOUS
  <1>4. m2 = Pool(nodes, m.free, m.first, m.next_interrupt, m.special_done, m.failed)
    <2>1. m = Pool(m.nodes, m.free, m.first, m.next_interrupt, m.special_done, m.failed)
      BY <1>1, PoolIs
    <2>2. \A a, b, c, d, f, g : [Pool(a, b, c, d, f, g) EXCEPT !.nodes = nodes]
                                  = Pool(nodes, b, c, d, f, g)
      BY DEF Pool
    <2>3. [m EXCEPT !.nodes = nodes] =
             Pool(nodes, m.free, m.first, m.next_interrupt, m.special_done, m.failed)
      BY <2>1, <2>2
    <2>4. m2 = [m EXCEPT !.nodes = nodes]
      BY <1>3, Zenon DEF Shift, Shifted
    <2>. QED  BY <2>3, <2>4
  <1>5. /\ m2.nodes = nodes /\ m2.free = m.free /\ m2.first = m.first
        /\ m2.next_interrupt = m.next_interrupt /\ m2.special_done = m.special_done
        /\ m2.failed = m.failed
    BY <1>4 DEF Pool
  <1>6. m.nodes \in [Nodes -> NodeRecords]
    BY <1>1 DEF Pools, PoolTypes
  <1>7. ASSUME NEW e \in Nodes
        PROVE  /\ nodes[e] \in NodeRecords /\ nodes[e].next = m.nodes[e].next
               /\ nodes[e].type = m.nodes[e].type
               /\ e \in live => nodes[e].count = Shift(m.nodes[e].count)
    <2>1. m.nodes[e] \in NodeRecords
      BY <1>6
    <2>2. CASE e \in live
      <3>1. PICK c : c = Shift(m.nodes[e].count)
        OBVIOUS
      <3>2. nodes[e] = [m.nodes[e] EXCEPT !.count = c]
        BY <1>3, <2>2, <3>1
      <3>3. c \in Q!Counts
        BY <1>2, <2>1, <3>1
      <3>. QED  BY <2>1, <2>2, <3>1, <3>2, <3>3
    <2>3. CASE e \notin live
      BY <1>3, <2>1, <2>3
    <2>. QED  BY <2>2, <2>3
  <1>8. m2 \in Pools
    <2>1. /\ m.first \in Nodes \cup {NULL} /\ m.next_interrupt \in Q!Counts
          /\ m.failed \in BOOLEAN /\ m.special_done \in BOOLEAN
      BY <1>1 DEF Pools
    <2>. HIDE DEF NodeRecords
    <2>2. nodes \in [Nodes -> NodeRecords]
      <3>1. nodes = [e \in Nodes |-> nodes[e]]
        BY <1>3, Zenon
      <3>2. \A e \in Nodes : nodes[e] \in NodeRecords
        BY <1>7
      <3>. QED  BY <3>1, <3>2
    <2>3. m2 \in [nodes : [Nodes -> NodeRecords], free : Seq(Nodes), first : Nodes \cup {NULL},
                  next_interrupt : Q!Counts, special_done : BOOLEAN, failed : BOOLEAN]
      <3>1. m.free \in Seq(Nodes)
        BY <1>1
      <3>. QED  BY <1>4, <2>1, <2>2, <3>1 DEF Pool
    <2>. QED  BY <2>3 DEF Pools, PoolTypes, NodeRecords
  <1>9. Chain(m2, p)
    <2>1. \A e \in Nodes : m2.nodes[e].next = m.nodes[e].next
      BY <1>5, <1>7
    <2>. QED  BY <1>1, <1>5, <1>8, <2>1, ChainSame
  <1>10. Good(m2, p)
    BY <1>5, <1>9 DEF Good
  <1>11. ASSUME NEW i \in 1 .. Len(p)
         PROVE  Event(m2, p[i]) = [Linked(m)[i] EXCEPT !.count = Shift(@)]
    <2>1. p[i] \in Nodes /\ p[i] \in live
      <3>1. ListNodes(m) = {p[j] : j \in 1 .. Len(p)}
        BY <1>1, ListPath
      <3>. QED  BY <1>1, <3>1
    <2>2. m2.nodes[p[i]].type = m.nodes[p[i]].type /\ m2.nodes[p[i]].count = Shift(m.nodes[p[i]].count)
      BY <1>5, <1>7, <2>1
    <2>3. PICK t : t = m.nodes[p[i]].type
      OBVIOUS
    <2>4. PICK c : c = m.nodes[p[i]].count
      OBVIOUS
    <2>5. Linked(m)[i] = [type |-> t, count |-> c]
      BY <1>1, <2>3, <2>4 DEF Event
    <2>6. [Linked(m)[i] EXCEPT !.count = Shift(@)] = [type |-> t, count |-> Shift(c)]
      BY <2>5
    <2>. QED  BY <2>2, <2>3, <2>4, <2>6 DEF Event
  <1>12. Linked(m2) = [i \in 1 .. Len(p) |-> Event(m2, p[i])]
    BY <1>9, LinkedPath
  <1>13. Linked(m2) = [i \in 1 .. Len(p) |-> [Linked(m)[i] EXCEPT !.count = Shift(@)]]
    <2>. DEFINE F(i) == [Linked(m)[i] EXCEPT !.count = Shift(@)]
    <2>1. \A i \in 1 .. Len(p) : Event(m2, p[i]) = F(i)
      BY <1>11
    <2>. HIDE DEF F
    <2>2. Linked(m2) = [i \in 1 .. Len(p) |-> F(i)]
      BY <1>12, <2>1
    <2>. QED  BY <2>2, Zenon DEF F
  <1>14. EvqOf(m).q = Linked(m) /\ DOMAIN Linked(m) = 1 .. Len(p)
    BY <1>1 DEF EvqOf
  <1>15. PICK q2 : q2 = [i \in DOMAIN EvqOf(m).q |-> [EvqOf(m).q[i] EXCEPT !.count = Shift(@)]]
    OBVIOUS
  <1>16. Linked(m2) = q2
    BY <1>13, <1>14, <1>15, Zenon
  <1>17. EvqOf(m2) = [EvqOf(m) EXCEPT !.q = q2]
    BY <1>5, <1>16 DEF EvqOf
  <1>. QED  BY <1>10, <1>15, <1>17, Zenon DEF Shift

\* MTC0 Count.
LEMMA TranslateNodes ==
    ASSUME count \in Q!Counts, NEW compare \in Q!Counts, NEW base \in Q!Counts,
           NEW m, NEW p, Good(m, p)
    PROVE  /\ \E r : Good(translate_event_queue(m, compare, base), r)
           /\ EvqOf(translate_event_queue(m, compare, base)) =
                 Q!translate_event_queue(EvqOf(m), count, compare, base)
  <1>1. PICK t1 \in PoolTypes : t1 = Q!COMPARE_INT
    BY DEF PoolTypes, Q!EventTypes
  <1>2. PICK t2 \in PoolTypes : t2 = Q!SPECIAL_INT
    BY DEF PoolTypes, Q!EventTypes
  <1>3. PICK zero \in Q!Counts : zero = 0
    BY EventPoolAssumption DEF Q!Counts
  <1>4. PICK ma : ma = remove_event(m, t1)
    OBVIOUS
  <1>5. (\E r : Good(ma, r)) /\ EvqOf(ma) = Q!remove_event(EvqOf(m), t1)
    BY <1>4, DropNode
  <1>6. PICK pa : Good(ma, pa)
    BY <1>5
  <1>7. PICK mb : mb = remove_event(ma, t2)
    OBVIOUS
  <1>8. (\E r : Good(mb, r)) /\ EvqOf(mb) = Q!remove_event(EvqOf(ma), t2)
    BY <1>6, <1>7, DropNode
  <1>9. PICK pb : Good(mb, pb)
    BY <1>8
  <1>10. PICK mc : mc = Shifted(mb, base)
    OBVIOUS
  <1>11. /\ Good(mc, pb)
         /\ EvqOf(mc) = [EvqOf(mb) EXCEPT !.q = [i \in DOMAIN EvqOf(mb).q |->
                           [EvqOf(mb).q[i] EXCEPT !.count = Q!Plus(Q!Sub(@, count), base)]]]
    BY <1>9, <1>10, ShiftNodes
  <1>12. PICK md : md = add_interrupt_event_count(mc, t1, compare)
    OBVIOUS
  <1>13. /\ \E r : Good(md, r)
         /\ EvqOf(md) = Q!add_interrupt_event_count(EvqOf(mc), count, t1, compare)
    BY <1>11, <1>12, AddNode
  <1>14. PICK pd : Good(md, pd)
    BY <1>13
  <1>15. PICK me : me = add_interrupt_event_count(md, t2, zero)
    OBVIOUS
  <1>16. /\ \E r : Good(me, r)
         /\ EvqOf(me) = Q!add_interrupt_event_count(EvqOf(md), count, t2, zero)
    BY <1>14, <1>15, AddNode
  <1>17. translate_event_queue(m, compare, base) = me
    BY <1>1, <1>2, <1>3, <1>4, <1>7, <1>10, <1>12, <1>15, Zenon DEF translate_event_queue, Shifted
  <1>18. Q!translate_event_queue(EvqOf(m), count, compare, base) =
            Q!add_interrupt_event_count(EvqOf(md), count, t2, zero)
    BY <1>1, <1>2, <1>3, <1>5, <1>8, <1>11, <1>13, Zenon DEF Q!translate_event_queue
  <1>. QED  BY <1>16, <1>17, <1>18

\* The equations that define the reload of an image, of its first n events and
\* of all of them on the sequence.
LoadEq(m, image, n, f) ==
    f = [i \in 0 .. n |->
            IF i = 0 THEN clear_queue(m)
            ELSE add_interrupt_event_count(f[i - 1], image[i].type, image[i].count)]
QueueLoadEq(e, image, f) ==
    f = [i \in 0 .. Len(image) |->
            IF i = 0 THEN [e EXCEPT !.q = << >>]
            ELSE Q!add_interrupt_event_count(f[i - 1], count, image[i].type, image[i].count)]

\* The reload of n events is defined for every n.
LEMMA LoadSolution ==
    ASSUME NEW m, NEW image, NEW N \in Nat
    PROVE  \E f : LoadEq(m, image, N, f)
  <1>. DEFINE T == {n \in Nat : ~\E f : LoadEq(m, image, n, f)}
  <1>1. T = {}
    <2>1. SUFFICES ASSUME T # {} PROVE FALSE
      OBVIOUS
    <2>2. PICK n \in T : \A l \in T : n <= l
      BY <2>1, LeastExists
    <2>3. n \in Nat /\ ~\E f : LoadEq(m, image, n, f)
      BY <2>2
    <2>4. CASE n = 0
      <3>. DEFINE f == [i \in 0 .. 0 |-> clear_queue(m)]
      <3>1. f = [i \in 0 .. 0 |->
                  IF i = 0 THEN clear_queue(m)
                  ELSE add_interrupt_event_count(f[i - 1], image[i].type, image[i].count)]
        OBVIOUS
      <3>2. LoadEq(m, image, 0, f)
        BY <3>1 DEF LoadEq
      <3>. QED  BY <2>3, <2>4, <3>2
    <2>5. CASE n # 0
      <3>1. n - 1 \in Nat /\ ~(n <= n - 1)
        BY <2>3, <2>5
      <3>2. n - 1 \notin T
        BY <2>2, <3>1
      <3>3. PICK g : LoadEq(m, image, n - 1, g)
        BY <3>1, <3>2
      <3>. DEFINE v == add_interrupt_event_count(g[n - 1], image[n].type, image[n].count)
                  f == [i \in 0 .. n |-> IF i <= n - 1 THEN g[i] ELSE v]
      <3>4. \A i \in 0 .. n - 1 : g[i] =
                IF i = 0 THEN clear_queue(m)
                ELSE add_interrupt_event_count(g[i - 1], image[i].type, image[i].count)
        BY <3>3, Zenon DEF LoadEq
      <3>5. ASSUME NEW i \in 0 .. n
            PROVE  f[i] = IF i = 0 THEN clear_queue(m)
                   ELSE add_interrupt_event_count(f[i - 1], image[i].type, image[i].count)
        <4>1. CASE i <= n - 1
          <5>1. i \in 0 .. n - 1 /\ f[i] = g[i]
            BY <2>3, <4>1
          <5>2. i # 0 => f[i - 1] = g[i - 1]
            <6>1. i # 0 => i - 1 \in 0 .. n /\ i - 1 <= n - 1
              BY <2>3, <4>1
            <6>. QED  BY <6>1
          <5>. HIDE DEF f
          <5>. QED  BY <3>4, <5>1, <5>2, Zenon
        <4>2. CASE ~(i <= n - 1)
          <5>1. i = n /\ i # 0
            BY <2>3, <2>5, <4>2
          <5>2. f[i] = v
            BY <4>2
          <5>3. f[i - 1] = g[n - 1]
            BY <2>3, <3>1, <5>1
          <5>. HIDE DEF f
          <5>. QED  BY <5>1, <5>2, <5>3, Zenon
        <4>. QED  BY <4>1, <4>2
      <3>6. f = [i \in 0 .. n |->
                  IF i = 0 THEN clear_queue(m)
                  ELSE add_interrupt_event_count(f[i - 1], image[i].type, image[i].count)]
        <4>1. f = [i \in 0 .. n |-> f[i]]
          OBVIOUS
        <4>. HIDE DEF f
        <4>. DEFINE F(i) == IF i = 0 THEN clear_queue(m)
                     ELSE add_interrupt_event_count(f[i - 1], image[i].type, image[i].count)
        <4>2. \A i \in 0 .. n : f[i] = F(i)
          BY <3>5
        <4>. HIDE DEF F
        <4>3. f = [i \in 0 .. n |-> F(i)]
          BY <4>1, <4>2
        <4>. QED  BY <4>3, Zenon DEF F
      <3>. HIDE DEF f
      <3>7. LoadEq(m, image, n, f)
        BY <3>6, Zenon DEF LoadEq
      <3>. QED  BY <2>3, <3>7
    <2>. QED  BY <2>4, <2>5
  <1>. QED  BY <1>1

\* load_eventqueue_infos.
LEMMA LoadNodes ==
    ASSUME count \in Q!Counts, NEW m \in Pools, NEW image \in Seq(PoolEvents)
    PROVE  /\ \E r : Good(load_eventqueue_infos(m, image), r)
           /\ EvqOf(load_eventqueue_infos(m, image)) =
                 Q!load_eventqueue_infos(EvqOf(m), count, image)
  <1>. DEFINE N == Len(image)
              f == CHOOSE g : LoadEq(m, image, N, g)
  <1>0. N \in Nat
    OBVIOUS
  <1>1. LoadEq(m, image, N, f)
    BY <1>0, LoadSolution
  <1>2. load_eventqueue_infos(m, image) = f[N]
    BY DEF load_eventqueue_infos, LoadEq
  <1>. HIDE DEF f
  <1>3. /\ f[0] = clear_queue(m)
        /\ \A i \in 1 .. N : f[i] =
              add_interrupt_event_count(f[i - 1], image[i].type, image[i].count)
    <2>1. \A i \in 0 .. N : f[i] = IF i = 0 THEN clear_queue(m)
             ELSE add_interrupt_event_count(f[i - 1], image[i].type, image[i].count)
      BY <1>1, Zenon DEF LoadEq
    <2>2. 0 \in 0 .. N /\ \A i \in 1 .. N : i \in 0 .. N /\ i # 0
      OBVIOUS
    <2>. QED  BY <2>1, <2>2, Zenon
  <1>4. \A i \in 1 .. N : image[i].type \in PoolTypes /\ image[i].count \in Q!Counts
    <2>1. \A i \in 1 .. N : image[i] \in PoolEvents
      OBVIOUS
    <2>. QED  BY <2>1 DEF PoolEvents, PoolTypes
  <1>5. /\ Good(f[0], << >>)
        /\ EvqOf(f[0]) = [EvqOf(m) EXCEPT !.q = << >>]
    <2>1. /\ Good(f[0], << >>)
          /\ EvqOf(f[0]) = [q |-> << >>, next_interrupt |-> m.next_interrupt,
                          special_done |-> m.special_done, failed |-> m.failed]
          /\ f[0].next_interrupt = m.next_interrupt /\ f[0].special_done = m.special_done
          /\ f[0].failed = m.failed
      BY <1>3, ClearNodes
    <2>2. PICK empty : empty = << >>
      OBVIOUS
    <2>3. [EvqOf(m) EXCEPT !.q = empty] =
             [q |-> empty, next_interrupt |-> m.next_interrupt,
              special_done |-> m.special_done, failed |-> m.failed]
      BY DEF EvqOf
    <2>. QED  BY <2>1, <2>2, <2>3, Zenon
  <1>. DEFINE Step(i) ==
                 /\ \E r : Good(f[i], r)
                 /\ EvqOf(f[i]) = Q!add_interrupt_event_count(EvqOf(f[i - 1]), count,
                                                              image[i].type, image[i].count)
  <1>6. ASSUME NEW i \in 1 .. N, \E r : Good(f[i - 1], r) PROVE Step(i)
    <2>1. PICK r : Good(f[i - 1], r)
      BY <1>6
    <2>2. PICK type \in PoolTypes : type = image[i].type
      BY <1>4
    <2>3. PICK evt \in Q!Counts : evt = image[i].count
      BY <1>4
    <2>4. PICK m1 : m1 = f[i - 1]
      OBVIOUS
    <2>5. Good(m1, r)
      BY <2>1, <2>4
    <2>6. /\ \E s : Good(add_interrupt_event_count(m1, type, evt), s)
          /\ EvqOf(add_interrupt_event_count(m1, type, evt)) =
                 Q!add_interrupt_event_count(EvqOf(m1), count, type, evt)
      BY <2>5, AddNode
    <2>7. f[i] = add_interrupt_event_count(m1, type, evt)
      BY <1>3, <2>2, <2>3, <2>4, Zenon
    <2>. QED  BY <2>2, <2>3, <2>4, <2>6, <2>7, Zenon
  <1>7. \A i \in 0 .. N : \E r : Good(f[i], r)
    <2>. DEFINE T == {i \in 0 .. N : ~\E r : Good(f[i], r)}
    <2>1. SUFFICES ASSUME T # {} PROVE FALSE
      OBVIOUS
    <2>2. PICK i \in T : \A l \in T : i <= l
      <3>1. T \subseteq Nat
        OBVIOUS
      <3>. HIDE DEF T
      <3>. QED  BY <2>1, <3>1, LeastExists
    <2>3. i # 0
      BY <1>5, <2>2
    <2>4. i \in 1 .. N /\ i - 1 \in 0 .. N /\ ~(i <= i - 1)
      <3>1. i \in 0 .. N
        BY <2>2
      <3>. HIDE DEF T, N
      <3>. QED  BY <1>0, <2>3, <3>1
    <2>5. \E r : Good(f[i - 1], r)
      BY <2>2, <2>4
    <2>6. Step(i)
      BY <1>6, <2>4, <2>5
    <2>. QED  BY <2>2, <2>6
  <1>8. \A i \in 1 .. N : Step(i)
    <2>1. \A i \in 1 .. N : i - 1 \in 0 .. N
      OBVIOUS
    <2>. HIDE DEF Step
    <2>. QED  BY <1>6, <1>7, <2>1
  <1>. DEFINE g0 == [i \in 0 .. N |-> EvqOf(f[i])]
              e == EvqOf(m)
              g == CHOOSE h : QueueLoadEq(e, image, h)
  <1>9. QueueLoadEq(e, image, g0)
    <2>. HIDE DEF e
    <2>1. ASSUME NEW i \in 0 .. N
          PROVE  g0[i] = IF i = 0 THEN [e EXCEPT !.q = << >>]
                 ELSE Q!add_interrupt_event_count(g0[i - 1], count, image[i].type, image[i].count)
      <3>1. g0[i] = EvqOf(f[i])
        OBVIOUS
      <3>2. CASE i = 0
        BY <1>5, <3>1, <3>2, Zenon DEF e
      <3>3. CASE i # 0
        <4>1. i \in 1 .. N /\ i - 1 \in 0 .. N
          BY <3>3
        <4>2. g0[i - 1] = EvqOf(f[i - 1])
          BY <4>1
        <4>. HIDE DEF g0
        <4>. QED  BY <1>8, <3>1, <3>3, <4>1, <4>2, Zenon
      <3>. QED  BY <3>2, <3>3
    <2>2. g0 = [i \in 0 .. N |-> g0[i]]
      OBVIOUS
    <2>. HIDE DEF g0
    <2>. DEFINE F(i) == IF i = 0 THEN [e EXCEPT !.q = << >>]
                 ELSE Q!add_interrupt_event_count(g0[i - 1], count, image[i].type, image[i].count)
    <2>3. \A i \in 0 .. N : g0[i] = F(i)
      BY <2>1
    <2>. HIDE DEF F
    <2>4. g0 = [i \in 0 .. N |-> F(i)]
      BY <2>2, <2>3
    <2>. QED  BY <2>4, Zenon DEF F, QueueLoadEq
  <1>10. QueueLoadEq(e, image, g)
    BY <1>9
  <1>11. Q!load_eventqueue_infos(e, count, image) = g[N]
    <2>. HIDE DEF e
    <2>. QED  BY DEF Q!load_eventqueue_infos, QueueLoadEq
  <1>. HIDE DEF g, e, g0
  <1>12. /\ g[0] = [e EXCEPT !.q = << >>]
         /\ \A i \in 1 .. N : g[i] =
               Q!add_interrupt_event_count(g[i - 1], count, image[i].type, image[i].count)
    <2>1. \A i \in 0 .. N : g[i] = IF i = 0 THEN [e EXCEPT !.q = << >>]
             ELSE Q!add_interrupt_event_count(g[i - 1], count, image[i].type, image[i].count)
      BY <1>10, Zenon DEF QueueLoadEq
    <2>2. 0 \in 0 .. N /\ \A i \in 1 .. N : i \in 0 .. N /\ i # 0
      OBVIOUS
    <2>. QED  BY <2>1, <2>2, Zenon
  <1>13. \A i \in 0 .. N : g[i] = EvqOf(f[i])
    <2>. DEFINE T == {i \in 0 .. N : g[i] # EvqOf(f[i])}
    <2>1. SUFFICES ASSUME T # {} PROVE FALSE
      OBVIOUS
    <2>2. PICK i \in T : \A l \in T : i <= l
      <3>1. T \subseteq Nat
        OBVIOUS
      <3>. HIDE DEF T
      <3>. QED  BY <2>1, <3>1, LeastExists
    <2>3. i # 0
      <3>1. g[0] = EvqOf(f[0])
        BY <1>5, <1>12, Zenon DEF e
      <3>. QED  BY <2>2, <3>1
    <2>4. i \in 1 .. N /\ i - 1 \in 0 .. N /\ ~(i <= i - 1)
      <3>1. i \in 0 .. N
        BY <2>2
      <3>. HIDE DEF T, N
      <3>. QED  BY <1>0, <2>3, <3>1
    <2>5. g[i - 1] = EvqOf(f[i - 1])
      BY <2>2, <2>4
    <2>6. g[i] = EvqOf(f[i])
      BY <1>8, <1>12, <2>4, <2>5, Zenon
    <2>. QED  BY <2>2, <2>6
  <1>14. N \in 0 .. N
    OBVIOUS
  <1>. QED  BY <1>2, <1>7, <1>11, <1>13, <1>14, Zenon DEF e

-----------------------------------------------------------------------------
\* The inductive invariant: Count is in its range, and some sequence of nodes is
\* the list.
PoolInv ==
    /\ count \in Q!Counts
    /\ \E p : Good(cp0, p)

\* init_interrupt establishes the invariant, and the queue it stands for is the
\* one QueueSpec starts with.
LEMMA InitPool == Init => PoolInv /\ Q!Init
  <1>. SUFFICES ASSUME Init PROVE PoolInv /\ Q!Init
    OBVIOUS
  <1>1. count = 0 /\ cp0 = init_interrupt(Poweron)
    BY DEF Init
  <1>2. count \in Q!Counts
    BY <1>1, EventPoolAssumption DEF Q!Counts
  <1>3. /\ Poweron \in Pools
        /\ EvqOf(Poweron) = [q |-> << >>, next_interrupt |-> 0, special_done |-> FALSE,
                             failed |-> FALSE]
    BY PoweronNodes
  <1>4. PICK m \in Pools : m = Poweron
    BY <1>3
  <1>5. /\ \E r : Good(init_interrupt(m), r)
        /\ EvqOf(init_interrupt(m)) = Q!init_interrupt(EvqOf(m), count)
    BY <1>2, InitNodes
  <1>6. (\E r : Good(cp0, r)) /\ EvqOf(cp0) = Q!init_interrupt(EvqOf(Poweron), 0)
    BY <1>1, <1>4, <1>5
  <1>7. Q!Init
    BY <1>1, <1>3, <1>6, Zenon DEF Q!Init, EvqOf
  <1>. QED  BY <1>2, <1>6, <1>7 DEF PoolInv

\* One step for each disjunct of Next: the nodes stay accounted for, and the
\* sequence takes the step of the same operation.
LEMMA NextPoolInv == PoolInv /\ [Next]_vars => PoolInv' /\ [Q!Next]_(Q!vars)
  <1>. SUFFICES ASSUME PoolInv, [Next]_vars PROVE PoolInv' /\ [Q!Next]_(Q!vars)
    OBVIOUS
  <1>1. count \in Q!Counts
    BY DEF PoolInv
  <1>2. PICK p : Good(cp0, p)
    BY DEF PoolInv
  <1>d. Delays \subseteq Q!Counts /\ Advances \subseteq Q!Counts /\ Rebases \subseteq Q!Counts
    BY EventPoolAssumption DEF Q!Counts
  <1>3. ASSUME UNCHANGED count, \E r : Good(cp0', r) PROVE PoolInv'
    BY <1>1, <1>3 DEF PoolInv
  <1>4. ASSUME NEW t \in Types, NEW d \in Delays, UNCHANGED count,
               cp0' = add_interrupt_event_count(cp0, t, Q!Plus(count, d))
        PROVE  PoolInv' /\ [Q!Next]_(Q!vars)
    <2>1. PICK type \in PoolTypes : type = t
      BY DEF PoolTypes
    <2>2. PICK evt \in Q!Counts : evt = Q!Plus(count, d)
      BY <1>1, <1>d, CountArith
    <2>3. /\ \E r : Good(add_interrupt_event_count(cp0, type, evt), r)
          /\ EvqOf(add_interrupt_event_count(cp0, type, evt)) =
                Q!add_interrupt_event_count(EvqOf(cp0), count, type, evt)
      BY <1>1, <1>2, AddNode
    <2>4. (\E r : Good(cp0', r)) /\
          EvqOf(cp0') = Q!add_interrupt_event_count(EvqOf(cp0), count, t, Q!Plus(count, d))
      BY <1>4, <2>1, <2>2, <2>3, Zenon
    <2>5. Q!Add(t, d)
      BY <1>4, <2>4, Zenon DEF Q!Add, Q!add_interrupt_event, EvqOf
    <2>. QED  BY <1>3, <1>4, <2>4, <2>5, Zenon DEF Q!Next
  <1>5. ASSUME NEW t \in Types \cup {Q!SPECIAL_INT}, UNCHANGED count, cp0' = remove_event(cp0, t)
        PROVE  PoolInv' /\ [Q!Next]_(Q!vars)
    <2>1. /\ \E r : Good(remove_event(cp0, t), r)
          /\ EvqOf(remove_event(cp0, t)) = Q!remove_event(EvqOf(cp0), t)
      BY <1>2, DropNode
    <2>2. (\E r : Good(cp0', r)) /\ EvqOf(cp0') = Q!remove_event(EvqOf(cp0), t)
      BY <1>5, <2>1, Zenon
    <2>3. Q!Drop(t)
      BY <1>5, <2>2, Zenon DEF Q!Drop, EvqOf
    <2>. QED  BY <1>3, <1>5, <2>2, <2>3, Zenon DEF Q!Next
  <1>6. ASSUME UNCHANGED count, cp0.first # NULL, cp0' = remove_interrupt_event(cp0)
        PROVE  PoolInv' /\ [Q!Next]_(Q!vars)
    <2>1. /\ \E r : Good(remove_interrupt_event(cp0), r)
          /\ EvqOf(remove_interrupt_event(cp0)) = Q!remove_interrupt_event(EvqOf(cp0), count)
          /\ EvqOf(cp0).q # << >>
      BY <1>2, <1>6, PopNode
    <2>2. /\ \E r : Good(cp0', r)
          /\ EvqOf(cp0') = Q!remove_interrupt_event(EvqOf(cp0), count)
      BY <1>6, <2>1, Zenon
    <2>3. Q!Pop
      BY <1>6, <2>1, <2>2, Zenon DEF Q!Pop, EvqOf
    <2>. QED  BY <1>3, <1>6, <2>2, <2>3, Zenon DEF Q!Next
  <1>7. ASSUME UNCHANGED count, cp0' = PushCheck(cp0)
        PROVE  PoolInv' /\ [Q!Next]_(Q!vars)
    <2>1. /\ \E r : Good(PushCheck(cp0), r)
          /\ EvqOf(PushCheck(cp0)) = Q!PushCheck(EvqOf(cp0), count)
      BY <1>1, <1>2, PushNode
    <2>2. (\E r : Good(cp0', r)) /\ EvqOf(cp0') = Q!PushCheck(EvqOf(cp0), count)
      BY <1>7, <2>1, Zenon
    <2>3. Q!Check
      BY <1>7, <2>2, Zenon DEF Q!Check, EvqOf
    <2>. QED  BY <1>3, <1>7, <2>2, <2>3, Zenon DEF Q!Next
  <1>m. cp0 \in Pools /\ Linked(cp0) \in Seq(PoolEvents)
    BY <1>2, GoodTypes
  <1>8. ASSUME UNCHANGED count, cp0' = init_interrupt(cp0)
        PROVE  PoolInv' /\ [Q!Next]_(Q!vars)
    <2>1. /\ \E r : Good(init_interrupt(cp0), r)
          /\ EvqOf(init_interrupt(cp0)) = Q!init_interrupt(EvqOf(cp0), count)
      BY <1>1, <1>m, InitNodes
    <2>2. (\E r : Good(cp0', r)) /\ EvqOf(cp0') = Q!init_interrupt(EvqOf(cp0), count)
      BY <1>8, <2>1, Zenon
    <2>3. Q!Reset
      BY <1>8, <2>2, Zenon DEF Q!Reset, EvqOf
    <2>. QED  BY <1>3, <1>8, <2>2, <2>3, Zenon DEF Q!Next
  <1>9. ASSUME UNCHANGED count, cp0' = load_eventqueue_infos(cp0, Linked(cp0))
        PROVE  PoolInv' /\ [Q!Next]_(Q!vars)
    <2>1. /\ \E r : Good(load_eventqueue_infos(cp0, Linked(cp0)), r)
          /\ EvqOf(load_eventqueue_infos(cp0, Linked(cp0))) =
                Q!load_eventqueue_infos(EvqOf(cp0), count, Linked(cp0))
      BY <1>1, <1>m, LoadNodes
    <2>2. /\ \E r : Good(cp0', r)
          /\ EvqOf(cp0') = Q!load_eventqueue_infos(EvqOf(cp0), count, Linked(cp0))
      BY <1>9, <2>1, Zenon
    <2>3. Q!save_eventqueue_infos(EvqOf(cp0)) = Linked(cp0)
      BY DEF Q!save_eventqueue_infos, EvqOf
    <2>4. Q!Reload
      BY <1>9, <2>2, <2>3, Zenon DEF Q!Reload, EvqOf
    <2>. QED  BY <1>3, <1>9, <2>2, <2>4, Zenon DEF Q!Next
  <1>10. ASSUME NEW b \in Rebases, NEW d \in Delays, count' = b,
                cp0' = translate_event_queue(cp0, Q!Plus(count, d), b)
         PROVE  PoolInv' /\ [Q!Next]_(Q!vars)
    <2>1. PICK base \in Q!Counts : base = b
      BY <1>d
    <2>2. PICK compare \in Q!Counts : compare = Q!Plus(count, d)
      BY <1>1, <1>d, CountArith
    <2>3. /\ \E r : Good(translate_event_queue(cp0, compare, base), r)
          /\ EvqOf(translate_event_queue(cp0, compare, base)) =
                Q!translate_event_queue(EvqOf(cp0), count, compare, base)
      BY <1>1, <1>2, TranslateNodes
    <2>4. /\ \E r : Good(cp0', r)
          /\ EvqOf(cp0') = Q!translate_event_queue(EvqOf(cp0), count, Q!Plus(count, d), b)
      BY <1>10, <2>1, <2>2, <2>3, Zenon
    <2>5. Q!Rebase(b, d)
      BY <1>10, <2>4, Zenon DEF Q!Rebase, EvqOf
    <2>6. PoolInv'
      BY <1>10, <2>1, <2>4, Zenon DEF PoolInv
    <2>. QED  BY <2>5, <2>6, Zenon DEF Q!Next
  <1>11. ASSUME NEW a \in Advances, count' = Q!Plus(count, a), UNCHANGED cp0
         PROVE  PoolInv' /\ [Q!Next]_(Q!vars)
    <2>1. count' \in Q!Counts
      BY <1>1, <1>d, <1>11, CountArith
    <2>2. PoolInv'
      BY <1>2, <1>11, <2>1, Zenon DEF PoolInv
    <2>3. Q!Advance(a)
      BY <1>11 DEF Q!Advance
    <2>. QED  BY <2>2, <2>3, Zenon DEF Q!Next
  <1>12. CASE UNCHANGED vars
    <2>1. cp0' = cp0 /\ count' = count
      BY <1>12 DEF vars
    <2>2. PoolInv'
      BY <1>1, <1>2, <2>1, Zenon DEF PoolInv
    <2>. QED  BY <2>1, <2>2 DEF Q!vars
  <1>13. CASE Queue
    BY <1>4, <1>5, <1>6, <1>7, <1>8, <1>9, <1>13, Zenon DEF Queue
  <1>. QED  BY <1>10, <1>11, <1>12, <1>13, Zenon DEF Next

\* A list of nodes without repetition has as many nodes as places.
LEMMA DistinctCount ==
    ASSUME NEW s \in Seq(Nodes), Distinct(s)
    PROVE  Cardinality(Range(s)) = Len(s)
  <1>1. /\ Len(s) \in Nat /\ DOMAIN s = 1 .. Len(s)
    OBVIOUS
  <1>2. s \in [1 .. Len(s) -> Range(s)]
    BY <1>1 DEF Range
  <1>3. \A a, b \in 1 .. Len(s) : s[a] = s[b] => a = b
    BY DEF Distinct
  <1>4. \A t \in Range(s) : \E i \in 1 .. Len(s) : s[i] = t
    BY <1>1 DEF Range
  <1>5. s \in Bijection(1 .. Len(s), Range(s))
    <2>1. s \in Injection(1 .. Len(s), Range(s))
      BY <1>1, <1>2, <1>3 DEF Injection, IsInjective
    <2>2. s \in Surjection(1 .. Len(s), Range(s))
      BY <1>2, <1>4 DEF Surjection
    <2>. QED  BY <2>1, <2>2 DEF Bijection
  <1>6. ExistsBijection(1 .. Len(s), Range(s))
    BY <1>5 DEF ExistsBijection
  <1>. QED  BY <1>1, <1>6, FS_CountingElements

\* The invariant implies that every node is accounted for.
LEMMA AccountedFor == PoolInv => NodesAccountedFor
  <1>. SUFFICES ASSUME PoolInv PROVE NodesAccountedFor
    OBVIOUS
  <1>1. PICK p : Good(cp0, p)
    BY DEF PoolInv
  <1>2. /\ Chain(cp0, p) /\ p \in Seq(Nodes)
        /\ cp0.free \in Seq(Nodes) /\ Distinct(cp0.free)
    BY <1>1, GoodTypes
  <1>3. ListNodes(cp0) = {p[i] : i \in 1 .. Len(p)}
    BY <1>2, ListPath
  <1>4. \A e : e \in ListNodes(cp0) <=> On(p, e)
    BY <1>3 DEF On
  <1>5. \A e : e \in Range(cp0.free) <=> On(cp0.free, e)
    <2>1. DOMAIN cp0.free = 1 .. Len(cp0.free)
      BY <1>2
    <2>. QED  BY <2>1 DEF On, Range
  <1>6. \A e : On(p, e) \/ On(cp0.free, e) => e \in Nodes
    BY <1>2 DEF On
  <1>7. \A e \in Nodes : On(p, e) <=> ~On(cp0.free, e)
    BY <1>1 DEF Good
  <1>8. Range(cp0.free) \cap ListNodes(cp0) = {}
    BY <1>4, <1>5, <1>6, <1>7, Zenon
  <1>9. Range(cp0.free) \cup ListNodes(cp0) = Nodes
    BY <1>4, <1>5, <1>6, <1>7, Zenon
  <1>10. Cardinality(Range(cp0.free)) = Len(cp0.free)
    BY <1>2, DistinctCount
  <1>. QED  BY <1>8, <1>9, <1>10 DEF NodesAccountedFor

\* Whatever mixture of insertions, removals, clears, rebases and reloads ran
\* before, each node of the pool is in the list of interrupt.c or on its stack of
\* free nodes, and on it once.
THEOREM PoolAccounted == Spec => []NodesAccountedFor
  <1>1. Init => PoolInv
    BY InitPool
  <1>2. PoolInv /\ [Next]_vars => PoolInv'
    BY NextPoolInv
  <1>. QED  BY <1>1, <1>2, AccountedFor, PTL DEF Spec

\* The linked nodes of interrupt.c implement the queue of events the devices use:
\* every operation on the nodes is the operation on the sequence.
THEOREM PoolImplementsQueue == Spec => ImplementsQueue
  <1>1. Init => PoolInv /\ Q!Init
    BY InitPool
  <1>2. PoolInv /\ [Next]_vars => PoolInv' /\ [Q!Next]_(Q!vars)
    BY NextPoolInv
  <1>. QED  BY <1>1, <1>2, PTL DEF Spec, ImplementsQueue, Q!Spec
=============================================================================
