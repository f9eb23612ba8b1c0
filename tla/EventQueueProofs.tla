-------------------------- MODULE EventQueueProofs --------------------------
(***************************************************************************)
(* What the operations of the interrupt event queue do to the list, for    *)
(* every size of the pool and every range of Count.                        *)
(***************************************************************************)
EXTENDS EventQueue, TLAPS, SequenceTheorems, WellFoundedInduction

\* The list r is the list q with the event ev put in at some place: what
\* add_interrupt_event_count and r4300_check_interrupt do to it.
IsInsertion(r, q, ev) ==
    /\ r \in Seq(Events)
    /\ Len(r) = Len(q) + 1
    /\ \E k \in 1 .. Len(q) + 1 :
          /\ r[k] = ev
          /\ \A i \in 1 .. Len(q) + 1 : i < k => r[i] = q[i]
          /\ \A i \in 1 .. Len(q) + 1 : i > k => r[i] = q[i - 1]

\* The same, with the place: ev is node k of r.
InsertedAt(r, q, ev, k) ==
    /\ r \in Seq(Events)
    /\ Len(r) = Len(q) + 1
    /\ k \in 1 .. Len(q) + 1
    /\ r[k] = ev
    /\ \A i \in 1 .. Len(q) + 1 : i < k => r[i] = q[i]
    /\ \A i \in 1 .. Len(q) + 1 : i > k => r[i] = q[i - 1]

\* The list r is the list q without its node k.
IsRemoval(r, q, k) ==
    /\ r \in Seq(Events)
    /\ Len(r) = Len(q) - 1
    /\ \A i \in 1 .. Len(q) - 1 : r[i] = IF i < k THEN q[i] ELSE q[i + 1]

\* What holds of the queue between any two operations, when Compare is c: the
\* wrap marker and the timer are never queued twice, the timer is at c, the
\* list is never empty although the pool may have been exhausted, and the marker
\* is there unless it was.
QueueInv(e, c) ==
    /\ e \in Queues
    /\ Len(e.q) <= PoolCapacity
    /\ Has(e.q, SPECIAL_INT) \/ Has(e.q, COMPARE_INT)
    /\ AtMostOne(e.q, SPECIAL_INT)
    /\ AtMostOne(e.q, COMPARE_INT)
    /\ AllAt(e.q, COMPARE_INT, c)
    /\ ~e.failed => Has(e.q, SPECIAL_INT)

-----------------------------------------------------------------------------
\* Unsigned sums and differences stay in the range of Count.
LEMMA CountArithmetic ==
    ASSUME NEW a \in Counts, NEW b \in Counts
    PROVE  Sub(a, b) \in Counts /\ Plus(a, b) \in Counts
  BY CountModAssumption DEF Counts, Sub, Plus

\* 0 is a Count.
LEMMA ZeroCount == 0 \in Counts
  BY CountModAssumption DEF Counts

\* A set of naturals with an element has a least one, and Min returns it.
LEMMA MinExists ==
    ASSUME NEW T, T \subseteq Nat, T # {}
    PROVE  Min(T) \in T
  <1>1. PICK x \in T : \A y \in T : ~ (<<y, x>> \in OpToRel(<, Nat))
    BY NatLessThanWellFounded, WFMin
  <1>2. \A y \in T : ~ (y < x)
    BY <1>1, Zenon DEF OpToRel
  <1>3. \A y \in T : x =< y
    BY <1>2
  <1>. QED  BY <1>3 DEF Min

\* InsertAt.
LEMMA InsertAtPlace ==
    ASSUME NEW q \in Seq(Events), NEW ev \in Events, NEW k \in 1 .. Len(q) + 1
    PROVE  InsertedAt(InsertAt(q, k, ev), q, ev, k)
  <1>. DEFINE a == SubSeq(q, 1, k - 1)
              b == SubSeq(q, k, Len(q))
  <1>1. /\ a \in Seq(Events) /\ Len(a) = k - 1
        /\ \A i \in 1 .. k - 1 : a[i] = q[i]
    BY SubSeqProperties, ElementOfSeq
  <1>2. /\ b \in Seq(Events) /\ Len(b) = Len(q) - k + 1
        /\ \A i \in 1 .. Len(q) - k + 1 : b[i] = q[k + i - 1]
    BY SubSeqProperties, ElementOfSeq
  <1>3. /\ <<ev>> \in Seq(Events) /\ Len(<<ev>>) = 1 /\ <<ev>>[1] = ev
    OBVIOUS
  <1>. DEFINE c == a \o <<ev>>
  <1>4. /\ c \in Seq(Events) /\ Len(c) = k
        /\ \A i \in 1 .. k : c[i] = IF i <= k - 1 THEN a[i] ELSE ev
    BY <1>1, <1>3, ConcatProperties
  <1>. HIDE DEF a, b, c
  <1>5. /\ c \o b \in Seq(Events) /\ Len(c \o b) = Len(q) + 1
        /\ \A i \in 1 .. Len(q) + 1 :
              (c \o b)[i] = IF i <= k THEN c[i] ELSE b[i - k]
    BY <1>2, <1>4, ConcatProperties
  <1>6. (c \o b)[k] = ev
    BY <1>4, <1>5
  <1>7. \A i \in 1 .. Len(q) + 1 : i < k => (c \o b)[i] = q[i]
    BY <1>1, <1>4, <1>5
  <1>8. ASSUME NEW i \in 1 .. Len(q) + 1, i > k
        PROVE  (c \o b)[i] = q[i - 1]
    <2>1. i - k \in 1 .. Len(q) - k + 1 /\ k + (i - k) - 1 = i - 1
      BY <1>8
    <2>2. b[i - k] = q[k + (i - k) - 1]
      BY <1>2, <2>1
    <2>. QED  BY <1>5, <1>8, <2>1, <2>2
  <1>. QED  BY <1>5, <1>6, <1>7, <1>8 DEF InsertAt, InsertedAt, a, b, c

\* InsertAt is an insertion.
LEMMA InsertAtList ==
    ASSUME NEW q \in Seq(Events), NEW ev \in Events, NEW k \in 1 .. Len(q) + 1
    PROVE  IsInsertion(InsertAt(q, k, ev), q, ev)
  BY InsertAtPlace DEF InsertedAt, IsInsertion

\* RemoveAt.
LEMMA RemoveAtList ==
    ASSUME NEW q \in Seq(Events), NEW k \in 1 .. Len(q)
    PROVE  IsRemoval(RemoveAt(q, k), q, k)
  <1>. DEFINE a == SubSeq(q, 1, k - 1)
              b == SubSeq(q, k + 1, Len(q))
  <1>1. /\ a \in Seq(Events) /\ Len(a) = k - 1
        /\ \A i \in 1 .. k - 1 : a[i] = q[i]
    BY SubSeqProperties, ElementOfSeq
  <1>2. /\ b \in Seq(Events) /\ Len(b) = Len(q) - k
        /\ \A i \in 1 .. Len(q) - k : b[i] = q[k + i]
    BY SubSeqProperties, ElementOfSeq
  <1>. HIDE DEF a, b
  <1>3. /\ a \o b \in Seq(Events) /\ Len(a \o b) = Len(q) - 1
        /\ \A i \in 1 .. Len(q) - 1 :
              (a \o b)[i] = IF i <= k - 1 THEN a[i] ELSE b[i - (k - 1)]
    BY <1>1, <1>2, ConcatProperties
  <1>4. \A i \in 1 .. Len(q) - 1 :
           (a \o b)[i] = IF i < k THEN q[i] ELSE q[i + 1]
    BY <1>1, <1>2, <1>3
  <1>. QED  BY <1>3, <1>4 DEF RemoveAt, IsRemoval, a, b

\* The list with a new first node.
LEMMA PushPlace ==
    ASSUME NEW q \in Seq(Events), NEW ev \in Events
    PROVE  InsertedAt(<<ev>> \o q, q, ev, 1)
  <1>1. /\ <<ev>> \in Seq(Events) /\ Len(<<ev>>) = 1 /\ <<ev>>[1] = ev
    OBVIOUS
  <1>2. /\ <<ev>> \o q \in Seq(Events) /\ Len(<<ev>> \o q) = Len(q) + 1
        /\ \A i \in 1 .. Len(q) + 1 :
              (<<ev>> \o q)[i] = IF i <= 1 THEN <<ev>>[i] ELSE q[i - 1]
    BY <1>1, ConcatProperties
  <1>3. 1 \in 1 .. Len(q) + 1 /\ (<<ev>> \o q)[1] = ev
    BY <1>1, <1>2
  <1>4. \A i \in 1 .. Len(q) + 1 : i > 1 => (<<ev>> \o q)[i] = q[i - 1]
    BY <1>2
  <1>. QED  BY <1>2, <1>3, <1>4 DEF InsertedAt

\* Linking a node in front of the list is an insertion.
LEMMA PushList ==
    ASSUME NEW q \in Seq(Events), NEW ev \in Events
    PROVE  IsInsertion(<<ev>> \o q, q, ev)
  BY PushPlace DEF InsertedAt, IsInsertion

\* The list without its first node.
LEMMA TailList ==
    ASSUME NEW q \in Seq(Events), q # << >>
    PROVE  IsRemoval(Tail(q), q, 1)
  BY HeadTailProperties DEF IsRemoval
-----------------------------------------------------------------------------
\* Which types an insertion adds to a list.
LEMMA InsertionTypes ==
    ASSUME NEW q \in Seq(Events), NEW ev \in Events, NEW r, NEW t, NEW c,
           IsInsertion(r, q, ev)
    PROVE  /\ Has(r, t) <=> Has(q, t) \/ ev.type = t
           /\ AtMostOne(q, t) /\ (ev.type # t \/ ~Has(q, t)) => AtMostOne(r, t)
           /\ AllAt(q, t, c) /\ (ev.type # t \/ ev.count = c) => AllAt(r, t, c)
  <1>1. /\ DOMAIN q = 1 .. Len(q) /\ DOMAIN r = 1 .. Len(q) + 1 /\ Len(q) \in Nat
    BY DEF IsInsertion
  <1>2. PICK k \in 1 .. Len(q) + 1 :
           /\ r[k] = ev
           /\ \A i \in 1 .. Len(q) + 1 : i < k => r[i] = q[i]
           /\ \A i \in 1 .. Len(q) + 1 : i > k => r[i] = q[i - 1]
    BY DEF IsInsertion
  <1>. DEFINE g(i) == IF i < k THEN i ELSE i - 1
  <1>3. \A i \in 1 .. Len(q) + 1 :
           i # k => /\ g(i) \in 1 .. Len(q)
                    /\ r[i] = q[g(i)]
    BY <1>1, <1>2
  <1>4. \A i, j \in 1 .. Len(q) + 1 : i # k /\ j # k /\ g(i) = g(j) => i = j
    BY <1>1
  <1>5. \A j \in 1 .. Len(q) : \E i \in 1 .. Len(q) + 1 : i # k /\ r[i] = q[j]
    <2>. TAKE j \in 1 .. Len(q)
    <2>1. CASE j < k
      <3>1. r[j] = q[j] /\ j \in 1 .. Len(q) + 1 /\ j # k
        BY <1>1, <1>2, <2>1
      <3>. QED  BY <3>1
    <2>2. CASE ~(j < k)
      <3>1. j + 1 \in 1 .. Len(q) + 1 /\ j + 1 > k /\ j + 1 # k /\ (j + 1) - 1 = j
        BY <1>1, <2>2
      <3>2. r[j + 1] = q[(j + 1) - 1]
        BY <1>2, <3>1
      <3>. QED  BY <3>1, <3>2
    <2>. QED  BY <2>1, <2>2
  <1>. HIDE DEF g
  <1>6. Has(r, t) <=> Has(q, t) \/ ev.type = t
    <2>1. Has(r, t) => Has(q, t) \/ ev.type = t
      BY <1>1, <1>2, <1>3 DEF Has
    <2>2. Has(q, t) => Has(r, t)
      BY <1>1, <1>5 DEF Has
    <2>3. ev.type = t => Has(r, t)
      BY <1>1, <1>2 DEF Has
    <2>. QED  BY <2>1, <2>2, <2>3
  <1>7. ASSUME AtMostOne(q, t), ev.type # t \/ ~Has(q, t)
        PROVE  AtMostOne(r, t)
    <2>. SUFFICES ASSUME NEW i \in DOMAIN r, NEW j \in DOMAIN r,
                         r[i].type = t, r[j].type = t
                  PROVE  i = j
      BY DEF AtMostOne
    <2>1. CASE ev.type # t
      BY <1>1, <1>2, <1>3, <1>4, <1>7, <2>1 DEF AtMostOne
    <2>2. CASE ~Has(q, t)
      BY <1>1, <1>2, <1>3, <2>2 DEF Has
    <2>. QED  BY <1>7, <2>1, <2>2
  <1>8. ASSUME AllAt(q, t, c), ev.type # t \/ ev.count = c
        PROVE  AllAt(r, t, c)
    BY <1>1, <1>2, <1>3, <1>8 DEF AllAt
  <1>. QED  BY <1>6, <1>7, <1>8

\* Which types a removal leaves in a list.
LEMMA RemovalTypes ==
    ASSUME NEW q \in Seq(Events), NEW k \in 1 .. Len(q), NEW r, NEW t, NEW c,
           IsRemoval(r, q, k)
    PROVE  /\ Has(r, t) => Has(q, t)
           /\ q[k].type # t => (Has(r, t) <=> Has(q, t))
           /\ AtMostOne(q, t) => AtMostOne(r, t)
           /\ AtMostOne(q, t) /\ q[k].type = t => ~Has(r, t)
           /\ AllAt(q, t, c) => AllAt(r, t, c)
  <1>1. /\ DOMAIN q = 1 .. Len(q) /\ DOMAIN r = 1 .. Len(q) - 1 /\ Len(q) \in Nat
    BY DEF IsRemoval
  <1>. DEFINE g(i) == IF i < k THEN i ELSE i + 1
  <1>2. \A i \in 1 .. Len(q) - 1 :
           g(i) \in 1 .. Len(q) /\ g(i) # k /\ r[i] = q[g(i)]
    BY <1>1 DEF IsRemoval
  <1>3. \A i, j \in 1 .. Len(q) - 1 : g(i) = g(j) => i = j
    BY <1>1
  <1>4. \A j \in 1 .. Len(q) : j # k => \E i \in 1 .. Len(q) - 1 : r[i] = q[j]
    <2>. SUFFICES ASSUME NEW j \in 1 .. Len(q), j # k
                  PROVE  \E i \in 1 .. Len(q) - 1 : r[i] = q[j]
      OBVIOUS
    <2>1. CASE j < k
      <3>1. j \in 1 .. Len(q) - 1
        BY <1>1, <2>1
      <3>. QED  BY <3>1, <2>1 DEF IsRemoval
    <2>2. CASE ~(j < k)
      <3>1. j - 1 \in 1 .. Len(q) - 1 /\ ~(j - 1 < k) /\ (j - 1) + 1 = j
        BY <1>1, <2>2
      <3>2. r[j - 1] = q[(j - 1) + 1]
        BY <3>1 DEF IsRemoval
      <3>. QED  BY <3>1, <3>2
    <2>. QED  BY <2>1, <2>2
  <1>. HIDE DEF g
  <1>5. Has(r, t) => Has(q, t)
    BY <1>1, <1>2 DEF Has
  <1>6. q[k].type # t => (Has(r, t) <=> Has(q, t))
    BY <1>1, <1>4, <1>5 DEF Has
  <1>7. AtMostOne(q, t) => AtMostOne(r, t)
    BY <1>1, <1>2, <1>3 DEF AtMostOne
  <1>8. AtMostOne(q, t) /\ q[k].type = t => ~Has(r, t)
    BY <1>1, <1>2 DEF AtMostOne, Has
  <1>9. AllAt(q, t, c) => AllAt(r, t, c)
    BY <1>1, <1>2 DEF AllAt
  <1>. QED  BY <1>5, <1>6, <1>7, <1>8, <1>9
\* When the only node of a type is removed, none is left.
LEMMA RemovalOfOnly ==
    ASSUME NEW q \in Seq(Events), NEW k \in 1 .. Len(q), NEW r, NEW t,
           IsRemoval(r, q, k), AtMostOne(q, t), q[k].type = t
    PROVE  ~Has(r, t)
  BY RemovalTypes

-----------------------------------------------------------------------------
\* The place add_interrupt_event_count finds is one of the list's nodes.
LEMMA NodesBeforeIsNode ==
    ASSUME NEW q \in Seq(Events), q # << >>, NEW count, NEW done, NEW type, NEW evt
    PROVE  NodesBefore(q, count, done, type, evt) \in 1 .. Len(q)
  <1>. DEFINE n == Len(q)
              S == {i \in 1 .. n :
                      \/ i = n
                      \/ /\ type # SPECIAL_INT
                         /\ before_event(count, done, evt,
                                         q[i + 1].count, q[i + 1].type)}
              stop == Min(S)
              U == {i \in stop .. n : i = n \/ q[i + 1].count # evt}
  <1>1. n \in Nat /\ n >= 1
    BY EmptySeq
  <1>2. S \subseteq Nat /\ n \in S
    BY <1>1
  <1>3. S \subseteq 1 .. n
    OBVIOUS
  <1>. HIDE DEF S
  <1>4. stop \in 1 .. n
    BY <1>2, <1>3, MinExists
  <1>. HIDE DEF stop, n
  <1>5. U \subseteq 1 .. n /\ n \in U
    BY <1>1, <1>4
  <1>. HIDE DEF U
  <1>6. U \subseteq Nat /\ U # {}
    BY <1>1, <1>5
  <1>7. Min(U) \in 1 .. n
    BY <1>5, <1>6, MinExists
  <1>8. NodesBefore(q, count, done, type, evt)
           = IF type = SPECIAL_INT \/ stop = n THEN stop ELSE Min(U)
    BY DEF NodesBefore, S, stop, U, n
  <1>. QED  BY <1>4, <1>7, <1>8 DEF n

\* add_interrupt_event_count inserts the event, or drops it when the pool is
\* exhausted.
LEMMA AddEvent ==
    ASSUME NEW e \in Queues, NEW count \in Counts, NEW type \in EventTypes,
           NEW evt \in Counts
    PROVE  LET r == add_interrupt_event_count(e, count, type, evt)
           IN  /\ r \in Queues
               /\ Len(e.q) >= PoolCapacity => r.q = e.q /\ r.failed
               /\ Len(e.q) < PoolCapacity =>
                     /\ r.failed = e.failed
                     /\ IsInsertion(r.q, e.q, [type |-> type, count |-> evt])
  <1>. DEFINE ev == [type |-> type, count |-> evt]
              done == e.special_done /\ count <= Half
              r == add_interrupt_event_count(e, count, type, evt)
              front == \/ e.q = << >>
                       \/ /\ type # SPECIAL_INT
                          /\ before_event(count, done, evt,
                                          e.q[1].count, e.q[1].type)
              k == 1 + NodesBefore(e.q, count, done, type, evt)
  <1>1. ev \in Events
    BY DEF Events
  <1>2. /\ e.q \in Seq(Events) /\ Len(e.q) \in Nat /\ e.next_interrupt \in Counts
        /\ e.special_done \in BOOLEAN /\ e.failed \in BOOLEAN /\ done \in BOOLEAN
    BY DEF Queues
  <1>3. CASE Len(e.q) >= PoolCapacity
    <2>1. r = [e EXCEPT !.special_done = done, !.failed = TRUE]
      BY <1>3 DEF add_interrupt_event_count
    <2>. HIDE DEF done, front, ev, k
    <2>2. r \in Queues /\ r.q = e.q /\ r.failed
      BY <1>2, <2>1 DEF Queues
    <2>3. ~(Len(e.q) < PoolCapacity)
      BY <1>2, <1>3, PoolCapacityAssumption
    <2>. QED  BY <2>2, <2>3
  <1>4. CASE Len(e.q) < PoolCapacity /\ front
    <2>1. r = [e EXCEPT !.special_done = done, !.next_interrupt = evt,
                        !.q = <<ev>> \o e.q]
      BY <1>2, <1>4, PoolCapacityAssumption DEF add_interrupt_event_count
    <2>2. IsInsertion(<<ev>> \o e.q, e.q, ev)
      BY <1>1, <1>2, PushList
    <2>3. <<ev>> \o e.q \in Seq(Events)
      BY <2>2 DEF IsInsertion
    <2>. HIDE DEF done, front, ev
    <2>4. /\ r \in Queues /\ r.failed = e.failed /\ r.q = <<ev>> \o e.q
      BY <1>2, <2>1, <2>3 DEF Queues
    <2>. QED  BY <1>2, <1>4, <2>2, <2>4, PoolCapacityAssumption DEF ev
  <1>5. CASE Len(e.q) < PoolCapacity /\ ~front
    <2>1. r = [e EXCEPT !.special_done = done, !.q = InsertAt(e.q, k, ev)]
      BY <1>2, <1>5, PoolCapacityAssumption DEF add_interrupt_event_count
    <2>2. k \in 1 .. Len(e.q) + 1
      BY <1>2, <1>5, NodesBeforeIsNode
    <2>3. IsInsertion(InsertAt(e.q, k, ev), e.q, ev)
      BY <1>1, <1>2, <2>2, InsertAtList
    <2>4. InsertAt(e.q, k, ev) \in Seq(Events)
      BY <2>3 DEF IsInsertion
    <2>. HIDE DEF done, front, ev, k
    <2>5. /\ r \in Queues /\ r.failed = e.failed /\ r.q = InsertAt(e.q, k, ev)
      BY <1>2, <2>1, <2>4 DEF Queues
    <2>. QED  BY <1>2, <1>5, <2>3, <2>5, PoolCapacityAssumption DEF ev
  <1>. QED  BY <1>2, <1>3, <1>4, <1>5, PoolCapacityAssumption
\* next_interrupt is a Count.
LEMMA NextInterruptCount ==
    ASSUME NEW q \in Seq(Events), NEW count
    PROVE  NextInterrupt(q, count) \in Counts
  <1>1. CASE q = << >>
    BY <1>1, ZeroCount DEF NextInterrupt
  <1>2. CASE q # << >>
    <2>1. q[1] \in Events
      BY <1>2, EmptySeq, ElementOfSeq
    <2>2. q[1].count \in Counts
      BY <2>1 DEF Events
    <2>. QED  BY <2>2, ZeroCount DEF NextInterrupt
  <1>. QED  BY <1>1, <1>2

\* remove_event removes one node of the type, if there is one.
LEMMA RemoveEvent ==
    ASSUME NEW e \in Queues, NEW type
    PROVE  LET r == remove_event(e, type)
           IN  /\ r \in Queues /\ r.failed = e.failed
               /\ ~Has(e.q, type) => r = e
               /\ Has(e.q, type) =>
                     \E k \in 1 .. Len(e.q) :
                        e.q[k].type = type /\ IsRemoval(r.q, e.q, k)
  <1>. DEFINE I == {i \in DOMAIN e.q : e.q[i].type = type}
              r == remove_event(e, type)
  <1>1. e.q \in Seq(Events) /\ DOMAIN e.q = 1 .. Len(e.q) /\ Len(e.q) \in Nat
    BY DEF Queues
  <1>2. Has(e.q, type) <=> I # {}
    BY DEF Has
  <1>3. I \subseteq 1 .. Len(e.q) /\ \A i \in I : e.q[i].type = type
    BY <1>1
  <1>4. r = IF I = {} THEN e ELSE [e EXCEPT !.q = RemoveAt(e.q, Min(I))]
    BY DEF remove_event
  <1>. HIDE DEF I, r
  <1>5. CASE I = {}
    BY <1>2, <1>4, <1>5 DEF r
  <1>6. CASE I # {}
    <2>1. Min(I) \in I
      BY <1>1, <1>3, <1>6, MinExists
    <2>2. Min(I) \in 1 .. Len(e.q) /\ e.q[Min(I)].type = type
      BY <1>3, <2>1
    <2>3. IsRemoval(RemoveAt(e.q, Min(I)), e.q, Min(I))
      BY <1>1, <2>2, RemoveAtList
    <2>4. RemoveAt(e.q, Min(I)) \in Seq(Events)
      BY <2>3 DEF IsRemoval
    <2>5. r \in Queues /\ r.failed = e.failed /\ r.q = RemoveAt(e.q, Min(I))
      BY <1>4, <1>6, <2>4 DEF Queues
    <2>. QED  BY <1>2, <1>6, <2>2, <2>3, <2>5 DEF r
  <1>. QED  BY <1>5, <1>6

\* remove_interrupt_event removes the first node.
LEMMA RemoveInterruptEvent ==
    ASSUME NEW e \in Queues, e.q # << >>, NEW count \in Counts
    PROVE  LET r == remove_interrupt_event(e, count)
           IN  /\ r \in Queues /\ r.failed = e.failed
               /\ IsRemoval(r.q, e.q, 1)
               /\ 1 \in 1 .. Len(e.q)
  <1>1. e.q \in Seq(Events) /\ Len(e.q) \in Nat
    BY DEF Queues
  <1>2. IsRemoval(Tail(e.q), e.q, 1) /\ 1 \in 1 .. Len(e.q)
    BY <1>1, TailList, EmptySeq
  <1>3. Tail(e.q) \in Seq(Events)
    BY <1>2 DEF IsRemoval
  <1>4. NextInterrupt(Tail(e.q), count) \in Counts
    BY <1>3, NextInterruptCount
  <1>. QED  BY <1>2, <1>3, <1>4 DEF remove_interrupt_event, Queues
-----------------------------------------------------------------------------
\* QueueInv does not depend on next_interrupt and special_done.
LEMMA QueueInvSameList ==
    ASSUME NEW e, NEW c, QueueInv(e, c), NEW r \in Queues, r.q = e.q,
           r.failed \/ r.failed = e.failed
    PROVE  QueueInv(r, c)
  BY DEF QueueInv

\* The list is never empty: gen_interrupt may look at q.first.
LEMMA QueueInvNotEmpty ==
    ASSUME NEW e, NEW c, QueueInv(e, c)
    PROVE  e.q \in Seq(Events) /\ e.q # << >> /\ Len(e.q) \in Nat \ {0}
  <1>1. e.q \in Seq(Events) /\ e.q # << >>
    BY DEF QueueInv, Queues, Has
  <1>. QED  BY <1>1, EmptySeq

\* Inserting an event of another type preserves QueueInv.
LEMMA QueueInvInsertion ==
    ASSUME NEW e, NEW c, QueueInv(e, c), NEW r \in Queues, r.failed = e.failed,
           NEW ev \in Events, ev.type \notin {SPECIAL_INT, COMPARE_INT},
           IsInsertion(r.q, e.q, ev), Len(e.q) < PoolCapacity
    PROVE  QueueInv(r, c)
  <1>1. e.q \in Seq(Events) /\ Len(e.q) \in Nat
    BY DEF QueueInv, Queues
  <1>2. /\ Has(r.q, SPECIAL_INT) <=> Has(e.q, SPECIAL_INT)
        /\ Has(r.q, COMPARE_INT) <=> Has(e.q, COMPARE_INT)
    BY <1>1, InsertionTypes
  <1>3. /\ AtMostOne(r.q, SPECIAL_INT) /\ AtMostOne(r.q, COMPARE_INT)
        /\ AllAt(r.q, COMPARE_INT, c)
    BY <1>1, InsertionTypes DEF QueueInv
  <1>4. Len(r.q) <= PoolCapacity
    BY <1>1, PoolCapacityAssumption DEF IsInsertion
  <1>. QED  BY <1>2, <1>3, <1>4 DEF QueueInv

\* add_interrupt_event_count of another type preserves it.
LEMMA QueueInvAdd ==
    ASSUME NEW e, NEW c, QueueInv(e, c), NEW count \in Counts,
           NEW type \in EventTypes \ {SPECIAL_INT, COMPARE_INT}, NEW evt \in Counts
    PROVE  QueueInv(add_interrupt_event_count(e, count, type, evt), c)
  <1>. DEFINE r == add_interrupt_event_count(e, count, type, evt)
              ev == [type |-> type, count |-> evt]
  <1>1. e \in Queues /\ Len(e.q) \in Nat
    BY DEF QueueInv, Queues
  <1>2. ev \in Events /\ ev.type \notin {SPECIAL_INT, COMPARE_INT}
    BY DEF Events
  <1>3. /\ r \in Queues
        /\ Len(e.q) >= PoolCapacity => r.q = e.q /\ r.failed
        /\ Len(e.q) < PoolCapacity =>
              r.failed = e.failed /\ IsInsertion(r.q, e.q, ev)
    BY <1>1, AddEvent
  <1>. HIDE DEF r, ev
  <1>4. CASE Len(e.q) >= PoolCapacity
    BY <1>3, <1>4, QueueInvSameList DEF r
  <1>5. CASE Len(e.q) < PoolCapacity
    BY <1>2, <1>3, <1>5, QueueInvInsertion DEF r
  <1>. QED  BY <1>1, <1>4, <1>5, PoolCapacityAssumption

\* The CHECK_INT of r4300_check_interrupt preserves it.
LEMMA QueueInvPushCheck ==
    ASSUME NEW e, NEW c, QueueInv(e, c), NEW count \in Counts
    PROVE  QueueInv(PushCheck(e, count), c)
  <1>. DEFINE ev == [type |-> CHECK_INT, count |-> count]
              r == PushCheck(e, count)
  <1>1. e \in Queues /\ e.q \in Seq(Events) /\ Len(e.q) \in Nat
    BY DEF QueueInv, Queues
  <1>2. ev \in Events /\ ev.type \notin {SPECIAL_INT, COMPARE_INT}
    BY DEF Events, EventTypes, RcpEvents, CHECK_INT, SPECIAL_INT, COMPARE_INT
  <1>3. CASE Len(e.q) >= PoolCapacity
    <2>1. r = [e EXCEPT !.failed = TRUE]
      BY <1>3 DEF PushCheck
    <2>2. r \in Queues /\ r.q = e.q /\ r.failed
      BY <1>1, <2>1 DEF Queues
    <2>. QED  BY <2>2, QueueInvSameList
  <1>4. CASE Len(e.q) < PoolCapacity
    <2>1. r = [e EXCEPT !.next_interrupt = count, !.q = <<ev>> \o e.q]
      BY <1>1, <1>4, PoolCapacityAssumption DEF PushCheck
    <2>. HIDE DEF ev, r
    <2>2. IsInsertion(<<ev>> \o e.q, e.q, ev)
      BY <1>1, <1>2, PushList
    <2>3. <<ev>> \o e.q \in Seq(Events)
      BY <2>2 DEF IsInsertion
    <2>4. r \in Queues /\ r.failed = e.failed /\ r.q = <<ev>> \o e.q
      BY <1>1, <2>1, <2>3 DEF Queues
    <2>. QED  BY <1>2, <1>4, <2>2, <2>4, QueueInvInsertion DEF r
  <1>. QED  BY <1>1, <1>3, <1>4, PoolCapacityAssumption

\* Removing a first node of another type preserves it.
LEMMA QueueInvRemoveFirst ==
    ASSUME NEW e, NEW c, QueueInv(e, c), NEW count \in Counts,
           e.q[1].type \notin {SPECIAL_INT, COMPARE_INT}
    PROVE  QueueInv(remove_interrupt_event(e, count), c)
  <1>. DEFINE r == remove_interrupt_event(e, count)
  <1>1. e \in Queues /\ e.q \in Seq(Events) /\ e.q # << >> /\ Len(e.q) \in Nat
    BY QueueInvNotEmpty DEF QueueInv
  <1>2. /\ r \in Queues /\ r.failed = e.failed /\ IsRemoval(r.q, e.q, 1)
        /\ 1 \in 1 .. Len(e.q)
    BY <1>1, RemoveInterruptEvent
  <1>. HIDE DEF r
  <1>3. /\ Has(r.q, SPECIAL_INT) <=> Has(e.q, SPECIAL_INT)
        /\ Has(r.q, COMPARE_INT) <=> Has(e.q, COMPARE_INT)
    BY <1>1, <1>2, RemovalTypes
  <1>4. /\ AtMostOne(r.q, SPECIAL_INT) /\ AtMostOne(r.q, COMPARE_INT)
        /\ AllAt(r.q, COMPARE_INT, c)
    BY <1>1, <1>2, RemovalTypes DEF QueueInv
  <1>5. Len(r.q) <= PoolCapacity
    BY <1>1, <1>2, PoolCapacityAssumption DEF IsRemoval, QueueInv
  <1>. QED  BY <1>2, <1>3, <1>4, <1>5 DEF QueueInv, r
\* Queueing an event again whose node has just been removed preserves QueueInv:
\* the node is free again, so this never fails.  c2 is the new Compare.
LEMMA QueueInvRequeue ==
    ASSUME NEW e, NEW c, QueueInv(e, c), NEW c2, NEW count \in Counts,
           NEW type \in {SPECIAL_INT, COMPARE_INT}, NEW evt \in Counts,
           IF type = COMPARE_INT THEN evt = c2 ELSE c2 = c,
           NEW e1 \in Queues, e1.failed = e.failed, NEW k \in 1 .. Len(e.q),
           e.q[k].type = type, IsRemoval(e1.q, e.q, k)
    PROVE  QueueInv(add_interrupt_event_count(e1, count, type, evt), c2)
  <1>. DEFINE r == add_interrupt_event_count(e1, count, type, evt)
              ev == [type |-> type, count |-> evt]
  <1>0. SPECIAL_INT # COMPARE_INT /\ type \in EventTypes
    BY DEF SPECIAL_INT, COMPARE_INT, EventTypes
  <1>1. /\ e.q \in Seq(Events) /\ Len(e.q) \in Nat
        /\ e1.q \in Seq(Events) /\ Len(e1.q) = Len(e.q) - 1
        /\ Len(e1.q) < PoolCapacity
    BY PoolCapacityAssumption DEF QueueInv, Queues, IsRemoval
  <1>2. ev \in Events /\ ev.type = type /\ ev.count = evt
    BY <1>0 DEF Events
  <1>3. r \in Queues /\ r.failed = e1.failed /\ IsInsertion(r.q, e1.q, ev)
    BY <1>0, <1>1, AddEvent
  <1>. HIDE DEF r, ev
  <1>4. /\ AtMostOne(e1.q, SPECIAL_INT) /\ AtMostOne(e1.q, COMPARE_INT)
        /\ AllAt(e1.q, COMPARE_INT, c) /\ ~Has(e1.q, type)
    <2>1. /\ AtMostOne(e.q, SPECIAL_INT) /\ AtMostOne(e.q, COMPARE_INT)
          /\ AllAt(e.q, COMPARE_INT, c) /\ AtMostOne(e.q, type)
      BY DEF QueueInv
    <2>2. AtMostOne(e1.q, SPECIAL_INT)
      BY <1>1, <2>1, RemovalTypes
    <2>3. AtMostOne(e1.q, COMPARE_INT) /\ AllAt(e1.q, COMPARE_INT, c)
      BY <1>1, <2>1, RemovalTypes
    <2>4. ~Has(e1.q, type)
      BY <1>1, <2>1, RemovalOfOnly
    <2>. QED  BY <2>2, <2>3, <2>4
  <1>5. AllAt(e1.q, COMPARE_INT, c2)
    <2>1. CASE type = COMPARE_INT
      BY <1>4, <2>1 DEF AllAt, Has
    <2>2. CASE type # COMPARE_INT
      BY <1>4, <2>2
    <2>. QED  BY <2>1, <2>2
  <1>6. AtMostOne(r.q, SPECIAL_INT) /\ AtMostOne(r.q, COMPARE_INT)
    <2>1. ASSUME NEW t \in {SPECIAL_INT, COMPARE_INT}
          PROVE  AtMostOne(r.q, t)
      <3>1. AtMostOne(e1.q, t) /\ (ev.type # t \/ ~Has(e1.q, t))
        BY <1>2, <1>4
      <3>. QED  BY <1>1, <1>2, <1>3, <3>1, InsertionTypes
    <2>. QED  BY <2>1
  <1>7. AllAt(r.q, COMPARE_INT, c2)
    BY <1>0, <1>1, <1>2, <1>3, <1>5, InsertionTypes
  <1>8. Has(r.q, type)
    BY <1>1, <1>2, <1>3, InsertionTypes
  <1>9. type = COMPARE_INT => (Has(r.q, SPECIAL_INT) <=> Has(e.q, SPECIAL_INT))
    <2>1. type = COMPARE_INT => (Has(e1.q, SPECIAL_INT) <=> Has(e.q, SPECIAL_INT))
      BY <1>0, <1>1, RemovalTypes
    <2>. QED  BY <1>0, <1>1, <1>2, <1>3, <2>1, InsertionTypes, ZenonT(60)
  <1>10. Len(r.q) <= PoolCapacity
    BY <1>1, <1>3, PoolCapacityAssumption DEF IsInsertion
  <1>. QED  BY <1>0, <1>3, <1>6, <1>7, <1>8, <1>9, <1>10 DEF QueueInv, r

\* compare_int_handler and special_int_handler: the first node is queued again.
LEMMA QueueInvRequeueFirst ==
    ASSUME NEW e, NEW c \in Counts, QueueInv(e, c), NEW count \in Counts,
           NEW count2 \in Counts, NEW type \in {SPECIAL_INT, COMPARE_INT},
           e.q[1].type = type, NEW done \in BOOLEAN
    PROVE  LET r == [remove_interrupt_event(e, count) EXCEPT !.special_done = done]
               evt == IF type = COMPARE_INT THEN c ELSE 0
           IN  QueueInv(add_interrupt_event_count(r, count2, type, evt), c)
  <1>. DEFINE e1 == remove_interrupt_event(e, count)
              r == [e1 EXCEPT !.special_done = done]
              evt == IF type = COMPARE_INT THEN c ELSE 0
  <1>1. e \in Queues /\ e.q # << >>
    BY QueueInvNotEmpty DEF QueueInv
  <1>2. /\ e1 \in Queues /\ e1.failed = e.failed /\ IsRemoval(e1.q, e.q, 1)
        /\ 1 \in 1 .. Len(e.q)
    BY <1>1, RemoveInterruptEvent
  <1>. HIDE DEF e1
  <1>3. r \in Queues /\ r.failed = e.failed /\ r.q = e1.q
    BY <1>2 DEF Queues
  <1>4. evt \in Counts /\ (IF type = COMPARE_INT THEN evt = c ELSE c = c)
    BY ZeroCount
  <1>5. IsRemoval(r.q, e.q, 1)
    BY <1>2, <1>3
  <1>. HIDE DEF r, evt
  <1>6. QueueInv(add_interrupt_event_count(r, count2, type, evt), c)
    BY <1>2, <1>3, <1>4, <1>5, QueueInvRequeue
  <1>. QED  BY <1>6 DEF r, evt, e1

\* MTC0 Compare.
LEMMA QueueInvNewCompare ==
    ASSUME NEW e, NEW c, QueueInv(e, c), NEW c2 \in Counts, NEW count \in Counts
    PROVE  QueueInv(add_interrupt_event_count(remove_event(e, COMPARE_INT), count,
                                              COMPARE_INT, c2), c2)
  <1>. DEFINE e1 == remove_event(e, COMPARE_INT)
              r == add_interrupt_event_count(e1, count, COMPARE_INT, c2)
              ev == [type |-> COMPARE_INT, count |-> c2]
  <1>0. SPECIAL_INT # COMPARE_INT /\ COMPARE_INT \in EventTypes
    BY DEF SPECIAL_INT, COMPARE_INT, EventTypes
  <1>1. e \in Queues /\ e.q \in Seq(Events) /\ Len(e.q) \in Nat
    BY DEF QueueInv, Queues
  <1>2. /\ e1 \in Queues /\ e1.failed = e.failed
        /\ ~Has(e.q, COMPARE_INT) => e1 = e
        /\ Has(e.q, COMPARE_INT) =>
              \E k \in 1 .. Len(e.q) :
                 e.q[k].type = COMPARE_INT /\ IsRemoval(e1.q, e.q, k)
    BY <1>1, RemoveEvent
  <1>. HIDE DEF e1
  <1>3. CASE Has(e.q, COMPARE_INT)
    <2>1. PICK k \in 1 .. Len(e.q) :
             e.q[k].type = COMPARE_INT /\ IsRemoval(e1.q, e.q, k)
      BY <1>2, <1>3
    <2>2. QueueInv(r, c2)
      BY <1>0, <1>2, <2>1, QueueInvRequeue
    <2>. QED  BY <2>2 DEF e1
  <1>4. CASE ~Has(e.q, COMPARE_INT)
    <2>1. /\ r \in Queues
          /\ Len(e.q) >= PoolCapacity => r.q = e.q /\ r.failed
          /\ Len(e.q) < PoolCapacity =>
                r.failed = e.failed /\ IsInsertion(r.q, e.q, ev)
      BY <1>0, <1>1, <1>2, <1>4, AddEvent
    <2>2. AllAt(e.q, COMPARE_INT, c2)
      BY <1>4 DEF AllAt, Has
    <2>3. ev \in Events /\ ev.type = COMPARE_INT /\ ev.count = c2
      BY <1>0 DEF Events
    <2>. HIDE DEF r, ev
    <2>4. CASE Len(e.q) >= PoolCapacity
      BY <2>1, <2>2, <2>4 DEF QueueInv, r, e1
    <2>5. CASE Len(e.q) < PoolCapacity
      <3>1. IsInsertion(r.q, e.q, ev) /\ r.failed = e.failed
        BY <2>1, <2>5
      <3>2. /\ Has(r.q, COMPARE_INT)
            /\ Has(r.q, SPECIAL_INT) <=> Has(e.q, SPECIAL_INT)
        BY <1>0, <1>1, <2>3, <3>1, InsertionTypes
      <3>3. AtMostOne(r.q, SPECIAL_INT) /\ AtMostOne(r.q, COMPARE_INT)
        BY <1>0, <1>1, <1>4, <2>3, <3>1, InsertionTypes DEF QueueInv
      <3>4. AllAt(r.q, COMPARE_INT, c2)
        BY <1>1, <2>2, <2>3, <3>1, InsertionTypes
      <3>5. Len(r.q) <= PoolCapacity
        BY <1>1, <2>5, <3>1, PoolCapacityAssumption DEF IsInsertion
      <3>6. QueueInv(r, c2)
        BY <2>1, <3>1, <3>2, <3>3, <3>4, <3>5 DEF QueueInv
      <3>. QED  BY <3>6 DEF r, e1
    <2>. QED  BY <1>1, <2>4, <2>5, PoolCapacityAssumption
  <1>. QED  BY <1>3, <1>4
\* The list of an exhausted or a fresh queue with the marker: init_interrupt.
LEMMA QueueInvInit ==
    ASSUME NEW e \in Queues, NEW c, NEW count \in Counts
    PROVE  QueueInv(init_interrupt(e, count), c)
  <1>. DEFINE e1 == [e EXCEPT !.q = << >>, !.special_done = TRUE]
              r == add_interrupt_event_count(e1, count, SPECIAL_INT, 0)
              ev == [type |-> SPECIAL_INT, count |-> 0]
  <1>0. SPECIAL_INT # COMPARE_INT /\ SPECIAL_INT \in EventTypes
    BY DEF SPECIAL_INT, COMPARE_INT, EventTypes
  <1>1. e1 \in Queues /\ e1.q = << >> /\ e1.q \in Seq(Events) /\ Len(e1.q) = 0
    BY EmptySeq DEF Queues
  <1>2. ev \in Events /\ ev.type = SPECIAL_INT
    BY <1>0, ZeroCount DEF Events
  <1>3. Len(e1.q) < PoolCapacity
    BY <1>1, PoolCapacityAssumption
  <1>. HIDE DEF e1
  <1>4. r \in Queues /\ r.failed = e1.failed /\ IsInsertion(r.q, e1.q, ev)
    BY <1>0, <1>1, <1>3, ZeroCount, AddEvent
  <1>. HIDE DEF r, ev
  <1>5. \A t : ~Has(e1.q, t) /\ AtMostOne(e1.q, t) /\ AllAt(e1.q, t, c)
    BY <1>1 DEF Has, AtMostOne, AllAt
  <1>6. Has(r.q, SPECIAL_INT) /\ AtMostOne(r.q, SPECIAL_INT)
    BY <1>1, <1>2, <1>4, <1>5, InsertionTypes
  <1>7. AtMostOne(r.q, COMPARE_INT) /\ AllAt(r.q, COMPARE_INT, c)
    BY <1>0, <1>1, <1>2, <1>4, <1>5, InsertionTypes
  <1>8. Len(r.q) <= PoolCapacity
    BY <1>1, <1>4, PoolCapacityAssumption DEF IsInsertion
  <1>9. QueueInv(r, c)
    BY <1>4, <1>6, <1>7, <1>8 DEF QueueInv
  <1>. QED  BY <1>9 DEF init_interrupt, r, e1

\* Removing the timer or the marker by type, as translate_event_queue does.
LEMMA RemoveOnlyEvent ==
    ASSUME NEW e \in Queues, NEW type, AtMostOne(e.q, type)
    PROVE  LET r == remove_event(e, type)
           IN  /\ r \in Queues /\ r.failed = e.failed
               /\ ~Has(r.q, type)
               /\ Len(r.q) = IF Has(e.q, type) THEN Len(e.q) - 1 ELSE Len(e.q)
               /\ \A t : /\ AtMostOne(e.q, t) => AtMostOne(r.q, t)
                         /\ t # type => (Has(r.q, t) <=> Has(e.q, t))
  <1>. DEFINE r == remove_event(e, type)
  <1>1. e.q \in Seq(Events) /\ Len(e.q) \in Nat
    BY DEF Queues
  <1>2. /\ r \in Queues /\ r.failed = e.failed
        /\ ~Has(e.q, type) => r = e
        /\ Has(e.q, type) =>
              \E k \in 1 .. Len(e.q) :
                 e.q[k].type = type /\ IsRemoval(r.q, e.q, k)
    BY RemoveEvent
  <1>. HIDE DEF r
  <1>3. CASE ~Has(e.q, type)
    BY <1>2, <1>3 DEF r
  <1>4. CASE Has(e.q, type)
    <2>1. PICK k \in 1 .. Len(e.q) : e.q[k].type = type /\ IsRemoval(r.q, e.q, k)
      BY <1>2, <1>4
    <2>2. ~Has(r.q, type)
      BY <1>1, <2>1, RemovalOfOnly
    <2>3. ASSUME NEW t
          PROVE  /\ AtMostOne(e.q, t) => AtMostOne(r.q, t)
                 /\ t # type => (Has(r.q, t) <=> Has(e.q, t))
      BY <1>1, <2>1, RemovalTypes
    <2>4. Len(r.q) = Len(e.q) - 1
      BY <2>1 DEF IsRemoval
    <2>. QED  BY <1>2, <1>4, <2>2, <2>3, <2>4 DEF r
  <1>. QED  BY <1>3, <1>4
\* Moving every event of a list, as translate_event_queue does, keeps the types.
LEMMA TranslateList ==
    ASSUME NEW e \in Queues, NEW count \in Counts, NEW base \in Counts
    PROVE  LET q == [i \in DOMAIN e.q |->
                       [e.q[i] EXCEPT !.count = Plus(Sub(@, count), base)]]
           IN  /\ [e EXCEPT !.q = q] \in Queues
               /\ Len(q) = Len(e.q)
               /\ \A t : Has(q, t) <=> Has(e.q, t)
  <1>. DEFINE f(i) == [e.q[i] EXCEPT !.count = Plus(Sub(@, count), base)]
              q == [i \in DOMAIN e.q |-> f(i)]
  <1>1. e.q \in Seq(Events) /\ DOMAIN e.q = 1 .. Len(e.q) /\ Len(e.q) \in Nat
    BY DEF Queues
  <1>2. ASSUME NEW i \in DOMAIN e.q
        PROVE  f(i) \in Events /\ f(i).type = e.q[i].type
    <2>1. e.q[i] \in Events
      BY <1>1, ElementOfSeq
    <2>2. Plus(Sub(e.q[i].count, count), base) \in Counts
      BY <2>1, CountArithmetic DEF Events
    <2>. QED  BY <2>1, <2>2 DEF Events
  <1>. HIDE DEF f
  <1>3. q \in Seq(Events) /\ Len(q) = Len(e.q)
    BY <1>1, <1>2
  <1>4. \A t : Has(q, t) <=> Has(e.q, t)
    BY <1>2 DEF Has
  <1>5. [e EXCEPT !.q = q] \in Queues
    BY <1>3 DEF Queues
  <1>. QED  BY <1>3, <1>4, <1>5 DEF f

\* MTC0 Count.  The timer and the marker are taken out, then queued again; when
\* the pool was full without a timer, the marker finds no node.
LEMMA QueueInvTranslate ==
    ASSUME NEW e, NEW c \in Counts, QueueInv(e, c), NEW count \in Counts,
           NEW base \in Counts
    PROVE  QueueInv(translate_event_queue(e, count, c, base), c)
  <1>. DEFINE ea == remove_event(e, COMPARE_INT)
              e1 == remove_event(ea, SPECIAL_INT)
              e2 == [e1 EXCEPT !.q = [i \in DOMAIN e1.q |->
                       [e1.q[i] EXCEPT !.count = Plus(Sub(@, count), base)]]]
              e3 == add_interrupt_event_count(e2, count, COMPARE_INT, c)
              e4 == add_interrupt_event_count(e3, count, SPECIAL_INT, 0)
              ev3 == [type |-> COMPARE_INT, count |-> c]
              ev4 == [type |-> SPECIAL_INT, count |-> 0]
  <1>0. /\ SPECIAL_INT # COMPARE_INT
        /\ SPECIAL_INT \in EventTypes /\ COMPARE_INT \in EventTypes
    BY DEF SPECIAL_INT, COMPARE_INT, EventTypes
  <1>1. /\ ev3 \in Events /\ ev3.type = COMPARE_INT /\ ev3.count = c
        /\ ev4 \in Events /\ ev4.type = SPECIAL_INT
    BY <1>0, ZeroCount DEF Events
  <1>2. translate_event_queue(e, count, c, base) = e4
    BY DEF translate_event_queue
  <1>3. /\ ea \in Queues /\ ~Has(ea.q, COMPARE_INT) /\ AtMostOne(ea.q, SPECIAL_INT)
        /\ Has(ea.q, SPECIAL_INT) <=> Has(e.q, SPECIAL_INT)
        /\ Len(ea.q) = IF Has(e.q, COMPARE_INT) THEN Len(e.q) - 1 ELSE Len(e.q)
    BY <1>0, RemoveOnlyEvent DEF QueueInv
  <1>. HIDE DEF ea
  <1>4. /\ e1 \in Queues /\ ~Has(e1.q, COMPARE_INT) /\ ~Has(e1.q, SPECIAL_INT)
        /\ Len(e1.q) = IF Has(ea.q, SPECIAL_INT) THEN Len(ea.q) - 1 ELSE Len(ea.q)
    BY <1>0, <1>3, RemoveOnlyEvent
  <1>5. e.q \in Seq(Events) /\ Len(e.q) \in Nat
    BY DEF QueueInv, Queues
  <1>6. Len(e1.q) < PoolCapacity
    BY <1>3, <1>4, <1>5, PoolCapacityAssumption DEF QueueInv
  <1>. HIDE DEF e1
  <1>7. /\ e2 \in Queues /\ Len(e2.q) = Len(e1.q)
        /\ ~Has(e2.q, COMPARE_INT) /\ ~Has(e2.q, SPECIAL_INT)
    <2>. DEFINE q2 == [i \in DOMAIN e1.q |->
                         [e1.q[i] EXCEPT !.count = Plus(Sub(@, count), base)]]
    <2>1. /\ [e1 EXCEPT !.q = q2] \in Queues /\ Len(q2) = Len(e1.q)
          /\ \A t : Has(q2, t) <=> Has(e1.q, t)
      BY <1>4, TranslateList
    <2>. HIDE DEF q2
    <2>2. [e1 EXCEPT !.q = q2].q = q2
      BY <1>4 DEF Queues
    <2>3. e2 = [e1 EXCEPT !.q = q2]
      BY DEF q2
    <2>. HIDE DEF e2
    <2>. QED  BY <1>4, <2>1, <2>2, <2>3
  <1>. HIDE DEF e2
  <1>8. /\ e2.q \in Seq(Events) /\ Len(e2.q) \in Nat /\ Len(e2.q) < PoolCapacity
    BY <1>6, <1>7 DEF Queues
  <1>9. e3 \in Queues /\ IsInsertion(e3.q, e2.q, ev3)
    BY <1>0, <1>7, <1>8, AddEvent
  <1>. HIDE DEF e3, ev3
  <1>10. /\ Has(e3.q, COMPARE_INT) /\ ~Has(e3.q, SPECIAL_INT)
    BY <1>0, <1>1, <1>7, <1>8, <1>9, InsertionTypes
  <1>11. /\ AtMostOne(e3.q, COMPARE_INT) /\ AllAt(e3.q, COMPARE_INT, c)
         /\ AtMostOne(e3.q, SPECIAL_INT)
    <2>1. /\ AtMostOne(e2.q, COMPARE_INT) /\ AllAt(e2.q, COMPARE_INT, c)
          /\ AtMostOne(e2.q, SPECIAL_INT)
      BY <1>7 DEF AtMostOne, AllAt, Has
    <2>. QED  BY <1>0, <1>1, <1>7, <1>8, <1>9, <2>1, InsertionTypes
  <1>12. /\ e3.q \in Seq(Events) /\ Len(e3.q) \in Nat /\ Len(e3.q) <= PoolCapacity
    BY <1>8, <1>9, PoolCapacityAssumption DEF IsInsertion
  <1>13. /\ e4 \in Queues
         /\ Len(e3.q) >= PoolCapacity => e4.q = e3.q /\ e4.failed
         /\ Len(e3.q) < PoolCapacity => IsInsertion(e4.q, e3.q, ev4)
    BY <1>0, <1>9, ZeroCount, AddEvent
  <1>. HIDE DEF e4, ev4
  <1>14. CASE Len(e3.q) >= PoolCapacity
    BY <1>2, <1>10, <1>11, <1>12, <1>13, <1>14 DEF QueueInv
  <1>15. CASE Len(e3.q) < PoolCapacity
    <2>1. IsInsertion(e4.q, e3.q, ev4)
      BY <1>13, <1>15
    <2>2. Has(e4.q, SPECIAL_INT) /\ AtMostOne(e4.q, SPECIAL_INT)
      BY <1>1, <1>10, <1>11, <1>12, <2>1, InsertionTypes
    <2>3. AtMostOne(e4.q, COMPARE_INT) /\ AllAt(e4.q, COMPARE_INT, c)
      BY <1>0, <1>1, <1>11, <1>12, <2>1, InsertionTypes
    <2>4. Len(e4.q) <= PoolCapacity
      BY <1>12, <1>15, <2>1, PoolCapacityAssumption DEF IsInsertion
    <2>. QED  BY <1>2, <1>13, <2>2, <2>3, <2>4 DEF QueueInv
  <1>. QED  BY <1>12, <1>14, <1>15, PoolCapacityAssumption
=============================================================================
