-------------------------- MODULE DeviceEventsProofs --------------------------
(***************************************************************************)
(* R4300Interrupts with savestates implements DeviceEvents and is on time. *)
(*                                                                         *)
(* The abstract queue is the number of nodes of each device.  An insertion *)
(* adds one to the number of its type and a removal takes one off; no      *)
(* other operation changes a number, translate_event_queue and the pushes  *)
(* of r4300_check_interrupt included.  Loading an image inserts its nodes  *)
(* one by one, so that the list it brings back is a permutation of the     *)
(* list that was saved.  Each step is then a step of DeviceEvents or       *)
(* leaves its variables alone, with one exception: when the front end asks *)
(* for a soft reset in new_vi, HW2_INT and NMI_INT may take the last nodes *)
(* of the pool, and vi_vertical_interrupt_event cannot queue the next      *)
(* frame.                                                                  *)
(*                                                                         *)
(* The second half is about time.  Counts wrap, so that the order of the   *)
(* list cannot be read off the counts: each node gets a time that does not *)
(* wrap, its count or its count plus the range of Count.  The list is in   *)
(* the order of the times, SPECIAL_INT at the end of the range behind all  *)
(* that is due before the wrap, and no event is later than one block for   *)
(* every event that was before it.  This is inductive for a guest that     *)
(* polls its devices (PollingGuest) as long as Count is not exactly 0 once *)
(* SPECIAL_INT has run (NotAtZero).                                        *)
(***************************************************************************)
EXTENDS StateReload, InterruptDeliveryProofs, FiniteSetTheorems

\* How many events of type t are in the list q.
Number(q, t) == Cardinality({i \in DOMAIN q : q[i].type = t})

One(b) == IF b THEN 1 ELSE 0

\* The queue r holds the devices' events of e, and no other.
SameDevices(e, r) ==
    r \in Queues /\ \A t \in RcpEvents : Number(r.q, t) = Number(e.q, t)

-----------------------------------------------------------------------------
(* Counting nodes *)

\* Moving the positions from k on by one does not change their number.
LEMMA ShiftedPositions ==
    ASSUME NEW S, IsFiniteSet(S), S \subseteq Nat, NEW k \in Nat
    PROVE  LET T == {IF i < k THEN i ELSE i + 1 : i \in S}
           IN  IsFiniteSet(T) /\ Cardinality(T) = Cardinality(S)
  <1>. DEFINE f == [i \in S |-> IF i < k THEN i ELSE i + 1]
              T == {IF i < k THEN i ELSE i + 1 : i \in S}
  <1>1. f \in [S -> T] /\ \A i \in S : f[i] = IF i < k THEN i ELSE i + 1
    OBVIOUS
  <1>2. \A i, j \in S : f[i] = f[j] => i = j
    BY <1>1
  <1>3. \A y \in T : \E i \in S : f[i] = y
    BY <1>1
  <1>4. f \in Bijection(S, T)
    BY <1>1, <1>2, <1>3 DEF Bijection, Injection, IsInjective, Surjection
  <1>5. ExistsBijection(S, T)
    BY <1>4 DEF ExistsBijection
  <1>. HIDE DEF T
  <1>6. IsFiniteSet(T) /\ Cardinality(T) = Cardinality(S)
    BY <1>5, FS_Bijection
  <1>. QED  BY <1>6 DEF T

\* The positions of a type are finitely many.
LEMMA NumberType ==
    ASSUME NEW q \in Seq(Events), NEW t
    PROVE  /\ IsFiniteSet({i \in DOMAIN q : q[i].type = t})
           /\ Number(q, t) \in Nat
           /\ Has(q, t) => Number(q, t) > 0
           /\ ~Has(q, t) => Number(q, t) = 0
  <1>. DEFINE S == {i \in DOMAIN q : q[i].type = t}
  <1>1. DOMAIN q = 1 .. Len(q) /\ Len(q) \in Nat
    OBVIOUS
  <1>2. IsFiniteSet(1 .. Len(q))
    BY <1>1, FS_Interval
  <1>3. S \in SUBSET (1 .. Len(q))
    BY <1>1
  <1>4. Has(q, t) <=> S # {}
    BY DEF Has
  <1>. HIDE DEF S
  <1>5. IsFiniteSet(S)
    BY <1>2, <1>3, FS_Subset
  <1>6. Cardinality(S) \in Nat /\ (Cardinality(S) = 0 <=> S = {})
    BY <1>5, FS_CardinalityType, FS_EmptySet
  <1>. QED  BY <1>4, <1>5, <1>6 DEF S, Number

\* An insertion adds one event of its type.
LEMMA InsertionNumber ==
    ASSUME NEW q \in Seq(Events), NEW ev, NEW r, IsInsertion(r, q, ev), NEW t
    PROVE  Number(r, t) = Number(q, t) + One(ev.type = t)
  <1>1. /\ DOMAIN q = 1 .. Len(q) /\ DOMAIN r = 1 .. Len(q) + 1 /\ Len(q) \in Nat
    BY DEF IsInsertion
  <1>2. PICK k \in 1 .. Len(q) + 1 :
           /\ r[k] = ev
           /\ \A i \in 1 .. Len(q) + 1 : i < k => r[i] = q[i]
           /\ \A i \in 1 .. Len(q) + 1 : i > k => r[i] = q[i - 1]
    BY DEF IsInsertion
  <1>. DEFINE S == {i \in DOMAIN q : q[i].type = t}
              R == {i \in DOMAIN r : r[i].type = t}
              T == {IF i < k THEN i ELSE i + 1 : i \in S}
  <1>3. IsFiniteSet(S) /\ S \subseteq Nat /\ k \in Nat /\ Cardinality(S) \in Nat
    <2>1. IsFiniteSet(S) /\ Cardinality(S) \in Nat
      BY NumberType DEF Number
    <2>2. S \subseteq Nat /\ k \in Nat
      BY <1>1
    <2>. QED  BY <2>1, <2>2
  <1>4. IsFiniteSet(T) /\ Cardinality(T) = Cardinality(S)
    <2>. HIDE DEF S
    <2>. QED  BY <1>3, ShiftedPositions
  <1>5. k \notin T
    BY <1>1, <1>2
  <1>6. ASSUME NEW j \in T PROVE j \in R
    <2>1. PICK i \in S : j = IF i < k THEN i ELSE i + 1
      OBVIOUS
    <2>2. i \in 1 .. Len(q) /\ q[i].type = t
      BY <1>1
    <2>3. CASE i < k
      BY <1>1, <1>2, <2>1, <2>2, <2>3
    <2>4. CASE ~(i < k)
      <3>1. j \in 1 .. Len(q) + 1 /\ j > k /\ j - 1 = i
        BY <1>1, <1>2, <2>1, <2>2, <2>4
      <3>. QED  BY <1>1, <1>2, <2>2, <3>1
    <2>. QED  BY <2>3, <2>4
  <1>7. ASSUME NEW j \in R, j # k PROVE j \in T
    <2>1. j \in 1 .. Len(q) + 1 /\ r[j].type = t
      BY <1>1
    <2>2. CASE j < k
      <3>1. j \in S
        BY <1>1, <1>2, <2>1, <2>2
      <3>. QED  BY <2>2, <3>1
    <2>3. CASE j > k
      <3>1. j - 1 \in S /\ ~(j - 1 < k) /\ (j - 1) + 1 = j
        BY <1>1, <1>2, <2>1, <2>3
      <3>2. j = IF j - 1 < k THEN j - 1 ELSE (j - 1) + 1
        BY <3>1
      <3>. QED  BY <3>1, <3>2
    <2>. QED  BY <1>2, <1>7, <2>1, <2>2, <2>3
  <1>8. k \in R <=> ev.type = t
    BY <1>1, <1>2
  <1>. HIDE DEF R, S, T
  <1>9. Number(r, t) = Cardinality(R) /\ Number(q, t) = Cardinality(S)
    BY DEF Number, R, S
  <1>10. CASE ev.type = t
    <2>1. R = T \cup {k}
      BY <1>6, <1>7, <1>8, <1>10
    <2>2. Cardinality(T \cup {k}) = Cardinality(T) + 1
      BY <1>4, <1>5, FS_AddElement
    <2>. QED  BY <1>4, <1>9, <1>10, <2>1, <2>2 DEF One
  <1>11. CASE ev.type # t
    <2>1. R = T
      BY <1>6, <1>7, <1>8, <1>11
    <2>2. One(ev.type = t) = 0
      BY <1>11 DEF One
    <2>. QED  BY <1>3, <1>4, <1>9, <2>1, <2>2
  <1>. QED  BY <1>10, <1>11

\* A removal takes one off.
LEMMA RemovalNumber ==
    ASSUME NEW q \in Seq(Events), NEW k \in 1 .. Len(q), NEW r, IsRemoval(r, q, k), NEW t
    PROVE  Number(q, t) = Number(r, t) + One(q[k].type = t)
  <1>1. /\ r \in Seq(Events) /\ Len(q) \in Nat /\ Len(r) = Len(q) - 1 /\ Len(r) \in Nat
        /\ \A i \in 1 .. Len(q) - 1 : r[i] = IF i < k THEN q[i] ELSE q[i + 1]
    BY DEF IsRemoval
  <1>2. k \in 1 .. Len(r) + 1 /\ Len(q) = Len(r) + 1
    BY <1>1
  <1>3. \A i \in 1 .. Len(r) + 1 : i < k => q[i] = r[i]
    BY <1>1, <1>2
  <1>4. ASSUME NEW i \in 1 .. Len(r) + 1, i > k PROVE q[i] = r[i - 1]
    <2>1. i - 1 \in 1 .. Len(q) - 1 /\ ~(i - 1 < k) /\ (i - 1) + 1 = i
      BY <1>1, <1>2, <1>4
    <2>. QED  BY <1>1, <2>1
  <1>5. IsInsertion(q, r, q[k])
    BY <1>2, <1>3, <1>4 DEF IsInsertion
  <1>. QED  BY <1>1, <1>5, InsertionNumber
-----------------------------------------------------------------------------
(* What the operations of the queue do to the numbers *)

\* Operations that leave the devices' events alone do so one after the other.
LEMMA SameDevicesTrans ==
    ASSUME NEW e, NEW r, NEW s, SameDevices(e, r), SameDevices(r, s)
    PROVE  SameDevices(e, s)
  BY DEF SameDevices

\* The list alone matters.
LEMMA SameDevicesSame ==
    ASSUME NEW e, NEW r \in Queues, r.q = e.q
    PROVE  SameDevices(e, r)
  BY DEF SameDevices

\* add_interrupt_event_count.
LEMMA AddNumber ==
    ASSUME NEW e \in Queues, NEW c \in Counts, NEW type \in EventTypes, NEW evt \in Counts,
           NEW r, r = add_interrupt_event_count(e, c, type, evt), NEW t
    PROVE  /\ Len(e.q) < PoolCapacity =>
                 Number(r.q, t) = Number(e.q, t) + (IF type = t THEN 1 ELSE 0)
           /\ ~(Len(e.q) < PoolCapacity) => Number(r.q, t) = Number(e.q, t)
  <1>. DEFINE ev == [type |-> type, count |-> evt]
  <1>1. /\ Len(e.q) >= PoolCapacity => r.q = e.q
        /\ Len(e.q) < PoolCapacity => IsInsertion(r.q, e.q, ev)
    BY AddEvent
  <1>2. e.q \in Seq(Events) /\ Len(e.q) \in Nat /\ ev.type = type
    BY DEF Queues
  <1>. HIDE DEF ev
  <1>3. CASE Len(e.q) < PoolCapacity
    <2>1. Number(r.q, t) = Number(e.q, t) + One(ev.type = t)
      BY <1>1, <1>2, <1>3, InsertionNumber
    <2>. QED  BY <1>2, <1>3, <2>1 DEF One
  <1>4. CASE ~(Len(e.q) < PoolCapacity)
    <2>1. r.q = e.q
      BY <1>1, <1>2, <1>4, PoolCapacityAssumption
    <2>. QED  BY <1>4, <2>1
  <1>. QED  BY <1>3, <1>4

\* add_interrupt_event.
LEMMA AddDelayNumber ==
    ASSUME NEW e \in Queues, NEW c \in Counts, NEW type \in EventTypes, NEW delay \in Counts,
           NEW t \in RcpEvents
    PROVE  LET r == add_interrupt_event(e, c, type, delay)
           IN  Number(r.q, t) =
                 Number(e.q, t) + (IF Len(e.q) < PoolCapacity /\ type = t THEN 1 ELSE 0)
  <1>. DEFINE evt == Plus(c, delay)
              r == add_interrupt_event(e, c, type, delay)
  <1>1. evt \in Counts /\ r = add_interrupt_event_count(e, c, type, evt)
    BY CountArithmetic DEF add_interrupt_event
  <1>. HIDE DEF evt, r
  <1>2. /\ Len(e.q) < PoolCapacity =>
              Number(r.q, t) = Number(e.q, t) + (IF type = t THEN 1 ELSE 0)
        /\ ~(Len(e.q) < PoolCapacity) => Number(r.q, t) = Number(e.q, t)
    BY <1>1, AddNumber
  <1>3. Number(e.q, t) \in Nat
    BY NumberType DEF Queues
  <1>4. Number(r.q, t) =
          Number(e.q, t) + (IF Len(e.q) < PoolCapacity /\ type = t THEN 1 ELSE 0)
    BY <1>2, <1>3
  <1>. QED  BY <1>4 DEF r

\* An event that is not a device's.
LEMMA AddSameDevices ==
    ASSUME NEW e \in Queues, NEW c \in Counts, NEW type \in EventTypes \ RcpEvents,
           NEW evt \in Counts
    PROVE  SameDevices(e, add_interrupt_event_count(e, c, type, evt))
  <1>. DEFINE r == add_interrupt_event_count(e, c, type, evt)
  <1>1. r \in Queues
    BY AddEvent
  <1>2. ASSUME NEW t \in RcpEvents PROVE Number(r.q, t) = Number(e.q, t)
    <2>1. Number(e.q, t) \in Nat
      BY NumberType DEF Queues
    <2>2. /\ Len(e.q) < PoolCapacity =>
                Number(r.q, t) = Number(e.q, t) + (IF type = t THEN 1 ELSE 0)
          /\ ~(Len(e.q) < PoolCapacity) => Number(r.q, t) = Number(e.q, t)
      BY AddNumber
    <2>. HIDE DEF r
    <2>. QED  BY <2>1, <2>2
  <1>. HIDE DEF r
  <1>3. SameDevices(e, r)
    BY <1>1, <1>2 DEF SameDevices
  <1>. QED  BY <1>3 DEF r

\* A removal of an event that is not a device's.
LEMMA RemovalSameDevices ==
    ASSUME NEW e \in Queues, NEW r \in Queues, NEW k \in 1 .. Len(e.q),
           e.q[k].type \notin RcpEvents, IsRemoval(r.q, e.q, k)
    PROVE  SameDevices(e, r)
  <1>1. ASSUME NEW t \in RcpEvents PROVE Number(r.q, t) = Number(e.q, t)
    <2>1. Number(e.q, t) = Number(r.q, t) + One(e.q[k].type = t)
      BY RemovalNumber DEF Queues
    <2>2. One(e.q[k].type = t) = 0
      BY DEF One
    <2>3. Number(r.q, t) \in Nat
      BY NumberType DEF Queues
    <2>. QED  BY <2>1, <2>2, <2>3
  <1>. QED  BY <1>1 DEF SameDevices

\* remove_event of such an event.
LEMMA RemoveEventSameDevices ==
    ASSUME NEW e \in Queues, NEW type, type \notin RcpEvents
    PROVE  SameDevices(e, remove_event(e, type))
  <1>. DEFINE r == remove_event(e, type)
  <1>1. /\ r \in Queues
        /\ ~Has(e.q, type) => r = e
        /\ Has(e.q, type) => \E k \in 1 .. Len(e.q) :
                                e.q[k].type = type /\ IsRemoval(r.q, e.q, k)
    BY RemoveEvent
  <1>. HIDE DEF r
  <1>2. SameDevices(e, r)
    BY <1>1, RemovalSameDevices, SameDevicesSame
  <1>. QED  BY <1>2 DEF r

\* r4300_check_interrupt.
LEMMA CheckSameDevices ==
    ASSUME NEW e \in Queues, NEW st, NEW c \in Counts, NEW up
    PROVE  SameDevices(e, CheckQueue(e, st, c, up))
  <1>. DEFINE r == PushCheck(e, c)
              ev == [type |-> CHECK_INT, count |-> c]
  <1>1. e.q \in Seq(Events) /\ Len(e.q) \in Nat /\ ev \in Events /\ ev.type = CHECK_INT
    BY OtherTypes DEF Queues, Events
  <1>2. SameDevices(e, e)
    BY SameDevicesSame
  <1>3. CASE Len(e.q) >= PoolCapacity
    <2>1. r = [e EXCEPT !.failed = TRUE]
      BY <1>3 DEF PushCheck
    <2>2. r \in Queues /\ r.q = e.q
      BY <2>1 DEF Queues
    <2>. HIDE DEF r
    <2>3. SameDevices(e, r)
      BY <2>2, SameDevicesSame
    <2>. QED  BY <1>2, <2>3 DEF CheckQueue, r
  <1>4. CASE ~(Len(e.q) >= PoolCapacity)
    <2>1. r = [e EXCEPT !.next_interrupt = c, !.q = <<ev>> \o e.q]
      BY <1>4 DEF PushCheck
    <2>2. IsInsertion(<<ev>> \o e.q, e.q, ev)
      BY <1>1, PushList
    <2>. HIDE DEF ev
    <2>3. <<ev>> \o e.q \in Seq(Events)
      BY <2>2 DEF IsInsertion
    <2>4. r \in Queues /\ r.q = <<ev>> \o e.q
      BY <2>1, <2>3 DEF Queues
    <2>5. ASSUME NEW t \in RcpEvents PROVE Number(r.q, t) = Number(e.q, t)
      <3>1. Number(<<ev>> \o e.q, t) = Number(e.q, t) + One(ev.type = t)
        BY <1>1, <2>2, InsertionNumber
      <3>2. One(ev.type = t) = 0
        BY <1>1 DEF One, RcpEvents, CHECK_INT, VI_INT, SI_INT, PI_INT, AI_INT, SP_INT, DP_INT
      <3>3. Number(e.q, t) \in Nat
        BY <1>1, NumberType
      <3>. QED  BY <2>4, <3>1, <3>2, <3>3
    <2>. HIDE DEF r
    <2>6. SameDevices(e, r)
      BY <2>4, <2>5 DEF SameDevices
    <2>. QED  BY <1>2, <2>6 DEF CheckQueue, r
  <1>. QED  BY <1>3, <1>4

\* The events that are not the devices'.
LEMMA NotDevices ==
    {COMPARE_INT, SPECIAL_INT, CHECK_INT, HW2_INT, NMI_INT} \subseteq EventTypes \ RcpEvents
  BY DEF EventTypes, RcpEvents, VI_INT, COMPARE_INT, CHECK_INT, SI_INT, PI_INT, SPECIAL_INT,
         AI_INT, SP_INT, DP_INT, HW2_INT, NMI_INT

\* translate_event_queue.
LEMMA TranslateSameDevices ==
    ASSUME NEW e \in Queues, NEW c \in Counts, NEW compareReg \in Counts, NEW base \in Counts
    PROVE  SameDevices(e, translate_event_queue(e, c, compareReg, base))
  <1>. DEFINE ea == remove_event(e, COMPARE_INT)
              e1 == remove_event(ea, SPECIAL_INT)
              f(i) == [e1.q[i] EXCEPT !.count = Plus(Sub(@, c), base)]
              q2 == [i \in DOMAIN e1.q |-> f(i)]
              e2 == [e1 EXCEPT !.q = q2]
              e3 == add_interrupt_event_count(e2, c, COMPARE_INT, compareReg)
              e4 == add_interrupt_event_count(e3, c, SPECIAL_INT, 0)
  <1>1. SameDevices(e, ea) /\ ea \in Queues
    BY RemoveEventSameDevices, NotDevices DEF SameDevices
  <1>2. SameDevices(ea, e1) /\ e1 \in Queues
    <2>. HIDE DEF ea
    <2>. QED  BY <1>1, RemoveEventSameDevices, NotDevices DEF SameDevices
  <1>3. SameDevices(e1, e2) /\ e2 \in Queues
    <2>. HIDE DEF e1
    <2>1. e2 \in Queues
      BY <1>2, TranslateList
    <2>2. e1.q \in Seq(Events)
      BY <1>2 DEF Queues
    <2>3. ASSUME NEW i \in DOMAIN e1.q PROVE f(i).type = e1.q[i].type
      <3>1. e1.q[i] \in Events
        BY <2>2, ElementOfSeq
      <3>. QED  BY <3>1 DEF Events
    <2>. HIDE DEF f
    <2>4. DOMAIN q2 = DOMAIN e1.q /\ \A i \in DOMAIN e1.q : q2[i].type = e1.q[i].type
      BY <2>3
    <2>. HIDE DEF q2
    <2>5. ASSUME NEW t PROVE Number(q2, t) = Number(e1.q, t)
      <3>1. {i \in DOMAIN q2 : q2[i].type = t} = {i \in DOMAIN e1.q : e1.q[i].type = t}
        BY <2>4
      <3>. QED  BY <3>1 DEF Number
    <2>6. e2.q = q2
      BY <1>2 DEF Queues
    <2>. QED  BY <2>1, <2>5, <2>6 DEF SameDevices
  <1>4. SameDevices(e2, e3) /\ e3 \in Queues
    <2>. HIDE DEF e2
    <2>. QED  BY <1>3, NotDevices, AddSameDevices DEF SameDevices
  <1>5. SameDevices(e3, e4)
    <2>. HIDE DEF e3
    <2>. QED  BY <1>4, NotDevices, ZeroCount, AddSameDevices
  <1>6. translate_event_queue(e, c, compareReg, base) = e4
    BY DEF translate_event_queue
  <1>. HIDE DEF ea, e1, e2, e3, e4
  <1>7. SameDevices(e, e1)
    BY <1>1, <1>2, SameDevicesTrans
  <1>8. SameDevices(e1, e3)
    BY <1>3, <1>4, SameDevicesTrans
  <1>9. SameDevices(e, e3)
    BY <1>7, <1>8, SameDevicesTrans
  <1>10. SameDevices(e, e4)
    BY <1>5, <1>9, SameDevicesTrans
  <1>. QED  BY <1>6, <1>10

\* init_interrupt leaves no event of a device, and room.
LEMMA InitNumber ==
    ASSUME NEW e \in Queues, NEW c \in Counts
    PROVE  LET r == init_interrupt(e, c)
           IN  /\ r \in Queues /\ Len(r.q) < PoolCapacity
               /\ \A t \in RcpEvents : Number(r.q, t) = 0
  <1>. DEFINE e1 == [e EXCEPT !.q = << >>, !.special_done = TRUE]
              r == add_interrupt_event_count(e1, c, SPECIAL_INT, 0)
  <1>1. e1 \in Queues /\ e1.q = << >> /\ Len(e1.q) = 0 /\ e1.q \in Seq(Events)
    BY EmptySeq DEF Queues
  <1>2. ~\E t : Has(e1.q, t)
    BY <1>1 DEF Has
  <1>. HIDE DEF e1
  <1>3. SPECIAL_INT \in EventTypes \ RcpEvents
    BY NotDevices
  <1>4. SameDevices(e1, r)
    BY <1>1, <1>3, ZeroCount, AddSameDevices
  <1>5. IsInsertion(r.q, e1.q, [type |-> SPECIAL_INT, count |-> 0])
    BY <1>1, <1>3, ZeroCount, PoolCapacityAssumption, AddEvent
  <1>6. init_interrupt(e, c) = r
    BY DEF init_interrupt, e1
  <1>. HIDE DEF r
  <1>7. Len(r.q) = 1
    BY <1>1, <1>5 DEF IsInsertion
  <1>8. \A t \in RcpEvents : Number(r.q, t) = 0
    BY <1>1, <1>2, <1>4, NumberType DEF SameDevices
  <1>. QED  BY <1>4, <1>6, <1>7, <1>8, PoolCapacityAssumption DEF SameDevices
-----------------------------------------------------------------------------
(* The steps *)

\* The numbers of the abstract queue.
Queued == [t \in RcpEvents |-> Number(evq.q, t)]

\* The abstract variables.
DeviceVars == <<Queued, mi.intr>>

\* The two modules mean the same devices.
LEMMA DeviceNames == Devices!Devices = RcpEvents
  BY DEF Devices!Devices, RcpEvents, VI_INT, SI_INT, PI_INT, AI_INT, SP_INT, DP_INT

\* A step that leaves the devices' events and lines alone.
LEMMA Stutter ==
    ASSUME SameDevices(evq, evq'), mi'.intr = mi.intr
    PROVE  UNCHANGED DeviceVars
  <1>1. Queued' = Queued
    BY DEF Queued, SameDevices
  <1>. QED  BY <1>1 DEF DeviceVars

\* A step that queues one event of t, or finds no node for it.
LEMMA StartStep ==
    ASSUME evq \in Queues, NEW c \in Counts, NEW evt \in Counts, NEW t \in RcpEvents,
           evq' = add_interrupt_event_count(evq, c, t, evt), mi'.intr = mi.intr
    PROVE  UNCHANGED DeviceVars
           \/ (Queued' = [Queued EXCEPT ![t] = @ + 1] /\ UNCHANGED mi.intr)
  <1>1. t \in EventTypes
    BY OtherTypes
  <1>2. ASSUME NEW u \in RcpEvents
        PROVE  /\ Len(evq.q) < PoolCapacity => Number(evq'.q, u) = Number(evq.q, u) + (IF t = u THEN 1 ELSE 0)
               /\ ~(Len(evq.q) < PoolCapacity) => Number(evq'.q, u) = Number(evq.q, u)
    BY <1>1, AddNumber
  <1>3. ASSUME NEW u PROVE Number(evq.q, u) \in Nat
    BY NumberType DEF Queues
  <1>4. CASE Len(evq.q) < PoolCapacity
    <2>1. \A u \in RcpEvents : Number(evq'.q, u) = Number(evq.q, u) + (IF u = t THEN 1 ELSE 0)
      BY <1>2, <1>4 DEF One
    <2>2. Queued' = [u \in RcpEvents |-> Number(evq.q, u) + (IF u = t THEN 1 ELSE 0)]
      BY <2>1 DEF Queued
    <2>3. ASSUME NEW u \in RcpEvents
          PROVE  Number(evq.q, u) + (IF u = t THEN 1 ELSE 0)
                    = [Queued EXCEPT ![t] = @ + 1][u]
      BY <1>3 DEF Queued
    <2>4. [Queued EXCEPT ![t] = @ + 1] = [u \in RcpEvents |-> [Queued EXCEPT ![t] = @ + 1][u]]
      BY DEF Queued
    <2>. QED  BY <2>2, <2>3, <2>4
  <1>5. CASE ~(Len(evq.q) < PoolCapacity)
    <2>1. \A u \in RcpEvents : Number(evq'.q, u) = Number(evq.q, u)
      BY <1>2, <1>3, <1>5 DEF One
    <2>2. Queued' = Queued
      BY <2>1 DEF Queued
    <2>. QED  BY <2>2 DEF DeviceVars
  <1>. QED  BY <1>4, <1>5

\* The queue once gen_interrupt has taken its first event, of type t.
LEMMA RemovedNumber ==
    ASSUME IInv
    PROVE  \A u : /\ Number(evq.q, u) = Number(Removed.q, u) + One(evq.q[1].type = u)
                  /\ Number(Removed.q, u) \in Nat
  <1>1. /\ Removed \in Queues /\ IsRemoval(Removed.q, evq.q, 1) /\ 1 \in 1 .. Len(evq.q)
        /\ evq \in Queues
    BY RemovedQueue
  <1>2. evq.q \in Seq(Events) /\ Removed.q \in Seq(Events)
    BY <1>1 DEF Queues
  <1>3. ASSUME NEW u PROVE Number(evq.q, u) = Number(Removed.q, u) + One(evq.q[1].type = u)
    BY <1>1, <1>2, RemovalNumber
  <1>4. ASSUME NEW u PROVE Number(Removed.q, u) \in Nat
    BY <1>2, NumberType
  <1>. QED  BY <1>3, <1>4

\* A handler of an event that is not a device's.
LEMMA HandledSameDevices ==
    ASSUME IInv, evq.q[1].type \notin RcpEvents, NEW e, SameDevices(Removed, e),
           \/ \E line : raise_rcp_interrupt(e, line)
           \/ \E ip : raise_maskable_interrupt(e, ip)
           \/ exception_general(e)
    PROVE  SameDevices(evq, evq')
  <1>1. /\ Removed \in Queues /\ IsRemoval(Removed.q, evq.q, 1) /\ 1 \in 1 .. Len(evq.q)
        /\ evq \in Queues
    BY RemovedQueue
  <1>2. SameDevices(evq, Removed)
    BY <1>1, RemovalSameDevices
  <1>3. e \in Queues
    BY DEF SameDevices
  <1>4. SameDevices(e, evq')
    BY <1>3, RaisedQueue, SameDevicesSame
  <1>5. SameDevices(Removed, evq')
    BY <1>4, SameDevicesTrans
  <1>. QED  BY <1>2, <1>5, SameDevicesTrans
-----------------------------------------------------------------------------
(* The abstract steps, in terms of Queued *)

\* A step that leaves the devices' events and lines alone is a stuttering step.
LEMMA AbstractVars == UNCHANGED DeviceVars => UNCHANGED Devices!vars
  BY DEF DeviceVars, Queued, Number, Devices!vars

\* One more event of a device is a transfer started.
LEMMA AbstractStart ==
    ASSUME NEW t \in RcpEvents, Queued' = [Queued EXCEPT ![t] = @ + 1], mi'.intr = mi.intr
    PROVE  Devices!Next
  <1>1. Devices!Start(t)
    BY DEF Queued, Number, Devices!Start
  <1>. QED  BY <1>1, DeviceNames DEF Devices!Next

\* One event fewer, with its line raised, is an event fired; VI_INT comes back, AI_INT
\* may, and SP may keep its line down.
LEMMA AbstractFire ==
    ASSUME NEW t \in RcpEvents, Queued[t] > 0,
           mi'.intr = mi.intr \cup {t} \/ (t = SP_INT /\ mi'.intr = mi.intr),
           \/ t # VI_INT /\ Queued' = [Queued EXCEPT ![t] = @ - 1]
           \/ t \in {VI_INT, AI_INT} /\ Queued' = Queued
    PROVE  Devices!Next
  <1>1. Devices!Fire(t)
    BY DEF Queued, Number, Devices!Fire, VI_INT, AI_INT, SP_INT
  <1>. QED  BY <1>1, DeviceNames DEF Devices!Next

\* A line alone is an acknowledgement, or a signal of the RSP or the RDP.
LEMMA AbstractLine ==
    ASSUME NEW t \in RcpEvents, Queued' = Queued,
           \/ mi'.intr = mi.intr \ {t}
           \/ t \in {SP_INT, DP_INT} /\ mi'.intr = mi.intr \cup {t}
    PROVE  Devices!Next
  <1>1. Devices!Acknowledge(t) \/ (t \in {SP_INT, DP_INT} /\ Devices!Signal(t))
    BY DEF Queued, Number, Devices!Acknowledge, Devices!Signal
  <1>. QED  BY <1>1, DeviceNames DEF Devices!Next, SP_INT, DP_INT

\* The RSP's and RDP's lines lowered and their events queued are an RSP task.
LEMMA AbstractTask ==
    ASSUME NEW new \in SUBSET {SP_INT, DP_INT}, NEW up \in SUBSET {SP_INT, DP_INT},
           Queued' = [t \in RcpEvents |-> IF t \in new THEN Queued[t] + 1 ELSE Queued[t]],
           mi'.intr = (mi.intr \ {SP_INT, DP_INT}) \cup up,
           SP_INT \notin up, up \cap new = {}
    PROVE  Devices!Next
  <1>1. Devices!RunTask
    BY DeviceNames DEF Queued, Number, Devices!RunTask, SP_INT, DP_INT
  <1>. QED  BY <1>1 DEF Devices!Next

\* The queues and lines that NMI and power-on leave are those of a reset.
LEMMA AbstractReset ==
    ASSUME \/ /\ Queued' = [t \in RcpEvents |-> IF t = VI_INT THEN 1 ELSE 0]
              /\ mi'.intr = mi.intr \ {SP_INT, PI_INT, VI_INT}
           \/ Queued' = [t \in RcpEvents |-> 0] /\ mi'.intr = {}
    PROVE  Devices!Next
  <1>1. Devices!SoftReset \/ Devices!HardReset
    BY DeviceNames DEF Queued, Number, Devices!SoftReset, Devices!HardReset,
                       SP_INT, PI_INT, VI_INT
  <1>. QED  BY <1>1 DEF Devices!Next
-----------------------------------------------------------------------------
(* gen_interrupt *)

\* Taking the first event, of a device t, and raising the line of t; AI_INT may come
\* back, in the node just released.
LEMMA DmaIntDevices ==
    ASSUME IInv, NEW t \in Dma, DmaInt(t)
    PROVE  Devices!Next
  <1>1. t \in RcpEvents /\ t # VI_INT /\ evq.q[1].type = t
    BY ConstantsAssumption DEF DmaInt, Dispatch
  <1>2. /\ Removed \in Queues /\ IsRemoval(Removed.q, evq.q, 1) /\ 1 \in 1 .. Len(evq.q)
        /\ evq \in Queues /\ count \in Counts
    BY RemovedQueue
  <1>3. \A u \in RcpEvents : /\ Number(evq.q, u) = Number(Removed.q, u) + One(t = u)
                             /\ Number(Removed.q, u) \in Nat
    BY <1>1, RemovedNumber
  <1>4. Queued[t] > 0
    BY <1>1, <1>3 DEF Queued, One
  <1>5. ASSUME evq'.q = Removed.q PROVE Queued' = [Queued EXCEPT ![t] = @ - 1]
    <2>1. ASSUME NEW u \in RcpEvents
          PROVE  Number(evq'.q, u) = [Queued EXCEPT ![t] = @ - 1][u]
      BY <1>3, <1>5 DEF Queued, One
    <2>2. [Queued EXCEPT ![t] = @ - 1] = [u \in RcpEvents |-> [Queued EXCEPT ![t] = @ - 1][u]]
      BY DEF Queued
    <2>3. Queued' = [u \in RcpEvents |-> Number(evq'.q, u)]
      BY DEF Queued
    <2>. QED  BY <2>1, <2>2, <2>3
  <1>6. CASE raise_rcp_interrupt(Removed, t)
    <2>1. mi'.intr = mi.intr \cup {t}
      BY <1>6 DEF raise_rcp_interrupt, IInv, TypeOK
    <2>2. evq'.q = Removed.q
      BY <1>2, <1>6, RaisedQueue
    <2>. QED  BY <1>1, <1>4, <1>5, <2>1, <2>2, AbstractFire
  <1>7. ASSUME t = AI_INT, NEW delay \in DmaDelays,
               raise_rcp_interrupt(add_interrupt_event(Removed, count, AI_INT, delay), AI_INT)
        PROVE  Devices!Next
    <2>0. PICK evt \in Counts : evt = Plus(count, delay)
      BY <1>2, CountArithmetic, ConstantsAssumption
    <2>1. PICK r : r = add_interrupt_event_count(Removed, count, t, evt)
      OBVIOUS
    <2>2. raise_rcp_interrupt(r, t) /\ t \in EventTypes
      BY <1>1, <1>7, <2>0, <2>1, OtherTypes DEF add_interrupt_event
    <2>3. Len(Removed.q) < PoolCapacity
      <3>1. Len(evq.q) <= PoolCapacity /\ Len(evq.q) \in Nat
        BY <1>2 DEF IInv, QueueInv, Queues
      <3>2. Len(Removed.q) = Len(evq.q) - 1
        BY <1>2 DEF IsRemoval
      <3>. QED  BY <3>1, <3>2, PoolCapacityAssumption
    <2>4. r \in Queues
      BY <1>2, <2>1, <2>2, AddEvent
    <2>5. ASSUME NEW u \in RcpEvents
          PROVE  Number(r.q, u) = Number(Removed.q, u) + (IF t = u THEN 1 ELSE 0)
      <3>1. /\ Len(Removed.q) < PoolCapacity =>
                 Number(r.q, u) = Number(Removed.q, u) + (IF t = u THEN 1 ELSE 0)
            /\ ~(Len(Removed.q) < PoolCapacity) => Number(r.q, u) = Number(Removed.q, u)
        BY <1>2, <2>1, <2>2, AddNumber
      <3>. QED  BY <2>3, <3>1
    <2>6. mi'.intr = mi.intr \cup {t}
      BY <2>2 DEF raise_rcp_interrupt, IInv, TypeOK
    <2>7. evq'.q = r.q
      BY <2>2, <2>4, RaisedQueue
    <2>8. \A u \in RcpEvents : Number(evq'.q, u) = Number(evq.q, u)
      BY <1>3, <2>5, <2>7 DEF One
    <2>9. Queued' = Queued
      BY <2>8 DEF Queued
    <2>. QED  BY <1>1, <1>4, <1>7, <2>6, <2>9, AbstractFire
  <1>8. CASE t = SP_INT /\ evq' = Removed /\ mi' = mi
    BY <1>1, <1>4, <1>5, <1>8, AbstractFire
  <1>. QED  BY <1>6, <1>7, <1>8 DEF DmaInt

\* The next VI_INT.
LEMMA AddViNumber ==
    ASSUME NEW e \in Queues, NEW c \in Counts, NEW evt \in Counts,
           NEW r, r = add_interrupt_event_count(e, c, VI_INT, evt), NEW t \in RcpEvents
    PROVE  Len(e.q) < PoolCapacity =>
               Number(r.q, t) = Number(e.q, t) + (IF VI_INT = t THEN 1 ELSE 0)
  <1>. DEFINE type == VI_INT
  <1>1. type \in EventTypes /\ r = add_interrupt_event_count(e, c, type, evt)
    BY OtherTypes
  <1>. HIDE DEF type
  <1>2. /\ Len(e.q) < PoolCapacity =>
              Number(r.q, t) = Number(e.q, t) + (IF type = t THEN 1 ELSE 0)
        /\ ~(Len(e.q) < PoolCapacity) => Number(r.q, t) = Number(e.q, t)
    BY <1>1, AddNumber
  <1>. QED  BY <1>2 DEF type

\* vi_vertical_interrupt_event takes its event and queues the next one, unless the
\* events of a soft reset have exhausted the pool.
LEMMA ViIntDevices ==
    ASSUME IInv, ViInt, ~evq'.failed \/ "soft" \notin Requests
    PROVE  Devices!Next
  <1>1. /\ Removed \in Queues /\ IsRemoval(Removed.q, evq.q, 1) /\ 1 \in 1 .. Len(evq.q)
        /\ evq \in Queues /\ count \in Counts
    BY RemovedQueue
  <1>2. Len(Removed.q) < PoolCapacity
    <2>1. Len(evq.q) <= PoolCapacity /\ Len(evq.q) \in Nat
      BY <1>1 DEF IInv, QueueInv, Queues
    <2>2. Len(Removed.q) = Len(evq.q) - 1
      BY <1>1 DEF IsRemoval
    <2>. QED  BY <2>1, <2>2, PoolCapacityAssumption
  <1>3. next_vi' \in Counts /\ evq.q[1].type = VI_INT
    BY CountArithmetic, ConstantsAssumption DEF ViInt, Dispatch, IInv, TypeOK
  <1>4. PICK r \in Requests :
           LET e == IF r = "soft" THEN soft_reset_device(Removed) ELSE Removed
           IN  raise_rcp_interrupt(
                 add_interrupt_event_count(e, count, VI_INT, next_vi'), VI_INT)
    BY DEF ViInt
  <1>. DEFINE h == add_interrupt_event(Removed, count, HW2_INT, 0)
              n == add_interrupt_event(h, count, NMI_INT, NmiDelay)
              e1 == IF r = "soft" THEN soft_reset_device(Removed) ELSE Removed
              v == add_interrupt_event_count(e1, count, VI_INT, next_vi')
  <1>5. SameDevices(Removed, h)
    BY <1>1, CountArithmetic, ZeroCount, AddSameDevices, NotDevices DEF add_interrupt_event
  <1>6. SameDevices(Removed, n)
    <2>. HIDE DEF h
    <2>1. h \in Queues
      BY <1>5 DEF SameDevices
    <2>2. SameDevices(h, n)
      BY <1>1, <2>1, CountArithmetic, ConstantsAssumption, AddSameDevices, NotDevices
      DEF add_interrupt_event
    <2>. QED  BY <1>5, <2>2, SameDevicesTrans
  <1>7. SameDevices(Removed, e1)
    BY <1>1, <1>6, SameDevicesSame DEF soft_reset_device
  <1>8. raise_rcp_interrupt(v, VI_INT) /\ (r # "soft" => e1 = Removed)
    BY <1>4
  <1>9. e1 \in Queues /\ Len(e1.q) \in Nat
    BY <1>7 DEF SameDevices, Queues
  <1>. HIDE DEF e1
  <1>10. v \in Queues /\ (Len(e1.q) >= PoolCapacity => v.failed)
    BY <1>1, <1>3, <1>9, AddEvent, OtherTypes
  <1>11. ASSUME NEW u \in RcpEvents
         PROVE  Len(e1.q) < PoolCapacity =>
                   Number(v.q, u) = Number(e1.q, u) + (IF VI_INT = u THEN 1 ELSE 0)
    BY <1>1, <1>3, <1>9, AddViNumber
  <1>. HIDE DEF v
  <1>12. evq'.q = v.q /\ evq'.failed = v.failed
    BY <1>8, <1>10, RaisedQueue
  <1>13. Len(e1.q) < PoolCapacity
    BY <1>2, <1>8, <1>9, <1>10, <1>12, PoolCapacityAssumption
  <1>14. ASSUME NEW u \in RcpEvents PROVE Number(evq'.q, u) = Number(evq.q, u)
    <2>1. Number(e1.q, u) = Number(Removed.q, u)
      BY <1>7 DEF SameDevices
    <2>2. Number(evq.q, u) = Number(Removed.q, u) + One(VI_INT = u)
      BY <1>3, RemovedNumber
    <2>. QED  BY <1>11, <1>12, <1>13, <2>1, <2>2 DEF One
  <1>15. Queued' = Queued
    BY <1>14 DEF Queued
  <1>16. VI_INT \in RcpEvents
    BY DEF RcpEvents
  <1>17. Queued[VI_INT] > 0
    <2>1. /\ Number(evq.q, VI_INT) = Number(Removed.q, VI_INT) + One(evq.q[1].type = VI_INT)
          /\ Number(Removed.q, VI_INT) \in Nat
      BY RemovedNumber
    <2>. QED  BY <1>3, <1>16, <2>1 DEF Queued, One
  <1>18. mi'.intr = mi.intr \cup {VI_INT}
    BY <1>8 DEF raise_rcp_interrupt, IInv, TypeOK
  <1>. QED  BY <1>15, <1>16, <1>17, <1>18, AbstractFire

\* The NMI leaves a queue with the next VI_INT as its only device event.
LEMMA NmiIntDevices ==
    ASSUME IInv, NmiInt
    PROVE  Devices!Next
  <1>. DEFINE e == init_interrupt(evq, 0)
  <1>1. evq \in Queues /\ 0 \in Counts /\ ViDelay \in Counts
    BY ZeroCount, ConstantsAssumption DEF IInv, TypeOK
  <1>2. /\ e \in Queues /\ Len(e.q) < PoolCapacity
        /\ \A t \in RcpEvents : Number(e.q, t) = 0
    BY <1>1, InitNumber
  <1>3. evq' = add_interrupt_event_count(e, 0, VI_INT, ViDelay)
    BY DEF NmiInt
  <1>. HIDE DEF e
  <1>4. ASSUME NEW t \in RcpEvents
        PROVE  Len(e.q) < PoolCapacity =>
                  Number(evq'.q, t) = Number(e.q, t) + (IF VI_INT = t THEN 1 ELSE 0)
    BY <1>1, <1>2, <1>3, AddViNumber
  <1>5. ASSUME NEW t \in RcpEvents PROVE Number(evq'.q, t) = IF t = VI_INT THEN 1 ELSE 0
    BY <1>2, <1>4
  <1>6. Queued' = [t \in RcpEvents |-> IF t = VI_INT THEN 1 ELSE 0]
    BY <1>5 DEF Queued
  <1>7. mi'.intr = mi.intr \ {SP_INT, PI_INT, VI_INT}
    BY DEF NmiInt, IInv, TypeOK
  <1>. QED  BY <1>6, <1>7, AbstractReset

\* Power-on leaves no device event.
LEMMA ResetHardDevices ==
    ASSUME IInv, ResetHard
    PROVE  Devices!Next
  <1>. DEFINE e0 == [q |-> << >>, next_interrupt |-> 0, special_done |-> FALSE,
                     failed |-> evq.failed]
              e == init_interrupt(e0, InitCount)
  <1>1. e0 \in Queues /\ InitCount \in Counts
    BY EmptySeq, ZeroCount, ConstantsAssumption DEF Queues, IInv, TypeOK
  <1>. HIDE DEF e0
  <1>2. e \in Queues
    BY <1>1, InitNumber
  <1>3. evq' = init_interrupt(e, InitCount)
    BY DEF ResetHard, PoweronQueue, e0
  <1>. HIDE DEF e
  <1>4. \A t \in RcpEvents : Number(evq'.q, t) = 0
    BY <1>1, <1>2, <1>3, InitNumber
  <1>5. Queued' = [t \in RcpEvents |-> 0]
    BY <1>4 DEF Queued
  <1>6. mi'.intr = {}
    BY DEF ResetHard
  <1>. QED  BY <1>5, <1>6, AbstractReset

\* Every way through gen_interrupt is a step of DeviceEvents or changes nothing in it.
LEMMA GenInterruptDevices ==
    ASSUME IInv, GenInterrupt, ~evq'.failed \/ "soft" \notin Requests
    PROVE  Devices!Next \/ UNCHANGED DeviceVars
  <1>0. TypeOK
    BY DEF IInv
  <1>1. /\ Removed \in Queues /\ evq \in Queues /\ count \in Counts
        /\ SameDevices(Removed, Removed)
    BY RemovedQueue, SameDevicesSame
  <1>2. CASE CompareInt
    <2>1. Plus(count, CountPerOp) \in Counts /\ compare \in Counts
      BY <1>0, <1>1, CountArithmetic, ConstantsAssumption DEF TypeOK
    <2>. DEFINE e == add_interrupt_event_count(Removed, Plus(count, CountPerOp),
                                               COMPARE_INT, compare)
    <2>2. SameDevices(Removed, e)
      BY <1>1, <2>1, AddSameDevices, NotDevices
    <2>3. raise_maskable_interrupt(e, 7) /\ evq.q[1].type = COMPARE_INT
      BY <1>2 DEF CompareInt, Dispatch
    <2>. HIDE DEF e
    <2>4. SameDevices(evq, evq')
      BY <2>2, <2>3, HandledSameDevices, NotDevices
    <2>. QED  BY <1>2, <2>4, Stutter DEF CompareInt, regs
  <1>3. CASE CheckInt
    <2>1. SameDevices(evq, evq')
      BY <1>1, <1>3, HandledSameDevices, NotDevices DEF CheckInt, Dispatch
    <2>. QED  BY <1>3, <2>1, Stutter DEF CheckInt, regs
  <1>4. CASE Hw2Int
    <2>1. SameDevices(evq, evq')
      BY <1>1, <1>4, HandledSameDevices, NotDevices DEF Hw2Int, Dispatch
    <2>. QED  BY <1>4, <2>1, Stutter DEF Hw2Int, regs
  <1>5. CASE SpecialInt
    <2>1. [evq EXCEPT !.next_interrupt = 0] \in Queues
      BY <1>1, ZeroCount DEF Queues
    <2>2. SameDevices(evq, [evq EXCEPT !.next_interrupt = 0])
      BY <1>1, <2>1, SameDevicesSame DEF Queues
    <2>. DEFINE d == [Removed EXCEPT !.special_done = TRUE]
    <2>3. d \in Queues /\ d.q = Removed.q
      BY <1>1 DEF Queues
    <2>. HIDE DEF d
    <2>4. SameDevices(Removed, d)
      BY <2>3, SameDevicesSame
    <2>5. SameDevices(evq, Removed)
      BY <1>5, RemovedQueue, RemovalSameDevices, NotDevices DEF SpecialInt, Dispatch
    <2>6. SameDevices(d, add_interrupt_event_count(d, count, SPECIAL_INT, 0))
      BY <1>1, <2>3, ZeroCount, AddSameDevices, NotDevices
    <2>7. SameDevices(evq, d)
      BY <2>4, <2>5, SameDevicesTrans
    <2>8. SameDevices(evq, add_interrupt_event_count(d, count, SPECIAL_INT, 0))
      BY <2>6, <2>7, SameDevicesTrans
    <2>9. SameDevices(evq, evq')
      BY <1>5, <2>2, <2>8 DEF SpecialInt, d
    <2>. QED  BY <1>5, <2>9, Stutter DEF SpecialInt, regs
  <1>6. CASE SkipJump
    <2>1. NextInterrupt(evq.q, count) \in Counts
      BY <1>1, NextInterruptCount DEF Queues
    <2>2. evq' \in Queues /\ evq'.q = evq.q
      BY <1>1, <1>6, <2>1 DEF SkipJump, Queues
    <2>3. SameDevices(evq, evq')
      BY <2>2, SameDevicesSame
    <2>. QED  BY <1>6, <2>3, Stutter DEF SkipJump, regs
  <1>. QED  BY <1>2, <1>3, <1>4, <1>5, <1>6, ViIntDevices, DmaIntDevices, NmiIntDevices,
                ResetHardDevices DEF GenInterrupt
-----------------------------------------------------------------------------
(* The CPU loop *)

\* do_SP_Task queues an event of SP, of DP, of both or of neither, as the lines and the
\* pool allow, and takes the lines back.
LEMMA SpTaskDevices ==
    ASSUME IInv, IInv', do_SP_Task
    PROVE  Devices!Next
  <1>0. evq \in Queues /\ count \in Counts /\ count' \in Counts
    BY DEF IInv, TypeOK
  <1>1. PICK ack \in BOOLEAN, gfx \in BOOLEAN, frozen \in BOOLEAN,
             d1 \in DmaDelays, d2 \in DmaDelays,
             raised \in SUBSET ({SP_INT, DP_INT} \cap Dma) :
           (DP_INT \in raised => gfx) /\ SpTaskLines(ack, gfx, frozen, raised, d1, d2)
    BY DEF do_SP_Task
  <1>. DEFINE before == IF ack THEN mi.intr \ {SP_INT} ELSE mi.intr
              up == before \cap mi.mask # {}
              lines == before \cup raised
              dp == gfx /\ DP_INT \in lines /\ ~frozen
              sp == SP_INT \in lines
              e0 == IF ack THEN CheckQueue(evq, status, count, up) ELSE evq
              e1 == IF dp THEN add_interrupt_event(e0, count', DP_INT, d1) ELSE e0
              room0 == Len(e0.q) < PoolCapacity
              room1 == Len(e1.q) < PoolCapacity
              new == {t \in {SP_INT, DP_INT} : (t = DP_INT /\ dp /\ room0)
                                              \/ (t = SP_INT /\ sp /\ room1)}
              left == mi'.intr \cap {SP_INT, DP_INT}
  <1>2. /\ evq' = IF sp THEN add_interrupt_event(e1, count', SP_INT, d2) ELSE e1
        /\ mi'.intr = lines \ (IF gfx THEN {SP_INT, DP_INT} ELSE {SP_INT})
    BY <1>1 DEF SpTaskLines, IInv, TypeOK
  <1>3. /\ Plus(count', d1) \in Counts /\ Plus(count', d2) \in Counts
        /\ DP_INT \in EventTypes /\ SP_INT \in EventTypes /\ SP_INT # DP_INT
        /\ d1 \in Counts /\ d2 \in Counts
    BY <1>0, CountArithmetic, ConstantsAssumption DEF EventTypes, RcpEvents, SP_INT, DP_INT
  <1>4. /\ mi'.intr = (mi.intr \ {SP_INT, DP_INT}) \cup left
        /\ SP_INT \notin left /\ left \cap new = {}
    <2>1. raised \subseteq {SP_INT, DP_INT}
      OBVIOUS
    <2>2. SP_INT \notin left /\ (gfx => left = {})
      BY <1>2
    <2>3. ~gfx => new \subseteq {SP_INT}
      OBVIOUS
    <2>4. mi'.intr = (mi.intr \ {SP_INT, DP_INT}) \cup left
      <3>. HIDE DEF new
      <3>. QED  BY <1>1, <1>2, <2>1
    <2>. QED  BY <2>2, <2>3, <2>4
  <1>. HIDE DEF up
  <1>5. SameDevices(evq, e0)
    BY <1>0, CheckSameDevices, SameDevicesSame
  <1>6. e0 \in Queues
    BY <1>5 DEF SameDevices
  <1>. HIDE DEF e0, dp, sp, lines, before
  <1>7. e1 \in Queues
    BY <1>0, <1>3, <1>6, AddEvent DEF add_interrupt_event
  <1>8. ASSUME NEW t \in RcpEvents
        PROVE  Number(e1.q, t) = Number(e0.q, t) + (IF dp /\ room0 /\ DP_INT = t THEN 1 ELSE 0)
    <2>1. Number(e0.q, t) \in Nat
      BY <1>6, NumberType DEF Queues
    <2>2. CASE dp
      <3>1. e1 = add_interrupt_event(e0, count', DP_INT, d1)
        BY <2>2
      <3>2. Number(add_interrupt_event(e0, count', DP_INT, d1).q, t)
              = Number(e0.q, t) + (IF Len(e0.q) < PoolCapacity /\ DP_INT = t THEN 1 ELSE 0)
        BY <1>0, <1>3, <1>6, AddDelayNumber
      <3>. QED  BY <2>1, <2>2, <3>1, <3>2
    <2>3. CASE ~dp
      BY <2>1, <2>3
    <2>. QED  BY <2>2, <2>3
  <1>. HIDE DEF e1
  <1>9. ASSUME NEW t \in RcpEvents
        PROVE  Number(evq'.q, t) = Number(e1.q, t) + (IF sp /\ room1 /\ SP_INT = t THEN 1 ELSE 0)
    <2>1. Number(e1.q, t) \in Nat
      BY <1>7, NumberType DEF Queues
    <2>2. CASE sp
      <3>1. evq' = add_interrupt_event(e1, count', SP_INT, d2)
        BY <1>2, <2>2
      <3>2. Number(add_interrupt_event(e1, count', SP_INT, d2).q, t)
              = Number(e1.q, t) + (IF Len(e1.q) < PoolCapacity /\ SP_INT = t THEN 1 ELSE 0)
        BY <1>0, <1>3, <1>7, AddDelayNumber
      <3>. QED  BY <2>1, <2>2, <3>1, <3>2
    <2>3. CASE ~sp
      BY <1>2, <2>1, <2>3
    <2>. QED  BY <2>2, <2>3
  <1>10. ASSUME NEW t \in RcpEvents
         PROVE  Number(evq'.q, t) = IF t \in new THEN Queued[t] + 1 ELSE Queued[t]
    <2>1. Queued[t] = Number(e0.q, t)
      BY <1>5 DEF Queued, SameDevices
    <2>2. Number(e0.q, t) \in Nat
      BY <1>6, NumberType DEF Queues
    <2>3. CASE t = DP_INT
      BY <1>3, <1>8, <1>9, <2>1, <2>2, <2>3
    <2>4. CASE t = SP_INT
      BY <1>3, <1>8, <1>9, <2>1, <2>2, <2>4
    <2>5. CASE t # SP_INT /\ t # DP_INT
      BY <1>8, <1>9, <2>1, <2>2, <2>5
    <2>. QED  BY <2>3, <2>4, <2>5
  <1>11. new \in SUBSET {SP_INT, DP_INT} /\ left \in SUBSET {SP_INT, DP_INT}
    OBVIOUS
  <1>. HIDE DEF new, left
  <1>12. Queued' = [t \in RcpEvents |-> IF t \in new THEN Queued[t] + 1 ELSE Queued[t]]
    BY <1>10 DEF Queued
  <1>. QED  BY <1>4, <1>11, <1>12, AbstractTask

\* Every step of the CPU loop is a step of DeviceEvents or changes nothing in it.
LEMMA CpuLoopDevices ==
    ASSUME IInv, IInv', CpuLoop
    PROVE  Devices!Next \/ UNCHANGED DeviceVars
  <1>0. /\ evq \in Queues /\ count \in Counts /\ compare \in Counts /\ newcount \in Counts
        /\ evq' \in Queues /\ count' \in Counts /\ compare' \in Counts /\ next_vi' \in Counts
        /\ mi \in [intr : SUBSET RcpEvents, mask : SUBSET RcpEvents]
    BY DEF IInv, TypeOK
  <1>1. CASE Branch \/ BranchIdle \/ MTC0_Count \/ MTC0_Cause
    BY <1>1 DEF Branch, BranchIdle, MTC0_Count, MTC0_Cause, regs, DeviceVars, Queued
  <1>2. CASE ArmVi
    <2>1. VI_INT \in RcpEvents
      BY DEF RcpEvents
    <2>2. evq' = add_interrupt_event_count(evq, count', VI_INT, next_vi') /\ mi'.intr = mi.intr
      BY <1>2 DEF ArmVi
    <2>3. \/ UNCHANGED DeviceVars
          \/ Queued' = [Queued EXCEPT ![VI_INT] = @ + 1] /\ mi'.intr = mi.intr
      BY <1>0, <2>1, <2>2, StartStep
    <2>. QED  BY <2>1, <2>3, AbstractStart
  <1>3. CASE \E t \in Dma : StartDma(t)
    <2>1. PICK t \in Dma : StartDma(t)
      BY <1>3
    <2>2. PICK d \in DmaDelays : evq' = add_interrupt_event(evq, count', t, d)
      BY <2>1 DEF StartDma
    <2>3. Plus(count', d) \in Counts /\ t \in RcpEvents
      BY <1>0, CountArithmetic, ConstantsAssumption
    <2>4. evq' = add_interrupt_event_count(evq, count', t, Plus(count', d)) /\ mi'.intr = mi.intr
      BY <2>1, <2>2 DEF StartDma, add_interrupt_event, regs
    <2>5. \/ UNCHANGED DeviceVars
          \/ Queued' = [Queued EXCEPT ![t] = @ + 1] /\ mi'.intr = mi.intr
      BY <1>0, <2>3, <2>4, StartStep
    <2>. QED  BY <2>3, <2>5, AbstractStart
  <1>4. CASE WriteMiMask
    <2>1. SameDevices(evq, evq')
      BY <1>0, <1>4, CheckSameDevices DEF WriteMiMask, r4300_check_interrupt
    <2>2. mi'.intr = mi.intr
      BY <1>0, <1>4 DEF WriteMiMask
    <2>. QED  BY <2>1, <2>2, Stutter
  <1>5. CASE MTC0_Status
    <2>1. SameDevices(evq, evq')
      BY <1>0, <1>5, CheckSameDevices DEF MTC0_Status, r4300_check_interrupt
    <2>. QED  BY <1>5, <2>1, Stutter DEF MTC0_Status, regs
  <1>6. CASE ERET
    <2>1. SameDevices(evq, evq')
      BY <1>0, <1>6, CheckSameDevices DEF ERET, r4300_check_interrupt
    <2>. QED  BY <1>6, <2>1, Stutter DEF ERET, regs
  <1>7. CASE \E line \in Dma \cup {VI_INT} : clear_rcp_interrupt(line)
    <2>1. PICK line \in Dma \cup {VI_INT} : clear_rcp_interrupt(line)
      BY <1>7
    <2>2. line \in RcpEvents
      BY ConstantsAssumption DEF RcpEvents
    <2>3. SameDevices(evq, evq')
      BY <1>0, <2>1, CheckSameDevices DEF clear_rcp_interrupt, r4300_check_interrupt
    <2>4. mi'.intr = mi.intr \ {line}
      BY <1>0, <2>1 DEF clear_rcp_interrupt
    <2>5. Queued' = Queued
      BY <2>3 DEF Queued, SameDevices
    <2>. QED  BY <2>2, <2>4, <2>5, AbstractLine
  <1>8. CASE \E line \in Dma \cap {SP_INT, DP_INT} : signal_rcp_interrupt(line)
    <2>1. PICK line \in Dma \cap {SP_INT, DP_INT} : signal_rcp_interrupt(line)
      BY <1>8
    <2>2. line \in RcpEvents /\ line \in {SP_INT, DP_INT}
      BY ConstantsAssumption
    <2>3. SameDevices(evq, evq')
      BY <1>0, <2>1, CheckSameDevices DEF signal_rcp_interrupt, r4300_check_interrupt
    <2>4. mi'.intr = mi.intr \cup {line}
      BY <1>0, <2>1 DEF signal_rcp_interrupt
    <2>5. Queued' = Queued
      BY <2>3 DEF Queued, SameDevices
    <2>. QED  BY <2>2, <2>4, <2>5, AbstractLine
  <1>9. CASE MTC0_Compare
    <2>1. SameDevices(evq, remove_event(evq, COMPARE_INT))
      BY <1>0, RemoveEventSameDevices, NotDevices
    <2>2. remove_event(evq, COMPARE_INT) \in Queues
      BY <2>1 DEF SameDevices
    <2>3. SameDevices(remove_event(evq, COMPARE_INT), evq')
      BY <1>0, <1>9, <2>2, AddSameDevices, NotDevices DEF MTC0_Compare
    <2>4. SameDevices(evq, evq')
      BY <2>1, <2>3, SameDevicesTrans
    <2>. QED  BY <1>9, <2>4, Stutter DEF MTC0_Compare
  <1>10. CASE Translate
    <2>1. SameDevices(evq, evq')
      BY <1>0, <1>10, TranslateSameDevices DEF Translate
    <2>. QED  BY <1>10, <2>1, Stutter DEF Translate, regs
  <1>11. CASE GuestException
    <2>1. evq'.q = evq.q
      BY <1>0, <1>11 DEF GuestException, Queues
    <2>2. SameDevices(evq, evq')
      BY <1>0, <2>1, SameDevicesSame
    <2>. QED  BY <1>11, <2>2, Stutter DEF GuestException, regs
  <1>. QED  BY <1>1, <1>2, <1>3, <1>4, <1>5, <1>6, <1>7, <1>8, <1>9, <1>10, <1>11,
                SpTaskDevices DEF CpuLoop
-----------------------------------------------------------------------------
(* Induction up to a number *)

\* Min returns the least element.
LEMMA MinLeast ==
    ASSUME NEW T, T \subseteq Nat, T # {}
    PROVE  Min(T) \in T /\ \A y \in T : Min(T) <= y
  <1>1. PICK x \in T : \A y \in T : ~ (<<y, x>> \in OpToRel(<, Nat))
    BY NatLessThanWellFounded, WFMin
  <1>2. \A y \in T : ~ (y < x)
    BY <1>1, Zenon DEF OpToRel
  <1>3. \A y \in T : x =< y
    BY <1>2
  <1>. QED  BY <1>3 DEF Min

\* Induction up to N: a set that holds 0 and the successor of each of its members.
LEMMA UpTo ==
    ASSUME NEW N \in Nat, NEW T, 0 \in T, \A i \in 1 .. N : i - 1 \in T => i \in T
    PROVE  \A i \in 0 .. N : i \in T
  <1>. DEFINE U == {i \in Nat : i <= N /\ i \notin T}
  <1>. SUFFICES ASSUME U # {} PROVE FALSE
    OBVIOUS
  <1>1. Min(U) \in U /\ \A y \in U : Min(U) <= y
    <2>1. U \subseteq Nat
      OBVIOUS
    <2>. HIDE DEF U
    <2>. QED  BY <2>1, MinLeast
  <1>2. PICK x \in U : x = Min(U)
    BY <1>1
  <1>3. x \in 1 .. N /\ x - 1 \in Nat /\ x - 1 <= N /\ ~(x <= x - 1)
    BY <1>2
  <1>4. x - 1 \in T
    BY <1>1, <1>2, <1>3
  <1>. QED  BY <1>2, <1>3, <1>4

\* f repeats step from base on, N times.
Iterates(S, base, N, step, f) ==
    f \in [0 .. N -> S] /\ f[0] = base /\ \A i \in 1 .. N : f[i] = step[<<f[i - 1], i>>]

\* A step can be repeated N times.
LEMMA Iteration ==
    ASSUME NEW S, NEW base \in S, NEW N \in Nat, NEW step \in [S \X Nat -> S]
    PROVE  \E f : Iterates(S, base, N, step, f)
  <1>. DEFINE Sol(n, f) == /\ f \in [0 .. n -> S] /\ f[0] = base
                           /\ \A i \in 1 .. n : f[i] = step[<<f[i - 1], i>>]
              T == {n \in Nat : \E f : Sol(n, f)}
  <1>1. 0 \in T
    <2>1. Sol(0, [i \in 0 .. 0 |-> base])
      OBVIOUS
    <2>. QED  BY <2>1
  <1>2. ASSUME NEW n \in 1 .. N, n - 1 \in T PROVE n \in T
    <2>1. PICK g : Sol(n - 1, g)
      BY <1>2
    <2>. DEFINE v == step[<<g[n - 1], n>>]
                f == [i \in 0 .. n |-> IF i <= n - 1 THEN g[i] ELSE v]
    <2>2. n - 1 \in 0 .. n - 1 /\ n \in Nat /\ n - 1 \in Nat
      OBVIOUS
    <2>3. v \in S
      BY <2>1, <2>2
    <2>. HIDE DEF v
    <2>4. f \in [0 .. n -> S] /\ f[0] = base
      BY <2>1, <2>2, <2>3
    <2>5. ASSUME NEW i \in 1 .. n PROVE f[i] = step[<<f[i - 1], i>>]
      <3>1. CASE i <= n - 1
        <4>1. i \in 1 .. n - 1 /\ i - 1 \in 0 .. n - 1
          BY <3>1, <2>2
        <4>2. f[i] = g[i] /\ f[i - 1] = g[i - 1]
          BY <4>1, <2>2
        <4>3. g[i] = step[<<g[i - 1], i>>]
          BY <4>1, <2>1
        <4>. QED  BY <4>2, <4>3
      <3>2. CASE ~(i <= n - 1)
        <4>1. i = n /\ f[i] = v /\ f[i - 1] = g[n - 1]
          BY <3>2, <2>2
        <4>. QED  BY <4>1 DEF v
      <3>. QED  BY <3>1, <3>2
    <2>. HIDE DEF f
    <2>6. Sol(n, f)
      BY <2>4, <2>5
    <2>. HIDE DEF Sol
    <2>. QED  BY <2>2, <2>6
  <1>. HIDE DEF T
  <1>3. N \in T
    <2>1. \A i \in 0 .. N : i \in T
      BY <1>1, <1>2, UpTo
    <2>. QED  BY <2>1
  <1>. QED  BY <1>3 DEF T, Iterates
-----------------------------------------------------------------------------
(* Loading a savestate *)

\* The equation that defines load_eventqueue_infos.
LoadEq(e, c, image, f) ==
    f = [i \in 0 .. Len(image) |->
            IF i = 0 THEN [e EXCEPT !.q = << >>]
            ELSE add_interrupt_event_count(f[i - 1], c, image[i].type, image[i].count)]

\* The queues g that loading an image goes through.
LoadSteps(e, c, image, g) ==
    /\ g \in [0 .. Len(image) -> Queues]
    /\ g[0] = [e EXCEPT !.q = << >>]
    /\ \A i \in 1 .. Len(image) :
          g[i] = add_interrupt_event_count(g[i - 1], c, image[i].type, image[i].count)

\* load_eventqueue_infos is the last of them.
LEMMA LoadIsSteps ==
    ASSUME NEW e \in Queues, NEW c \in Counts, NEW image \in Seq(Events)
    PROVE  \E g : /\ LoadSteps(e, c, image, g)
                  /\ load_eventqueue_infos(e, c, image) = g[Len(image)]
  <1>. DEFINE N == Len(image)
              base == [e EXCEPT !.q = << >>]
              Add(x, i) == add_interrupt_event_count(x, c, image[i].type, image[i].count)
              step == [s \in Queues \X Nat |-> IF s[2] \in 1 .. N THEN Add(s[1], s[2]) ELSE s[1]]
              F(f, i) == IF i = 0 THEN base ELSE Add(f[i - 1], i)
  <1>0. N \in Nat /\ base \in Queues
    <2>1. PICK empty \in Seq(Events) : empty = << >>
      BY EmptySeq
    <2>2. [e EXCEPT !.q = empty] \in Queues
      BY DEF Queues
    <2>3. N \in Nat
      OBVIOUS
    <2>. QED  BY <2>1, <2>2, <2>3
  <1>1. ASSUME NEW x \in Queues, NEW i \in 1 .. N PROVE Add(x, i) \in Queues
    <2>1. image[i] \in Events
      OBVIOUS
    <2>2. PICK t \in EventTypes : t = image[i].type
      BY <2>1 DEF Events
    <2>3. PICK n \in Counts : n = image[i].count
      BY <2>1 DEF Events
    <2>4. add_interrupt_event_count(x, c, t, n) \in Queues
      BY AddEvent
    <2>. QED  BY <2>2, <2>3, <2>4
  <1>. HIDE DEF base, Add
  <1>2. step \in [Queues \X Nat -> Queues]
    BY <1>1
  <1>3. \A x \in Queues, i \in 1 .. N : step[<<x, i>>] = Add(x, i)
    BY <1>0
  <1>. HIDE DEF step, N
  <1>4. PICK f : Iterates(Queues, base, N, step, f)
    BY <1>0, <1>2, Iteration
  <1>5. /\ f \in [0 .. N -> Queues] /\ f[0] = base
        /\ \A i \in 1 .. N : f[i] = Add(f[i - 1], i)
    <2>1. \A i \in 1 .. N : i - 1 \in 0 .. N
      BY <1>0
    <2>. QED  BY <1>3, <1>4, <2>1 DEF Iterates
  <1>6. \A i \in 0 .. N : f[i] = F(f, i)
    <2>1. \A i \in 0 .. N : i # 0 => i \in 1 .. N
      BY <1>0
    <2>. QED  BY <1>5, <2>1
  <1>7. f = [i \in 0 .. N |-> F(f, i)]
    <2>1. f = [i \in 0 .. N |-> f[i]]
      BY <1>5
    <2>. HIDE DEF F
    <2>. QED  BY <1>6, <2>1
  <1>8. LoadEq(e, c, image, f)
    BY <1>7, Zenon DEF LoadEq, N, base, Add
  <1>. DEFINE g == CHOOSE h : LoadEq(e, c, image, h)
  <1>9. LoadEq(e, c, image, g)
    BY <1>8
  <1>10. load_eventqueue_infos(e, c, image) = g[N]
    BY Zenon DEF load_eventqueue_infos, LoadEq, N
  <1>. HIDE DEF g
  <1>11. \A i \in 0 .. N : g[i] = F(g, i)
    <2>1. g = [i \in 0 .. N |-> F(g, i)]
      BY <1>9, Zenon DEF LoadEq, N, base, Add
    <2>. HIDE DEF F
    <2>. QED  BY <2>1, Zenon
  <1>12. g[0] = base /\ \A i \in 1 .. N : g[i] = Add(g[i - 1], i)
    <2>1. 0 \in 0 .. N /\ \A i \in 1 .. N : i \in 0 .. N /\ i # 0
      BY <1>0
    <2>. QED  BY <1>11, <2>1, Zenon
  <1>13. g \in [0 .. N -> Queues]
    <2>. DEFINE T == {i \in 0 .. N : g[i] \in Queues}
    <2>1. 0 \in T
      BY <1>0, <1>12
    <2>2. ASSUME NEW i \in 1 .. N, i - 1 \in T PROVE i \in T
      BY <1>0, <1>1, <1>12, <2>2
    <2>. HIDE DEF T
    <2>3. \A i \in 0 .. N : i \in T
      BY <1>0, <2>1, <2>2, UpTo
    <2>4. \A i \in 0 .. N : g[i] \in Queues
      BY <2>3 DEF T
    <2>5. g = [i \in 0 .. N |-> F(g, i)]
      BY <1>9, Zenon DEF LoadEq, N, base, Add
    <2>6. g = [i \in 0 .. N |-> g[i]]
      <3>. HIDE DEF F
      <3>. QED  BY <2>5
    <2>. QED  BY <2>4, <2>6
  <1>14. LoadSteps(e, c, image, g)
    BY <1>12, <1>13, Zenon DEF LoadSteps, N, base, Add
  <1>. QED  BY <1>10, <1>14 DEF N

\* The first n events of the image, in some order, are the list r.
IsPermuted(r, image, n) ==
    \E p \in [1 .. n -> 1 .. n] :
        /\ \A i, j \in 1 .. n : p[i] = p[j] => i = j
        /\ \A k \in 1 .. n : \E i \in 1 .. n : p[i] = k
        /\ \A i \in 1 .. n : r[i] = image[p[i]]

\* One more event of the image is added to them.
LEMMA PermutedInsertion ==
    ASSUME NEW image \in Seq(Events), NEW n \in 1 .. Len(image),
           NEW q \in Seq(Events), Len(q) = n - 1, IsPermuted(q, image, n - 1),
           NEW r, IsInsertion(r, q, image[n])
    PROVE  IsPermuted(r, image, n)
  <1>1. PICK p \in [1 .. n - 1 -> 1 .. n - 1] :
           /\ \A i, j \in 1 .. n - 1 : p[i] = p[j] => i = j
           /\ \A k \in 1 .. n - 1 : \E i \in 1 .. n - 1 : p[i] = k
           /\ \A i \in 1 .. n - 1 : q[i] = image[p[i]]
    BY DEF IsPermuted
  <1>2. PICK k \in 1 .. n :
           /\ r[k] = image[n]
           /\ \A i \in 1 .. n : i < k => r[i] = q[i]
           /\ \A i \in 1 .. n : i > k => r[i] = q[i - 1]
    <2>1. n \in Nat /\ Len(q) + 1 = n
      OBVIOUS
    <2>. QED  BY <2>1, Zenon DEF IsInsertion
  <1>. DEFINE s == [i \in 1 .. n |-> IF i < k THEN p[i] ELSE IF i = k THEN n ELSE p[i - 1]]
  <1>0. n \in Nat /\ k \in Nat
    OBVIOUS
  <1>3. \A i \in 1 .. n : /\ i < k => i \in 1 .. n - 1 /\ p[i] \in 1 .. n - 1
                          /\ i > k => i - 1 \in 1 .. n - 1 /\ p[i - 1] \in 1 .. n - 1
    <2>1. \A i \in 1 .. n : /\ i < k => i \in 1 .. n - 1
                            /\ i > k => i - 1 \in 1 .. n - 1
      BY <1>0
    <2>2. \A i \in 1 .. n - 1 : p[i] \in 1 .. n - 1
      BY <1>1
    <2>. QED  BY <2>1, <2>2
  <1>4. s \in [1 .. n -> 1 .. n]
    BY <1>0, <1>3
  <1>5. ASSUME NEW i \in 1 .. n, NEW j \in 1 .. n, s[i] = s[j] PROVE i = j
    <2>1. CASE i = k \/ j = k
      BY <1>0, <1>3, <1>5, <2>1
    <2>2. CASE i # k /\ j # k
      <3>. DEFINE a == IF i < k THEN i ELSE i - 1
                  b == IF j < k THEN j ELSE j - 1
      <3>1. a \in 1 .. n - 1 /\ b \in 1 .. n - 1
        BY <1>0, <2>2
      <3>3. s[i] = p[a] /\ s[j] = p[b]
        BY <1>0, <2>2
      <3>. HIDE DEF s
      <3>2. a = b
        <4>. HIDE DEF a, b
        <4>. QED  BY <1>1, <1>5, <3>1, <3>3
      <3>. QED  BY <1>0, <2>2, <3>2, SMTT(60)
    <2>. QED  BY <2>1, <2>2
  <1>6. ASSUME NEW l \in 1 .. n PROVE \E i \in 1 .. n : s[i] = l
    <2>1. CASE l = n
      <3>1. s[k] = n
        BY <1>0
      <3>. QED  BY <2>1, <3>1
    <2>2. CASE l # n
      <3>1. l \in 1 .. n - 1
        BY <1>0, <2>2
      <3>2. PICK i \in 1 .. n - 1 : p[i] = l
        BY <1>1, <3>1
      <3>3. CASE i < k
        <4>1. i \in 1 .. n /\ s[i] = l
          BY <1>0, <3>2, <3>3
        <4>. QED  BY <4>1
      <3>4. CASE ~(i < k)
        <4>1. i + 1 \in 1 .. n /\ ~(i + 1 < k) /\ i + 1 # k /\ (i + 1) - 1 = i
          BY <1>0, <3>4
        <4>2. s[i + 1] = l
          BY <3>2, <4>1
        <4>. QED  BY <4>1, <4>2
      <3>. QED  BY <3>3, <3>4
    <2>. QED  BY <2>1, <2>2
  <1>7. ASSUME NEW i \in 1 .. n PROVE r[i] = image[s[i]]
    <2>1. CASE i < k
      BY <1>0, <1>1, <1>2, <1>3, <2>1
    <2>2. CASE i = k
      BY <1>2, <2>2
    <2>3. CASE i > k
      <3>1. i - 1 \in 1 .. n - 1 /\ ~(i < k) /\ i # k
        BY <1>0, <1>3, <2>3
      <3>2. s[i] = p[i - 1] /\ r[i] = q[i - 1]
        BY <1>2, <2>3, <3>1
      <3>. QED  BY <1>1, <3>1, <3>2
    <2>. QED  BY <1>0, <2>1, <2>2, <2>3
  <1>. HIDE DEF s
  <1>. QED  BY <1>4, <1>5, <1>6, <1>7 DEF IsPermuted

\* load_eventqueue_infos brings back the events of the image, in some order, if the
\* pool holds them.
LEMMA LoadPermutes ==
    ASSUME NEW e \in Queues, NEW c \in Counts, NEW image \in Seq(Events),
           Len(image) <= PoolCapacity
    PROVE  LET r == load_eventqueue_infos(e, c, image)
           IN  /\ r \in Queues /\ r.failed = e.failed /\ Len(r.q) = Len(image)
               /\ IsPermuted(r.q, image, Len(image))
  <1>0. PICK N \in Nat : N = Len(image)
    OBVIOUS
  <1>1. PICK g : LoadSteps(e, c, image, g) /\ load_eventqueue_infos(e, c, image) = g[N]
    BY <1>0, LoadIsSteps
  <1>2. /\ g \in [0 .. N -> Queues] /\ g[0] = [e EXCEPT !.q = << >>]
        /\ \A i \in 1 .. N :
              g[i] = add_interrupt_event_count(g[i - 1], c, image[i].type, image[i].count)
    BY <1>0, <1>1, Zenon DEF LoadSteps
  <1>. DEFINE Good(i) == /\ g[i].failed = e.failed /\ Len(g[i].q) = i
                         /\ IsPermuted(g[i].q, image, i)
              T == {i \in 0 .. N : Good(i)}
  <1>3. 0 \in T
    <2>1. g[0].failed = e.failed /\ g[0].q = << >>
      <3>1. PICK empty : empty = << >>
        OBVIOUS
      <3>2. [e EXCEPT !.q = empty].failed = e.failed /\ [e EXCEPT !.q = empty].q = empty
        BY DEF Queues
      <3>. QED  BY <1>2, <3>1, <3>2
    <2>2. Len(g[0].q) = 0
      BY <2>1
    <2>3. IsPermuted(g[0].q, image, 0)
      <3>. DEFINE p == [i \in 1 .. 0 |-> i]
      <3>1. p \in [1 .. 0 -> 1 .. 0] /\ \A i \in 1 .. 0 : FALSE
        OBVIOUS
      <3>. HIDE DEF p
      <3>. QED  BY <3>1 DEF IsPermuted
    <2>. QED  BY <2>1, <2>2, <2>3
  <1>4. ASSUME NEW i \in 1 .. N, i - 1 \in T PROVE i \in T
    <2>1. i - 1 \in 0 .. N /\ i \in 0 .. N /\ i \in 1 .. Len(image) /\ i - 1 < PoolCapacity
      BY <1>0, PoolCapacityAssumption
    <2>2. PICK x \in Queues : x = g[i - 1]
      BY <1>2, <2>1
    <2>3. Good(i - 1)
      BY <1>4
    <2>4. image[i] \in Events
      BY <2>1
    <2>5. PICK t \in EventTypes : t = image[i].type
      BY <2>4 DEF Events
    <2>6. PICK n \in Counts : n = image[i].count
      BY <2>4 DEF Events
    <2>7. image[i] = [type |-> t, count |-> n]
      BY <2>4, <2>5, <2>6 DEF Events
    <2>8. PICK r : r = add_interrupt_event_count(x, c, t, n)
      OBVIOUS
    <2>9. /\ r \in Queues
          /\ Len(x.q) < PoolCapacity =>
                r.failed = x.failed /\ IsInsertion(r.q, x.q, [type |-> t, count |-> n])
      BY <2>8, AddEvent
    <2>10. g[i] = r
      BY <1>2, <2>2, <2>5, <2>6, <2>8, Zenon
    <2>11. x.failed = e.failed /\ Len(x.q) = i - 1 /\ IsPermuted(x.q, image, i - 1)
      BY <2>2, <2>3
    <2>12. r.failed = e.failed /\ IsInsertion(r.q, x.q, image[i])
      BY <2>1, <2>7, <2>9, <2>11
    <2>13. x.q \in Seq(Events)
      BY DEF Queues
    <2>14. IsPermuted(r.q, image, i)
      BY <2>1, <2>11, <2>12, <2>13, PermutedInsertion
    <2>15. Len(r.q) = i
      BY <2>1, <2>11, <2>12 DEF IsInsertion
    <2>16. Good(i)
      BY <2>10, <2>12, <2>14, <2>15
    <2>. HIDE DEF Good
    <2>. QED  BY <2>1, <2>16
  <1>. HIDE DEF T
  <1>5. \A i \in 0 .. N : i \in T
    BY <1>3, <1>4, UpTo
  <1>6. N \in 0 .. N
    OBVIOUS
  <1>7. Good(N)
    BY <1>5, <1>6 DEF T
  <1>8. g[N] \in Queues
    BY <1>2, <1>6
  <1>. QED  BY <1>0, <1>1, <1>7, <1>8

\* What the order of a list does not matter for.
LEMMA PermutedTypes ==
    ASSUME NEW q \in Seq(Events), NEW r \in Seq(Events), Len(r) = Len(q),
           IsPermuted(r, q, Len(q)), NEW t, NEW c
    PROVE  /\ Has(r, t) <=> Has(q, t)
           /\ AtMostOne(q, t) => AtMostOne(r, t)
           /\ AllAt(q, t, c) => AllAt(r, t, c)
           /\ Number(r, t) = Number(q, t)
  <1>0. PICK N \in Nat : N = Len(q)
    OBVIOUS
  <1>1. DOMAIN q = 1 .. N /\ DOMAIN r = 1 .. N
    BY <1>0
  <1>2. PICK p \in [1 .. N -> 1 .. N] :
           /\ \A i, j \in 1 .. N : p[i] = p[j] => i = j
           /\ \A k \in 1 .. N : \E i \in 1 .. N : p[i] = k
           /\ \A i \in 1 .. N : r[i] = q[p[i]]
    BY <1>0 DEF IsPermuted
  <1>3. \A i \in 1 .. N : p[i] \in 1 .. N
    BY <1>2
  <1>a. \A i \in 1 .. N : r[i] = q[p[i]]
    BY <1>2
  <1>b. \A i, j \in 1 .. N : p[i] = p[j] => i = j
    BY <1>2
  <1>c. \A k \in 1 .. N : \E i \in 1 .. N : p[i] = k
    BY <1>2
  <1>4. Has(r, t) <=> Has(q, t)
    <2>1. ASSUME NEW i \in 1 .. N, r[i].type = t
          PROVE  \E k \in 1 .. N : q[k].type = t
      BY <1>3, <1>a, <2>1, Zenon
    <2>2. ASSUME NEW k \in 1 .. N, q[k].type = t
          PROVE  \E i \in 1 .. N : r[i].type = t
      <3>1. PICK i \in 1 .. N : p[i] = k
        BY <1>c
      <3>2. r[i] = q[p[i]]
        BY <1>a
      <3>3. r[i].type = t
        BY <2>2, <3>1, <3>2
      <3>. QED  BY <3>3
    <2>. QED  BY <1>1, <2>1, <2>2, Zenon DEF Has
  <1>5. AtMostOne(q, t) => AtMostOne(r, t)
    <2>. SUFFICES ASSUME AtMostOne(q, t), NEW i \in 1 .. N, NEW j \in 1 .. N,
                         r[i].type = t, r[j].type = t
                  PROVE  i = j
      BY <1>1, Zenon DEF AtMostOne
    <2>1. p[i] \in 1 .. N /\ p[j] \in 1 .. N /\ r[i] = q[p[i]] /\ r[j] = q[p[j]]
      BY <1>3, <1>a
    <2>2. q[p[i]].type = t /\ q[p[j]].type = t
      BY <2>1
    <2>3. p[i] = p[j]
      BY <1>1, <2>1, <2>2, Zenon DEF AtMostOne
    <2>. QED  BY <1>b, <2>3
  <1>6. AllAt(q, t, c) => AllAt(r, t, c)
    <2>. SUFFICES ASSUME AllAt(q, t, c), NEW i \in 1 .. N, r[i].type = t
                  PROVE  r[i].count = c
      BY <1>1, Zenon DEF AllAt
    <2>1. p[i] \in 1 .. N /\ r[i] = q[p[i]]
      BY <1>3, <1>a
    <2>2. q[p[i]].count = c
      BY <1>1, <2>1, Zenon DEF AllAt
    <2>. QED  BY <2>1, <2>2
  <1>7. Number(r, t) = Number(q, t)
    <2>. DEFINE S == {i \in DOMAIN r : r[i].type = t}
                U == {i \in DOMAIN q : q[i].type = t}
                f == [i \in S |-> p[i]]
    <2>1. f \in [S -> U] /\ \A i \in S : f[i] = p[i]
      BY <1>1, <1>2, <1>3
    <2>2. \A i, j \in S : f[i] = f[j] => i = j
      BY <1>1, <1>2, <2>1
    <2>3. ASSUME NEW y \in U PROVE \E i \in S : f[i] = y
      <3>1. y \in 1 .. N /\ q[y].type = t
        BY <1>1, <2>3
      <3>2. PICK i \in 1 .. N : p[i] = y
        BY <1>2, <3>1
      <3>3. i \in S
        BY <1>1, <1>2, <3>1, <3>2
      <3>. QED  BY <2>1, <3>2, <3>3
    <2>. HIDE DEF f
    <2>4. f \in Bijection(S, U)
      BY <2>1, <2>2, <2>3 DEF Bijection, Injection, IsInjective, Surjection
    <2>5. ExistsBijection(S, U)
      BY <2>4 DEF ExistsBijection
    <2>6. IsFiniteSet(S)
      BY NumberType
    <2>. HIDE DEF S, U
    <2>7. Cardinality(U) = Cardinality(S)
      BY <2>5, <2>6, FS_Bijection
    <2>. QED  BY <2>7 DEF Number, S, U
  <1>. QED  BY <1>4, <1>5, <1>6, <1>7

\* Loading the image of a queue keeps QueueInv and the events of the devices, under
\* any special_done.
LEMMA LoadInv ==
    ASSUME NEW e, NEW c, QueueInv(e, c), NEW n \in Counts, NEW d \in BOOLEAN
    PROVE  LET r == load_eventqueue_infos([e EXCEPT !.special_done = d], n,
                                          save_eventqueue_infos(e))
           IN  QueueInv(r, c) /\ SameDevices(e, r) /\ Len(r.q) = Len(e.q)
  <1>. DEFINE x == [e EXCEPT !.special_done = d]
              r == load_eventqueue_infos(x, n, e.q)
  <1>1. /\ e \in Queues /\ e.q \in Seq(Events) /\ Len(e.q) <= PoolCapacity
        /\ x \in Queues /\ x.failed = e.failed
    BY DEF QueueInv, Queues
  <1>. HIDE DEF x
  <1>2. /\ r \in Queues /\ r.failed = e.failed /\ Len(r.q) = Len(e.q)
        /\ IsPermuted(r.q, e.q, Len(e.q))
    BY <1>1, LoadPermutes
  <1>. HIDE DEF r
  <1>3. r.q \in Seq(Events)
    BY <1>2 DEF Queues
  <1>4. \A t : /\ Has(r.q, t) <=> Has(e.q, t)
               /\ AtMostOne(e.q, t) => AtMostOne(r.q, t)
               /\ AllAt(e.q, t, c) => AllAt(r.q, t, c)
               /\ Number(r.q, t) = Number(e.q, t)
    BY <1>1, <1>2, <1>3, PermutedTypes
  <1>5. QueueInv(r, c)
    BY <1>1, <1>2, <1>4 DEF QueueInv
  <1>6. SameDevices(e, r)
    BY <1>2, <1>4 DEF SameDevices
  <1>. QED  BY <1>2, <1>5, <1>6 DEF save_eventqueue_infos, x, r

\* A load while the VI handler waits preserves the invariant.
LEMMA ViLoadInv ==
    ASSUME IInv, ViLoad
    PROVE  IInv'
  <1>1. TypeOK /\ VI_INT \in EventTypes \ {SPECIAL_INT, COMPARE_INT} /\ VI_INT \in RcpEvents
    BY OtherTypes DEF IInv
  <1>2. QueueInv(Removed, compare) /\ count \in Counts /\ next_vi' \in Counts
    BY <1>1, RemovedInv, CountArithmetic, ConstantsAssumption DEF ViLoad, TypeOK
  <1>3. PICK d \in BOOLEAN :
           raise_rcp_interrupt(
             add_interrupt_event_count(
               load_eventqueue_infos([Removed EXCEPT !.special_done = d], count,
                                     save_eventqueue_infos(Removed)),
               count, VI_INT, next_vi'), VI_INT)
    <2>1. evq.special_done \in BOOLEAN
      BY <1>1 DEF TypeOK, Queues
    <2>. QED  BY <2>1 DEF ViLoad
  <1>. DEFINE e == load_eventqueue_infos([Removed EXCEPT !.special_done = d], count,
                                         save_eventqueue_infos(Removed))
              v == add_interrupt_event_count(e, count, VI_INT, next_vi')
  <1>4. QueueInv(e, compare)
    BY <1>2, LoadInv
  <1>. HIDE DEF e
  <1>5. QueueInv(v, compare)
    BY <1>1, <1>2, <1>4, QueueInvAdd
  <1>6. raise_rcp_interrupt(v, VI_INT)
    BY <1>3 DEF e
  <1>. HIDE DEF v
  <1>7. Handled /\ mi' \in [intr : SUBSET RcpEvents, mask : SUBSET RcpEvents]
    BY <1>1, <1>5, <1>6, RcpHandled
  <1>8. /\ compare' = compare /\ delay_slot' = delay_slot /\ reset_hard_job' = reset_hard_job
        /\ stop' = stop /\ newcount' = newcount /\ budget' = budget
        /\ pc' \in GenPcs \cup {"run", "translate"}
    BY <1>1 DEF ViLoad, Dispatch, TypeOK
  <1>. QED  BY <1>1, <1>2, <1>7, <1>8 DEF IInv, TypeOK, Handled, QueueInv

\* It is the abstract handler of the VI.
LEMMA ViLoadDevices ==
    ASSUME IInv, ViLoad
    PROVE  Devices!Next
  <1>1. /\ Removed \in Queues /\ IsRemoval(Removed.q, evq.q, 1) /\ 1 \in 1 .. Len(evq.q)
        /\ evq \in Queues /\ count \in Counts
    BY RemovedQueue
  <1>2. Len(Removed.q) < PoolCapacity
    <2>1. Len(evq.q) <= PoolCapacity /\ Len(evq.q) \in Nat
      BY <1>1 DEF IInv, QueueInv, Queues
    <2>2. Len(Removed.q) = Len(evq.q) - 1
      BY <1>1 DEF IsRemoval
    <2>. QED  BY <2>1, <2>2, PoolCapacityAssumption
  <1>3. next_vi' \in Counts /\ evq.q[1].type = VI_INT
    BY CountArithmetic, ConstantsAssumption DEF ViLoad, Dispatch, IInv, TypeOK
  <1>4. QueueInv(Removed, compare)
    BY RemovedInv, OtherTypes DEF ViLoad
  <1>5. PICK d \in BOOLEAN :
           raise_rcp_interrupt(
             add_interrupt_event_count(
               load_eventqueue_infos([Removed EXCEPT !.special_done = d], count,
                                     save_eventqueue_infos(Removed)),
               count, VI_INT, next_vi'), VI_INT)
    <2>1. evq.special_done \in BOOLEAN
      BY <1>1 DEF Queues
    <2>. QED  BY <2>1 DEF ViLoad
  <1>. DEFINE e == load_eventqueue_infos([Removed EXCEPT !.special_done = d], count,
                                         save_eventqueue_infos(Removed))
              v == add_interrupt_event_count(e, count, VI_INT, next_vi')
  <1>6. SameDevices(Removed, e) /\ Len(e.q) = Len(Removed.q)
    BY <1>1, <1>4, LoadInv
  <1>7. raise_rcp_interrupt(v, VI_INT)
    BY <1>5
  <1>8. e \in Queues /\ Len(e.q) < PoolCapacity
    BY <1>2, <1>6 DEF SameDevices
  <1>. HIDE DEF e
  <1>9. v \in Queues
    BY <1>1, <1>3, <1>8, AddEvent, OtherTypes
  <1>10. ASSUME NEW u \in RcpEvents
         PROVE  Len(e.q) < PoolCapacity =>
                   Number(v.q, u) = Number(e.q, u) + (IF VI_INT = u THEN 1 ELSE 0)
    BY <1>1, <1>3, <1>8, AddViNumber
  <1>. HIDE DEF v
  <1>11. evq'.q = v.q
    BY <1>7, <1>9, RaisedQueue
  <1>12. ASSUME NEW u \in RcpEvents PROVE Number(evq'.q, u) = Number(evq.q, u)
    <2>1. Number(e.q, u) = Number(Removed.q, u)
      BY <1>6 DEF SameDevices
    <2>2. Number(evq.q, u) = Number(Removed.q, u) + One(VI_INT = u)
      BY <1>3, RemovedNumber
    <2>. QED  BY <1>8, <1>10, <1>11, <2>1, <2>2 DEF One
  <1>13. Queued' = Queued
    BY <1>12 DEF Queued
  <1>14. VI_INT \in RcpEvents
    BY DEF RcpEvents
  <1>15. Queued[VI_INT] > 0
    <2>1. /\ Number(evq.q, VI_INT) = Number(Removed.q, VI_INT) + One(evq.q[1].type = VI_INT)
          /\ Number(Removed.q, VI_INT) \in Nat
      BY RemovedNumber
    <2>. QED  BY <1>3, <1>14, <2>1 DEF Queued, One
  <1>16. mi'.intr = mi.intr \cup {VI_INT}
    BY <1>7 DEF raise_rcp_interrupt, IInv, TypeOK
  <1>. QED  BY <1>13, <1>14, <1>15, <1>16, AbstractFire
-----------------------------------------------------------------------------
(* The refinement *)

\* At power-on no device event is queued and no line is up.
LEMMA InitDevices == Init => Devices!Init
  <1>. SUFFICES ASSUME Init PROVE Devices!Init
    OBVIOUS
  <1>. DEFINE e0 == [q |-> << >>, next_interrupt |-> 0, special_done |-> FALSE,
                     failed |-> FALSE]
  <1>1. e0 \in Queues /\ InitCount \in Counts
    BY EmptySeq, ZeroCount, ConstantsAssumption DEF Queues
  <1>. HIDE DEF e0
  <1>2. evq = init_interrupt(e0, InitCount)
    BY DEF Init, PoweronQueue, e0
  <1>3. \A t \in RcpEvents : Number(evq.q, t) = 0
    BY <1>1, <1>2, InitNumber
  <1>4. Queued = [t \in RcpEvents |-> 0] /\ mi.intr = {}
    BY <1>3 DEF Queued, Init
  <1>. QED  BY <1>4, DeviceNames DEF Devices!Init, Queued, Number

\* The front end never asks for a soft reset, or alloc_node has not failed so far.
RoomForReset == evq.failed => "soft" \notin Requests

\* Loading a savestate keeps what Invariance shows without loads.
LEMMA LoadsInvariance == SpecLoads => []IInv
  <1>1. Init => IInv
    BY InitInv
  <1>2. IInv /\ [NextLoads]_vars => IInv'
    <2>. SUFFICES ASSUME IInv, [NextLoads]_vars PROVE IInv'
      OBVIOUS
    <2>1. CASE ViLoad
      BY <2>1, ViLoadInv
    <2>2. CASE [Next]_vars
      BY <2>2, NextInv
    <2>. QED  BY <2>1, <2>2 DEF NextLoads
  <1>. QED  BY <1>1, <1>2, PTL DEF SpecLoads

\* The wrap marker, the timer and the types survive a load, whatever special_done is
\* at the load: load_eventqueue_infos inserts every node of the image again and the
\* handler that waits adds its own.
THEOREM LoadsKeepQueue ==
    SpecLoads => [](TypeOK /\ SpecialOnce /\ FirstNotNull /\ TimerFollowsCompare)
  <1>1. IInv => TypeOK /\ SpecialOnce /\ FirstNotNull /\ TimerFollowsCompare
    BY DEF IInv, QueueInv, SpecialOnce, FirstNotNull, TimerFollowsCompare
  <1>. QED  BY <1>1, LoadsInvariance, PTL

\* No node of a device is lost, delivered twice or delivered to another line, whatever
\* the handlers, the guest's instructions, MTC0 Count, the resets and the loaded
\* savestates do to the queue, whatever special_done is at the load: R4300Interrupts
\* with StateReload's loads implements DeviceEvents, unless the front end's soft reset
\* meets a pool that has no node left for it (vi_vertical_interrupt_event then cannot
\* queue the next frame).
THEOREM DevicesServed ==
    SpecLoads /\ []RoomForReset => ImplementsDevices
  <1>1. Init => Devices!Init
    BY InitDevices
  <1>2. /\ IInv /\ IInv' /\ RoomForReset' /\ [NextLoads]_vars
        => [Devices!Next]_(Devices!vars)
    <2>. SUFFICES ASSUME IInv, IInv', RoomForReset', [NextLoads]_vars
                  PROVE  [Devices!Next]_(Devices!vars)
      OBVIOUS
    <2>1. CASE GenInterrupt
      BY <2>1, GenInterruptDevices, AbstractVars DEF RoomForReset
    <2>2. CASE CpuLoop
      BY <2>2, CpuLoopDevices, AbstractVars
    <2>3. CASE UNCHANGED vars
      <3>1. UNCHANGED DeviceVars
        BY <2>3 DEF vars, DeviceVars, Queued
      <3>. QED  BY <3>1, AbstractVars
    <2>4. CASE ViLoad
      BY <2>4, ViLoadDevices
    <2>. QED  BY <2>1, <2>2, <2>3, <2>4 DEF Next, NextLoads
  <1>. QED  BY <1>1, <1>2, LoadsInvariance, PTL DEF SpecLoads, ImplementsDevices, Devices!Spec
-----------------------------------------------------------------------------
(* Where add_interrupt_event_count puts an event *)

\* before_event for the node x of a list, with the special_done that
\* add_interrupt_event_count passes.
Before(c, done, evt, x) == before_event(c, done, evt, x.count, x.type)

\* add_interrupt_event_count makes the new event node k of the list: before the first
\* node it precedes; at the tail when there is none or the event is SPECIAL_INT.
Placed(e, c, type, evt, k) ==
    LET r == add_interrupt_event_count(e, c, type, evt)
        done == e.special_done /\ c <= Half
    IN  /\ r = [e EXCEPT !.special_done = done,
                         !.next_interrupt = IF k = 1 THEN evt ELSE @, !.q = r.q]
        /\ InsertedAt(r.q, e.q, [type |-> type, count |-> evt], k)
        /\ type = SPECIAL_INT => k = Len(e.q) + 1
        /\ type # SPECIAL_INT =>
              /\ \A j \in 1 .. Len(e.q) : j < k => ~Before(c, done, evt, e.q[j])
              /\ k <= Len(e.q) => Before(c, done, evt, e.q[k])

\* Where add_interrupt_event_count puts a new event.
LEMMA AddPlace ==
    ASSUME NEW e \in Queues, NEW c \in Counts, NEW type \in EventTypes, NEW evt \in Counts,
           Len(e.q) < PoolCapacity,
           type # SPECIAL_INT =>
             \A j \in 1 .. Len(e.q) : Before(c, e.special_done /\ c <= Half, evt, e.q[j])
                 => e.q[j].count # evt
    PROVE  \E k \in 1 .. Len(e.q) + 1 : Placed(e, c, type, evt, k)
  <1>. DEFINE ev == [type |-> type, count |-> evt]
              done == e.special_done /\ c <= Half
              r == add_interrupt_event_count(e, c, type, evt)
              B(j) == Before(c, done, evt, e.q[j])
              front == e.q = << >> \/ (type # SPECIAL_INT /\ B(1))
  <1>1. PICK n \in Nat : n = Len(e.q)
    BY DEF Queues
  <1>2. /\ ev \in Events /\ e.q \in Seq(Events) /\ e.next_interrupt \in Counts
        /\ e.special_done \in BOOLEAN /\ e.failed \in BOOLEAN /\ done \in BOOLEAN
    BY DEF Queues, Events
  <1>3. CASE front
    <2>1. r = [e EXCEPT !.special_done = done, !.next_interrupt = evt,
                        !.q = <<ev>> \o e.q]
      BY <1>1, <1>3, PoolCapacityAssumption DEF add_interrupt_event_count, Before
    <2>2. InsertedAt(<<ev>> \o e.q, e.q, ev, 1)
      BY <1>2, PushPlace
    <2>3. r.q = <<ev>> \o e.q
      BY <2>1 DEF Queues
    <2>4. /\ type = SPECIAL_INT => 1 = Len(e.q) + 1
          /\ type # SPECIAL_INT /\ 1 <= Len(e.q) => B(1)
      BY <1>3, <1>1, EmptySeq
    <2>5. r = [e EXCEPT !.special_done = done,
                        !.next_interrupt = IF 1 = 1 THEN evt ELSE @, !.q = r.q]
      BY <2>1, <2>3
    <2>6. 1 \in 1 .. Len(e.q) + 1 /\ \A j \in 1 .. Len(e.q) : ~(j < 1)
      BY <1>1
    <2>. HIDE DEF B, done, ev, r
    <2>7. Placed(e, c, type, evt, 1)
      BY <2>2, <2>3, <2>4, <2>5, <2>6 DEF B, done, ev, r, Placed
    <2>. QED  BY <2>6, <2>7
  <1>4. CASE ~front
    <2>. DEFINE m == NodesBefore(e.q, c, done, type, evt)
                S == {i \in 1 .. n : i = n \/ (type # SPECIAL_INT /\ B(i + 1))}
                U == {i \in Min(S) .. n : i = n \/ e.q[i + 1].count # evt}
    <2>1. e.q # << >> /\ n >= 1
      BY <1>1, <1>4, EmptySeq
    <2>2. S \subseteq Nat /\ n \in S /\ S \subseteq 1 .. n
      BY <2>1
    <2>3. Min(S) \in S /\ \A y \in S : Min(S) <= y
      <3>. HIDE DEF S
      <3>. QED  BY <2>2, MinLeast
    <2>4. PICK p \in S : p = Min(S)
      BY <2>3
    <2>5. p \in 1 .. n /\ \A j \in 1 .. n - 1 : j < p => ~(type # SPECIAL_INT /\ B(j + 1))
      <3>1. p \in 1 .. n /\ \A y \in S : p <= y
        BY <2>2, <2>3, <2>4
      <3>2. ASSUME NEW j \in 1 .. n - 1, j < p PROVE j \notin S
        BY <3>1, <3>2
      <3>. HIDE DEF B
      <3>3. \A j \in 1 .. n - 1 : j \notin S => ~(type # SPECIAL_INT /\ B(j + 1))
        OBVIOUS
      <3>. HIDE DEF S
      <3>. QED  BY <3>1, <3>2, <3>3
    <2>6. p = n \/ (type # SPECIAL_INT /\ B(p + 1))
      BY <2>4
    <2>7. p # n => p \in U /\ U \subseteq p .. n
      <3>. HIDE DEF S
      <3>1. p # n => p + 1 \in 1 .. Len(e.q)
        BY <1>1, <2>5
      <3>. QED  BY <1>1, <2>4, <2>5, <2>6, <3>1
    <2>8. p # n => Min(U) = p
      <3>. SUFFICES ASSUME p # n PROVE Min(U) = p
        OBVIOUS
      <3>. HIDE DEF U
      <3>1. U \subseteq Nat /\ U # {} /\ p \in U
        BY <2>5, <2>7
      <3>2. Min(U) \in U /\ \A y \in U : Min(U) <= y
        BY <3>1, MinLeast
      <3>3. Min(U) \in p .. n /\ Min(U) <= p
        BY <2>7, <3>1, <3>2
      <3>. QED  BY <2>5, <3>3
    <2>9. m = IF type = SPECIAL_INT \/ Min(S) = n THEN Min(S) ELSE Min(U)
      BY <1>1 DEF NodesBefore, Before
    <2>. HIDE DEF S, U, m
    <2>10. m = p
      BY <2>4, <2>6, <2>8, <2>9
    <2>11. r = [e EXCEPT !.special_done = done, !.q = InsertAt(e.q, 1 + m, ev)]
      BY <1>1, <1>4, PoolCapacityAssumption DEF add_interrupt_event_count, Before, m
    <2>12. InsertedAt(InsertAt(e.q, 1 + p, ev), e.q, ev, 1 + p)
      <3>1. PICK k \in 1 .. Len(e.q) + 1 : k = 1 + p
        BY <1>1, <2>5
      <3>. QED  BY <1>2, <3>1, InsertAtPlace
    <2>. HIDE DEF r, ev
    <2>13. r.q = InsertAt(e.q, 1 + p, ev)
      BY <2>10, <2>11 DEF Queues
    <2>14. r = [e EXCEPT !.special_done = done,
                         !.next_interrupt = IF 1 + p = 1 THEN evt ELSE @, !.q = r.q]
      <3>1. 1 + p # 1
        BY <2>5
      <3>. QED  BY <2>10, <2>11, <2>13, <3>1 DEF Queues
    <2>15. type = SPECIAL_INT => 1 + p = n + 1
      BY <2>6
    <2>16. ASSUME type # SPECIAL_INT, NEW j \in 1 .. n, j < 1 + p PROVE ~B(j)
      <3>1. CASE j = 1
        BY <1>4, <2>16, <3>1
      <3>2. CASE j # 1
        <4>1. j - 1 \in 1 .. n - 1 /\ j - 1 < p /\ (j - 1) + 1 = j
          BY <2>5, <2>16, <3>2
        <4>. QED  BY <2>5, <2>16, <4>1
      <3>. QED  BY <3>1, <3>2
    <2>17. 1 + p <= n => B(p + 1)
      BY <2>5, <2>6
    <2>18. 1 + p \in 1 .. n + 1 /\ 1 + p = p + 1
      BY <2>5
    <2>. HIDE DEF B, done, front
    <2>19. Placed(e, c, type, evt, 1 + p)
      BY <1>1, <2>12, <2>13, <2>14, <2>15, <2>16, <2>17, <2>18 DEF B, done, r, ev, Placed
    <2>. QED  BY <1>1, <2>18, <2>19
  <1>. QED  BY <1>3, <1>4

-----------------------------------------------------------------------------
\* How much later than its count the event at place i may still be waiting, besides
\* what the current block has used: a block of at most L for every event that was
\* before it.
Wait(L, i) == (PoolCapacity - i) * L

\* What the range of Count and the delays must leave room for.
Margins(L) ==
    /\ CountMod % 2 = 0
    /\ PoolCapacity * L < Sixteenth /\ PoolCapacity * L < ViDelay /\ ViDelay < Half

\* a is the time of the event x, in counts since Count last wrapped, when Count is c.
Node(x, a, c, done) ==
    /\ x.type \in RcpEvents \cup {SPECIAL_INT}
    /\ a \in {x.count, x.count + CountMod}
    /\ x.type = SPECIAL_INT =>
          x.count = 0 /\ a = (IF done \/ c > Half THEN CountMod ELSE 0)
    /\ x.type # SPECIAL_INT => a < c + Half /\ (done => a < CountMod)
    /\ x.type = VI_INT => a <= c + ViDelay

\* A gives the times of the events of e when Count is c.  They are in the order of
\* the list, nothing waits longer than it must, and SPECIAL_INT is behind what is due
\* before the wrap.
Timed(L, e, A, c, s) ==
    /\ e \in Queues /\ Len(e.q) <= PoolCapacity
    /\ A \in [1 .. Len(e.q) -> Nat]
    /\ \A i \in 1 .. Len(e.q) :
          Node(e.q[i], A[i], c, e.special_done) /\ c <= A[i] + Wait(L, i) + s
    /\ \A i, j \in 1 .. Len(e.q) : j < i =>
          A[j] <= A[i] /\ (e.q[i].type = SPECIAL_INT => A[j] < A[i])

\* The parts of Count's range are natural numbers in their proportions.
LEMMA Quantities ==
    ASSUME NEW L \in Nat, Margins(L)
    PROVE  /\ Half \in Nat /\ CountMod = 2 * Half /\ Sixteenth \in Nat
           /\ 8 * Sixteenth <= Half /\ CountMod \in Nat
           /\ PoolCapacity * L \in Nat /\ L <= PoolCapacity * L
  <1>1. /\ CountMod \in Nat /\ Half \in Nat /\ CountMod = 2 * Half
        /\ Sixteenth \in Nat /\ 16 * Sixteenth <= CountMod
    BY CountModAssumption DEF Margins, Half, Sixteenth
  <1>2. PoolCapacity \in Nat /\ PoolCapacity >= 1
    BY PoolCapacityAssumption
  <1>3. PoolCapacity * L \in Nat /\ L <= PoolCapacity * L
    BY <1>2
  <1>. QED  BY <1>1, <1>3

\* The first event may wait longest, less than the whole pool's blocks.
LEMMA WaitBounds ==
    ASSUME NEW L \in Nat, NEW i \in 1 .. PoolCapacity
    PROVE  /\ Wait(L, i) \in Nat
           /\ Wait(L, i) + L <= PoolCapacity * L
           /\ i > 1 => Wait(L, i - 1) = Wait(L, i) + L
  <1>1. PoolCapacity \in Nat
    BY PoolCapacityAssumption
  <1>2. PICK d \in Nat : d = PoolCapacity - i
    BY <1>1
  <1>3. d * L \in Nat /\ Wait(L, i) = d * L
    BY <1>2 DEF Wait
  <1>4. i > 1 => Wait(L, i - 1) = Wait(L, i) + L
    <2>1. PoolCapacity - (i - 1) = d + 1
      BY <1>1, <1>2
    <2>2. (d + 1) * L = d * L + L
      OBVIOUS
    <2>. QED  BY <1>3, <2>1, <2>2 DEF Wait
  <1>5. PICK k \in Nat : k = i - 1
    OBVIOUS
  <1>6. PoolCapacity = d + 1 + k /\ k * L \in Nat
    BY <1>1, <1>2, <1>5
  <1>7. PoolCapacity * L = d * L + L + k * L
    BY <1>6
  <1>. QED  BY <1>3, <1>4, <1>6, <1>7

\* before_event compares times: the new event goes before the node exactly when it is
\* due earlier, and then has another count.  Count 0 after SPECIAL_INT has run
\* is the exception.
LEMMA BeforeTime ==
    ASSUME NEW L \in Nat, Margins(L), NEW c \in Counts, NEW x \in Events, NEW y \in Nat,
           NEW done \in BOOLEAN, Node(x, y, c, done), c < y + Sixteenth,
           NEW a \in Nat, c <= a, a < c + Half, NEW evt \in Counts,
           a \in {evt, evt + CountMod}, ~(c = 0 /\ done)
    PROVE  /\ Before(c, done /\ c <= Half, evt, x) <=> a < y
           /\ a < y => x.count # evt
  <1>1. /\ Half \in Nat /\ CountMod = 2 * Half /\ Sixteenth \in Nat
        /\ 8 * Sixteenth <= Half /\ CountMod \in Nat
    BY Quantities
  <1>2. c \in Nat /\ c < CountMod /\ evt \in Nat /\ evt < CountMod
    BY <1>1 DEF Counts
  <1>3. x.count \in Nat /\ x.count < CountMod
    BY <1>1 DEF Counts, Events
  <1>4. Sub(evt, c) = a - c
    BY <1>1, <1>2 DEF Sub
  <1>5. CASE x.type # SPECIAL_INT
    <2>1. y < c + Half /\ y \in {x.count, x.count + CountMod}
      BY <1>5 DEF Node
    <2>2. CASE y >= c
      <3>1. Sub(x.count, c) = y - c
        BY <1>1, <1>2, <1>3, <2>1, <2>2 DEF Sub
      <3>. QED  BY <1>1, <1>2, <1>3, <1>4, <1>5, <2>1, <2>2, <3>1 DEF Before, before_event
    <2>3. CASE y < c
      <3>1. y = x.count
        BY <1>1, <1>2, <1>3, <2>1, <2>3
      <3>2. Sub(x.count, c) = y - c + CountMod /\ Sub(c, x.count) = c - y
        BY <1>2, <1>3, <2>3, <3>1 DEF Sub
      <3>3. ~(Sub(x.count, c) < Half) /\ ~(Sub(c, x.count) >= Sixteenth)
        BY <1>1, <1>2, <2>3, <3>2
      <3>. QED  BY <1>1, <1>2, <1>5, <2>3, <3>3 DEF Before, before_event
    <2>. QED  BY <1>2, <2>2, <2>3
  <1>6. CASE x.type = SPECIAL_INT
    <2>1. x.count = 0 /\ y = (IF done \/ c > Half THEN CountMod ELSE 0)
      BY <1>6 DEF Node
    <2>2. CASE c > Half
      <3>1. Sub(x.count, c) = CountMod - c /\ y = CountMod
        BY <1>1, <1>2, <2>1, <2>2 DEF Sub
      <3>. QED  BY <1>1, <1>2, <1>3, <1>4, <2>1, <2>2, <3>1 DEF Before, before_event
    <2>3. CASE c <= Half /\ done
      <3>1. Sub(x.count, c) = CountMod - c /\ y = CountMod /\ c > 0
        BY <1>1, <1>2, <2>1, <2>3 DEF Sub
      <3>. QED  BY <1>1, <1>2, <1>3, <1>4, <1>6, <2>1, <2>3, <3>1 DEF Before, before_event
    <2>4. CASE c <= Half /\ ~done
      <3>1. y = 0
        BY <1>1, <1>2, <2>1, <2>4
      <3>2. c < Sixteenth /\ Sub(c, x.count) = c
        BY <1>1, <1>2, <2>1, <3>1 DEF Sub
      <3>3. Sub(x.count, c) = IF c = 0 THEN 0 ELSE CountMod - c
        BY <1>1, <1>2, <2>1 DEF Sub
      <3>. QED  BY <1>1, <1>2, <1>3, <1>4, <2>1, <2>4, <3>1, <3>2, <3>3 DEF Before, before_event
    <2>. QED  BY <1>1, <1>2, <2>2, <2>3, <2>4
  <1>. QED  BY <1>5, <1>6

\* next_interrupt is the count of the first node.
First(e) == e.q # << >> => e.next_interrupt = e.q[1].count

\* No event is ever as late as before_event allows for.
LEMMA NotLate ==
    ASSUME NEW L \in Nat, Margins(L), NEW e, NEW A, NEW c \in Counts, NEW s \in 0 .. L,
           Timed(L, e, A, c, s), NEW i \in 1 .. Len(e.q)
    PROVE  /\ A[i] \in Nat /\ c \in Nat /\ c <= A[i] + PoolCapacity * L
           /\ c < A[i] + Sixteenth /\ i \in 1 .. PoolCapacity
  <1>1. /\ A[i] \in Nat /\ i \in 1 .. PoolCapacity /\ c <= A[i] + Wait(L, i) + s /\ c \in Nat
    BY PoolCapacityAssumption, SMTT(60) DEF Timed, Queues, Counts
  <1>2. Wait(L, i) \in Nat /\ Wait(L, i) + L <= PoolCapacity * L
    BY <1>1, WaitBounds
  <1>3. PoolCapacity * L \in Nat /\ PoolCapacity * L < Sixteenth /\ Sixteenth \in Nat
    BY Quantities DEF Margins
  <1>. HIDE DEF Margins
  <1>4. PICK m \in Nat : m = PoolCapacity * L
    BY <1>3
  <1>. QED  BY <1>1, <1>2, <1>3, <1>4, SMTT(60)

\* special_done is cleared by the first insertion after Count has passed half its
\* range; the time of SPECIAL_INT does not change.
LEMMA NodeDone ==
    ASSUME NEW x, NEW a, NEW c \in Counts, NEW done \in BOOLEAN, Node(x, a, c, done)
    PROVE  Node(x, a, c, done /\ c <= Half)
  <1>1. c \in Int /\ Half \in Int
    BY CountModAssumption DEF Counts, Half
  <1>2. c > Half <=> ~(c <= Half)
    BY <1>1
  <1>. QED  BY <1>2 DEF Node

\* A device's event that is not past is put in the order of the times.
LEMMA AddTimed ==
    ASSUME NEW L \in Nat, Margins(L), NEW e, NEW A, NEW c \in Counts, NEW s \in 0 .. L,
           Timed(L, e, A, c, s), First(e), ~(c = 0 /\ e.special_done),
           NEW type \in RcpEvents, NEW a \in Nat, c <= a, a < c + Half,
           type = VI_INT => a <= c + ViDelay,
           NEW evt \in Counts, a \in {evt, evt + CountMod}
    PROVE  LET r == add_interrupt_event_count(e, c, type, evt)
           IN  First(r) /\ \E A2 : Timed(L, r, A2, c, s)
  <1>. DEFINE r == add_interrupt_event_count(e, c, type, evt)
              ev == [type |-> type, count |-> evt]
              done == e.special_done /\ c <= Half
  <1>0. /\ Half \in Nat /\ CountMod = 2 * Half /\ Sixteenth \in Nat
        /\ 8 * Sixteenth <= Half /\ CountMod \in Nat /\ c \in Nat
    BY Quantities DEF Counts
  <1>1. /\ e \in Queues /\ e.q \in Seq(Events) /\ e.special_done \in BOOLEAN /\ Len(e.q) \in Nat
        /\ Len(e.q) <= PoolCapacity /\ PoolCapacity \in Nat /\ done \in BOOLEAN
        /\ e.next_interrupt \in Counts /\ e.failed \in BOOLEAN
    BY PoolCapacityAssumption DEF Timed, Queues
  <1>2. type \in EventTypes /\ type # SPECIAL_INT
    BY DEF EventTypes, RcpEvents, SPECIAL_INT, VI_INT, SI_INT, PI_INT, AI_INT, SP_INT, DP_INT
  <1>3. \A i \in 1 .. Len(e.q) :
           /\ e.q[i] \in Events /\ A[i] \in Nat /\ i \in 1 .. PoolCapacity
           /\ Node(e.q[i], A[i], c, e.special_done) /\ c < A[i] + Sixteenth
           /\ c <= A[i] + Wait(L, i) + s
    <2>. SUFFICES ASSUME NEW i \in 1 .. Len(e.q)
                  PROVE  /\ e.q[i] \in Events /\ A[i] \in Nat /\ i \in 1 .. PoolCapacity
                         /\ Node(e.q[i], A[i], c, e.special_done) /\ c < A[i] + Sixteenth
                         /\ c <= A[i] + Wait(L, i) + s
      OBVIOUS
    <2>1. e.q[i] \in Events
      BY <1>1
    <2>2. A[i] \in Nat /\ i \in 1 .. PoolCapacity /\ c < A[i] + Sixteenth
      BY NotLate
    <2>3. Node(e.q[i], A[i], c, e.special_done) /\ c <= A[i] + Wait(L, i) + s
      BY DEF Timed
    <2>. QED  BY <2>1, <2>2, <2>3
  <1>4. \A i \in 1 .. Len(e.q) :
           /\ Before(c, done, evt, e.q[i]) <=> a < A[i]
           /\ a < A[i] => e.q[i].count # evt
    BY <1>1, <1>3, BeforeTime, SMTT(60)
  <1>5. \A i \in 1 .. Len(e.q) : Node(e.q[i], A[i], c, done)
    BY <1>1, <1>3, NodeDone
  <1>6. r \in Queues
    BY <1>1, <1>2, AddEvent
  <1>7. CASE Len(e.q) >= PoolCapacity
    <2>1. r = [e EXCEPT !.special_done = done, !.failed = TRUE]
      BY <1>7 DEF add_interrupt_event_count
    <2>. HIDE DEF done
    <2>2. r.q = e.q /\ r.next_interrupt = e.next_interrupt /\ r.special_done = done
      BY <1>1, <2>1 DEF Queues
    <2>. HIDE DEF r
    <2>3. First(r)
      BY <2>2 DEF First
    <2>4. Timed(L, r, A, c, s)
      BY <1>5, <1>6, <2>2 DEF Timed
    <2>. QED  BY <2>3, <2>4 DEF r
  <1>8. CASE Len(e.q) < PoolCapacity
    <2>1. PICK k \in 1 .. Len(e.q) + 1 :
             /\ r = [e EXCEPT !.special_done = done,
                              !.next_interrupt = IF k = 1 THEN evt ELSE @, !.q = r.q]
             /\ InsertedAt(r.q, e.q, ev, k)
             /\ \A j \in 1 .. Len(e.q) : j < k => ~Before(c, done, evt, e.q[j])
             /\ k <= Len(e.q) => Before(c, done, evt, e.q[k])
      <3>1. \A j \in 1 .. Len(e.q) : Before(c, done, evt, e.q[j]) => e.q[j].count # evt
        BY <1>4
      <3>2. PICK k \in 1 .. Len(e.q) + 1 : Placed(e, c, type, evt, k)
        BY <1>1, <1>2, <1>8, <3>1, AddPlace
      <3>. QED  BY <1>2, <3>2 DEF Placed
    <2>2. PICK n \in Nat : n = Len(e.q)
      BY <1>1
    <2>3. /\ r.q \in Seq(Events) /\ Len(r.q) = n + 1 /\ k \in 1 .. n + 1 /\ r.q[k] = ev
          /\ \A i \in 1 .. n + 1 : i < k => r.q[i] = e.q[i]
          /\ \A i \in 1 .. n + 1 : i > k => r.q[i] = e.q[i - 1]
      BY <2>1, <2>2 DEF InsertedAt
    <2>4. PICK rq \in Seq(Events) : rq = r.q
      BY <2>3
    <2>5. r.special_done = done /\ r.next_interrupt = IF k = 1 THEN evt ELSE e.next_interrupt
      <3>1. r = [e EXCEPT !.special_done = done,
                              !.next_interrupt = IF k = 1 THEN evt ELSE @, !.q = rq]
        BY <2>1, <2>4
      <3>. HIDE DEF r, done
      <3>. QED  BY <1>1, <3>1 DEF Queues
    <2>6. ev.type = type /\ ev.count = evt
      OBVIOUS
    <2>7. Node(ev, a, c, done)
      <3>1. done => a < CountMod
        BY <1>0
      <3>. QED  BY <1>2, <2>6, <3>1 DEF Node
    <2>. HIDE DEF r, done, ev
    <2>8. First(r)
      <3>1. CASE k = 1
        BY <2>3, <2>5, <2>6, <3>1 DEF First
      <3>2. CASE k # 1
        <4>1. e.q # << >> /\ r.q[1] = e.q[1]
          BY <2>2, <2>3, <3>2
        <4>. QED  BY <2>5, <3>2, <4>1 DEF First
      <3>. QED  BY <3>1, <3>2
    <2>. DEFINE A2 == [i \in 1 .. n + 1 |-> IF i < k THEN A[i] ELSE IF i = k THEN a ELSE A[i - 1]]
    <2>9. \A i \in 1 .. n + 1 :
             /\ A2[i] = IF i < k THEN A[i] ELSE IF i = k THEN a ELSE A[i - 1]
             /\ i < k => i \in 1 .. n
             /\ i > k => i - 1 \in 1 .. n
      BY <2>3
    <2>10. A2 \in [1 .. n + 1 -> Nat]
      BY <1>3, <2>2, <2>3, SMTT(60)
    <2>. HIDE DEF A2
    <2>11. \A j \in 1 .. n : j < k => A[j] <= a
      BY <1>3, <1>4, <2>1, <2>2
    <2>12. \A j \in 1 .. n : j >= k => a < A[j]
      <3>. SUFFICES ASSUME NEW j \in 1 .. n, j >= k PROVE a < A[j]
        OBVIOUS
      <3>1. k \in 1 .. n /\ a < A[k]
        BY <1>4, <2>1, <2>2, <2>3
      <3>2. A[k] <= A[j] /\ A[k] \in Nat /\ A[j] \in Nat
        BY <1>3, <2>2, <3>1 DEF Timed
      <3>. QED  BY <3>1, <3>2
    <2>13. ASSUME NEW i \in 1 .. n + 1
           PROVE  Node(r.q[i], A2[i], c, done) /\ c <= A2[i] + Wait(L, i) + s
      <3>0. i \in 1 .. PoolCapacity
        BY <1>1, <1>8, <2>2
      <3>1. Wait(L, i) \in Nat
        BY <3>0, WaitBounds
      <3>2. CASE i < k
        BY <1>3, <1>5, <2>2, <2>3, <2>9, <3>2
      <3>3. CASE i = k
        BY <1>0, <2>3, <2>7, <2>9, <3>1, <3>3, SMTT(60)
      <3>4. CASE i > k
        <4>1. i - 1 \in 1 .. n /\ i - 1 >= k /\ A2[i] = A[i - 1] /\ r.q[i] = e.q[i - 1]
          BY <2>3, <2>9, <3>4
        <4>2. a < A[i - 1] /\ A[i - 1] \in Nat
          BY <1>3, <2>2, <2>12, <4>1
        <4>. QED  BY <1>0, <1>5, <2>2, <3>1, <4>1, <4>2, SMTT(60)
      <3>. QED  BY <2>3, <3>2, <3>3, <3>4
    <2>14. ASSUME NEW i \in 1 .. n + 1, NEW j \in 1 .. n + 1, j < i
           PROVE  A2[j] <= A2[i] /\ (r.q[i].type = SPECIAL_INT => A2[j] < A2[i])
      <3>0. \A m, l \in 1 .. n : l < m =>
               A[l] <= A[m] /\ (e.q[m].type = SPECIAL_INT => A[l] < A[m])
        BY <2>2 DEF Timed
      <3>00. \A m \in 1 .. n : A[m] \in Nat
        BY <1>3, <2>2
      <3>1. CASE i < k
        <4>1. j < k /\ i \in 1 .. n /\ j \in 1 .. n
          BY <2>3, <2>9, <2>14, <3>1
        <4>. QED  BY <2>3, <2>9, <2>14, <3>0, <3>1, <4>1
      <3>2. CASE i = k
        <4>1. j < k /\ j \in 1 .. n /\ r.q[i].type # SPECIAL_INT
          BY <1>2, <2>3, <2>6, <2>9, <2>14, <3>2
        <4>. QED  BY <2>9, <2>11, <3>2, <4>1
      <3>3. CASE i > k
        <4>1. i - 1 \in 1 .. n /\ A2[i] = A[i - 1] /\ r.q[i] = e.q[i - 1] /\ i - 1 >= k
          <5>1. i - 1 \in 1 .. n /\ i - 1 >= k /\ ~(i < k) /\ i # k
            BY <2>3, <3>3
          <5>. QED  BY <2>3, <2>9, <3>3, <5>1
        <4>2. CASE j < k
          <5>1. j \in 1 .. n /\ j < i - 1 /\ A2[j] = A[j]
            BY <2>3, <2>9, <3>3, <4>2
          <5>. QED  BY <3>0, <4>1, <5>1
        <4>3. CASE j = k
          BY <2>9, <2>12, <3>00, <4>1, <4>3
        <4>4. CASE j > k
          <5>1. j - 1 \in 1 .. n /\ j - 1 < i - 1 /\ A2[j] = A[j - 1]
            BY <2>3, <2>9, <2>14, <4>4
          <5>. QED  BY <3>0, <4>1, <5>1
        <4>. QED  BY <2>3, <4>2, <4>3, <4>4
      <3>. QED  BY <2>3, <3>1, <3>2, <3>3
    <2>15. Timed(L, r, A2, c, s)
      <3>1. Len(r.q) = n + 1 /\ n + 1 <= PoolCapacity
        BY <1>1, <1>8, <2>2, <2>3
      <3>. QED  BY <1>6, <2>5, <2>10, <2>13, <2>14, <3>1 DEF Timed, r
    <2>. QED  BY <2>8, <2>15 DEF r
  <1>. QED  BY <1>1, <1>7, <1>8

\* The time a first event other than SPECIAL_INT is due has not wrapped.
LEMMA HeadTime ==
    ASSUME NEW L \in Nat, Margins(L), NEW e, NEW A, NEW c \in Counts, NEW s,
           Timed(L, e, A, c, s), Has(e.q, SPECIAL_INT)
    PROVE  /\ 1 \in 1 .. Len(e.q) /\ A[1] \in Nat
           /\ e.q[1].type # SPECIAL_INT => A[1] = e.q[1].count /\ A[1] < CountMod
           /\ e.q[1].type = SPECIAL_INT => e.q[1].count = 0 /\ A[1] \in {0, CountMod}
           /\ A[1] <= CountMod
  <1>0. CountMod \in Nat
    BY Quantities
  <1>1. PICK n \in Nat : n = Len(e.q)
    BY DEF Timed, Queues
  <1>2. DOMAIN e.q = 1 .. n
    BY <1>1 DEF Timed, Queues
  <1>3. PICK m \in 1 .. n : e.q[m].type = SPECIAL_INT
    BY <1>2 DEF Has
  <1>4. 1 \in 1 .. n
    BY <1>3
  <1>5. /\ \A i \in 1 .. n : A[i] \in Nat /\ Node(e.q[i], A[i], c, e.special_done)
        /\ 1 < m => A[1] < A[m]
    BY <1>1, <1>3, <1>4 DEF Timed
  <1>6. A[m] \in {0, CountMod}
    BY <1>3, <1>5 DEF Node
  <1>7. CASE e.q[1].type # SPECIAL_INT
    <2>1. 1 < m
      BY <1>3, <1>7
    <2>2. A[1] < CountMod
      BY <1>0, <1>4, <1>5, <1>6, <2>1
    <2>3. A[1] \in {e.q[1].count, e.q[1].count + CountMod}
      BY <1>4, <1>5 DEF Node
    <2>4. e.q[1].count \in Nat
      <3>1. e.q[1] \in Events
        BY <1>1, <1>4 DEF Timed, Queues
      <3>. QED  BY <3>1 DEF Events, Counts
    <2>. QED  BY <1>0, <1>1, <1>4, <1>5, <1>7, <2>2, <2>3, <2>4
  <1>8. CASE e.q[1].type = SPECIAL_INT
    <2>1. e.q[1].count = 0 /\ A[1] \in {0, CountMod}
      BY <1>4, <1>5, <1>8 DEF Node
    <2>. QED  BY <1>0, <1>1, <1>4, <1>5, <1>8, <2>1
  <1>. QED  BY <1>7, <1>8

\* remove_interrupt_event sets next_interrupt to the count of the new first node: its
\* case for a count more than half the range behind is the one of SPECIAL_INT.
LEMMA FirstCount ==
    ASSUME NEW L \in Nat, Margins(L), NEW e, NEW A, NEW c \in Counts, NEW s \in 0 .. L,
           Timed(L, e, A, c, s), 1 \in 1 .. Len(e.q),
           e.q[1].type = SPECIAL_INT \/ A[1] < CountMod
    PROVE  NextInterrupt(e.q, c) = e.q[1].count
  <1>0. Half \in Nat /\ Sixteenth \in Nat /\ 8 * Sixteenth <= Half /\ CountMod \in Nat
    BY Quantities
  <1>1. /\ A[1] \in Nat /\ c \in Nat /\ c < A[1] + Sixteenth
        /\ Node(e.q[1], A[1], c, e.special_done) /\ e.q # << >>
    <2>1. A[1] \in Nat /\ c \in Nat /\ c < A[1] + Sixteenth
      BY NotLate
    <2>2. Node(e.q[1], A[1], c, e.special_done)
      BY DEF Timed
    <2>3. e.q # << >>
      BY DEF Timed, Queues
    <2>. QED  BY <2>1, <2>2, <2>3
  <1>2. CASE e.q[1].type = SPECIAL_INT
    BY <1>1, <1>2 DEF NextInterrupt, Node
  <1>3. CASE e.q[1].type # SPECIAL_INT
    <2>1. e.q[1].count \in Nat
      <3>1. e.q[1] \in Events
        BY DEF Timed, Queues
      <3>. QED  BY <3>1 DEF Events, Counts
    <2>2. A[1] = e.q[1].count
      BY <1>0, <1>1, <1>3, <2>1, SMTT(60) DEF Node
    <2>3. e.q[1].count > c \/ Sub(c, e.q[1].count) < Half
      BY <1>0, <1>1, <2>1, <2>2 DEF Sub
    <2>. QED  BY <1>1, <2>3 DEF NextInterrupt
  <1>. QED  BY <1>2, <1>3

\* Taking the first event off: the others are one place nearer to their turn.
LEMMA RemoveTimed ==
    ASSUME NEW L \in Nat, Margins(L), NEW e, NEW A, NEW c \in Counts,
           Timed(L, e, A, c, L), 1 \in 1 .. Len(e.q)
    PROVE  LET r == remove_interrupt_event(e, c)
           IN  /\ r \in Queues /\ r.special_done = e.special_done
               /\ r.next_interrupt = NextInterrupt(r.q, c)
               /\ IsRemoval(r.q, e.q, 1)
               /\ Timed(L, r, [i \in 1 .. Len(e.q) - 1 |-> A[i + 1]], c, 0)
  <1>. DEFINE r == remove_interrupt_event(e, c)
  <1>1. e \in Queues /\ e.q # << >> /\ e.q \in Seq(Events)
    BY DEF Timed, Queues
  <1>2. r \in Queues /\ IsRemoval(r.q, e.q, 1)
    BY <1>1, RemoveInterruptEvent
  <1>3. /\ r = [e EXCEPT !.q = Tail(e.q), !.next_interrupt = NextInterrupt(Tail(e.q), c)]
    BY DEF remove_interrupt_event
  <1>. HIDE DEF r
  <1>4. r.special_done = e.special_done /\ r.next_interrupt = NextInterrupt(r.q, c)
    BY <1>1, <1>3 DEF Queues
  <1>5. PICK n \in Nat : Len(e.q) = n + 1
    <2>1. Len(e.q) - 1 \in Nat
      BY <1>1
    <2>. QED  BY <1>1, <2>1
  <1>6. Len(r.q) = n /\ \A i \in 1 .. n : r.q[i] = e.q[i + 1]
    BY <1>2, <1>5 DEF IsRemoval
  <1>. DEFINE A2 == [i \in 1 .. n |-> A[i + 1]]
  <1>7. /\ \A i \in 1 .. n : A2[i] = A[i + 1] /\ A[i + 1] \in Nat /\ i + 1 \in 1 .. n + 1
        /\ A2 \in [1 .. n -> Nat]
    BY <1>5 DEF Timed
  <1>. HIDE DEF A2
  <1>8. n + 1 <= PoolCapacity /\ PoolCapacity \in Nat
    BY <1>5, PoolCapacityAssumption DEF Timed
  <1>9. ASSUME NEW i \in 1 .. n
        PROVE  Node(r.q[i], A2[i], c, r.special_done) /\ c <= A2[i] + Wait(L, i) + 0
    <2>1. /\ Node(e.q[i + 1], A[i + 1], c, e.special_done)
          /\ c <= A[i + 1] + Wait(L, i + 1) + L
      BY <1>5, <1>7 DEF Timed
    <2>2. PICK k \in 1 .. PoolCapacity : k = i + 1
      BY <1>7, <1>8
    <2>3. Wait(L, k) \in Nat /\ Wait(L, k - 1) = Wait(L, k) + L
      BY <2>2, WaitBounds
    <2>4. k - 1 = i /\ c \in Nat
      BY <2>2 DEF Counts
    <2>. QED  BY <1>4, <1>6, <1>7, <2>1, <2>2, <2>3, <2>4
  <1>10. ASSUME NEW i \in 1 .. n, NEW j \in 1 .. n, j < i
         PROVE  A2[j] <= A2[i] /\ (r.q[i].type = SPECIAL_INT => A2[j] < A2[i])
    <2>1. i + 1 \in 1 .. Len(e.q) /\ j + 1 \in 1 .. Len(e.q) /\ j + 1 < i + 1
      BY <1>5, <1>10
    <2>2. A[j + 1] <= A[i + 1] /\ (e.q[i + 1].type = SPECIAL_INT => A[j + 1] < A[i + 1])
      BY <2>1 DEF Timed
    <2>. QED  BY <1>6, <1>7, <2>2
  <1>11. Timed(L, r, A2, c, 0)
    <2>1. n <= PoolCapacity
      BY <1>8
    <2>. QED  BY <1>2, <1>6, <1>7, <1>9, <1>10, <2>1 DEF Timed
  <1>12. Len(e.q) - 1 = n
    BY <1>5
  <1>. QED  BY <1>2, <1>4, <1>11, <1>12 DEF r, A2

\* special_int_handler after the wrap: the marker goes to the tail, for the next one.
LEMMA SpecialTimed ==
    ASSUME NEW L \in Nat, Margins(L), NEW e, NEW A, NEW c \in Counts,
           Timed(L, e, A, c, L), 1 \in 1 .. Len(e.q), e.q[1].type = SPECIAL_INT,
           AtMostOne(e.q, SPECIAL_INT), c <= Sixteenth
    PROVE  LET x == [remove_interrupt_event(e, c) EXCEPT !.special_done = TRUE]
               r == add_interrupt_event_count(x, c, SPECIAL_INT, 0)
           IN  First(r) /\ Has(r.q, SPECIAL_INT) /\ \E A2 : Timed(L, r, A2, c, 0)
  <1>. DEFINE y == remove_interrupt_event(e, c)
              x == [y EXCEPT !.special_done = TRUE]
              r == add_interrupt_event_count(x, c, SPECIAL_INT, 0)
              ev == [type |-> SPECIAL_INT, count |-> 0]
              Y == [i \in 1 .. Len(e.q) - 1 |-> A[i + 1]]
  <1>0. /\ Half \in Nat /\ CountMod = 2 * Half /\ Sixteenth \in Nat
        /\ 8 * Sixteenth <= Half /\ CountMod \in Nat /\ c \in Nat
    BY Quantities DEF Counts
  <1>1. /\ y \in Queues /\ y.next_interrupt = NextInterrupt(y.q, c)
        /\ IsRemoval(y.q, e.q, 1) /\ Timed(L, y, Y, c, 0)
    BY RemoveTimed
  <1>2. PICK n \in Nat : Len(y.q) = n
    BY <1>1 DEF Queues
  <1>3. e.q \in Seq(Events) /\ ~Has(y.q, SPECIAL_INT) /\ Len(e.q) = n + 1
        /\ n + 1 <= PoolCapacity /\ PoolCapacity \in Nat
    <2>1. e.q \in Seq(Events) /\ Len(e.q) <= PoolCapacity
      BY DEF Timed, Queues
    <2>2. ~Has(y.q, SPECIAL_INT)
      BY <1>1, <2>1, RemovalOfOnly
    <2>. QED  BY <1>1, <1>2, <2>1, <2>2, PoolCapacityAssumption DEF IsRemoval
  <1>. HIDE DEF y
  <1>4. /\ x \in Queues /\ x.q = y.q /\ x.special_done = TRUE
        /\ x.next_interrupt = y.next_interrupt
    BY <1>1 DEF Queues
  <1>. HIDE DEF x
  <1>5. \A i \in 1 .. n : y.q[i].type # SPECIAL_INT
    <2>1. DOMAIN y.q = 1 .. n
      BY <1>1, <1>2 DEF Queues
    <2>. QED  BY <1>3, <2>1 DEF Has
  <1>. HIDE DEF Y
  <1>6. /\ Y \in [1 .. n -> Nat]
        /\ \A i \in 1 .. n : Node(y.q[i], Y[i], c, y.special_done) /\ c <= Y[i] + Wait(L, i) + 0
        /\ \A i, j \in 1 .. n : j < i => Y[j] <= Y[i]
    BY <1>1, <1>2 DEF Timed
  <1>7. ASSUME NEW i \in 1 .. n
        PROVE  Node(y.q[i], Y[i], c, TRUE) /\ Y[i] < CountMod /\ Y[i] \in Nat
    <2>1. Node(y.q[i], Y[i], c, y.special_done) /\ y.q[i].type # SPECIAL_INT /\ Y[i] \in Nat
      BY <1>5, <1>6
    <2>2. Y[i] < c + Half
      BY <2>1 DEF Node
    <2>3. Y[i] < CountMod
      BY <1>0, <2>1, <2>2
    <2>. QED  BY <2>1, <2>3 DEF Node
  <1>7a. \A i \in 1 .. n : Y[i] < CountMod /\ Y[i] \in Nat
    BY <1>7
  <1>8. PICK k \in 1 .. n + 1 :
           /\ r = [x EXCEPT !.special_done = x.special_done /\ c <= Half,
                            !.next_interrupt = IF k = 1 THEN 0 ELSE @, !.q = r.q]
           /\ InsertedAt(r.q, x.q, ev, k)
           /\ k = n + 1
    <2>1. Len(x.q) < PoolCapacity /\ Len(x.q) = n
      BY <1>2, <1>3, <1>4
    <2>2. PICK t \in EventTypes : t = SPECIAL_INT
      BY DEF EventTypes
    <2>3. PICK z \in Counts : z = 0
      BY ZeroCount
    <2>3a. t # SPECIAL_INT =>
              \A j \in 1 .. Len(x.q) : Before(c, x.special_done /\ c <= Half, z, x.q[j])
                  => x.q[j].count # z
      BY <2>2
    <2>4. PICK k \in 1 .. Len(x.q) + 1 : Placed(x, c, t, z, k)
      BY <1>4, <2>1, <2>3a, AddPlace
    <2>5. Placed(x, c, SPECIAL_INT, 0, k)
      BY <2>2, <2>3, <2>4
    <2>. QED  BY <2>1, <2>5 DEF Placed
  <1>. HIDE DEF r
  <1>9. /\ r.q \in Seq(Events) /\ Len(r.q) = n + 1 /\ r.q[n + 1] = ev
        /\ \A i \in 1 .. n : r.q[i] = y.q[i]
    <2>1. Len(x.q) = n /\ InsertedAt(r.q, y.q, ev, n + 1)
      BY <1>2, <1>4, <1>8
    <2>2. \A i \in 1 .. n : i \in 1 .. n + 1 /\ i < n + 1
      OBVIOUS
    <2>. HIDE DEF ev
    <2>. QED  BY <1>2, <2>1, <2>2 DEF InsertedAt
  <1>10. /\ r.special_done = TRUE /\ r \in Queues
         /\ r.next_interrupt = IF n + 1 = 1 THEN 0 ELSE y.next_interrupt
    <2>1. (x.special_done /\ c <= Half) = TRUE
      BY <1>0, <1>4
    <2>2. PICK rq \in Seq(Events) : rq = r.q
      BY <1>9
    <2>3. r = [x EXCEPT !.special_done = TRUE,
                        !.next_interrupt = IF n + 1 = 1 THEN 0 ELSE @, !.q = rq]
      BY <1>8, <2>1, <2>2
    <2>. QED  BY <1>4, <2>3, ZeroCount DEF Queues
  <1>11. ev.type = SPECIAL_INT /\ ev.count = 0
    OBVIOUS
  <1>. HIDE DEF ev
  <1>12. First(r)
    <2>1. CASE n = 0
      BY <1>9, <1>10, <1>11, <2>1 DEF First
    <2>2. CASE n # 0
      <3>1. 1 \in 1 .. n /\ 1 \in 1 .. Len(y.q) /\ Y[1] < CountMod /\ 0 \in 0 .. L
        BY <1>2, <1>7a, <2>2
      <3>2. NextInterrupt(y.q, c) = y.q[1].count
        BY <1>1, <3>1, FirstCount
      <3>3. n + 1 # 1
        BY <2>2
      <3>. QED  BY <1>1, <1>9, <1>10, <3>1, <3>2, <3>3 DEF First
    <2>. QED  BY <2>1, <2>2
  <1>13. Has(r.q, SPECIAL_INT)
    <2>1. n + 1 \in DOMAIN r.q
      BY <1>9
    <2>. QED  BY <1>9, <1>11, <2>1 DEF Has
  <1>. DEFINE A2 == [i \in 1 .. n + 1 |-> IF i = n + 1 THEN CountMod ELSE Y[i]]
  <1>14. /\ A2 \in [1 .. n + 1 -> Nat] /\ A2[n + 1] = CountMod
         /\ \A i \in 1 .. n : A2[i] = Y[i]
    BY <1>0, <1>7a
  <1>. HIDE DEF A2
  <1>15. ASSUME NEW i \in 1 .. n + 1
         PROVE  Node(r.q[i], A2[i], c, TRUE) /\ c <= A2[i] + Wait(L, i) + 0
    <2>1. CASE i = n + 1
      <3>1. i \in 1 .. PoolCapacity
        BY <1>3, <2>1
      <3>2. Wait(L, i) \in Nat
        BY <3>1, WaitBounds
      <3>3. c < CountMod
        BY CountModAssumption DEF Counts
      <3>4. Node(ev, CountMod, c, TRUE)
        BY <1>0, <1>11 DEF Node, SPECIAL_INT, VI_INT
      <3>5. A2[i] = CountMod /\ r.q[i] = ev
        BY <1>9, <1>14, <2>1
      <3>6. c <= CountMod + Wait(L, i) + 0
        BY <1>0, <3>2, <3>3
      <3>. QED  BY <3>4, <3>5, <3>6
    <2>2. CASE i # n + 1
      <3>1. i \in 1 .. n
        BY <2>2
      <3>. QED  BY <1>6, <1>7, <1>9, <1>14, <3>1
    <2>. QED  BY <2>1, <2>2
  <1>16. ASSUME NEW i \in 1 .. n + 1, NEW j \in 1 .. n + 1, j < i
         PROVE  A2[j] <= A2[i] /\ (r.q[i].type = SPECIAL_INT => A2[j] < A2[i])
    <2>1. j \in 1 .. n
      BY <1>16
    <2>2. CASE i = n + 1
      BY <1>0, <1>7a, <1>14, <2>1, <2>2
    <2>3. CASE i # n + 1
      <3>1. i \in 1 .. n
        BY <2>3
      <3>. QED  BY <1>5, <1>6, <1>9, <1>14, <1>16, <2>1, <3>1
    <2>. QED  BY <2>2, <2>3
  <1>17. Timed(L, r, A2, c, 0)
    BY <1>3, <1>9, <1>10, <1>14, <1>15, <1>16 DEF Timed
  <1>. QED  BY <1>12, <1>13, <1>17 DEF r, x, y

\* SPECIAL_INT polling until the wrap keeps nothing waiting.
LEMMA PollTimed ==
    ASSUME NEW L \in Nat, Margins(L), NEW e, NEW A, NEW c \in Counts, NEW s \in 0 .. L,
           Timed(L, e, A, c, s), 1 \in 1 .. Len(e.q), e.q[1].type = SPECIAL_INT,
           c > Sixteenth
    PROVE  LET r == [e EXCEPT !.next_interrupt = 0]
           IN  First(r) /\ Timed(L, r, A, c, 0)
  <1>. DEFINE r == [e EXCEPT !.next_interrupt = 0]
  <1>0. Sixteenth \in Nat /\ CountMod \in Nat /\ c \in Nat /\ c < CountMod
    BY Quantities DEF Counts
  <1>1. /\ r \in Queues /\ r.q = e.q /\ r.special_done = e.special_done
        /\ r.next_interrupt = 0
    BY ZeroCount DEF Timed, Queues
  <1>. HIDE DEF r
  <1>2. /\ A[1] \in Nat /\ c < A[1] + Sixteenth
    BY NotLate
  <1>3. Node(e.q[1], A[1], c, e.special_done)
    BY DEF Timed
  <1>4. e.q[1].count = 0 /\ A[1] = CountMod
    BY <1>0, <1>2, <1>3 DEF Node
  <1>5. First(r)
    BY <1>1, <1>4 DEF First
  <1>6. ASSUME NEW i \in 1 .. Len(e.q)
        PROVE  c <= A[i] + Wait(L, i) + 0
    <2>1. A[i] \in Nat /\ i \in 1 .. PoolCapacity
      BY NotLate
    <2>2. Wait(L, i) \in Nat
      BY <2>1, WaitBounds
    <2>3. A[1] <= A[i]
      <3>1. CASE i = 1
        BY <2>1, <3>1
      <3>2. CASE i # 1
        <4>1. 1 < i
          BY <3>2
        <4>. QED  BY <4>1 DEF Timed
      <3>. QED  BY <3>1, <3>2
    <2>. QED  BY <1>0, <1>4, <2>1, <2>2, <2>3
  <1>7. Timed(L, r, A, c, 0)
    BY <1>1, <1>6 DEF Timed
  <1>. QED  BY <1>5, <1>7 DEF r

\* The first event is due first.
LEMMA FirstLeast ==
    ASSUME NEW L, NEW e, NEW A, NEW c, NEW s, Timed(L, e, A, c, s), NEW i \in 1 .. Len(e.q)
    PROVE  A[1] <= A[i] /\ A[i] \in Nat /\ A[1] \in Nat
  <1>1. 1 \in 1 .. Len(e.q)
    BY DEF Timed, Queues
  <1>2. A[i] \in Nat /\ A[1] \in Nat
    BY <1>1 DEF Timed
  <1>3. CASE i = 1
    BY <1>2, <1>3
  <1>4. CASE i # 1
    <2>1. 1 < i
      BY <1>4
    <2>. QED  BY <1>1, <1>2, <2>1 DEF Timed
  <1>. QED  BY <1>3, <1>4

\* Count advances and does not wrap.
LEMMA LaterTimed ==
    ASSUME NEW L \in Nat, Margins(L), NEW e, NEW A, NEW c \in Counts, NEW s \in 0 .. L,
           Timed(L, e, A, c, s), NEW c2 \in Counts, c <= c2, NEW s2 \in 0 .. L,
           \A i \in 1 .. Len(e.q) : c2 <= A[i] + Wait(L, i) + s2
    PROVE  Timed(L, e, A, c2, s2)
  <1>0. /\ Half \in Nat /\ CountMod \in Nat /\ Sixteenth \in Nat /\ 8 * Sixteenth <= Half
        /\ c \in Nat /\ c2 \in Nat /\ ViDelay \in Nat
    BY Quantities, ConstantsAssumption DEF Counts
  <1>1. PoolCapacity * L \in Nat /\ PoolCapacity * L < Sixteenth
    BY Quantities DEF Margins
  <1>2. ASSUME NEW i \in 1 .. Len(e.q) PROVE Node(e.q[i], A[i], c2, e.special_done)
    <2>1. Node(e.q[i], A[i], c, e.special_done) /\ A[i] \in Nat /\ i \in 1 .. PoolCapacity
      BY NotLate DEF Timed
    <2>2. CASE e.q[i].type # SPECIAL_INT
      <3>1. A[i] < c2 + Half /\ (e.q[i].type = VI_INT => A[i] <= c2 + ViDelay)
        BY <1>0, <2>1, <2>2 DEF Node
      <3>. QED  BY <2>1, <2>2, <3>1 DEF Node
    <2>3. CASE e.q[i].type = SPECIAL_INT
      <3>1. e.q[i].count = 0 /\ A[i] = (IF e.special_done \/ c > Half THEN CountMod ELSE 0)
        BY <2>1, <2>3 DEF Node
      <3>2. Wait(L, i) \in Nat /\ Wait(L, i) + L <= PoolCapacity * L
        BY <2>1, WaitBounds
      <3>3. PICK m \in Nat : m = PoolCapacity * L
        BY <1>1
      <3>4. c2 <= A[i] + Wait(L, i) + s2
        OBVIOUS
      <3>5. A[i] = (IF e.special_done \/ c2 > Half THEN CountMod ELSE 0)
        <4>1. CASE e.special_done \/ c > Half
          BY <1>0, <3>1, <4>1
        <4>2. CASE ~(e.special_done \/ c > Half)
          <5>1. A[i] = 0
            BY <3>1, <4>2
          <5>2. c2 < Sixteenth
            BY <1>0, <1>1, <3>2, <3>3, <3>4, <5>1
          <5>. QED  BY <1>0, <4>2, <5>1, <5>2
        <4>. QED  BY <4>1, <4>2
      <3>6. e.q[i].type # VI_INT
        BY <2>3 DEF VI_INT, SPECIAL_INT
      <3>. QED  BY <2>1, <2>3, <3>1, <3>5, <3>6 DEF Node
    <2>. QED  BY <2>2, <2>3
  <1>. QED  BY <1>2 DEF Timed

\* Count wraps, after everything due before the wrap was taken.
LEMMA WrapTimed ==
    ASSUME NEW L \in Nat, Margins(L), NEW e, NEW A, NEW c \in Counts, NEW s \in 0 .. L,
           Timed(L, e, A, c, s), NEW c2 \in Counts, c2 <= Half, NEW s2 \in 0 .. L,
           1 \in 1 .. Len(e.q), A[1] >= CountMod,
           \A i \in 1 .. Len(e.q) : c2 + CountMod <= A[i] + Wait(L, i) + s2
    PROVE  \E A2 : Timed(L, e, A2, c2, s2)
  <1>0. /\ Half \in Nat /\ CountMod \in Nat /\ CountMod = 2 * Half
        /\ c \in Nat /\ c2 \in Nat /\ ViDelay \in Nat /\ c < CountMod /\ c2 < CountMod
    <2>1. Half \in Nat /\ CountMod \in Nat /\ CountMod = 2 * Half
      BY Quantities
    <2>2. c \in Nat /\ c2 \in Nat /\ ViDelay \in Nat /\ c < CountMod /\ c2 < CountMod
      BY CountModAssumption, ConstantsAssumption DEF Counts
    <2>. QED  BY <2>1, <2>2
  <1>1. ASSUME NEW i \in 1 .. Len(e.q)
        PROVE  /\ Node(e.q[i], A[i], c, e.special_done) /\ A[i] \in Nat /\ A[i] >= CountMod
               /\ e.q[i].count \in Nat /\ e.q[i].count < CountMod
               /\ Wait(L, i) \in Nat
    <2>1. Node(e.q[i], A[i], c, e.special_done)
      BY DEF Timed
    <2>2. A[i] \in Nat /\ A[1] <= A[i] /\ A[1] \in Nat
      BY FirstLeast
    <2>3. i \in 1 .. PoolCapacity
      BY NotLate
    <2>4. e.q[i] \in Events
      BY DEF Timed, Queues
    <2>5. e.q[i].count \in Counts
      BY <2>4 DEF Events
    <2>6. A[i] >= CountMod
      BY <1>0, <2>2
    <2>7. e.q[i].count \in Nat /\ e.q[i].count < CountMod
      BY <1>0, <2>5 DEF Counts
    <2>8. Wait(L, i) \in Nat
      BY <2>3, WaitBounds
    <2>. QED  BY <2>1, <2>2, <2>6, <2>7, <2>8
  <1>2. CASE e.special_done
    <2>1. ASSUME NEW i \in 1 .. Len(e.q)
          PROVE  Node(e.q[i], A[i], c2, e.special_done) /\ c2 <= A[i] + Wait(L, i) + s2
      <3>0. Node(e.q[i], A[i], c, e.special_done) /\ A[i] \in Nat /\ A[i] >= CountMod
            /\ Wait(L, i) \in Nat
        BY <1>1
      <3>1. e.q[i].type = SPECIAL_INT
        BY <1>0, <3>0, <1>2, SMTT(60) DEF Node
      <3>2. e.q[i].type # VI_INT
        BY <3>1 DEF VI_INT, SPECIAL_INT
      <3>3. c2 <= A[i] + Wait(L, i) + s2
        BY <1>0, <3>0
      <3>. QED  BY <1>1, <1>2, <3>1, <3>2, <3>3 DEF Node
    <2>2. Timed(L, e, A, c2, s2)
      BY <2>1 DEF Timed
    <2>. QED  BY <2>2
  <1>3. CASE ~e.special_done
    <2>. DEFINE A2 == [i \in 1 .. Len(e.q) |-> A[i] - CountMod]
    <2>1. /\ A2 \in [1 .. Len(e.q) -> Nat]
          /\ \A i \in 1 .. Len(e.q) : A2[i] = A[i] - CountMod /\ A2[i] \in Nat
      <3>1. \A i \in 1 .. Len(e.q) : A[i] - CountMod \in Nat
        BY <1>0, <1>1, SMTT(60)
      <3>. QED  BY <3>1
    <2>. HIDE DEF A2
    <2>2. ASSUME NEW i \in 1 .. Len(e.q)
          PROVE  Node(e.q[i], A2[i], c2, e.special_done) /\ c2 <= A2[i] + Wait(L, i) + s2
      <3>0. /\ A[i] \in Nat /\ A[i] >= CountMod /\ Wait(L, i) \in Nat
            /\ e.q[i].count \in Nat /\ e.q[i].count < CountMod /\ A2[i] = A[i] - CountMod
            /\ c2 + CountMod <= A[i] + Wait(L, i) + s2
        BY <1>1, <2>1
      <3>1. c2 <= A2[i] + Wait(L, i) + s2
        BY <1>0, <3>0
      <3>2. c < c2 + CountMod
        BY <1>0
      <3>3. /\ e.q[i].type \in RcpEvents \cup {SPECIAL_INT}
            /\ A[i] \in {e.q[i].count, e.q[i].count + CountMod}
            /\ e.q[i].type = SPECIAL_INT =>
                  e.q[i].count = 0 /\ A[i] = (IF e.special_done \/ c > Half THEN CountMod ELSE 0)
            /\ e.q[i].type # SPECIAL_INT => A[i] < c + Half
            /\ e.q[i].type = VI_INT => A[i] <= c + ViDelay
        BY <1>1 DEF Node
      <3>4. A2[i] = e.q[i].count
        <4>1. A[i] = e.q[i].count \/ A[i] = e.q[i].count + CountMod
          BY <3>3
        <4>2. A[i] # e.q[i].count
          BY <1>0, <3>0
        <4>. QED  BY <1>0, <3>0, <4>1, <4>2, SMTT(60)
      <3>5. /\ e.q[i].type = SPECIAL_INT => A2[i] = 0
            /\ e.q[i].type # SPECIAL_INT => A2[i] < c2 + Half
            /\ e.q[i].type = VI_INT => A2[i] <= c2 + ViDelay
        <4>1. e.q[i].type = SPECIAL_INT => A2[i] = 0
          BY <3>3, <3>4
        <4>2. e.q[i].type # SPECIAL_INT => A2[i] < c2 + Half
          BY <1>0, <3>0, <3>2, <3>3, SMTT(60)
        <4>3. e.q[i].type = VI_INT => A2[i] <= c2 + ViDelay
          BY <1>0, <3>0, <3>2, <3>3
        <4>. QED  BY <4>1, <4>2, <4>3
      <3>6. ~(c2 > Half)
        BY <1>0
      <3>. QED  BY <1>3, <3>1, <3>3, <3>4, <3>5, <3>6 DEF Node
    <2>3. ASSUME NEW i \in 1 .. Len(e.q), NEW j \in 1 .. Len(e.q), j < i
          PROVE  A2[j] <= A2[i] /\ (e.q[i].type = SPECIAL_INT => A2[j] < A2[i])
      <3>1. A[j] <= A[i] /\ (e.q[i].type = SPECIAL_INT => A[j] < A[i])
        BY <2>3 DEF Timed
      <3>2. A[i] \in Nat /\ A[j] \in Nat /\ A2[i] = A[i] - CountMod /\ A2[j] = A[j] - CountMod
        BY <1>1, <2>1
      <3>. QED  BY <1>0, <3>1, <3>2, SMTT(60)
    <2>4. Timed(L, e, A2, c2, s2)
      BY <2>1, <2>2, <2>3 DEF Timed
    <2>. QED  BY <2>4
  <1>4. e.special_done \in BOOLEAN
    BY DEF Timed, Queues
  <1>. QED  BY <1>2, <1>3, <1>4

\* cp0_update_count in a block that does not wrap past an event not yet seen.
LEMMA AdvanceTimed ==
    ASSUME NEW L \in Nat, Margins(L), NEW e, NEW A, NEW c \in Counts, NEW s \in 0 .. L,
           Timed(L, e, A, c, s), First(e), Has(e.q, SPECIAL_INT),
           NEW b \in Nat, s + b <= L, NEW d \in Counts, d <= b,
           Plus(c, d) < c => e.next_interrupt <= Plus(c, d)
    PROVE  \E A2 : Timed(L, e, A2, Plus(c, d), s + b)
  <1>0. /\ Half \in Nat /\ CountMod \in Nat /\ Sixteenth \in Nat /\ 8 * Sixteenth <= Half
        /\ c \in Nat /\ d \in Nat /\ c < CountMod /\ CountMod = 2 * Half /\ d <= L
    BY Quantities DEF Counts
  <1>1. PICK c2 \in Counts : c2 = Plus(c, d)
    BY CountArithmetic
  <1>2. PICK s2 \in 0 .. L : s2 = s + b
    OBVIOUS
  <1>3. /\ 1 \in 1 .. Len(e.q) /\ A[1] \in Nat
        /\ e.q[1].type # SPECIAL_INT => A[1] = e.q[1].count /\ A[1] < CountMod
        /\ e.q[1].type = SPECIAL_INT => e.q[1].count = 0 /\ A[1] \in {0, CountMod}
    BY HeadTime
  <1>4. ASSUME NEW i \in 1 .. Len(e.q)
        PROVE  /\ c + d <= A[i] + Wait(L, i) + s2 /\ Wait(L, i) \in Nat /\ A[i] \in Nat
    <2>1. A[i] \in Nat /\ i \in 1 .. PoolCapacity
      BY NotLate
    <2>2. c <= A[i] + Wait(L, i) + s
      BY DEF Timed
    <2>3. Wait(L, i) \in Nat
      BY <2>1, WaitBounds
    <2>. QED  BY <1>0, <1>2, <2>1, <2>2, <2>3
  <1>5. CASE c + d < CountMod
    <2>1. c2 = c + d
      BY <1>1, <1>5 DEF Plus
    <2>2. c <= c2 /\ \A i \in 1 .. Len(e.q) : c2 <= A[i] + Wait(L, i) + s2
      BY <1>0, <1>4, <2>1
    <2>3. Timed(L, e, A, c2, s2)
      BY <2>2, LaterTimed
    <2>. QED  BY <1>1, <1>2, <2>3
  <1>6. CASE c + d >= CountMod
    <2>1. c2 = c + d - CountMod /\ c2 \in Nat
      BY <1>0, <1>1, <1>6 DEF Plus
    <2>2. PoolCapacity * L \in Nat /\ L <= PoolCapacity * L /\ PoolCapacity * L < Sixteenth
      BY Quantities DEF Margins
    <2>3. PICK m \in Nat : m = PoolCapacity * L
      BY <2>2
    <2>4. c2 < c /\ c2 <= Half
      BY <1>0, <2>1, <2>2, <2>3
    <2>5. e.q[1].count <= c2
      <3>1. e.q # << >>
        BY <1>3 DEF Timed, Queues
      <3>. QED  BY <1>1, <2>4, <3>1 DEF First
    <2>6. c <= A[1] + m
      <3>1. c <= A[1] + PoolCapacity * L
        BY <1>3, NotLate
      <3>. QED  BY <2>3, <3>1
    <2>7. A[1] >= CountMod
      <3>. SUFFICES ASSUME A[1] < CountMod PROVE FALSE
        BY <1>0, <1>3
      <3>1. A[1] <= c2
        BY <1>0, <1>3, <2>1, <2>5
      <3>. QED  BY <1>0, <1>3, <2>1, <2>2, <2>3, <2>6, <3>1
    <2>8. \A i \in 1 .. Len(e.q) : c2 + CountMod <= A[i] + Wait(L, i) + s2
      BY <1>0, <1>4, <2>1
    <2>9. \E A2 : Timed(L, e, A2, c2, s2)
      BY <1>3, <2>4, <2>7, <2>8, WrapTimed
    <2>. QED  BY <1>1, <1>2, <2>9
  <1>. QED  BY <1>0, <1>5, <1>6

\* The jump of a branch to itself ends at the first event or before it.
LEMMA IdleTimed ==
    ASSUME NEW L \in Nat, Margins(L), NEW e, NEW A, NEW c \in Counts, NEW s \in 0 .. L,
           Timed(L, e, A, c, s), First(e), Has(e.q, SPECIAL_INT), ~(c = 0 /\ e.special_done),
           NEW w \in Counts, w <= Sub(e.next_interrupt, c),
           Sub(e.next_interrupt, c) < Half, Sub(e.next_interrupt, c) > 0, NEW s2 \in 0 .. L
    PROVE  \E A2 : Timed(L, e, A2, Plus(c, w), s2)
  <1>0. /\ Half \in Nat /\ CountMod \in Nat /\ Sixteenth \in Nat /\ 8 * Sixteenth <= Half
        /\ c \in Nat /\ w \in Nat /\ c < CountMod /\ CountMod = 2 * Half
    BY Quantities DEF Counts
  <1>1. PICK c2 \in Counts : c2 = Plus(c, w)
    BY CountArithmetic
  <1>2. /\ 1 \in 1 .. Len(e.q) /\ A[1] \in Nat /\ A[1] <= CountMod
        /\ e.q[1].type # SPECIAL_INT => A[1] = e.q[1].count /\ A[1] < CountMod
        /\ e.q[1].type = SPECIAL_INT => e.q[1].count = 0 /\ A[1] \in {0, CountMod}
    BY HeadTime
  <1>3. e.next_interrupt = e.q[1].count
    <2>1. e.q # << >>
      BY <1>2 DEF Timed, Queues
    <2>. QED  BY <2>1 DEF First
  <1>4. c < A[1] + Sixteenth
    BY <1>2, NotLate
  <1>5. c + w <= A[1]
    <2>1. CASE e.q[1].type # SPECIAL_INT
      <3>1. PICK t \in Nat : t = A[1] /\ t < CountMod /\ c < t + Sixteenth
        BY <1>2, <1>4, <2>1
      <3>2. Sub(t, c) < Half /\ Sub(t, c) > 0 /\ w <= Sub(t, c)
        BY <1>2, <1>3, <2>1, <3>1
      <3>3. t > c
        BY <1>0, <3>1, <3>2 DEF Sub
      <3>4. Sub(t, c) = t - c
        BY <1>0, <3>1, <3>3 DEF Sub
      <3>. QED  BY <1>0, <3>1, <3>2, <3>4
    <2>2. CASE e.q[1].type = SPECIAL_INT
      <3>1. Sub(0, c) < Half /\ Sub(0, c) > 0 /\ w <= Sub(0, c)
        BY <1>2, <1>3, <2>2
      <3>2. Sub(0, c) = CountMod - c /\ c > Half
        BY <1>0, <3>1 DEF Sub
      <3>3. A[1] = CountMod
        BY <1>0, <1>2, <1>4, <2>2, <3>2
      <3>. QED  BY <1>0, <3>1, <3>2, <3>3
    <2>. QED  BY <2>1, <2>2
  <1>6. ASSUME NEW i \in 1 .. Len(e.q)
        PROVE  c + w <= A[i] + Wait(L, i) + s2
    <2>1. A[i] \in Nat /\ A[1] <= A[i]
      BY FirstLeast
    <2>2. i \in 1 .. PoolCapacity
      BY NotLate
    <2>3. Wait(L, i) \in Nat
      BY <2>2, WaitBounds
    <2>. QED  BY <1>0, <1>2, <1>5, <2>1, <2>3, SMTT(60)
  <1>7. CASE c + w < CountMod
    <2>1. c2 = c + w
      BY <1>1, <1>7 DEF Plus
    <2>2. c <= c2 /\ \A i \in 1 .. Len(e.q) : c2 <= A[i] + Wait(L, i) + s2
      BY <1>0, <1>6, <2>1
    <2>3. Timed(L, e, A, c2, s2)
      BY <2>2, LaterTimed
    <2>. QED  BY <1>1, <2>3
  <1>8. CASE c + w >= CountMod
    <2>1. c + w = CountMod /\ A[1] >= CountMod /\ c2 = 0
      BY <1>0, <1>1, <1>2, <1>5, <1>8 DEF Plus
    <2>2. c2 <= Half /\ \A i \in 1 .. Len(e.q) : c2 + CountMod <= A[i] + Wait(L, i) + s2
      BY <1>0, <1>6, <2>1
    <2>3. \E A2 : Timed(L, e, A2, c2, s2)
      BY <1>2, <2>1, <2>2, WrapTimed
    <2>. QED  BY <1>1, <2>3
  <1>. QED  BY <1>0, <1>7, <1>8

\* A load with special_done d that brings back the list of e.
Reloaded(e, c, d, r) ==
    r \in Queues /\ r.q = e.q /\ First(r) /\ r.special_done = (d /\ c <= Half)

\* Loading the image of a queue in which no event is due before the marker's wrap brings
\* back the same list, whatever special_done is.
LEMMA LoadSorted ==
    ASSUME NEW L \in Nat, Margins(L), NEW e, NEW A, NEW c \in Counts, NEW s \in 0 .. L,
           Timed(L, e, A, c, s), ~(c = 0 /\ e.special_done), NEW d \in BOOLEAN,
           1 \in 1 .. Len(e.q),
           \A i \in 1 .. Len(e.q) : e.q[i].type = SPECIAL_INT => A[i] = CountMod
    PROVE  Reloaded(e, c, d, load_eventqueue_infos([e EXCEPT !.special_done = d], c, e.q))
  <1>0. /\ Half \in Nat /\ CountMod \in Nat /\ Sixteenth \in Nat /\ 8 * Sixteenth <= Half
        /\ c \in Nat /\ CountMod = 2 * Half
    BY Quantities DEF Counts
  <1>. DEFINE x0 == [e EXCEPT !.special_done = d]
              dd == d /\ c <= Half
  <1>1. /\ e \in Queues /\ e.q \in Seq(Events) /\ e.special_done \in BOOLEAN
        /\ Len(e.q) <= PoolCapacity /\ x0 \in Queues /\ x0.special_done = d
    BY DEF Timed, Queues
  <1>2. PICK N \in Nat : N = Len(e.q)
    BY <1>1
  <1>. HIDE DEF x0
  <1>3. PICK g : LoadSteps(x0, c, e.q, g) /\ load_eventqueue_infos(x0, c, e.q) = g[N]
    BY <1>1, <1>2, LoadIsSteps
  <1>4. /\ g \in [0 .. N -> Queues] /\ g[0] = [x0 EXCEPT !.q = << >>]
        /\ \A i \in 1 .. N :
              g[i] = add_interrupt_event_count(g[i - 1], c, e.q[i].type, e.q[i].count)
    BY <1>2, <1>3, Zenon DEF LoadSteps
  <1>5. ASSUME NEW i \in 1 .. N, NEW j \in 1 .. N, j < i, e.q[i].type # SPECIAL_INT
        PROVE  ~Before(c, dd, e.q[i].count, e.q[j])
    <2>1. /\ Node(e.q[i], A[i], c, e.special_done) /\ Node(e.q[j], A[j], c, e.special_done)
          /\ A[j] <= A[i]
      BY <1>2, <1>5 DEF Timed
    <2>2. A[i] \in Nat /\ A[j] \in Nat /\ c < A[i] + Sixteenth /\ c < A[j] + Sixteenth
      BY <1>2, NotLate
    <2>3. e.q[i] \in Events /\ e.q[j] \in Events
      BY <1>1, <1>2
    <2>4. PICK n \in Counts : n = e.q[i].count
      BY <2>3 DEF Events
    <2>5. A[i] \in {n, n + CountMod} /\ A[i] < c + Half
      BY <1>5, <2>1, <2>4 DEF Node
    <2>6. CASE A[i] < c
      <3>1. n \in Nat /\ n < CountMod /\ c < CountMod
        BY <1>0 DEF Counts
      <3>2. A[i] = n
        BY <1>0, <2>2, <2>5, <2>6, <3>1
      <3>3. Sub(n, c) = n - c + CountMod
        BY <1>0, <2>6, <3>1, <3>2 DEF Sub
      <3>4. ~(Sub(n, c) < Half)
        BY <1>0, <2>2, <3>1, <3>2, <3>3
      <3>. QED  BY <2>4, <3>4 DEF Before, before_event
    <2>7. CASE A[i] >= c
      <3>1. Before(c, e.special_done /\ c <= Half, n, e.q[j]) <=> A[i] < A[j]
        BY <1>1, <2>1, <2>2, <2>3, <2>5, <2>7, BeforeTime
      <3>2. ~Before(c, e.special_done /\ c <= Half, n, e.q[j])
        BY <2>1, <2>2, <3>1
      <3>3. CASE e.q[j].type # SPECIAL_INT
        BY <2>4, <3>2, <3>3 DEF Before, before_event
      <3>4. CASE e.q[j].type = SPECIAL_INT
        <4>1. A[j] = CountMod
          BY <1>2, <3>4
        <4>2. c > Half
          <5>1. e.special_done => A[i] < CountMod
            BY <1>5, <2>1 DEF Node
          <5>2. ~e.special_done
            BY <1>0, <2>1, <2>2, <4>1, <5>1, SMTT(60)
          <5>3. A[j] = (IF e.special_done \/ c > Half THEN CountMod ELSE 0)
            BY <2>1, <3>4 DEF Node
          <5>. QED  BY <1>0, <4>1, <5>2, <5>3, CountModAssumption
        <4>3. ~(c <= Half)
          BY <1>0, <4>2
        <4>. QED  BY <2>4, <3>2, <4>3 DEF Before, before_event
      <3>. QED  BY <3>3, <3>4
    <2>. QED  BY <1>0, <2>2, <2>6, <2>7, SMTT(60)
  <1>. HIDE DEF dd
  <1>. DEFINE Good(i) == /\ Len(g[i].q) = i
                         /\ \A j \in 1 .. i : g[i].q[j] = e.q[j]
                         /\ g[i].special_done = IF i = 0 THEN d ELSE dd
                         /\ i >= 1 => g[i].next_interrupt = e.q[1].count
              T == {i \in 0 .. N : Good(i)}
  <1>6. 0 \in T
    <2>1. g[0].special_done = d /\ g[0].q = << >>
      <3>1. PICK empty : empty = << >>
        OBVIOUS
      <3>2. [x0 EXCEPT !.q = empty].special_done = d /\ [x0 EXCEPT !.q = empty].q = empty
        BY <1>1 DEF Queues
      <3>. QED  BY <1>4, <3>1, <3>2
    <2>2. Len(g[0].q) = 0 /\ \A j \in 1 .. 0 : FALSE
      BY <2>1
    <2>. QED  BY <2>1, <2>2
  <1>7. ASSUME NEW i \in 1 .. N, i - 1 \in T PROVE i \in T
    <2>1. i - 1 \in 0 .. N /\ i \in 0 .. N /\ i - 1 < PoolCapacity
      BY <1>1, <1>2, PoolCapacityAssumption
    <2>2. PICK x \in Queues : x = g[i - 1]
      BY <1>4, <2>1
    <2>3. /\ Len(x.q) = i - 1 /\ \A j \in 1 .. i - 1 : x.q[j] = e.q[j]
          /\ x.special_done = IF i - 1 = 0 THEN d ELSE dd
          /\ i - 1 >= 1 => x.next_interrupt = e.q[1].count
      BY <1>7, <2>2
    <2>4. e.q[i] \in Events
      BY <1>1, <1>2
    <2>5. PICK t \in EventTypes : t = e.q[i].type
      BY <2>4 DEF Events
    <2>6. PICK n \in Counts : n = e.q[i].count
      BY <2>4 DEF Events
    <2>7. [type |-> t, count |-> n] = e.q[i]
      BY <2>4, <2>5, <2>6 DEF Events
    <2>8. (x.special_done /\ c <= Half) = dd
      BY <2>3 DEF dd
    <2>9. t # SPECIAL_INT => \A j \in 1 .. i - 1 : ~Before(c, dd, n, x.q[j])
      BY <1>5, <2>3, <2>5, <2>6
    <2>10. PICK k \in 1 .. Len(x.q) + 1 : Placed(x, c, t, n, k)
      <3>1. t # SPECIAL_INT =>
              \A j \in 1 .. Len(x.q) : Before(c, x.special_done /\ c <= Half, n, x.q[j])
                 => x.q[j].count # n
        BY <2>3, <2>8, <2>9
      <3>2. Len(x.q) < PoolCapacity
        BY <2>1, <2>3
      <3>. QED  BY <3>1, <3>2, AddPlace
    <2>11. PICK r : r = add_interrupt_event_count(x, c, t, n)
      OBVIOUS
    <2>12. /\ r = [x EXCEPT !.special_done = x.special_done /\ c <= Half,
                            !.next_interrupt = IF k = 1 THEN n ELSE @, !.q = r.q]
           /\ InsertedAt(r.q, x.q, e.q[i], k)
           /\ t = SPECIAL_INT => k = Len(x.q) + 1
           /\ t # SPECIAL_INT /\ k <= Len(x.q)
                 => Before(c, x.special_done /\ c <= Half, n, x.q[k])
      BY <2>7, <2>10, <2>11 DEF Placed
    <2>13. k = i
      <3>1. k \in 1 .. i
        BY <2>3, <2>10
      <3>2. CASE t = SPECIAL_INT
        BY <2>3, <2>12, <3>2
      <3>3. CASE t # SPECIAL_INT
        <4>1. ~(k <= i - 1)
          BY <2>3, <2>8, <2>9, <2>12, <3>1, <3>3
        <4>. QED  BY <3>1, <4>1
      <3>. QED  BY <3>2, <3>3
    <2>14. /\ Len(r.q) = i /\ r.q \in Seq(Events) /\ r.q[i] = e.q[i]
           /\ \A j \in 1 .. i - 1 : r.q[j] = e.q[j]
      <3>1. Len(x.q) + 1 = i
        BY <2>3
      <3>2. \A j \in 1 .. i - 1 : j \in 1 .. i /\ j < i
        OBVIOUS
      <3>. QED  BY <2>3, <2>12, <2>13, <3>1, <3>2 DEF InsertedAt
    <2>15. /\ r.special_done = dd
           /\ r.next_interrupt = IF i = 1 THEN n ELSE x.next_interrupt
      <3>1. PICK rq \in Seq(Events) : rq = r.q
        BY <2>14
      <3>2. r = [x EXCEPT !.special_done = dd,
                          !.next_interrupt = IF i = 1 THEN n ELSE @, !.q = rq]
        BY <2>8, <2>12, <2>13, <3>1
      <3>. QED  BY <3>2 DEF Queues
    <2>16. g[i] = r
      BY <1>4, <2>2, <2>5, <2>6, <2>11, Zenon
    <2>17. \A j \in 1 .. i : r.q[j] = e.q[j]
      <3>1. \A j \in 1 .. i : j \in 1 .. i - 1 \/ j = i
        OBVIOUS
      <3>. QED  BY <2>14, <3>1
    <2>18. r.next_interrupt = e.q[1].count
      <3>1. CASE i = 1
        BY <2>6, <2>15, <3>1
      <3>2. CASE i # 1
        <4>1. i - 1 >= 1
          BY <3>2
        <4>. QED  BY <2>3, <2>15, <3>2, <4>1
      <3>. QED  BY <3>1, <3>2
    <2>19. i # 0
      OBVIOUS
    <2>20. Good(i)
      BY <2>14, <2>15, <2>16, <2>17, <2>18, <2>19
    <2>. HIDE DEF Good
    <2>. QED  BY <2>1, <2>20
  <1>. HIDE DEF T
  <1>8. \A i \in 0 .. N : i \in T
    BY <1>6, <1>7, UpTo
  <1>9. N \in 0 .. N /\ N >= 1 /\ N # 0
    BY <1>2
  <1>10. Good(N)
    BY <1>8, <1>9 DEF T
  <1>11. g[N] \in Queues
    BY <1>4, <1>9
  <1>12. PICK r \in Queues : r = g[N]
    BY <1>11
  <1>13. r.special_done = dd /\ r.next_interrupt = e.q[1].count /\ Len(r.q) = N
         /\ \A j \in 1 .. N : r.q[j] = e.q[j]
    BY <1>9, <1>10, <1>12
  <1>14. r.q = e.q
    <2>1. r.q \in Seq(Events)
      BY DEF Queues
    <2>. QED  BY <1>1, <1>2, <1>13, <2>1
  <1>15. First(r)
    BY <1>13, <1>14 DEF First
  <1>16. Reloaded(e, c, d, r)
    BY <1>13, <1>14, <1>15 DEF Reloaded, dd
  <1>. QED  BY <1>3, <1>12, <1>16 DEF x0

-----------------------------------------------------------------------------
(* The queue with its times *)

\* The queue e is in order when Count is c, and its one VI_INT is the one vi->next_vi
\* records.
Ready(L, e, c, s, vi) ==
    /\ First(e) /\ Has(e.q, SPECIAL_INT)
    /\ AtMostOne(e.q, VI_INT) /\ AllAt(e.q, VI_INT, vi)
    /\ \E A : Timed(L, e, A, c, s)

\* An ordered queue is a queue.
LEMMA ReadyQueue ==
    ASSUME NEW L, NEW e, NEW c, NEW s, NEW vi, Ready(L, e, c, s, vi)
    PROVE  e \in Queues /\ e.q \in Seq(Events) /\ e.special_done \in BOOLEAN /\ Len(e.q) \in Nat
  BY DEF Ready, Timed, Queues

\* More may be allowed for the current block.
LEMMA ReadySlack ==
    ASSUME NEW L \in Nat, Margins(L), NEW e, NEW c \in Counts, NEW s \in 0 .. L, NEW vi,
           Ready(L, e, c, s, vi), NEW s2 \in 0 .. L, s <= s2
    PROVE  Ready(L, e, c, s2, vi)
  <1>1. PICK A : Timed(L, e, A, c, s)
    BY DEF Ready
  <1>2. ASSUME NEW i \in 1 .. Len(e.q) PROVE c <= A[i] + Wait(L, i) + s2
    <2>1. A[i] \in Nat /\ i \in 1 .. PoolCapacity /\ c \in Nat
      BY <1>1, NotLate
    <2>2. c <= A[i] + Wait(L, i) + s
      BY <1>1 DEF Timed
    <2>3. Wait(L, i) \in Nat
      BY <2>1, WaitBounds
    <2>. QED  BY <2>1, <2>2, <2>3
  <1>3. Timed(L, e, A, c, s2)
    BY <1>1, <1>2 DEF Timed
  <1>. QED  BY <1>3 DEF Ready

\* add_interrupt_event_count clears special_done in the upper half of Count's range.
LEMMA AddDone ==
    ASSUME NEW e \in Queues, NEW c, NEW type, NEW evt
    PROVE  add_interrupt_event_count(e, c, type, evt).special_done
             = (e.special_done /\ c <= Half)
  BY DEF add_interrupt_event_count, Queues

\* What an insertion does to the types of the list.
LEMMA AddTypes ==
    ASSUME NEW e \in Queues, NEW c \in Counts, NEW type \in EventTypes, NEW evt \in Counts,
           NEW t, NEW v
    PROVE  LET r == add_interrupt_event_count(e, c, type, evt)
           IN  /\ Has(e.q, t) => Has(r.q, t)
               /\ AtMostOne(e.q, t) /\ (type # t \/ ~Has(e.q, t)) => AtMostOne(r.q, t)
               /\ AllAt(e.q, t, v) /\ (type # t \/ evt = v) => AllAt(r.q, t, v)
  <1>. DEFINE r == add_interrupt_event_count(e, c, type, evt)
              ev == [type |-> type, count |-> evt]
  <1>1. /\ r \in Queues
        /\ Len(e.q) >= PoolCapacity => r.q = e.q
        /\ Len(e.q) < PoolCapacity => IsInsertion(r.q, e.q, ev)
    BY AddEvent
  <1>2. ev \in Events /\ ev.type = type /\ ev.count = evt /\ e.q \in Seq(Events)
    BY DEF Events, Queues
  <1>. HIDE DEF r, ev
  <1>3. CASE Len(e.q) >= PoolCapacity
    BY <1>1, <1>3 DEF r
  <1>4. CASE Len(e.q) < PoolCapacity
    <2>1. IsInsertion(r.q, e.q, ev)
      BY <1>1, <1>4
    <2>2. /\ Has(r.q, t) <=> Has(e.q, t) \/ ev.type = t
          /\ AtMostOne(e.q, t) /\ (ev.type # t \/ ~Has(e.q, t)) => AtMostOne(r.q, t)
          /\ AllAt(e.q, t, v) /\ (ev.type # t \/ ev.count = v) => AllAt(r.q, t, v)
      BY <1>2, <2>1, InsertionTypes
    <2>. QED  BY <1>2, <2>2 DEF r
  <1>5. Len(e.q) >= PoolCapacity \/ Len(e.q) < PoolCapacity
    BY <1>2, PoolCapacityAssumption
  <1>. QED  BY <1>3, <1>4, <1>5

\* A device's transfer is queued.
LEMMA ReadyAdd ==
    ASSUME NEW L \in Nat, Margins(L), NEW e, NEW c \in Counts, NEW s \in 0 .. L, NEW vi,
           Ready(L, e, c, s, vi), ~(c = 0 /\ e.special_done),
           NEW type \in RcpEvents \ {VI_INT}, NEW delay \in Counts, delay < Half
    PROVE  Ready(L, add_interrupt_event(e, c, type, delay), c, s, vi)
  <1>0. Half \in Nat /\ CountMod \in Nat /\ c \in Nat /\ delay \in Nat /\ c < CountMod
    BY Quantities DEF Counts
  <1>1. PICK evt \in Counts : evt = Plus(c, delay)
    BY CountArithmetic
  <1>2. PICK a \in Nat : a = c + delay
    BY <1>0
  <1>3. c <= a /\ a < c + Half /\ a \in {evt, evt + CountMod}
    BY <1>0, <1>1, <1>2 DEF Plus
  <1>4. PICK A : Timed(L, e, A, c, s)
    BY DEF Ready
  <1>5. e \in Queues /\ type \in EventTypes /\ type # VI_INT /\ type \in RcpEvents
    BY ReadyQueue DEF EventTypes
  <1>. DEFINE r == add_interrupt_event_count(e, c, type, evt)
  <1>6. First(r) /\ \E A2 : Timed(L, r, A2, c, s)
    BY <1>3, <1>4, <1>5, AddTimed DEF Ready
  <1>7. Has(e.q, SPECIAL_INT) => Has(r.q, SPECIAL_INT)
    BY <1>5, AddTypes
  <1>8. AtMostOne(e.q, VI_INT) => AtMostOne(r.q, VI_INT)
    BY <1>5, AddTypes
  <1>9. AllAt(e.q, VI_INT, vi) => AllAt(r.q, VI_INT, vi)
    BY <1>5, AddTypes
  <1>. HIDE DEF r
  <1>10. Ready(L, r, c, s, vi)
    BY <1>6, <1>7, <1>8, <1>9 DEF Ready
  <1>. QED  BY <1>1, <1>10 DEF add_interrupt_event, r

\* The next frame is queued.
LEMMA ReadyAddVi ==
    ASSUME NEW L \in Nat, Margins(L), NEW e, NEW c \in Counts, NEW s \in 0 .. L, NEW vi,
           Ready(L, e, c, s, vi), ~(c = 0 /\ e.special_done), ~Has(e.q, VI_INT),
           NEW a \in Nat, c <= a, a <= c + ViDelay,
           NEW evt \in Counts, a \in {evt, evt + CountMod}
    PROVE  Ready(L, add_interrupt_event_count(e, c, VI_INT, evt), c, s, evt)
  <1>0. Half \in Nat /\ c \in Nat /\ ViDelay \in Nat /\ ViDelay < Half
    BY Quantities, ConstantsAssumption DEF Counts, Margins
  <1>1. a < c + Half
    BY <1>0
  <1>2. PICK A : Timed(L, e, A, c, s)
    BY DEF Ready
  <1>3. PICK type \in RcpEvents : type = VI_INT
    BY DEF RcpEvents
  <1>4. e \in Queues /\ type \in EventTypes
    BY ReadyQueue DEF EventTypes
  <1>. DEFINE r == add_interrupt_event_count(e, c, type, evt)
  <1>5. First(r) /\ \E A2 : Timed(L, r, A2, c, s)
    BY <1>1, <1>2, AddTimed DEF Ready
  <1>6. Has(e.q, SPECIAL_INT) => Has(r.q, SPECIAL_INT)
    BY <1>4, AddTypes
  <1>7. AtMostOne(r.q, VI_INT)
    <2>1. AtMostOne(e.q, VI_INT) /\ ~Has(e.q, VI_INT)
      BY DEF Ready
    <2>. QED  BY <1>4, <2>1, AddTypes
  <1>8. AllAt(r.q, VI_INT, evt)
    <2>1. AllAt(e.q, VI_INT, evt)
      BY DEF AllAt, Has
    <2>. QED  BY <1>4, <2>1, AddTypes
  <1>. HIDE DEF r
  <1>9. Ready(L, r, c, s, evt)
    BY <1>5, <1>6, <1>7, <1>8 DEF Ready
  <1>. QED  BY <1>3, <1>9 DEF r

\* An event's handler takes it off the list.
LEMMA ReadyRemove ==
    ASSUME NEW L \in Nat, Margins(L), NEW e, NEW c \in Counts, NEW vi,
           Ready(L, e, c, L, vi), e.q[1].type # SPECIAL_INT
    PROVE  LET r == remove_interrupt_event(e, c)
           IN  /\ Ready(L, r, c, 0, vi)
               /\ r.special_done = e.special_done
               /\ e.q[1].type = VI_INT => ~Has(r.q, VI_INT)
  <1>. DEFINE r == remove_interrupt_event(e, c)
              A2(A) == [i \in 1 .. Len(e.q) - 1 |-> A[i + 1]]
  <1>1. PICK A : Timed(L, e, A, c, L)
    BY DEF Ready
  <1>2. 1 \in 1 .. Len(e.q) /\ Has(e.q, SPECIAL_INT) /\ e.q \in Seq(Events)
    BY <1>1, HeadTime, ReadyQueue DEF Ready
  <1>3. /\ r \in Queues /\ r.special_done = e.special_done
        /\ r.next_interrupt = NextInterrupt(r.q, c)
        /\ IsRemoval(r.q, e.q, 1) /\ Timed(L, r, A2(A), c, 0)
    BY <1>1, <1>2, RemoveTimed
  <1>4. /\ e.q[1].type # SPECIAL_INT => (Has(r.q, SPECIAL_INT) <=> Has(e.q, SPECIAL_INT))
        /\ AllAt(e.q, SPECIAL_INT, 0) => AllAt(r.q, SPECIAL_INT, 0)
    BY <1>2, <1>3, RemovalTypes
  <1>5. /\ AtMostOne(e.q, VI_INT) => AtMostOne(r.q, VI_INT)
        /\ AllAt(e.q, VI_INT, vi) => AllAt(r.q, VI_INT, vi)
        /\ AtMostOne(e.q, VI_INT) /\ e.q[1].type = VI_INT => ~Has(r.q, VI_INT)
    BY <1>2, <1>3, RemovalTypes
  <1>. HIDE DEF r
  <1>6. PICK Y : Timed(L, r, Y, c, 0)
    BY <1>3
  <1>7. /\ 1 \in 1 .. Len(r.q)
        /\ r.q[1].type # SPECIAL_INT => Y[1] < CountMod
    BY <1>2, <1>4, <1>6, HeadTime
  <1>8. 0 \in 0 .. L
    OBVIOUS
  <1>9. NextInterrupt(r.q, c) = r.q[1].count
    BY <1>6, <1>7, <1>8, FirstCount
  <1>10. First(r)
    BY <1>3, <1>9 DEF First
  <1>11. Ready(L, r, c, 0, vi)
    BY <1>2, <1>4, <1>5, <1>6, <1>10 DEF Ready
  <1>. QED  BY <1>3, <1>5, <1>11 DEF r, Ready

\* special_int_handler.
LEMMA ReadySpecial ==
    ASSUME NEW L \in Nat, Margins(L), NEW e, NEW c \in Counts, NEW vi,
           Ready(L, e, c, L, vi), e.q[1].type = SPECIAL_INT, AtMostOne(e.q, SPECIAL_INT)
    PROVE  Ready(L, IF c > Sixteenth THEN [e EXCEPT !.next_interrupt = 0]
                    ELSE add_interrupt_event_count(
                           [remove_interrupt_event(e, c) EXCEPT !.special_done = TRUE],
                           c, SPECIAL_INT, 0), c, 0, vi)
  <1>0. Sixteenth \in Nat /\ c \in Nat /\ 0 \in 0 .. L /\ L \in 0 .. L
    BY Quantities DEF Counts
  <1>1. PICK A : Timed(L, e, A, c, L)
    BY DEF Ready
  <1>2. 1 \in 1 .. Len(e.q) /\ e.q \in Seq(Events) /\ e \in Queues /\ e.q # << >>
    <2>1. 1 \in 1 .. Len(e.q) /\ e.q \in Seq(Events) /\ e \in Queues
      BY <1>1, HeadTime, ReadyQueue DEF Ready
    <2>. QED  BY <2>1
  <1>3. CASE c > Sixteenth
    <2>. DEFINE r == [e EXCEPT !.next_interrupt = 0]
    <2>1. First(r) /\ Timed(L, r, A, c, 0)
      BY <1>0, <1>1, <1>2, <1>3, PollTimed
    <2>2. r.q = e.q
      BY <1>2 DEF Queues
    <2>. HIDE DEF r
    <2>3. Ready(L, r, c, 0, vi)
      BY <2>1, <2>2 DEF Ready
    <2>. QED  BY <1>3, <2>3 DEF r
  <1>4. CASE ~(c > Sixteenth)
    <2>. DEFINE y == remove_interrupt_event(e, c)
                x == [y EXCEPT !.special_done = TRUE]
                r == add_interrupt_event_count(x, c, SPECIAL_INT, 0)
    <2>1. c <= Sixteenth
      BY <1>0, <1>4
    <2>2. First(r) /\ Has(r.q, SPECIAL_INT) /\ \E A2 : Timed(L, r, A2, c, 0)
      BY <1>1, <1>2, <2>1, SpecialTimed
    <2>3. y \in Queues /\ IsRemoval(y.q, e.q, 1)
      BY <1>2, RemoveInterruptEvent
    <2>4. /\ AtMostOne(e.q, VI_INT) => AtMostOne(y.q, VI_INT)
          /\ AllAt(e.q, VI_INT, vi) => AllAt(y.q, VI_INT, vi)
      BY <1>2, <2>3, RemovalTypes
    <2>. HIDE DEF y
    <2>5. x \in Queues /\ x.q = y.q
      BY <2>3 DEF Queues
    <2>. HIDE DEF x
    <2>6. PICK t \in EventTypes : t = SPECIAL_INT /\ t # VI_INT
      BY DEF EventTypes, SPECIAL_INT, VI_INT
    <2>7. PICK z \in Counts : z = 0
      BY ZeroCount
    <2>8. r = add_interrupt_event_count(x, c, t, z)
      BY <2>6, <2>7
    <2>9. AtMostOne(x.q, VI_INT) => AtMostOne(r.q, VI_INT)
      BY <2>5, <2>6, <2>8, AddTypes
    <2>10. AllAt(x.q, VI_INT, vi) => AllAt(r.q, VI_INT, vi)
      BY <2>5, <2>6, <2>8, AddTypes
    <2>. HIDE DEF r
    <2>11. Ready(L, r, c, 0, vi)
      BY <2>2, <2>4, <2>5, <2>9, <2>10 DEF Ready
    <2>. QED  BY <1>4, <2>11 DEF r, x, y
  <1>. QED  BY <1>3, <1>4

\* cp0_update_count.
LEMMA ReadyAdvance ==
    ASSUME NEW L \in Nat, Margins(L), NEW e, NEW c \in Counts, NEW s \in 0 .. L, NEW vi,
           Ready(L, e, c, s, vi), NEW b \in Nat, s + b <= L, NEW d \in Counts, d <= b,
           Plus(c, d) < c => e.next_interrupt <= Plus(c, d)
    PROVE  Ready(L, e, Plus(c, d), s + b, vi)
  <1>1. PICK A : Timed(L, e, A, c, s)
    BY DEF Ready
  <1>2. \E A2 : Timed(L, e, A2, Plus(c, d), s + b)
    BY <1>1, AdvanceTimed DEF Ready
  <1>. QED  BY <1>2 DEF Ready

\* A branch to itself.
LEMMA ReadyIdle ==
    ASSUME NEW L \in Nat, Margins(L), NEW e, NEW c \in Counts, NEW s \in 0 .. L, NEW vi,
           Ready(L, e, c, s, vi), ~(c = 0 /\ e.special_done),
           Sub(e.next_interrupt, c) > 3, Sub(e.next_interrupt, c) < Half,
           NEW s2 \in 0 .. L
    PROVE  LET k == Sub(e.next_interrupt, c)
           IN  Ready(L, e, Plus(c, k - (k % 4)), s2, vi)
  <1>1. PICK A : Timed(L, e, A, c, s)
    BY DEF Ready
  <1>2. e.next_interrupt \in Counts
    BY ReadyQueue DEF Queues
  <1>3. PICK k \in Counts : k = Sub(e.next_interrupt, c)
    BY <1>2, CountArithmetic
  <1>4. k \in Nat /\ k % 4 \in 0 .. 3
    BY <1>3 DEF Counts
  <1>5. k - (k % 4) \in Nat /\ k - (k % 4) <= k
    BY <1>3, <1>4
  <1>6. PICK w \in Counts : w = k - (k % 4)
    BY <1>4, <1>5, CountModAssumption DEF Counts
  <1>7. w <= k /\ k > 0
    BY <1>3, <1>4, <1>5, <1>6
  <1>8. \E A2 : Timed(L, e, A2, Plus(c, w), s2)
    BY <1>1, <1>3, <1>7, IdleTimed DEF Ready
  <1>9. Ready(L, e, Plus(c, w), s2, vi)
    BY <1>8 DEF Ready
  <1>. QED  BY <1>3, <1>6, <1>9

\* Loading brings back the list, when the first event is that of a device or special_done
\* is TRUE.
LEMMA ReadyLoad ==
    ASSUME NEW L \in Nat, Margins(L), NEW e, NEW c \in Counts, NEW s \in 0 .. L, NEW vi,
           Ready(L, e, c, s, vi), ~(c = 0 /\ e.special_done), NEW d \in BOOLEAN,
           e.special_done \/ c > Half
    PROVE  LET r == load_eventqueue_infos([e EXCEPT !.special_done = d], c,
                                          save_eventqueue_infos(e))
           IN  /\ r.q = e.q /\ r.special_done = (d /\ c <= Half)
               /\ d = e.special_done => Ready(L, r, c, s, vi)
  <1>. DEFINE r == load_eventqueue_infos([e EXCEPT !.special_done = d], c, e.q)
  <1>1. PICK A : Timed(L, e, A, c, s)
    BY DEF Ready
  <1>2. 1 \in 1 .. Len(e.q) /\ e.special_done \in BOOLEAN
    BY <1>1, HeadTime, ReadyQueue DEF Ready
  <1>3. ASSUME NEW i \in 1 .. Len(e.q), e.q[i].type = SPECIAL_INT PROVE A[i] = CountMod
    <2>1. Node(e.q[i], A[i], c, e.special_done)
      BY <1>1 DEF Timed
    <2>. QED  BY <1>3, <2>1 DEF Node
  <1>4. r \in Queues /\ r.q = e.q /\ First(r) /\ r.special_done = (d /\ c <= Half)
    <2>1. \A i \in 1 .. Len(e.q) : e.q[i].type = SPECIAL_INT => A[i] = CountMod
      BY <1>3
    <2>2. Reloaded(e, c, d, r)
      BY <1>1, <1>2, <2>1, LoadSorted
    <2>. HIDE DEF r
    <2>. QED  BY <2>2 DEF Reloaded
  <1>. HIDE DEF r
  <1>5. ASSUME d = e.special_done PROVE Ready(L, r, c, s, vi)
    <2>1. ASSUME NEW i \in 1 .. Len(e.q) PROVE Node(e.q[i], A[i], c, r.special_done)
      <3>1. Node(e.q[i], A[i], c, e.special_done)
        BY <1>1 DEF Timed
      <3>. QED  BY <1>2, <1>4, <1>5, <3>1, NodeDone
    <2>2. Timed(L, r, A, c, s)
      BY <1>1, <1>4, <2>1 DEF Timed
    <2>. QED  BY <1>4, <2>2 DEF Ready
  <1>. QED  BY <1>4, <1>5 DEF r, save_eventqueue_infos

\* Power-on.
LEMMA ReadyInit ==
    ASSUME NEW L \in Nat, Margins(L), NEW e \in Queues, NEW c \in Counts, NEW s \in 0 .. L,
           NEW vi
    PROVE  Ready(L, init_interrupt(e, c), c, s, vi)
  <1>. DEFINE x == [e EXCEPT !.q = << >>, !.special_done = TRUE]
              r == add_interrupt_event_count(x, c, SPECIAL_INT, 0)
              ev == [type |-> SPECIAL_INT, count |-> 0]
  <1>0. /\ Half \in Nat /\ CountMod \in Nat /\ c \in Nat /\ c < CountMod
        /\ 1 \in 1 .. PoolCapacity /\ PoolCapacity \in Nat
    BY Quantities, PoolCapacityAssumption DEF Counts
  <1>1. ev \in Events /\ ev.type = SPECIAL_INT /\ ev.count = 0
    BY ZeroCount DEF Events, EventTypes
  <1>2. PICK empty \in Seq(Events) : empty = << >> /\ Len(empty) = 0
    BY EmptySeq
  <1>3. x \in Queues /\ x.q = empty /\ x.special_done = TRUE
    <2>1. x = [e EXCEPT !.q = empty, !.special_done = TRUE]
      BY <1>2
    <2>. QED  BY <2>1 DEF Queues
  <1>. HIDE DEF x, ev
  <1>4. PICK k \in 1 .. Len(x.q) + 1 : Placed(x, c, SPECIAL_INT, 0, k)
    <2>1. PICK t \in EventTypes : t = SPECIAL_INT
      BY DEF EventTypes
    <2>2. PICK z \in Counts : z = 0
      BY ZeroCount
    <2>3. Len(x.q) < PoolCapacity
      BY <1>0, <1>2, <1>3
    <2>4. t # SPECIAL_INT =>
            \A j \in 1 .. Len(x.q) : Before(c, x.special_done /\ c <= Half, z, x.q[j])
               => x.q[j].count # z
      BY <2>1
    <2>5. \E k \in 1 .. Len(x.q) + 1 : Placed(x, c, t, z, k)
      BY <1>3, <2>3, <2>4, AddPlace
    <2>. QED  BY <2>1, <2>2, <2>5
  <1>5. k = 1 /\ Len(x.q) = 0
    BY <1>2, <1>3
  <1>6. /\ r = [x EXCEPT !.special_done = x.special_done /\ c <= Half,
                         !.next_interrupt = IF k = 1 THEN 0 ELSE @, !.q = r.q]
        /\ InsertedAt(r.q, x.q, ev, k)
    BY <1>4 DEF Placed, ev
  <1>. HIDE DEF r
  <1>7. r.q \in Seq(Events) /\ Len(r.q) = 1 /\ r.q[1] = ev
    BY <1>5, <1>6 DEF InsertedAt
  <1>8. /\ r.special_done <=> c <= Half
        /\ r.next_interrupt = 0 /\ r \in Queues
    <2>1. PICK rq \in Seq(Events) : rq = r.q
      BY <1>7
    <2>2. CASE c <= Half
      <3>1. r = [x EXCEPT !.special_done = TRUE, !.next_interrupt = 0, !.q = rq]
        BY <1>3, <1>5, <1>6, <2>1, <2>2
      <3>. QED  BY <1>3, <2>2, <3>1, ZeroCount DEF Queues
    <2>3. CASE ~(c <= Half)
      <3>1. r = [x EXCEPT !.special_done = FALSE, !.next_interrupt = 0, !.q = rq]
        BY <1>3, <1>5, <1>6, <2>1, <2>3
      <3>. QED  BY <1>3, <2>3, <3>1, ZeroCount DEF Queues
    <2>. QED  BY <2>2, <2>3
  <1>9. DOMAIN r.q = 1 .. 1 /\ \A i \in 1 .. 1 : i = 1
    BY <1>7
  <1>10. First(r) /\ Has(r.q, SPECIAL_INT)
    BY <1>1, <1>7, <1>8, <1>9 DEF First, Has
  <1>11. AtMostOne(r.q, VI_INT) /\ AllAt(r.q, VI_INT, vi)
    <2>1. ev.type # VI_INT
      BY <1>1 DEF VI_INT, SPECIAL_INT
    <2>. QED  BY <1>7, <1>9, <2>1 DEF AtMostOne, AllAt
  <1>. DEFINE A == [i \in 1 .. 1 |-> CountMod]
  <1>12. A \in [1 .. 1 -> Nat] /\ A[1] = CountMod
    BY <1>0
  <1>. HIDE DEF A
  <1>13. Node(ev, CountMod, c, r.special_done)
    <2>1. r.special_done \/ c > Half
      BY <1>0, <1>8
    <2>. QED  BY <1>0, <1>1, <2>1 DEF Node, VI_INT, SPECIAL_INT
  <1>14. c <= CountMod + Wait(L, 1) + s
    <2>1. Wait(L, 1) \in Nat
      BY <1>0, WaitBounds
    <2>. QED  BY <1>0, <2>1
  <1>15. Timed(L, r, A, c, s)
    <2>1. 1 <= PoolCapacity
      BY <1>0
    <2>2. \A i, j \in 1 .. 1 : ~(j < i)
      BY <1>9
    <2>. QED  BY <1>7, <1>8, <1>9, <1>12, <1>13, <1>14, <2>1, <2>2 DEF Timed
  <1>16. Ready(L, r, c, s, vi)
    BY <1>10, <1>11, <1>15 DEF Ready
  <1>. QED  BY <1>16 DEF init_interrupt, r, x

\* An event that is not due yet is not late.
LEMMA ReadyNotDue ==
    ASSUME NEW L \in Nat, Margins(L), NEW e, NEW c \in Counts, NEW s \in 0 .. L, NEW vi,
           Ready(L, e, c, s, vi), e.next_interrupt > c, NEW s2 \in 0 .. L
    PROVE  Ready(L, e, c, s2, vi)
  <1>0. CountMod \in Nat /\ c \in Nat
    BY Quantities DEF Counts
  <1>1. PICK A : Timed(L, e, A, c, s)
    BY DEF Ready
  <1>2. /\ 1 \in 1 .. Len(e.q) /\ A[1] \in Nat
        /\ e.q[1].type # SPECIAL_INT => A[1] = e.q[1].count
        /\ e.q[1].type = SPECIAL_INT => e.q[1].count = 0 /\ A[1] \in {0, CountMod}
    BY <1>1, HeadTime DEF Ready
  <1>3. e.q[1].count > c
    BY <1>1, <1>2 DEF Ready, First, Timed, Queues
  <1>4. A[1] > c
    BY <1>0, <1>2, <1>3
  <1>5. ASSUME NEW i \in 1 .. Len(e.q) PROVE c <= A[i] + Wait(L, i) + s2
    <2>1. A[i] \in Nat /\ A[1] <= A[i]
      BY <1>1, FirstLeast
    <2>2. i \in 1 .. PoolCapacity
      BY <1>1, NotLate
    <2>3. Wait(L, i) \in Nat
      BY <2>2, WaitBounds
    <2>. QED  BY <1>0, <1>2, <1>4, <2>1, <2>3
  <1>6. Timed(L, e, A, c, s2)
    BY <1>1, <1>5 DEF Timed
  <1>. QED  BY <1>6 DEF Ready

\* A device's event first: it is due before SPECIAL_INT, which waits for the next wrap.
LEMMA DeviceFirst ==
    ASSUME NEW L \in Nat, Margins(L), NEW e, NEW c \in Counts, NEW s, NEW vi,
           Ready(L, e, c, s, vi), e.q[1].type # SPECIAL_INT
    PROVE  e.special_done \/ c > Half
  <1>0. CountMod \in Nat
    BY Quantities
  <1>1. PICK A : Timed(L, e, A, c, s)
    BY DEF Ready
  <1>2. 1 \in 1 .. Len(e.q) /\ A[1] \in Nat
    BY <1>1, HeadTime DEF Ready
  <1>3. PICK m \in 1 .. Len(e.q) : e.q[m].type = SPECIAL_INT
    BY ReadyQueue DEF Ready, Has
  <1>4. 1 < m /\ A[m] \in Nat
    BY <1>1, <1>3 DEF Timed
  <1>5. A[1] < A[m] /\ Node(e.q[m], A[m], c, e.special_done)
    BY <1>1, <1>2, <1>3, <1>4 DEF Timed
  <1>6. A[m] # 0
    BY <1>2, <1>4, <1>5
  <1>. QED  BY <1>3, <1>5, <1>6 DEF Node

-----------------------------------------------------------------------------
(* Polling guests *)

\* The longest a block with its branch takes, when Count advances by at most b between
\* two updates.
BlockLength(b) == (MaxInstr + 1) * b

\* A guest that polls its devices and leaves the timer alone, and a front end that loads
\* no state from the other side of a wrap and resets the core hard only.  A queue full of
\* events that are all due is served before any of them is a sixteenth of Count's range or
\* a frame late.
PollingGuest(b) ==
    /\ BlockCounts \subseteq 0 .. b /\ WrapSafe
    /\ Margins(BlockLength(b)) /\ \A d \in DmaDelays : d < Half
    /\ CompareWrites = {} /\ CountWrites = {} /\ \A st \in StatusWrites : ~st.ie
    /\ ~GuestFaults /\ ~RearmAtZero
    /\ Requests \subseteq {"none", "hard"} /\ Loads # "any"

\* Count is not exactly 0 once SPECIAL_INT has run.
NotAtZero == ~(count = 0 /\ evq.special_done)

\* What the instructions of the block have used of it, n being left.
Spent(b, n) == (MaxInstr - n) * b

Slack(b) == IF pc \in GenPcs THEN BlockLength(b) ELSE Spent(b, budget)

TimeInv(b) ==
    /\ Ready(BlockLength(b), evq, count, Slack(b), next_vi)
    /\ pc \in GenPcs => evq.next_interrupt <= count
    /\ pc \in {"run", "gen", "status"} /\ ~skip_jump /\ ~status.ie

\* What a block has used grows by b an instruction and leaves b for its branch.
LEMMA SpentBounds ==
    ASSUME NEW b \in Nat, NEW n \in 0 .. MaxInstr
    PROVE  /\ BlockLength(b) \in Nat /\ Spent(b, n) \in 0 .. BlockLength(b)
           /\ Spent(b, n) + b <= BlockLength(b)
           /\ n > 0 => Spent(b, n - 1) = Spent(b, n) + b
           /\ Spent(b, MaxInstr) = 0
  <1>1. MaxInstr \in Nat
    BY ConstantsAssumption
  <1>2. PICK k \in Nat : k = MaxInstr - n
    BY <1>1
  <1>3. k * b \in Nat /\ n * b \in Nat /\ Spent(b, n) = k * b
    BY <1>1, <1>2 DEF Spent
  <1>4. MaxInstr + 1 = k + n + 1
    BY <1>1, <1>2
  <1>5. BlockLength(b) = k * b + n * b + b
    BY <1>1, <1>2, <1>4 DEF BlockLength
  <1>6. n > 0 => Spent(b, n - 1) = Spent(b, n) + b
    <2>1. MaxInstr - (n - 1) = k + 1
      BY <1>1, <1>2
    <2>2. (k + 1) * b = k * b + b
      OBVIOUS
    <2>. QED  BY <1>3, <2>1, <2>2 DEF Spent
  <1>7. Spent(b, MaxInstr) = 0
    BY <1>1 DEF Spent
  <1>. QED  BY <1>3, <1>5, <1>6, <1>7

\* A polling guest's blocks are as short as the times need.
LEMMA PollingMargins ==
    ASSUME NEW b \in Nat, PollingGuest(b)
    PROVE  BlockLength(b) \in Nat /\ Margins(BlockLength(b))
  <1>1. BlockLength(b) \in Nat
    BY ConstantsAssumption DEF BlockLength
  <1>. QED  BY <1>1 DEF PollingGuest

\* With interrupts disabled a line only shows in Cause.
LEMMA PolledLine ==
    ASSUME NEW e, NEW line, raise_rcp_interrupt(e, line), ~status.ie
    PROVE  evq' = e /\ status' = status /\ count' = count /\ skip_jump' = skip_jump
  BY DEF raise_rcp_interrupt, raise_maskable_interrupt, Enabled

\* With interrupts disabled r4300_check_interrupt queues no CHECK_INT.
LEMMA PolledCheck ==
    ASSUME NEW e, NEW st, NEW c, NEW up, ~st.ie
    PROVE  CheckQueue(e, st, c, up) = e
  BY DEF CheckQueue, Enabled

\* Back from a handler.
LEMMA BackToRun ==
    ASSUME NEW b \in Nat, PollingGuest(b), IInv, TimeInv(b), pc' = "run", budget' = budget,
           NEW e, Ready(BlockLength(b), e, count, 0, next_vi'), evq' = e,
           status' = status, count' = count, skip_jump' = skip_jump
    PROVE  TimeInv(b)'
  <1>1. budget \in 0 .. MaxInstr /\ count \in Counts
    BY DEF IInv, TypeOK
  <1>2. Margins(BlockLength(b)) /\ BlockLength(b) \in Nat
    BY PollingMargins
  <1>3. Spent(b, budget) \in 0 .. BlockLength(b) /\ 0 \in 0 .. BlockLength(b)
    BY <1>1, <1>2, SpentBounds
  <1>4. 0 <= Spent(b, budget)
    BY <1>2, <1>3
  <1>5. Ready(BlockLength(b), e, count, Spent(b, budget), next_vi')
    BY <1>1, <1>2, <1>3, <1>4, ReadySlack
  <1>6. Slack(b)' = Spent(b, budget)
    BY DEF Slack, GenPcs
  <1>7. Ready(BlockLength(b), evq', count', Slack(b)', next_vi')
    BY <1>5, <1>6
  <1>. QED  BY <1>7 DEF TimeInv, GenPcs

\* A polling guest's queue holds only devices' events and SPECIAL_INT.
LEMMA PolledHead ==
    ASSUME NEW b \in Nat, PollingGuest(b), IInv, TimeInv(b)
    PROVE  evq.q[1].type \in RcpEvents \cup {SPECIAL_INT}
  <1>1. Margins(BlockLength(b)) /\ BlockLength(b) \in Nat /\ count \in Counts
    BY PollingMargins DEF IInv, TypeOK
  <1>2. PICK A : Timed(BlockLength(b), evq, A, count, Slack(b))
    BY DEF TimeInv, Ready
  <1>3. 1 \in 1 .. Len(evq.q)
    BY <1>1, <1>2, HeadTime DEF TimeInv, Ready
  <1>. QED  BY <1>2, <1>3 DEF Timed, Node

\* Power-on, or a hard reset.
LEMMA PoweronTime ==
    ASSUME NEW b \in Nat, PollingGuest(b), NEW e \in Queues, NEW s \in 0 .. BlockLength(b), NEW vi
    PROVE  Ready(BlockLength(b), init_interrupt(e, InitCount), InitCount, s, vi)
  <1>1. Margins(BlockLength(b)) /\ BlockLength(b) \in Nat /\ InitCount \in Counts
    BY PollingMargins, ConstantsAssumption
  <1>. QED  BY <1>1, ReadyInit

\* The queue of power-on is in order.
LEMMA InitTime ==
    ASSUME NEW b \in Nat, PollingGuest(b), Init
    PROVE  TimeInv(b)
  <1>. DEFINE e0 == [q |-> << >>, next_interrupt |-> 0, special_done |-> FALSE,
                     failed |-> FALSE]
  <1>1. e0 \in Queues
    BY EmptySeq, ZeroCount DEF Queues
  <1>2. evq = init_interrupt(e0, InitCount) /\ count = InitCount
    BY DEF Init, PoweronQueue
  <1>. HIDE DEF e0
  <1>3. MaxInstr \in 0 .. MaxInstr
    BY ConstantsAssumption
  <1>4. Spent(b, MaxInstr) \in 0 .. BlockLength(b)
    BY <1>3, SpentBounds
  <1>5. Slack(b) = Spent(b, MaxInstr)
    BY DEF Slack, Init, GenPcs
  <1>6. Ready(BlockLength(b), evq, count, Slack(b), next_vi)
    BY <1>1, <1>2, <1>4, <1>5, PoweronTime
  <1>. QED  BY <1>6 DEF TimeInv, Init, BootStatus, GenPcs

\* When gen_interrupt runs the queue is in order with a whole block's slack.
LEMMA GenReady ==
    ASSUME NEW b \in Nat, PollingGuest(b), IInv, TimeInv(b), pc \in GenPcs
    PROVE  /\ Ready(BlockLength(b), evq, count, BlockLength(b), next_vi)
           /\ Margins(BlockLength(b)) /\ BlockLength(b) \in Nat /\ count \in Counts
           /\ next_vi \in Counts /\ evq.next_interrupt <= count /\ ~skip_jump /\ ~status.ie
           /\ (IF pc = "count" THEN "translate" ELSE "run") = "run"
  <1>1. Margins(BlockLength(b)) /\ BlockLength(b) \in Nat /\ count \in Counts /\ next_vi \in Counts
    BY PollingMargins DEF IInv, TypeOK
  <1>. QED  BY <1>1 DEF TimeInv, Slack

\* A VI_INT that is first is due, and the next one is ahead of Count.
LEMMA NextFrame ==
    ASSUME NEW b \in Nat, PollingGuest(b), IInv, TimeInv(b), pc \in GenPcs,
           evq.q[1].type = VI_INT
    PROVE  /\ Plus(next_vi, ViDelay) \in Counts /\ next_vi + ViDelay \in Nat
           /\ next_vi + ViDelay \in {Plus(next_vi, ViDelay), Plus(next_vi, ViDelay) + CountMod}
           /\ count <= next_vi + ViDelay /\ next_vi + ViDelay <= count + ViDelay
  <1>. DEFINE L == BlockLength(b)
  <1>1. /\ Ready(L, evq, count, L, next_vi) /\ Margins(L) /\ L \in Nat
        /\ count \in Counts /\ next_vi \in Counts /\ evq.next_interrupt <= count
    BY GenReady
  <1>. HIDE DEF L
  <1>2. PICK A : Timed(L, evq, A, count, L)
    BY <1>1 DEF Ready
  <1>3. VI_INT # SPECIAL_INT /\ L \in 0 .. L
    BY <1>1 DEF VI_INT, SPECIAL_INT
  <1>4. 1 \in 1 .. Len(evq.q) /\ A[1] \in Nat /\ A[1] = evq.q[1].count
    BY <1>1, <1>2, <1>3, HeadTime DEF Ready
  <1>5. DOMAIN evq.q = 1 .. Len(evq.q) /\ evq.q # << >>
    BY <1>2, <1>4 DEF Timed, Queues
  <1>6. A[1] = next_vi /\ A[1] <= count
    BY <1>1, <1>4, <1>5 DEF Ready, AllAt, First
  <1>7. count <= A[1] + PoolCapacity * L
    BY <1>1, <1>2, <1>3, <1>4, NotLate
  <1>8. PoolCapacity * L \in Nat /\ PoolCapacity * L < ViDelay /\ ViDelay \in Nat /\ CountMod \in Nat
    BY <1>1, Quantities, ConstantsAssumption DEF Margins, Counts
  <1>9. PICK m \in Nat : m = PoolCapacity * L
    BY <1>8
  <1>10. next_vi \in Nat /\ count \in Nat /\ Plus(next_vi, ViDelay) \in Counts
    BY <1>1, CountArithmetic, ConstantsAssumption DEF Counts
  <1>11. next_vi + ViDelay \in {Plus(next_vi, ViDelay), Plus(next_vi, ViDelay) + CountMod}
    BY <1>8, <1>10 DEF Plus
  <1>12. count <= next_vi + ViDelay /\ next_vi + ViDelay <= count + ViDelay /\ next_vi + ViDelay \in Nat
    BY <1>6, <1>7, <1>8, <1>9, <1>10
  <1>. QED  BY <1>10, <1>11, <1>12

\* The list after the first node has been removed.
LEMMA RemovedReady ==
    ASSUME NEW b \in Nat, PollingGuest(b), IInv, TimeInv(b), pc \in GenPcs,
           evq.q[1].type # SPECIAL_INT
    PROVE  /\ Ready(BlockLength(b), Removed, count, 0, next_vi)
           /\ Removed.special_done = evq.special_done
           /\ evq.q[1].type = VI_INT => ~Has(Removed.q, VI_INT)
           /\ Removed.special_done \/ count > Half
  <1>. DEFINE L == BlockLength(b)
  <1>1. Ready(L, evq, count, L, next_vi) /\ Margins(L) /\ L \in Nat /\ count \in Counts
    BY GenReady
  <1>. HIDE DEF L
  <1>2. /\ Ready(L, Removed, count, 0, next_vi)
        /\ Removed.special_done = evq.special_done
        /\ evq.q[1].type = VI_INT => ~Has(Removed.q, VI_INT)
    BY <1>1, ReadyRemove DEF Removed
  <1>3. evq.special_done \/ count > Half
    BY <1>1, DeviceFirst
  <1>. QED  BY <1>2, <1>3 DEF L

\* VI_INT is queued again, from a queue e without it.
LEMMA FrameTime ==
    ASSUME NEW b \in Nat, PollingGuest(b), IInv, TimeInv(b), NotAtZero, pc \in GenPcs,
           evq.q[1].type = VI_INT, pc' = "run", budget' = budget,
           next_vi' = Plus(next_vi, ViDelay),
           NEW e, Ready(BlockLength(b), e, count, 0, next_vi), ~Has(e.q, VI_INT),
           e.special_done => evq.special_done,
           raise_rcp_interrupt(add_interrupt_event_count(e, count, VI_INT, next_vi'), VI_INT)
    PROVE  TimeInv(b)'
  <1>. DEFINE L == BlockLength(b)
              r == add_interrupt_event_count(e, count, VI_INT, next_vi')
  <1>1. Margins(L) /\ L \in Nat /\ count \in Counts /\ 0 \in 0 .. L /\ ~status.ie
    BY GenReady
  <1>2. ~(count = 0 /\ e.special_done)
    BY DEF NotAtZero
  <1>3. PICK a \in Nat : a = next_vi + ViDelay
    BY NextFrame
  <1>4. PICK evt \in Counts : evt = Plus(next_vi, ViDelay)
    BY NextFrame
  <1>5. a \in {evt, evt + CountMod} /\ count <= a /\ a <= count + ViDelay
    BY <1>3, <1>4, NextFrame
  <1>6. Ready(L, add_interrupt_event_count(e, count, VI_INT, evt), count, 0, evt)
    <2>. HIDE DEF L
    <2>. QED  BY <1>1, <1>2, <1>5, ReadyAddVi DEF L
  <1>7. Ready(L, r, count, 0, next_vi')
    BY <1>4, <1>6
  <1>8. evq' = r /\ status' = status /\ count' = count /\ skip_jump' = skip_jump
    BY <1>1, PolledLine
  <1>. HIDE DEF r
  <1>. QED  BY <1>7, <1>8, BackToRun

\* vi_vertical_interrupt_event keeps the order: the next frame is ahead of Count.
LEMMA ViIntTime ==
    ASSUME NEW b \in Nat, PollingGuest(b), IInv, TimeInv(b), NotAtZero, ViInt
    PROVE  TimeInv(b)'
  <1>1. pc \in GenPcs /\ evq.q[1].type = VI_INT /\ budget' = budget
    BY DEF ViInt, Dispatch, Dispatching
  <1>2. pc' = "run"
    BY <1>1, GenReady DEF ViInt, Dispatch
  <1>3. PICK q \in Requests :
           /\ next_vi' = Plus(next_vi, ViDelay)
           /\ LET e == IF q = "soft" THEN soft_reset_device(Removed) ELSE Removed
              IN  raise_rcp_interrupt(
                    add_interrupt_event_count(e, count, VI_INT, next_vi'), VI_INT)
    BY DEF ViInt
  <1>4. q # "soft"
    BY DEF PollingGuest
  <1>5. raise_rcp_interrupt(add_interrupt_event_count(Removed, count, VI_INT, next_vi'), VI_INT)
    BY <1>3, <1>4
  <1>6. /\ Ready(BlockLength(b), Removed, count, 0, next_vi)
        /\ Removed.special_done = evq.special_done /\ ~Has(Removed.q, VI_INT)
    BY <1>1, RemovedReady DEF VI_INT, SPECIAL_INT
  <1>. QED  BY <1>1, <1>2, <1>3, <1>5, <1>6, FrameTime

\* So it does when the front end loads a savestate meanwhile.
LEMMA ViLoadTime ==
    ASSUME NEW b \in Nat, PollingGuest(b), IInv, TimeInv(b), NotAtZero, ViLoad
    PROVE  TimeInv(b)'
  <1>1. /\ pc \in GenPcs /\ evq.q[1].type = VI_INT /\ budget' = budget
        /\ next_vi' = Plus(next_vi, ViDelay)
    BY DEF ViLoad, Dispatch, Dispatching
  <1>2. pc' = "run"
    BY <1>1, GenReady DEF ViLoad, Dispatch
  <1>3. Loads # "any"
    BY DEF PollingGuest
  <1>. DEFINE L == BlockLength(b)
              r == load_eventqueue_infos([Removed EXCEPT !.special_done = evq.special_done],
                                         count, save_eventqueue_infos(Removed))
  <1>4. raise_rcp_interrupt(add_interrupt_event_count(r, count, VI_INT, next_vi'), VI_INT)
    BY <1>3 DEF ViLoad
  <1>. HIDE DEF r
  <1>5. /\ Ready(L, Removed, count, 0, next_vi)
        /\ Removed.special_done = evq.special_done /\ ~Has(Removed.q, VI_INT)
        /\ Removed.special_done \/ count > Half
    BY <1>1, RemovedReady DEF VI_INT, SPECIAL_INT
  <1>6. L \in Nat /\ Margins(L) /\ count \in Counts /\ 0 \in 0 .. L
    BY <1>1, GenReady
  <1>7. PICK d \in BOOLEAN : d = evq.special_done
    BY DEF IInv, TypeOK, Queues
  <1>8. ~(count = 0 /\ Removed.special_done)
    BY <1>5 DEF NotAtZero
  <1>9. /\ r.q = Removed.q /\ r.special_done = (d /\ count <= Half)
        /\ d = Removed.special_done => Ready(L, r, count, 0, next_vi)
    <2>. HIDE DEF L
    <2>. QED  BY <1>5, <1>6, <1>7, <1>8, ReadyLoad DEF r
  <1>10. Ready(L, r, count, 0, next_vi) /\ ~Has(r.q, VI_INT) /\ (r.special_done => evq.special_done)
    BY <1>5, <1>7, <1>9
  <1>. QED  BY <1>1, <1>2, <1>4, <1>10, FrameTime

\* So do the end-of-DMA handlers.
LEMMA DmaIntTime ==
    ASSUME NEW b \in Nat, PollingGuest(b), IInv, TimeInv(b), NotAtZero, NEW t \in Dma,
           DmaInt(t)
    PROVE  TimeInv(b)'
  <1>. DEFINE L == BlockLength(b)
  <1>1. pc \in GenPcs /\ evq.q[1].type = t /\ budget' = budget /\ next_vi' = next_vi
    BY DEF DmaInt, Dispatch, Dispatching
  <1>2. /\ pc' = "run" /\ ~status.ie /\ L \in Nat /\ Margins(L) /\ count \in Counts
        /\ 0 \in 0 .. L
    BY <1>1, GenReady DEF DmaInt, Dispatch
  <1>3. t # SPECIAL_INT /\ t \in RcpEvents \ {VI_INT}
    BY ConstantsAssumption, NotDevices
  <1>4. Ready(L, Removed, count, 0, next_vi) /\ Removed.special_done = evq.special_done
    BY <1>1, <1>3, RemovedReady
  <1>. HIDE DEF L
  <1>5. ASSUME NEW e, Ready(L, e, count, 0, next_vi), raise_rcp_interrupt(e, t)
        PROVE  TimeInv(b)'
    <2>1. evq' = e /\ status' = status /\ count' = count /\ skip_jump' = skip_jump
      BY <1>2, <1>5, PolledLine
    <2>. QED  BY <1>1, <1>2, <1>5, <2>1, BackToRun DEF L
  <1>6. ASSUME t = AI_INT, NEW delay \in DmaDelays,
               raise_rcp_interrupt(add_interrupt_event(Removed, count, AI_INT, delay), AI_INT)
        PROVE  TimeInv(b)'
    <2>1. delay \in Counts /\ delay < Half
      BY ConstantsAssumption DEF PollingGuest
    <2>2. ~(count = 0 /\ Removed.special_done)
      BY <1>4 DEF NotAtZero
    <2>3. Ready(L, add_interrupt_event(Removed, count, t, delay), count, 0, next_vi)
      BY <1>2, <1>3, <1>4, <2>1, <2>2, ReadyAdd
    <2>. QED  BY <1>5, <1>6, <2>3
  <1>7. CASE evq' = Removed /\ UNCHANGED <<mi, status, cause, count, skip_jump>>
    BY <1>1, <1>2, <1>4, <1>7, BackToRun DEF L
  <1>. QED  BY <1>4, <1>5, <1>6, <1>7 DEF DmaInt

\* So does special_int_handler, before and after Count has wrapped.
LEMMA SpecialIntTime ==
    ASSUME NEW b \in Nat, PollingGuest(b), IInv, TimeInv(b), SpecialInt
    PROVE  TimeInv(b)'
  <1>. DEFINE L == BlockLength(b)
              r == IF count > Sixteenth THEN [evq EXCEPT !.next_interrupt = 0]
                   ELSE add_interrupt_event_count(
                          [remove_interrupt_event(evq, count) EXCEPT !.special_done = TRUE],
                          count, SPECIAL_INT, 0)
  <1>1. /\ pc \in GenPcs /\ evq.q[1].type = SPECIAL_INT /\ budget' = budget /\ next_vi' = next_vi
        /\ status' = status /\ count' = count /\ skip_jump' = skip_jump /\ evq' = r
    BY DEF SpecialInt, Dispatch, Dispatching, Removed, regs
  <1>2. pc' = "run"
    BY <1>1, GenReady DEF SpecialInt, Dispatch
  <1>3. /\ Ready(L, evq, count, L, next_vi) /\ L \in Nat /\ Margins(L) /\ count \in Counts
        /\ AtMostOne(evq.q, SPECIAL_INT)
    BY <1>1, GenReady DEF IInv, QueueInv
  <1>4. Ready(L, r, count, 0, next_vi)
    <2>. HIDE DEF L
    <2>. QED  BY <1>1, <1>3, ReadySpecial
  <1>. HIDE DEF r
  <1>. QED  BY <1>1, <1>2, <1>4, BackToRun

\* So does power-on from any state.
LEMMA ResetHardTime ==
    ASSUME NEW b \in Nat, PollingGuest(b), IInv, ResetHard
    PROVE  TimeInv(b)'
  <1>1. PoweronQueue(evq.failed) \in Queues
    <2>. DEFINE e0 == [q |-> << >>, next_interrupt |-> 0, special_done |-> FALSE,
                       failed |-> evq.failed]
    <2>1. e0 \in Queues /\ InitCount \in Counts
      BY EmptySeq, ZeroCount, ConstantsAssumption DEF Queues, IInv, TypeOK
    <2>. HIDE DEF e0
    <2>2. init_interrupt(e0, InitCount) \in Queues
      BY <2>1, InitNumber
    <2>. QED  BY <2>2 DEF e0, PoweronQueue
  <1>2. PICK e \in Queues : e = PoweronQueue(evq.failed)
    BY <1>1
  <1>3. /\ evq' = init_interrupt(e, InitCount) /\ count' = InitCount /\ pc' = "run"
        /\ status' = BootStatus /\ skip_jump' = FALSE /\ budget' = budget
    BY <1>2 DEF ResetHard
  <1>4. budget \in 0 .. MaxInstr
    BY DEF IInv, TypeOK
  <1>5. Spent(b, budget) \in 0 .. BlockLength(b)
    BY <1>4, SpentBounds
  <1>6. Slack(b)' = Spent(b, budget)
    BY <1>3 DEF Slack, GenPcs
  <1>7. Ready(BlockLength(b), evq', count', Slack(b)', next_vi')
    BY <1>3, <1>5, <1>6, PoweronTime
  <1>. QED  BY <1>3, <1>7 DEF TimeInv, BootStatus, GenPcs

\* gen_interrupt keeps the order, whatever it dispatches.
LEMMA GenInterruptTime ==
    ASSUME NEW b \in Nat, PollingGuest(b), IInv, TimeInv(b), NotAtZero, GenInterrupt
    PROVE  TimeInv(b)'
  <1>1. CASE ViInt
    BY <1>1, ViIntTime
  <1>2. CASE \E t \in Dma : DmaInt(t)
    BY <1>2, DmaIntTime
  <1>3. CASE SpecialInt
    BY <1>3, SpecialIntTime
  <1>4. CASE ResetHard
    BY <1>4, ResetHardTime
  <1>5. CASE CompareInt \/ CheckInt \/ Hw2Int \/ NmiInt
    <2>1. evq.q[1].type \in {COMPARE_INT, CHECK_INT, HW2_INT, NMI_INT}
      BY <1>5 DEF CompareInt, CheckInt, Hw2Int, NmiInt, Dispatch
    <2>2. evq.q[1].type \in RcpEvents \cup {SPECIAL_INT}
      BY PolledHead
    <2>. QED  BY <2>1, <2>2 DEF RcpEvents, VI_INT, COMPARE_INT, CHECK_INT, SI_INT, PI_INT,
                SPECIAL_INT, AI_INT, SP_INT, DP_INT, HW2_INT, NMI_INT
  <1>6. CASE SkipJump
    BY <1>6 DEF SkipJump, TimeInv
  <1>. QED  BY <1>1, <1>2, <1>3, <1>4, <1>5, <1>6 DEF GenInterrupt

\* Between two instructions the queue is in order with what the block has used.
LEMMA RunReady ==
    ASSUME NEW b \in Nat, PollingGuest(b), IInv, TimeInv(b), pc = "run"
    PROVE  /\ Ready(BlockLength(b), evq, count, Spent(b, budget), next_vi)
           /\ Margins(BlockLength(b)) /\ BlockLength(b) \in Nat /\ count \in Counts
           /\ Spent(b, budget) \in 0 .. BlockLength(b)
           /\ Spent(b, budget) + b \in 0 .. BlockLength(b)
           /\ budget > 0 => Spent(b, budget - 1) = Spent(b, budget) + b
           /\ ~skip_jump /\ ~status.ie
  <1>1. /\ Margins(BlockLength(b)) /\ BlockLength(b) \in Nat /\ count \in Counts
        /\ budget \in 0 .. MaxInstr
    BY PollingMargins DEF IInv, TypeOK
  <1>2. /\ Spent(b, budget) \in 0 .. BlockLength(b)
        /\ Spent(b, budget) + b <= BlockLength(b)
        /\ budget > 0 => Spent(b, budget - 1) = Spent(b, budget) + b
    BY <1>1, SpentBounds
  <1>3. Spent(b, budget) + b \in 0 .. BlockLength(b)
    BY <1>1, <1>2
  <1>4. Slack(b) = Spent(b, budget)
    BY DEF Slack, GenPcs
  <1>. QED  BY <1>1, <1>2, <1>3, <1>4 DEF TimeInv

\* cp0_update_count.
LEMMA AdvancedReady ==
    ASSUME NEW b \in Nat, PollingGuest(b), IInv, TimeInv(b), pc = "run",
           Advance(evq.next_interrupt)
    PROVE  Ready(BlockLength(b), evq, count', Spent(b, budget) + b, next_vi)
  <1>1. /\ Ready(BlockLength(b), evq, count, Spent(b, budget), next_vi)
        /\ Margins(BlockLength(b)) /\ BlockLength(b) \in Nat /\ count \in Counts
        /\ Spent(b, budget) \in 0 .. BlockLength(b)
        /\ Spent(b, budget) + b \in 0 .. BlockLength(b)
    BY RunReady
  <1>2. PICK d \in BlockCounts :
           count' = Plus(count, d) /\ (count' < count => evq.next_interrupt <= count')
    BY DEF Advance, PollingGuest
  <1>3. d \in Counts /\ d \in 0 .. b
    BY ConstantsAssumption DEF PollingGuest
  <1>4. d <= b /\ Spent(b, budget) + b <= BlockLength(b)
    BY <1>1, <1>3
  <1>5. Plus(count, d) < count => evq.next_interrupt <= Plus(count, d)
    BY <1>2
  <1>6. Ready(BlockLength(b), evq, Plus(count, d), Spent(b, budget) + b, next_vi)
    BY <1>1, <1>3, <1>4, <1>5, ReadyAdvance
  <1>. QED  BY <1>2, <1>6

\* An instruction that does not end the block.
LEMMA SameBlock ==
    ASSUME NEW b \in Nat, PollingGuest(b), IInv, TimeInv(b), Instruction, pc' = "run",
           skip_jump' = skip_jump, ~status'.ie,
           Ready(BlockLength(b), evq', count', Spent(b, budget) + b, next_vi')
    PROVE  TimeInv(b)'
  <1>1. pc = "run" /\ budget > 0 /\ budget' = budget - 1
    BY DEF Instruction
  <1>2. Slack(b)' = Spent(b, budget - 1)
    BY <1>1 DEF Slack, GenPcs
  <1>3. Slack(b)' = Spent(b, budget) + b
    BY <1>1, <1>2, RunReady
  <1>4. Ready(BlockLength(b), evq', count', Slack(b)', next_vi')
    BY <1>3
  <1>. QED  BY <1>4 DEF TimeInv, GenPcs

\* The test of next_interrupt that ends a block: either gen_interrupt is called, or
\* nothing is due and nothing has waited.
LEMMA TestedBlock ==
    ASSUME NEW b \in Nat, PollingGuest(b), IInv', TimeInv(b), NEW p \in {"gen", "status"},
           pc' = (IF evq'.next_interrupt <= count' THEN p ELSE "run"),
           skip_jump' = skip_jump, ~status'.ie, NEW s \in 0 .. BlockLength(b),
           Ready(BlockLength(b), evq', count', s, next_vi')
    PROVE  TimeInv(b)'
  <1>1. /\ count' \in Counts /\ budget' \in 0 .. MaxInstr /\ evq'.next_interrupt \in Counts
        /\ Margins(BlockLength(b)) /\ BlockLength(b) \in Nat
    BY PollingMargins DEF IInv, TypeOK, Queues
  <1>2. Spent(b, budget') \in 0 .. BlockLength(b)
    BY <1>1, SpentBounds
  <1>3. CASE evq'.next_interrupt <= count'
    <2>1. pc' = p /\ pc' \in GenPcs
      BY <1>3 DEF GenPcs
    <2>2. BlockLength(b) \in 0 .. BlockLength(b) /\ s <= BlockLength(b)
      BY <1>1
    <2>3. Ready(BlockLength(b), evq', count', BlockLength(b), next_vi')
      BY <1>1, <2>2, ReadySlack
    <2>4. Slack(b)' = BlockLength(b)
      BY <2>1 DEF Slack
    <2>. QED  BY <1>3, <2>1, <2>3, <2>4 DEF TimeInv
  <1>4. CASE ~(evq'.next_interrupt <= count')
    <2>1. pc' = "run"
      BY <1>4
    <2>2. evq'.next_interrupt > count'
      BY <1>1, <1>4, CountModAssumption DEF Counts
    <2>3. Ready(BlockLength(b), evq', count', Spent(b, budget'), next_vi')
      BY <1>1, <1>2, <2>2, ReadyNotDue
    <2>4. Slack(b)' = Spent(b, budget')
      BY <2>1 DEF Slack, GenPcs
    <2>. QED  BY <2>1, <2>3, <2>4 DEF TimeInv, GenPcs
  <1>. QED  BY <1>3, <1>4

\* A device's event that may or may not be queued.
MaybeAdd(e, c, type, delay, add) ==
    IF add THEN add_interrupt_event(e, c, type, delay) ELSE e

\* An insertion at Count 0 does not clear special_done.
LEMMA MaybeAddDone ==
    ASSUME NEW e \in Queues, NEW c \in Counts, NEW type \in RcpEvents, NEW delay \in Counts,
           NEW add \in BOOLEAN, c = 0, e.special_done
    PROVE  /\ MaybeAdd(e, c, type, delay, add).special_done
           /\ MaybeAdd(e, c, type, delay, add) \in Queues
  <1>. DEFINE r == add_interrupt_event_count(e, c, type, Plus(c, delay))
  <1>1. Plus(c, delay) \in Counts /\ type \in EventTypes
    BY CountArithmetic, OtherTypes
  <1>2. r \in Queues
    BY <1>1, AddEvent
  <1>3. r.special_done = (e.special_done /\ c <= Half)
    BY AddDone
  <1>4. c <= Half
    BY CountModAssumption DEF Half
  <1>. QED  BY <1>2, <1>3, <1>4 DEF MaybeAdd, add_interrupt_event

\* The order holds whether the event is queued or not.
LEMMA ReadyMaybeAdd ==
    ASSUME NEW L \in Nat, Margins(L), NEW e, NEW c \in Counts, NEW s \in 0 .. L, NEW vi,
           Ready(L, e, c, s, vi), ~(c = 0 /\ e.special_done),
           NEW type \in RcpEvents \ {VI_INT}, NEW delay \in Counts, delay < Half,
           NEW add \in BOOLEAN
    PROVE  Ready(L, MaybeAdd(e, c, type, delay, add), c, s, vi)
  <1>1. CASE add
    BY <1>1, ReadyAdd DEF MaybeAdd
  <1>2. CASE ~add
    BY <1>2 DEF MaybeAdd
  <1>. QED  BY <1>1, <1>2

\* A branch keeps the order.
LEMMA BranchTime ==
    ASSUME NEW b \in Nat, PollingGuest(b), IInv, IInv', TimeInv(b), Branch
    PROVE  TimeInv(b)'
  <1>1. /\ pc = "run" /\ Advance(evq.next_interrupt) /\ evq' = evq /\ status' = status
        /\ skip_jump' = skip_jump /\ next_vi' = next_vi
        /\ pc' = (IF evq'.next_interrupt <= count' THEN "gen" ELSE "run")
    BY DEF Branch, regs
  <1>2. Ready(BlockLength(b), evq', count', Spent(b, budget) + b, next_vi')
    BY <1>1, AdvancedReady
  <1>3. Spent(b, budget) + b \in 0 .. BlockLength(b) /\ ~status'.ie
    BY <1>1, RunReady
  <1>. QED  BY <1>1, <1>2, <1>3, TestedBlock

\* A branch to itself does not jump past the first event.
LEMMA BranchIdleTime ==
    ASSUME NEW b \in Nat, PollingGuest(b), IInv, IInv', TimeInv(b), NotAtZero, BranchIdle
    PROVE  TimeInv(b)'
  <1>. DEFINE L == BlockLength(b)
              k == Sub(evq.next_interrupt, count)
  <1>1. /\ pc = "run" /\ k > 3 /\ k < Half /\ count' = Plus(count, k - (k % 4)) /\ budget' = 0
        /\ evq' = evq /\ status' = status /\ skip_jump' = skip_jump /\ next_vi' = next_vi
        /\ pc' = "run"
    BY DEF BranchIdle, regs
  <1>2. /\ Ready(L, evq, count, Spent(b, budget), next_vi) /\ Margins(L) /\ L \in Nat
        /\ count \in Counts /\ Spent(b, budget) \in 0 .. L /\ ~status.ie
    BY <1>1, RunReady
  <1>3. budget' \in 0 .. MaxInstr
    BY DEF IInv, TypeOK
  <1>4. Spent(b, budget') \in 0 .. L
    BY <1>3, SpentBounds
  <1>5. ~(count = 0 /\ evq.special_done)
    BY DEF NotAtZero
  <1>6. Ready(L, evq, Plus(count, k - (k % 4)), Spent(b, budget'), next_vi)
    <2>. HIDE DEF L
    <2>. QED  BY <1>1, <1>2, <1>4, <1>5, ReadyIdle
  <1>. HIDE DEF k
  <1>7. Ready(L, evq', count', Spent(b, budget'), next_vi')
    BY <1>1, <1>6
  <1>8. Slack(b)' = Spent(b, budget')
    BY <1>1 DEF Slack, GenPcs
  <1>. QED  BY <1>1, <1>2, <1>7, <1>8 DEF TimeInv, GenPcs

\* A transfer started keeps the order.
LEMMA StartDmaTime ==
    ASSUME NEW b \in Nat, PollingGuest(b), IInv, IInv', TimeInv(b), NotAtZero',
           NEW t \in Dma, StartDma(t)
    PROVE  TimeInv(b)'
  <1>. DEFINE L == BlockLength(b)
              s == Spent(b, budget) + b
  <1>1. /\ Instruction /\ pc = "run" /\ Advance(evq.next_interrupt) /\ status' = status
        /\ skip_jump' = skip_jump /\ next_vi' = next_vi /\ pc' = "run"
    BY DEF StartDma, Instruction, regs
  <1>2. PICK delay \in DmaDelays : evq' = add_interrupt_event(evq, count', t, delay)
    BY DEF StartDma
  <1>3. evq' = MaybeAdd(evq, count', t, delay, TRUE)
    BY <1>2 DEF MaybeAdd
  <1>4. /\ delay \in Counts /\ delay < Half /\ t \in RcpEvents \ {VI_INT} /\ evq \in Queues
        /\ count' \in Counts
    BY ConstantsAssumption DEF PollingGuest, IInv, TypeOK
  <1>5. ~(count' = 0 /\ evq.special_done)
    BY <1>3, <1>4, MaybeAddDone DEF NotAtZero
  <1>6. Margins(L) /\ L \in Nat /\ s \in 0 .. L /\ ~status'.ie
    BY <1>1, RunReady
  <1>7. Ready(L, evq, count', s, next_vi)
    BY <1>1, AdvancedReady
  <1>8. Ready(L, MaybeAdd(evq, count', t, delay, TRUE), count', s, next_vi)
    <2>. HIDE DEF L, s
    <2>. QED  BY <1>4, <1>5, <1>6, <1>7, ReadyMaybeAdd
  <1>9. Ready(L, evq', count', s, next_vi')
    BY <1>1, <1>3, <1>8
  <1>. QED  BY <1>1, <1>6, <1>9, SameBlock

\* An RSP task keeps the order, with either, both or none of its events queued.
LEMMA SpTaskTime ==
    ASSUME NEW b \in Nat, PollingGuest(b), IInv, IInv', TimeInv(b), NotAtZero', do_SP_Task
    PROVE  TimeInv(b)'
  <1>. DEFINE L == BlockLength(b)
              s == Spent(b, budget) + b
  <1>1. /\ Instruction /\ pc = "run" /\ Advance(evq.next_interrupt) /\ status' = status
        /\ skip_jump' = skip_jump /\ next_vi' = next_vi /\ pc' = "run"
    BY DEF do_SP_Task, Instruction, regs
  <1>2. PICK ack \in BOOLEAN, gfx \in BOOLEAN, frozen \in BOOLEAN,
             d1 \in DmaDelays, d2 \in DmaDelays,
             raised \in SUBSET ({SP_INT, DP_INT} \cap Dma) :
           SpTaskLines(ack, gfx, frozen, raised, d1, d2)
    BY DEF do_SP_Task
  <1>3. Margins(L) /\ L \in Nat /\ s \in 0 .. L /\ ~status'.ie /\ ~status.ie
    BY <1>1, RunReady
  <1>. DEFINE before == IF ack THEN mi.intr \ {SP_INT} ELSE mi.intr
              up == before \cap mi.mask # {}
              lines == before \cup raised
  <1>4. PICK dp \in BOOLEAN : dp = (gfx /\ DP_INT \in lines /\ ~frozen)
    OBVIOUS
  <1>5. PICK sp \in BOOLEAN : sp <=> SP_INT \in lines
    <2>1. CASE SP_INT \in lines
      BY <2>1
    <2>2. CASE SP_INT \notin lines
      BY <2>2
    <2>. QED  BY <2>1, <2>2
  <1>6. PICK td \in RcpEvents \ {VI_INT} : td = DP_INT
    BY DEF RcpEvents, VI_INT, SI_INT, PI_INT, AI_INT, SP_INT, DP_INT
  <1>7. PICK ts \in RcpEvents \ {VI_INT} : ts = SP_INT
    BY DEF RcpEvents, VI_INT, SI_INT, PI_INT, AI_INT, SP_INT, DP_INT
  <1>. DEFINE e1 == MaybeAdd(evq, count', td, d1, dp)
  <1>8. evq' = MaybeAdd(e1, count', ts, d2, sp)
    <2>1. CheckQueue(evq, status, count, up) = evq
      BY <1>3, PolledCheck
    <2>. QED  BY <1>2, <1>4, <1>5, <1>6, <1>7, <2>1 DEF SpTaskLines, MaybeAdd
  <1>9. /\ d1 \in Counts /\ d1 < Half /\ d2 \in Counts /\ d2 < Half /\ evq \in Queues
        /\ count' \in Counts
    BY ConstantsAssumption DEF PollingGuest, IInv, TypeOK
  <1>10. count' = 0 /\ evq.special_done => e1.special_done /\ e1 \in Queues
    BY <1>9, MaybeAddDone
  <1>11. Ready(L, evq, count', s, next_vi)
    BY <1>1, AdvancedReady
  <1>. HIDE DEF e1, L, s
  <1>12. e1 \in Queues
    <2>1. Plus(count', d1) \in Counts /\ td \in EventTypes
      BY <1>9, CountArithmetic, OtherTypes
    <2>2. add_interrupt_event_count(evq, count', td, Plus(count', d1)) \in Queues
      BY <1>9, <2>1, AddEvent
    <2>. QED  BY <1>9, <2>2 DEF e1, MaybeAdd, add_interrupt_event
  <1>13. ~(count' = 0 /\ e1.special_done)
    <2>1. count' = 0 /\ e1.special_done => evq'.special_done
      BY <1>8, <1>9, <1>12, MaybeAddDone
    <2>. QED  BY <2>1 DEF NotAtZero
  <1>14. ~(count' = 0 /\ evq.special_done)
    BY <1>10, <1>13
  <1>15. Ready(L, e1, count', s, next_vi)
    BY <1>3, <1>9, <1>11, <1>14, ReadyMaybeAdd DEF e1
  <1>16. Ready(L, evq', count', s, next_vi')
    BY <1>1, <1>3, <1>8, <1>9, <1>13, <1>15, ReadyMaybeAdd
  <1>. QED  BY <1>1, <1>3, <1>16, SameBlock DEF L, s

\* VI_V_INTR_REG keeps the order and queues the one VI_INT.
LEMMA ArmViTime ==
    ASSUME NEW b \in Nat, PollingGuest(b), IInv, IInv', TimeInv(b), NotAtZero', ArmVi
    PROVE  TimeInv(b)'
  <1>. DEFINE L == BlockLength(b)
              s == Spent(b, budget) + b
  <1>1. /\ Instruction /\ pc = "run" /\ Advance(evq.next_interrupt) /\ status' = status
        /\ skip_jump' = skip_jump /\ pc' = "run" /\ next_vi' = Plus(count', ViDelay)
        /\ evq' = add_interrupt_event_count(evq, count', VI_INT, next_vi')
    BY DEF ArmVi, Instruction
  <1>2. ~Has(evq.q, VI_INT)
    BY DEF ArmVi, PollingGuest, Pending
  <1>3. evq \in Queues /\ count' \in Counts /\ next_vi' \in Counts
    BY DEF IInv, TypeOK
  <1>4. Margins(L) /\ L \in Nat /\ s \in 0 .. L /\ ~status'.ie
    BY <1>1, RunReady
  <1>5. Ready(L, evq, count', s, next_vi)
    BY <1>1, AdvancedReady
  <1>. HIDE DEF L, s
  <1>6. CountMod \in Nat /\ Half \in Nat /\ ViDelay \in Nat /\ count' \in Nat
    BY <1>3, <1>4, Quantities, ConstantsAssumption DEF Counts
  <1>7. ~(count' = 0 /\ evq.special_done)
    <2>1. evq'.special_done = (evq.special_done /\ count' <= Half)
      BY <1>1, <1>3, AddDone
    <2>2. count' = 0 => count' <= Half
      BY <1>6
    <2>. QED  BY <2>1, <2>2 DEF NotAtZero
  <1>8. PICK evt \in Counts : evt = next_vi'
    BY <1>3
  <1>9. PICK c \in Nat : c = count'
    BY <1>6
  <1>10. PICK a \in Nat : a = c + ViDelay
    BY <1>6
  <1>11. evt = Plus(c, ViDelay)
    BY <1>1, <1>8, <1>9
  <1>12. a \in {evt, evt + CountMod} /\ c <= a /\ a <= c + ViDelay
    BY <1>6, <1>10, <1>11 DEF Plus
  <1>13. Ready(L, add_interrupt_event_count(evq, c, VI_INT, evt), c, s, evt)
    BY <1>2, <1>3, <1>4, <1>5, <1>7, <1>9, <1>12, ReadyAddVi
  <1>14. Ready(L, evq', count', s, next_vi')
    BY <1>1, <1>8, <1>9, <1>13
  <1>. QED  BY <1>1, <1>4, <1>14, SameBlock DEF L, s

\* An instruction that touches neither Count nor the queue.
LEMMA QuietTime ==
    ASSUME NEW b \in Nat, PollingGuest(b), IInv, TimeInv(b), Instruction, pc' = pc,
           evq' = evq, count' = count, status' = status, skip_jump' = skip_jump,
           next_vi' = next_vi
    PROVE  TimeInv(b)'
  <1>. DEFINE L == BlockLength(b)
  <1>1. pc = "run"
    BY DEF Instruction
  <1>2. /\ Ready(L, evq, count, Spent(b, budget), next_vi) /\ Margins(L) /\ L \in Nat
        /\ count \in Counts /\ Spent(b, budget) \in 0 .. L /\ Spent(b, budget) + b \in 0 .. L
        /\ ~status'.ie
    BY <1>1, RunReady
  <1>3. Spent(b, budget) <= Spent(b, budget) + b
    BY <1>2
  <1>4. Ready(L, evq, count, Spent(b, budget) + b, next_vi)
    <2>. HIDE DEF L
    <2>. QED  BY <1>2, <1>3, ReadySlack
  <1>. QED  BY <1>1, <1>2, <1>4, SameBlock

\* WriteMiMask, MTC0 Status and ERET end in the test of next_interrupt.
LEMMA CheckedTime ==
    ASSUME NEW b \in Nat, PollingGuest(b), IInv, IInv', TimeInv(b), Instruction,
           Advance(evq.next_interrupt), evq' = evq, NEW p \in {"gen", "status"},
           pc' = (IF evq'.next_interrupt <= count' THEN p ELSE "run"),
           ~status'.ie, skip_jump' = skip_jump, next_vi' = next_vi
    PROVE  TimeInv(b)'
  <1>1. pc = "run"
    BY DEF Instruction
  <1>2. Ready(BlockLength(b), evq', count', Spent(b, budget) + b, next_vi')
    BY <1>1, AdvancedReady
  <1>3. Spent(b, budget) + b \in 0 .. BlockLength(b)
    BY <1>1, RunReady
  <1>. QED  BY <1>2, <1>3, TestedBlock

\* The CPU loop keeps the order, whatever it executes.
LEMMA CpuLoopTime ==
    ASSUME NEW b \in Nat, PollingGuest(b), IInv, IInv', TimeInv(b), NotAtZero, NotAtZero',
           CpuLoop
    PROVE  TimeInv(b)'
  <1>0. status \in StatusRegs /\ ~status.ie
    BY DEF IInv, TypeOK, TimeInv
  <1>1. CASE Branch
    BY <1>1, BranchTime
  <1>2. CASE BranchIdle
    BY <1>2, BranchIdleTime
  <1>3. CASE do_SP_Task
    BY <1>3, SpTaskTime
  <1>4. CASE ArmVi
    BY <1>4, ArmViTime
  <1>5. CASE WriteMiMask
    <2>1. /\ Instruction /\ status' = status /\ skip_jump' = skip_jump /\ next_vi' = next_vi
          /\ evq' = CheckQueue(evq, status, count, mi.intr \cap mi'.mask # {})
          /\ Advance(evq'.next_interrupt)
          /\ pc' = (IF evq'.next_interrupt <= count' THEN "gen" ELSE "run")
      BY <1>5 DEF WriteMiMask, r4300_check_interrupt
    <2>2. evq' = evq
      BY <1>0, <2>1, PolledCheck
    <2>3. Advance(evq.next_interrupt)
      BY <2>1, <2>2 DEF Advance
    <2>. QED  BY <1>0, <2>1, <2>2, <2>3, CheckedTime
  <1>6. CASE MTC0_Status
    <2>1. /\ Instruction /\ status' \in StatusWrites /\ skip_jump' = skip_jump
          /\ next_vi' = next_vi /\ Advance(evq.next_interrupt)
          /\ evq' = CheckQueue(evq, status', count', mi.intr \cap mi.mask # {})
          /\ pc' = (IF evq'.next_interrupt <= count' THEN "status" ELSE "run")
      BY <1>6 DEF MTC0_Status, r4300_check_interrupt, regs
    <2>2. ~status'.ie
      BY <2>1 DEF PollingGuest
    <2>3. evq' = evq
      BY <2>1, <2>2, PolledCheck
    <2>. QED  BY <2>1, <2>2, <2>3, CheckedTime
  <1>7. CASE ERET
    <2>1. /\ Instruction /\ status' = [status EXCEPT !.exl = @ /\ status.erl]
          /\ skip_jump' = skip_jump /\ next_vi' = next_vi /\ Advance(evq.next_interrupt)
          /\ evq' = CheckQueue(evq, status', count', mi.intr \cap mi.mask # {})
          /\ pc' = (IF evq'.next_interrupt <= count' THEN "gen" ELSE "run")
      BY <1>7 DEF ERET, r4300_check_interrupt, regs
    <2>2. ~status'.ie
      BY <1>0, <2>1 DEF StatusRegs
    <2>3. evq' = evq
      BY <2>1, <2>2, PolledCheck, ZenonT(60)
    <2>. QED  BY <2>1, <2>2, <2>3, CheckedTime
  <1>8. CASE MTC0_Cause
    BY <1>8, QuietTime DEF MTC0_Cause, regs
  <1>9. CASE \E t \in Dma : StartDma(t)
    BY <1>9, StartDmaTime
  <1>10. CASE \E line \in Dma \cup {VI_INT} : clear_rcp_interrupt(line)
    <2>1. PICK line : clear_rcp_interrupt(line)
      BY <1>10
    <2>2. evq' = CheckQueue(evq, status, count, mi'.intr \cap mi.mask # {})
      BY <2>1 DEF clear_rcp_interrupt, r4300_check_interrupt
    <2>3. evq' = evq
      BY <1>0, <2>2, PolledCheck
    <2>. QED  BY <2>1, <2>3, QuietTime DEF clear_rcp_interrupt
  <1>11. CASE \E line \in Dma \cap {SP_INT, DP_INT} : signal_rcp_interrupt(line)
    <2>1. PICK line : signal_rcp_interrupt(line)
      BY <1>11
    <2>2. evq' = CheckQueue(evq, status, count, mi'.intr \cap mi.mask # {})
      BY <2>1 DEF signal_rcp_interrupt, r4300_check_interrupt
    <2>3. evq' = evq
      BY <1>0, <2>2, PolledCheck
    <2>. QED  BY <2>1, <2>3, QuietTime DEF signal_rcp_interrupt
  <1>12. CASE MTC0_Compare \/ MTC0_Count \/ Translate \/ GuestException
    BY <1>12 DEF MTC0_Compare, MTC0_Count, Translate, GuestException, PollingGuest, TimeInv
  <1>. QED  BY <1>1, <1>2, <1>3, <1>4, <1>5, <1>6, <1>7, <1>8, <1>9, <1>10, <1>11, <1>12
            DEF CpuLoop

-----------------------------------------------------------------------------
(* What follows from the times *)

\* A VI_INT that waits is less than a frame late and at most a frame ahead.
LEMMA OnTime ==
    ASSUME NEW b \in Nat, PollingGuest(b), IInv, TimeInv(b)
    PROVE  FrameOnTime
  <1>. SUFFICES ASSUME pc = "run", NEW i \in DOMAIN evq.q, evq.q[i].type = VI_INT
                PROVE  \/ Sub(count, evq.q[i].count) < ViDelay
                       \/ Sub(evq.q[i].count, count) <= ViDelay
    BY DEF FrameOnTime
  <1>. DEFINE L == BlockLength(b)
  <1>1. /\ Ready(L, evq, count, Spent(b, budget), next_vi) /\ Margins(L) /\ L \in Nat
        /\ count \in Counts /\ Spent(b, budget) \in 0 .. L
    BY RunReady
  <1>. HIDE DEF L
  <1>2. PICK A : Timed(L, evq, A, count, Spent(b, budget))
    BY <1>1 DEF Ready
  <1>3. i \in 1 .. Len(evq.q) /\ evq.q[i] \in Events
    BY <1>2 DEF Timed, Queues
  <1>4. A[i] \in Nat /\ count \in Nat /\ count <= A[i] + PoolCapacity * L
    BY <1>1, <1>2, <1>3, NotLate
  <1>5. Node(evq.q[i], A[i], count, evq.special_done)
    BY <1>2, <1>3 DEF Timed
  <1>6. PICK n \in Counts : n = evq.q[i].count
    BY <1>3 DEF Events
  <1>7. PICK a \in Nat : a = A[i] /\ a \in {n, n + CountMod} /\ a <= count + ViDelay
    BY <1>4, <1>5, <1>6 DEF Node
  <1>8. /\ Half \in Nat /\ CountMod = 2 * Half /\ CountMod \in Nat /\ PoolCapacity * L \in Nat
        /\ PoolCapacity * L < ViDelay /\ ViDelay < Half /\ ViDelay \in Nat
    BY <1>1, Quantities, ConstantsAssumption DEF Margins, Counts
  <1>9. PICK m \in Nat : m = PoolCapacity * L
    BY <1>8
  <1>10. PICK c \in Nat : c = count
    BY <1>4
  <1>11. c <= a + m /\ m < ViDelay /\ n \in Nat /\ n < CountMod
    BY <1>4, <1>6, <1>7, <1>8, <1>9, <1>10 DEF Counts
  <1>12. Sub(c, n) < ViDelay \/ Sub(n, c) <= ViDelay
    BY <1>7, <1>8, <1>10, <1>11 DEF Sub
  <1>. QED  BY <1>6, <1>10, <1>12

\* Count and the first event when gen_interrupt dispatches a device's event.
LEMMA DueFirst ==
    ASSUME NEW b \in Nat, PollingGuest(b), IInv, TimeInv(b), Dispatching,
           evq.q[1].type # SPECIAL_INT,
           NEW A, Timed(BlockLength(b), evq, A, count, BlockLength(b))
    PROVE  /\ count \in Nat /\ 1 \in 1 .. Len(evq.q) /\ evq.q[1].count \in Nat
           /\ A[1] = evq.q[1].count /\ evq.q[1].count <= count
           /\ Sub(count, evq.q[1].count) = count - evq.q[1].count
           /\ count - evq.q[1].count < Sixteenth
  <1>. DEFINE L == BlockLength(b)
  <1>1. pc \in GenPcs
    BY DEF Dispatching
  <1>2. /\ Ready(L, evq, count, L, next_vi) /\ Margins(L) /\ L \in Nat
        /\ count \in Counts /\ evq.next_interrupt <= count /\ L \in 0 .. L
    BY <1>1, GenReady
  <1>. HIDE DEF L
  <1>3. Timed(L, evq, A, count, L)
    BY DEF L
  <1>4. 1 \in 1 .. Len(evq.q) /\ A[1] \in Nat /\ A[1] = evq.q[1].count
    BY <1>2, <1>3, HeadTime DEF Ready
  <1>5. evq.q # << >>
    BY <1>3, <1>4 DEF Timed, Queues
  <1>6. evq.q[1].count <= count
    BY <1>2, <1>5 DEF Ready, First
  <1>7. count \in Nat /\ count < A[1] + Sixteenth /\ Sixteenth \in Nat
    BY <1>2, <1>3, <1>4, NotLate, Quantities
  <1>. QED  BY <1>4, <1>6, <1>7 DEF Sub

\* The first event is due when gen_interrupt runs, and no due event is due longer.
LEMMA DispatchInOrder ==
    ASSUME NEW b \in Nat, PollingGuest(b), IInv, TimeInv(b)
    PROVE  NotEarly /\ InOrder
  <1>. SUFFICES ASSUME Dispatching, evq.q[1].type # SPECIAL_INT
                PROVE  /\ Sub(count, evq.q[1].count) < Half
                       /\ \A i \in DOMAIN evq.q :
                             evq.q[i].type # SPECIAL_INT
                             /\ Sub(count, evq.q[i].count) < Sixteenth =>
                               Sub(count, evq.q[i].count) <= Sub(count, evq.q[1].count)
    BY NotDevices DEF NotEarly, InOrder
  <1>. DEFINE L == BlockLength(b)
  <1>1. pc \in GenPcs
    BY DEF Dispatching
  <1>2. Ready(L, evq, count, L, next_vi) /\ Margins(L) /\ L \in Nat /\ count \in Counts
    BY <1>1, GenReady
  <1>3. PICK A : Timed(L, evq, A, count, L)
    BY <1>2 DEF Ready
  <1>4. /\ count \in Nat /\ 1 \in 1 .. Len(evq.q) /\ evq.q[1].count \in Nat
        /\ A[1] = evq.q[1].count /\ evq.q[1].count <= count
        /\ Sub(count, evq.q[1].count) = count - evq.q[1].count
        /\ count - evq.q[1].count < Sixteenth
    BY <1>3, DueFirst
  <1>. HIDE DEF L
  <1>5. /\ Half \in Nat /\ CountMod = 2 * Half /\ CountMod \in Nat /\ Sixteenth \in Nat
        /\ 8 * Sixteenth <= Half
    BY <1>2, Quantities
  <1>6. ASSUME NEW i \in DOMAIN evq.q, evq.q[i].type # SPECIAL_INT,
               Sub(count, evq.q[i].count) < Sixteenth
        PROVE  Sub(count, evq.q[i].count) <= Sub(count, evq.q[1].count)
    <2>1. i \in 1 .. Len(evq.q) /\ evq.q[i] \in Events
      BY <1>3 DEF Timed, Queues
    <2>2. Node(evq.q[i], A[i], count, evq.special_done) /\ A[i] \in Nat
      BY <1>3, <2>1 DEF Timed
    <2>3. A[1] <= A[i]
      BY <1>3, <2>1, FirstLeast
    <2>4. PICK n \in Counts : n = evq.q[i].count
      BY <2>1 DEF Events
    <2>5. PICK c \in Nat : c = count
      BY <1>4
    <2>6. PICK f \in Nat : f = evq.q[1].count
      BY <1>4
    <2>7. PICK a \in Nat : a = A[i]
      BY <2>2
    <2>8. n \in Nat /\ n < CountMod /\ f <= a /\ f <= c /\ Sub(c, f) = c - f /\ c - f < Sixteenth
      BY <1>4, <1>5, <2>3, <2>4, <2>5, <2>6, <2>7 DEF Counts
    <2>9. Sub(c, n) < Sixteenth
      BY <1>6, <2>4, <2>5
    <2>10. a \in {n, n + CountMod} /\ a < c + Half
      BY <1>6, <2>2, <2>4, <2>5, <2>7 DEF Node
    <2>11. Sub(c, n) <= Sub(c, f)
      BY <1>5, <2>8, <2>9, <2>10 DEF Sub
    <2>. QED  BY <2>4, <2>5, <2>6, <2>11
  <1>7. Sub(count, evq.q[1].count) < Half
    BY <1>4, <1>5
  <1>. QED  BY <1>6, <1>7

\* The image that new_vi saves is of a list without VI_INT, and SPECIAL_INT waits in it
\* for the next wrap.
LEMMA ReloadInOrder ==
    ASSUME NEW b \in Nat, PollingGuest(b), IInv, TimeInv(b), NotAtZero
    PROVE  ReloadKeepsOrder
  <1>. SUFFICES ASSUME NEW d \in BOOLEAN, Dispatching, evq.q[1].type = VI_INT
                PROVE  load_eventqueue_infos([Removed EXCEPT !.special_done = d], count,
                                             save_eventqueue_infos(Removed)).q = Removed.q
    BY DEF ReloadKeepsOrder
  <1>. DEFINE L == BlockLength(b)
  <1>1. pc \in GenPcs /\ evq.q[1].type # SPECIAL_INT
    BY DEF Dispatching, VI_INT, SPECIAL_INT
  <1>2. /\ Ready(L, Removed, count, 0, next_vi)
        /\ Removed.special_done \/ count > Half
        /\ Removed.special_done = evq.special_done
    BY <1>1, RemovedReady
  <1>3. L \in Nat /\ Margins(L) /\ count \in Counts /\ 0 \in 0 .. L
    BY <1>1, GenReady
  <1>4. ~(count = 0 /\ Removed.special_done)
    BY <1>2 DEF NotAtZero
  <1>. DEFINE r == load_eventqueue_infos([Removed EXCEPT !.special_done = d], count,
                                         save_eventqueue_infos(Removed))
  <1>. HIDE DEF L, r
  <1>5. r.q = Removed.q
    BY <1>2, <1>3, <1>4, ReadyLoad DEF r
  <1>. QED  BY <1>5 DEF r

\* Every step keeps the order.
LEMMA TimeStep ==
    ASSUME NEW b \in Nat, PollingGuest(b)
    PROVE  /\ IInv /\ IInv' /\ TimeInv(b) /\ NotAtZero /\ NotAtZero' /\ [NextLoads]_vars
           => TimeInv(b)'
  <1>. SUFFICES ASSUME IInv, IInv', TimeInv(b), NotAtZero, NotAtZero', [NextLoads]_vars
                PROVE  TimeInv(b)'
    OBVIOUS
  <1>1. CASE GenInterrupt
    BY <1>1, GenInterruptTime
  <1>2. CASE CpuLoop
    BY <1>2, CpuLoopTime
  <1>3. CASE ViLoad
    BY <1>3, ViLoadTime
  <1>4. CASE UNCHANGED vars
    BY <1>4 DEF vars, TimeInv, Slack
  <1>. QED  BY <1>1, <1>2, <1>3, <1>4 DEF NextLoads, Next

\* The queue of a polling guest is always in order.
LEMMA TimeInvariance ==
    ASSUME NEW CONSTANT b \in Nat, PollingGuest(b)
    PROVE  SpecLoads /\ []NotAtZero => [](IInv /\ TimeInv(b))
  <1>1. Init => TimeInv(b)
    BY InitTime
  <1>2. /\ IInv /\ IInv' /\ TimeInv(b) /\ NotAtZero /\ NotAtZero' /\ [NextLoads]_vars
        => TimeInv(b)'
    BY TimeStep
  <1>. QED  BY <1>1, <1>2, LoadsInvariance, PTL DEF SpecLoads

\* For a polling guest a retro_run lasts about one frame of guest time, however the wraps
\* of Count, the other devices, hard resets and the loading of savestates fall between.
THEOREM PollingFrameOnTime ==
    ASSUME NEW CONSTANT b \in Nat, PollingGuest(b)
    PROVE  SpecLoads /\ []NotAtZero => []FrameOnTime
  <1>1. IInv /\ TimeInv(b) => FrameOnTime
    BY OnTime
  <1>. QED  BY <1>1, TimeInvariance, PTL

\* For a polling guest gen_interrupt never calls a handler early.
THEOREM PollingNotEarly ==
    ASSUME NEW CONSTANT b \in Nat, PollingGuest(b)
    PROVE  SpecLoads /\ []NotAtZero => []NotEarly
  <1>1. IInv /\ TimeInv(b) => NotEarly
    BY DispatchInOrder
  <1>. QED  BY <1>1, TimeInvariance, PTL

\* For a polling guest gen_interrupt takes the events in the order they are due.
THEOREM PollingInOrder ==
    ASSUME NEW CONSTANT b \in Nat, PollingGuest(b)
    PROVE  SpecLoads /\ []NotAtZero => []InOrder
  <1>1. IInv /\ TimeInv(b) => InOrder
    BY DispatchInOrder
  <1>. QED  BY <1>1, TimeInvariance, PTL

\* load_eventqueue_infos brings back a polling guest's queue as it was saved, whatever
\* special_done is by then.
THEOREM PollingReload ==
    ASSUME NEW CONSTANT b \in Nat, PollingGuest(b)
    PROVE  SpecLoads /\ []NotAtZero => []ReloadKeepsOrder
  <1>1. IInv /\ TimeInv(b) /\ NotAtZero => ReloadKeepsOrder
    BY ReloadInOrder
  <1>. QED  BY <1>1, TimeInvariance, PTL
=============================================================================
