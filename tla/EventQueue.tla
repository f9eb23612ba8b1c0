---------------------------- MODULE EventQueue ----------------------------
(***************************************************************************)
(* The interrupt event queue of the R4300 core, device/r4300/interrupt.c:  *)
(* a list of (type, count) nodes ordered by the Count register value at    *)
(* which each event is due, taken from a fixed pool of nodes.              *)
(*                                                                         *)
(* The part of struct cp0 the queue code works on is a record              *)
(*   q              the list, first node first                             *)
(*   next_interrupt the Count value at which the CPU loop calls            *)
(*                  gen_interrupt                                          *)
(*   special_done   TRUE when SPECIAL_INT has run since Count wrapped      *)
(*   failed         TRUE once alloc_node has returned NULL: the code logs  *)
(*                  an error and drops the event                           *)
(* and every operation is an operator from such a record, and the Count    *)
(* register, to the next record.  The number of nodes in use (pool.index)  *)
(* is Len(q).                                                              *)
(***************************************************************************)
EXTENDS Integers, Sequences, SequencesExt

CONSTANTS
    CountMod,      \* 2^32 in the code: the range of the Count register
    PoolCapacity   \* INTERRUPT_NODES_POOL_CAPACITY, 16 in the code

ASSUME CountModAssumption == CountMod \in Nat /\ CountMod >= 16
ASSUME PoolCapacityAssumption == PoolCapacity \in Nat /\ PoolCapacity >= 2

-----------------------------------------------------------------------------
VI_INT      == "VI_INT"
COMPARE_INT == "COMPARE_INT"
CHECK_INT   == "CHECK_INT"
SI_INT      == "SI_INT"
PI_INT      == "PI_INT"
SPECIAL_INT == "SPECIAL_INT"
AI_INT      == "AI_INT"
SP_INT      == "SP_INT"
DP_INT      == "DP_INT"
HW2_INT     == "HW2_INT"
NMI_INT     == "NMI_INT"

\* The events of the RCP's devices, each with its line in MI_INTR_REG.
RcpEvents == {VI_INT, SI_INT, PI_INT, AI_INT, SP_INT, DP_INT}

EventTypes ==
    RcpEvents \cup {COMPARE_INT, CHECK_INT, SPECIAL_INT, HW2_INT, NMI_INT}

Counts == 0 .. CountMod - 1

Half      == CountMod \div 2    \* 0x80000000
Sixteenth == CountMod \div 16   \* 0x10000000

\* Mutant: counts that do not wrap.
PlusNoWrap(a, b) == a + b

\* a - b and a + b on unsigned ints, for a, b \in Counts.
Sub(a, b) == IF a >= b THEN a - b ELSE a - b + CountMod
Plus(a, b) == IF a + b < CountMod THEN a + b ELSE a + b - CountMod

Events == [type : EventTypes, count : Counts]

Queues == [q : Seq(Events), next_interrupt : Counts,
           special_done : BOOLEAN, failed : BOOLEAN]

\* Is an event of type t in the list q?  At most one?  All of them at count c?
Has(q, t) == \E i \in DOMAIN q : q[i].type = t

AtMostOne(q, t) ==
    \A i, j \in DOMAIN q : q[i].type = t /\ q[j].type = t => i = j

AllAt(q, t, c) == \A i \in DOMAIN q : q[i].type = t => q[i].count = c

-----------------------------------------------------------------------------
\* Mutant: a new event overtakes every event that is already due.
before_event_overtake(count, special_done, evt1, evt2, type2) ==
    /\ Sub(evt1, count) < Half
    /\ Sub(evt2, count) < Half => Sub(evt1, count) < Sub(evt2, count)

\* Mutant: SPECIAL_INT keeps its place also after it has run.
before_event_special(count, special_done, evt1, evt2, type2) ==
    /\ Sub(evt1, count) < Half
    /\ IF Sub(evt2, count) < Half
       THEN Sub(evt1, count) < Sub(evt2, count)
       ELSE Sub(count, evt2) >= Sixteenth

\* Is a new event at evt1 due before the event at evt2?  Only SPECIAL_INT, once
\* it has run, lets a later event overtake it although its count is past.
before_event(count, special_done, evt1, evt2, type2) ==
    /\ Sub(evt1, count) < Half
    /\ IF Sub(evt2, count) < Half
       THEN Sub(evt1, count) < Sub(evt2, count)
       ELSE \/ Sub(count, evt2) >= Sixteenth
            \/ type2 = SPECIAL_INT /\ special_done

\* get_event: 0 stands for "no such event" and for an event at count 0.
get_event(q, type) ==
    LET I == {i \in DOMAIN q : q[i].type = type}
    IN  IF I = {} THEN 0 ELSE q[Min(I)].count

\* The nodes the insertion loops of add_interrupt_event_count leave before the
\* new one: stop at the tail or before the first node the new event precedes,
\* then pass the nodes at the same count.
NodesBefore(q, count, special_done, type, evt) ==
    LET n == Len(q)
        stop == Min({i \in 1 .. n :
                    \/ i = n
                    \/ /\ type # SPECIAL_INT
                       /\ before_event(count, special_done, evt,
                                       q[i + 1].count, q[i + 1].type)})
    IN  IF type = SPECIAL_INT \/ stop = n THEN stop
        ELSE Min({i \in stop .. n : i = n \/ q[i + 1].count # evt})

add_interrupt_event_count(e, count, type, evt) ==
    LET done == e.special_done /\ count <= Half
        event == [type |-> type, count |-> evt]
        atFront == \/ e.q = << >>
                   \/ /\ type # SPECIAL_INT
                      /\ before_event(count, done, evt,
                                      e.q[1].count, e.q[1].type)
    IN  IF Len(e.q) >= PoolCapacity
        THEN [e EXCEPT !.special_done = done, !.failed = TRUE]
        ELSE IF atFront
        THEN [e EXCEPT !.special_done = done, !.next_interrupt = evt,
                       !.q = <<event>> \o e.q]
        ELSE [e EXCEPT !.special_done = done,
                       !.q = InsertAt(e.q, 1 + NodesBefore(e.q, count, done,
                                                           type, evt), event)]

add_interrupt_event(e, count, type, delay) ==
    add_interrupt_event_count(e, count, type, Plus(count, delay))

\* Mutant: the test for a first node still ahead of Count is dropped.
NextInterruptPast(q, count) ==
    IF q # << >> /\ Sub(count, q[1].count) < Half THEN q[1].count ELSE 0

\* When the CPU loop must call gen_interrupt for the queue q: at the count of
\* the first node, or at once (0) when that count is more than half the range
\* behind, which SPECIAL_INT at count 0 uses to wait for Count to wrap.
NextInterrupt(q, count) ==
    IF q # << >> /\ (\/ q[1].count > count
                     \/ Sub(count, q[1].count) < Half)
    THEN q[1].count ELSE 0

remove_interrupt_event(e, count) ==
    [e EXCEPT !.q = Tail(e.q),
              !.next_interrupt = NextInterrupt(Tail(e.q), count)]

\* remove_event unlinks the first node of a type; next_interrupt is left alone.
remove_event(e, type) ==
    LET I == {i \in DOMAIN e.q : e.q[i].type = type}
    IN  IF I = {} THEN e ELSE [e EXCEPT !.q = RemoveAt(e.q, Min(I))]

\* Mutant: SPECIAL_INT is queued again without having been removed.
translate_event_queue_kept(e, count, compare, base) ==
    LET e1 == remove_event(e, COMPARE_INT)
        e2 == [e1 EXCEPT !.q = [i \in DOMAIN e1.q |->
                 [e1.q[i] EXCEPT !.count = Plus(Sub(@, count), base)]]]
        e3 == add_interrupt_event_count(e2, count, COMPARE_INT, compare)
    IN  add_interrupt_event_count(e3, count, SPECIAL_INT, 0)

\* Count is about to become base: every event keeps its distance, COMPARE_INT
\* and SPECIAL_INT are queued again, still against the old Count.
translate_event_queue(e, count, compare, base) ==
    LET e1 == remove_event(remove_event(e, COMPARE_INT), SPECIAL_INT)
        e2 == [e1 EXCEPT !.q = [i \in DOMAIN e1.q |->
                 [e1.q[i] EXCEPT !.count = Plus(Sub(@, count), base)]]]
        e3 == add_interrupt_event_count(e2, count, COMPARE_INT, compare)
    IN  add_interrupt_event_count(e3, count, SPECIAL_INT, 0)

\* init_interrupt: an empty list with the first SPECIAL_INT.
init_interrupt(e, count) ==
    add_interrupt_event_count([e EXCEPT !.q = << >>, !.special_done = TRUE],
                              count, SPECIAL_INT, 0)

\* The node r4300_check_interrupt links in front of the list.
PushCheck(e, count) ==
    IF Len(e.q) >= PoolCapacity THEN [e EXCEPT !.failed = TRUE]
    ELSE [e EXCEPT !.next_interrupt = count,
                   !.q = <<[type |-> CHECK_INT, count |-> count]>> \o e.q]

\* save_eventqueue_infos: the nodes in the order of the list.
save_eventqueue_infos(e) == e.q

\* Mutant: the nodes are linked as the image has them, the last one first.
load_eventqueue_infos_reversed(e, count, image) ==
    [e EXCEPT !.q = Reverse(image), !.next_interrupt = image[Len(image)].count]

\* load_eventqueue_infos: every node is inserted anew, against the Count register
\* that was loaded just before.
load_eventqueue_infos(e, count, image) ==
    LET upTo[i \in 0 .. Len(image)] ==
            IF i = 0 THEN [e EXCEPT !.q = << >>]
            ELSE add_interrupt_event_count(upTo[i - 1], count,
                                           image[i].type, image[i].count)
    IN  upTo[Len(image)]
=============================================================================
