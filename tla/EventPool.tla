----------------------------- MODULE EventPool -----------------------------
(***************************************************************************)
(* The event queue as interrupt.c stores it: nodes linked through next,    *)
(* and a stack of the nodes that are free.  It is shown to implement       *)
(* QueueSpec, whose operators the other modules use.                       *)
(*                                                                         *)
(* cp0 is the part of struct cp0 the queue code works on:                  *)
(*   nodes   the nodes of struct pool                                      *)
(*   free    its stack from index on, top first: index is                  *)
(*           PoolCapacity - Len(free)                                      *)
(*   first   the first node of the list, or NULL                           *)
(*   next_interrupt, special_done, failed   as in EventQueue               *)
(* Whoever takes a node writes all three fields of it, so that what a free *)
(* node last held is not kept (Blank).                                     *)
(***************************************************************************)
EXTENDS Naturals, Sequences, FiniteSets, Functions

CONSTANTS CountMod, PoolCapacity, Types, Delays, Advances, Rebases

ASSUME EventPoolAssumption ==
    /\ CountMod \in Nat /\ CountMod >= 16
    /\ PoolCapacity \in Nat /\ PoolCapacity >= 2
    /\ Delays \cup Advances \cup Rebases \subseteq 0 .. CountMod - 1

VARIABLES cp0, count

vars == <<cp0, count>>

NULL == 0
Nodes == 1 .. PoolCapacity
Blank == [type |-> "free", count |-> 0, next |-> NULL]

\* The list from first on as a sequence of events.
Linked(m) ==
    LET from[e \in Nodes \cup {NULL}] ==
            IF e = NULL THEN << >>
            ELSE <<[type |-> m.nodes[e].type, count |-> m.nodes[e].count]>>
                    \o from[m.nodes[e].next]
    IN  from[m.first]

\* The abstract queue this state stands for.
Q == INSTANCE QueueSpec WITH
        evq <- [q |-> Linked(cp0), next_interrupt |-> cp0.next_interrupt,
                special_done |-> cp0.special_done, failed |-> cp0.failed]
-----------------------------------------------------------------------------
(* The pool *)

\* alloc_node when a node is left: the node, and the pool without it once the
\* caller has written the event into the node.
FreeNode(m) == Head(m.free)
alloc_node(m, type, evt) ==
    [m EXCEPT !.free = Tail(@),
              !.nodes[FreeNode(m)] = [type |-> type, count |-> evt, next |-> NULL]]

free_node(m, node) ==
    IF Len(m.free) = PoolCapacity \/ node = NULL THEN m
    ELSE [m EXCEPT !.free = <<node>> \o @, !.nodes[node] = Blank]

\* clear_queue with clear_pool.
clear_queue(m) ==
    [m EXCEPT !.first = NULL, !.free = [i \in Nodes |-> i], !.nodes = [e \in Nodes |-> Blank]]
-----------------------------------------------------------------------------
(* The list *)

\* Where the loop  for (e = start; e->next != NULL && e->next in passed; e = e->next);
\* stops.
StopAt(m, start, passed) ==
    LET stop[e \in Nodes] ==
            IF m.nodes[e].next \in passed THEN stop[m.nodes[e].next] ELSE e
    IN  stop[start]

\* The node x is linked in front of the list, or behind the node e.
LinkFirst(m, x) ==
    [m EXCEPT !.nodes[x].next = m.first, !.first = x, !.next_interrupt = m.nodes[x].count]
LinkBehind(m, x, e) ==
    [m EXCEPT !.nodes[x].next = m.nodes[e].next, !.nodes[e].next = x]

\* The nodes a new event at evt precedes.
Preceded(m, done, type, evt) ==
    {x \in Nodes :
        /\ type # Q!SPECIAL_INT
        /\ Q!before_event(count, done, evt, m.nodes[x].count, m.nodes[x].type)}

add_interrupt_event_count(m, type, evt) ==
    LET done == m.special_done /\ count <= Q!Half
        m1 == alloc_node([m EXCEPT !.special_done = done], type, evt)
        e1 == StopAt(m1, m.first, Nodes \ Preceded(m, done, type, evt))
        e == IF type = Q!SPECIAL_INT THEN e1
             ELSE StopAt(m1, e1, {x \in Nodes : m1.nodes[x].count = evt})
    IN  IF m.free = << >>
        THEN [m EXCEPT !.special_done = done, !.failed = TRUE]
        ELSE IF m.first = NULL \/ m.first \in Preceded(m, done, type, evt)
        THEN LinkFirst(m1, FreeNode(m))
        ELSE LinkBehind(m1, FreeNode(m), e)

\* Mutant: the node is unlinked and not freed.
remove_interrupt_event_leaks(m) ==
    LET m1 == [m EXCEPT !.first = m.nodes[m.first].next]
        c == m1.nodes[m1.first].count
    IN  [m1 EXCEPT !.next_interrupt =
            IF m1.first # NULL /\ (c > count \/ Q!Sub(count, c) < Q!Half) THEN c ELSE 0]

remove_interrupt_event(m) ==
    LET m1 == free_node([m EXCEPT !.first = m.nodes[m.first].next], m.first)
        c == m1.nodes[m1.first].count
    IN  [m1 EXCEPT !.next_interrupt =
            IF m1.first # NULL /\ (c > count \/ Q!Sub(count, c) < Q!Half) THEN c ELSE 0]

\* Mutant: the node behind the list's first is dropped and not freed.
remove_event_leaks(m, type) ==
    IF m.first = NULL THEN m
    ELSE IF m.nodes[m.first].type = type
    THEN free_node([m EXCEPT !.first = m.nodes[m.first].next], m.first)
    ELSE LET e == StopAt(m, m.first, {x \in Nodes : m.nodes[x].type # type})
             to_del == m.nodes[e].next
         IN  IF to_del = NULL THEN m
             ELSE [m EXCEPT !.nodes[e].next = m.nodes[to_del].next]

remove_event(m, type) ==
    IF m.first = NULL THEN m
    ELSE IF m.nodes[m.first].type = type
    THEN free_node([m EXCEPT !.first = m.nodes[m.first].next], m.first)
    ELSE LET e == StopAt(m, m.first, {x \in Nodes : m.nodes[x].type # type})
             to_del == m.nodes[e].next
         IN  IF to_del = NULL THEN m
             ELSE free_node([m EXCEPT !.nodes[e].next = m.nodes[to_del].next], to_del)

\* The nodes of the list.
ListNodes(m) ==
    LET from[e \in Nodes \cup {NULL}] ==
            IF e = NULL THEN {} ELSE {e} \cup from[m.nodes[e].next]
    IN  from[m.first]

translate_event_queue(m, compare, base) ==
    LET m1 == remove_event(remove_event(m, Q!COMPARE_INT), Q!SPECIAL_INT)
        live == ListNodes(m1)
        m2 == [m1 EXCEPT !.nodes = [e \in Nodes |->
                 IF e \in live
                 THEN [m1.nodes[e] EXCEPT !.count = Q!Plus(Q!Sub(@, count), base)]
                 ELSE m1.nodes[e]]]
    IN  add_interrupt_event_count(add_interrupt_event_count(m2, Q!COMPARE_INT, compare),
                                  Q!SPECIAL_INT, 0)

init_interrupt(m) ==
    add_interrupt_event_count([clear_queue(m) EXCEPT !.special_done = TRUE],
                              Q!SPECIAL_INT, 0)

\* r4300_check_interrupt takes a node and links it in front of the list.
PushCheck(m) ==
    IF m.free = << >> THEN [m EXCEPT !.failed = TRUE]
    ELSE LinkFirst(alloc_node(m, Q!CHECK_INT, count), FreeNode(m))

\* load_eventqueue_infos: add the events of image after clear_queue.
load_eventqueue_infos(m, image) ==
    LET upTo[i \in 0 .. Len(image)] ==
            IF i = 0 THEN clear_queue(m)
            ELSE add_interrupt_event_count(upTo[i - 1], image[i].type, image[i].count)
    IN  upTo[Len(image)]
-----------------------------------------------------------------------------
Poweron ==
    [nodes |-> [e \in Nodes |-> Blank], free |-> << >>, first |-> NULL,
     next_interrupt |-> 0, special_done |-> FALSE, failed |-> FALSE]

Init == count = 0 /\ cp0 = init_interrupt(Poweron)

Queue ==
    /\ UNCHANGED count
    /\ \/ \E t \in Types, d \in Delays :
            cp0' = add_interrupt_event_count(cp0, t, Q!Plus(count, d))
       \/ \E t \in Types \cup {Q!SPECIAL_INT} : cp0' = remove_event(cp0, t)
       \/ cp0.first # NULL /\ cp0' = remove_interrupt_event(cp0)
       \/ cp0' = PushCheck(cp0)
       \/ cp0' = init_interrupt(cp0)
       \/ cp0' = load_eventqueue_infos(cp0, Linked(cp0))

Next ==
    \/ Queue
    \/ \E b \in Rebases, d \in Delays :
         cp0' = translate_event_queue(cp0, Q!Plus(count, d), b) /\ count' = b
    \/ \E a \in Advances : count' = Q!Plus(count, a) /\ UNCHANGED cp0

Spec == Init /\ [][Next]_vars
-----------------------------------------------------------------------------
(* Properties *)

\* Every step on the linked nodes is the step of the sequence the other modules
\* reason about: no event is lost, doubled or reordered by the links, and an
\* event is refused exactly when PoolCapacity events are queued, not earlier.
ImplementsQueue == Q!Spec

\* A node is in the list or free, never both and never twice: whatever mixture of
\* removals, clears and reloads came before, no node leaks and none is handed
\* out while it is linked.
NodesAccountedFor ==
    /\ Range(cp0.free) \cap ListNodes(cp0) = {}
    /\ Range(cp0.free) \cup ListNodes(cp0) = Nodes
    /\ Cardinality(Range(cp0.free)) = Len(cp0.free)
=============================================================================
