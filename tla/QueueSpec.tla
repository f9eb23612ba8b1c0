----------------------------- MODULE QueueSpec -----------------------------
(***************************************************************************)
(* What the event queue promises its users: EventQueue's operators applied *)
(* one at a time, in any order, while Count runs.  EventPool implements    *)
(* it with linked nodes out of a fixed pool.                               *)
(***************************************************************************)
EXTENDS EventQueue

CONSTANTS
    Types,      \* the types of the events that are added
    Delays,     \* how long before an event they are added
    Advances,   \* by how much Count may advance at once
    Rebases     \* values the guest writes to Count

VARIABLES evq, count

vars == <<evq, count>>

Init ==
    /\ count = 0
    /\ evq = init_interrupt([q |-> << >>, next_interrupt |-> 0,
                             special_done |-> FALSE, failed |-> FALSE], 0)

Add(t, d) ==
    evq' = add_interrupt_event(evq, count, t, d) /\ UNCHANGED count

Pop ==
    evq.q # << >> /\ evq' = remove_interrupt_event(evq, count) /\ UNCHANGED count

Drop(t) ==
    evq' = remove_event(evq, t) /\ UNCHANGED count

Check ==
    evq' = PushCheck(evq, count) /\ UNCHANGED count

\* MTC0 Count with Compare at a distance of d.
Rebase(base, d) ==
    /\ evq' = translate_event_queue(evq, count, Plus(count, d), base)
    /\ count' = base

Reset ==
    evq' = init_interrupt(evq, count) /\ UNCHANGED count

Reload ==
    /\ evq' = load_eventqueue_infos(evq, count, save_eventqueue_infos(evq))
    /\ UNCHANGED count

Advance(a) ==
    count' = Plus(count, a) /\ UNCHANGED evq

Next ==
    \/ \E t \in Types, d \in Delays : Add(t, d)
    \/ \E t \in Types \cup {SPECIAL_INT} : Drop(t)
    \/ \E b \in Rebases, d \in Delays : Rebase(b, d)
    \/ \E a \in Advances : Advance(a)
    \/ Pop \/ Check \/ Reset \/ Reload

Spec == Init /\ [][Next]_vars
=============================================================================
