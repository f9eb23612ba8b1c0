---------------------------- MODULE StateReload ----------------------------
(***************************************************************************)
(* R4300Interrupts with savestates: the image of the event queue in a      *)
(* savestate, and the front end loading one while vi_vertical_interrupt_   *)
(* event waits in new_vi.                                                  *)
(*                                                                         *)
(* Loading replaces Count, Compare, Status, Cause, the MI and VI registers *)
(* and the queue by those of an earlier frame; special_done is neither in  *)
(* the image nor reset, so that it is the one of the moment of the load.   *)
(* Loading the image of an earlier frame is therefore a step from that     *)
(* frame's own state with any special_done, which is how it is modelled:   *)
(* no copy of the earlier state has to be kept.                            *)
(***************************************************************************)
EXTENDS R4300Interrupts, FiniteSets

CONSTANT Loads    \* what special_done may be, against the save, when the front
                  \* end loads a savestate: "same", "any", or it never loads: "none"

ASSUME LoadsAssumption == Loads \in {"none", "same", "any"}

\* vi_vertical_interrupt_event around retro_unserialize: VI_INT, which no image
\* holds, is queued when the handler goes on.  MTC0 is excluded (see Savestates).
ViLoad ==
    /\ Loads # "none"
    /\ Dispatch(VI_INT) /\ pc = "gen" /\ ~delay_slot
    /\ next_vi' = Plus(next_vi, ViDelay)
    /\ \E d \in IF Loads = "any" THEN BOOLEAN ELSE {evq.special_done} :
        LET e == load_eventqueue_infos([Removed EXCEPT !.special_done = d], count,
                                       save_eventqueue_infos(Removed))
        IN  raise_rcp_interrupt(
              add_interrupt_event_count(e, count, VI_INT, next_vi'), VI_INT)
    /\ UNCHANGED <<compare, delay_slot, reset_hard_job>>

NextLoads == Next \/ ViLoad

SpecLoads == Init /\ [][NextLoads]_vars
-----------------------------------------------------------------------------
(* Properties *)

\* Whatever special_done is when an image is loaded, inserting its nodes one by one
\* brings back the list that new_vi saved, without the VI_INT its handler has taken:
\* no transfer in flight overtakes another or the wrap marker across a save and a load.
ReloadKeepsOrder ==
    Dispatching /\ evq.q[1].type = VI_INT =>
        \A d \in BOOLEAN :
            load_eventqueue_infos([Removed EXCEPT !.special_done = d], count,
                                  save_eventqueue_infos(Removed)).q = Removed.q

\* The queue and the lines as the devices see them.
Devices == INSTANCE DeviceEvents WITH
    queued <- [t \in RcpEvents |-> Cardinality({i \in DOMAIN evq.q : evq.q[i].type = t})],
    lines <- mi.intr

\* Whatever faults, masks, delay slots and acknowledgements interleave with it, a
\* device's event is dispatched as often as it was started and its line moves
\* only with it: what RcpDma and RspRdp take the queue to be.
ImplementsDevices == Devices!Spec
=============================================================================
