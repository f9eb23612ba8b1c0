----------------------------- MODULE Savestates -----------------------------
(***************************************************************************)
(* Savestates of the machine of RspRdp, taken and loaded by the libretro   *)
(* front end.  The emulator is a coroutine: it hands over to the front end *)
(* inside vi_vertical_interrupt_event (new_vi, retro_return), and          *)
(* retro_serialize and retro_unserialize run while it waits there, with    *)
(* VI_INT out of the queue and C frames of gen_interrupt, and of whatever  *)
(* called it, on its stack.  Those frames go on after a load as before.    *)
(*                                                                         *)
(* The image holds the registers, the memories and the queue.  It does not *)
(* hold rsp_task_locked, interrupt_unsafe_state or the video plugin's      *)
(* state; loading clears the first two.                                    *)
(***************************************************************************)
EXTENDS RspRdp

CONSTANT
    Counts    \* names for the values the guest writes to Count with MTC0

ASSUME SavestatesAssumption == Counts \subseteq STRING \ {"loop", "boot"}

VARIABLES
    side,     \* who runs: the "core", or the "frontend" while the core waits
    caller,   \* what called gen_interrupt: "loop", or the operand of MTC0 Count
    base,     \* the value last written to Count
    armed,    \* the guest has set up the VI since power-on
    vi,       \* queued VI_INT nodes
    slot,     \* the savestate
    loaded    \* history: what the load before the next resumption was like

saveVars == <<side, caller, base, armed, vi, slot, loaded>>
allVars == <<vars, saveVars>>

NoSlot == [none |-> TRUE]

InitSave ==
    /\ Init
    /\ side = "core" /\ caller = "loop" /\ base = "boot" /\ armed = FALSE /\ vi = 0
    /\ slot = NoSlot /\ loaded = "no"

\* interrupt_unsafe_state: INTR_UNSAFE_RSP, or INTR_UNSAFE_R4300 inside MTC0.
Unsafe == unsafe \/ caller # "loop"

\* Everything the guest can tell once the core has gone on.
Machine(cnt) == <<status, task, rsp_task_locked, unsafe, lines, events, freeze,
                  do_on_unfreeze, infloop, armed, vi + 1, cnt>>
Resumed == Machine(IF caller = "loop" THEN base ELSE caller)
-----------------------------------------------------------------------------
(* The core runs *)

\* A step of RspRdp other than the vertical interrupt and the resets.
CoreStep ==
    /\ side = "core"
    /\ Guest \/ rsp_interrupt_event \/ rdp_interrupt_event
    /\ UNCHANGED saveVars

\* The guest arms the VI when no VI_INT is queued (VI_V_INTR_REG).
ArmVi ==
    /\ side = "core" /\ vi = 0
    /\ vi' = 1 /\ armed' = TRUE
    /\ UNCHANGED <<vars, side, caller, base, slot, loaded>>

\* gen_interrupt takes VI_INT, called from the loop or from MTC0 Count: the picture
\* is updated or put off, and new_vi hands over.
ViEnter(c) ==
    /\ side = "core" /\ vi > 0
    /\ vi' = vi - 1
    /\ UpdateScreen
    /\ side' = "frontend" /\ caller' = c
    /\ UNCHANGED <<base, armed, slot, loaded>>

\* MTC0 Count when nothing is due.
MTC0_Count(v) ==
    /\ side = "core"
    /\ base' = v
    /\ UNCHANGED <<vars, side, caller, armed, vi, slot, loaded>>

\* Mutant: the handler does not queue the next VI_INT.
Resume_once ==
    /\ side = "frontend"
    /\ side' = "core" /\ caller' = "loop"
    /\ base' = IF caller = "loop" THEN base ELSE caller
    /\ loaded' = "no"
    /\ UNCHANGED <<vars, armed, vi, slot>>

\* retro_run: vi_vertical_interrupt_event goes on and queues the next VI_INT, and
\* MTC0 Count, if that is where the core was, completes.
Resume ==
    /\ side = "frontend"
    /\ side' = "core" /\ caller' = "loop"
    /\ vi' = vi + 1
    /\ base' = IF caller = "loop" THEN base ELSE caller
    /\ loaded' = "no"
    /\ UNCHANGED <<vars, armed, slot>>

\* The NMI queues VI_INT itself.
Nmi ==
    /\ side = "core"
    /\ nmi_int_handler
    /\ vi' = 1 /\ base' = "boot"
    /\ UNCHANGED <<side, caller, armed, slot, loaded>>

HardReset ==
    /\ side = "core"
    /\ reset_hard_handler
    /\ vi' = 0 /\ armed' = FALSE /\ base' = "boot"
    /\ UNCHANGED <<side, caller, slot, loaded>>
-----------------------------------------------------------------------------
(* The front end runs *)

\* A hard reset asked for through the core's API (retro_reset itself is soft).
HostHardReset ==
    /\ side = "frontend"
    /\ RequestHardReset
    /\ UNCHANGED saveVars

\* savestates_save_m64p: the image, with what is lost and the state it stands for.
retro_serialize ==
    /\ side = "frontend"
    /\ slot' = [none |-> FALSE, status |-> status, task |-> task, lines |-> lines,
                events |-> events, vi |-> vi, armed |-> armed, base |-> base,
                freeze |-> freeze, do_on_unfreeze |-> do_on_unfreeze,
                owed |-> owed, quiet |-> quiet,
                safe |-> ~Unsafe /\ ~orphan, resumed |-> Resumed]
    /\ UNCHANGED <<vars, side, caller, base, armed, vi, loaded>>

\* Mutant: what was put off is not restored.
retro_unserialize_deferred ==
    /\ side = "frontend" /\ ~slot.none
    /\ status' = slot.status /\ task' = slot.task /\ lines' = slot.lines
    /\ events' = slot.events /\ vi' = slot.vi /\ armed' = slot.armed /\ base' = slot.base
    /\ freeze' = slot.freeze /\ do_on_unfreeze' = {}
    /\ Lock(FALSE)
    /\ owed' = slot.owed /\ quiet' = slot.quiet /\ orphan' = infloop
    /\ loaded' = IF Unsafe THEN "unsafe" ELSE "safe"
    /\ UNCHANGED <<infloop, reset_hard_job, side, caller, slot>>

\* savestates_load_m64p.  The caller's frames, the plugin and a pending hard reset
\* stay as they are.
retro_unserialize ==
    /\ side = "frontend" /\ ~slot.none
    /\ status' = slot.status /\ task' = slot.task /\ lines' = slot.lines
    /\ events' = slot.events /\ vi' = slot.vi /\ armed' = slot.armed /\ base' = slot.base
    /\ freeze' = slot.freeze /\ do_on_unfreeze' = slot.do_on_unfreeze
    /\ Lock(FALSE)
    /\ owed' = slot.owed /\ quiet' = slot.quiet /\ orphan' = infloop
    /\ loaded' = IF Unsafe THEN "unsafe" ELSE "safe"
    /\ UNCHANGED <<infloop, reset_hard_job, side, caller, slot>>

NextSave ==
    \/ CoreStep \/ ArmVi \/ Nmi \/ HardReset
    \/ \E c \in {"loop"} \cup Counts : ViEnter(c)
    \/ \E v \in Counts : MTC0_Count(v)
    \/ Resume \/ HostHardReset \/ retro_serialize \/ retro_unserialize

SpecSave == InitSave /\ [][NextSave]_allVars
-----------------------------------------------------------------------------
(* Properties *)

\* The core runs with exactly one VI_INT once the VI is armed, and waits with none:
\* saving and loading while VI_INT is out of the queue neither loses a frame nor
\* doubles one.
FrameOnce ==
    /\ side = "core" /\ armed => vi = 1
    /\ side = "frontend" => vi = 0

\* When interrupt_unsafe_state is 0 both at the save and at the load, the machine
\* goes on from the load as it would have gone on from the save, although the lock
\* and the plugin's state are not in the image.  (A display list that a soft reset
\* or an earlier load cut off in the plugin is the exception.)
LoadExact ==
    loaded = "safe" /\ slot.safe /\ ~orphan => Resumed = slot.resumed

\* What was held back at the save is on its way again after a load.
OwedSaved == OwedPending /\ DeferredFrozen
=============================================================================
