------------------------------- MODULE RspRdp -------------------------------
(***************************************************************************)
(* The signal processor and the display processor as the R4300 sees them:  *)
(* SP_STATUS_REG and the tasks it starts (rsp_core.c), DPC_STATUS_REG with *)
(* the work put off while the RDP is frozen (rdp_core.c), the verdicts of  *)
(* the HLE and video plugins on a task, the vertical interrupt's part in   *)
(* them, and both resets.                                                  *)
(*                                                                         *)
(* A task runs inside the write that starts it.  The plugins report its    *)
(* end in SP_STATUS_REG and MI_INTR_REG at once; do_SP_Task takes both     *)
(* back and lets the SP_INT and DP_INT events bring them out later.  A     *)
(* display list that loops leaves the plugin waiting (infloop) and the     *)
(* task locked: every later write of SP_STATUS_REG runs it again.          *)
(*                                                                         *)
(* Of the events only how many are queued is kept, as in RcpDma.  The bit  *)
(* TASKDONE goes with BROKE and the signal bits have no effect here.       *)
(***************************************************************************)
EXTENDS Naturals

CONSTANTS
    Tasks,         \* the kinds of task the guest runs
    SpWrites,      \* the values the guest writes to SP_STATUS_REG
    MaxDpEvents    \* bound on the DP_INT events in the queue

\* display list, other graphics task, task HLE knows, task it does not know
TaskKinds == {"dlist", "video", "known", "unknown"}

SpBits == {"CLR_HALT", "SET_HALT", "CLR_BROKE", "CLR_INTR", "SET_INTR",
           "CLR_INTR_BREAK", "SET_INTR_BREAK"}

ASSUME RspRdpAssumption ==
    /\ Tasks \subseteq TaskKinds
    /\ SpWrites \subseteq SUBSET SpBits
    /\ MaxDpEvents \in Nat

VARIABLES
    status,          \* HALT, BROKE and INTR_BREAK of SP_STATUS_REG
    task,            \* the task whose header is in DMEM
    rsp_task_locked, \* the task has neither halted nor broken
    unsafe,          \* INTR_UNSAFE_RSP of interrupt_unsafe_state
    lines,           \* the SP and DP bits of MI_INTR_REG
    events,          \* queued SP_INT and DP_INT nodes
    freeze,          \* DPC_STATUS_FREEZE
    do_on_unfreeze,  \* DELAY_DP_INT, DELAY_UPDATESCREEN
    infloop,         \* RSP.infloop of the video plugin
    reset_hard_job,
    owed,            \* history: interrupts and screen updates held back so far
    quiet,           \* history: the last task ran without INTR_BREAK
    orphan           \* history: a soft reset or a load came while infloop was set

rcp == <<status, task, rsp_task_locked, unsafe, lines, events, freeze, do_on_unfreeze>>
vars == <<rcp, infloop, reset_hard_job, owed, quiet, orphan>>

NoEvents == [t \in {"SP", "DP"} |-> 0]
Stopped == {"HALT", "BROKE"}

\* poweron_rsp and poweron_rdp.  DMEM is all zeroes, which is no known task.
Poweron(st, tk, lk, us, ln, ev, fz, du) ==
    /\ st = {"HALT"} /\ tk = "unknown" /\ lk = FALSE /\ us = FALSE
    /\ ln = {} /\ ev = NoEvents /\ fz = FALSE /\ du = {}

Init ==
    /\ Poweron(status, task, rsp_task_locked, unsafe, lines, events, freeze, do_on_unfreeze)
    /\ infloop = FALSE /\ reset_hard_job = FALSE
    /\ owed = {} /\ quiet = FALSE /\ orphan = FALSE
-----------------------------------------------------------------------------
(* The plugins *)

\* rsp_break: the task ends.
rsp_break(st, ln) ==
    [status |-> st \cup Stopped,
     lines |-> IF "INTR_BREAK" \in st THEN ln \cup {"SP"} ELSE ln,
     infloop |-> infloop]

\* RSP_ProcessDList as send_dlist_to_gfx_plugin calls it: a list ends, or loops
\* on itself and is left to be resumed; on its way it raises DP or not.  Its first
\* return waits for ConfigOpen or a restart of the window, which this build never sets.
ProcessDList(st, ln, full_sync, loops) ==
    LET ln1 == IF full_sync THEN ln \cup {"DP"} ELSE ln
    IN  IF loops
        THEN [status |-> st \ Stopped, lines |-> ln1, infloop |-> TRUE]
        ELSE [rsp_break(st, ln1) EXCEPT !.infloop = FALSE]

\* What hle_execute may leave in the registers.  HleForwardTask reports every
\* unknown task as forwarded: nothing happens to it.
hle_execute(st, ln) ==
    CASE task = "dlist" -> {ProcessDList(st, ln, s, l) : s, l \in BOOLEAN}
      [] task \in {"video", "known"} -> {rsp_break(st, ln)}
      [] task = "unknown" -> {[status |-> st, lines |-> ln, infloop |-> infloop]}
-----------------------------------------------------------------------------
(* The RSP interface *)

\* Mutant: INTR_UNSAFE_RSP is set and not cleared when the task ends.
Lock_sticky(locked) ==
    /\ rsp_task_locked' = locked
    /\ unsafe' = (unsafe \/ locked)

\* Mutant: the locked task does not hold off resets and savestates.
Lock_open(locked) ==
    /\ rsp_task_locked' = locked
    /\ unsafe' = FALSE

\* The task lock and the bit that holds off resets.
Lock(locked) ==
    /\ rsp_task_locked' = locked
    /\ unsafe' = locked

\* do_SP_Task with the registers st and ln: only graphics tasks look at DP; SP is
\* taken back and queued, also when nothing but the lock asks for it.
do_SP_Task(st, ln) ==
    \E o \in hle_execute(st, ln) :
        LET dp == task \in {"dlist", "video"} /\ "DP" \in o.lines
            locked == o.status \cap Stopped = {}
            sp == locked \/ "SP" \in o.lines
        IN  /\ status' = o.status \ Stopped
            /\ infloop' = o.infloop
            /\ Lock(locked)
            /\ lines' = o.lines \ IF dp THEN {"SP", "DP"} ELSE {"SP"}
            /\ events' = [SP |-> events["SP"] + IF sp THEN 1 ELSE 0,
                          DP |-> events["DP"] + IF dp /\ ~freeze THEN 1 ELSE 0]
            /\ do_on_unfreeze' = do_on_unfreeze \cup
                                    IF dp /\ freeze THEN {"DELAY_DP_INT"} ELSE {}
            /\ quiet' = ("INTR_BREAK" \notin o.status)
            /\ owed' = owed \cup (IF dp THEN {"DP"} ELSE {})
                            \cup (IF "SP" \in o.lines /\ "INTR_BREAK" \in o.status
                                  THEN {"SP"} ELSE {})
            /\ orphan' = (orphan /\ o.infloop)

\* SP_STATUS_REG and the SP line after a write of w; sets follow clears.
WrittenStatus(w) ==
    (status \ UNION {IF "CLR_HALT" \in w THEN {"HALT"} ELSE {},
                     IF "CLR_BROKE" \in w THEN {"BROKE"} ELSE {},
                     IF "CLR_INTR_BREAK" \in w THEN {"INTR_BREAK"} ELSE {}})
        \cup (IF "SET_HALT" \in w THEN {"HALT"} ELSE {})
        \cup (IF "SET_INTR_BREAK" \in w THEN {"INTR_BREAK"} ELSE {})

WrittenLines(w) ==
    IF "SET_INTR" \in w THEN lines \cup {"SP"}
    ELSE IF "CLR_INTR" \in w THEN lines \ {"SP"} ELSE lines

\* Mutant: a locked task is run again although its SP_INT is still queued.
Runs_locked(w) ==
    /\ {"CLR_HALT", "CLR_BROKE"} \cap w # {} \/ rsp_task_locked
    /\ WrittenStatus(w) \cap Stopped = {}

\* Does a write of w run the task in DMEM?
Runs(w) ==
    /\ ~(rsp_task_locked /\ events["SP"] > 0)
    /\ {"CLR_HALT", "CLR_BROKE"} \cap w # {} \/ rsp_task_locked
    /\ WrittenStatus(w) \cap Stopped = {}

\* The guest starts a task only after it has seen HALT, as libultra does.
update_sp_status(w) ==
    /\ "CLR_HALT" \in w => "HALT" \in status
    /\ events["DP"] < MaxDpEvents
    /\ IF Runs(w)
       THEN do_SP_Task(WrittenStatus(w), WrittenLines(w))
       ELSE /\ status' = WrittenStatus(w) /\ lines' = WrittenLines(w)
            /\ owed' = IF "CLR_INTR_BREAK" \in w THEN owed \ {"SP"} ELSE owed
            /\ UNCHANGED <<rsp_task_locked, unsafe, events, do_on_unfreeze, infloop,
                           quiet, orphan>>
    /\ UNCHANGED <<task, freeze, reset_hard_job>>

\* The guest puts the header of its next task into DMEM while the RSP is halted.
LoadTask(t) ==
    /\ "HALT" \in status
    /\ task' = t
    /\ UNCHANGED <<status, rsp_task_locked, unsafe, lines, events, freeze, do_on_unfreeze,
                   infloop, reset_hard_job, owed, quiet, orphan>>

\* Mutant: the handler halts the RSP also under a locked task.
rsp_interrupt_event_halts ==
    /\ events["SP"] > 0
    /\ events' = [events EXCEPT !["SP"] = @ - 1]
    /\ status' = status \cup Stopped
    /\ IF "INTR_BREAK" \in status
       THEN lines' = lines \cup {"SP"} /\ owed' = owed \ {"SP"}
       ELSE UNCHANGED <<lines, owed>>
    /\ UNCHANGED <<task, rsp_task_locked, unsafe, freeze, do_on_unfreeze, infloop,
                   reset_hard_job, quiet, orphan>>

\* Mutant: the end of a task waits until the last SP interrupt is acknowledged.
rsp_interrupt_event_waits ==
    /\ events["SP"] > 0 /\ "SP" \notin lines
    /\ events' = [events EXCEPT !["SP"] = @ - 1]
    /\ status' = IF rsp_task_locked THEN status ELSE status \cup Stopped
    /\ IF "INTR_BREAK" \in status
       THEN lines' = lines \cup {"SP"} /\ owed' = owed \ {"SP"}
       ELSE UNCHANGED <<lines, owed>>
    /\ UNCHANGED <<task, rsp_task_locked, unsafe, freeze, do_on_unfreeze, infloop,
                   reset_hard_job, quiet, orphan>>

rsp_interrupt_event ==
    /\ events["SP"] > 0
    /\ events' = [events EXCEPT !["SP"] = @ - 1]
    /\ status' = IF rsp_task_locked THEN status ELSE status \cup Stopped
    /\ IF "INTR_BREAK" \in status
       THEN lines' = lines \cup {"SP"} /\ owed' = owed \ {"SP"}
       ELSE UNCHANGED <<lines, owed>>
    /\ UNCHANGED <<task, rsp_task_locked, unsafe, freeze, do_on_unfreeze, infloop,
                   reset_hard_job, quiet, orphan>>
-----------------------------------------------------------------------------
(* The RDP interface *)

\* Mutant: do_on_unfreeze is not cleared.
update_dpc_status_again(clr_freeze, set_freeze) ==
    /\ freeze' = (set_freeze \/ (freeze /\ ~clr_freeze))
    /\ IF clr_freeze
       THEN /\ lines' = IF "DELAY_DP_INT" \in do_on_unfreeze THEN lines \cup {"DP"} ELSE lines
            /\ owed' = owed \ {IF d = "DELAY_DP_INT" THEN "DP" ELSE "SCREEN" : d \in do_on_unfreeze}
       ELSE UNCHANGED <<lines, owed>>
    /\ UNCHANGED <<status, task, rsp_task_locked, unsafe, events, do_on_unfreeze, infloop,
                   reset_hard_job, quiet, orphan>>

\* Mutant: a second SET_FREEZE drops what was put off.
update_dpc_status_drops(clr_freeze, set_freeze) ==
    /\ freeze' = (set_freeze \/ (freeze /\ ~clr_freeze))
    /\ IF clr_freeze
       THEN /\ lines' = IF "DELAY_DP_INT" \in do_on_unfreeze THEN lines \cup {"DP"} ELSE lines
            /\ owed' = owed \ {IF d = "DELAY_DP_INT" THEN "DP" ELSE "SCREEN" : d \in do_on_unfreeze}
       ELSE UNCHANGED <<lines, owed>>
    /\ do_on_unfreeze' = {}
    /\ UNCHANGED <<status, task, rsp_task_locked, unsafe, events, infloop, reset_hard_job,
                   quiet, orphan>>

\* A write of DPC_STATUS_REG; what was put off is done when FREEZE is cleared.
update_dpc_status(clr_freeze, set_freeze) ==
    /\ freeze' = (set_freeze \/ (freeze /\ ~clr_freeze))
    /\ IF clr_freeze
       THEN /\ lines' = IF "DELAY_DP_INT" \in do_on_unfreeze THEN lines \cup {"DP"} ELSE lines
            /\ owed' = owed \ {IF d = "DELAY_DP_INT" THEN "DP" ELSE "SCREEN" : d \in do_on_unfreeze}
            /\ do_on_unfreeze' = {}
       ELSE UNCHANGED <<lines, owed, do_on_unfreeze>>
    /\ UNCHANGED <<status, task, rsp_task_locked, unsafe, events, infloop, reset_hard_job,
                   quiet, orphan>>

\* A write of DPC_END_REG: the commands are processed and DP is raised at once.
write_dpc_end ==
    /\ lines' = lines \cup {"DP"}
    /\ UNCHANGED <<status, task, rsp_task_locked, unsafe, events, freeze, do_on_unfreeze,
                   infloop, reset_hard_job, owed, quiet, orphan>>

\* The guest acknowledges DP through MI_INIT_MODE_REG.
AckDp ==
    /\ lines' = lines \ {"DP"}
    /\ UNCHANGED <<status, task, rsp_task_locked, unsafe, events, freeze, do_on_unfreeze,
                   infloop, reset_hard_job, owed, quiet, orphan>>

\* Mutant: the handler runs although no DP_INT is queued.
rdp_interrupt_event_twice ==
    /\ events' = [events EXCEPT !["DP"] = @ - 1]
    /\ lines' = lines \cup {"DP"}
    /\ owed' = owed \ {"DP"}
    /\ UNCHANGED <<status, task, rsp_task_locked, unsafe, freeze, do_on_unfreeze, infloop,
                   reset_hard_job, quiet, orphan>>

rdp_interrupt_event ==
    /\ events["DP"] > 0
    /\ events' = [events EXCEPT !["DP"] = @ - 1]
    /\ lines' = lines \cup {"DP"}
    /\ owed' = owed \ {"DP"}
    /\ UNCHANGED <<status, task, rsp_task_locked, unsafe, freeze, do_on_unfreeze, infloop,
                   reset_hard_job, quiet, orphan>>

\* vi_vertical_interrupt_event: the picture waits for a DP that was put off.
UpdateScreen ==
    /\ IF "DELAY_DP_INT" \in do_on_unfreeze
       THEN /\ do_on_unfreeze' = do_on_unfreeze \cup {"DELAY_UPDATESCREEN"}
            /\ owed' = owed \cup {"SCREEN"}
       ELSE /\ owed' = owed \ {"SCREEN"}
            /\ UNCHANGED do_on_unfreeze
    /\ UNCHANGED <<status, task, rsp_task_locked, unsafe, lines, events, freeze, infloop,
                   reset_hard_job, quiet, orphan>>
-----------------------------------------------------------------------------
(* Resets *)

\* Mutant: the boot ROM does not halt the RSP.
nmi_int_handler_running ==
    /\ lines' = lines \ {"SP"}
    /\ events' = NoEvents
    /\ owed' = {x \in owed \ {"SP"} : x = "DP" => "DELAY_DP_INT" \in do_on_unfreeze}
    /\ orphan' = infloop
    /\ task' \in Tasks \cup {"unknown"}
    /\ UNCHANGED <<status, rsp_task_locked, unsafe, freeze, do_on_unfreeze, infloop,
                   reset_hard_job, quiet>>

\* nmi_int_handler with the boot ROM's SET_HALT | CLR_INTR: the queue is cleared, and
\* the copy of IPL3 leaves another header in DMEM; the lock, DPC_STATUS_REG, what was put
\* off and the plugin are left alone.
nmi_int_handler ==
    /\ status' = status \cup {"HALT"}
    /\ lines' = lines \ {"SP"}
    /\ events' = NoEvents
    /\ owed' = {x \in owed \ {"SP"} : x = "DP" => "DELAY_DP_INT" \in do_on_unfreeze}
    /\ orphan' = infloop
    /\ task' \in Tasks \cup {"unknown"}
    /\ UNCHANGED <<rsp_task_locked, unsafe, freeze, do_on_unfreeze, infloop,
                   reset_hard_job, quiet>>

\* hard_reset_device
RequestHardReset ==
    /\ reset_hard_job' = TRUE
    /\ UNCHANGED <<rcp, infloop, owed, quiet, orphan>>

\* gen_interrupt calls reset_hard_handler when interrupt_unsafe_state is 0.
reset_hard_handler ==
    /\ reset_hard_job /\ ~unsafe
    /\ Poweron(status', task', rsp_task_locked', unsafe', lines', events', freeze',
               do_on_unfreeze')
    /\ reset_hard_job' = FALSE
    /\ owed' = {} /\ quiet' = FALSE
    /\ UNCHANGED <<infloop, orphan>>

Guest ==
    \/ \E w \in SpWrites : update_sp_status(w)
    \/ \E t \in Tasks : LoadTask(t)
    \/ \E c, s \in BOOLEAN : update_dpc_status(c, s)
    \/ write_dpc_end \/ AckDp

Dispatch == rsp_interrupt_event \/ rdp_interrupt_event \/ nmi_int_handler \/ reset_hard_handler

Next == Guest \/ Dispatch \/ UpdateScreen \/ RequestHardReset

Spec == Init /\ [][Next]_vars

\* gen_interrupt dispatches every queued event and looks at reset_hard_job first.
FairSpec ==
    /\ Spec
    /\ WF_vars(rsp_interrupt_event)
    /\ WF_vars(rdp_interrupt_event)
    /\ WF_vars(reset_hard_handler)
-----------------------------------------------------------------------------
(* Properties *)

\* Every variable has its type: no counter of queued events goes below 0.
TypeOK ==
    /\ status \subseteq {"HALT", "BROKE", "INTR_BREAK"}
    /\ task \in TaskKinds
    /\ rsp_task_locked \in BOOLEAN /\ unsafe \in BOOLEAN
    /\ lines \subseteq {"SP", "DP"}
    /\ events \in [{"SP", "DP"} -> Nat]
    /\ freeze \in BOOLEAN
    /\ do_on_unfreeze \subseteq {"DELAY_DP_INT", "DELAY_UPDATESCREEN"}
    /\ infloop \in BOOLEAN /\ reset_hard_job \in BOOLEAN
    /\ owed \subseteq {"SP", "DP", "SCREEN"}
    /\ quiet \in BOOLEAN /\ orphan \in BOOLEAN

\* The video plugin waits inside a display list only while the task is locked,
\* the RSP is running and resets are held off, so that the next task cannot be
\* taken for the rest of the old list; a soft reset alone breaks this (orphan).
LoopLocked == infloop => orphan \/ (rsp_task_locked /\ unsafe /\ "HALT" \notin status)

\* What do_SP_Task and the vertical interrupt hold back is on its way: an end of
\* task in the queue, a DP in the queue or put off, a picture put off.
OwedPending ==
    /\ "SP" \in owed => events["SP"] > 0
    /\ "DP" \in owed => events["DP"] > 0 \/ "DELAY_DP_INT" \in do_on_unfreeze
    /\ "SCREEN" \in owed => "DELAY_UPDATESCREEN" \in do_on_unfreeze

\* Work is put off only while the RDP is frozen, and a picture only behind a DP:
\* nothing is left over to be done by a later unfreeze, also after a hard reset.
DeferredFrozen ==
    /\ do_on_unfreeze # {} => freeze
    /\ "DELAY_UPDATESCREEN" \in do_on_unfreeze => "DELAY_DP_INT" \in do_on_unfreeze

\* One run of a task queues one SP_INT: a guest that starts tasks only on a
\* halted RSP never has two ends of task queued, however it writes the status
\* register while a task is locked.
OneCompletion == events["SP"] <= 1

\* A running RSP comes to an end: SP_INT is queued, or the task is locked and
\* the next write runs it on, or the guest did not ask for an interrupt.
RunningEnds == status \cap Stopped = {} => events["SP"] > 0 \/ rsp_task_locked \/ quiet

\* The end of a task that interrupts reaches the guest, and DP does unless the
\* guest freezes the RDP.
Delivered ==
    /\ "SP" \in owed ~> "SP" \notin owed
    /\ "DP" \in owed ~> ("DP" \notin owed \/ freeze)

\* A hard reset comes through once tasks stop being locked.
HardResetCompletes == <>[]~rsp_task_locked => (reset_hard_job ~> ~reset_hard_job)
=============================================================================
