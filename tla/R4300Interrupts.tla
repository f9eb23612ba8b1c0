-------------------------- MODULE R4300Interrupts --------------------------
(***************************************************************************)
(* How the interpreters of the R4300 core deliver events and interrupts:   *)
(* the Count/Compare/Status/Cause registers, the CPU loop's test           *)
(* next_interrupt <= Count, gen_interrupt with its handlers, the MI        *)
(* interrupt lines, and the guest instructions that touch them.            *)
(*                                                                         *)
(* The emulator is one thread, so gen_interrupt follows the instruction    *)
(* that calls it with nothing in between; pc says where the thread is:     *)
(*   "run"        between two instructions                                 *)
(*   "gen"        in gen_interrupt, called by a branch, ERET or MI write   *)
(*   "status"     in gen_interrupt, called by MTC0 Status                  *)
(*   "count"      in gen_interrupt, called by MTC0 Count                   *)
(*   "translate"  back in MTC0 Count, before translate_event_queue         *)
(* In "status" and "count" the code has set INTR_UNSAFE_R4300.             *)
(*                                                                         *)
(* Guest code between two branches is a block of at most MaxInstr          *)
(* instructions of those modelled here; any other instruction only lets    *)
(* Count advance.  The last of them may sit in the branch's delay slot.    *)
(***************************************************************************)
EXTENDS EventQueue

CONSTANTS
    CountPerOp,     \* Count increment per instruction
    InitCount,      \* Count after power-on, 0x5000 in the code
    BlockCounts,    \* by how much Count may advance between two updates
    MaxInstr,       \* modelled instructions between two branches
    Dma,            \* RCP events whose device is idle until the guest starts it
    DmaDelays,      \* their durations
    ViDelay,        \* vi->delay
    NmiDelay,       \* 50000000: from soft reset to NMI
    CompareWrites,  \* values the guest writes to Compare
    CountWrites,    \* values the guest writes to Count
    StatusWrites,   \* values the guest writes to Status
    MaskWrites,     \* values the guest writes to MI_INTR_MASK_REG
    Requests,       \* what the front end may ask for during a frame
    GuestFaults,    \* TRUE when the guest may fault (TLB miss, COP1, bad MTC0)
    WrapSafe,       \* TRUE when Count never wraps past an event not yet seen
    RearmAtZero,    \* TRUE when the guest may write VI_V_INTR_REG while the
                    \* pending VI_INT is at count 0, which get_event cannot see
    CauseAnytime    \* TRUE when the guest may write Cause with interrupts enabled

StatusRegs == [ie : BOOLEAN, exl : BOOLEAN, erl : BOOLEAN, im : SUBSET {2, 4, 7}]

ASSUME ConstantsAssumption ==
    /\ CountPerOp \in Counts /\ InitCount \in Counts
    /\ BlockCounts \subseteq Counts /\ DmaDelays \subseteq Counts
    /\ ViDelay \in Counts /\ NmiDelay \in Counts
    /\ CompareWrites \subseteq Counts /\ CountWrites \subseteq Counts
    /\ Dma \subseteq RcpEvents \ {VI_INT}
    /\ StatusWrites \subseteq StatusRegs
    /\ MaskWrites \subseteq SUBSET RcpEvents
    /\ Requests \subseteq {"none", "soft", "hard"}
    /\ GuestFaults \in BOOLEAN /\ WrapSafe \in BOOLEAN /\ RearmAtZero \in BOOLEAN
    /\ CauseAnytime \in BOOLEAN
    /\ MaxInstr \in Nat

VARIABLES
    evq,             \* the event queue, next_interrupt and special_done
    count, compare,  \* CP0_COUNT_REG, CP0_COMPARE_REG
    status,          \* IE, EXL, ERL and the interrupt mask of CP0_STATUS_REG
    cause,           \* the pending bits IP2 (RCP), IP4 (reset), IP7 (timer)
    mi,              \* MI_INTR_REG and MI_INTR_MASK_REG as sets of RCP events
    next_vi,         \* vi->next_vi
    delay_slot, skip_jump, reset_hard_job, stop,
    pc, newcount,    \* control state, and the operand of MTC0 Count
    budget           \* modelled instructions left in this block

vars == <<evq, count, compare, status, cause, mi, next_vi, delay_slot,
          skip_jump, reset_hard_job, stop, pc, newcount, budget>>

regs == <<compare, mi, next_vi>>
control == <<reset_hard_job, stop>>

GenPcs == {"gen", "status", "count"}

\* IE set and neither EXL nor ERL: the CPU may take an interrupt.
Enabled(st) == st.ie /\ ~st.exl /\ ~st.erl

\* The Status value 0x34000000 of power-on and of the boot ROM.
BootStatus == [ie |-> FALSE, exl |-> FALSE, erl |-> FALSE, im |-> {}]

\* Is an event of this type in the queue?
Pending(type) == Has(evq.q, type)
-----------------------------------------------------------------------------
\* poweron_cp0: special_done and next_interrupt are set by init_interrupt.
PoweronQueue(failed) ==
    init_interrupt([q |-> << >>, next_interrupt |-> 0,
                    special_done |-> FALSE, failed |-> failed], InitCount)

Init ==
    /\ evq = PoweronQueue(FALSE)
    /\ count = InitCount /\ compare = 0
    /\ status = BootStatus /\ cause = {}
    /\ mi = [intr |-> {}, mask |-> {}]
    /\ next_vi = 0
    /\ delay_slot = FALSE /\ skip_jump = FALSE
    /\ reset_hard_job = FALSE /\ stop = FALSE
    /\ pc = "run" /\ newcount = 0 /\ budget = MaxInstr
-----------------------------------------------------------------------------
(* Raising interrupts *)

\* exception_general, from queue e.  Its cp0_update_count finds one instruction
\* executed since the last update only under MTC0 Status.  In a delay slot the
\* jump to the vector is left to the next gen_interrupt (exception_epilog).
exception_general(e) ==
    /\ status' = [status EXCEPT !.exl = TRUE]
    /\ count' = IF pc = "status" THEN Plus(count, CountPerOp) ELSE count
    /\ skip_jump' = (skip_jump \/ delay_slot)
    /\ evq' = IF delay_slot THEN [e EXCEPT !.next_interrupt = 0] ELSE e

raise_maskable_interrupt(e, ip) ==
    /\ cause' = cause \cup {ip}
    /\ IF status.im \cap (cause \cup {ip}) # {} /\ Enabled(status)
       THEN exception_general(e)
       ELSE evq' = e /\ UNCHANGED <<status, count, skip_jump>>

raise_rcp_interrupt(e, line) ==
    /\ mi' = [mi EXCEPT !.intr = @ \cup {line}]
    /\ IF (mi.intr \cup {line}) \cap mi.mask # {}
       THEN raise_maskable_interrupt(e, 2)
       ELSE evq' = e /\ UNCHANGED <<status, cause, count, skip_jump>>

\* r4300_check_interrupt for the RCP line IP2, up or not: the Cause it leaves,
\* and the queue it leaves with Status st and Count c.
CheckCause(up) == IF up THEN cause \cup {2} ELSE cause \ {2}

CheckQueue(e, st, c, up) ==
    IF Enabled(st) /\ st.im \cap CheckCause(up) # {} THEN PushCheck(e, c) ELSE e

r4300_check_interrupt(e, st, c, up) ==
    /\ cause' = CheckCause(up)
    /\ evq' = CheckQueue(e, st, c, up)
-----------------------------------------------------------------------------
(* gen_interrupt: one action for each way through it. *)

\* Not taken: the hard reset, and the delayed jump out of a delay slot.
Dispatching == pc \in GenPcs /\ ~(reset_hard_job /\ pc = "gen") /\ ~skip_jump

Dispatch(type) ==
    /\ Dispatching
    /\ evq.q[1].type = type
    /\ pc' = IF pc = "count" THEN "translate" ELSE "run"
    /\ UNCHANGED <<stop, newcount, budget>>

Removed == remove_interrupt_event(evq, count)

\* soft_reset_device: the guest is warned at once, the NMI comes later.
soft_reset_device(e) ==
    add_interrupt_event(add_interrupt_event(e, count, HW2_INT, 0),
                        count, NMI_INT, NmiDelay)

\* vi_vertical_interrupt_event.  new_vi hands the thread to the front end, which
\* may call soft_reset_device or hard_reset_device before VI_INT is queued again.
ViInt ==
    /\ Dispatch(VI_INT)
    /\ \E r \in Requests :
        /\ next_vi' = Plus(next_vi, ViDelay)
        /\ reset_hard_job' = (reset_hard_job \/ r = "hard")
        /\ LET e == IF r = "soft" THEN soft_reset_device(Removed) ELSE Removed
           IN  raise_rcp_interrupt(
                 add_interrupt_event_count(e, count, VI_INT, next_vi'), VI_INT)
    /\ UNCHANGED <<compare, delay_slot>>

\* Mutant: the timer is not queued for the next time round.
CompareInt_once ==
    /\ Dispatch(COMPARE_INT)
    /\ raise_maskable_interrupt(Removed, 7)
    /\ UNCHANGED <<regs, delay_slot, reset_hard_job>>

\* compare_int_handler: Compare is queued for the next time round, seen from one
\* instruction later.
CompareInt ==
    /\ Dispatch(COMPARE_INT)
    /\ raise_maskable_interrupt(
         add_interrupt_event_count(Removed, Plus(count, CountPerOp),
                                   COMPARE_INT, compare), 7)
    /\ UNCHANGED <<regs, delay_slot, reset_hard_job>>

\* check_int_handler tests neither Status nor Cause.
CheckInt ==
    /\ Dispatch(CHECK_INT)
    /\ exception_general(Removed)
    /\ UNCHANGED <<regs, cause, delay_slot, reset_hard_job>>

\* Mutant: the event stays in the queue while its handler runs.
DmaInt_kept(t) ==
    /\ Dispatch(t)
    /\ raise_rcp_interrupt(evq, t)
    /\ UNCHANGED <<compare, next_vi, delay_slot, reset_hard_job>>

\* The end-of-DMA handlers, as far as the CPU sees them: fifo_pop may queue AI_INT
\* for a second buffer, and SP rises only with INTR_BREAK.  (Under MTC0 Status the
\* cp0_update_count of fifo_pop is left to the next update.)
DmaInt(t) ==
    /\ Dispatch(t)
    /\ \/ raise_rcp_interrupt(Removed, t)
       \/ /\ t = AI_INT
          /\ \E delay \in DmaDelays :
               raise_rcp_interrupt(add_interrupt_event(Removed, count, AI_INT, delay), AI_INT)
       \/ /\ t = SP_INT
          /\ evq' = Removed
          /\ UNCHANGED <<mi, status, cause, count, skip_jump>>
    /\ UNCHANGED <<compare, next_vi, delay_slot, reset_hard_job>>

\* Mutant: SPECIAL_INT empties the queue when it starts Count's next round.
SpecialInt_cleared ==
    /\ Dispatch(SPECIAL_INT)
    /\ evq' = IF count > Sixteenth
              THEN [evq EXCEPT !.next_interrupt = 0]
              ELSE add_interrupt_event_count([evq EXCEPT !.special_done = TRUE, !.q = << >>],
                                             count, SPECIAL_INT, 0)
    /\ UNCHANGED <<regs, count, status, cause, skip_jump, delay_slot, reset_hard_job>>

\* special_int_handler, and the reset of next_interrupt before it.  Until Count
\* has wrapped the event stays first and the CPU loop keeps polling.
SpecialInt ==
    /\ Dispatch(SPECIAL_INT)
    /\ evq' = IF count > Sixteenth
              THEN [evq EXCEPT !.next_interrupt = 0]
              ELSE add_interrupt_event_count([Removed EXCEPT !.special_done = TRUE],
                                             count, SPECIAL_INT, 0)
    /\ UNCHANGED <<regs, count, status, cause, skip_jump, delay_slot, reset_hard_job>>

Hw2Int ==
    /\ Dispatch(HW2_INT)
    /\ raise_maskable_interrupt(Removed, 4)
    /\ UNCHANGED <<regs, delay_slot, reset_hard_job>>

\* Mutant: VI_INT is not queued again, or NMI_INT stays pending (queue).
NmiInt_with(queue) ==
    /\ Dispatch(NMI_INT)
    /\ status' = BootStatus
    /\ mi' = [mi EXCEPT !.intr = @ \ {SP_INT, PI_INT, VI_INT}]
    /\ cause' = {}
    /\ count' = 0
    /\ next_vi' = ViDelay
    /\ evq' = queue
    /\ delay_slot' = FALSE
    /\ UNCHANGED <<compare, skip_jump, reset_hard_job>>
NmiInt_noVi == NmiInt_with(init_interrupt(evq, 0))
NmiInt_pending == NmiInt_with(evq)

\* nmi_int_handler: the boot ROM clears the SP, PI and VI lines with interrupts
\* disabled, then Count and the queue start again from 0 with VI_INT only.
NmiInt ==
    /\ Dispatch(NMI_INT)
    /\ status' = BootStatus
    /\ mi' = [mi EXCEPT !.intr = @ \ {SP_INT, PI_INT, VI_INT}]
    /\ cause' = IF mi'.intr \cap mi.mask # {} THEN {2} ELSE {}
    /\ count' = 0
    /\ next_vi' = ViDelay
    /\ evq' = add_interrupt_event_count(init_interrupt(evq, 0), 0, VI_INT, ViDelay)
    /\ delay_slot' = FALSE
    /\ UNCHANGED <<compare, skip_jump, reset_hard_job>>

\* Mutant: power-on leaves the request in place.
ResetHard_again ==
    /\ pc = "gen" /\ reset_hard_job
    /\ evq' = init_interrupt(PoweronQueue(evq.failed), InitCount)
    /\ count' = InitCount /\ compare' = 0
    /\ status' = BootStatus /\ cause' = {}
    /\ mi' = [intr |-> {}, mask |-> {}]
    /\ next_vi' = 0
    /\ delay_slot' = FALSE /\ skip_jump' = FALSE
    /\ pc' = "run"
    /\ UNCHANGED <<reset_hard_job, stop, newcount, budget>>

\* reset_hard_handler, not while an instruction is half done.  The next_interrupt
\* it sets is overwritten by init_interrupt.
ResetHard ==
    /\ pc = "gen" /\ reset_hard_job
    /\ evq' = init_interrupt(PoweronQueue(evq.failed), InitCount)
    /\ count' = InitCount /\ compare' = 0
    /\ status' = BootStatus /\ cause' = {}
    /\ mi' = [intr |-> {}, mask |-> {}]
    /\ next_vi' = 0
    /\ delay_slot' = FALSE /\ skip_jump' = FALSE /\ reset_hard_job' = FALSE
    /\ pc' = "run"
    /\ UNCHANGED <<stop, newcount, budget>>

\* The jump an exception in a delay slot left behind.
SkipJump ==
    /\ pc \in GenPcs /\ ~(reset_hard_job /\ pc = "gen") /\ skip_jump
    /\ skip_jump' = FALSE
    /\ evq' = [evq EXCEPT !.next_interrupt = NextInterrupt(evq.q, count)]
    /\ pc' = IF pc = "count" THEN "translate" ELSE "run"
    /\ UNCHANGED <<regs, control, count, status, cause, delay_slot, newcount, budget>>

GenInterrupt ==
    \/ ViInt \/ CompareInt \/ CheckInt \/ SpecialInt \/ Hw2Int \/ NmiInt
    \/ \E t \in Dma : DmaInt(t)
    \/ ResetHard \/ SkipJump
-----------------------------------------------------------------------------
(* The CPU loop *)

\* cp0_update_count: Count advances by the instructions since the last update.
\* The loop's test is a plain next_interrupt <= Count, so it misses an event when
\* Count wraps before the next test; WrapSafe keeps to guest code that does not
\* do that.
Advance(next_interrupt) ==
    \E d \in BlockCounts :
        /\ count' = Plus(count, d)
        /\ WrapSafe /\ count' < count => next_interrupt <= count'

\* The end of every branch: cp0_update_count, then the test of next_interrupt.
Branch ==
    /\ pc = "run" /\ (~stop \/ delay_slot)
    /\ Advance(evq.next_interrupt)
    /\ delay_slot' = FALSE
    /\ budget' = MaxInstr
    /\ pc' = IF evq.next_interrupt <= count' THEN "gen" ELSE "run"
    /\ UNCHANGED <<regs, control, evq, status, cause, skip_jump, newcount>>

\* A branch to itself jumps in time, in steps of 4, to the next interrupt, and
\* is then executed again as an ordinary branch.
BranchIdle ==
    /\ pc = "run" /\ ~stop /\ ~delay_slot
    /\ LET skip == Sub(evq.next_interrupt, count)
       IN  /\ skip > 3 /\ skip < Half
           /\ count' = Plus(count, skip - (skip % 4))
    /\ budget' = 0
    /\ UNCHANGED <<regs, control, evq, status, cause, skip_jump, delay_slot,
                   pc, newcount>>

\* Any instruction below: between branches, perhaps in the delay slot.
Instruction ==
    /\ pc = "run" /\ ~stop /\ ~delay_slot /\ budget > 0
    /\ budget' = budget - 1
    /\ delay_slot' \in BOOLEAN

\* A register write that starts a transfer: cp0_update_count, add_interrupt_event.
StartDma(t) ==
    /\ t \in {SI_INT, PI_INT, AI_INT}
    /\ Instruction /\ ~Pending(t)
    /\ Advance(evq.next_interrupt)
    /\ \E delay \in DmaDelays : evq' = add_interrupt_event(evq, count', t, delay)
    /\ UNCHANGED <<regs, control, status, cause, skip_jump, pc, newcount>>

\* What do_SP_Task makes of the lines a task has raised and of those that were still
\* up, after perhaps an acknowledgement of the SP line (ack): it lowers them without
\* r4300_check_interrupt and queues events in their place, for SP always, for DP
\* after a graphics task, unless the RDP is frozen.
SpTaskLines(ack, gfx, frozen, raised, d1, d2) ==
    LET before == IF ack THEN mi.intr \ {SP_INT} ELSE mi.intr
        up == before \cap mi.mask # {}
        lines == before \cup raised
        e0 == IF ack THEN CheckQueue(evq, status, count, up) ELSE evq
        e1 == IF gfx /\ DP_INT \in lines /\ ~frozen
              THEN add_interrupt_event(e0, count', DP_INT, d1) ELSE e0
    IN  /\ cause' = IF ack THEN CheckCause(up) ELSE cause
        /\ evq' = IF SP_INT \in lines
                  THEN add_interrupt_event(e1, count', SP_INT, d2) ELSE e1
        /\ mi' = [mi EXCEPT !.intr =
                    lines \ (IF gfx THEN {SP_INT, DP_INT} ELSE {SP_INT})]

\* A write to SP_STATUS_REG that runs an RSP task.
do_SP_Task ==
    /\ SP_INT \in Dma /\ Instruction /\ ~Pending(SP_INT)
    /\ Advance(evq.next_interrupt)
    /\ \E ack, gfx, frozen \in BOOLEAN, d1, d2 \in DmaDelays,
         raised \in SUBSET ({SP_INT, DP_INT} \cap Dma) :
        /\ DP_INT \in raised => gfx
        /\ frozen => gfx /\ DP_INT \in Dma
        /\ SpTaskLines(ack, gfx, frozen, raised, d1, d2)
    /\ UNCHANGED <<compare, next_vi, control, status, skip_jump, pc, newcount>>

\* VI_V_INTR_REG with a line before VI_V_SYNC_REG, when get_event finds no VI_INT.
ArmVi ==
    /\ Instruction
    /\ get_event(evq.q, VI_INT) = 0
    /\ RearmAtZero \/ ~Pending(VI_INT)
    /\ Advance(evq.next_interrupt)
    /\ next_vi' = Plus(count', ViDelay)
    /\ evq' = add_interrupt_event_count(evq, count', VI_INT, next_vi')
    /\ UNCHANGED <<compare, mi, control, status, cause, skip_jump, pc, newcount>>

\* A write to a device's status register acknowledges its line.
clear_rcp_interrupt(line) ==
    /\ Instruction
    /\ mi' = [mi EXCEPT !.intr = @ \ {line}]
    /\ r4300_check_interrupt(evq, status, count, mi'.intr \cap mi.mask # {})
    /\ UNCHANGED <<compare, next_vi, control, count, status, skip_jump, pc, newcount>>

\* SP_STATUS_REG and the DP registers raise their line outside any handler.
signal_rcp_interrupt(line) ==
    /\ Instruction
    /\ mi' = [mi EXCEPT !.intr = @ \cup {line}]
    /\ r4300_check_interrupt(evq, status, count, mi'.intr \cap mi.mask # {})
    /\ UNCHANGED <<compare, next_vi, control, count, status, skip_jump, pc, newcount>>

\* MI_INTR_MASK_REG
WriteMiMask ==
    /\ Instruction
    /\ \E m \in MaskWrites : mi' = [mi EXCEPT !.mask = m]
    /\ r4300_check_interrupt(evq, status, count, mi.intr \cap mi'.mask # {})
    /\ Advance(evq'.next_interrupt)
    /\ pc' = IF evq'.next_interrupt <= count' THEN "gen" ELSE "run"
    /\ UNCHANGED <<compare, next_vi, control, status, skip_jump, newcount>>

MTC0_Status ==
    /\ Instruction
    /\ status' \in StatusWrites
    /\ Advance(evq.next_interrupt)
    /\ r4300_check_interrupt(evq, status', count', mi.intr \cap mi.mask # {})
    /\ pc' = IF evq'.next_interrupt <= count' THEN "status" ELSE "run"
    /\ UNCHANGED <<regs, control, skip_jump, newcount>>

\* Mutant: the event of the old Compare value stays in the queue.
MTC0_Compare_kept ==
    /\ Instruction
    /\ Advance(evq.next_interrupt)
    /\ compare' \in CompareWrites
    /\ evq' = add_interrupt_event_count(evq, count', COMPARE_INT, compare')
    /\ cause' = cause \ {7}
    /\ UNCHANGED <<mi, next_vi, control, status, skip_jump, pc, newcount>>

MTC0_Compare ==
    /\ Instruction
    /\ Advance(evq.next_interrupt)
    /\ compare' \in CompareWrites
    /\ evq' = add_interrupt_event_count(remove_event(evq, COMPARE_INT), count',
                                        COMPARE_INT, compare')
    /\ cause' = cause \ {7}
    /\ UNCHANGED <<mi, next_vi, control, status, skip_jump, pc, newcount>>

\* MTC0 Count, up to its call of gen_interrupt.
MTC0_Count ==
    /\ Instruction
    /\ Advance(evq.next_interrupt)
    /\ newcount' \in CountWrites
    /\ pc' = IF evq.next_interrupt <= count' THEN "count" ELSE "translate"
    /\ UNCHANGED <<regs, control, evq, status, cause, skip_jump>>

\* The rest of MTC0 Count.
Translate ==
    /\ pc = "translate"
    /\ evq' = translate_event_queue(evq, count, compare, newcount)
    /\ count' = newcount
    /\ newcount' = 0
    /\ pc' = "run"
    /\ UNCHANGED <<regs, control, status, cause, skip_jump, delay_slot, budget>>

\* MTC0 Cause: 0 clears the pending bits, any other value stops the emulator.
MTC0_Cause ==
    /\ Instruction
    /\ CauseAnytime \/ ~Enabled(status)
    /\ \/ cause' = {} /\ UNCHANGED stop
       \/ GuestFaults /\ stop' = TRUE /\ UNCHANGED cause
    /\ UNCHANGED <<regs, reset_hard_job, evq, count, status, skip_jump, pc, newcount>>

\* Mutant: interrupts that became pending while EXL was set are not looked for.
ERET_noCheck ==
    /\ Instruction /\ delay_slot' = FALSE
    /\ Advance(evq.next_interrupt)
    /\ stop' = status.erl
    /\ status' = [status EXCEPT !.exl = @ /\ status.erl]
    /\ pc' = IF evq.next_interrupt <= count' THEN "gen" ELSE "run"
    /\ UNCHANGED <<regs, reset_hard_job, skip_jump, newcount, evq, cause>>

\* ERET stops the emulator when ERL is set.
ERET ==
    /\ Instruction /\ delay_slot' = FALSE
    /\ Advance(evq.next_interrupt)
    /\ stop' = status.erl
    /\ status' = [status EXCEPT !.exl = @ /\ status.erl]
    /\ r4300_check_interrupt(evq, status', count', mi.intr \cap mi.mask # {})
    /\ pc' = IF evq'.next_interrupt <= count' THEN "gen" ELSE "run"
    /\ UNCHANGED <<regs, reset_hard_job, skip_jump, newcount>>

\* TLB_refill_exception and check_cop1_unusable: Cause is overwritten.
GuestException ==
    /\ GuestFaults /\ Instruction
    /\ Advance(evq.next_interrupt)
    /\ status' = [status EXCEPT !.exl = TRUE]
    /\ cause' = {}
    /\ skip_jump' = (skip_jump \/ delay_slot')
    /\ evq' = IF delay_slot' THEN [evq EXCEPT !.next_interrupt = 0] ELSE evq
    /\ UNCHANGED <<regs, control, pc, newcount>>

CpuLoop ==
    \/ Branch \/ BranchIdle \/ do_SP_Task \/ ArmVi \/ WriteMiMask
    \/ MTC0_Status \/ MTC0_Compare \/ MTC0_Count \/ Translate \/ MTC0_Cause
    \/ ERET \/ GuestException
    \/ \E t \in Dma : StartDma(t)
    \/ \E line \in Dma \cup {VI_INT} : clear_rcp_interrupt(line)
    \/ \E line \in Dma \cap {SP_INT, DP_INT} : signal_rcp_interrupt(line)

Next == GenInterrupt \/ CpuLoop

Spec == Init /\ [][Next]_vars

\* The guest keeps executing branches, each of which advances Count and tests
\* next_interrupt; gen_interrupt returns.
FairSpec ==
    /\ Spec
    /\ WF_vars(GenInterrupt)
    /\ SF_vars(Branch /\ count' # count)
    /\ SF_vars(Branch /\ pc' = "gen")
-----------------------------------------------------------------------------
(* Properties *)

\* Every variable has its type; in particular every count of the queue is a
\* 32-bit value and no event has an unknown type (the default case of
\* gen_interrupt's switch is never reached).
TypeOK ==
    /\ evq \in Queues
    /\ count \in Counts /\ compare \in Counts /\ newcount \in Counts
    /\ status \in StatusRegs /\ cause \in SUBSET {2, 4, 7}
    /\ mi \in [intr : SUBSET RcpEvents, mask : SUBSET RcpEvents]
    /\ next_vi \in Counts
    /\ delay_slot \in BOOLEAN /\ skip_jump \in BOOLEAN
    /\ reset_hard_job \in BOOLEAN /\ stop \in BOOLEAN
    /\ pc \in GenPcs \cup {"run", "translate"}
    /\ budget \in 0 .. MaxInstr

\* The wrap marker SPECIAL_INT, which its handler removes and queues again, and
\* which resets and MTC0 Count queue anew, is never queued twice, and is in the
\* queue unless the pool was exhausted: Count's next wrap is always noticed.
SpecialOnce ==
    /\ AtMostOne(evq.q, SPECIAL_INT)
    /\ ~evq.failed => Has(evq.q, SPECIAL_INT)

\* gen_interrupt uses q.first without a test for NULL: the list always holds the
\* wrap marker or the timer, even after alloc_node has failed in any operation.
FirstNotNull == Has(evq.q, SPECIAL_INT) \/ Has(evq.q, COMPARE_INT)

\* Once the guest has armed the VI, whenever the CPU runs the queue holds the
\* VI_INT that vi->next_vi records: it is what ends the current retro_run.
FrameScheduled ==
    pc = "run" /\ next_vi # 0 =>
        [type |-> VI_INT, count |-> next_vi] \in Range(evq.q)

\* At the end of a block the pending vertical interrupt is never a whole frame
\* late and never more than a frame ahead, whatever other events, the wrap of
\* Count included, came first: a retro_run lasts about one frame of guest time.
FrameOnTime ==
    pc = "run" =>
        \A i \in DOMAIN evq.q : evq.q[i].type = VI_INT =>
            \/ Sub(count, evq.q[i].count) < ViDelay
            \/ Sub(evq.q[i].count, count) <= ViDelay

\* gen_interrupt never calls an event's handler before Count has reached the
\* event's count.  (SPECIAL_INT polls: its handler tests Count itself.)
NotEarly ==
    Dispatching /\ evq.q[1].type # SPECIAL_INT => Sub(count, evq.q[1].count) < Half

\* Of the device events that are due, the one gen_interrupt takes is due longest.
InOrder ==
    Dispatching /\ evq.q[1].type \in RcpEvents =>
        \A i \in DOMAIN evq.q :
            evq.q[i].type \in RcpEvents /\ Sub(count, evq.q[i].count) < Sixteenth
                => Sub(count, evq.q[i].count) <= Sub(count, evq.q[1].count)

\* There is one COMPARE_INT at most and it is at the value of Compare, also after
\* it has fired, after the guest has rewritten Compare and after MTC0 Count.
TimerFollowsCompare ==
    AtMostOne(evq.q, COMPARE_INT) /\ AllAt(evq.q, COMPARE_INT, compare)

\* Whenever interrupts are enabled, an unmasked RCP line that is up shows in IP2,
\* although faults, MTC0 Cause and acknowledgements of other lines clear it.  (The
\* converse fails: do_SP_Task lowers lines behind Cause's back.)
IrqLevel ==
    Enabled(status) /\ mi.intr \cap mi.mask # {} => 2 \in cause

\* Whenever the guest runs with interrupts enabled and an unmasked one pending,
\* the exception is on its way: a CHECK_INT is first and the next branch sees it.
IrqNotLost ==
    pc = "run" /\ Enabled(status) /\ status.im \cap cause # {} =>
        evq.q[1].type = CHECK_INT /\ evq.next_interrupt <= count

\* Frames never stop: an armed VI_INT is always dispatched again, over wraps of Count
\* and through the NMI of a soft reset, unless a hard reset takes it away.
FramesForever ==
    Pending(VI_INT) ~> \/ Dispatching /\ evq.q[1].type = VI_INT
                       \/ reset_hard_job

\* A soft reset completes: the NMI it queues is delivered (or a hard reset came).
ResetCompletes == Pending(NMI_INT) ~> ~Pending(NMI_INT)

\* A hard reset completes: reset_hard_job is served at a later gen_interrupt.
HardResetCompletes == reset_hard_job ~> ~reset_hard_job
=============================================================================
