----------------------- MODULE R4300InterruptsProofs -----------------------
(***************************************************************************)
(* Invariants of R4300Interrupts, proved for every size of the pool, every *)
(* range of Count, every guest and every front end the constants describe. *)
(*                                                                         *)
(* TypeOK is not inductive: remove_interrupt_event takes the first node of *)
(* a list that must not be empty.  QueueInv (EventQueueProofs) says why it *)
(* never is, and contains SpecialOnce, FirstNotNull and                    *)
(* TimerFollowsCompare; each operation of the queue preserves it by a      *)
(* lemma of its own.  IrqLevel needs nothing but the types, and a guest    *)
(* that writes Cause only with interrupts disabled.  DelayedJumpKept, that *)
(* the jump out of a delay slot is made at the next branch, serves         *)
(* InterruptDeliveryProofs; it is false when MTC0 Count sits in a delay    *)
(* slot, so CountOutsideSlots is an assumption.                            *)
(***************************************************************************)
EXTENDS R4300Interrupts, EventQueueProofs

IInv == TypeOK /\ QueueInv(evq, compare)

\* The state a handler leaves: what raising an interrupt may change.
Handled ==
    /\ QueueInv(evq', compare)
    /\ count' \in Counts /\ status' \in StatusRegs
    /\ cause' \in SUBSET {2, 4, 7} /\ skip_jump' \in BOOLEAN

-----------------------------------------------------------------------------
\* Status with EXL set, or cleared, is a Status value.
LEMMA StatusExl ==
    ASSUME NEW st \in StatusRegs, NEW b \in BOOLEAN
    PROVE  [st EXCEPT !.exl = b] \in StatusRegs
  BY DEF StatusRegs

\* Writing next_interrupt preserves QueueInv.
LEMMA QueueInvNext ==
    ASSUME NEW e, NEW c, QueueInv(e, c), NEW n \in Counts
    PROVE  QueueInv([e EXCEPT !.next_interrupt = n], c)
  <1>. DEFINE r == [e EXCEPT !.next_interrupt = n]
  <1>1. r \in Queues /\ r.q = e.q /\ r.failed = e.failed
    BY DEF QueueInv, Queues
  <1>. QED  BY <1>1, QueueInvSameList

\* exception_general.
LEMMA ExceptionHandled ==
    ASSUME TypeOK, NEW e, QueueInv(e, compare), exception_general(e)
    PROVE  /\ QueueInv(evq', compare) /\ count' \in Counts
           /\ status' \in StatusRegs /\ skip_jump' \in BOOLEAN
  <1>1. QueueInv(evq', compare)
    BY QueueInvNext, ZeroCount DEF exception_general
  <1>2. count' \in Counts
    BY CountArithmetic, ConstantsAssumption DEF TypeOK, exception_general
  <1>3. status' \in StatusRegs
    BY StatusExl DEF TypeOK, exception_general
  <1>4. skip_jump' \in BOOLEAN
    BY DEF TypeOK, exception_general
  <1>. QED  BY <1>1, <1>2, <1>3, <1>4

\* raise_maskable_interrupt.
LEMMA MaskableHandled ==
    ASSUME TypeOK, NEW e, QueueInv(e, compare), NEW ip \in {2, 4, 7},
           raise_maskable_interrupt(e, ip)
    PROVE  Handled
  <1>1. cause' \in SUBSET {2, 4, 7}
    BY DEF raise_maskable_interrupt, TypeOK
  <1>2. CASE exception_general(e)
    BY <1>1, <1>2, ExceptionHandled DEF Handled
  <1>3. CASE evq' = e /\ UNCHANGED <<status, count, skip_jump>>
    BY <1>1, <1>3 DEF Handled, TypeOK
  <1>. QED  BY <1>2, <1>3 DEF raise_maskable_interrupt

\* raise_rcp_interrupt.
LEMMA RcpHandled ==
    ASSUME TypeOK, NEW e, QueueInv(e, compare), NEW line \in RcpEvents,
           raise_rcp_interrupt(e, line)
    PROVE  Handled /\ mi' \in [intr : SUBSET RcpEvents, mask : SUBSET RcpEvents]
  <1>1. mi' \in [intr : SUBSET RcpEvents, mask : SUBSET RcpEvents]
    BY DEF raise_rcp_interrupt, TypeOK
  <1>2. CASE raise_maskable_interrupt(e, 2)
    BY <1>1, <1>2, MaskableHandled
  <1>3. CASE evq' = e /\ UNCHANGED <<status, cause, count, skip_jump>>
    BY <1>1, <1>3 DEF Handled, TypeOK
  <1>. QED  BY <1>2, <1>3 DEF raise_rcp_interrupt

\* r4300_check_interrupt.
LEMMA CheckQueueInv ==
    ASSUME NEW e, NEW c, QueueInv(e, c), NEW st, NEW n \in Counts, NEW up
    PROVE  QueueInv(CheckQueue(e, st, n, up), c)
  BY QueueInvPushCheck DEF CheckQueue

\* The same, as the action.
LEMMA CheckHandled ==
    ASSUME TypeOK, NEW e, NEW c, QueueInv(e, c), NEW st, NEW n \in Counts, NEW up,
           r4300_check_interrupt(e, st, n, up)
    PROVE  QueueInv(evq', c) /\ cause' \in SUBSET {2, 4, 7}
  <1>1. cause' \in SUBSET {2, 4, 7}
    BY DEF r4300_check_interrupt, CheckCause, TypeOK
  <1>2. QueueInv(evq', c)
    BY CheckQueueInv DEF r4300_check_interrupt
  <1>. QED  BY <1>1, <1>2

\* cp0_update_count.
LEMMA AdvanceCount ==
    ASSUME TypeOK, NEW n, Advance(n)
    PROVE  count' \in Counts
  BY CountArithmetic, ConstantsAssumption DEF TypeOK, Advance

\* The events other than the marker and the timer.
LEMMA OtherTypes ==
    /\ RcpEvents \cup {HW2_INT, NMI_INT, CHECK_INT}
          \subseteq EventTypes \ {SPECIAL_INT, COMPARE_INT}
    /\ SPECIAL_INT # COMPARE_INT /\ VI_INT \in RcpEvents
  BY DEF RcpEvents, EventTypes, VI_INT, COMPARE_INT, CHECK_INT, SI_INT, PI_INT,
         SPECIAL_INT, AI_INT, SP_INT, DP_INT, HW2_INT, NMI_INT

\* The queue after gen_interrupt has taken an event of another type.
LEMMA RemovedInv ==
    ASSUME IInv, NEW type \in EventTypes \ {SPECIAL_INT, COMPARE_INT},
           Dispatch(type)
    PROVE  QueueInv(Removed, compare)
  BY QueueInvRemoveFirst DEF IInv, TypeOK, Dispatch, Removed

\* Power-on.
LEMMA PoweronInv ==
    ASSUME NEW failed \in BOOLEAN, NEW c
    PROVE  QueueInv(PoweronQueue(failed), c)
  <1>1. [q |-> << >>, next_interrupt |-> 0, special_done |-> FALSE,
         failed |-> failed] \in Queues
    BY ZeroCount, EmptySeq DEF Queues
  <1>. QED  BY <1>1, QueueInvInit, ConstantsAssumption DEF PoweronQueue

-----------------------------------------------------------------------------
\* Every way through gen_interrupt preserves the invariant.
LEMMA GenInterruptInv ==
    ASSUME IInv, GenInterrupt
    PROVE  IInv'
  <1>0. TypeOK /\ QueueInv(evq, compare)
    BY DEF IInv
  <1>1. CASE ViInt
    <2>1. QueueInv(Removed, compare)
      BY <1>1, RemovedInv, OtherTypes DEF ViInt
    <2>2. count \in Counts /\ next_vi' \in Counts
      BY <1>0, <1>1, CountArithmetic, ConstantsAssumption DEF ViInt, TypeOK
    <2>3. PICK r \in Requests :
             /\ reset_hard_job' = (reset_hard_job \/ r = "hard")
             /\ LET e == IF r = "soft" THEN soft_reset_device(Removed) ELSE Removed
                IN  raise_rcp_interrupt(
                      add_interrupt_event_count(e, count, VI_INT, next_vi'), VI_INT)
      BY <1>1 DEF ViInt
    <2>. DEFINE h == add_interrupt_event(Removed, count, HW2_INT, 0)
                e1 == IF r = "soft" THEN soft_reset_device(Removed) ELSE Removed
    <2>4. QueueInv(h, compare)
      BY <2>1, <2>2, CountArithmetic, ZeroCount, QueueInvAdd, OtherTypes
      DEF add_interrupt_event
    <2>. HIDE DEF h
    <2>5. QueueInv(add_interrupt_event(h, count, NMI_INT, NmiDelay), compare)
      BY <2>2, <2>4, CountArithmetic, ConstantsAssumption, QueueInvAdd, OtherTypes
      DEF add_interrupt_event
    <2>6. QueueInv(e1, compare)
      BY <2>1, <2>5 DEF soft_reset_device, h
    <2>7. QueueInv(add_interrupt_event_count(e1, count, VI_INT, next_vi'), compare)
      <3>. HIDE DEF e1
      <3>. QED  BY <2>2, <2>6, QueueInvAdd, OtherTypes
    <2>8. raise_rcp_interrupt(
             add_interrupt_event_count(e1, count, VI_INT, next_vi'), VI_INT)
      BY <2>3
    <2>. HIDE DEF e1
    <2>9. Handled /\ mi' \in [intr : SUBSET RcpEvents, mask : SUBSET RcpEvents]
      BY <1>0, <2>7, <2>8, RcpHandled, OtherTypes
    <2>10. /\ compare' = compare /\ delay_slot' = delay_slot
           /\ reset_hard_job' \in BOOLEAN /\ stop' = stop /\ newcount' = newcount
           /\ budget' = budget /\ pc' \in {"run", "translate"}
      BY <1>0, <1>1, <2>3 DEF ViInt, Dispatch, TypeOK
    <2>. QED  BY <1>0, <2>2, <2>9, <2>10 DEF IInv, TypeOK, Handled, QueueInv
  <1>2. CASE CompareInt
    <2>1. /\ count \in Counts /\ Plus(count, CountPerOp) \in Counts
          /\ compare \in Counts /\ evq.special_done \in BOOLEAN
          /\ evq.q[1].type = COMPARE_INT
      BY <1>0, <1>2, CountArithmetic, ConstantsAssumption
      DEF CompareInt, Dispatch, TypeOK, Queues
    <2>. DEFINE e == add_interrupt_event_count(Removed, Plus(count, CountPerOp),
                                               COMPARE_INT, compare)
                d == [Removed EXCEPT !.special_done = evq.special_done]
    <2>2. d = Removed
      <3>1. evq \in [q : Seq(Events), next_interrupt : Counts,
                     special_done : BOOLEAN, failed : BOOLEAN]
        BY <1>0 DEF TypeOK, Queues
      <3>. QED  BY <3>1 DEF Removed, remove_interrupt_event
    <2>3. QueueInv(add_interrupt_event_count(d, Plus(count, CountPerOp),
                                             COMPARE_INT, compare), compare)
      BY <1>0, <2>1, QueueInvRequeueFirst DEF Removed
    <2>4. QueueInv(e, compare)
      BY <2>2, <2>3
    <2>5. raise_maskable_interrupt(e, 7)
      BY <1>2 DEF CompareInt
    <2>. HIDE DEF e, d
    <2>6. Handled
      BY <1>0, <2>4, <2>5, MaskableHandled
    <2>. QED  BY <1>0, <1>2, <2>6
         DEF IInv, TypeOK, Handled, QueueInv, CompareInt, Dispatch, regs
  <1>3. CASE CheckInt
    <2>1. QueueInv(Removed, compare)
      BY <1>3, RemovedInv, OtherTypes DEF CheckInt
    <2>2. /\ QueueInv(evq', compare) /\ count' \in Counts
          /\ status' \in StatusRegs /\ skip_jump' \in BOOLEAN
      BY <1>0, <1>3, <2>1, ExceptionHandled DEF CheckInt
    <2>. QED  BY <1>0, <1>3, <2>2
         DEF IInv, TypeOK, QueueInv, CheckInt, Dispatch, regs
  <1>4. CASE SpecialInt
    <2>1. /\ count \in Counts /\ compare \in Counts /\ evq.q[1].type = SPECIAL_INT
      BY <1>0, <1>4 DEF SpecialInt, Dispatch, TypeOK
    <2>2. QueueInv([evq EXCEPT !.next_interrupt = 0], compare)
      BY <1>0, ZeroCount, QueueInvNext
    <2>3. QueueInv(add_interrupt_event_count([Removed EXCEPT !.special_done = TRUE],
                                             count, SPECIAL_INT, 0), compare)
      BY <1>0, <2>1, QueueInvRequeueFirst, OtherTypes DEF Removed
    <2>4. QueueInv(evq', compare)
      BY <1>4, <2>2, <2>3 DEF SpecialInt
    <2>. QED  BY <1>0, <1>4, <2>4
         DEF IInv, TypeOK, QueueInv, SpecialInt, Dispatch, regs
  <1>5. CASE Hw2Int
    <2>1. QueueInv(Removed, compare)
      BY <1>5, RemovedInv, OtherTypes DEF Hw2Int
    <2>2. Handled
      BY <1>0, <1>5, <2>1, MaskableHandled DEF Hw2Int
    <2>. QED  BY <1>0, <1>5, <2>2
         DEF IInv, TypeOK, Handled, QueueInv, Hw2Int, Dispatch, regs
  <1>6. CASE NmiInt
    <2>1. QueueInv(init_interrupt(evq, 0), compare)
      BY <1>0, ZeroCount, QueueInvInit DEF TypeOK
    <2>2. QueueInv(evq', compare)
      BY <1>6, <2>1, ZeroCount, ConstantsAssumption, QueueInvAdd, OtherTypes
      DEF NmiInt
    <2>3. /\ status' \in StatusRegs /\ cause' \in SUBSET {2, 4, 7}
          /\ mi' \in [intr : SUBSET RcpEvents, mask : SUBSET RcpEvents]
          /\ count' \in Counts /\ next_vi' \in Counts
      BY <1>0, <1>6, ZeroCount, ConstantsAssumption
      DEF NmiInt, BootStatus, StatusRegs, TypeOK
    <2>. QED  BY <1>0, <1>6, <2>2, <2>3
         DEF IInv, TypeOK, QueueInv, NmiInt, Dispatch
  <1>7. CASE \E t \in Dma : DmaInt(t)
    <2>1. PICK t \in Dma : DmaInt(t)
      BY <1>7
    <2>2. t \in RcpEvents
      BY ConstantsAssumption
    <2>3. QueueInv(Removed, compare)
      BY <2>1, <2>2, RemovedInv, OtherTypes DEF DmaInt
    <2>4. ASSUME raise_rcp_interrupt(Removed, t)
          PROVE  Handled /\ mi' \in [intr : SUBSET RcpEvents, mask : SUBSET RcpEvents]
      BY <1>0, <2>2, <2>3, <2>4, RcpHandled
    <2>5. ASSUME NEW delay \in DmaDelays,
                 raise_rcp_interrupt(add_interrupt_event(Removed, count, AI_INT, delay), AI_INT)
          PROVE  Handled /\ mi' \in [intr : SUBSET RcpEvents, mask : SUBSET RcpEvents]
      <3>1. count \in Counts /\ Plus(count, delay) \in Counts
        BY <1>0, CountArithmetic, ConstantsAssumption DEF TypeOK
      <3>2. AI_INT \in RcpEvents
        BY DEF RcpEvents
      <3>3. QueueInv(add_interrupt_event(Removed, count, AI_INT, delay), compare)
        BY <2>3, <3>1, <3>2, OtherTypes, QueueInvAdd DEF add_interrupt_event
      <3>. QED  BY <1>0, <2>5, <3>2, <3>3, RcpHandled
    <2>6. ASSUME evq' = Removed, UNCHANGED <<mi, status, cause, count, skip_jump>>
          PROVE  Handled /\ mi' \in [intr : SUBSET RcpEvents, mask : SUBSET RcpEvents]
      BY <1>0, <2>3, <2>6 DEF Handled, TypeOK
    <2>7. Handled /\ mi' \in [intr : SUBSET RcpEvents, mask : SUBSET RcpEvents]
      BY <2>1, <2>4, <2>5, <2>6 DEF DmaInt
    <2>. QED  BY <1>0, <2>1, <2>7
         DEF IInv, TypeOK, Handled, QueueInv, DmaInt, Dispatch
  <1>8. CASE ResetHard
    <2>1. QueueInv(PoweronQueue(evq.failed), 0)
      BY <1>0, PoweronInv DEF TypeOK, Queues
    <2>2. QueueInv(evq', compare')
      <3>1. PoweronQueue(evq.failed) \in Queues
        BY <2>1 DEF QueueInv
      <3>. QED  BY <1>8, <3>1, QueueInvInit, ConstantsAssumption DEF ResetHard
    <2>. QED  BY <1>0, <1>8, <2>2, ZeroCount, ConstantsAssumption
         DEF IInv, TypeOK, QueueInv, ResetHard, BootStatus, StatusRegs
  <1>9. CASE SkipJump
    <2>1. NextInterrupt(evq.q, count) \in Counts
      BY <1>0, NextInterruptCount DEF TypeOK, Queues
    <2>2. QueueInv(evq', compare)
      BY <1>0, <1>9, <2>1, QueueInvNext DEF SkipJump
    <2>. QED  BY <1>0, <1>9, <2>2
         DEF IInv, TypeOK, QueueInv, SkipJump, regs, control
  <1>. QED  BY <1>1, <1>2, <1>3, <1>4, <1>5, <1>6, <1>7, <1>8, <1>9
       DEF GenInterrupt

\* The budget of a block stays in its range.
LEMMA BudgetSpent ==
    ASSUME TypeOK, Instruction
    PROVE  budget' \in 0 .. MaxInstr /\ delay_slot' \in BOOLEAN
  BY ConstantsAssumption DEF TypeOK, Instruction

\* The jump in time of an idle loop lands on a Count.
LEMMA IdleCount ==
    ASSUME TypeOK, BranchIdle
    PROVE  count' \in Counts
  <1>. DEFINE skip == Sub(evq.next_interrupt, count)
  <1>1. skip \in Counts /\ skip > 3 /\ count' = Plus(count, skip - (skip % 4))
    BY CountArithmetic DEF TypeOK, Queues, BranchIdle
  <1>. HIDE DEF skip
  <1>2. skip \in Int /\ skip % 4 \in 0 .. 3
    BY <1>1, CountModAssumption DEF Counts
  <1>3. skip - (skip % 4) \in Counts
    BY <1>1, <1>2, CountModAssumption DEF Counts
  <1>. QED  BY <1>1, <1>3, CountArithmetic DEF TypeOK

\* Every step of the CPU loop preserves the invariant.
LEMMA CpuLoopInv ==
    ASSUME IInv, CpuLoop
    PROVE  IInv'
  <1>0. TypeOK /\ QueueInv(evq, compare)
    BY DEF IInv
  <1>1. CASE Branch
    <2>1. count' \in Counts
      BY <1>0, <1>1, AdvanceCount DEF Branch
    <2>2. budget' \in 0 .. MaxInstr /\ pc' \in GenPcs \cup {"run", "translate"}
      <3>1. MaxInstr \in Nat
        BY ConstantsAssumption
      <3>. QED  BY <1>1, <3>1 DEF Branch, GenPcs
    <2>3. QueueInv(evq', compare')
      BY <1>0, <1>1 DEF Branch, regs
    <2>. QED  BY <1>0, <1>1, <2>1, <2>2, <2>3
         DEF IInv, TypeOK, Branch, regs, control
  <1>2. CASE BranchIdle
    <2>1. count' \in Counts
      BY <1>0, <1>2, IdleCount
    <2>. QED  BY <1>0, <1>2, <2>1, ConstantsAssumption
         DEF IInv, TypeOK, BranchIdle, regs, control
  <1>3. CASE ArmVi
    <2>1. count' \in Counts /\ budget' \in 0 .. MaxInstr /\ delay_slot' \in BOOLEAN
      BY <1>0, <1>3, AdvanceCount, BudgetSpent DEF ArmVi
    <2>2. next_vi' \in Counts
      BY <1>3, <2>1, CountArithmetic, ConstantsAssumption DEF ArmVi
    <2>3. QueueInv(evq', compare)
      BY <1>0, <1>3, <2>1, <2>2, QueueInvAdd, OtherTypes DEF ArmVi
    <2>. QED  BY <1>0, <1>3, <2>1, <2>2, <2>3
         DEF IInv, TypeOK, QueueInv, ArmVi, control
  <1>4. CASE WriteMiMask
    <2>1. count' \in Counts /\ budget' \in 0 .. MaxInstr /\ delay_slot' \in BOOLEAN
      BY <1>0, <1>4, AdvanceCount, BudgetSpent DEF WriteMiMask
    <2>2. QueueInv(evq', compare) /\ cause' \in SUBSET {2, 4, 7}
      <3>1. count \in Counts
        BY <1>0 DEF TypeOK
      <3>. QED  BY <1>0, <1>4, <3>1, CheckHandled DEF WriteMiMask
    <2>3. mi' \in [intr : SUBSET RcpEvents, mask : SUBSET RcpEvents]
      BY <1>0, <1>4, ConstantsAssumption DEF WriteMiMask, TypeOK
    <2>. QED  BY <1>0, <1>4, <2>1, <2>2, <2>3
         DEF IInv, TypeOK, QueueInv, WriteMiMask, GenPcs, control
  <1>5. CASE MTC0_Status
    <2>1. /\ count' \in Counts /\ budget' \in 0 .. MaxInstr
          /\ delay_slot' \in BOOLEAN /\ status' \in StatusRegs
      BY <1>0, <1>5, AdvanceCount, BudgetSpent, ConstantsAssumption DEF MTC0_Status
    <2>2. QueueInv(evq', compare) /\ cause' \in SUBSET {2, 4, 7}
      BY <1>0, <1>5, <2>1, CheckHandled DEF MTC0_Status
    <2>. QED  BY <1>0, <1>5, <2>1, <2>2
         DEF IInv, TypeOK, QueueInv, MTC0_Status, GenPcs, regs, control
  <1>6. CASE MTC0_Compare
    <2>1. /\ count' \in Counts /\ budget' \in 0 .. MaxInstr
          /\ delay_slot' \in BOOLEAN /\ compare' \in Counts
      BY <1>0, <1>6, AdvanceCount, BudgetSpent, ConstantsAssumption DEF MTC0_Compare
    <2>2. QueueInv(evq', compare')
      BY <1>0, <1>6, <2>1, QueueInvNewCompare DEF MTC0_Compare
    <2>. QED  BY <1>0, <1>6, <2>1, <2>2
         DEF IInv, TypeOK, QueueInv, MTC0_Compare, control
  <1>7. CASE MTC0_Count
    <2>1. /\ count' \in Counts /\ budget' \in 0 .. MaxInstr /\ newcount' \in Counts
          /\ delay_slot' \in BOOLEAN
      BY <1>0, <1>7, AdvanceCount, BudgetSpent, ConstantsAssumption DEF MTC0_Count
    <2>. QED  BY <1>0, <1>7, <2>1
         DEF IInv, TypeOK, MTC0_Count, GenPcs, regs, control
  <1>8. CASE Translate
    <2>1. QueueInv(evq', compare)
      BY <1>0, <1>8, QueueInvTranslate DEF Translate, TypeOK
    <2>. QED  BY <1>0, <1>8, <2>1, ZeroCount
         DEF IInv, TypeOK, QueueInv, Translate, regs, control
  <1>9. CASE MTC0_Cause
    <2>1. budget' \in 0 .. MaxInstr /\ delay_slot' \in BOOLEAN
      BY <1>0, <1>9, BudgetSpent DEF MTC0_Cause
    <2>. QED  BY <1>0, <1>9, <2>1 DEF IInv, TypeOK, MTC0_Cause, regs
  <1>10. CASE ERET
    <2>1. /\ count' \in Counts /\ budget' \in 0 .. MaxInstr
          /\ delay_slot' \in BOOLEAN /\ stop' \in BOOLEAN
      BY <1>0, <1>10, AdvanceCount, BudgetSpent DEF ERET, TypeOK, StatusRegs
    <2>2. status' \in StatusRegs
      BY <1>0, <1>10 DEF ERET, TypeOK, StatusRegs
    <2>3. QueueInv(evq', compare) /\ cause' \in SUBSET {2, 4, 7}
      BY <1>0, <1>10, <2>1, CheckHandled DEF ERET
    <2>. QED  BY <1>0, <1>10, <2>1, <2>2, <2>3
         DEF IInv, TypeOK, QueueInv, ERET, GenPcs, regs
  <1>11. CASE GuestException
    <2>1. count' \in Counts /\ budget' \in 0 .. MaxInstr /\ delay_slot' \in BOOLEAN
      BY <1>0, <1>11, AdvanceCount, BudgetSpent DEF GuestException
    <2>2. status' \in StatusRegs
      BY <1>0, <1>11, StatusExl DEF GuestException, TypeOK
    <2>3. QueueInv(evq', compare)
      BY <1>0, <1>11, QueueInvNext, ZeroCount DEF GuestException
    <2>. QED  BY <1>0, <1>11, <2>1, <2>2, <2>3
         DEF IInv, TypeOK, QueueInv, GuestException, regs, control
  <1>12. CASE \E t \in Dma : StartDma(t)
    <2>1. PICK t \in Dma : StartDma(t)
      BY <1>12
    <2>2. t \in EventTypes \ {SPECIAL_INT, COMPARE_INT}
      BY OtherTypes, ConstantsAssumption
    <2>3. count' \in Counts /\ budget' \in 0 .. MaxInstr /\ delay_slot' \in BOOLEAN
      BY <1>0, <2>1, AdvanceCount, BudgetSpent DEF StartDma
    <2>4. PICK d \in DmaDelays : evq' = add_interrupt_event(evq, count', t, d)
      BY <2>1 DEF StartDma
    <2>5. Plus(count', d) \in Counts
      BY <2>3, CountArithmetic, ConstantsAssumption
    <2>6. QueueInv(evq', compare)
      BY <1>0, <2>2, <2>3, <2>4, <2>5, QueueInvAdd DEF add_interrupt_event
    <2>. QED  BY <1>0, <2>1, <2>3, <2>6
         DEF IInv, TypeOK, QueueInv, StartDma, regs, control
  <1>13. ASSUME NEW line, \/ clear_rcp_interrupt(line)
                          \/ line \in RcpEvents /\ signal_rcp_interrupt(line)
         PROVE  IInv'
    <2>1. budget' \in 0 .. MaxInstr /\ delay_slot' \in BOOLEAN
      BY <1>0, <1>13, BudgetSpent DEF clear_rcp_interrupt, signal_rcp_interrupt
    <2>2. mi' \in [intr : SUBSET RcpEvents, mask : SUBSET RcpEvents]
      BY <1>0, <1>13 DEF clear_rcp_interrupt, signal_rcp_interrupt, TypeOK
    <2>3. QueueInv(evq', compare) /\ cause' \in SUBSET {2, 4, 7}
      <3>1. count \in Counts
        BY <1>0 DEF TypeOK
      <3>2. r4300_check_interrupt(evq, status, count, mi'.intr \cap mi.mask # {})
        BY <1>13 DEF clear_rcp_interrupt, signal_rcp_interrupt
      <3>. QED  BY <1>0, <3>1, <3>2, CheckHandled
    <2>. QED  BY <1>0, <1>13, <2>1, <2>2, <2>3
         DEF IInv, TypeOK, QueueInv, clear_rcp_interrupt, signal_rcp_interrupt, control
  <1>14. Dma \cap {SP_INT, DP_INT} \subseteq RcpEvents
    BY ConstantsAssumption
  <1>15. CASE do_SP_Task
    <2>1. count' \in Counts /\ budget' \in 0 .. MaxInstr /\ delay_slot' \in BOOLEAN
      BY <1>0, <1>15, AdvanceCount, BudgetSpent DEF do_SP_Task
    <2>2. PICK ack \in BOOLEAN, gfx \in BOOLEAN, frozen \in BOOLEAN,
               d1 \in DmaDelays, d2 \in DmaDelays,
               raised \in SUBSET ({SP_INT, DP_INT} \cap Dma) :
             SpTaskLines(ack, gfx, frozen, raised, d1, d2)
      BY <1>15 DEF do_SP_Task
    <2>. DEFINE before == IF ack THEN mi.intr \ {SP_INT} ELSE mi.intr
                up == before \cap mi.mask # {}
                lines == before \cup raised
                dp == gfx /\ DP_INT \in lines /\ ~frozen
                e0 == IF ack THEN CheckQueue(evq, status, count, up) ELSE evq
                e1 == IF dp THEN add_interrupt_event(e0, count', DP_INT, d1) ELSE e0
    <2>3. cause' \in SUBSET {2, 4, 7}
      BY <1>0, <2>2 DEF SpTaskLines, CheckCause, TypeOK
    <2>4. QueueInv(e0, compare)
      <3>1. QueueInv(CheckQueue(evq, status, count, up), compare)
        <4>1. count \in Counts
          BY <1>0 DEF TypeOK
        <4>. HIDE DEF up
        <4>. QED  BY <1>0, <4>1, CheckQueueInv
      <3>. QED  BY <1>0, <3>1
    <2>5. Plus(count', d1) \in Counts /\ Plus(count', d2) \in Counts
      BY <2>1, CountArithmetic, ConstantsAssumption
    <2>6. DP_INT \in RcpEvents /\ SP_INT \in RcpEvents
      BY DEF RcpEvents
    <2>7. QueueInv(e1, compare)
      <3>. HIDE DEF e0, dp
      <3>1. QueueInv(add_interrupt_event(e0, count', DP_INT, d1), compare)
        BY <2>1, <2>4, <2>5, <2>6, OtherTypes, QueueInvAdd DEF add_interrupt_event
      <3>. QED  BY <2>4, <3>1
    <2>8. QueueInv(evq', compare)
      <3>1. \/ evq' = e1
            \/ evq' = add_interrupt_event(e1, count', SP_INT, d2)
        BY <2>2 DEF SpTaskLines
      <3>. HIDE DEF e1
      <3>2. QueueInv(add_interrupt_event(e1, count', SP_INT, d2), compare)
        BY <2>1, <2>5, <2>6, <2>7, OtherTypes, QueueInvAdd DEF add_interrupt_event
      <3>. QED  BY <2>7, <3>1, <3>2
    <2>9. mi' \in [intr : SUBSET RcpEvents, mask : SUBSET RcpEvents]
      <3>1. lines \in SUBSET RcpEvents
        BY <1>0, <2>6 DEF TypeOK
      <3>2. mi' = [mi EXCEPT !.intr =
                    lines \ (IF gfx THEN {SP_INT, DP_INT} ELSE {SP_INT})]
        BY <2>2 DEF SpTaskLines
      <3>. HIDE DEF lines
      <3>. QED  BY <1>0, <3>1, <3>2 DEF TypeOK
    <2>. QED  BY <1>0, <1>15, <2>1, <2>3, <2>8, <2>9
         DEF IInv, TypeOK, QueueInv, do_SP_Task, control
  <1>. QED  BY <1>1, <1>2, <1>3, <1>4, <1>5, <1>6, <1>7, <1>8, <1>9, <1>10,
               <1>11, <1>12, <1>13, <1>14, <1>15
       DEF CpuLoop

-----------------------------------------------------------------------------
\* The inductive invariant holds at power-on.
LEMMA InitInv == Init => IInv
  <1>1. QueueInv(PoweronQueue(FALSE), 0)
    BY PoweronInv
  <1>2. ASSUME Init PROVE TypeOK
    <2>1. MaxInstr \in Nat /\ InitCount \in Counts
      BY ConstantsAssumption
    <2>2. budget \in 0 .. MaxInstr
      BY <1>2, <2>1 DEF Init
    <2>3. evq \in Queues
      BY <1>1, <1>2 DEF Init, QueueInv
    <2>4. status \in StatusRegs /\ cause \in SUBSET {2, 4, 7}
      BY <1>2 DEF Init, BootStatus, StatusRegs
    <2>. QED  BY <1>2, <2>1, <2>2, <2>3, <2>4, ZeroCount DEF Init, TypeOK
  <1>. QED  BY <1>1, <1>2 DEF Init, IInv

\* Every step preserves the inductive invariant.
LEMMA NextInv == IInv /\ [Next]_vars => IInv'
  <1>1. ASSUME IInv, UNCHANGED vars PROVE IInv'
    BY <1>1 DEF IInv, TypeOK, QueueInv, vars
  <1>. QED  BY <1>1, GenInterruptInv, CpuLoopInv DEF Next

\* The inductive invariant holds in every state of the core.
LEMMA Invariance == Spec => []IInv
  BY InitInv, NextInv, PTL DEF Spec

\* Type correctness of the interpreters' event and interrupt delivery.
THEOREM TypeCorrect == Spec => []TypeOK
  BY Invariance, PTL DEF IInv

\* The wrap marker is queued exactly once (at most once after alloc_node failed):
\* special_int_handler, init_interrupt and translate_event_queue keep it so.
THEOREM WrapMarkerOnce == Spec => []SpecialOnce
  <1>1. IInv => SpecialOnce
    BY DEF IInv, QueueInv, SpecialOnce
  <1>. QED  BY <1>1, Invariance, PTL

\* gen_interrupt, remove_interrupt_event and the savestate writer may use q.first
\* without a test for NULL, for every capacity of the node pool from 2 on.
THEOREM QueueNeverEmpty == Spec => []FirstNotNull
  <1>1. IInv => FirstNotNull
    BY DEF IInv, QueueInv, FirstNotNull
  <1>. QED  BY <1>1, Invariance, PTL

\* The timer event is never queued twice and never at a stale Compare, across
\* compare_int_handler, MTC0 Compare, MTC0 Count and the resets.
THEOREM TimerAtCompare == Spec => []TimerFollowsCompare
  <1>1. IInv => TimerFollowsCompare
    BY DEF IInv, QueueInv, TimerFollowsCompare
  <1>. QED  BY <1>1, Invariance, PTL

-----------------------------------------------------------------------------
\* An exception leaves EXL set.
LEMMA ExceptionDisables ==
    ASSUME TypeOK, NEW e, exception_general(e)
    PROVE  ~Enabled(status')
  BY DEF TypeOK, StatusRegs, exception_general, Enabled

\* Raising the timer or the reset line leaves IP2 and the MI alone.
LEMMA MaskableLevel ==
    ASSUME TypeOK, IrqLevel, NEW e, NEW ip \in {4, 7},
           raise_maskable_interrupt(e, ip), mi' = mi
    PROVE  IrqLevel'
  <1>1. 2 \in cause' <=> 2 \in cause
    BY DEF raise_maskable_interrupt
  <1>2. CASE exception_general(e)
    BY <1>2, ExceptionDisables DEF IrqLevel
  <1>3. CASE evq' = e /\ UNCHANGED <<status, count, skip_jump>>
    BY <1>1, <1>3 DEF IrqLevel
  <1>. QED  BY <1>2, <1>3 DEF raise_maskable_interrupt

\* raise_rcp_interrupt sets IP2 when a line it leaves is unmasked.
LEMMA RcpLevel ==
    ASSUME TypeOK, IrqLevel, NEW e, NEW line, raise_rcp_interrupt(e, line)
    PROVE  IrqLevel'
  <1>1. mi'.intr = mi.intr \cup {line} /\ mi'.mask = mi.mask
    BY DEF raise_rcp_interrupt, TypeOK
  <1>2. CASE (mi.intr \cup {line}) \cap mi.mask # {}
    <2>1. raise_maskable_interrupt(e, 2)
      BY <1>2 DEF raise_rcp_interrupt
    <2>2. 2 \in cause'
      BY <2>1 DEF raise_maskable_interrupt
    <2>3. mi'.intr \cap mi'.mask # {}
      BY <1>1, <1>2
    <2>. QED  BY <2>2, <2>3 DEF IrqLevel
  <1>3. CASE ~((mi.intr \cup {line}) \cap mi.mask # {})
    <2>1. UNCHANGED <<status, cause>>
      BY <1>3 DEF raise_rcp_interrupt
    <2>2. mi'.intr \cap mi'.mask = {}
      BY <1>1, <1>3
    <2>. QED  BY <2>1, <2>2 DEF IrqLevel
  <1>. QED  BY <1>2, <1>3

\* r4300_check_interrupt sets IP2 when it is told of an unmasked line.
LEMMA CheckLevel ==
    ASSUME NEW e, NEW st, NEW c, NEW up \in BOOLEAN,
           r4300_check_interrupt(e, st, c, up),
           mi'.intr \cap mi'.mask # {} => up
    PROVE  IrqLevel'
  <1>1. up => 2 \in cause'
    BY DEF r4300_check_interrupt, CheckCause
  <1>. QED  BY <1>1 DEF IrqLevel

\* Every way through gen_interrupt preserves IrqLevel.
LEMMA GenInterruptLevel ==
    ASSUME TypeOK, IrqLevel, GenInterrupt
    PROVE  IrqLevel'
  <1>1. CASE ViInt
    BY <1>1, RcpLevel DEF ViInt
  <1>2. CASE CompareInt \/ Hw2Int
    BY <1>2, MaskableLevel DEF CompareInt, Hw2Int, regs
  <1>3. CASE CheckInt
    BY <1>3, ExceptionDisables DEF CheckInt, IrqLevel
  <1>4. CASE SpecialInt \/ SkipJump
    BY <1>4 DEF SpecialInt, SkipJump, regs, IrqLevel
  <1>5. CASE NmiInt \/ ResetHard
    BY <1>5 DEF NmiInt, ResetHard, BootStatus, Enabled, IrqLevel
  <1>6. CASE \E t \in Dma : DmaInt(t)
    BY <1>6, RcpLevel DEF DmaInt, IrqLevel
  <1>. QED  BY <1>1, <1>2, <1>3, <1>4, <1>5, <1>6 DEF GenInterrupt

\* Every step of the CPU loop preserves IrqLevel.
LEMMA CpuLoopLevel ==
    ASSUME ~CauseAnytime, TypeOK, IrqLevel, CpuLoop
    PROVE  IrqLevel'
  <1>1. CASE Branch \/ BranchIdle \/ ArmVi \/ MTC0_Count \/ Translate
             \/ \E t \in Dma : StartDma(t)
    BY <1>1 DEF Branch, BranchIdle, ArmVi, MTC0_Count, Translate, StartDma,
                regs, IrqLevel
  <1>2. CASE WriteMiMask
    <2>1. mi'.intr = mi.intr
      BY <1>2 DEF WriteMiMask, TypeOK
    <2>. QED  BY <1>2, <2>1, CheckLevel DEF WriteMiMask
  <1>3. CASE MTC0_Status \/ ERET
    BY <1>3, CheckLevel DEF MTC0_Status, ERET, regs
  <1>4. CASE MTC0_Compare
    BY <1>4 DEF MTC0_Compare, IrqLevel
  <1>5. CASE MTC0_Cause
    BY <1>5 DEF MTC0_Cause, IrqLevel
  <1>6. CASE GuestException
    BY <1>6 DEF GuestException, Enabled, IrqLevel, TypeOK, StatusRegs
  <1>7. ASSUME NEW line, clear_rcp_interrupt(line) \/ signal_rcp_interrupt(line)
        PROVE  IrqLevel'
    <2>1. mi'.mask = mi.mask
      BY <1>7 DEF clear_rcp_interrupt, signal_rcp_interrupt, TypeOK
    <2>. QED  BY <1>7, <2>1, CheckLevel DEF clear_rcp_interrupt, signal_rcp_interrupt
  <1>8. CASE do_SP_Task
    <2>1. PICK ack \in BOOLEAN, gfx \in BOOLEAN, frozen \in BOOLEAN,
               d1 \in DmaDelays, d2 \in DmaDelays,
               raised \in SUBSET ({SP_INT, DP_INT} \cap Dma) :
             /\ DP_INT \in raised => gfx
             /\ SpTaskLines(ack, gfx, frozen, raised, d1, d2)
      BY <1>8 DEF do_SP_Task
    <2>. DEFINE before == IF ack THEN mi.intr \ {SP_INT} ELSE mi.intr
    <2>2. mi'.intr \subseteq before /\ mi'.mask = mi.mask
      <3>1. mi' = [mi EXCEPT !.intr = (before \cup raised) \
                      (IF gfx THEN {SP_INT, DP_INT} ELSE {SP_INT})]
        BY <2>1 DEF SpTaskLines
      <3>. HIDE DEF before
      <3>. QED  BY <2>1, <3>1 DEF TypeOK
    <2>3. cause' = IF ack THEN CheckCause(before \cap mi.mask # {}) ELSE cause
      BY <2>1 DEF SpTaskLines
    <2>4. status' = status
      BY <1>8 DEF do_SP_Task
    <2>5. ASSUME mi'.intr \cap mi'.mask # {}
          PROVE  before \cap mi.mask # {}
      BY <2>2, <2>5
    <2>. QED  BY <2>4, <2>5, <2>3 DEF IrqLevel, CheckCause
  <1>. QED  BY <1>1, <1>2, <1>3, <1>4, <1>5, <1>6, <1>7, <1>8 DEF CpuLoop

\* Whenever the CPU may take an interrupt, an unmasked line that is up shows in
\* IP2, although faults, MTC0 Cause and the resets overwrite Cause: for guests that
\* write Cause only with interrupts disabled.
THEOREM IrqLevelHolds ==
    ASSUME ~CauseAnytime
    PROVE  Spec => []IrqLevel
  <1>1. Init => IrqLevel
    BY DEF Init, BootStatus, Enabled, IrqLevel
  <1>2. TypeOK /\ IrqLevel /\ [Next]_vars => IrqLevel'
    <2>1. ASSUME IrqLevel, UNCHANGED vars PROVE IrqLevel'
      BY <2>1 DEF IrqLevel, vars
    <2>. QED  BY <2>1, GenInterruptLevel, CpuLoopLevel DEF Next
  <1>. QED  BY <1>1, <1>2, TypeCorrect, PTL DEF Spec

-----------------------------------------------------------------------------
\* No MTC0 Count in a delay slot: it would queue the events anew and so move
\* next_interrupt away from the 0 that an exception in the slot has set.
CountOutsideSlots == [][MTC0_Count => ~delay_slot']_vars

\* The jump an exception in a delay slot left behind is made by the branch.
SkipJumpKept ==
    skip_jump => evq.next_interrupt = 0 /\ (delay_slot \/ pc \in GenPcs)

\* Its strengthening.
SkipInv ==
    /\ SkipJumpKept
    /\ pc \in {"count", "translate"} => ~delay_slot

\* What a handler called by gen_interrupt leaves of a delay slot.
LEMMA DispatchSkip ==
    ASSUME TypeOK, SkipInv, NEW type, Dispatch(type), delay_slot' = delay_slot,
           skip_jump' \in BOOLEAN,
           skip_jump' => delay_slot /\ evq'.next_interrupt = 0
    PROVE  SkipInv'
  BY DEF SkipInv, SkipJumpKept, Dispatch, Dispatching, TypeOK, GenPcs

\* exception_general forces the next test of next_interrupt when it delays the jump.
LEMMA ExceptionSkip ==
    ASSUME TypeOK, evq' \in Queues, NEW e, exception_general(e), ~skip_jump
    PROVE  skip_jump' \in BOOLEAN /\ (skip_jump' => delay_slot /\ evq'.next_interrupt = 0)
  <1>1. skip_jump' \in BOOLEAN /\ (skip_jump' => delay_slot)
    BY DEF exception_general, TypeOK
  <1>2. ASSUME delay_slot PROVE evq'.next_interrupt = 0
    <2>1. evq' = [e EXCEPT !.next_interrupt = 0]
      BY <1>2 DEF exception_general
    <2>2. DOMAIN evq' = DOMAIN e
      BY <2>1
    <2>3. "next_interrupt" \in DOMAIN evq'
      BY DEF Queues
    <2>. QED  BY <2>1, <2>2, <2>3
  <1>. QED  BY <1>1, <1>2

\* So does raise_maskable_interrupt.
LEMMA MaskableSkip ==
    ASSUME TypeOK, evq' \in Queues, NEW e, NEW ip, raise_maskable_interrupt(e, ip),
           ~skip_jump
    PROVE  skip_jump' \in BOOLEAN /\ (skip_jump' => delay_slot /\ evq'.next_interrupt = 0)
  BY ExceptionSkip DEF raise_maskable_interrupt, TypeOK

\* And raise_rcp_interrupt.
LEMMA RcpSkip ==
    ASSUME TypeOK, evq' \in Queues, NEW e, NEW line, raise_rcp_interrupt(e, line),
           ~skip_jump
    PROVE  skip_jump' \in BOOLEAN /\ (skip_jump' => delay_slot /\ evq'.next_interrupt = 0)
  BY MaskableSkip DEF raise_rcp_interrupt, TypeOK

\* Every way through gen_interrupt preserves SkipInv.
LEMMA GenInterruptSkip ==
    ASSUME TypeOK, TypeOK', SkipInv, GenInterrupt
    PROVE  SkipInv'
  <1>0. evq' \in Queues
    BY DEF TypeOK
  <1>1. CASE ViInt
    <2>1. Dispatch(VI_INT) /\ ~skip_jump /\ delay_slot' = delay_slot
      BY <1>1 DEF ViInt, Dispatch, Dispatching
    <2>2. PICK e : raise_rcp_interrupt(e, VI_INT)
      BY <1>1 DEF ViInt
    <2>. QED  BY <1>0, <2>1, <2>2, RcpSkip, DispatchSkip
  <1>2. CASE CompareInt
    <2>1. Dispatch(COMPARE_INT) /\ ~skip_jump /\ delay_slot' = delay_slot
      BY <1>2 DEF CompareInt, Dispatch, Dispatching
    <2>2. PICK e : raise_maskable_interrupt(e, 7)
      BY <1>2 DEF CompareInt
    <2>. QED  BY <1>0, <2>1, <2>2, MaskableSkip, DispatchSkip
  <1>3. CASE CheckInt
    <2>1. Dispatch(CHECK_INT) /\ ~skip_jump /\ delay_slot' = delay_slot
      BY <1>3 DEF CheckInt, Dispatch, Dispatching
    <2>. QED  BY <1>0, <1>3, <2>1, ExceptionSkip, DispatchSkip DEF CheckInt
  <1>4. CASE SpecialInt
    <2>1. Dispatch(SPECIAL_INT) /\ ~skip_jump /\ skip_jump' = skip_jump
          /\ delay_slot' = delay_slot
      BY <1>4 DEF SpecialInt, Dispatch, Dispatching
    <2>2. skip_jump' \in BOOLEAN
      BY DEF TypeOK
    <2>. QED  BY <2>1, <2>2, DispatchSkip
  <1>5. CASE Hw2Int
    <2>1. Dispatch(HW2_INT) /\ ~skip_jump /\ delay_slot' = delay_slot
      BY <1>5 DEF Hw2Int, Dispatch, Dispatching
    <2>. QED  BY <1>0, <1>5, <2>1, MaskableSkip, DispatchSkip DEF Hw2Int
  <1>6. CASE NmiInt
    <2>1. ~skip_jump' /\ ~delay_slot'
      BY <1>6 DEF NmiInt, Dispatch, Dispatching
    <2>. QED  BY <2>1 DEF SkipInv, SkipJumpKept
  <1>7. CASE \E t \in Dma : DmaInt(t)
    <2>1. PICK t \in Dma : DmaInt(t)
      BY <1>7
    <2>2. Dispatch(t) /\ ~skip_jump /\ delay_slot' = delay_slot
      BY <2>1 DEF DmaInt, Dispatch, Dispatching
    <2>3. skip_jump' \in BOOLEAN /\ (skip_jump' => delay_slot /\ evq'.next_interrupt = 0)
      <3>1. ASSUME NEW e, NEW line, raise_rcp_interrupt(e, line)
            PROVE  skip_jump' \in BOOLEAN /\ (skip_jump' => delay_slot /\ evq'.next_interrupt = 0)
        BY <1>0, <2>2, <3>1, RcpSkip
      <3>. QED  BY <2>1, <2>2, <3>1 DEF DmaInt, TypeOK
    <2>. QED  BY <2>2, <2>3, DispatchSkip
  <1>8. CASE ResetHard
    BY <1>8 DEF ResetHard, SkipInv, SkipJumpKept
  <1>9. CASE SkipJump
    BY <1>9 DEF SkipJump, SkipInv, SkipJumpKept
  <1>. QED  BY <1>1, <1>2, <1>3, <1>4, <1>5, <1>6, <1>7, <1>8, <1>9
       DEF GenInterrupt

\* An instruction starts with no jump pending; most leave skip_jump alone.
LEMMA InstructionSkip ==
    ASSUME TypeOK, SkipInv, Instruction, skip_jump' = skip_jump,
           pc' \in {"run", "gen", "status"}
    PROVE  SkipInv'
  BY DEF TypeOK, SkipInv, SkipJumpKept, Instruction, GenPcs

\* Every step of the CPU loop preserves SkipInv.
LEMMA CpuLoopSkip ==
    ASSUME TypeOK, TypeOK', SkipInv, CpuLoop, MTC0_Count => ~delay_slot'
    PROVE  SkipInv'
  <1>1. CASE Branch
    <2>1. evq' = evq /\ skip_jump' = skip_jump /\ delay_slot' = FALSE
          /\ pc' = (IF evq.next_interrupt <= count' THEN "gen" ELSE "run")
      BY <1>1 DEF Branch
    <2>2. ASSUME skip_jump PROVE evq.next_interrupt = 0 /\ pc' = "gen"
      <3>1. evq.next_interrupt = 0
        BY <2>2 DEF SkipInv, SkipJumpKept
      <3>2. 0 <= count'
        BY CountModAssumption DEF TypeOK, Counts
      <3>. QED  BY <2>1, <3>1, <3>2
    <2>. QED  BY <2>1, <2>2 DEF SkipInv, SkipJumpKept, GenPcs
  <1>2. CASE BranchIdle
    BY <1>2 DEF BranchIdle, SkipInv, SkipJumpKept
  <1>3. CASE do_SP_Task \/ ArmVi \/ WriteMiMask \/ MTC0_Status \/ MTC0_Compare \/ MTC0_Cause
             \/ ERET \/ \E t \in Dma : StartDma(t)
    <2>1. Instruction /\ skip_jump' = skip_jump /\ pc' \in {"run", "gen", "status"}
      BY <1>3 DEF do_SP_Task, ArmVi, WriteMiMask, MTC0_Status, MTC0_Compare, MTC0_Cause, ERET,
                  StartDma, Instruction
    <2>. QED  BY <2>1, InstructionSkip
  <1>4. ASSUME NEW line, clear_rcp_interrupt(line) \/ signal_rcp_interrupt(line)
        PROVE  SkipInv'
    <2>1. Instruction /\ skip_jump' = skip_jump /\ pc' \in {"run", "gen", "status"}
      BY <1>4 DEF clear_rcp_interrupt, signal_rcp_interrupt, Instruction
    <2>. QED  BY <2>1, InstructionSkip
  <1>5. CASE MTC0_Count
    <2>1. ~skip_jump' /\ ~delay_slot'
      BY <1>5 DEF MTC0_Count, Instruction, SkipInv, SkipJumpKept, GenPcs
    <2>. QED  BY <2>1 DEF SkipInv, SkipJumpKept
  <1>6. CASE Translate
    <2>1. ~skip_jump' /\ pc' = "run"
      BY <1>6 DEF Translate, SkipInv, SkipJumpKept, GenPcs
    <2>. QED  BY <2>1 DEF SkipInv, SkipJumpKept
  <1>7. CASE GuestException
    <2>1. (skip_jump' => delay_slot') /\ pc' = "run"
      BY <1>7 DEF GuestException, Instruction, SkipInv, SkipJumpKept, GenPcs
    <2>2. delay_slot' => evq'.next_interrupt = 0
      BY <1>7 DEF GuestException, TypeOK, Queues
    <2>. QED  BY <2>1, <2>2 DEF SkipInv, SkipJumpKept
  <1>. QED  BY <1>1, <1>2, <1>3, <1>4, <1>5, <1>6, <1>7 DEF CpuLoop

\* An exception in a delay slot reaches its vector at the next branch: no queue
\* operation between the two moves next_interrupt away from 0.
LEMMA DelayedJumpKept == Spec /\ CountOutsideSlots => []SkipJumpKept
  <1>1. Init => SkipInv
    BY DEF Init, SkipInv, SkipJumpKept
  <1>2. TypeOK /\ TypeOK' /\ SkipInv /\ [Next]_vars /\ [MTC0_Count => ~delay_slot']_vars
           => SkipInv'
    <2>1. ASSUME SkipInv, UNCHANGED vars PROVE SkipInv'
      BY <2>1 DEF SkipInv, SkipJumpKept, vars
    <2>. QED  BY <2>1, GenInterruptSkip, CpuLoopSkip DEF Next
  <1>3. SkipInv => SkipJumpKept
    BY DEF SkipInv
  <1>. QED  BY <1>1, <1>2, <1>3, TypeCorrect, PTL DEF Spec, CountOutsideSlots
=============================================================================
