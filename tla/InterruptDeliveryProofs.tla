---------------------- MODULE InterruptDeliveryProofs ----------------------
(***************************************************************************)
(* That events and interrupts arrive: FrameScheduled and IrqNotLost of     *)
(* R4300Interrupts.                                                        *)
(*                                                                         *)
(* FrameScheduled: no operation but the VI's own handler, the resets and   *)
(* MTC0 Count takes a VI_INT out of the queue or moves it (KeepsVi).  It   *)
(* is proved for guests that do not write Count, and while alloc_node has  *)
(* not failed.                                                             *)
(*                                                                         *)
(* IrqNotLost: from the moment an interrupt is both pending and enabled, a *)
(* CHECK_INT is first in the queue, and it is due.  The instructions that  *)
(* follow up to the branch may queue events in front of it only when Count *)
(* has gone a sixteenth of its range past it (before_event); ShortBlocks   *)
(* says that a block of guest code is shorter than that.  It rests on      *)
(* IrqLevel (so on ~CauseAnytime) and, through DelayedJumpKept, on         *)
(* CountOutsideSlots.                                                      *)
(***************************************************************************)
EXTENDS R4300InterruptsProofs

\* Between two branches Count advances by less than a sixteenth of its range, B at
\* a time.
ShortBlocks(B) ==
    /\ B \in Nat /\ \A d \in BlockCounts : d <= B
    /\ MaxInstr * B < Sixteenth

\* An enabled interrupt is pending.
Due == Enabled(status) /\ status.im \cap cause # {}

\* A jump out of a delay slot waits only after an exception.
SkipExl == skip_jump => status.exl

\* A CHECK_INT at count x is first in the queue e, and the CPU loop tests for it.
CheckAt(e, x) ==
    /\ e \in Queues /\ e.q # << >>
    /\ e.q[1].type = CHECK_INT /\ e.q[1].count = x /\ e.next_interrupt = x

\* An interrupt that is due has its CHECK_INT in front, and Count is not further past
\* it than the instructions of this block have taken it.
IrqInv(B) ==
    ~evq.failed /\ Due =>
        /\ pc \in GenPcs \cup {"run"} /\ evq.q[1].type = CHECK_INT
        /\ pc = "run" => /\ CheckAt(evq, evq.next_interrupt)
                         /\ evq.next_interrupt <= count
                         /\ count - evq.next_interrupt <= (MaxInstr - budget) * B

\* The VI_INT that vi->next_vi records is queued, also while gen_interrupt runs.
FrameInv ==
    /\ pc \in {"run", "gen", "status"}
    /\ ~evq.failed /\ next_vi # 0 => [type |-> VI_INT, count |-> next_vi] \in Range(evq.q)
-----------------------------------------------------------------------------
(* FrameScheduled *)

\* The queue r has every VI_INT of e at its count, unless a node was refused.
KeepsVi(e, r) ==
    /\ r \in Queues
    /\ e.failed => r.failed
    /\ ~r.failed => \A ev \in Events : ev.type = VI_INT /\ ev \in Range(e.q)
                                          => ev \in Range(r.q)

\* Two operations that keep every VI_INT keep it one after the other.
LEMMA KeepsViTrans ==
    ASSUME NEW e, NEW r, NEW s, KeepsVi(e, r), KeepsVi(r, s)
    PROVE  KeepsVi(e, s)
  BY DEF KeepsVi

\* The list alone matters.
LEMMA KeepsViSame ==
    ASSUME NEW e, NEW r \in Queues, r.q = e.q, r.failed \/ r.failed = e.failed
    PROVE  KeepsVi(e, r)
  BY DEF KeepsVi

\* An insertion keeps all nodes and adds its own.
LEMMA InsertionNodes ==
    ASSUME NEW q \in Seq(Events), NEW ev, NEW r, IsInsertion(r, q, ev)
    PROVE  ev \in Range(r) /\ Range(q) \subseteq Range(r)
  <1>1. /\ r \in Seq(Events) /\ Len(q) \in Nat /\ Len(r) = Len(q) + 1
        /\ DOMAIN r = 1 .. Len(q) + 1 /\ DOMAIN q = 1 .. Len(q)
    BY DEF IsInsertion
  <1>2. PICK k \in 1 .. Len(q) + 1 :
           /\ r[k] = ev
           /\ \A i \in 1 .. Len(q) + 1 : i < k => r[i] = q[i]
           /\ \A i \in 1 .. Len(q) + 1 : i > k => r[i] = q[i - 1]
    BY DEF IsInsertion
  <1>3. ev \in Range(r)
    BY <1>1, <1>2 DEF Range
  <1>4. ASSUME NEW i \in 1 .. Len(q) PROVE q[i] \in Range(r)
    <2>1. CASE i < k
      BY <1>1, <1>2, <2>1 DEF Range
    <2>2. CASE ~(i < k)
      <3>1. i + 1 \in 1 .. Len(q) + 1 /\ i + 1 > k /\ (i + 1) - 1 = i
        BY <1>1, <2>2
      <3>2. r[i + 1] = q[i]
        BY <1>2, <3>1
      <3>. QED  BY <1>1, <3>1, <3>2 DEF Range
    <2>. QED  BY <2>1, <2>2
  <1>. QED  BY <1>1, <1>3, <1>4 DEF Range

\* A removal keeps all nodes but its own.
LEMMA RemovalNodes ==
    ASSUME NEW q \in Seq(Events), NEW k \in 1 .. Len(q), NEW r, IsRemoval(r, q, k),
           NEW ev \in Range(q), ev # q[k]
    PROVE  ev \in Range(r)
  <1>1. /\ r \in Seq(Events) /\ Len(q) \in Nat /\ Len(r) = Len(q) - 1
        /\ DOMAIN r = 1 .. Len(q) - 1 /\ DOMAIN q = 1 .. Len(q)
        /\ \A i \in 1 .. Len(q) - 1 : r[i] = IF i < k THEN q[i] ELSE q[i + 1]
    BY DEF IsRemoval
  <1>2. PICK i \in 1 .. Len(q) : ev = q[i]
    BY <1>1 DEF Range
  <1>3. CASE i < k
    <2>1. i \in 1 .. Len(q) - 1 /\ r[i] = ev
      BY <1>1, <1>2, <1>3
    <2>. QED  BY <1>1, <2>1 DEF Range
  <1>4. CASE i > k
    <2>1. i - 1 \in 1 .. Len(q) - 1 /\ ~(i - 1 < k) /\ (i - 1) + 1 = i
      BY <1>1, <1>2, <1>4
    <2>2. r[i - 1] = ev
      BY <1>1, <1>2, <2>1
    <2>. QED  BY <1>1, <2>1, <2>2 DEF Range
  <1>. QED  BY <1>2, <1>3, <1>4

\* add_interrupt_event_count keeps every VI_INT and, unless it is refused, queues its
\* own event.
LEMMA AddKeepsVi ==
    ASSUME NEW e \in Queues, NEW c \in Counts, NEW type \in EventTypes, NEW evt \in Counts
    PROVE  LET r == add_interrupt_event_count(e, c, type, evt)
           IN  /\ KeepsVi(e, r)
               /\ ~r.failed => [type |-> type, count |-> evt] \in Range(r.q)
  <1>. DEFINE r == add_interrupt_event_count(e, c, type, evt)
              ev == [type |-> type, count |-> evt]
  <1>1. /\ r \in Queues
        /\ Len(e.q) >= PoolCapacity => r.q = e.q /\ r.failed
        /\ Len(e.q) < PoolCapacity => r.failed = e.failed /\ IsInsertion(r.q, e.q, ev)
    BY AddEvent
  <1>. HIDE DEF r, ev
  <1>2. e.q \in Seq(Events) /\ Len(e.q) \in Nat
    BY DEF Queues
  <1>3. CASE Len(e.q) >= PoolCapacity
    BY <1>1, <1>3 DEF KeepsVi, r, ev
  <1>4. CASE Len(e.q) < PoolCapacity
    <2>1. ev \in Range(r.q) /\ Range(e.q) \subseteq Range(r.q)
      BY <1>1, <1>2, <1>4, InsertionNodes
    <2>. QED  BY <1>1, <1>4, <2>1 DEF KeepsVi, r, ev
  <1>. QED  BY <1>2, <1>3, <1>4, PoolCapacityAssumption

\* Removing a node of another type keeps every VI_INT.
LEMMA RemovalKeepsVi ==
    ASSUME NEW e \in Queues, NEW r \in Queues, r.failed = e.failed, NEW k \in 1 .. Len(e.q),
           e.q[k].type # VI_INT, IsRemoval(r.q, e.q, k)
    PROVE  KeepsVi(e, r)
  <1>1. e.q \in Seq(Events)
    BY DEF Queues
  <1>2. ASSUME NEW ev \in Events, ev.type = VI_INT, ev \in Range(e.q)
        PROVE  ev \in Range(r.q)
    BY <1>1, <1>2, RemovalNodes
  <1>. QED  BY <1>2 DEF KeepsVi

\* remove_event of another type keeps every VI_INT.
LEMMA RemoveEventKeepsVi ==
    ASSUME NEW e \in Queues, NEW type, type # VI_INT
    PROVE  KeepsVi(e, remove_event(e, type))
  <1>. DEFINE r == remove_event(e, type)
  <1>1. /\ r \in Queues /\ r.failed = e.failed
        /\ ~Has(e.q, type) => r = e
        /\ Has(e.q, type) => \E k \in 1 .. Len(e.q) :
                                e.q[k].type = type /\ IsRemoval(r.q, e.q, k)
    BY RemoveEvent
  <1>. HIDE DEF r
  <1>2. CASE Has(e.q, type)
    <2>1. PICK k \in 1 .. Len(e.q) : e.q[k].type = type /\ IsRemoval(r.q, e.q, k)
      BY <1>1, <1>2
    <2>2. KeepsVi(e, r)
      BY <1>1, <2>1, RemovalKeepsVi
    <2>. QED  BY <2>2 DEF r
  <1>3. CASE ~Has(e.q, type)
    <2>1. KeepsVi(e, r)
      BY <1>1, <1>3, KeepsViSame
    <2>. QED  BY <2>1 DEF r
  <1>. QED  BY <1>2, <1>3

\* r4300_check_interrupt keeps every VI_INT.
LEMMA CheckKeepsVi ==
    ASSUME NEW e \in Queues, NEW st, NEW c \in Counts, NEW up
    PROVE  KeepsVi(e, CheckQueue(e, st, c, up))
  <1>. DEFINE r == PushCheck(e, c)
              ev == [type |-> CHECK_INT, count |-> c]
  <1>1. e.q \in Seq(Events) /\ Len(e.q) \in Nat /\ ev \in Events
    BY OtherTypes DEF Queues, Events
  <1>2. CASE Len(e.q) >= PoolCapacity
    <2>1. r = [e EXCEPT !.failed = TRUE]
      BY <1>2 DEF PushCheck
    <2>2. r \in Queues /\ r.q = e.q /\ r.failed
      BY <2>1 DEF Queues
    <2>3. KeepsVi(e, r) /\ KeepsVi(e, e)
      BY <2>2, KeepsViSame
    <2>. QED  BY <2>3 DEF CheckQueue
  <1>3. CASE ~(Len(e.q) >= PoolCapacity)
    <2>1. r = [e EXCEPT !.next_interrupt = c, !.q = <<ev>> \o e.q]
      BY <1>3 DEF PushCheck
    <2>2. IsInsertion(<<ev>> \o e.q, e.q, ev)
      BY <1>1, PushList
    <2>. HIDE DEF ev
    <2>3. <<ev>> \o e.q \in Seq(Events)
      BY <2>2 DEF IsInsertion
    <2>4. r \in Queues /\ r.q = <<ev>> \o e.q /\ r.failed = e.failed
      BY <2>1, <2>3 DEF Queues
    <2>5. Range(e.q) \subseteq Range(r.q)
      BY <1>1, <2>2, <2>4, InsertionNodes
    <2>. HIDE DEF r
    <2>6. KeepsVi(e, r) /\ KeepsVi(e, e)
      BY <2>4, <2>5 DEF KeepsVi
    <2>. QED  BY <2>6 DEF CheckQueue, r
  <1>. QED  BY <1>2, <1>3

\* Raising an interrupt does not touch the list.
LEMMA RaisedQueue ==
    ASSUME NEW e \in Queues,
           \/ \E line : raise_rcp_interrupt(e, line)
           \/ \E ip : raise_maskable_interrupt(e, ip)
           \/ exception_general(e)
    PROVE  evq' \in Queues /\ evq'.q = e.q /\ evq'.failed = e.failed
  <1>1. evq' = e \/ evq' = [e EXCEPT !.next_interrupt = 0]
    BY DEF raise_rcp_interrupt, raise_maskable_interrupt, exception_general
  <1>. QED  BY <1>1, ZeroCount DEF Queues

\* The queue without its first node.
LEMMA RemovedQueue ==
    ASSUME IInv
    PROVE  /\ Removed \in Queues /\ Removed.failed = evq.failed
           /\ IsRemoval(Removed.q, evq.q, 1) /\ 1 \in 1 .. Len(evq.q)
           /\ evq \in Queues /\ count \in Counts
  <1>1. evq \in Queues /\ count \in Counts /\ evq.q # << >>
    BY QueueInvNotEmpty DEF IInv, TypeOK
  <1>. QED  BY <1>1, RemoveInterruptEvent DEF Removed

\* A step that keeps every VI_INT, and vi->next_vi with them, preserves FrameInv.
LEMMA KeptStep ==
    ASSUME TypeOK, FrameInv, KeepsVi(evq, evq'), next_vi' = next_vi,
           pc' \in {"run", "gen", "status"}
    PROVE  FrameInv'
  <1>1. [type |-> VI_INT, count |-> next_vi] \in Events
    BY OtherTypes DEF TypeOK, Events
  <1>. QED  BY <1>1 DEF KeepsVi, FrameInv

\* A handler that takes an event of another type, and adds to or leaves the rest.
LEMMA HandledKeepsVi ==
    ASSUME IInv, evq.q[1].type # VI_INT, NEW e, KeepsVi(Removed, e),
           \/ \E line : raise_rcp_interrupt(e, line)
           \/ \E ip : raise_maskable_interrupt(e, ip)
           \/ exception_general(e)
    PROVE  KeepsVi(evq, evq')
  <1>1. /\ Removed \in Queues /\ Removed.failed = evq.failed
        /\ IsRemoval(Removed.q, evq.q, 1) /\ 1 \in 1 .. Len(evq.q) /\ evq \in Queues
    BY RemovedQueue
  <1>2. KeepsVi(evq, Removed)
    BY <1>1, RemovalKeepsVi
  <1>3. e \in Queues
    BY DEF KeepsVi
  <1>4. evq' \in Queues /\ evq'.q = e.q /\ evq'.failed = e.failed
    BY <1>3, RaisedQueue
  <1>5. KeepsVi(e, evq')
    BY <1>4, KeepsViSame
  <1>. QED  BY <1>2, <1>5, KeepsViTrans

\* The types the handlers dispatch on differ.
LEMMA NotVi ==
    /\ COMPARE_INT # VI_INT /\ CHECK_INT # VI_INT /\ SPECIAL_INT # VI_INT
    /\ HW2_INT # VI_INT /\ NMI_INT # VI_INT /\ VI_INT \notin Dma
  BY ConstantsAssumption
  DEF VI_INT, COMPARE_INT, CHECK_INT, SPECIAL_INT, HW2_INT, NMI_INT

\* Every way through gen_interrupt preserves FrameInv.
LEMMA GenInterruptFrame ==
    ASSUME IInv, FrameInv, GenInterrupt
    PROVE  FrameInv'
  <1>0. TypeOK /\ pc \in {"run", "gen", "status"}
    BY DEF IInv, FrameInv
  <1>1. /\ Removed \in Queues /\ evq \in Queues /\ count \in Counts
        /\ KeepsVi(Removed, Removed)
    BY RemovedQueue, KeepsViSame
  <1>2. CASE ViInt
    <2>1. next_vi' \in Counts /\ pc' = "run"
      BY <1>0, <1>2, CountArithmetic, ConstantsAssumption DEF ViInt, Dispatch, TypeOK
    <2>2. PICK r \in Requests :
             LET e == IF r = "soft" THEN soft_reset_device(Removed) ELSE Removed
             IN  raise_rcp_interrupt(
                   add_interrupt_event_count(e, count, VI_INT, next_vi'), VI_INT)
      BY <1>2 DEF ViInt
    <2>. DEFINE h == add_interrupt_event(Removed, count, HW2_INT, 0)
                n == add_interrupt_event(h, count, NMI_INT, NmiDelay)
                e1 == IF r = "soft" THEN soft_reset_device(Removed) ELSE Removed
                v == add_interrupt_event_count(e1, count, VI_INT, next_vi')
    <2>3. h \in Queues
      BY <1>1, CountArithmetic, ZeroCount, AddEvent, OtherTypes DEF add_interrupt_event
    <2>4. n \in Queues
      <3>. HIDE DEF h
      <3>. QED  BY <1>1, <2>3, CountArithmetic, ConstantsAssumption, AddEvent, OtherTypes
           DEF add_interrupt_event
    <2>5. e1 \in Queues
      BY <1>1, <2>4 DEF soft_reset_device
    <2>6. raise_rcp_interrupt(v, VI_INT)
      BY <2>2
    <2>. HIDE DEF e1
    <2>7. v \in Queues /\ (~v.failed => [type |-> VI_INT, count |-> next_vi'] \in Range(v.q))
      BY <1>1, <2>1, <2>5, AddKeepsVi, OtherTypes DEF KeepsVi
    <2>. HIDE DEF v
    <2>8. evq'.q = v.q /\ evq'.failed = v.failed
      BY <2>6, <2>7, RaisedQueue
    <2>. QED  BY <2>1, <2>7, <2>8 DEF FrameInv
  <1>3. CASE CompareInt
    <2>1. Plus(count, CountPerOp) \in Counts /\ compare \in Counts
      BY <1>0, <1>1, CountArithmetic, ConstantsAssumption DEF TypeOK
    <2>. DEFINE e == add_interrupt_event_count(Removed, Plus(count, CountPerOp),
                                               COMPARE_INT, compare)
    <2>2. KeepsVi(Removed, e)
      BY <1>1, <2>1, AddKeepsVi, OtherTypes DEF EventTypes
    <2>3. raise_maskable_interrupt(e, 7) /\ evq.q[1].type = COMPARE_INT
      BY <1>3 DEF CompareInt, Dispatch
    <2>. HIDE DEF e
    <2>4. KeepsVi(evq, evq')
      BY <2>2, <2>3, HandledKeepsVi, NotVi
    <2>. QED  BY <1>0, <1>3, <2>4, KeptStep DEF CompareInt, Dispatch, regs
  <1>4. CASE CheckInt
    <2>1. KeepsVi(evq, evq')
      BY <1>1, <1>4, HandledKeepsVi, NotVi DEF CheckInt, Dispatch
    <2>. QED  BY <1>0, <1>4, <2>1, KeptStep DEF CheckInt, Dispatch, regs
  <1>5. CASE Hw2Int
    <2>1. KeepsVi(evq, evq')
      BY <1>1, <1>5, HandledKeepsVi, NotVi DEF Hw2Int, Dispatch
    <2>. QED  BY <1>0, <1>5, <2>1, KeptStep DEF Hw2Int, Dispatch, regs
  <1>6. CASE \E t \in Dma : DmaInt(t)
    <2>1. PICK t \in Dma : DmaInt(t)
      BY <1>6
    <2>2. KeepsVi(evq, evq')
      <3>1. KeepsVi(Removed, Removed) /\ evq.q[1].type # VI_INT
        BY <1>1, <2>1, NotVi, KeepsViSame DEF DmaInt, Dispatch
      <3>2. CASE raise_rcp_interrupt(Removed, t)
        BY <3>1, <3>2, HandledKeepsVi
      <3>3. ASSUME NEW delay \in DmaDelays,
                   raise_rcp_interrupt(add_interrupt_event(Removed, count, AI_INT, delay), AI_INT)
            PROVE  KeepsVi(evq, evq')
        <4>1. Plus(count, delay) \in Counts /\ count \in Counts /\ AI_INT \in EventTypes
          BY <1>0, CountArithmetic, ConstantsAssumption DEF TypeOK, EventTypes, RcpEvents
        <4>2. KeepsVi(Removed, add_interrupt_event(Removed, count, AI_INT, delay))
          BY <1>1, <4>1, AddKeepsVi DEF add_interrupt_event
        <4>. QED  BY <3>1, <3>3, <4>2, HandledKeepsVi
      <3>4. CASE evq' = Removed
        BY <3>1, <3>4, RemovedQueue, RemovalKeepsVi DEF DmaInt, Dispatch
      <3>. QED  BY <2>1, <3>2, <3>3, <3>4 DEF DmaInt
    <2>. QED  BY <1>0, <2>1, <2>2, KeptStep DEF DmaInt, Dispatch
  <1>7. CASE SpecialInt
    <2>1. [evq EXCEPT !.next_interrupt = 0] \in Queues
      BY <1>1, ZeroCount DEF Queues
    <2>2. KeepsVi(evq, [evq EXCEPT !.next_interrupt = 0])
      BY <1>1, <2>1, KeepsViSame DEF Queues
    <2>. DEFINE d == [Removed EXCEPT !.special_done = TRUE]
    <2>3. d \in Queues /\ d.q = Removed.q /\ d.failed = Removed.failed
      BY <1>1 DEF Queues
    <2>. HIDE DEF d
    <2>4. KeepsVi(Removed, d)
      BY <2>3, KeepsViSame
    <2>5. KeepsVi(evq, Removed)
      BY <1>7, RemovedQueue, RemovalKeepsVi, NotVi DEF SpecialInt, Dispatch
    <2>6. KeepsVi(d, add_interrupt_event_count(d, count, SPECIAL_INT, 0))
      BY <1>1, <2>3, ZeroCount, AddKeepsVi, OtherTypes DEF EventTypes
    <2>7. KeepsVi(evq, d)
      BY <2>4, <2>5, KeepsViTrans
    <2>8. KeepsVi(evq, add_interrupt_event_count(d, count, SPECIAL_INT, 0))
      BY <2>6, <2>7, KeepsViTrans
    <2>9. KeepsVi(evq, evq')
      BY <1>7, <2>2, <2>8 DEF SpecialInt, d
    <2>. QED  BY <1>0, <1>7, <2>9, KeptStep DEF SpecialInt, Dispatch, regs
  <1>8. CASE NmiInt
    <2>1. init_interrupt(evq, 0) \in Queues
      BY <1>1, ZeroCount, QueueInvInit DEF QueueInv
    <2>2. ~evq'.failed => [type |-> VI_INT, count |-> ViDelay] \in Range(evq'.q)
      BY <1>8, <2>1, ZeroCount, ConstantsAssumption, AddKeepsVi, OtherTypes DEF NmiInt
    <2>. QED  BY <1>0, <1>8, <2>2 DEF NmiInt, Dispatch, FrameInv
  <1>9. CASE ResetHard
    BY <1>9 DEF ResetHard, FrameInv
  <1>10. CASE SkipJump
    <2>1. NextInterrupt(evq.q, count) \in Counts
      BY <1>1, NextInterruptCount DEF Queues
    <2>2. evq' \in Queues /\ evq'.q = evq.q /\ evq'.failed = evq.failed
      BY <1>1, <1>10, <2>1 DEF SkipJump, Queues
    <2>3. KeepsVi(evq, evq')
      BY <2>2, KeepsViSame
    <2>. QED  BY <1>0, <1>10, <2>3, KeptStep DEF SkipJump, regs
  <1>. QED  BY <1>2, <1>3, <1>4, <1>5, <1>6, <1>7, <1>8, <1>9, <1>10 DEF GenInterrupt

\* Every step of the CPU loop of a guest that does not write Count preserves FrameInv.
LEMMA CpuLoopFrame ==
    ASSUME CountWrites = {}, IInv, IInv', FrameInv, CpuLoop
    PROVE  FrameInv'
  <1>0. /\ TypeOK /\ evq \in Queues /\ count \in Counts /\ KeepsVi(evq, evq)
        /\ count' \in Counts /\ evq' \in Queues /\ compare' \in Counts
    BY KeepsViSame DEF IInv, TypeOK
  <1>1. CASE Branch \/ BranchIdle \/ MTC0_Cause
    BY <1>0, <1>1, KeptStep
    DEF Branch, BranchIdle, MTC0_Cause, Instruction, regs
  <1>2. CASE ArmVi
    <2>1. next_vi' \in Counts
      BY DEF IInv, TypeOK
    <2>2. ~evq'.failed => [type |-> VI_INT, count |-> next_vi'] \in Range(evq'.q)
      BY <1>0, <1>2, <2>1, AddKeepsVi, OtherTypes DEF ArmVi
    <2>. QED  BY <1>2, <2>2 DEF ArmVi, Instruction, FrameInv
  <1>3. CASE WriteMiMask
    <2>1. KeepsVi(evq, evq')
      BY <1>0, <1>3, CheckKeepsVi DEF WriteMiMask, r4300_check_interrupt
    <2>. QED  BY <1>0, <1>3, <2>1, KeptStep DEF WriteMiMask
  <1>4. CASE MTC0_Status
    <2>1. KeepsVi(evq, evq')
      BY <1>0, <1>4, CheckKeepsVi DEF MTC0_Status, r4300_check_interrupt
    <2>. QED  BY <1>0, <1>4, <2>1, KeptStep DEF MTC0_Status, regs
  <1>5. CASE ERET
    <2>1. KeepsVi(evq, evq')
      BY <1>0, <1>5, CheckKeepsVi DEF ERET, r4300_check_interrupt
    <2>. QED  BY <1>0, <1>5, <2>1, KeptStep DEF ERET, regs
  <1>6. ASSUME NEW line, clear_rcp_interrupt(line) \/ signal_rcp_interrupt(line)
        PROVE  FrameInv'
    <2>1. KeepsVi(evq, evq')
      BY <1>0, <1>6, CheckKeepsVi
      DEF clear_rcp_interrupt, signal_rcp_interrupt, r4300_check_interrupt
    <2>. QED  BY <1>0, <1>6, <2>1, KeptStep
         DEF clear_rcp_interrupt, signal_rcp_interrupt, Instruction
  <1>7. CASE MTC0_Compare
    <2>1. KeepsVi(evq, remove_event(evq, COMPARE_INT))
      BY <1>0, RemoveEventKeepsVi, NotVi
    <2>2. remove_event(evq, COMPARE_INT) \in Queues
      BY <2>1 DEF KeepsVi
    <2>3. KeepsVi(remove_event(evq, COMPARE_INT), evq')
      BY <1>0, <1>7, <2>2, AddKeepsVi DEF MTC0_Compare, EventTypes
    <2>4. KeepsVi(evq, evq')
      BY <2>1, <2>3, KeepsViTrans
    <2>. QED  BY <1>0, <1>7, <2>4, KeptStep DEF MTC0_Compare, Instruction
  <1>8. CASE \E t \in Dma : StartDma(t)
    <2>1. PICK t \in Dma : StartDma(t)
      BY <1>8
    <2>2. PICK d \in DmaDelays : evq' = add_interrupt_event(evq, count', t, d)
      BY <2>1 DEF StartDma
    <2>3. Plus(count', d) \in Counts /\ t \in EventTypes
      BY <1>0, CountArithmetic, ConstantsAssumption, OtherTypes
    <2>4. KeepsVi(evq, evq')
      BY <1>0, <2>2, <2>3, AddKeepsVi DEF add_interrupt_event
    <2>. QED  BY <1>0, <2>1, <2>4, KeptStep DEF StartDma, Instruction, regs
  <1>9. CASE do_SP_Task
    <2>1. PICK ack \in BOOLEAN, gfx \in BOOLEAN, frozen \in BOOLEAN,
               d1 \in DmaDelays, d2 \in DmaDelays,
               raised \in SUBSET ({SP_INT, DP_INT} \cap Dma) :
             SpTaskLines(ack, gfx, frozen, raised, d1, d2)
      BY <1>9 DEF do_SP_Task
    <2>. DEFINE before == IF ack THEN mi.intr \ {SP_INT} ELSE mi.intr
                up == before \cap mi.mask # {}
                dp == gfx /\ DP_INT \in (before \cup raised) /\ ~frozen
                e0 == IF ack THEN CheckQueue(evq, status, count, up) ELSE evq
                e1 == IF dp THEN add_interrupt_event(e0, count', DP_INT, d1) ELSE e0
    <2>2. \/ evq' = e1
          \/ evq' = add_interrupt_event(e1, count', SP_INT, d2)
      BY <2>1 DEF SpTaskLines
    <2>3. /\ Plus(count', d1) \in Counts /\ Plus(count', d2) \in Counts
          /\ DP_INT \in EventTypes /\ SP_INT \in EventTypes
      BY <1>0, CountArithmetic, ConstantsAssumption DEF EventTypes, RcpEvents
    <2>4. KeepsVi(evq, e0)
      <3>. HIDE DEF up
      <3>. QED  BY <1>0, CheckKeepsVi
    <2>5. KeepsVi(evq, e1)
      <3>. HIDE DEF e0, dp
      <3>1. e0 \in Queues /\ KeepsVi(e0, e0)
        BY <2>4, KeepsViSame DEF KeepsVi
      <3>2. KeepsVi(e0, add_interrupt_event(e0, count', DP_INT, d1))
        BY <1>0, <2>3, <3>1, AddKeepsVi DEF add_interrupt_event
      <3>. QED  BY <2>4, <3>1, <3>2, KeepsViTrans
    <2>6. KeepsVi(evq, evq')
      <3>. HIDE DEF e1
      <3>1. e1 \in Queues
        BY <2>5 DEF KeepsVi
      <3>2. KeepsVi(e1, add_interrupt_event(e1, count', SP_INT, d2))
        BY <1>0, <2>3, <3>1, AddKeepsVi DEF add_interrupt_event
      <3>. QED  BY <2>2, <2>5, <3>2, KeepsViTrans
    <2>. QED  BY <1>0, <1>9, <2>6, KeptStep DEF do_SP_Task, Instruction
  <1>10. CASE GuestException
    <2>1. evq'.q = evq.q /\ evq'.failed = evq.failed
      BY <1>0, <1>10 DEF GuestException, Queues
    <2>2. KeepsVi(evq, evq')
      BY <1>0, <2>1, KeepsViSame
    <2>. QED  BY <1>0, <1>10, <2>2, KeptStep DEF GuestException, Instruction, regs
  <1>11. ~MTC0_Count /\ ~Translate
    BY DEF MTC0_Count, Translate, FrameInv
  <1>. QED  BY <1>1, <1>2, <1>3, <1>4, <1>5, <1>6, <1>7, <1>8, <1>9, <1>10, <1>11
       DEF CpuLoop

\* Whatever the handlers, the resets and the guest's instructions do to the queue, the
\* VI_INT that vi->next_vi records is in it whenever the CPU runs, as long as the pool
\* has not refused a node and the guest does not write Count (translate_event_queue
\* moves the VI_INT and not next_vi).
THEOREM FrameAlwaysScheduled ==
    CountWrites = {} => (Spec => [](~evq.failed => FrameScheduled))
  <1>. SUFFICES ASSUME CountWrites = {} PROVE Spec => [](~evq.failed => FrameScheduled)
    OBVIOUS
  <1>1. Init => FrameInv
    BY DEF Init, FrameInv
  <1>2. IInv /\ IInv' /\ FrameInv /\ [Next]_vars => FrameInv'
    <2>1. ASSUME FrameInv, UNCHANGED vars PROVE FrameInv'
      BY <2>1 DEF FrameInv, vars
    <2>. QED  BY <2>1, GenInterruptFrame, CpuLoopFrame DEF Next
  <1>3. FrameInv => (~evq.failed => FrameScheduled)
    BY DEF FrameInv, FrameScheduled
  <1>. QED  BY <1>1, <1>2, <1>3, Invariance, PTL DEF Spec
-----------------------------------------------------------------------------
(* What the operations do to a CHECK_INT *)

\* The queue r holds a CHECK_INT only if e did, and remembers a node refused in e.
NoNewCheck(e, r) ==
    /\ r \in Queues
    /\ e.failed => r.failed
    /\ Has(r.q, CHECK_INT) => Has(e.q, CHECK_INT)

\* Operations that queue no CHECK_INT queue none one after the other.
LEMMA NoNewCheckTrans ==
    ASSUME NEW e, NEW r, NEW s, NoNewCheck(e, r), NoNewCheck(r, s)
    PROVE  NoNewCheck(e, s)
  BY DEF NoNewCheck

\* The list alone matters.
LEMMA NoNewCheckSame ==
    ASSUME NEW e, NEW r \in Queues, r.q = e.q, r.failed = e.failed
    PROVE  NoNewCheck(e, r)
  BY DEF NoNewCheck

\* add_interrupt_event_count.
LEMMA AddNoNewCheck ==
    ASSUME NEW e \in Queues, NEW c \in Counts, NEW type \in EventTypes \ {CHECK_INT},
           NEW evt \in Counts
    PROVE  NoNewCheck(e, add_interrupt_event_count(e, c, type, evt))
  <1>. DEFINE r == add_interrupt_event_count(e, c, type, evt)
              ev == [type |-> type, count |-> evt]
  <1>1. /\ r \in Queues
        /\ Len(e.q) >= PoolCapacity => r.q = e.q /\ r.failed
        /\ Len(e.q) < PoolCapacity => r.failed = e.failed /\ IsInsertion(r.q, e.q, ev)
    BY AddEvent
  <1>2. e.q \in Seq(Events) /\ Len(e.q) \in Nat /\ ev \in Events /\ ev.type # CHECK_INT
    BY DEF Queues, Events
  <1>. HIDE DEF r, ev
  <1>3. CASE Len(e.q) >= PoolCapacity
    BY <1>1, <1>3 DEF NoNewCheck, r
  <1>4. CASE Len(e.q) < PoolCapacity
    <2>1. Has(r.q, CHECK_INT) => Has(e.q, CHECK_INT)
      BY <1>1, <1>2, <1>4, InsertionTypes
    <2>. QED  BY <1>1, <1>4, <2>1 DEF NoNewCheck, r
  <1>. QED  BY <1>2, <1>3, <1>4, PoolCapacityAssumption

\* A removal.
LEMMA RemovalNoNewCheck ==
    ASSUME NEW e \in Queues, NEW r \in Queues, r.failed = e.failed, NEW k \in 1 .. Len(e.q),
           IsRemoval(r.q, e.q, k)
    PROVE  NoNewCheck(e, r)
  <1>1. e.q \in Seq(Events)
    BY DEF Queues
  <1>2. Has(r.q, CHECK_INT) => Has(e.q, CHECK_INT)
    BY <1>1, RemovalTypes
  <1>. QED  BY <1>2 DEF NoNewCheck

\* remove_event.
LEMMA RemoveEventNoNewCheck ==
    ASSUME NEW e \in Queues, NEW type
    PROVE  NoNewCheck(e, remove_event(e, type))
  <1>. DEFINE r == remove_event(e, type)
  <1>1. /\ r \in Queues /\ r.failed = e.failed
        /\ ~Has(e.q, type) => r = e
        /\ Has(e.q, type) => \E k \in 1 .. Len(e.q) :
                                e.q[k].type = type /\ IsRemoval(r.q, e.q, k)
    BY RemoveEvent
  <1>. HIDE DEF r
  <1>2. NoNewCheck(e, r)
    BY <1>1, RemovalNoNewCheck, NoNewCheckSame
  <1>. QED  BY <1>2 DEF r

\* translate_event_queue.
LEMMA TranslateNoNewCheck ==
    ASSUME NEW e \in Queues, NEW c \in Counts, NEW compareReg \in Counts, NEW base \in Counts
    PROVE  NoNewCheck(e, translate_event_queue(e, c, compareReg, base))
  <1>. DEFINE ea == remove_event(e, COMPARE_INT)
              e1 == remove_event(ea, SPECIAL_INT)
              e2 == [e1 EXCEPT !.q = [i \in DOMAIN e1.q |->
                       [e1.q[i] EXCEPT !.count = Plus(Sub(@, c), base)]]]
              e3 == add_interrupt_event_count(e2, c, COMPARE_INT, compareReg)
              e4 == add_interrupt_event_count(e3, c, SPECIAL_INT, 0)
  <1>1. NoNewCheck(e, ea) /\ ea \in Queues
    BY RemoveEventNoNewCheck DEF NoNewCheck
  <1>2. NoNewCheck(ea, e1) /\ e1 \in Queues
    <2>. HIDE DEF ea
    <2>. QED  BY <1>1, RemoveEventNoNewCheck DEF NoNewCheck
  <1>3. NoNewCheck(e1, e2) /\ e2 \in Queues
    <2>. HIDE DEF e1
    <2>. DEFINE q2 == [i \in DOMAIN e1.q |->
                         [e1.q[i] EXCEPT !.count = Plus(Sub(@, c), base)]]
    <2>1. /\ [e1 EXCEPT !.q = q2] \in Queues
          /\ Has(q2, CHECK_INT) <=> Has(e1.q, CHECK_INT)
      BY <1>2, TranslateList
    <2>. HIDE DEF q2
    <2>2. [e1 EXCEPT !.q = q2].q = q2 /\ [e1 EXCEPT !.q = q2].failed = e1.failed
      BY <1>2 DEF Queues
    <2>3. NoNewCheck(e1, [e1 EXCEPT !.q = q2])
      BY <2>1, <2>2 DEF NoNewCheck
    <2>. QED  BY <2>1, <2>3 DEF q2
  <1>4. COMPARE_INT \in EventTypes \ {CHECK_INT} /\ SPECIAL_INT \in EventTypes \ {CHECK_INT}
    BY DEF EventTypes, COMPARE_INT, SPECIAL_INT, CHECK_INT
  <1>5. NoNewCheck(e2, e3) /\ e3 \in Queues
    <2>. HIDE DEF e2
    <2>. QED  BY <1>3, <1>4, AddNoNewCheck DEF NoNewCheck
  <1>6. NoNewCheck(e3, e4)
    <2>. HIDE DEF e3
    <2>. QED  BY <1>4, <1>5, ZeroCount, AddNoNewCheck
  <1>7. translate_event_queue(e, c, compareReg, base) = e4
    BY DEF translate_event_queue
  <1>. HIDE DEF ea, e1, e2, e3, e4
  <1>8. NoNewCheck(e, e1)
    BY <1>1, <1>2, NoNewCheckTrans
  <1>9. NoNewCheck(e1, e3)
    BY <1>3, <1>5, NoNewCheckTrans
  <1>10. NoNewCheck(e, e3)
    BY <1>8, <1>9, NoNewCheckTrans
  <1>11. NoNewCheck(e, e4)
    BY <1>6, <1>10, NoNewCheckTrans
  <1>. QED  BY <1>7, <1>11

\* init_interrupt.
LEMMA InitNoNewCheck ==
    ASSUME NEW e \in Queues, NEW c \in Counts
    PROVE  NoNewCheck(e, init_interrupt(e, c)) /\ ~Has(init_interrupt(e, c).q, CHECK_INT)
  <1>. DEFINE e1 == [e EXCEPT !.q = << >>, !.special_done = TRUE]
              r == add_interrupt_event_count(e1, c, SPECIAL_INT, 0)
  <1>1. e1 \in Queues /\ e1.q = << >> /\ e1.failed = e.failed
    BY EmptySeq DEF Queues
  <1>2. SPECIAL_INT \in EventTypes \ {CHECK_INT}
    BY DEF EventTypes, SPECIAL_INT, CHECK_INT
  <1>. HIDE DEF e1
  <1>3. NoNewCheck(e1, r)
    BY <1>1, <1>2, ZeroCount, AddNoNewCheck
  <1>4. ~Has(e1.q, CHECK_INT)
    BY <1>1 DEF Has
  <1>5. init_interrupt(e, c) = r
    BY DEF init_interrupt, e1
  <1>. HIDE DEF r
  <1>. QED  BY <1>1, <1>3, <1>4, <1>5 DEF NoNewCheck

\* The types the handlers queue.
LEMMA NotCheck ==
    /\ {VI_INT, COMPARE_INT, SPECIAL_INT, HW2_INT, NMI_INT, SP_INT, DP_INT}
          \subseteq EventTypes \ {CHECK_INT}
    /\ Dma \subseteq EventTypes \ {CHECK_INT}
  BY ConstantsAssumption
  DEF EventTypes, RcpEvents, VI_INT, COMPARE_INT, CHECK_INT, SI_INT, PI_INT, SPECIAL_INT,
      AI_INT, SP_INT, DP_INT, HW2_INT, NMI_INT

\* No way through gen_interrupt queues a CHECK_INT.
LEMMA GenInterruptNoNewCheck ==
    ASSUME IInv, GenInterrupt
    PROVE  NoNewCheck(evq, evq')
  <1>0. TypeOK
    BY DEF IInv
  <1>1. /\ Removed \in Queues /\ evq \in Queues /\ count \in Counts
        /\ NoNewCheck(evq, Removed)
    BY RemovedQueue, RemovalNoNewCheck
  <1>2. ASSUME NEW e, NoNewCheck(Removed, e),
               \/ \E line : raise_rcp_interrupt(e, line)
               \/ \E ip : raise_maskable_interrupt(e, ip)
               \/ exception_general(e)
        PROVE  NoNewCheck(evq, evq')
    <2>1. e \in Queues
      BY <1>2 DEF NoNewCheck
    <2>2. evq' \in Queues /\ evq'.q = e.q /\ evq'.failed = e.failed
      BY <1>2, <2>1, RaisedQueue
    <2>3. NoNewCheck(e, evq')
      BY <2>2, NoNewCheckSame
    <2>4. NoNewCheck(Removed, evq')
      BY <1>2, <2>3, NoNewCheckTrans
    <2>. QED  BY <1>1, <2>4, NoNewCheckTrans
  <1>3. NoNewCheck(Removed, Removed)
    BY <1>1, NoNewCheckSame
  <1>4. CASE ViInt
    <2>1. next_vi' \in Counts
      BY <1>0, <1>4, CountArithmetic, ConstantsAssumption DEF ViInt, TypeOK
    <2>2. PICK r \in Requests :
             LET e == IF r = "soft" THEN soft_reset_device(Removed) ELSE Removed
             IN  raise_rcp_interrupt(
                   add_interrupt_event_count(e, count, VI_INT, next_vi'), VI_INT)
      BY <1>4 DEF ViInt
    <2>. DEFINE h == add_interrupt_event(Removed, count, HW2_INT, 0)
                n == add_interrupt_event(h, count, NMI_INT, NmiDelay)
                e1 == IF r = "soft" THEN soft_reset_device(Removed) ELSE Removed
                v == add_interrupt_event_count(e1, count, VI_INT, next_vi')
    <2>3. NoNewCheck(Removed, h) /\ h \in Queues
      BY <1>1, CountArithmetic, ZeroCount, AddNoNewCheck, NotCheck
      DEF add_interrupt_event, NoNewCheck
    <2>4. NoNewCheck(h, n) /\ n \in Queues
      <3>. HIDE DEF h
      <3>. QED  BY <1>1, <2>3, CountArithmetic, ConstantsAssumption, AddNoNewCheck, NotCheck
           DEF add_interrupt_event, NoNewCheck
    <2>5. NoNewCheck(Removed, n)
      <3>. HIDE DEF h, n
      <3>. QED  BY <2>3, <2>4, NoNewCheckTrans
    <2>6. NoNewCheck(Removed, e1) /\ e1 \in Queues
      BY <1>1, <1>3, <2>4, <2>5 DEF soft_reset_device
    <2>7. raise_rcp_interrupt(v, VI_INT)
      BY <2>2
    <2>. HIDE DEF e1
    <2>8. NoNewCheck(e1, v)
      BY <1>1, <2>1, <2>6, AddNoNewCheck, NotCheck
    <2>. HIDE DEF v
    <2>9. NoNewCheck(Removed, v)
      BY <2>6, <2>8, NoNewCheckTrans
    <2>. QED  BY <1>2, <2>7, <2>9
  <1>5. CASE CompareInt
    <2>1. Plus(count, CountPerOp) \in Counts /\ compare \in Counts
      BY <1>0, <1>1, CountArithmetic, ConstantsAssumption DEF TypeOK
    <2>2. NoNewCheck(Removed, add_interrupt_event_count(Removed, Plus(count, CountPerOp),
                                                        COMPARE_INT, compare))
      BY <1>1, <2>1, AddNoNewCheck, NotCheck
    <2>. QED  BY <1>2, <1>5, <2>2 DEF CompareInt
  <1>6. CASE CheckInt \/ Hw2Int
    BY <1>2, <1>3, <1>6 DEF CheckInt, Hw2Int
  <1>11. CASE \E t \in Dma : DmaInt(t)
    <2>1. PICK t \in Dma : DmaInt(t)
      BY <1>11
    <2>2. CASE raise_rcp_interrupt(Removed, t)
      BY <1>2, <1>3, <2>2
    <2>3. ASSUME NEW delay \in DmaDelays,
                 raise_rcp_interrupt(add_interrupt_event(Removed, count, AI_INT, delay), AI_INT)
          PROVE  NoNewCheck(evq, evq')
      <3>1. Plus(count, delay) \in Counts /\ AI_INT \in EventTypes \ {CHECK_INT}
        BY <1>0, <1>1, CountArithmetic, ConstantsAssumption
        DEF EventTypes, RcpEvents, CHECK_INT, AI_INT
      <3>2. NoNewCheck(Removed, add_interrupt_event(Removed, count, AI_INT, delay))
        BY <1>1, <3>1, AddNoNewCheck DEF add_interrupt_event
      <3>. QED  BY <1>2, <2>3, <3>2
    <2>4. CASE evq' = Removed
      BY <1>1, <2>4
    <2>. QED  BY <2>1, <2>2, <2>3, <2>4 DEF DmaInt
  <1>7. CASE SpecialInt
    <2>1. [evq EXCEPT !.next_interrupt = 0] \in Queues
      BY <1>1, ZeroCount DEF Queues
    <2>2. NoNewCheck(evq, [evq EXCEPT !.next_interrupt = 0])
      BY <1>1, <2>1, NoNewCheckSame DEF Queues
    <2>. DEFINE d == [Removed EXCEPT !.special_done = TRUE]
    <2>3. d \in Queues /\ d.q = Removed.q /\ d.failed = Removed.failed
      BY <1>1 DEF Queues
    <2>. HIDE DEF d
    <2>4. NoNewCheck(Removed, d)
      BY <2>3, NoNewCheckSame
    <2>5. NoNewCheck(d, add_interrupt_event_count(d, count, SPECIAL_INT, 0))
      BY <1>1, <2>3, ZeroCount, AddNoNewCheck, NotCheck
    <2>6. NoNewCheck(evq, d)
      BY <1>1, <2>4, NoNewCheckTrans
    <2>7. NoNewCheck(evq, add_interrupt_event_count(d, count, SPECIAL_INT, 0))
      BY <2>5, <2>6, NoNewCheckTrans
    <2>. QED  BY <1>7, <2>2, <2>7 DEF SpecialInt, d
  <1>8. CASE NmiInt
    <2>1. NoNewCheck(evq, init_interrupt(evq, 0)) /\ init_interrupt(evq, 0) \in Queues
      BY <1>1, ZeroCount, InitNoNewCheck DEF NoNewCheck
    <2>2. NoNewCheck(init_interrupt(evq, 0), evq')
      BY <1>8, <2>1, ZeroCount, ConstantsAssumption, AddNoNewCheck, NotCheck DEF NmiInt
    <2>. QED  BY <2>1, <2>2, NoNewCheckTrans
  <1>9. CASE ResetHard
    <2>1. evq.failed \in BOOLEAN
      BY <1>1 DEF Queues
    <2>. DEFINE z == [q |-> << >>, next_interrupt |-> 0, special_done |-> FALSE,
                      failed |-> evq.failed]
    <2>2. z \in Queues /\ z.q = << >> /\ z.failed = evq.failed
      BY <2>1, ZeroCount, EmptySeq DEF Queues
    <2>3. NoNewCheck(evq, z)
      BY <2>2 DEF NoNewCheck, Has
    <2>4. PoweronQueue(evq.failed) = init_interrupt(z, InitCount)
      BY DEF PoweronQueue
    <2>. HIDE DEF z
    <2>5. NoNewCheck(z, PoweronQueue(evq.failed)) /\ PoweronQueue(evq.failed) \in Queues
      BY <2>2, <2>4, ConstantsAssumption, InitNoNewCheck DEF NoNewCheck
    <2>6. NoNewCheck(PoweronQueue(evq.failed), evq')
      BY <1>9, <2>5, ConstantsAssumption, InitNoNewCheck DEF ResetHard
    <2>7. NoNewCheck(evq, PoweronQueue(evq.failed))
      BY <2>3, <2>5, NoNewCheckTrans
    <2>. QED  BY <2>6, <2>7, NoNewCheckTrans
  <1>10. CASE SkipJump
    <2>1. NextInterrupt(evq.q, count) \in Counts
      BY <1>1, NextInterruptCount DEF Queues
    <2>2. evq' \in Queues /\ evq'.q = evq.q /\ evq'.failed = evq.failed
      BY <1>1, <1>10, <2>1 DEF SkipJump, Queues
    <2>. QED  BY <2>2, NoNewCheckSame
  <1>. QED  BY <1>4, <1>5, <1>6, <1>7, <1>8, <1>9, <1>10, <1>11 DEF GenInterrupt
-----------------------------------------------------------------------------
(* IrqNotLost *)

\* Inserting behind the first node leaves it first.
LEMMA InsertAtKeepsFirst ==
    ASSUME NEW q \in Seq(Events), NEW ev \in Events, NEW k \in 2 .. Len(q) + 1
    PROVE  InsertAt(q, k, ev)[1] = q[1]
  <1>. DEFINE a == SubSeq(q, 1, k - 1)
              b == SubSeq(q, k, Len(q))
              c == a \o <<ev>>
  <1>1. a \in Seq(Events) /\ Len(a) = k - 1 /\ a[1] = q[1] /\ 1 \in 1 .. Len(a)
    BY SubSeqProperties, ElementOfSeq
  <1>2. b \in Seq(Events)
    BY SubSeqProperties, ElementOfSeq
  <1>3. <<ev>> \in Seq(Events)
    OBVIOUS
  <1>. HIDE DEF a, b
  <1>4. c \in Seq(Events) /\ Len(c) >= 1 /\ c[1] = a[1]
    BY <1>1, <1>3, ConcatProperties
  <1>. HIDE DEF c
  <1>5. (c \o b)[1] = c[1]
    BY <1>2, <1>4, ConcatProperties
  <1>. QED  BY <1>1, <1>4, <1>5 DEF InsertAt, a, b, c

\* An event at x, no more than a sixteenth of the range ago, is not overtaken.
LEMMA NotBefore ==
    ASSUME NEW x \in Counts, NEW c \in Counts, x <= c, c - x < Sixteenth,
           NEW evt \in Counts, NEW done, NEW type2, type2 # SPECIAL_INT
    PROVE  ~before_event(c, done, evt, x, type2)
  <1>1. /\ CountMod \in Nat /\ CountMod >= 16 /\ x \in Int /\ c \in Int
        /\ 0 <= x /\ c < CountMod /\ evt \in Int
    BY CountModAssumption DEF Counts
  <1>2. /\ Sixteenth \in Int /\ Half \in Int /\ Half <= CountMod - Sixteenth
        /\ 0 < Half /\ 0 < Sixteenth
    BY <1>1 DEF Sixteenth, Half
  <1>3. Sub(evt, c) >= 0
    BY CountArithmetic, CountModAssumption DEF Counts
  <1>4. CASE x = c
    <2>1. Sub(x, c) = 0
      BY <1>1, <1>4 DEF Sub
    <2>2. Sub(evt, c) \in Int
      BY CountArithmetic, CountModAssumption DEF Counts
    <2>. QED  BY <1>2, <1>3, <2>1, <2>2 DEF before_event
  <1>5. CASE x < c
    <2>1. Sub(x, c) = x - c + CountMod /\ Sub(c, x) = c - x
      BY <1>1, <1>5 DEF Sub
    <2>2. ~(Sub(x, c) < Half) /\ ~(Sub(c, x) >= Sixteenth)
      BY <1>1, <1>2, <2>1
    <2>. QED  BY <2>2 DEF before_event
  <1>. QED  BY <1>1, <1>4, <1>5

\* add_interrupt_event_count leaves a CHECK_INT that is due in front.
LEMMA AddKeepsCheck ==
    ASSUME NEW e, NEW x \in Counts, CheckAt(e, x), NEW c \in Counts, x <= c,
           c - x < Sixteenth, NEW type \in EventTypes, NEW evt \in Counts
    PROVE  CheckAt(add_interrupt_event_count(e, c, type, evt), x)
  <1>. DEFINE ev == [type |-> type, count |-> evt]
              done == e.special_done /\ c <= Half
              r == add_interrupt_event_count(e, c, type, evt)
              k == 1 + NodesBefore(e.q, c, done, type, evt)
  <1>1. /\ e \in Queues /\ e.q \in Seq(Events) /\ Len(e.q) \in Nat /\ ev \in Events
        /\ e.q # << >> /\ e.q[1].type = CHECK_INT /\ e.q[1].count = x
        /\ e.next_interrupt = x
    BY DEF Queues, Events, CheckAt
  <1>2. ~before_event(c, done, evt, e.q[1].count, e.q[1].type)
    <2>1. CHECK_INT # SPECIAL_INT
      BY OtherTypes
    <2>. HIDE DEF done
    <2>. QED  BY <1>1, <2>1, NotBefore
  <1>3. r \in Queues
    BY <1>1, AddEvent
  <1>4. CASE Len(e.q) >= PoolCapacity
    <2>1. r = [e EXCEPT !.special_done = done, !.failed = TRUE]
      BY <1>4 DEF add_interrupt_event_count
    <2>2. r.q = e.q /\ r.next_interrupt = e.next_interrupt
      BY <1>1, <2>1 DEF Queues
    <2>. HIDE DEF r
    <2>3. CheckAt(r, x)
      BY <1>1, <1>3, <2>2 DEF CheckAt
    <2>. QED  BY <2>3 DEF r
  <1>5. CASE ~(Len(e.q) >= PoolCapacity)
    <2>1. r = [e EXCEPT !.special_done = done, !.q = InsertAt(e.q, k, ev)]
      BY <1>1, <1>2, <1>5 DEF add_interrupt_event_count
    <2>2. k \in 2 .. Len(e.q) + 1
      <3>. HIDE DEF done
      <3>1. NodesBefore(e.q, c, done, type, evt) \in 1 .. Len(e.q)
        BY <1>1, NodesBeforeIsNode
      <3>. QED  BY <1>1, <3>1
    <2>. HIDE DEF done, k, ev
    <2>3. InsertAt(e.q, k, ev)[1] = e.q[1]
      BY <1>1, <2>2, InsertAtKeepsFirst
    <2>4. IsInsertion(InsertAt(e.q, k, ev), e.q, ev)
      <3>1. k \in 1 .. Len(e.q) + 1
        BY <1>1, <2>2
      <3>. QED  BY <1>1, <3>1, InsertAtList
    <2>5. InsertAt(e.q, k, ev) \in Seq(Events) /\ Len(InsertAt(e.q, k, ev)) = Len(e.q) + 1
      BY <2>4 DEF IsInsertion
    <2>6. InsertAt(e.q, k, ev) # << >>
      BY <1>1, <2>5
    <2>7. r.q = InsertAt(e.q, k, ev) /\ r.next_interrupt = e.next_interrupt
      BY <1>1, <2>1, <2>5 DEF Queues
    <2>. HIDE DEF r
    <2>8. CheckAt(r, x)
      BY <1>1, <1>3, <2>3, <2>6, <2>7 DEF CheckAt
    <2>. QED  BY <2>8 DEF r
  <1>. QED  BY <1>4, <1>5

\* So does remove_event of another type.
LEMMA RemoveEventKeepsCheck ==
    ASSUME NEW e, NEW x, CheckAt(e, x), NEW type, type # CHECK_INT
    PROVE  CheckAt(remove_event(e, type), x)
  <1>. DEFINE r == remove_event(e, type)
  <1>1. /\ e \in Queues /\ e.q \in Seq(Events) /\ Len(e.q) \in Nat /\ e.q # << >>
        /\ e.q[1].type = CHECK_INT /\ e.q[1].count = x /\ e.next_interrupt = x
    BY DEF Queues, CheckAt
  <1>2. /\ r \in Queues
        /\ ~Has(e.q, type) => r = e
        /\ Has(e.q, type) => \E k \in 1 .. Len(e.q) :
                                e.q[k].type = type /\ IsRemoval(r.q, e.q, k)
    BY <1>1, RemoveEvent
  <1>3. r.next_interrupt = e.next_interrupt
    BY <1>1 DEF remove_event, Queues
  <1>. HIDE DEF r
  <1>4. CASE Has(e.q, type)
    <2>1. PICK k \in 1 .. Len(e.q) : e.q[k].type = type /\ IsRemoval(r.q, e.q, k)
      BY <1>2, <1>4
    <2>2. k # 1
      BY <1>1, <2>1
    <2>3. 1 \in 1 .. Len(e.q) - 1 /\ 1 < k
      BY <1>1, <2>1, <2>2
    <2>4. r.q \in Seq(Events) /\ Len(r.q) = Len(e.q) - 1 /\ r.q[1] = e.q[1]
      BY <2>1, <2>3 DEF IsRemoval
    <2>5. r.q # << >>
      BY <2>3, <2>4
    <2>6. CheckAt(r, x)
      BY <1>1, <1>2, <1>3, <2>4, <2>5 DEF CheckAt
    <2>. QED  BY <2>6 DEF r
  <1>5. CASE ~Has(e.q, type)
    <2>1. r = e
      BY <1>2, <1>5
    <2>. QED  BY <2>1 DEF r
  <1>. QED  BY <1>4, <1>5

\* r4300_check_interrupt puts a CHECK_INT in front when an enabled interrupt is pending,
\* unless the pool has no node left, and changes nothing otherwise.
LEMMA CheckedQueue ==
    ASSUME NEW e \in Queues, NEW st, NEW c \in Counts, NEW up
    PROVE  LET r == CheckQueue(e, st, c, up)
           IN  /\ r \in Queues /\ (e.failed => r.failed)
               /\ IF Enabled(st) /\ st.im \cap CheckCause(up) # {}
                  THEN ~r.failed => /\ CheckAt(r, c)
                                    /\ ~Has(e.q, CHECK_INT) => AtMostOne(r.q, CHECK_INT)
                  ELSE r = e
  <1>. DEFINE r == PushCheck(e, c)
              ev == [type |-> CHECK_INT, count |-> c]
  <1>1. e.q \in Seq(Events) /\ Len(e.q) \in Nat /\ ev \in Events /\ ev.type = CHECK_INT
    BY OtherTypes DEF Queues, Events
  <1>2. CASE Len(e.q) >= PoolCapacity
    <2>1. r = [e EXCEPT !.failed = TRUE]
      BY <1>2 DEF PushCheck
    <2>2. r \in Queues /\ r.failed
      BY <2>1 DEF Queues
    <2>. HIDE DEF r
    <2>. QED  BY <2>2 DEF CheckQueue, r
  <1>3. CASE ~(Len(e.q) >= PoolCapacity)
    <2>1. r = [e EXCEPT !.next_interrupt = c, !.q = <<ev>> \o e.q]
      BY <1>3 DEF PushCheck
    <2>2. IsInsertion(<<ev>> \o e.q, e.q, ev)
      BY <1>1, PushList
    <2>3. (<<ev>> \o e.q)[1] = ev /\ <<ev>> \o e.q # << >>
      BY <1>1
    <2>. HIDE DEF ev
    <2>4. <<ev>> \o e.q \in Seq(Events)
      BY <2>2 DEF IsInsertion
    <2>5. /\ r \in Queues /\ r.q = <<ev>> \o e.q /\ r.failed = e.failed
          /\ r.next_interrupt = c
      BY <2>1, <2>4 DEF Queues
    <2>. HIDE DEF r
    <2>6. CheckAt(r, c)
      BY <2>3, <2>5 DEF CheckAt, ev
    <2>7. AtMostOne(e.q, CHECK_INT) /\ ~Has(e.q, CHECK_INT) => AtMostOne(r.q, CHECK_INT)
      <3>1. IsInsertion(r.q, e.q, ev)
        BY <2>2, <2>5
      <3>. QED  BY <1>1, <3>1, InsertionTypes
    <2>8. ~Has(e.q, CHECK_INT) => AtMostOne(e.q, CHECK_INT)
      BY DEF Has, AtMostOne
    <2>. QED  BY <2>5, <2>6, <2>7, <2>8 DEF CheckQueue, r
  <1>. QED  BY <1>2, <1>3

\* The budget of a block, in Count.
LEMMA BlockBudget ==
    ASSUME NEW B \in Nat, NEW m \in Nat, NEW b \in 1 .. m
    PROVE  /\ (m - (b - 1)) * B = (m - b) * B + B
           /\ (m - (b - 1)) * B \in Nat /\ (m - b) * B \in Nat
           /\ (m - (b - 1)) * B <= m * B
  <1>1. /\ m - b \in Nat /\ b - 1 \in Nat /\ m - (b - 1) = (m - b) + 1
        /\ m - (b - 1) \in Nat /\ m = (m - (b - 1)) + (b - 1)
    OBVIOUS
  <1>2. ASSUME NEW i \in Nat, NEW j \in Nat
        PROVE  i * B \in Nat /\ (i + j) * B = i * B + j * B
    OBVIOUS
  <1>3. 1 * B = B
    OBVIOUS
  <1>4. (m - (b - 1)) * B = (m - b) * B + B
    BY <1>1, <1>2, <1>3
  <1>5. m * B = (m - (b - 1)) * B + (b - 1) * B
    BY <1>1, <1>2
  <1>. QED  BY <1>1, <1>2, <1>4, <1>5

\* What a block has spent is a natural number.
LEMMA SpentBudget ==
    ASSUME NEW B \in Nat, NEW m \in Nat, NEW b \in 0 .. m
    PROVE  (m - b) * B \in Nat
  <1>1. m - b \in Nat
    OBVIOUS
  <1>. QED  BY <1>1

\* A later count is less far away.
LEMMA LaterIsNearer ==
    ASSUME NEW x \in Counts, NEW y \in Counts, NEW c \in Counts, x <= y, c - x < Sixteenth
    PROVE  c - y < Sixteenth
  <1>1. Sixteenth \in Int
    BY CountModAssumption DEF Sixteenth
  <1>. QED  BY <1>1, CountModAssumption DEF Counts

\* The test at the end of a branch sees what was due before it.
LEMMA AdvanceSees ==
    ASSUME TypeOK, count' \in Counts, WrapSafe, NEW x \in Counts, x <= count, Advance(x)
    PROVE  x <= count'
  <1>1. count' < count => x <= count'
    BY DEF Advance
  <1>. QED  BY <1>1, CountModAssumption DEF TypeOK, Counts

\* An instruction while an interrupt is due: Count does not wrap, and its CHECK_INT stays
\* within a sixteenth of the range.
LEMMA DueAdvance ==
    ASSUME NEW B, ShortBlocks(B), WrapSafe, TypeOK, count' \in Counts, IrqInv(B), Due,
           ~evq.failed, Instruction, Advance(evq.next_interrupt)
    PROVE  /\ CheckAt(evq, evq.next_interrupt) /\ evq.next_interrupt \in Counts
           /\ evq.next_interrupt <= count /\ count <= count'
           /\ count' - evq.next_interrupt <= (MaxInstr - budget') * B
           /\ count' - evq.next_interrupt < Sixteenth
           /\ count' - count <= (MaxInstr - budget') * B
  <1>. DEFINE x == evq.next_interrupt
              k == (MaxInstr - budget) * B
              k1 == (MaxInstr - budget') * B
  <1>1. /\ CheckAt(evq, x) /\ x <= count /\ count - x <= k
    BY DEF IrqInv, Instruction
  <1>2. /\ x \in Nat /\ count \in Nat /\ count' \in Nat /\ x \in Counts
        /\ count < CountMod /\ CountMod \in Nat /\ CountMod >= 16
    BY CountModAssumption DEF TypeOK, Queues, Counts
  <1>3. B \in Nat /\ MaxInstr \in Nat /\ budget \in 1 .. MaxInstr /\ budget' = budget - 1
    BY ConstantsAssumption DEF ShortBlocks, Instruction, TypeOK
  <1>4. k1 = k + B /\ k \in Nat /\ k1 \in Nat /\ k1 <= MaxInstr * B
    BY <1>3, BlockBudget
  <1>5. MaxInstr * B < Sixteenth /\ Sixteenth <= CountMod /\ Sixteenth \in Nat
    BY <1>2 DEF ShortBlocks, Sixteenth
  <1>6. MaxInstr * B \in Nat
    BY <1>3
  <1>7. PICK d \in BlockCounts : count' = Plus(count, d) /\ (count' < count => x <= count')
    BY DEF Advance
  <1>8. d \in Nat /\ d < CountMod /\ d <= B
    BY <1>2, ConstantsAssumption DEF ShortBlocks, Counts
  <1>9. count' = count + d \/ count' = count + d - CountMod
    BY <1>7 DEF Plus
  <1>. HIDE DEF x, k, k1
  <1>10. count' = count + d
    BY <1>1, <1>2, <1>3, <1>4, <1>5, <1>6, <1>7, <1>8, <1>9
  <1>11. count <= count' /\ count' - x <= k1 /\ count' - x < Sixteenth /\ count' - count <= k1
    BY <1>1, <1>2, <1>3, <1>4, <1>5, <1>6, <1>8, <1>10
  <1>. QED  BY <1>1, <1>2, <1>11 DEF x, k1

\* Raising a maskable interrupt leaves none that is due.
LEMMA RaisedNotDue ==
    ASSUME TypeOK, NEW e, NEW ip, raise_maskable_interrupt(e, ip)
    PROVE  ~Due'
  <1>1. cause' = cause \cup {ip}
    BY DEF raise_maskable_interrupt
  <1>2. CASE exception_general(e)
    BY <1>2, ExceptionDisables DEF Due
  <1>3. CASE ~(status.im \cap (cause \cup {ip}) # {} /\ Enabled(status))
    <2>1. status' = status
      BY <1>3 DEF raise_maskable_interrupt
    <2>. QED  BY <1>1, <1>3, <2>1 DEF Due
  <1>. QED  BY <1>2, <1>3 DEF raise_maskable_interrupt

\* Raising an RCP line leaves none that is due but one that was.
LEMMA RcpNotDue ==
    ASSUME TypeOK, NEW e, NEW line, raise_rcp_interrupt(e, line)
    PROVE  Due' => Due
  <1>1. CASE raise_maskable_interrupt(e, 2)
    BY <1>1, RaisedNotDue
  <1>2. CASE UNCHANGED <<status, cause>>
    BY <1>2 DEF Due, Enabled
  <1>. QED  BY <1>1, <1>2 DEF raise_rcp_interrupt

\* After gen_interrupt no interrupt is due: its CHECK_INT would have been taken first.
LEMMA GenInterruptDue ==
    ASSUME NEW B, IInv, SkipExl, IrqInv(B), GenInterrupt, ~evq'.failed
    PROVE  ~Due'
  <1>0. TypeOK
    BY DEF IInv
  <1>1. ~evq.failed
    BY GenInterruptNoNewCheck DEF NoNewCheck
  <1>2. Due => evq.q[1].type = CHECK_INT
    BY <1>1 DEF IrqInv
  <1>3. /\ CHECK_INT \notin Dma
        /\ CHECK_INT \notin {VI_INT, COMPARE_INT, SPECIAL_INT, HW2_INT, NMI_INT}
    BY NotCheck
  <1>4. CASE ViInt
    <2>1. Due' => Due
      BY <1>0, <1>4, RcpNotDue DEF ViInt
    <2>. QED  BY <1>2, <1>3, <1>4, <2>1 DEF ViInt, Dispatch
  <1>5. CASE CompareInt \/ Hw2Int
    BY <1>0, <1>5, RaisedNotDue DEF CompareInt, Hw2Int
  <1>6. CASE CheckInt
    BY <1>0, <1>6, ExceptionDisables DEF CheckInt, Due
  <1>7. CASE SpecialInt
    <2>1. Due' => Due
      BY <1>7 DEF SpecialInt, Due, Enabled
    <2>. QED  BY <1>2, <1>3, <1>7, <2>1 DEF SpecialInt, Dispatch
  <1>8. CASE NmiInt \/ ResetHard
    BY <1>8 DEF NmiInt, ResetHard, BootStatus, Enabled, Due
  <1>9. CASE \E t \in Dma : DmaInt(t)
    <2>1. PICK t \in Dma : DmaInt(t)
      BY <1>9
    <2>2. Due' => Due
      BY <1>0, <2>1, RcpNotDue DEF DmaInt, Due, Enabled
    <2>. QED  BY <1>2, <1>3, <2>1, <2>2 DEF DmaInt, Dispatch
  <1>10. CASE SkipJump
    <2>1. status.exl /\ status' = status
      BY <1>10 DEF SkipJump, SkipExl
    <2>. QED  BY <2>1 DEF Due, Enabled
  <1>. QED  BY <1>4, <1>5, <1>6, <1>7, <1>8, <1>9, <1>10 DEF GenInterrupt

\* An instruction that queues an event behind a CHECK_INT that is due.
LEMMA QueuedStep ==
    ASSUME NEW B, ShortBlocks(B), WrapSafe, TypeOK, count' \in Counts, IrqInv(B),
           Instruction, Advance(evq.next_interrupt),
           Due' => Due, pc' = "run", evq.failed => evq'.failed,
           \A x \in Counts : CheckAt(evq, x) /\ x <= count' /\ count' - x < Sixteenth
                                => CheckAt(evq', x)
    PROVE  IrqInv(B)'
  <1>. SUFFICES ASSUME ~evq'.failed, Due'
                PROVE  /\ evq'.q[1].type = CHECK_INT
                       /\ CheckAt(evq', evq'.next_interrupt)
                       /\ evq'.next_interrupt <= count'
                       /\ count' - evq'.next_interrupt <= (MaxInstr - budget') * B
    BY DEF IrqInv
  <1>. DEFINE x == evq.next_interrupt
  <1>1. /\ CheckAt(evq, x) /\ x \in Counts /\ x <= count /\ count <= count'
        /\ count' - x <= (MaxInstr - budget') * B /\ count' - x < Sixteenth
    BY DueAdvance
  <1>. HIDE DEF x
  <1>2. x <= count'
    BY <1>1, CountModAssumption DEF Counts, TypeOK
  <1>3. CheckAt(evq', x)
    BY <1>1, <1>2
  <1>4. evq'.next_interrupt = x /\ evq'.q[1].type = CHECK_INT
    BY <1>3 DEF CheckAt
  <1>. QED  BY <1>1, <1>2, <1>3, <1>4

\* An instruction that ends with r4300_check_interrupt, at Count c.
LEMMA CheckedStep ==
    ASSUME NEW B, ShortBlocks(B), TypeOK, TypeOK', NEW c \in Counts, NEW up,
           r4300_check_interrupt(evq, status', c, up),
           pc' \in GenPcs \cup {"run"},
           evq'.next_interrupt = c /\ pc' = "run" => count' = c
    PROVE  IrqInv(B)'
  <1>. SUFFICES ASSUME ~evq'.failed, Due' PROVE CheckAt(evq', c)
    <2>1. ASSUME CheckAt(evq', c), pc' = "run"
          PROVE  /\ evq'.next_interrupt <= count'
                 /\ count' - evq'.next_interrupt <= (MaxInstr - budget') * B
      <3>1. evq'.next_interrupt = c /\ count' = c /\ c \in Int
        BY <2>1, CountModAssumption DEF CheckAt, Counts
      <3>2. MaxInstr \in Nat /\ budget' \in 0 .. MaxInstr /\ B \in Nat
        BY ConstantsAssumption DEF TypeOK, ShortBlocks
      <3>3. (MaxInstr - budget') * B \in Nat
        BY <3>2, SpentBudget
      <3>. QED  BY <3>1, <3>3
    <2>. QED  BY <2>1 DEF IrqInv, CheckAt
  <1>1. evq' = CheckQueue(evq, status', c, up) /\ cause' = CheckCause(up) /\ evq \in Queues
    BY DEF r4300_check_interrupt, TypeOK
  <1>2. Enabled(status') /\ status'.im \cap CheckCause(up) # {}
    BY <1>1 DEF Due
  <1>. QED  BY <1>1, <1>2, CheckedQueue

\* The acknowledgement in an RSP task makes no interrupt due that was not.
LEMMA SpTaskDue ==
    ASSUME IrqLevel, status' = status, NEW ack \in BOOLEAN, NEW gfx, NEW frozen, NEW raised,
           NEW d1, NEW d2, SpTaskLines(ack, gfx, frozen, raised, d1, d2)
    PROVE  Due' => Due
  <1>. DEFINE before == IF ack THEN mi.intr \ {SP_INT} ELSE mi.intr
              up == before \cap mi.mask # {}
  <1>1. cause' = IF ack THEN CheckCause(up) ELSE cause
    BY DEF SpTaskLines
  <1>2. up => mi.intr \cap mi.mask # {}
    OBVIOUS
  <1>. HIDE DEF up
  <1>3. ASSUME Due' PROVE Due
    <2>1. Enabled(status) /\ status.im \cap cause' # {}
      BY <1>3 DEF Due
    <2>2. cause' \subseteq cause
      BY <1>1, <1>2, <2>1 DEF IrqLevel, CheckCause
    <2>. QED  BY <2>1, <2>2 DEF Due
  <1>. QED  BY <1>3

\* Every step of the CPU loop preserves IrqInv.
LEMMA CpuLoopIrq ==
    ASSUME NEW B, ShortBlocks(B), WrapSafe, ~CauseAnytime, IInv, IInv', IrqLevel, IrqInv(B),
           CpuLoop
    PROVE  IrqInv(B)'
  <1>0. /\ TypeOK /\ TypeOK' /\ count \in Counts /\ count' \in Counts /\ evq \in Queues
        /\ evq' \in Queues /\ evq.next_interrupt \in Counts /\ compare' \in Counts
        /\ next_vi' \in Counts
    BY DEF IInv, TypeOK, Queues
  <1>1. ASSUME pc = "run", ~evq.failed, Due
        PROVE  evq.next_interrupt <= count /\ evq.q[1].type = CHECK_INT
    BY <1>1 DEF IrqInv
  <1>2. CASE Branch \/ MTC0_Count
    <2>1. /\ pc = "run" /\ Advance(evq.next_interrupt) /\ UNCHANGED <<evq, status, cause>>
          /\ evq.next_interrupt <= count' => pc' \in GenPcs
      BY <1>2 DEF Branch, MTC0_Count, Instruction, GenPcs
    <2>2. Due' => Due
      BY <2>1 DEF Due, Enabled
    <2>3. ASSUME ~evq'.failed, Due' PROVE pc' \in GenPcs /\ evq'.q[1].type = CHECK_INT
      BY <1>0, <1>1, <2>1, <2>2, <2>3, AdvanceSees
    <2>4. "run" \notin GenPcs
      BY DEF GenPcs
    <2>. QED  BY <2>3, <2>4 DEF IrqInv
  <1>3. CASE BranchIdle
    <2>1. ASSUME ~evq.failed, Due PROVE FALSE
      <3>. DEFINE x == evq.next_interrupt
                  k == (MaxInstr - budget) * B
      <3>1. x <= count /\ count - x <= k
        BY <1>3, <2>1 DEF IrqInv, BranchIdle
      <3>2. Sub(x, count) > 3 /\ Sub(x, count) < Half
        BY <1>3 DEF BranchIdle
      <3>3. /\ x \in Nat /\ count \in Nat /\ count < CountMod /\ CountMod \in Nat
            /\ CountMod >= 16
        BY <1>0, CountModAssumption DEF Counts
      <3>4. k < Sixteenth /\ k \in Int
        <4>1. MaxInstr \in Nat /\ B \in Nat /\ budget \in 0 .. MaxInstr
          BY <1>0, ConstantsAssumption DEF TypeOK, ShortBlocks
        <4>2. CASE budget = 0
          BY <4>1, <4>2 DEF ShortBlocks
        <4>3. CASE budget \in 1 .. MaxInstr
          BY <3>3, <4>1, <4>3, BlockBudget DEF ShortBlocks, Sixteenth
        <4>. QED  BY <4>1, <4>2, <4>3
      <3>5. Sixteenth \in Int /\ Half \in Int /\ Half <= CountMod - Sixteenth
        BY <3>3 DEF Sixteenth, Half
      <3>. HIDE DEF x, k
      <3>6. Sub(x, count) = 0 \/ Sub(x, count) = x - count + CountMod
        BY <3>1, <3>3 DEF Sub
      <3>. QED  BY <3>1, <3>2, <3>3, <3>4, <3>5, <3>6
    <2>2. UNCHANGED <<evq, status, cause>>
      BY <1>3 DEF BranchIdle
    <2>. QED  BY <2>1, <2>2 DEF IrqInv, Due, Enabled
  <1>4. CASE ArmVi
    <2>1. Due' => Due
      BY <1>4 DEF ArmVi, Due, Enabled
    <2>2. evq' = add_interrupt_event_count(evq, count', VI_INT, next_vi')
      BY <1>4 DEF ArmVi
    <2>3. evq.failed => evq'.failed
      BY <1>0, <2>2, AddNoNewCheck, NotCheck DEF NoNewCheck
    <2>4. \A x \in Counts : CheckAt(evq, x) /\ x <= count' /\ count' - x < Sixteenth
                               => CheckAt(evq', x)
      BY <1>0, <2>2, AddKeepsCheck, NotCheck
    <2>. QED  BY <1>0, <1>4, <2>1, <2>3, <2>4, QueuedStep DEF ArmVi, Instruction
  <1>5. CASE \E t \in Dma : StartDma(t)
    <2>1. PICK t \in Dma : StartDma(t)
      BY <1>5
    <2>2. PICK d \in DmaDelays : evq' = add_interrupt_event(evq, count', t, d)
      BY <2>1 DEF StartDma
    <2>3. Plus(count', d) \in Counts /\ t \in EventTypes \ {CHECK_INT}
      BY <1>0, CountArithmetic, ConstantsAssumption, NotCheck
    <2>4. Due' => Due
      BY <2>1 DEF StartDma, Due, Enabled
    <2>5. evq.failed => evq'.failed
      BY <1>0, <2>2, <2>3, AddNoNewCheck DEF NoNewCheck, add_interrupt_event
    <2>6. \A x \in Counts : CheckAt(evq, x) /\ x <= count' /\ count' - x < Sixteenth
                               => CheckAt(evq', x)
      BY <1>0, <2>2, <2>3, AddKeepsCheck DEF add_interrupt_event
    <2>. QED  BY <1>0, <2>1, <2>4, <2>5, <2>6, QueuedStep DEF StartDma, Instruction
  <1>6. CASE MTC0_Compare
    <2>. DEFINE r == remove_event(evq, COMPARE_INT)
    <2>1. Due' => Due
      BY <1>6 DEF MTC0_Compare, Due, Enabled
    <2>2. evq' = add_interrupt_event_count(r, count', COMPARE_INT, compare')
      BY <1>6 DEF MTC0_Compare
    <2>3. NoNewCheck(evq, r) /\ r \in Queues
      BY <1>0, RemoveEventNoNewCheck DEF NoNewCheck
    <2>4. \A x \in Counts : CheckAt(evq, x) => CheckAt(r, x)
      BY RemoveEventKeepsCheck, NotCheck
    <2>. HIDE DEF r
    <2>5. evq.failed => evq'.failed
      BY <1>0, <2>2, <2>3, AddNoNewCheck, NotCheck DEF NoNewCheck
    <2>6. \A x \in Counts : CheckAt(evq, x) /\ x <= count' /\ count' - x < Sixteenth
                               => CheckAt(evq', x)
      BY <1>0, <2>2, <2>4, AddKeepsCheck, NotCheck
    <2>. QED  BY <1>0, <1>6, <2>1, <2>5, <2>6, QueuedStep DEF MTC0_Compare, Instruction
  <1>7. ASSUME NEW line, clear_rcp_interrupt(line) \/ signal_rcp_interrupt(line)
        PROVE  IrqInv(B)'
    <2>1. /\ r4300_check_interrupt(evq, status', count, mi'.intr \cap mi.mask # {})
          /\ count' = count /\ pc' = "run"
      BY <1>7 DEF clear_rcp_interrupt, signal_rcp_interrupt, Instruction
    <2>. QED  BY <1>0, <2>1, CheckedStep
  <1>8. CASE WriteMiMask
    <2>1. /\ r4300_check_interrupt(evq, status', count, mi.intr \cap mi'.mask # {})
          /\ Advance(evq'.next_interrupt)
          /\ pc' = IF evq'.next_interrupt <= count' THEN "gen" ELSE "run"
      BY <1>8 DEF WriteMiMask
    <2>2. evq'.next_interrupt = count => pc' = "gen"
      <3>1. ASSUME evq'.next_interrupt = count PROVE count <= count'
        <4>1. Advance(count) /\ count <= count
          BY <1>0, <2>1, <3>1, CountModAssumption DEF Counts
        <4>. QED  BY <1>0, <4>1, AdvanceSees
      <3>. QED  BY <2>1, <3>1
    <2>. QED  BY <1>0, <2>1, <2>2, CheckedStep DEF GenPcs
  <1>9. CASE MTC0_Status
    <2>1. /\ r4300_check_interrupt(evq, status', count', mi.intr \cap mi.mask # {})
          /\ pc' \in GenPcs \cup {"run"}
      BY <1>9 DEF MTC0_Status, GenPcs
    <2>. QED  BY <1>0, <2>1, CheckedStep
  <1>10. CASE ERET
    <2>1. /\ r4300_check_interrupt(evq, status', count', mi.intr \cap mi.mask # {})
          /\ pc' \in GenPcs \cup {"run"}
      BY <1>10 DEF ERET, GenPcs
    <2>. QED  BY <1>0, <2>1, CheckedStep
  <1>11. CASE Translate
    <2>1. pc = "translate" /\ UNCHANGED <<status, cause>>
      BY <1>11 DEF Translate
    <2>2. evq.failed => evq'.failed
      BY <1>0, <1>11, TranslateNoNewCheck DEF Translate, NoNewCheck, TypeOK
    <2>. QED  BY <2>1, <2>2 DEF IrqInv, Due, Enabled, GenPcs
  <1>12. CASE MTC0_Cause \/ GuestException
    BY <1>0, <1>12 DEF MTC0_Cause, GuestException, IrqInv, Due, Enabled, TypeOK, StatusRegs
  <1>13. CASE do_SP_Task
    <2>1. PICK ack \in BOOLEAN, gfx \in BOOLEAN, frozen \in BOOLEAN,
               d1 \in DmaDelays, d2 \in DmaDelays,
               raised \in SUBSET ({SP_INT, DP_INT} \cap Dma) :
             SpTaskLines(ack, gfx, frozen, raised, d1, d2)
      BY <1>13 DEF do_SP_Task
    <2>. DEFINE before == IF ack THEN mi.intr \ {SP_INT} ELSE mi.intr
                up == before \cap mi.mask # {}
                dp == gfx /\ DP_INT \in (before \cup raised) /\ ~frozen
                e0 == IF ack THEN CheckQueue(evq, status, count, up) ELSE evq
                e1 == IF dp THEN add_interrupt_event(e0, count', DP_INT, d1) ELSE e0
                e2 == add_interrupt_event(e1, count', SP_INT, d2)
    <2>2. /\ evq' = e1 \/ evq' = e2
          /\ cause' = IF ack THEN CheckCause(up) ELSE cause
      BY <2>1 DEF SpTaskLines
    <2>3. /\ Plus(count', d1) \in Counts /\ Plus(count', d2) \in Counts
          /\ DP_INT \in EventTypes \ {CHECK_INT} /\ SP_INT \in EventTypes \ {CHECK_INT}
      BY <1>0, CountArithmetic, ConstantsAssumption, NotCheck
    <2>4. /\ Instruction /\ Advance(evq.next_interrupt) /\ pc' = "run" /\ status' = status
      BY <1>13 DEF do_SP_Task, Instruction
    <2>5. Due' => Due
      BY <2>1, <2>4, SpTaskDue
    <2>. HIDE DEF up
    <2>6. /\ e0 \in Queues /\ (evq.failed => e0.failed)
          /\ ack /\ Due' /\ ~e0.failed => CheckAt(e0, count)
      <3>1. CASE ack
        <4>1. e0 = CheckQueue(evq, status, count, up)
          BY <3>1
        <4>2. Due' => Enabled(status) /\ status.im \cap CheckCause(up) # {}
          BY <2>2, <2>4, <3>1 DEF Due
        <4>. QED  BY <1>0, <4>1, <4>2, CheckedQueue
      <3>2. CASE ~ack
        BY <1>0, <3>2
      <3>. QED  BY <3>1, <3>2
    <2>. HIDE DEF e0, dp
    <2>7. e1 \in Queues /\ (e0.failed => e1.failed)
      BY <1>0, <2>3, <2>6, AddNoNewCheck DEF NoNewCheck, add_interrupt_event
    <2>8. ASSUME NEW y \in Counts, CheckAt(e0, y), y <= count', count' - y < Sixteenth
          PROVE  CheckAt(e1, y)
      BY <1>0, <2>3, <2>8, AddKeepsCheck DEF add_interrupt_event
    <2>. HIDE DEF e1
    <2>9. e1.failed => e2.failed
      BY <1>0, <2>3, <2>7, AddNoNewCheck DEF NoNewCheck, add_interrupt_event
    <2>10. ASSUME NEW y \in Counts, CheckAt(e1, y), y <= count', count' - y < Sixteenth
           PROVE  CheckAt(e2, y)
      BY <1>0, <2>3, <2>10, AddKeepsCheck DEF add_interrupt_event
    <2>. HIDE DEF e2
    <2>11. CASE ~ack
      <3>1. e0 = evq
        BY <2>11 DEF e0
      <3>2. evq.failed => evq'.failed
        BY <2>2, <2>6, <2>7, <2>9
      <3>3. \A x \in Counts : CheckAt(evq, x) /\ x <= count' /\ count' - x < Sixteenth
                                 => CheckAt(evq', x)
        BY <2>2, <2>8, <2>10, <3>1
      <3>. QED  BY <1>0, <2>4, <2>5, <3>2, <3>3, QueuedStep
    <2>12. CASE ack
      <3>. SUFFICES ASSUME ~evq'.failed, Due'
                    PROVE  /\ CheckAt(evq', count) /\ count <= count'
                           /\ count' - count <= (MaxInstr - budget') * B
        BY <2>4 DEF IrqInv, CheckAt
      <3>1. ~e1.failed /\ ~e0.failed /\ ~evq.failed
        BY <2>2, <2>6, <2>7, <2>9
      <3>2. /\ evq.next_interrupt <= count /\ count <= count'
            /\ count' - evq.next_interrupt < Sixteenth
            /\ count' - count <= (MaxInstr - budget') * B
        BY <1>0, <2>4, <2>5, <3>1, DueAdvance
      <3>3. count' - count < Sixteenth
        BY <1>0, <3>2, LaterIsNearer
      <3>4. CheckAt(e0, count)
        BY <2>6, <2>12, <3>1
      <3>5. CheckAt(e1, count)
        BY <1>0, <2>8, <3>2, <3>3, <3>4
      <3>6. CheckAt(e2, count)
        BY <1>0, <2>10, <3>2, <3>3, <3>5
      <3>. QED  BY <2>2, <3>2, <3>5, <3>6
    <2>. QED  BY <2>11, <2>12
  <1>. QED  BY <1>2, <1>3, <1>4, <1>5, <1>6, <1>7, <1>8, <1>9, <1>10, <1>11, <1>12, <1>13
       DEF CpuLoop

\* SkipExl holds: the guest writes Status only between a branch and the next exception.
LEMMA SkipExlHolds == Spec /\ CountOutsideSlots => []SkipExl
  <1>1. Init => SkipExl
    BY DEF Init, SkipExl
  <1>2. TypeOK /\ SkipJumpKept /\ SkipExl /\ [Next]_vars => SkipExl'
    <2>. SUFFICES ASSUME TypeOK, SkipJumpKept, SkipExl, [Next]_vars PROVE SkipExl'
      OBVIOUS
    <2>1. ASSUME NEW e, exception_general(e) PROVE SkipExl'
      BY <2>1 DEF exception_general, SkipExl, TypeOK, StatusRegs
    <2>2. CASE UNCHANGED <<skip_jump, status>>
      BY <2>2 DEF SkipExl
    <2>3. ASSUME NEW e, \/ \E line : raise_rcp_interrupt(e, line)
                        \/ \E ip : raise_maskable_interrupt(e, ip)
          PROVE  SkipExl'
      <3>1. exception_general(e) \/ UNCHANGED <<skip_jump, status>>
        BY <2>3 DEF raise_rcp_interrupt, raise_maskable_interrupt
      <3>. QED  BY <2>1, <2>2, <3>1
    <2>4. CASE GenInterrupt
      <3>1. CASE \/ ViInt \/ CompareInt \/ CheckInt \/ Hw2Int \/ \E t \in Dma : DmaInt(t)
        BY <2>1, <2>2, <2>3, <3>1 DEF ViInt, CompareInt, CheckInt, Hw2Int, DmaInt
      <3>2. CASE SpecialInt
        BY <2>2, <3>2 DEF SpecialInt
      <3>3. CASE NmiInt \/ ResetHard \/ SkipJump
        BY <3>3 DEF NmiInt, ResetHard, SkipJump, SkipExl, Dispatch, Dispatching
      <3>. QED  BY <2>4, <3>1, <3>2, <3>3 DEF GenInterrupt
    <2>5. CASE CpuLoop
      <3>1. CASE \/ Branch \/ BranchIdle \/ do_SP_Task \/ ArmVi \/ WriteMiMask
                 \/ MTC0_Compare \/ MTC0_Count \/ Translate \/ MTC0_Cause
                 \/ \E t \in Dma : StartDma(t)
                 \/ \E line : clear_rcp_interrupt(line) \/ signal_rcp_interrupt(line)
        <4>1. UNCHANGED <<skip_jump, status>>
          BY <3>1 DEF Branch, BranchIdle, do_SP_Task, ArmVi, WriteMiMask, MTC0_Compare,
                      MTC0_Count, Translate, MTC0_Cause, StartDma, clear_rcp_interrupt,
                      signal_rcp_interrupt
        <4>. QED  BY <2>2, <4>1
      <3>2. CASE MTC0_Status \/ ERET
        <4>1. ~skip_jump /\ skip_jump' = skip_jump
          BY <3>2 DEF MTC0_Status, ERET, Instruction, SkipJumpKept, GenPcs
        <4>. QED  BY <4>1 DEF SkipExl
      <3>3. CASE GuestException
        BY <3>3 DEF GuestException, SkipExl, TypeOK, StatusRegs
      <3>. QED  BY <2>5, <3>1, <3>2, <3>3 DEF CpuLoop
    <2>. QED  BY <2>2, <2>4, <2>5 DEF Next, vars
  <1>. QED  BY <1>1, <1>2, TypeCorrect, DelayedJumpKept, PTL DEF Spec

\* The invariant of an interrupt that is due.
LEMMA IrqInvHolds ==
    ASSUME NEW CONSTANT B, ShortBlocks(B), WrapSafe, ~CauseAnytime
    PROVE  Spec /\ CountOutsideSlots => []IrqInv(B)
  <1>1. Init => IrqInv(B)
    BY DEF Init, IrqInv, Due, Enabled, BootStatus
  <1>2. IInv /\ IInv' /\ IrqLevel /\ SkipExl /\ IrqInv(B) /\ [Next]_vars => IrqInv(B)'
    <2>1. ASSUME IrqInv(B), UNCHANGED vars PROVE IrqInv(B)'
      BY <2>1 DEF IrqInv, Due, Enabled, CheckAt, vars
    <2>2. ASSUME IInv, SkipExl, IrqInv(B), GenInterrupt PROVE IrqInv(B)'
      BY <2>2, GenInterruptDue DEF IrqInv
    <2>. QED  BY <2>1, <2>2, CpuLoopIrq DEF Next
  <1>. QED  BY <1>1, <1>2, Invariance, IrqLevelHolds, SkipExlHolds, PTL DEF Spec

\* An interrupt that is enabled and pending while the guest runs has a CHECK_INT first in
\* the queue that the next branch finds, whatever the instructions of the block queue after
\* it: as long as the pool has not refused a node, Count does not wrap unseen, a block is
\* shorter than a sixteenth of the range of Count, Cause is written with interrupts disabled
\* only, and MTC0 Count stays out of delay slots.
THEOREM IrqNeverLost ==
    ASSUME NEW CONSTANT B, ShortBlocks(B), WrapSafe, ~CauseAnytime
    PROVE  Spec /\ CountOutsideSlots => [](~evq.failed => IrqNotLost)
  <1>1. IrqInv(B) => (~evq.failed => IrqNotLost)
    BY DEF IrqInv, IrqNotLost, Due
  <1>. QED  BY <1>1, IrqInvHolds, PTL
=============================================================================
