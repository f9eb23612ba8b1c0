---------------------------- MODULE RspRdpProofs ----------------------------
(***************************************************************************)
(* Proofs about RspRdp, for every set of tasks and every guest that writes *)
(* SP_STATUS_REG the way libultra does (LibultraWrites).                   *)
(*                                                                         *)
(* What the properties need beyond themselves: a halted RSP has no end of  *)
(* task in the queue, the lock and INTR_UNSAFE_RSP agree, the task in DMEM *)
(* is the one the plugin waits in, and an end of task is held back only    *)
(* while INTR_BREAK is set.                                                *)
(*                                                                         *)
(* The second half is about Savestates, for every set of values written to *)
(* Count too (FrameOnce needs no such guest).  A load puts the machine     *)
(* into the state of the image, with the lock gone and the plugin left as  *)
(* it is.  The invariant of the first half survives that when the image    *)
(* satisfies the part of it that speaks of what the image holds (SlotInv): *)
(* it did when it was taken.  RunningEnds does not survive: a task that    *)
(* was locked at the save is not locked after a load.                      *)
(***************************************************************************)
EXTENDS Savestates, TLAPS

\* The guest halts the RSP by no write of its own, and clears BROKE only when it
\* starts a task.
LibultraWrites ==
    \A w \in SpWrites : "SET_HALT" \notin w /\ ("CLR_BROKE" \in w => "CLR_HALT" \in w)

HaltIdle == "HALT" \in status => events["SP"] = 0
LockFlagged == unsafe = rsp_task_locked
LoopTask == infloop => orphan \/ task = "dlist"
OwedBreaks == "SP" \in owed => "INTR_BREAK" \in status

\* RunningEnds is kept apart: loading a savestate drops the lock it rests on.
IInv == /\ TypeOK /\ DeferredFrozen
        /\ LoopLocked /\ OwedPending /\ OneCompletion
        /\ HaltIdle /\ LockFlagged /\ LoopTask /\ OwedBreaks

\* The initial state satisfies the invariant.
LEMMA InitInv == Init => IInv /\ RunningEnds
<1> SUFFICES ASSUME Init PROVE IInv /\ RunningEnds
  OBVIOUS
<1> USE DEF Init, Poweron, NoEvents, Stopped
<1>1. TypeOK
  BY DEF TypeOK, TaskKinds
<1>2. DeferredFrozen /\ LoopLocked /\ OwedPending /\ OneCompletion
  BY DEF DeferredFrozen, LoopLocked, OwedPending, OneCompletion
<1>3. RunningEnds /\ HaltIdle /\ LockFlagged /\ LoopTask /\ OwedBreaks
  BY DEF RunningEnds, HaltIdle, LockFlagged, LoopTask, OwedBreaks
<1> QED
  BY <1>1, <1>2, <1>3 DEF IInv

\* What a plugin may leave behind: types, INTR_BREAK as it was, an interrupt with
\* every end of a task that asked for one, and a wait only in a display list that
\* has not ended.
LEMMA Outcome ==
    ASSUME TypeOK, NEW st, st \subseteq {"HALT", "BROKE", "INTR_BREAK"},
           NEW ln, ln \subseteq {"SP", "DP"}, NEW o \in hle_execute(st, ln)
    PROVE  /\ o.status \subseteq {"HALT", "BROKE", "INTR_BREAK"}
           /\ o.lines \subseteq {"SP", "DP"}
           /\ o.infloop \in BOOLEAN
           /\ "INTR_BREAK" \in o.status <=> "INTR_BREAK" \in st
           /\ o.status \cap Stopped # {} /\ st \cap Stopped = {} /\ "INTR_BREAK" \in st
                => "SP" \in o.lines
           /\ task # "dlist" => o.infloop = infloop
           /\ task = "dlist" /\ o.infloop => o.status \cap Stopped = {}
<1> USE DEF TypeOK, TaskKinds, Stopped
<1>1. CASE task = "dlist"
  <2>1. PICK s \in BOOLEAN, l \in BOOLEAN : o = ProcessDList(st, ln, s, l)
    BY <1>1 DEF hle_execute
  <2>2. CASE l
    <3>1. /\ o.status = st \ Stopped /\ o.infloop = TRUE
          /\ o.lines = IF s THEN ln \cup {"DP"} ELSE ln
      BY <2>1, <2>2 DEF ProcessDList
    <3> QED
      BY <1>1, <3>1
  <2>3. CASE ~l
    <3>1. /\ o.status = st \cup Stopped /\ o.infloop = FALSE
          /\ o.lines = IF "INTR_BREAK" \in st
                       THEN (IF s THEN ln \cup {"DP"} ELSE ln) \cup {"SP"}
                       ELSE IF s THEN ln \cup {"DP"} ELSE ln
      BY <2>1, <2>3 DEF ProcessDList, rsp_break
    <3> QED
      BY <1>1, <3>1
  <2> QED
    BY <2>2, <2>3
<1>2. CASE task \in {"video", "known"}
  <2>1. o = rsp_break(st, ln)
    BY <1>2 DEF hle_execute
  <2>2. /\ o.status = st \cup Stopped /\ o.infloop = infloop
        /\ o.lines = IF "INTR_BREAK" \in st THEN ln \cup {"SP"} ELSE ln
    BY <2>1 DEF rsp_break
  <2> QED
    BY <1>2, <2>2
<1>3. CASE task = "unknown"
  <2>1. o.status = st /\ o.lines = ln /\ o.infloop = infloop
    BY <1>3 DEF hle_execute
  <2> QED
    BY <1>3, <2>1
<1> QED
  BY <1>1, <1>2, <1>3

\* What a write of SP_STATUS_REG leaves in the registers.
LEMMA Written ==
    ASSUME TypeOK, NEW w \in SpWrites
    PROVE  /\ WrittenStatus(w) \subseteq {"HALT", "BROKE", "INTR_BREAK"}
           /\ WrittenLines(w) \subseteq {"SP", "DP"}
           /\ LibultraWrites /\ "CLR_HALT" \notin w
                => WrittenStatus(w) \cap Stopped = status \cap Stopped
           /\ LibultraWrites /\ "HALT" \in WrittenStatus(w) => "HALT" \in status
           /\ "CLR_INTR_BREAK" \notin w /\ "INTR_BREAK" \in status
                => "INTR_BREAK" \in WrittenStatus(w)
  BY DEF TypeOK, WrittenStatus, WrittenLines, LibultraWrites, Stopped

\* A task that runs preserves the invariant: it runs only when no end of task is
\* queued, so that nothing it leaves can meet a second one.
LEMMA TaskStep ==
    ASSUME IInv, NEW st, st \subseteq {"HALT", "BROKE", "INTR_BREAK"},
           st \cap Stopped = {}, NEW ln, ln \subseteq {"SP", "DP"},
           events["SP"] = 0, do_SP_Task(st, ln), UNCHANGED <<task, freeze, reset_hard_job>>,
           "HALT" \in status \/ rsp_task_locked
    PROVE  IInv' /\ RunningEnds'
<1> USE DEF Stopped
<1>1. TypeOK /\ DeferredFrozen /\ OwedPending /\ LoopTask /\ LoopLocked
  BY DEF IInv
<1> DEFINE dp(o) == task \in {"dlist", "video"} /\ "DP" \in o.lines
           locked(o) == o.status \cap Stopped = {}
           sp(o) == locked(o) \/ "SP" \in o.lines
<1>2. PICK o \in hle_execute(st, ln) :
        /\ status' = o.status \ Stopped /\ infloop' = o.infloop
        /\ rsp_task_locked' = locked(o) /\ unsafe' = locked(o)
        /\ lines' = o.lines \ IF dp(o) THEN {"SP", "DP"} ELSE {"SP"}
        /\ events' = [SP |-> events["SP"] + IF sp(o) THEN 1 ELSE 0,
                      DP |-> events["DP"] + IF dp(o) /\ ~freeze THEN 1 ELSE 0]
        /\ do_on_unfreeze' = do_on_unfreeze \cup
                               IF dp(o) /\ freeze THEN {"DELAY_DP_INT"} ELSE {}
        /\ quiet' = ("INTR_BREAK" \notin o.status)
        /\ owed' = owed \cup (IF dp(o) THEN {"DP"} ELSE {})
                        \cup (IF "SP" \in o.lines /\ "INTR_BREAK" \in o.status
                              THEN {"SP"} ELSE {})
        /\ orphan' = (orphan /\ o.infloop)
  BY DEF do_SP_Task, Lock
<1>3. /\ o.status \subseteq {"HALT", "BROKE", "INTR_BREAK"}
      /\ o.lines \subseteq {"SP", "DP"} /\ o.infloop \in BOOLEAN
      /\ ~locked(o) /\ "INTR_BREAK" \in o.status => "SP" \in o.lines
      /\ task # "dlist" => o.infloop = infloop
      /\ task = "dlist" /\ o.infloop => locked(o)
  BY <1>1, Outcome
<1>4. events["DP"] \in Nat /\ "SP" \notin owed
  BY <1>1 DEF TypeOK, OwedPending
<1>5. /\ events' \in [{"SP", "DP"} -> Nat]
      /\ events'["SP"] = IF sp(o) THEN 1 ELSE 0
      /\ events'["DP"] = events["DP"] + IF dp(o) /\ ~freeze THEN 1 ELSE 0
  BY <1>2, <1>4
<1>6. dp(o) \in BOOLEAN /\ locked(o) \in BOOLEAN /\ sp(o) \in BOOLEAN
  OBVIOUS
<1> HIDE DEF dp, locked, sp
<1>7. TypeOK'
  BY <1>1, <1>2, <1>3, <1>5, <1>6 DEF TypeOK
<1>8. DeferredFrozen'
  BY <1>1, <1>2 DEF DeferredFrozen
<1>9. "HALT" \notin status' /\ "BROKE" \notin status'
  BY <1>2
<1>10. LoopLocked' /\ LoopTask'
  BY <1>1, <1>2, <1>3, <1>9 DEF LoopLocked, LoopTask, TypeOK
<1>11. OwedPending'
  BY <1>1, <1>2, <1>4, <1>5 DEF OwedPending, sp
<1>12. OneCompletion' /\ HaltIdle'
  BY <1>5, <1>9 DEF OneCompletion, HaltIdle
<1>13. RunningEnds'
  <2>1. CASE sp(o)
    BY <1>5, <2>1 DEF RunningEnds
  <2>2. CASE ~sp(o)
    BY <1>2, <1>3, <2>2 DEF RunningEnds, sp
  <2> QED
    BY <2>1, <2>2
<1>14. LockFlagged'
  BY <1>2 DEF LockFlagged
<1>15. OwedBreaks'
  BY <1>2, <1>4 DEF OwedBreaks
<1> QED
  BY <1>7, <1>8, <1>10, <1>11, <1>12, <1>13, <1>14, <1>15 DEF IInv

\* Every write of SP_STATUS_REG preserves the invariant.
LEMMA WriteStep ==
    ASSUME IInv, LibultraWrites, NEW w \in SpWrites, update_sp_status(w)
    PROVE  IInv' /\ (RunningEnds => RunningEnds')
<1>1. TypeOK /\ HaltIdle /\ OwedBreaks
  BY DEF IInv
<1>2. /\ WrittenStatus(w) \subseteq {"HALT", "BROKE", "INTR_BREAK"}
      /\ WrittenLines(w) \subseteq {"SP", "DP"}
      /\ "CLR_HALT" \notin w => WrittenStatus(w) \cap Stopped = status \cap Stopped
      /\ "HALT" \in WrittenStatus(w) => "HALT" \in status
      /\ "CLR_INTR_BREAK" \notin w /\ "INTR_BREAK" \in status
           => "INTR_BREAK" \in WrittenStatus(w)
  BY <1>1, Written
<1>3. "CLR_HALT" \in w => "HALT" \in status
  BY DEF update_sp_status
<1>4. UNCHANGED <<task, freeze, reset_hard_job>>
  BY DEF update_sp_status
<1>5. CASE Runs(w)
  <2>1. do_SP_Task(WrittenStatus(w), WrittenLines(w))
    BY <1>5 DEF update_sp_status
  <2>2. "HALT" \in status \/ rsp_task_locked
    BY <1>3, <1>5 DEF Runs, LibultraWrites
  <2>3. events["SP"] = 0
    BY <1>1, <1>5, <2>2 DEF Runs, HaltIdle, TypeOK
  <2> QED
    BY <1>2, <1>4, <1>5, <2>1, <2>2, <2>3, TaskStep DEF Runs
<1>6. CASE ~Runs(w)
  <2>1. /\ status' = WrittenStatus(w) /\ lines' = WrittenLines(w)
        /\ owed' = IF "CLR_INTR_BREAK" \in w THEN owed \ {"SP"} ELSE owed
        /\ UNCHANGED <<rsp_task_locked, unsafe, events, do_on_unfreeze, infloop,
                       quiet, orphan>>
    BY <1>6 DEF update_sp_status
  <2>2. TypeOK'
    BY <1>1, <1>2, <1>4, <2>1 DEF TypeOK
  <2>3. DeferredFrozen' /\ LoopLocked' /\ OwedPending' /\ OneCompletion'
    BY <1>2, <1>4, <2>1 DEF IInv, DeferredFrozen, LoopLocked, OwedPending, OneCompletion
  <2>4. HaltIdle' /\ LockFlagged' /\ LoopTask' /\ OwedBreaks'
    BY <1>2, <1>4, <2>1 DEF IInv, HaltIdle, LockFlagged, LoopTask, OwedBreaks
  <2>5. RunningEnds => RunningEnds'
    <3>1. SUFFICES ASSUME RunningEnds, WrittenStatus(w) \cap Stopped = {}
                   PROVE  events["SP"] > 0 \/ rsp_task_locked \/ quiet
      BY <2>1 DEF RunningEnds
    <3>2. CASE "CLR_HALT" \in w
      BY <1>6, <3>1, <3>2 DEF Runs
    <3>3. CASE "CLR_HALT" \notin w
      BY <1>1, <1>2, <3>1, <3>3 DEF RunningEnds
    <3> QED
      BY <3>2, <3>3
  <2> QED
    BY <2>2, <2>3, <2>4, <2>5 DEF IInv
<1> QED
  BY <1>5, <1>6

\* The end-of-task event preserves the invariant.
LEMMA SpEventStep == ASSUME IInv, rsp_interrupt_event PROVE IInv' /\ (RunningEnds => RunningEnds')
<1> USE DEF Stopped
<1>1. TypeOK /\ OneCompletion /\ OwedBreaks /\ HaltIdle
  BY DEF IInv
<1>2. events["SP"] = 1 /\ events' = [events EXCEPT !["SP"] = @ - 1]
  BY <1>1 DEF rsp_interrupt_event, TypeOK, OneCompletion
<1>3. /\ events' \in [{"SP", "DP"} -> Nat] /\ events'["SP"] = 0
      /\ events'["DP"] = events["DP"]
  BY <1>1, <1>2 DEF TypeOK
<1>4. /\ status' = IF rsp_task_locked THEN status ELSE status \cup Stopped
      /\ UNCHANGED <<task, rsp_task_locked, unsafe, freeze, do_on_unfreeze, infloop,
                     reset_hard_job, quiet, orphan>>
  BY DEF rsp_interrupt_event
<1>5. lines' \subseteq {"SP", "DP"} /\ owed' = owed \ {"SP"}
  BY <1>1 DEF rsp_interrupt_event, TypeOK, OwedBreaks
<1>6. TypeOK'
  BY <1>1, <1>3, <1>4, <1>5 DEF TypeOK
<1>7. DeferredFrozen' /\ LoopLocked' /\ OwedPending' /\ OneCompletion'
  BY <1>3, <1>4, <1>5 DEF IInv, DeferredFrozen, LoopLocked, OwedPending, OneCompletion
<1>8. RunningEnds' /\ HaltIdle' /\ LockFlagged' /\ LoopTask' /\ OwedBreaks'
  BY <1>3, <1>4, <1>5 DEF IInv, RunningEnds, HaltIdle, LockFlagged, LoopTask, OwedBreaks
<1> QED
  BY <1>6, <1>7, <1>8 DEF IInv

\* The RDP's side and the vertical interrupt preserve the invariant.
LEMMA DpStep ==
    ASSUME IInv,
           \/ \E c, s \in BOOLEAN : update_dpc_status(c, s)
           \/ write_dpc_end \/ AckDp \/ rdp_interrupt_event \/ UpdateScreen
    PROVE  IInv' /\ (RunningEnds => RunningEnds')
<1>1. TypeOK /\ DeferredFrozen /\ OwedPending
  BY DEF IInv
<1>2. UNCHANGED <<status, task, rsp_task_locked, unsafe, infloop, reset_hard_job,
                  quiet, orphan>>
  BY DEF update_dpc_status, write_dpc_end, AckDp, rdp_interrupt_event, UpdateScreen
<1> DEFINE Goal ==
      /\ events' \in [{"SP", "DP"} -> Nat] /\ events'["SP"] = events["SP"]
      /\ lines' \subseteq {"SP", "DP"}
      /\ freeze' \in BOOLEAN
      /\ do_on_unfreeze' \subseteq {"DELAY_DP_INT", "DELAY_UPDATESCREEN"}
      /\ owed' \subseteq {"SP", "DP", "SCREEN"}
      /\ "SP" \in owed' <=> "SP" \in owed
      /\ DeferredFrozen'
      /\ "DP" \in owed' => events'["DP"] > 0 \/ "DELAY_DP_INT" \in do_on_unfreeze'
      /\ "SCREEN" \in owed' => "DELAY_UPDATESCREEN" \in do_on_unfreeze'
<1>3. Goal
  <2> USE <1>1 DEF TypeOK, DeferredFrozen, OwedPending
  <2>1. ASSUME NEW c \in BOOLEAN, NEW s \in BOOLEAN, update_dpc_status(c, s) PROVE Goal
    <3>1. events' = events /\ freeze' = (s \/ (freeze /\ ~c))
      BY <2>1 DEF update_dpc_status
    <3>2. CASE c
      <4>1. /\ lines' = IF "DELAY_DP_INT" \in do_on_unfreeze THEN lines \cup {"DP"} ELSE lines
            /\ owed' = owed \ {IF d = "DELAY_DP_INT" THEN "DP" ELSE "SCREEN" :
                                  d \in do_on_unfreeze}
            /\ do_on_unfreeze' = {}
        BY <2>1, <3>2 DEF update_dpc_status
      <4>2. "DELAY_DP_INT" \in do_on_unfreeze => "DP" \notin owed'
        BY <4>1
      <4>3. "DELAY_UPDATESCREEN" \in do_on_unfreeze => "SCREEN" \notin owed'
        BY <4>1
      <4>4. owed' \subseteq owed /\ ("SP" \in owed => "SP" \in owed')
        BY <4>1
      <4>5. lines' \subseteq {"SP", "DP"}
        BY <4>1
      <4>6. freeze' \in BOOLEAN
        BY <3>1
      <4> QED
        BY <3>1, <4>1, <4>2, <4>3, <4>4, <4>5, <4>6
    <3>3. CASE ~c
      <4>1. UNCHANGED <<lines, owed, do_on_unfreeze>>
        BY <2>1, <3>3 DEF update_dpc_status
      <4>2. freeze' \in BOOLEAN /\ (freeze => freeze')
        BY <3>1, <3>3
      <4> QED
        BY <3>1, <4>1, <4>2
    <3> QED
      BY <3>2, <3>3
  <2>2. CASE write_dpc_end \/ AckDp
    BY <2>2 DEF write_dpc_end, AckDp
  <2>3. CASE rdp_interrupt_event
    BY <2>3 DEF rdp_interrupt_event
  <2>4. CASE UpdateScreen
    BY <2>4 DEF UpdateScreen
  <2> QED
    BY <2>1, <2>2, <2>3, <2>4
<1>5. TypeOK'
  BY <1>1, <1>2, <1>3 DEF TypeOK
<1>6. OwedPending'
  BY <1>1, <1>3 DEF OwedPending
<1>7. LoopLocked' /\ OneCompletion' /\ (RunningEnds => RunningEnds')
  BY <1>2, <1>3 DEF IInv, LoopLocked, OneCompletion, RunningEnds
<1>8. HaltIdle' /\ LockFlagged' /\ LoopTask' /\ OwedBreaks'
  BY <1>2, <1>3 DEF IInv, HaltIdle, LockFlagged, LoopTask, OwedBreaks
<1> QED
  BY <1>3, <1>5, <1>6, <1>7, <1>8 DEF IInv

\* Both resets preserve the invariant.
LEMMA ResetStep == ASSUME IInv, nmi_int_handler \/ reset_hard_handler PROVE IInv' /\ (RunningEnds => RunningEnds')
<1> USE DEF NoEvents, Stopped
<1>1. CASE nmi_int_handler
  <2>1. TypeOK'
    BY <1>1, RspRdpAssumption DEF IInv, TypeOK, TaskKinds, nmi_int_handler
  <2>2. DeferredFrozen' /\ LoopLocked' /\ OwedPending' /\ OneCompletion'
    BY <1>1 DEF IInv, TypeOK, nmi_int_handler, DeferredFrozen, LoopLocked, OwedPending,
       OneCompletion
  <2>3. RunningEnds' /\ HaltIdle' /\ LockFlagged' /\ LoopTask' /\ OwedBreaks'
    BY <1>1 DEF IInv, TypeOK, nmi_int_handler, RunningEnds, HaltIdle, LockFlagged,
       LoopTask, OwedBreaks
  <2> QED
    BY <2>1, <2>2, <2>3 DEF IInv
<1>2. CASE reset_hard_handler
  <2> USE <1>2 DEF reset_hard_handler, Poweron
  <2>1. TypeOK'
    BY DEF IInv, TypeOK, TaskKinds
  <2>2. DeferredFrozen' /\ LoopLocked' /\ OwedPending' /\ OneCompletion'
    BY DEF IInv, DeferredFrozen, LoopLocked, OwedPending, OneCompletion
  <2>3. infloop => orphan
    BY DEF IInv, LoopLocked
  <2>4. RunningEnds' /\ HaltIdle' /\ LockFlagged' /\ LoopTask' /\ OwedBreaks'
    BY <2>3 DEF RunningEnds, HaltIdle, LockFlagged, LoopTask, OwedBreaks
  <2> QED
    BY <2>1, <2>2, <2>4 DEF IInv
<1> QED
  BY <1>1, <1>2

\* The invariant is inductive.
LEMMA InvStep == LibultraWrites /\ IInv /\ [Next]_vars => IInv' /\ (RunningEnds => RunningEnds')
<1> SUFFICES ASSUME LibultraWrites, IInv, [Next]_vars
             PROVE  IInv' /\ (RunningEnds => RunningEnds')
  OBVIOUS
<1>1. ASSUME NEW w \in SpWrites, update_sp_status(w)
      PROVE  IInv' /\ (RunningEnds => RunningEnds')
  BY <1>1, WriteStep
<1>2. ASSUME NEW t \in Tasks, LoadTask(t)
      PROVE  IInv' /\ (RunningEnds => RunningEnds')
  <2>1. /\ "HALT" \in status /\ task' = t /\ t \in TaskKinds
        /\ UNCHANGED <<status, rsp_task_locked, unsafe, lines, events, freeze,
                       do_on_unfreeze, infloop, reset_hard_job, owed, quiet, orphan>>
    BY <1>2, RspRdpAssumption DEF LoadTask
  <2>2. TypeOK'
    BY <2>1 DEF IInv, TypeOK
  <2>3. /\ DeferredFrozen' /\ LoopLocked' /\ OwedPending' /\ OneCompletion'
        /\ RunningEnds => RunningEnds'
    BY <2>1 DEF IInv, DeferredFrozen, LoopLocked, OwedPending, OneCompletion, RunningEnds
  <2>4. HaltIdle' /\ LockFlagged' /\ LoopTask' /\ OwedBreaks'
    BY <2>1 DEF IInv, HaltIdle, LockFlagged, LoopTask, LoopLocked, OwedBreaks
  <2> QED
    BY <2>2, <2>3, <2>4 DEF IInv
<1>3. CASE rsp_interrupt_event
  BY <1>3, SpEventStep
<1>4. CASE \/ \E c, s \in BOOLEAN : update_dpc_status(c, s)
           \/ write_dpc_end \/ AckDp \/ rdp_interrupt_event \/ UpdateScreen
  BY <1>4, DpStep
<1>5. CASE nmi_int_handler \/ reset_hard_handler
  BY <1>5, ResetStep
<1>6. CASE RequestHardReset \/ UNCHANGED vars
  <2>1. UNCHANGED <<rcp, infloop, owed, quiet, orphan>> /\ reset_hard_job' \in BOOLEAN
    BY <1>6 DEF RequestHardReset, vars, IInv, TypeOK
  <2>2. TypeOK' /\ DeferredFrozen' /\ LoopLocked' /\ OwedPending' /\ OneCompletion'
    BY <2>1 DEF IInv, rcp, TypeOK, DeferredFrozen, LoopLocked, OwedPending, OneCompletion
  <2>3. /\ RunningEnds => RunningEnds'
        /\ HaltIdle' /\ LockFlagged' /\ LoopTask' /\ OwedBreaks'
    BY <2>1 DEF IInv, rcp, RunningEnds, HaltIdle, LockFlagged, LoopTask, OwedBreaks
  <2> QED
    BY <2>2, <2>3 DEF IInv
<1> QED
  BY <1>1, <1>2, <1>3, <1>4, <1>5, <1>6 DEF Next, Guest, Dispatch

\* The invariant holds in every reachable state.
LEMMA Invariance == ASSUME LibultraWrites PROVE Spec => [](IInv /\ RunningEnds)
<1>1. (IInv /\ RunningEnds) /\ [Next]_vars => (IInv /\ RunningEnds)'
  BY InvStep
<1> QED
  BY <1>1, InitInv, PTL DEF Spec

\* The registers, counters and histories stay well typed.
THEOREM RspTypeCorrect == LibultraWrites => (Spec => []TypeOK)
<1> SUFFICES ASSUME LibultraWrites PROVE Spec => []TypeOK
  OBVIOUS
<1>1. IInv => TypeOK
  BY DEF IInv
<1> QED
  BY <1>1, Invariance, PTL

\* For every mix of tasks the plugin waits in a display list only behind the lock.
THEOREM LoopAlwaysLocked == LibultraWrites => (Spec => []LoopLocked)
<1> SUFFICES ASSUME LibultraWrites PROVE Spec => []LoopLocked
  OBVIOUS
<1>1. IInv => LoopLocked
  BY DEF IInv
<1> QED
  BY <1>1, Invariance, PTL

\* No interrupt or picture that was held back is forgotten.
THEOREM OwedAlwaysPending == LibultraWrites => (Spec => []OwedPending)
<1> SUFFICES ASSUME LibultraWrites PROVE Spec => []OwedPending
  OBVIOUS
<1>1. IInv => OwedPending
  BY DEF IInv
<1> QED
  BY <1>1, Invariance, PTL

\* Nothing is put off while the RDP is not frozen.
THEOREM DeferredOnlyFrozen == LibultraWrites => (Spec => []DeferredFrozen)
<1> SUFFICES ASSUME LibultraWrites PROVE Spec => []DeferredFrozen
  OBVIOUS
<1>1. IInv => DeferredFrozen
  BY DEF IInv
<1> QED
  BY <1>1, Invariance, PTL

\* Two ends of task are never queued at once.
THEOREM OneCompletionAlways == LibultraWrites => (Spec => []OneCompletion)
<1> SUFFICES ASSUME LibultraWrites PROVE Spec => []OneCompletion
  OBVIOUS
<1>1. IInv => OneCompletion
  BY DEF IInv
<1> QED
  BY <1>1, Invariance, PTL

\* A running RSP has its end in the queue, is locked, or was not to interrupt.
THEOREM RunningAlwaysEnds == LibultraWrites => (Spec => []RunningEnds)
<1> SUFFICES ASSUME LibultraWrites PROVE Spec => []RunningEnds
  OBVIOUS
<1> QED
  BY Invariance, PTL
-----------------------------------------------------------------------------
(* Savestates *)

\* The core's frames on the stack: VI_INT is out of the queue exactly while the
\* front end runs, and MTC0 is under gen_interrupt only then.
FrameInv ==
    /\ side \in {"core", "frontend"} /\ vi \in {0, 1}
    /\ side = "core" => caller = "loop" /\ loaded = "no" /\ (armed => vi = 1)
    /\ side = "frontend" => vi = 0
    /\ slot.none \in BOOLEAN
    /\ slot.none = FALSE => slot.vi = 0
    /\ slot.none => loaded = "no"

\* What an image holds, whenever it was taken.
SlotInv ==
    slot.none = FALSE =>
        /\ slot.status \subseteq {"HALT", "BROKE", "INTR_BREAK"}
        /\ slot.task \in TaskKinds
        /\ slot.lines \subseteq {"SP", "DP"}
        /\ slot.events \in [{"SP", "DP"} -> Nat]
        /\ slot.freeze \in BOOLEAN /\ slot.quiet \in BOOLEAN
        /\ slot.do_on_unfreeze \subseteq {"DELAY_DP_INT", "DELAY_UPDATESCREEN"}
        /\ slot.owed \subseteq {"SP", "DP", "SCREEN"}
        /\ slot.do_on_unfreeze # {} => slot.freeze
        /\ "DELAY_UPDATESCREEN" \in slot.do_on_unfreeze
             => "DELAY_DP_INT" \in slot.do_on_unfreeze
        /\ "SP" \in slot.owed => slot.events["SP"] > 0 /\ "INTR_BREAK" \in slot.status
        /\ "DP" \in slot.owed
             => slot.events["DP"] > 0 \/ "DELAY_DP_INT" \in slot.do_on_unfreeze
        /\ "SCREEN" \in slot.owed => "DELAY_UPDATESCREEN" \in slot.do_on_unfreeze
        /\ slot.events["SP"] <= 1
        /\ "HALT" \in slot.status => slot.events["SP"] = 0

\* What a safe image stands for: nothing of it is lost but a lock that is free and a
\* plugin that waits nowhere.
SlotExact ==
    slot.none = FALSE /\ slot.safe =>
        slot.resumed = <<slot.status, slot.task, FALSE, FALSE, slot.lines, slot.events,
                         slot.freeze, slot.do_on_unfreeze, FALSE, slot.armed,
                         slot.vi + 1, slot.base>>

SaveInv == FrameInv /\ IInv /\ SlotInv /\ SlotExact /\ LoadExact
-----------------------------------------------------------------------------
\* The initial state satisfies the invariant.
LEMMA InitSaveInv == InitSave => SaveInv
<1> SUFFICES ASSUME InitSave PROVE SaveInv
  OBVIOUS
<1>1. IInv
  BY InitInv DEF InitSave
<1>2. slot.none = TRUE
  BY DEF InitSave, NoSlot
<1>3. FrameInv
  BY <1>2 DEF InitSave, FrameInv
<1>4. SlotInv /\ SlotExact
  BY <1>2 DEF SlotInv, SlotExact
<1>5. LoadExact
  BY DEF InitSave, LoadExact
<1> QED
  BY <1>1, <1>3, <1>4, <1>5 DEF SaveInv

\* The image is what the machine was at the save.
LEMMA Image ==
    ASSUME retro_serialize
    PROVE  /\ slot'.none = FALSE /\ slot'.status = status /\ slot'.task = task
           /\ slot'.lines = lines /\ slot'.events = events /\ slot'.vi = vi
           /\ slot'.armed = armed /\ slot'.base = base /\ slot'.freeze = freeze
           /\ slot'.do_on_unfreeze = do_on_unfreeze /\ slot'.owed = owed
           /\ slot'.quiet = quiet /\ slot'.safe = (~Unsafe /\ ~orphan)
           /\ slot'.resumed = Resumed
           /\ UNCHANGED <<vars, side, caller, base, armed, vi, loaded>>
  BY DEF retro_serialize

\* No step loses a VI_INT or queues a second one.
LEMMA FrameStep == ASSUME FrameInv, [NextSave]_allVars PROVE FrameInv'
<1> USE DEF FrameInv
<1>1. CASE CoreStep \/ ArmVi \/ Nmi \/ HardReset
  BY <1>1 DEF CoreStep, ArmVi, Nmi, HardReset, saveVars
<1>2. ASSUME NEW c, ViEnter(c) PROVE FrameInv'
  BY <1>2 DEF ViEnter
<1>3. ASSUME NEW v, MTC0_Count(v) PROVE FrameInv'
  BY <1>3 DEF MTC0_Count
<1>4. CASE Resume \/ HostHardReset
  BY <1>4 DEF Resume, HostHardReset, saveVars
<1>5. CASE retro_serialize
  BY <1>5, Image DEF retro_serialize
<1>6. CASE retro_unserialize
  BY <1>6 DEF retro_unserialize
<1>7. CASE UNCHANGED allVars
  BY <1>7 DEF allVars, saveVars
<1> QED
  BY <1>1, <1>2, <1>3, <1>4, <1>5, <1>6, <1>7 DEF NextSave

\* The image taken of a machine that satisfies the invariant.
LEMMA SerializeStep == ASSUME SaveInv, retro_serialize PROVE SaveInv'
<1>1. FrameInv' /\ FrameInv
  BY FrameStep DEF NextSave, SaveInv
<1>2. UNCHANGED vars /\ IInv
  BY Image DEF SaveInv
<1>3. IInv'
  BY <1>2 DEF vars, rcp, IInv, TypeOK, DeferredFrozen, LoopLocked, OwedPending,
     OneCompletion, HaltIdle, LockFlagged, LoopTask, OwedBreaks
<1>4. SlotInv'
  BY <1>2, Image DEF SlotInv, IInv, TypeOK, DeferredFrozen, OwedPending, OneCompletion,
     HaltIdle, OwedBreaks
<1>5. SlotExact'
  <2> SUFFICES ASSUME ~Unsafe, ~orphan
               PROVE  Resumed = <<status, task, FALSE, FALSE, lines, events, freeze,
                                  do_on_unfreeze, FALSE, armed, vi + 1, base>>
    BY Image DEF SlotExact
  <2>1. caller = "loop" /\ unsafe = FALSE /\ rsp_task_locked = FALSE
    BY <1>2 DEF Unsafe, IInv, TypeOK, LockFlagged
  <2>2. infloop = FALSE
    BY <1>2, <2>1 DEF IInv, TypeOK, LoopLocked
  <2> QED
    BY <2>1, <2>2 DEF Resumed, Machine
<1>6. LoadExact'
  <2>1. Resumed' = Resumed
    BY Image DEF vars, rcp, Resumed, Machine
  <2> QED
    BY <2>1, Image DEF LoadExact
<1> QED
  BY <1>1, <1>3, <1>4, <1>5, <1>6 DEF SaveInv

\* A load puts back a state that satisfies the invariant, whatever the machine was
\* doing when the front end asked for it.
LEMMA UnserializeStep == ASSUME SaveInv, retro_unserialize PROVE SaveInv'
<1>1. FrameInv' /\ FrameInv
  BY FrameStep DEF NextSave, SaveInv
<1>2. /\ slot.none = FALSE /\ slot' = slot
      /\ status' = slot.status /\ task' = slot.task /\ lines' = slot.lines
      /\ events' = slot.events /\ vi' = slot.vi /\ armed' = slot.armed
      /\ base' = slot.base /\ freeze' = slot.freeze
      /\ do_on_unfreeze' = slot.do_on_unfreeze
      /\ rsp_task_locked' = FALSE /\ unsafe' = FALSE
      /\ owed' = slot.owed /\ quiet' = slot.quiet /\ orphan' = infloop
      /\ loaded' = (IF Unsafe THEN "unsafe" ELSE "safe")
      /\ UNCHANGED <<infloop, reset_hard_job, side, caller>>
  BY <1>1 DEF retro_unserialize, Lock, FrameInv
<1>3. SlotInv /\ SlotExact /\ TypeOK
  BY DEF SaveInv, IInv
<1>4. SlotInv' /\ SlotExact'
  BY <1>2, <1>3 DEF SlotInv, SlotExact
<1>5. TypeOK'
  BY <1>2, <1>3 DEF SlotInv, TypeOK
<1>6. DeferredFrozen' /\ OwedPending' /\ OneCompletion' /\ HaltIdle' /\ OwedBreaks'
  BY <1>2, <1>3 DEF SlotInv, DeferredFrozen, OwedPending, OneCompletion, HaltIdle, OwedBreaks
<1>7. LoopLocked' /\ LockFlagged' /\ LoopTask'
  BY <1>2 DEF LoopLocked, LockFlagged, LoopTask
<1>8. LoadExact'
  <2> SUFFICES ASSUME ~Unsafe, slot.safe, ~infloop PROVE Resumed' = slot.resumed
    BY <1>2 DEF LoadExact
  <2>1. caller' = "loop" /\ infloop' = FALSE
    BY <1>2, <1>3 DEF Unsafe, TypeOK
  <2> QED
    BY <1>2, <1>3, <2>1 DEF Resumed, Machine, SlotExact
<1> QED
  BY <1>1, <1>4, <1>5, <1>6, <1>7, <1>8 DEF SaveInv, IInv

\* The steps of the core and a reset asked for meanwhile.
LEMMA MachineStep ==
    ASSUME SaveInv, LibultraWrites, [NextSave]_allVars, slot' = slot,
           [Next]_vars,
           loaded' = "no" \/ (loaded' = loaded /\ Resumed' = Resumed /\ orphan' = orphan)
    PROVE  SaveInv'
<1>1. FrameInv'
  BY FrameStep DEF SaveInv
<1>2. IInv'
  BY InvStep DEF SaveInv
<1>3. SlotInv' /\ SlotExact'
  BY DEF SaveInv, SlotInv, SlotExact
<1>4. LoadExact'
  BY DEF SaveInv, LoadExact
<1> QED
  BY <1>1, <1>2, <1>3, <1>4 DEF SaveInv

\* The invariant is inductive.
LEMMA SaveStep ==
    ASSUME LibultraWrites, SaveInv, [NextSave]_allVars PROVE SaveInv'
<1>1. FrameInv
  BY DEF SaveInv
<1>2. CASE CoreStep
  <2>1. Next /\ slot' = slot /\ loaded' = "no"
    BY <1>1, <1>2 DEF CoreStep, FrameInv, saveVars, Next, Dispatch
  <2> QED
    BY <2>1, MachineStep
<1>3. CASE ArmVi
  <2>1. UNCHANGED vars /\ slot' = slot /\ loaded' = "no"
    BY <1>1, <1>3 DEF ArmVi, FrameInv
  <2> QED
    BY <2>1, MachineStep
<1>4. CASE Nmi
  <2>1. Next /\ slot' = slot /\ loaded' = "no"
    BY <1>1, <1>4 DEF Nmi, FrameInv, Next, Dispatch
  <2> QED
    BY <2>1, MachineStep
<1>5. CASE HardReset
  <2>1. Next /\ slot' = slot /\ loaded' = "no"
    BY <1>1, <1>5 DEF HardReset, FrameInv, Next, Dispatch
  <2> QED
    BY <2>1, MachineStep
<1>6. ASSUME NEW c \in {"loop"} \cup Counts, ViEnter(c) PROVE SaveInv'
  <2>1. Next /\ slot' = slot /\ loaded' = "no"
    BY <1>1, <1>6 DEF ViEnter, FrameInv, Next
  <2> QED
    BY <2>1, MachineStep
<1>7. ASSUME NEW v \in Counts, MTC0_Count(v) PROVE SaveInv'
  <2>1. UNCHANGED vars /\ slot' = slot /\ loaded' = "no"
    BY <1>1, <1>7 DEF MTC0_Count, FrameInv
  <2> QED
    BY <2>1, MachineStep
<1>8. CASE Resume
  <2>1. UNCHANGED vars /\ slot' = slot /\ loaded' = "no"
    BY <1>8 DEF Resume
  <2> QED
    BY <2>1, MachineStep
<1>9. CASE HostHardReset
  <2>1. Next /\ UNCHANGED <<saveVars, rcp, infloop, orphan>>
    BY <1>9 DEF HostHardReset, RequestHardReset, Next
  <2>2. Resumed' = Resumed /\ slot' = slot /\ loaded' = loaded /\ orphan' = orphan
    BY <2>1 DEF saveVars, rcp, Resumed, Machine
  <2> QED
    BY <2>1, <2>2, MachineStep
<1>10. CASE UNCHANGED allVars
  <2>1. UNCHANGED <<saveVars, vars>>
    BY <1>10 DEF allVars
  <2>2. Resumed' = Resumed /\ slot' = slot /\ loaded' = loaded /\ orphan' = orphan
    BY <2>1 DEF saveVars, vars, rcp, Resumed, Machine
  <2> QED
    BY <2>1, <2>2, MachineStep
<1> QED
  BY <1>2, <1>3, <1>4, <1>5, <1>6, <1>7, <1>8, <1>9, <1>10, SerializeStep,
     UnserializeStep DEF NextSave

\* The invariant holds in every reachable state.
LEMMA SaveInvariance == ASSUME LibultraWrites PROVE SpecSave => []SaveInv
<1>1. SaveInv /\ [NextSave]_allVars => SaveInv'
  BY SaveStep
<1> QED
  BY <1>1, InitSaveInv, PTL DEF SpecSave

\* Saving and loading inside the vertical interrupt neither loses a frame nor doubles
\* one, whatever the guest writes: VI_INT is out of the queue exactly while the front
\* end runs.
THEOREM OneFrameAlways == SpecSave => []FrameOnce
<1>1. InitSave => FrameInv
  BY DEF InitSave, FrameInv, NoSlot
<1>2. FrameInv /\ [NextSave]_allVars => FrameInv'
  BY FrameStep
<1>3. FrameInv => FrameOnce
  BY DEF FrameInv, FrameOnce
<1> QED
  BY <1>1, <1>2, <1>3, PTL DEF SpecSave

\* A machine saved and loaded while interrupt_unsafe_state is 0 goes on from the load
\* as it would have gone on from the save.
THEOREM LoadAlwaysExact == LibultraWrites => (SpecSave => []LoadExact)
<1> SUFFICES ASSUME LibultraWrites PROVE SpecSave => []LoadExact
  OBVIOUS
<1>1. SaveInv => LoadExact
  BY DEF SaveInv
<1> QED
  BY <1>1, SaveInvariance, PTL

\* A load, safe or not, forgets no interrupt or picture that the image had put off.
THEOREM OwedAlwaysSaved == LibultraWrites => (SpecSave => []OwedSaved)
<1> SUFFICES ASSUME LibultraWrites PROVE SpecSave => []OwedSaved
  OBVIOUS
<1>1. SaveInv => OwedSaved
  BY DEF SaveInv, IInv, OwedSaved
<1> QED
  BY <1>1, SaveInvariance, PTL

\* With savestates, too, no two ends of task are queued and the plugin waits only
\* behind the lock, unless a soft reset or a load cut its list off.
THEOREM LoadKeepsRsp == LibultraWrites => (SpecSave => [](LoopLocked /\ OneCompletion))
<1> SUFFICES ASSUME LibultraWrites PROVE SpecSave => [](LoopLocked /\ OneCompletion)
  OBVIOUS
<1>1. SaveInv => LoopLocked /\ OneCompletion
  BY DEF SaveInv, IInv
<1> QED
  BY <1>1, SaveInvariance, PTL
=============================================================================
