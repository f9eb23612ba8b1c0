---------------------------- MODULE RcpDmaProofs ----------------------------
(***************************************************************************)
(* Proofs about RcpDma, for every set of buffer lengths and every bound.   *)
(* One inductive invariant, IInv, carries the three interfaces; what       *)
(* fails after a soft reset (nmi) is in it as an implication.              *)
(***************************************************************************)
EXTENDS RcpDma, TLAPS

\* The carry before a soft reset: only a running transfer holds one.
CarryPart == ~nmi => ~stale /\ (ai.delayed_carry => ai.busy)

IInv == TypeOK /\ BusyPending /\ SiBusyPending /\ AudioComplete /\ CarryPart

\* The initial state satisfies the invariant.
LEMMA InitInv == Init => IInv
<1> SUFFICES ASSUME Init PROVE IInv
  OBVIOUS
<1>1. NoBuffer \in Buffers /\ NoBuffer.length = 0
  BY DEF NoBuffer, Buffers
<1>2. TypeOK
  BY <1>1 DEF Init, TypeOK, Types, PoweronSi, PoweronAi
<1>3. BusyPending /\ SiBusyPending /\ CarryPart
  BY DEF Init, BusyPending, SiBusyPending, SiNeverStuck, CarryPart, Types, PoweronSi, PoweronAi
<1>4. AudioComplete
  BY <1>1 DEF Init, AudioComplete, PoweronAi
<1> QED
  BY <1>2, <1>3, <1>4 DEF IInv

USE RcpDmaAssumption

\* Queueing and taking a node keeps events a vector of counts and touches no other type.
LEMMA EventCounts ==
    ASSUME NEW e \in [Types -> Nat], NEW t \in Types
    PROVE  /\ [e EXCEPT ![t] = @ + 1] \in [Types -> Nat]
           /\ [e EXCEPT ![t] = @ + 1][t] = e[t] + 1
           /\ e[t] > 0 => [e EXCEPT ![t] = @ - 1] \in [Types -> Nat]
           /\ [e EXCEPT ![t] = @ - 1][t] = e[t] - 1
           /\ \A u \in Types \ {t} : /\ [e EXCEPT ![t] = @ + 1][u] = e[u]
                                     /\ [e EXCEPT ![t] = @ - 1][u] = e[u]
  OBVIOUS

\* The components of the AI state have their types.
LEMMA AiFields ==
    ASSUME TypeOK
    PROVE  /\ ai.busy \in BOOLEAN /\ ai.full \in BOOLEAN /\ ai.delayed_carry \in BOOLEAN
           /\ ai.fifo0 \in Buffers /\ ai.fifo0.length \in Nat /\ ai.fifo0.carry \in BOOLEAN
           /\ ai.fifo1 \in Buffers /\ ai.fifo1.length \in Nat /\ ai.fifo1.carry \in BOOLEAN
           /\ ai.last_read \in Nat /\ heard \in Nat
  BY DEF TypeOK, Buffers

\* Every action preserves the types.
LEMMA TypeStep == IInv /\ [Next]_vars => TypeOK'
<1> SUFFICES ASSUME TypeOK, BusyPending, [Next]_vars PROVE TypeOK'
  BY DEF IInv
<1> USE DEF Types
<1>1. ASSUME NEW dir \in {"SI_DMA_READ", "SI_DMA_WRITE"}, dma_si(dir) PROVE TypeOK'
  <2>1. CASE si.busy
    BY <1>1, <2>1 DEF TypeOK, dma_si
  <2>2. CASE ~si.busy
    <3>1. events' \in [Types -> Nat]
      BY <1>1, <2>2, EventCounts DEF TypeOK, dma_si
    <3>2. si' = [si EXCEPT !.busy = TRUE, !.dir = dir]
      BY <1>1, <2>2 DEF dma_si
    <3>3. UNCHANGED <<lines, pi_busy, ai, heard, stale, nmi>>
      BY <1>1 DEF dma_si
    <3> QED
      BY <3>1, <3>2, <3>3 DEF TypeOK
  <2> QED
    BY <2>1, <2>2
<1>2. CASE dma_pi
  BY <1>2 DEF TypeOK, dma_pi
<1>3. ASSUME NEW n \in AiLengths, NEW c \in BOOLEAN,
             fifo_push([length |-> n, carry |-> c])
      PROVE  TypeOK'
  <2> DEFINE buffer == [length |-> n, carry |-> c]
  <2>1. buffer \in Buffers
    BY DEF Buffers
  <2>2. ai.fifo0.length \in Nat /\ ai.delayed_carry \in BOOLEAN
    BY DEF TypeOK, Buffers
  <2> HIDE DEF buffer
  <2>3. buffer.length \in Nat /\ buffer.carry \in BOOLEAN
    BY <2>1 DEF Buffers
  <2>4. fifo_push(buffer)
    BY <1>3 DEF buffer
  <2>5. CASE ai.busy
    BY <2>1, <2>4, <2>5 DEF TypeOK, fifo_push
  <2>6. CASE ~ai.busy
    <3>1. events' \in [Types -> Nat]
      BY <2>4, <2>6, EventCounts DEF TypeOK, fifo_push
    <3>2. ai' = [ai EXCEPT !.fifo0 = buffer, !.busy = TRUE, !.last_read = buffer.length,
                           !.delayed_carry = buffer.carry]
      BY <2>4, <2>6 DEF TypeOK, fifo_push, do_dma
    <3>3. heard' = 0 /\ stale' = ai.delayed_carry /\ UNCHANGED <<lines, si, pi_busy, nmi>>
      BY <2>4, <2>6 DEF fifo_push, do_dma
    <3> QED
      BY <2>1, <2>2, <2>3, <3>1, <3>2, <3>3 DEF TypeOK
  <2> QED
    BY <2>5, <2>6
<1>4. CASE WriteSiStatus
  BY <1>4 DEF TypeOK, WriteSiStatus
<1>5. CASE WriteAiStatus
  BY <1>5 DEF TypeOK, WriteAiStatus
<1>6. ASSUME NEW clear \in BOOLEAN, NEW reset \in BOOLEAN, WritePiStatus(clear, reset)
      PROVE  TypeOK'
  BY <1>6 DEF TypeOK, WritePiStatus
<1>7. CASE ReadAiLen
  <2>1. PICK value \in 0 .. ai.fifo0.length :
          /\ value < ai.last_read
          /\ heard' = heard + (ai.last_read - value)
          /\ ai' = [ai EXCEPT !.last_read = value]
    BY <1>7 DEF ReadAiLen, get_remaining_dma_length, TypeOK, Buffers
  <2>2. value \in Nat /\ heard' \in Nat
    BY <2>1 DEF TypeOK, Buffers
  <2> QED
    BY <1>7, <2>1, <2>2 DEF ReadAiLen, get_remaining_dma_length, TypeOK
<1>8. CASE si_end_of_dma_event
  <2>1. events' \in [Types -> Nat]
    BY <1>8, EventCounts DEF TypeOK, si_end_of_dma_event
  <2> QED
    BY <1>8, <2>1 DEF TypeOK, si_end_of_dma_event
<1>9. CASE pi_end_of_dma_event
  <2>1. events' \in [Types -> Nat]
    BY <1>9, EventCounts DEF TypeOK, pi_end_of_dma_event
  <2> QED
    BY <1>9, <2>1 DEF TypeOK, pi_end_of_dma_event
<1>10. CASE ai_end_of_dma_event
  <2>1. CASE ai.full
    <3>1. ai' = [ai EXCEPT !.fifo0 = ai.fifo1, !.full = FALSE,
                           !.last_read = ai.fifo1.length, !.delayed_carry = ai.fifo1.carry]
      BY <1>10, <2>1 DEF TypeOK, ai_end_of_dma_event, fifo_pop, do_dma
    <3>2. heard' = 0 /\ lines' = lines \cup {"AI"} /\ UNCHANGED <<events, si, pi_busy, stale, nmi>>
      BY <1>10, <2>1 DEF ai_end_of_dma_event, fifo_pop, do_dma
    <3> QED
      BY <3>1, <3>2, AiFields DEF TypeOK
  <2>2. CASE ~ai.full
    <3>1. events' \in [Types -> Nat]
      BY <1>10, <2>2, EventCounts DEF TypeOK, ai_end_of_dma_event, fifo_pop
    <3>2. ai' = [ai EXCEPT !.busy = FALSE, !.delayed_carry = FALSE]
      BY <1>10, <2>2 DEF ai_end_of_dma_event, fifo_pop
    <3>3. heard' = heard + ai.last_read /\ lines' = lines \cup {"AI"}
      BY <1>10, <2>2 DEF ai_end_of_dma_event, fifo_pop
    <3>4. UNCHANGED <<si, pi_busy, stale, nmi>>
      BY <1>10 DEF ai_end_of_dma_event, fifo_pop
    <3>5. heard' \in Nat
      BY <3>3, AiFields
    <3> QED
      BY <3>1, <3>2, <3>3, <3>4, <3>5 DEF TypeOK
  <2> QED
    BY <2>1, <2>2
<1>11. CASE nmi_int_handler
  BY <1>11 DEF TypeOK, nmi_int_handler
<1>12. CASE reset_hard_handler
  BY <1>12 DEF TypeOK, reset_hard_handler, PoweronSi, PoweronAi, NoBuffer, Buffers
<1>13. CASE UNCHANGED vars
  BY <1>13 DEF TypeOK, vars
<1> QED
  BY <1>1, <1>2, <1>3, <1>4, <1>5, <1>6, <1>7, <1>8, <1>9, <1>10, <1>11, <1>12, <1>13
  DEF Next, Handlers

\* PI and AI: every action keeps BUSY and the queue together.
LEMMA BusyStep == IInv /\ [Next]_vars => BusyPending'
<1> SUFFICES ASSUME TypeOK, BusyPending, [Next]_vars PROVE BusyPending'
  BY DEF IInv
<1> USE DEF Types, TypeOK, BusyPending
<1>1. ASSUME NEW dir \in {"SI_DMA_READ", "SI_DMA_WRITE"}, dma_si(dir) PROVE BusyPending'
  BY <1>1 DEF dma_si
<1>2. CASE dma_pi
  BY <1>2 DEF dma_pi
<1>3. ASSUME NEW n \in AiLengths, NEW c \in BOOLEAN,
             fifo_push([length |-> n, carry |-> c])
      PROVE  BusyPending'
  <2>1. CASE ai.busy
    BY <1>3, <2>1 DEF fifo_push
  <2>2. CASE ~ai.busy
    <3>1. ai'.busy
      BY <1>3, <2>2 DEF fifo_push, do_dma
    <3>2. events'["AI"] = 1 /\ events'["PI"] = events["PI"]
      BY <1>3, <2>2, EventCounts DEF fifo_push
    <3> QED
      BY <1>3, <3>1, <3>2 DEF fifo_push
  <2> QED
    BY <2>1, <2>2
<1>4. CASE WriteSiStatus
  BY <1>4 DEF WriteSiStatus
<1>5. CASE WriteAiStatus
  BY <1>5 DEF WriteAiStatus
<1>6. ASSUME NEW clear \in BOOLEAN, NEW reset \in BOOLEAN, WritePiStatus(clear, reset)
      PROVE  BusyPending'
  BY <1>6 DEF WritePiStatus
<1>7. CASE ReadAiLen
  BY <1>7 DEF ReadAiLen, get_remaining_dma_length
<1>8. CASE si_end_of_dma_event
  BY <1>8 DEF si_end_of_dma_event
<1>9. CASE pi_end_of_dma_event
  BY <1>9 DEF pi_end_of_dma_event
<1>10. CASE ai_end_of_dma_event
  <2>1. ai.busy
    BY <1>10 DEF ai_end_of_dma_event, fifo_pop
  <2>2. CASE ai.full
    BY <1>10, <2>1, <2>2 DEF ai_end_of_dma_event, fifo_pop, do_dma
  <2>3. CASE ~ai.full
    <3>1. events'["AI"] = 0 /\ events'["PI"] = events["PI"]
      BY <1>10, <2>1, <2>3, EventCounts DEF ai_end_of_dma_event, fifo_pop
    <3>2. ~ai'.busy
      BY <1>10, <2>3 DEF ai_end_of_dma_event, fifo_pop
    <3> QED
      BY <1>10, <3>1, <3>2 DEF ai_end_of_dma_event, fifo_pop
  <2> QED
    BY <2>2, <2>3
<1>11. CASE nmi_int_handler
  BY <1>11 DEF nmi_int_handler
<1>12. CASE reset_hard_handler
  BY <1>12 DEF reset_hard_handler, PoweronAi
<1>13. CASE UNCHANGED vars
  BY <1>13 DEF vars
<1> QED
  BY <1>1, <1>2, <1>3, <1>4, <1>5, <1>6, <1>7, <1>8, <1>9, <1>10, <1>11, <1>12, <1>13
  DEF Next, Handlers

\* A step after which no soft reset is on record is a hard reset, or there was none
\* on record before.
LEMMA NoResetStep ==
    ASSUME TypeOK, [Next]_vars, ~nmi', ~reset_hard_handler
    PROVE  ~nmi /\ ~nmi_int_handler
<1>1. ~nmi_int_handler
  BY DEF nmi_int_handler
<1>2. ASSUME \/ \E dir \in {"SI_DMA_READ", "SI_DMA_WRITE"} : dma_si(dir)
             \/ \E n \in AiLengths, c \in BOOLEAN : fifo_push([length |-> n, carry |-> c])
             \/ \E clear, reset \in BOOLEAN : WritePiStatus(clear, reset)
      PROVE  ~nmi
  BY <1>2 DEF dma_si, fifo_push, WritePiStatus
<1>3. ASSUME dma_pi \/ WriteSiStatus \/ WriteAiStatus \/ ReadAiLen \/ Handlers
      PROVE  ~nmi
  BY <1>3 DEF dma_pi, WriteSiStatus, WriteAiStatus, ReadAiLen, Handlers,
     si_end_of_dma_event, pi_end_of_dma_event, ai_end_of_dma_event
<1>4. ASSUME UNCHANGED vars PROVE ~nmi
  BY <1>4 DEF vars
<1>5. ~nmi
  BY <1>1, <1>2, <1>3, <1>4, Zenon DEF Next
<1> QED
  BY <1>1, <1>5

\* SI: without a soft reset DMA_BUSY and the queue stay together.
LEMMA SiStep == IInv /\ [Next]_vars => SiBusyPending'
<1> SUFFICES ASSUME TypeOK, SiBusyPending, ~nmi', [Next]_vars PROVE SiNeverStuck'
  BY DEF IInv, SiBusyPending
<1>0. CASE reset_hard_handler
  BY <1>0 DEF reset_hard_handler, PoweronSi, SiNeverStuck, Types
<1> SUFFICES ASSUME ~reset_hard_handler PROVE SiNeverStuck'
  BY <1>0
<1>n. ~nmi_int_handler /\ SiNeverStuck
  BY NoResetStep DEF SiBusyPending
<1> USE <1>n DEF Types, TypeOK, SiNeverStuck
<1>1. ASSUME NEW dir \in {"SI_DMA_READ", "SI_DMA_WRITE"}, dma_si(dir) PROVE SiNeverStuck'
  <2>1. CASE si.busy
    BY <1>1, <2>1 DEF dma_si
  <2>2. CASE ~si.busy
    <3>1. si' = [si EXCEPT !.busy = TRUE, !.dir = dir]
      BY <1>1, <2>2 DEF dma_si
    <3>2. si'.busy
      BY <3>1
    <3>3. events' = [events EXCEPT !["SI"] = @ + 1]
      BY <1>1, <2>2 DEF dma_si
    <3>4. events'["SI"] = 1
      BY <2>2, <3>3
    <3> QED
      BY <3>2, <3>4
  <2> QED
    BY <2>1, <2>2
<1>2. CASE si_end_of_dma_event
  BY <1>2 DEF si_end_of_dma_event
<1>3. CASE WriteSiStatus
  BY <1>3 DEF WriteSiStatus
<1>5. ASSUME events'["SI"] = events["SI"], UNCHANGED si PROVE SiNeverStuck'
  BY <1>5
<1>6. CASE dma_pi
  BY <1>5, <1>6 DEF dma_pi
<1>7. ASSUME NEW n \in AiLengths, NEW c \in BOOLEAN,
             fifo_push([length |-> n, carry |-> c])
      PROVE  SiNeverStuck'
  BY <1>5, <1>7 DEF fifo_push
<1>8. CASE pi_end_of_dma_event
  BY <1>5, <1>8 DEF pi_end_of_dma_event
<1>9. CASE ai_end_of_dma_event
  BY <1>5, <1>9 DEF ai_end_of_dma_event, fifo_pop
<1>10. CASE WriteAiStatus \/ ReadAiLen
           \/ \E clear, reset \in BOOLEAN : WritePiStatus(clear, reset)
  BY <1>5, <1>10 DEF WriteAiStatus, ReadAiLen, WritePiStatus
<1>11. CASE UNCHANGED vars
  BY <1>11 DEF vars
<1> QED
  BY <1>1, <1>2, <1>3, <1>6, <1>7, <1>8, <1>9, <1>10, <1>11
  DEF Next, Handlers

\* AI: what was handed over and last_read add up to the buffer.
LEMMA AudioStep == IInv /\ [Next]_vars => AudioComplete'
<1> SUFFICES ASSUME TypeOK, BusyPending, AudioComplete, [Next]_vars
             PROVE  AudioComplete'
  BY DEF IInv
<1>0. /\ ai.fifo0.length \in Nat /\ ai.fifo1.length \in Nat
      /\ ai.last_read \in Nat /\ heard \in Nat
  BY DEF TypeOK, Buffers
<1>1. ASSUME NEW n \in AiLengths, NEW c \in BOOLEAN,
             fifo_push([length |-> n, carry |-> c])
      PROVE  AudioComplete'
  <2>1. CASE ai.busy
    BY <1>1, <2>1 DEF fifo_push, AudioComplete, TypeOK
  <2>2. CASE ~ai.busy
    <3>1. ai'.last_read = n /\ ai'.fifo0.length = n /\ heard' = 0 /\ ai'.busy
      BY <1>1, <2>2, ZenonT(60) DEF fifo_push, do_dma, TypeOK
    <3> QED
      BY <3>1 DEF AudioComplete
  <2> QED
    BY <2>1, <2>2
<1>2. CASE ReadAiLen
  <2>1. PICK value \in 0 .. ai.fifo0.length :
          /\ value < ai.last_read
          /\ heard' = heard + (ai.last_read - value)
          /\ ai' = [ai EXCEPT !.last_read = value]
    BY <1>0, <1>2 DEF ReadAiLen, get_remaining_dma_length
  <2>2. ai'.busy = ai.busy /\ ai'.fifo0 = ai.fifo0 /\ ai'.last_read = value /\ nmi' = nmi
    BY <1>2, <2>1 DEF ReadAiLen, TypeOK
  <2> QED
    BY <1>0, <2>1, <2>2 DEF AudioComplete
<1>3. CASE ai_end_of_dma_event
  <2>1. ai.busy
    BY <1>3 DEF ai_end_of_dma_event, fifo_pop, BusyPending
  <2>2. CASE ai.full
    <3>1. ai'.last_read = ai.fifo1.length /\ ai'.fifo0 = ai.fifo1 /\ heard' = 0 /\ ai'.busy
      BY <1>3, <2>1, <2>2 DEF ai_end_of_dma_event, fifo_pop, do_dma, TypeOK
    <3> QED
      BY <1>0, <3>1 DEF AudioComplete
  <2>3. CASE ~ai.full
    <3>1. ~ai'.busy /\ ai'.fifo0 = ai.fifo0 /\ heard' = heard + ai.last_read
      BY <1>3, <2>3 DEF ai_end_of_dma_event, fifo_pop, TypeOK
    <3> QED
      BY <1>0, <2>1, <3>1 DEF AudioComplete
  <2> QED
    BY <2>2, <2>3
<1>4. CASE nmi_int_handler
  BY <1>0, <1>4 DEF nmi_int_handler, AudioComplete, TypeOK
<1>5. CASE reset_hard_handler
  BY <1>5 DEF reset_hard_handler, AudioComplete, PoweronAi, NoBuffer
<1>6. ASSUME UNCHANGED <<ai, heard, nmi>> PROVE AudioComplete'
  BY <1>6 DEF AudioComplete
<1> QED
  BY <1>1, <1>2, <1>3, <1>4, <1>5, <1>6
  DEF Next, Handlers, dma_si, dma_pi, WriteSiStatus, WriteAiStatus, WritePiStatus,
      si_end_of_dma_event, pi_end_of_dma_event, vars

\* AI: going idle drops the carry.
LEMMA CarryStep == IInv /\ [Next]_vars => CarryPart'
<1> SUFFICES ASSUME TypeOK, BusyPending, CarryPart, ~nmi', [Next]_vars
             PROVE  ~stale' /\ (ai'.delayed_carry => ai'.busy)
  BY DEF IInv, CarryPart
<1>0. CASE reset_hard_handler
  BY <1>0 DEF reset_hard_handler, PoweronAi
<1> SUFFICES ASSUME ~reset_hard_handler PROVE ~stale' /\ (ai'.delayed_carry => ai'.busy)
  BY <1>0
<1>n. ~nmi /\ ~nmi_int_handler
  BY NoResetStep
<1> USE <1>n DEF CarryPart, TypeOK
<1>1. ASSUME NEW n \in AiLengths, NEW c \in BOOLEAN,
             fifo_push([length |-> n, carry |-> c])
      PROVE  ~stale' /\ (ai'.delayed_carry => ai'.busy)
  <2>1. CASE ai.busy
    BY <1>1, <2>1 DEF fifo_push
  <2>2. CASE ~ai.busy
    BY <1>1, <2>2 DEF fifo_push, do_dma
  <2> QED
    BY <2>1, <2>2
<1>2. CASE ReadAiLen
  BY <1>2 DEF ReadAiLen, get_remaining_dma_length
<1>3. CASE ai_end_of_dma_event
  <2>1. ai.busy
    BY <1>3 DEF ai_end_of_dma_event, fifo_pop, BusyPending
  <2>2. CASE ai.full
    BY <1>3, <2>1, <2>2 DEF ai_end_of_dma_event, fifo_pop, do_dma
  <2>3. CASE ~ai.full
    BY <1>3, <2>3 DEF ai_end_of_dma_event, fifo_pop
  <2> QED
    BY <2>2, <2>3
<1>5. ASSUME UNCHANGED <<ai, stale>> PROVE ~stale' /\ (ai'.delayed_carry => ai'.busy)
  BY <1>5
<1> QED
  BY <1>1, <1>2, <1>3, <1>5
  DEF Next, Handlers, dma_si, dma_pi, WriteSiStatus, WriteAiStatus, WritePiStatus,
      si_end_of_dma_event, pi_end_of_dma_event, vars

\* The invariant holds in every reachable state.
LEMMA Invariance == Spec => []IInv
<1>1. IInv /\ [Next]_vars => IInv'
  BY TypeStep, BusyStep, SiStep, AudioStep, CarryStep DEF IInv
<1> QED
  BY <1>1, InitInv, PTL DEF Spec

\* The state of the three interfaces stays well typed: the events and the samples
\* the handlers count off were all counted before.
THEOREM DmaTypeCorrect == Spec => []TypeOK
<1>1. IInv => TypeOK
  BY DEF IInv
<1> QED
  BY <1>1, Invariance, PTL

\* For every number of overlapping PI transfers and across all resets, a PI or AI
\* that reports BUSY has its end event in the queue.
THEOREM BusyAlwaysPending == Spec => []BusyPending
<1>1. IInv => BusyPending
  BY DEF IInv
<1> QED
  BY <1>1, Invariance, PTL

\* Until a soft reset SI reports DMA_BUSY just while an SI_INT is queued: a
\* refused transfer always has a running one that will end.
THEOREM SiAlwaysPending == Spec => []SiBusyPending
<1>1. IInv => SiBusyPending
  BY DEF IInv
<1> QED
  BY <1>1, Invariance, PTL

\* For all buffer lengths and all ways of polling AI_LEN_REG, refilling the FIFO and
\* resetting, a buffer is handed over in full and once while it plays.
THEOREM AudioAlwaysComplete == Spec => []AudioComplete
<1>1. IInv => AudioComplete
  BY DEF IInv
<1> QED
  BY <1>1, Invariance, PTL

\* Until a soft reset no transfer that starts from idle is moved by a carry.
THEOREM CarryAlwaysFresh == Spec => []CarryFresh
<1>1. IInv => CarryFresh
  BY DEF IInv, CarryPart, CarryFresh
<1> QED
  BY <1>1, Invariance, PTL
=============================================================================
