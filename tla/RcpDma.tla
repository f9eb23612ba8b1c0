------------------------------- MODULE RcpDma -------------------------------
(***************************************************************************)
(* The RCP's serial (SI), parallel (PI) and audio (AI) interfaces: the     *)
(* registers that start a transfer, the end-of-DMA handlers, and what a    *)
(* soft reset (nmi_int_handler) and a hard reset make of them.             *)
(*                                                                         *)
(* The event queue is what EventQueue and R4300Interrupts show it to be:   *)
(* a node that is added is dispatched once, sooner or later, unless        *)
(* init_interrupt clears the queue.  events counts the nodes of a type.    *)
(*                                                                         *)
(* Audio lengths are in units of 8 bytes, the grain of AI_LEN_REG reads.   *)
(***************************************************************************)
EXTENDS Naturals

CONSTANTS
    AiLengths,    \* lengths the guest writes to AI_LEN_REG
    MaxEvents     \* bound on the PI transfers in flight

ASSUME RcpDmaAssumption ==
    /\ AiLengths \subseteq Nat \ {0}
    /\ MaxEvents \in Nat

VARIABLES
    events,     \* queued SI_INT, PI_INT and AI_INT nodes
    lines,      \* the SI, PI and AI bits of MI_INTR_REG
    si,         \* SI_STATUS_REG (DMA_BUSY, DMA_ERROR, INTERRUPT) and dma_dir
    pi_busy,    \* PI_STATUS_DMA_BUSY
    ai,         \* AI_STATUS_REG (BUSY, FULL), fifo, last_read, delayed_carry
    heard,      \* units of the buffer in fifo[0] handed to the audio backend
    stale,      \* history: a transfer started from idle got a carry
    nmi         \* history: there was a soft reset since power-on

vars == <<events, lines, si, pi_busy, ai, heard, stale, nmi>>

Types == {"SI", "PI", "AI"}

\* A buffer ends at an 8K boundary (carry) or not.
Buffers == [length : Nat, carry : BOOLEAN]
NoBuffer == [length |-> 0, carry |-> FALSE]

PoweronSi == [busy |-> FALSE, error |-> FALSE, intr |-> FALSE, dir |-> "SI_NO_DMA"]
PoweronAi == [busy |-> FALSE, full |-> FALSE, fifo0 |-> NoBuffer, fifo1 |-> NoBuffer,
              last_read |-> 0, delayed_carry |-> FALSE]

Init ==
    /\ events = [t \in Types |-> 0]
    /\ lines = {}
    /\ si = PoweronSi /\ pi_busy = FALSE /\ ai = PoweronAi
    /\ heard = 0 /\ stale = FALSE /\ nmi = FALSE
-----------------------------------------------------------------------------
(* The serial interface *)

\* A write to SI_PIF_ADDR_RD64B_REG or _WR64B_REG: refused while DMA_BUSY is set.
dma_si(dir) ==
    /\ IF si.busy
       THEN si' = [si EXCEPT !.error = TRUE] /\ UNCHANGED events
       ELSE /\ si' = [si EXCEPT !.busy = TRUE, !.dir = dir]
            /\ events' = [events EXCEPT !["SI"] = @ + 1]
    /\ UNCHANGED <<lines, pi_busy, ai, heard, stale, nmi>>

\* Mutant: the handler raises the interrupt and leaves DMA_BUSY set.
si_end_of_dma_event_busy ==
    /\ events["SI"] > 0
    /\ events' = [events EXCEPT !["SI"] = @ - 1]
    /\ si' = [si EXCEPT !.dir = "SI_NO_DMA", !.intr = TRUE]
    /\ lines' = lines \cup {"SI"}
    /\ UNCHANGED <<pi_busy, ai, heard, stale, nmi>>

si_end_of_dma_event ==
    /\ events["SI"] > 0
    /\ events' = [events EXCEPT !["SI"] = @ - 1]
    /\ si' = [si EXCEPT !.dir = "SI_NO_DMA", !.busy = FALSE, !.intr = TRUE]
    /\ lines' = lines \cup {"SI"}
    /\ UNCHANGED <<pi_busy, ai, heard, stale, nmi>>

WriteSiStatus ==
    /\ si' = [si EXCEPT !.intr = FALSE]
    /\ lines' = lines \ {"SI"}
    /\ UNCHANGED <<events, pi_busy, ai, heard, stale, nmi>>
-----------------------------------------------------------------------------
(* The parallel interface *)

\* A write to PI_RD_LEN_REG or PI_WR_LEN_REG; BUSY is not tested.
dma_pi ==
    /\ events["PI"] < MaxEvents
    /\ pi_busy' = TRUE
    /\ events' = [events EXCEPT !["PI"] = @ + 1]
    /\ UNCHANGED <<lines, si, ai, heard, stale, nmi>>

\* PI_STATUS_REG: bit 1 clears the interrupt, bit 0 resets the status only.
WritePiStatus(clear, reset) ==
    /\ lines' = IF clear THEN lines \ {"PI"} ELSE lines
    /\ pi_busy' = (pi_busy /\ ~reset)
    /\ UNCHANGED <<events, si, ai, heard, stale, nmi>>

\* Mutant: the handler runs although no PI_INT is queued.
pi_end_of_dma_event_twice ==
    /\ events' = [events EXCEPT !["PI"] = @ - 1]
    /\ pi_busy' = FALSE
    /\ lines' = lines \cup {"PI"}
    /\ UNCHANGED <<si, ai, heard, stale, nmi>>

\* Mutant: BUSY is not cleared.
pi_end_of_dma_event_kept ==
    /\ events["PI"] > 0
    /\ events' = [events EXCEPT !["PI"] = @ - 1]
    /\ lines' = lines \cup {"PI"}
    /\ UNCHANGED <<si, pi_busy, ai, heard, stale, nmi>>

pi_end_of_dma_event ==
    /\ events["PI"] > 0
    /\ events' = [events EXCEPT !["PI"] = @ - 1]
    /\ pi_busy' = FALSE
    /\ lines' = lines \cup {"PI"}
    /\ UNCHANGED <<si, ai, heard, stale, nmi>>
-----------------------------------------------------------------------------
(* The audio interface *)

\* do_dma on fifo[0] of the controller a: the whole buffer is still to be played,
\* 0x2000 further on when the one before ended at a boundary.
do_dma(a) ==
    /\ ai' = [a EXCEPT !.last_read = a.fifo0.length, !.delayed_carry = a.fifo0.carry]
    /\ heard' = 0

\* fifo_push, for a non-zero write to AI_LEN_REG.
fifo_push(buffer) ==
    /\ IF ai.busy
       THEN /\ ai' = [ai EXCEPT !.fifo1 = buffer, !.full = TRUE]
            /\ UNCHANGED <<events, heard, stale>>
       ELSE /\ do_dma([ai EXCEPT !.fifo0 = buffer, !.busy = TRUE])
            /\ events' = [events EXCEPT !["AI"] = @ + 1]
            /\ stale' = ai.delayed_carry
    /\ UNCHANGED <<lines, si, pi_busy, nmi>>

\* What get_remaining_dma_length may return: it depends on Count, the wrap of
\* Count included, so any length of the transfer; 0 when no AI_INT is queued.
get_remaining_dma_length ==
    IF events["AI"] = 0 THEN {0} ELSE 0 .. ai.fifo0.length

\* Mutant: last_read is not advanced.
ReadAiLen_again ==
    /\ \E value \in get_remaining_dma_length :
        /\ value < ai.last_read
        /\ heard + (ai.last_read - value) <= 2 * ai.fifo0.length
        /\ heard' = heard + (ai.last_read - value)
    /\ UNCHANGED <<events, lines, si, pi_busy, ai, stale, nmi>>

\* A read of AI_LEN_REG hands over what has been played since the last read, also
\* when the AI is idle and last_read is left from the buffer before.
ReadAiLen ==
    /\ \E value \in get_remaining_dma_length :
        /\ value < ai.last_read
        /\ heard' = heard + (ai.last_read - value)
        /\ ai' = [ai EXCEPT !.last_read = value]
    /\ UNCHANGED <<events, lines, si, pi_busy, stale, nmi>>

\* Mutant: FULL is not cleared when the second buffer starts.
fifo_pop_full(rest) ==
    IF ai.full
    THEN /\ do_dma([ai EXCEPT !.fifo0 = ai.fifo1])
         /\ UNCHANGED events
    ELSE /\ ai' = [ai EXCEPT !.busy = FALSE, !.delayed_carry = FALSE]
         /\ heard' = rest
         /\ events' = [events EXCEPT !["AI"] = @ - 1]

\* Mutant: going idle leaves delayed_carry set.
fifo_pop_carry(rest) ==
    IF ai.full
    THEN /\ do_dma([ai EXCEPT !.fifo0 = ai.fifo1, !.full = FALSE])
         /\ UNCHANGED events
    ELSE /\ ai' = [ai EXCEPT !.busy = FALSE]
         /\ heard' = rest
         /\ events' = [events EXCEPT !["AI"] = @ - 1]

\* fifo_pop, after the AI_INT was taken and rest units of fifo[0] were handed
\* over: start the second buffer (its AI_INT replaces the one taken) or go idle.
fifo_pop(rest) ==
    IF ai.full
    THEN /\ do_dma([ai EXCEPT !.fifo0 = ai.fifo1, !.full = FALSE])
         /\ UNCHANGED events
    ELSE /\ ai' = [ai EXCEPT !.busy = FALSE, !.delayed_carry = FALSE]
         /\ heard' = rest
         /\ events' = [events EXCEPT !["AI"] = @ - 1]

\* ai_end_of_dma_event hands over the rest of fifo[0]; last_read is not reset.
ai_end_of_dma_event ==
    /\ events["AI"] > 0
    /\ fifo_pop(heard + ai.last_read)
    /\ lines' = lines \cup {"AI"}
    /\ UNCHANGED <<si, pi_busy, stale, nmi>>

WriteAiStatus ==
    /\ lines' = lines \ {"AI"}
    /\ UNCHANGED <<events, si, pi_busy, ai, heard, stale, nmi>>
-----------------------------------------------------------------------------
(* Resets *)

\* nmi_int_handler with the boot ROM's writes: the queue is cleared; PI is reset
\* and acknowledged, AI_STATUS_REG is cleared; SI and the rest of AI are not.
nmi_int_handler ==
    /\ events' = [t \in Types |-> 0]
    /\ lines' = lines \ {"PI"}
    /\ pi_busy' = FALSE
    /\ ai' = [ai EXCEPT !.busy = FALSE, !.full = FALSE]
    /\ nmi' = TRUE
    /\ UNCHANGED <<si, heard, stale>>

\* reset_hard_handler: poweron_si, poweron_pi, poweron_ai and an empty queue.
reset_hard_handler ==
    /\ events' = [t \in Types |-> 0]
    /\ lines' = {}
    /\ si' = PoweronSi /\ pi_busy' = FALSE /\ ai' = PoweronAi
    /\ heard' = 0 /\ stale' = FALSE /\ nmi' = FALSE

Handlers == si_end_of_dma_event \/ pi_end_of_dma_event \/ ai_end_of_dma_event

Next ==
    \/ \E dir \in {"SI_DMA_READ", "SI_DMA_WRITE"} : dma_si(dir)
    \/ dma_pi
    \/ \E n \in AiLengths, c \in BOOLEAN : fifo_push([length |-> n, carry |-> c])
    \/ WriteSiStatus \/ WriteAiStatus
    \/ \E clear, reset \in BOOLEAN : WritePiStatus(clear, reset)
    \/ ReadAiLen
    \/ Handlers
    \/ nmi_int_handler \/ reset_hard_handler

Spec == Init /\ [][Next]_vars

\* gen_interrupt dispatches every queued event.
FairSpec ==
    /\ Spec
    /\ WF_vars(si_end_of_dma_event)
    /\ WF_vars(pi_end_of_dma_event)
    /\ WF_vars(ai_end_of_dma_event)
-----------------------------------------------------------------------------
(* Properties *)

\* Every variable has its type: no counter of queued events or of samples goes
\* below 0, which would wrap in the code's unsigned ints.
TypeOK ==
    /\ events \in [Types -> Nat]
    /\ lines \subseteq Types
    /\ si \in [busy : BOOLEAN, error : BOOLEAN, intr : BOOLEAN,
               dir : {"SI_NO_DMA", "SI_DMA_READ", "SI_DMA_WRITE"}]
    /\ pi_busy \in BOOLEAN
    /\ ai \in [busy : BOOLEAN, full : BOOLEAN, fifo0 : Buffers, fifo1 : Buffers,
               last_read : Nat, delayed_carry : BOOLEAN]
    /\ heard \in Nat /\ stale \in BOOLEAN /\ nmi \in BOOLEAN

\* A PI or AI that reports BUSY has its end event in the queue, across PI resets,
\* overlapping PI transfers, refills of the audio FIFO and both kinds of reset:
\* a guest that waits for BUSY to go does not wait for ever.
BusyPending ==
    /\ pi_busy => events["PI"] > 0
    /\ events["AI"] = IF ai.busy THEN 1 ELSE 0

\* The same for SI, which refuses every transfer while it reports DMA_BUSY.
SiNeverStuck == events["SI"] = IF si.busy THEN 1 ELSE 0

\* A busy SI has its end event in the queue as long as no soft reset came.
SiBusyPending == ~nmi => SiNeverStuck

\* A buffer that plays is handed to the backend in full and no part of it twice:
\* what was handed over and last_read add up to it at every moment, however the
\* guest polls AI_LEN_REG, refills the FIFO and resets in between; one that has
\* ended was handed over to its last unit unless a soft reset came.
AudioComplete ==
    /\ ai.busy => heard + ai.last_read = ai.fifo0.length
    /\ ~ai.busy /\ ~nmi => heard >= ai.fifo0.length

\* The first transfer after a pause starts at the address the guest wrote: no
\* carry of an earlier stream moves it by 0x2000, as long as no soft reset came.
CarryFresh == ~nmi => ~stale

\* A serial transfer ends, or a soft reset comes: a guest that polls SI_STATUS_REG
\* gets on.
SiCompletes == si.busy ~> (~si.busy \/ nmi)

\* A full audio FIFO drains: a guest that waits to queue its next buffer gets on.
FifoDrains == ai.full ~> ~ai.full
=============================================================================
