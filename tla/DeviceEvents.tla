---------------------------- MODULE DeviceEvents ----------------------------
(***************************************************************************)
(* What the CPU side promises the RCP's devices, and all that RcpDma and   *)
(* RspRdp assume of it: an event a device has started stays queued until   *)
(* its handler runs, once, and raises the device's line (SP may keep it    *)
(* down); only a reset takes it away; a line falls only when the guest     *)
(* acknowledges it, when a task takes it back, or at a reset.  When an     *)
(* event is due, in which order, and whether the CPU takes the interrupt   *)
(* is left open.                                                           *)
(***************************************************************************)
EXTENDS Naturals

VARIABLES
    queued,   \* how many events of each device are in the queue
    lines     \* the lines of MI_INTR_REG that are up

vars == <<queued, lines>>

Devices == {"VI_INT", "SI_INT", "PI_INT", "AI_INT", "SP_INT", "DP_INT"}

Init == queued = [t \in Devices |-> 0] /\ lines = {}

Start(t) ==
    queued' = [queued EXCEPT ![t] = @ + 1] /\ UNCHANGED lines

\* The handler of t runs; the VI's queues the next frame, the AI's perhaps the end of
\* a second buffer, and the SP's raises the line only when the task asked for it.
Fire(t) ==
    /\ queued[t] > 0
    /\ \/ t # "VI_INT" /\ queued' = [queued EXCEPT ![t] = @ - 1]
       \/ t \in {"VI_INT", "AI_INT"} /\ queued' = queued
    /\ \/ lines' = lines \cup {t}
       \/ t = "SP_INT" /\ lines' = lines

\* A task lowers SP and perhaps DP; an event is queued for none, one or both.
RunTask ==
    \E new, up \in SUBSET {"SP_INT", "DP_INT"} :
        /\ queued' = [t \in Devices |-> IF t \in new THEN queued[t] + 1 ELSE queued[t]]
        /\ lines' = (lines \ {"SP_INT", "DP_INT"}) \cup up
        /\ "SP_INT" \notin up /\ up \cap new = {}

Acknowledge(t) ==
    lines' = lines \ {t} /\ UNCHANGED queued

Signal(t) ==
    lines' = lines \cup {t} /\ UNCHANGED queued

\* The NMI clears the queue and starts the VI; the boot ROM clears three lines.
SoftReset ==
    /\ queued' = [t \in Devices |-> IF t = "VI_INT" THEN 1 ELSE 0]
    /\ lines' = lines \ {"SP_INT", "PI_INT", "VI_INT"}

HardReset ==
    queued' = [t \in Devices |-> 0] /\ lines' = {}

Next ==
    \/ \E t \in Devices : Start(t) \/ Fire(t) \/ Acknowledge(t)
    \/ \E t \in {"SP_INT", "DP_INT"} : Signal(t)
    \/ RunTask \/ SoftReset \/ HardReset

Spec == Init /\ [][Next]_vars
=============================================================================
