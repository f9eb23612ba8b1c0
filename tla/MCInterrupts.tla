---------------------------- MODULE MCInterrupts ----------------------------
(***************************************************************************)
(* R4300Interrupts for TLC: the values the guest writes to Status and to   *)
(* MI_INTR_MASK_REG, which a .cfg file cannot spell.                       *)
(***************************************************************************)
EXTENDS StateReload

MCStatusWrites == {[ie |-> TRUE, exl |-> FALSE, erl |-> FALSE, im |-> {2}]}
MCMaskWrites == {{VI_INT, SP_INT}}
=============================================================================
