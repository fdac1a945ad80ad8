------------------------------ MODULE MC_CpuCore ------------------------------
(***************************************************************************)
(* Two host threads, three requested reasons and two faulting addresses.    *)
(***************************************************************************)
EXTENDS CpuCore

MCRequests == {"FLUSH_INSN_CACHE", "MEMORY_TRAP", "STOP"}
=============================================================================
