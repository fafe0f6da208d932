----------------------------- MODULE MCKernelLog -----------------------------
(* The instances of KernelLog that TLC checks: years of four ticks, so that *)
(* a log of three lines crosses the turn of one.                            *)
EXTENDS KernelLog
=============================================================================
