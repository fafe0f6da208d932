---------------------------- MODULE MCMesosMaster ----------------------------
(* The instances of MesosMaster that TLC checks: two masters, given in the  *)
(* .cfg files.  Masters are numbers, the order in which they are checked,   *)
(* so they are not interchangeable.                                         *)
EXTENDS MesosMaster
=============================================================================
