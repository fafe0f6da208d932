-------------------------- MODULE MCReverseReadline --------------------------
(* The instances of ReverseReadline that TLC checks: chunks of two, so that *)
(* they cut lines of up to three characters in every way.                   *)
EXTENDS ReverseReadline
=============================================================================
