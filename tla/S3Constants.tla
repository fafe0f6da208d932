----------------------------- MODULE S3Constants -----------------------------
(***************************************************************************)
(* The constants of module S3Object, and what is assumed of them.          *)
(***************************************************************************)
EXTENDS Naturals

CONSTANTS
  Keys,        \* objects are 1..Keys, in the order of their keys
  Fitting,     \* those between min_size_bytes and max_size_bytes
  PageSize,    \* objects of a page
  MaxIncidents   \* bound on the incidents of the environment

ASSUME KeysAssumption == Keys \in Nat /\ Fitting \subseteq 1..Keys
ASSUME PageAssumption == PageSize \in Nat \ {0} /\ MaxIncidents \in Nat
=============================================================================
