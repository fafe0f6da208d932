--------------------------- MODULE PackageConstants ---------------------------
(***************************************************************************)
(* The constants of module OutdatedPackages, and what is assumed of them.  *)
(***************************************************************************)
EXTENDS Naturals

CONSTANTS
  Instance, Package,
  PackageOf,   \* the package of an instance
  Expected,    \* the version expected of it on this release, None if it names none
  None,
  MaxVersion,  \* versions are 1..MaxVersion, in dpkg's order
  MaxChanges   \* bound on the changes of the environment

ASSUME InstanceAssumption ==
  /\ PackageOf \in [Instance -> Package]
  /\ Expected \in [Instance -> 1..MaxVersion \union {None}]
ASSUME VersionAssumption == MaxVersion \in Nat \ {0} /\ None \notin Nat /\ None \notin Instance
                            /\ MaxChanges \in Nat
=============================================================================
