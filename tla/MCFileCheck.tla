----------------------------- MODULE MCFileCheck -----------------------------
(* Small instances of FileCheck: two instances of one path, as when one     *)
(* expects what the other does not, and up to three files that match it.    *)
EXTENDS FileCheck

CONSTANTS i1, i2, p1, f1, f2, f3

MCInstance == {i1, i2}
MCPath == {p1}
MCPathOf == [i \in MCInstance |-> p1]
MCFile3 == {f1, f2, f3}
MCMatches3 == [p \in MCPath |-> MCFile3]

AllKinds == {"nothing", "file", "dangling", "denied"}
=============================================================================
