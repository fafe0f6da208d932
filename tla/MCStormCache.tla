---------------------------- MODULE MCStormCache ----------------------------
(* Small instances of StormCache.                                          *)
EXTENDS StormCache, TLC

CONSTANTS w1, w2, f1, f2

MCWriters1 == {w1}
MCWriters2 == {w1, w2}
MCFiles == {f1, f2}
MCFiles1 == {f1}

\* One instance; two instances; one without a cache file before one with.
MCOne == <<f1>>
MCTwo == <<f1, f2>>
MCSkip == <<NoFile, f1>>

AllFaults == {"down", "bad"}
\* Runs are interchangeable.
RunSymmetry == Permutations(MCWriters2)
\* Outages, no unexpected replies.
OnlyDown == {"down"}
=============================================================================
