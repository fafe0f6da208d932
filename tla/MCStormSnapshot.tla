--------------------------- MODULE MCStormSnapshot ---------------------------
(* Small instances of StormSnapshot: two topologies that are deployments of *)
(* the same name, one of another name or whose name does not match.         *)
EXTENDS StormSnapshot

CONSTANTS t1, t2, t3, c1, c2, n1, n2

MCTopo == {t1, t2, t3}
MCName == {n1, n2}
MCComp == {c1, c2}
MCWhitelist == {c1}
MCNameOf == (t1 :> {n1}) @@ (t2 :> {n2}) @@ (t3 :> {})

MCTopo2 == {t1, t2}
MCNameOf2 == (t1 :> {n1}) @@ (t2 :> {n1})
=============================================================================
