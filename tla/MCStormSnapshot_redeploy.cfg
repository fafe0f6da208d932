\* Two deployments of one name.
SPECIFICATION Spec
CONSTANTS
  t1 = t1
  t2 = t2
  t3 = t3
  c1 = c1
  c2 = c2
  n1 = n1
  n2 = n2
  NoTopo = NoTopo
  NoComp = NoComp
  Topo <- MCTopo2
  Name <- MCName
  Comp <- MCComp
  NameOf <- MCNameOf2
  Whitelist <- MCWhitelist
  MaxTime = 1
  MaxChanges = 4
INVARIANTS OneTopologyPerName OkIsWhole
PROPERTIES ReportsMoveForward ImplementsFetch
