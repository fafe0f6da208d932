------------------------- MODULE StormSnapshotProofs -------------------------
(***************************************************************************)
(* Theorems about StormSnapshot, for any number of topologies, components  *)
(* and names, and any number of changes of the cluster: among them, that   *)
(* it implements StormFetch.                                               *)
(***************************************************************************)
EXTENDS StormSnapshot, TLAPS

-----------------------------------------------------------------------------
(* Lists of parts.                                                         *)

\* What is in a list that grows by one part.
LEMMA AppendSet ==
  ASSUME NEW S, NEW s \in Seq(S), NEW e \in S
  PROVE  /\ Append(s, e) \in Seq(S)
         /\ DOMAIN Append(s, e) = DOMAIN s \union {Len(s) + 1}
         /\ \A k \in DOMAIN s : Append(s, e)[k] = s[k]
         /\ Append(s, e)[Len(s) + 1] = e
         /\ ToSet(Append(s, e)) = ToSet(s) \union {e}
<1>1. /\ Append(s, e) \in Seq(S)
      /\ DOMAIN Append(s, e) = DOMAIN s \union {Len(s) + 1}
      /\ \A k \in DOMAIN s : Append(s, e)[k] = s[k]
      /\ Append(s, e)[Len(s) + 1] = e
  OBVIOUS
<1> QED BY <1>1, Zenon DEF ToSet

\* The topologies of a set of parts that grows by one.
LEMMA ToposOfUnion ==
  ASSUME NEW S, NEW p
  PROVE  Topos(S \union {p}) = Topos(S) \union p.topos
BY DEF Topos

LEMMA EmptyParts == ToSet(<<>>) = {} /\ Topos({}) = {}
<1>1. ToSet(<<>>) = {}
  BY DEF ToSet
<1>2. Topos({}) = {}
  BY DEF Topos
<1> QED BY <1>1, <1>2

LEMMA EmptyOK == PartsOK(<<>>)
<1>1. OnePerName(Topos(ToSet(<<>>)))
  BY EmptyParts DEF OnePerName
<1>2. DOMAIN <<>> = {}
  OBVIOUS
<1> QED BY <1>1, <1>2 DEF PartsOK

\* The time of the first part is the oldest one.
LEMMA OldestIsFirst ==
  ASSUME NEW s \in Seq(Part), s # <<>>, \A k \in DOMAIN s : s[1].at <= s[k].at
  PROVE  Oldest(s) = s[1].at
<1> DEFINE Ages == {p.at : p \in ToSet(s)}
<1>1. 1 \in DOMAIN s
  OBVIOUS
<1>2. s[1].at \in Ages
  BY <1>1 DEF ToSet
<1>3. ASSUME NEW a \in Ages
      PROVE  a \in Nat /\ s[1].at <= a
  <2>1. PICK k \in DOMAIN s : a = s[k].at
    BY DEF ToSet
  <2>2. s[k] \in Part
    OBVIOUS
  <2> QED BY <2>1, <2>2 DEF Part
<1>4. s[1].at \in Nat
  BY <1>2, <1>3
<1>5. ASSUME NEW m \in Ages, \A a \in Ages : m <= a
      PROVE  m = s[1].at
  <2>1. m <= s[1].at /\ s[1].at <= m /\ m \in Nat
    BY <1>2, <1>3, <1>5
  <2> QED BY <1>4, <2>1
<1>6. Min(Ages) = s[1].at
  <2> HIDE DEF Ages
  <2> QED BY <1>2, <1>3, <1>5, Zenon DEF Min
<1> QED BY <1>6 DEF Oldest

-----------------------------------------------------------------------------
(* A reply.                                                                *)

\* What receiving a reply does to the list of parts.
Received(what, topos, c) ==
  /\ parts' \in Seq(Part) /\ parts' # <<>>
  /\ PartsOK(parts') /\ AgesOK'
  /\ parts # <<>> => parts'[1] = parts[1]
  /\ parts = <<>> => parts'[1].at = now
  /\ \E part \in Part : /\ part.what = what /\ part.topos = topos /\ part.comp = c
                        /\ ToSet(parts') = ToSet(parts) \union {part}
  /\ Topos(ToSet(parts')) = Topos(ToSet(parts)) \union topos

LEMMA ReceiveOK ==
  ASSUME IInv, UNCHANGED clusterVars,
         NEW what \in Kind, NEW topos \in SUBSET Topo, NEW c \in Comp \union {NoComp},
         Receive(what, topos, c), OnePerName(Topos(ToSet(parts)) \union topos)
  PROVE  Received(what, topos, c)
<1> TypeOK /\ PartsOK(parts) /\ AgesOK /\ now' = now
  BY DEF IInv, clusterVars
<1>1. PICK ok \in BOOLEAN :
        /\ ~ok => \A k \in DOMAIN parts : parts[k].ok
        /\ parts' = Append(parts, [what |-> what, topos |-> topos, comp |-> c,
                                   at |-> now, ok |-> ok])
  BY DEF Receive
<1> DEFINE part == [what |-> what, topos |-> topos, comp |-> c, at |-> now, ok |-> ok]
<1>2. part \in Part /\ parts \in Seq(Part) /\ now \in Nat
  BY DEF Part, TypeOK
<1>3. /\ part.what = what /\ part.topos = topos /\ part.comp = c
      /\ part.at = now /\ part.ok = ok
  OBVIOUS
<1>4. parts' = Append(parts, part)
  BY <1>1
<1> HIDE DEF part
<1>5. /\ parts' \in Seq(Part)
      /\ DOMAIN parts' = DOMAIN parts \union {Len(parts) + 1}
      /\ \A k \in DOMAIN parts : parts'[k] = parts[k]
      /\ parts'[Len(parts) + 1] = part
      /\ ToSet(parts') = ToSet(parts) \union {part}
  BY <1>2, <1>4, AppendSet
<1>6. Topos(ToSet(parts')) = Topos(ToSet(parts)) \union topos
  BY <1>3, <1>5, ToposOfUnion
<1>7. PartsOK(parts')
  <2>1. \A j, k \in DOMAIN parts' : ~parts'[j].ok /\ ~parts'[k].ok => j = k
    BY <1>1, <1>3, <1>5 DEF PartsOK
  <2> QED BY <1>6, <2>1 DEF PartsOK
<1>8. parts # <<>> => 1 \in DOMAIN parts
  BY <1>2
<1>9. parts = <<>> => Len(parts) + 1 = 1 /\ DOMAIN parts = {}
  OBVIOUS
<1>10. parts # <<>> => parts'[1] = parts[1]
  BY <1>5, <1>8
<1>11. parts = <<>> => parts'[1].at = now
  BY <1>3, <1>5, <1>9
<1>12. AgesOK'
  <2> SUFFICES ASSUME NEW k \in DOMAIN parts'
               PROVE  parts'[1].at <= parts'[k].at /\ parts'[k].at <= now
    BY DEF AgesOK
  <2>1. CASE parts = <<>>
    BY <1>2, <1>3, <1>5, <1>9, <1>11, <2>1
  <2>2. CASE parts # <<>> /\ k \in DOMAIN parts
    BY <1>5, <1>10, <2>2 DEF AgesOK
  <2>3. CASE parts # <<>> /\ k = Len(parts) + 1
    BY <1>2, <1>3, <1>5, <1>8, <1>10, <2>3 DEF AgesOK
  <2> QED BY <1>5, <2>1, <2>2, <2>3
<1>13. parts' # <<>>
  BY <1>2, <1>4
<1> QED BY <1>2, <1>3, <1>5, <1>6, <1>7, <1>10, <1>11, <1>12, <1>13 DEF Received

\* The rest of the state behind a reply: what the cache file and the cluster were, they are.
LEMMA RestOK ==
  ASSUME IInv, UNCHANGED <<clusterVars, cached, last>>, parts' \in Seq(Part),
         pc' \in {"cluster", "supervisors", "summary", "details"},
         active' \subseteq Topo, todo' \subseteq Topo, cur' \in Topo \union {NoTopo},
         comps' \subseteq Comp
  PROVE  TypeOK' /\ CachedOK'
<1>1. TypeOK'
  BY DEF clusterVars, IInv, TypeOK
<1>2. CachedOK'
  BY DEF IInv, CachedOK
<1> QED BY <1>1, <1>2

-----------------------------------------------------------------------------
(* The GETs.                                                               *)

LEMMA GetFirstOK ==
  ASSUME IInv, GetCluster \/ GetSupervisors
  PROVE  /\ IInv' /\ pc' # "cluster" /\ parts' # <<>>
         /\ parts # <<>> => parts'[1] = parts[1]
         /\ parts = <<>> => parts'[1].at = now
         /\ Topos(ToSet(parts')) = {}
<1>1. PICK what \in {"cluster", "supervisors"} :
        /\ Receive(what, {}, NoComp)
        /\ pc = "cluster" => what = "cluster" /\ pc' = "supervisors"
        /\ pc # "cluster" => what = "supervisors" /\ pc' = "summary"
        /\ pc \in {"cluster", "supervisors"}
  BY DEF GetCluster, GetSupervisors
<1>2. UNCHANGED <<clusterVars, active, todo, cur, comps, cached, last>>
  BY DEF GetCluster, GetSupervisors
<1>3. Received(what, {}, NoComp)
  <2>1. OnePerName(Topos(ToSet(parts)) \union {})
    BY DEF IInv, PartsOK
  <2>2. UNCHANGED clusterVars /\ what \in Kind /\ {} \in SUBSET Topo
        /\ NoComp \in Comp \union {NoComp}
    BY <1>2 DEF Kind
  <2> QED BY <1>1, <2>1, <2>2, ReceiveOK
<1>4. pc' \in {"supervisors", "summary"} /\ Topos(ToSet(parts)) = {}
  BY <1>1 DEF IInv, FetchOK
<1>5. TypeOK' /\ CachedOK'
  BY <1>2, <1>3, <1>4, RestOK DEF IInv, TypeOK, Received
<1>6. FetchOK'
  BY <1>1, <1>2, <1>3, <1>4 DEF IInv, FetchOK, Received
<1>7. WholeSoFar'
  <2>1. PICK part \in Part : part.what = what /\ ToSet(parts') = ToSet(parts) \union {part}
    BY <1>3 DEF Received
  <2>2. Topos(ToSet(parts')) = {}
    BY <1>3, <1>4 DEF Received
  <2>3. what \in {p.what : p \in ToSet(parts')}
    BY <2>1
  <2>4. pc' = "summary" => "cluster" \in {p.what : p \in ToSet(parts')}
    BY <1>1, <2>1 DEF IInv, WholeSoFar
  <2> QED BY <1>1, <2>2, <2>3, <2>4 DEF WholeSoFar
<1> QED BY <1>3, <1>4, <1>5, <1>6, <1>7 DEF IInv, Received

LEMMA GetTopologiesOK ==
  ASSUME IInv, GetTopologies
  PROVE  /\ IInv' /\ pc' # "cluster" /\ parts' # <<>> /\ parts # <<>> /\ parts'[1] = parts[1]
         /\ Topos(ToSet(parts')) = todo'
<1>1. PICK chosen \in SUBSET Topo : /\ collect_topologies(chosen)
                                    /\ Receive("topologies", chosen, NoComp)
                                    /\ todo' = chosen
  BY DEF GetTopologies
<1>2. /\ pc = "summary" /\ pc' = "details" /\ active' \subseteq Topo
      /\ UNCHANGED <<clusterVars, cur, comps, cached, last>>
  BY DEF GetTopologies, Active
<1>3. Topos(ToSet(parts)) = {} /\ comps = {} /\ parts # <<>>
  BY <1>2 DEF IInv, FetchOK
<1>4. Received("topologies", chosen, NoComp)
  <2>1. OnePerName(Topos(ToSet(parts)) \union chosen)
    BY <1>1, <1>3 DEF collect_topologies, OnePerName
  <2>2. UNCHANGED clusterVars /\ "topologies" \in Kind /\ NoComp \in Comp \union {NoComp}
    BY <1>2 DEF Kind
  <2> QED BY <1>1, <2>1, <2>2, ReceiveOK
<1>5. TypeOK' /\ CachedOK'
  BY <1>1, <1>2, <1>4, RestOK DEF IInv, TypeOK, Received
<1>6. FetchOK'
  BY <1>1, <1>2, <1>3, <1>4 DEF IInv, FetchOK, Received
<1>7. WholeSoFar'
  <2>1. PICK part \in Part : part.what = "topologies" /\ ToSet(parts') = ToSet(parts) \union {part}
    BY <1>4 DEF Received
  <2>2. Topos(ToSet(parts')) \ todo' = {}
    BY <1>1, <1>3, <1>4 DEF Received
  <2>3. {"cluster", "supervisors", "topologies"} \subseteq {p.what : p \in ToSet(parts')}
    BY <1>2, <2>1 DEF IInv, WholeSoFar
  <2> QED BY <2>2, <2>3 DEF WholeSoFar
<1> QED BY <1>1, <1>2, <1>3, <1>4, <1>5, <1>6, <1>7 DEF IInv, Received

\* A reply of a topology that was chosen adds no topology.
LEMMA ReceiveChosen ==
  ASSUME IInv, UNCHANGED clusterVars, pc = "details", pc' = "details",
         NEW what \in {"topology", "component"}, NEW t \in Topos(ToSet(parts)), t \in Topo,
         NEW c \in Comp \union {NoComp}, Receive(what, {t}, c)
  PROVE  /\ Received(what, {t}, c) /\ Topos(ToSet(parts')) = Topos(ToSet(parts))
         /\ parts # <<>>
         /\ {"cluster", "supervisors", "topologies"} \subseteq {p.what : p \in ToSet(parts')}
<1>1. Topos(ToSet(parts)) \union {t} = Topos(ToSet(parts))
  OBVIOUS
<1>2. OnePerName(Topos(ToSet(parts)) \union {t})
  BY <1>1 DEF IInv, PartsOK
<1>3. what \in Kind /\ {t} \in SUBSET Topo
  BY DEF Kind
<1>4. Received(what, {t}, c)
  BY <1>2, <1>3, ReceiveOK
<1>5. {"cluster", "supervisors", "topologies"} \subseteq {p.what : p \in ToSet(parts)}
  BY DEF IInv, WholeSoFar
<1>6. {"cluster", "supervisors", "topologies"} \subseteq {p.what : p \in ToSet(parts')}
  <2>1. ToSet(parts) \subseteq ToSet(parts')
    BY <1>4 DEF Received
  <2> QED BY <1>5, <2>1
<1>7. Topos(ToSet(parts')) = Topos(ToSet(parts))
  BY <1>1, <1>4 DEF Received
<1>8. parts # <<>>
  BY DEF IInv, FetchOK
<1> QED BY <1>4, <1>6, <1>7, <1>8

LEMMA GetDetailsOK ==
  ASSUME IInv, GetDetails
  PROVE  /\ IInv' /\ pc' # "cluster" /\ parts' # <<>> /\ parts # <<>> /\ parts'[1] = parts[1]
         /\ Topos(ToSet(parts')) = Topos(ToSet(parts))
<1>1. PICK t \in todo : /\ Receive("topology", {t}, NoComp)
                        /\ todo' = todo \ {t} /\ cur' = t /\ comps' = Whitelist
  BY DEF GetDetails
<1>2. /\ pc = "details" /\ comps = {}
      /\ UNCHANGED <<clusterVars, pc, active, cached, last>>
  BY DEF GetDetails
<1>3. t \in Topos(ToSet(parts)) /\ t \in Topo
  BY DEF IInv, FetchOK, TypeOK
<1>4. /\ Received("topology", {t}, NoComp) /\ Topos(ToSet(parts')) = Topos(ToSet(parts))
      /\ parts # <<>>
      /\ {"cluster", "supervisors", "topologies"} \subseteq {p.what : p \in ToSet(parts')}
  BY <1>1, <1>2, <1>3, ReceiveChosen
<1>5. TypeOK' /\ CachedOK'
  BY <1>1, <1>2, <1>3, <1>4, RestOK, IdsAssumption DEF IInv, TypeOK, Received
<1>6. FetchOK'
  BY <1>1, <1>2, <1>3, <1>4 DEF IInv, FetchOK, Received
<1>7. WholeSoFar'
  <2>1. PICK part \in Part : part.what = "topology" /\ part.topos = {t}
                             /\ ToSet(parts') = ToSet(parts) \union {part}
    BY <1>4 DEF Received
  <2> SUFFICES ASSUME NEW u \in Topos(ToSet(parts')) \ todo'
               PROVE  /\ \E p \in ToSet(parts') : p.what = "topology" /\ p.topos = {u}
                      /\ \A c \in Whitelist :
                           \/ u = cur' /\ c \in comps'
                           \/ \E p \in ToSet(parts') :
                                p.what = "component" /\ p.topos = {u} /\ p.comp = c
    BY <1>2, <1>4 DEF WholeSoFar
  <2>2. CASE u = t
    BY <1>1, <2>1, <2>2
  <2>3. CASE u # t
    <3>1. u \in Topos(ToSet(parts)) \ todo
      BY <1>1, <1>4, <2>3
    <3>2. /\ \E p \in ToSet(parts) : p.what = "topology" /\ p.topos = {u}
          /\ \A c \in Whitelist :
               \E p \in ToSet(parts) : p.what = "component" /\ p.topos = {u} /\ p.comp = c
      BY <1>2, <3>1 DEF IInv, WholeSoFar
    <3> QED BY <2>1, <3>2
  <2> QED BY <2>2, <2>3
<1> QED BY <1>2, <1>4, <1>5, <1>6, <1>7 DEF IInv, Received

LEMMA GetComponentOK ==
  ASSUME IInv, GetComponent
  PROVE  /\ IInv' /\ pc' # "cluster" /\ parts' # <<>> /\ parts # <<>> /\ parts'[1] = parts[1]
         /\ Topos(ToSet(parts')) = Topos(ToSet(parts))
<1>1. PICK c \in comps : Receive("component", {cur}, c) /\ comps' = comps \ {c}
  BY DEF GetComponent
<1>2. pc = "details" /\ UNCHANGED <<clusterVars, pc, active, todo, cur, cached, last>>
  BY DEF GetComponent
<1>3. cur \in Topos(ToSet(parts)) /\ c \in Comp
  BY DEF IInv, FetchOK, TypeOK
<1>4. cur \in Topo
  <2>1. PICK p \in ToSet(parts) : cur \in p.topos
    BY <1>3 DEF Topos
  <2>2. p \in Part
    BY DEF ToSet, IInv, TypeOK
  <2> QED BY <2>1, <2>2 DEF Part
<1>5. /\ Received("component", {cur}, c) /\ Topos(ToSet(parts')) = Topos(ToSet(parts))
      /\ parts # <<>>
      /\ {"cluster", "supervisors", "topologies"} \subseteq {p.what : p \in ToSet(parts')}
  BY <1>1, <1>2, <1>3, <1>4, ReceiveChosen
<1>6. TypeOK' /\ CachedOK'
  BY <1>1, <1>2, <1>5, RestOK DEF IInv, TypeOK, Received
<1>7. FetchOK'
  BY <1>1, <1>2, <1>3, <1>5 DEF IInv, FetchOK, Received
<1>8. WholeSoFar'
  <2>1. PICK part \in Part : /\ part.what = "component" /\ part.topos = {cur} /\ part.comp = c
                             /\ ToSet(parts') = ToSet(parts) \union {part}
    BY <1>5 DEF Received
  <2> SUFFICES ASSUME NEW u \in Topos(ToSet(parts')) \ todo'
               PROVE  /\ \E p \in ToSet(parts') : p.what = "topology" /\ p.topos = {u}
                      /\ \A d \in Whitelist :
                           \/ u = cur' /\ d \in comps'
                           \/ \E p \in ToSet(parts') :
                                p.what = "component" /\ p.topos = {u} /\ p.comp = d
    BY <1>2, <1>5 DEF WholeSoFar
  <2>2. /\ \E p \in ToSet(parts) : p.what = "topology" /\ p.topos = {u}
        /\ \A d \in Whitelist :
             \/ u = cur /\ d \in comps
             \/ \E p \in ToSet(parts) : p.what = "component" /\ p.topos = {u} /\ p.comp = d
    BY <1>2, <1>5 DEF IInv, WholeSoFar
  <2>3. \E p \in ToSet(parts') : p.what = "topology" /\ p.topos = {u}
    BY <2>1, <2>2
  <2>4. ASSUME NEW d \in Whitelist, ~(u = cur' /\ d \in comps')
        PROVE  \E p \in ToSet(parts') : p.what = "component" /\ p.topos = {u} /\ p.comp = d
    <3>1. CASE u = cur /\ d = c
      BY <2>1, <3>1
    <3>2. CASE ~(u = cur /\ d = c)
      BY <1>1, <1>2, <2>1, <2>2, <2>4, <3>2
    <3> QED BY <3>1, <3>2
  <2> QED BY <2>3, <2>4
<1> QED BY <1>2, <1>5, <1>6, <1>7, <1>8 DEF IInv, Received

-----------------------------------------------------------------------------
(* The end of a fetch, and the steps of others.                            *)

\* cache_one returns or raises; if it returns, what it returns is fit for the cache file.
LEMMA ForgetOK ==
  ASSUME IInv, Forget, UNCHANGED <<clusterVars, last>>,
         cached' \in Snapshot, CachedOK'
  PROVE  IInv'
<1>1. parts' = <<>> /\ Topos(ToSet(parts')) = {} /\ DOMAIN parts' = {}
  BY EmptyParts DEF Forget
<1>2. TypeOK'
  BY DEF Forget, clusterVars, IInv, TypeOK
<1>3. PartsOK(parts')
  BY <1>1, EmptyOK
<1>4. AgesOK'
  BY <1>1 DEF AgesOK
<1>5. FetchOK'
  BY <1>1 DEF Forget, FetchOK
<1>6. WholeSoFar'
  BY <1>1 DEF Forget, WholeSoFar
<1> QED BY <1>2, <1>3, <1>4, <1>5, <1>6 DEF IInv

\* When nothing is left to ask for, the replies are a whole snapshot.
LEMMA FinishOK ==
  ASSUME IInv, Finish
  PROVE  IInv'
<1>1. Whole(ToSet(parts))
  <2>1. {"cluster", "supervisors", "topologies"} \subseteq {p.what : p \in ToSet(parts)}
    BY DEF Finish, IInv, WholeSoFar
  <2>2. \A t \in Topos(ToSet(parts)) :
          /\ \E p \in ToSet(parts) : p.what = "topology" /\ p.topos = {t}
          /\ \A c \in Whitelist :
               \E p \in ToSet(parts) : p.what = "component" /\ p.topos = {t} /\ p.comp = c
    BY DEF Finish, IInv, WholeSoFar
  <2> QED BY <2>1, <2>2 DEF Whole, Topos
<1>2. cached' = [status |-> "success", updated |-> now, parts |-> parts, active |-> active]
  BY DEF Finish
<1>3. cached' \in Snapshot
  BY <1>2 DEF IInv, TypeOK, Snapshot
<1>4. CachedOK'
  BY <1>1, <1>2 DEF CachedOK, IInv
<1> QED BY <1>3, <1>4, ForgetOK DEF Finish

LEMMA ConnectionFailureOK ==
  ASSUME IInv, ConnectionFailure
  PROVE  IInv'
<1>1. cached' = [status |-> "error", updated |-> now, parts |-> <<>>, active |-> {}]
  BY DEF ConnectionFailure
<1>2. cached' \in Snapshot
  BY <1>1 DEF IInv, TypeOK, Snapshot
<1>3. CachedOK'
  BY <1>1, EmptyOK DEF CachedOK
<1> QED BY <1>2, <1>3, ForgetOK DEF ConnectionFailure

LEMMA BadReplyOK ==
  ASSUME IInv, BadReply
  PROVE  IInv'
<1>1. cached' = cached
  BY DEF BadReply
<1>2. cached' \in Snapshot /\ CachedOK'
  BY <1>1 DEF IInv, TypeOK, CachedOK
<1> QED BY <1>2, ForgetOK DEF BadReply

\* Time passes and topologies change while a fetch is under way.
LEMMA ClusterOK ==
  ASSUME IInv, Tick \/ \E t \in Topo : Change(t)
  PROVE  IInv'
<1>1. UNCHANGED <<fetchVars, cached, last>> /\ now \in Nat /\ now' \in {now, now + 1}
  BY DEF Tick, Change, IInv, TypeOK
<1>2. topo' \in [Topo -> [status : {"NEW", "ACTIVE", "INACTIVE", "KILLED", "GONE"},
                          since : Nat]]
      /\ changes' \in Nat
  <2>1. CASE Tick
    BY <2>1 DEF Tick, IInv, TypeOK
  <2>2. ASSUME NEW t \in Topo, Change(t)
        PROVE  topo' \in [Topo -> [status : {"NEW", "ACTIVE", "INACTIVE", "KILLED", "GONE"},
                                   since : Nat]]
               /\ changes' \in Nat
    <3>1. PICK s \in Lifecycle :
            topo' = [topo EXCEPT ![t] = [status |-> s[2],
                                         since |-> IF s[1] = "NEW" THEN now ELSE @.since]]
      BY <2>2 DEF Change
    <3>2. s[2] \in {"NEW", "ACTIVE", "INACTIVE", "KILLED", "GONE"}
      BY DEF Lifecycle
    <3>3. changes' = changes + 1
      BY <2>2 DEF Change
    <3> QED BY <1>1, <3>1, <3>2, <3>3 DEF IInv, TypeOK
  <2> QED BY <2>1, <2>2
<1>3. TypeOK'
  BY <1>1, <1>2 DEF fetchVars, IInv, TypeOK
<1>4. PartsOK(parts') /\ FetchOK' /\ WholeSoFar' /\ CachedOK'
  <2>1. UNCHANGED <<pc, parts, todo, cur, comps, cached>>
    BY <1>1 DEF fetchVars
  <2>2. PartsOK(parts') /\ CachedOK'
    BY <2>1 DEF IInv, CachedOK
  <2>3. FetchOK'
    BY <2>1 DEF IInv, FetchOK
  <2>4. WholeSoFar'
    BY <2>1 DEF IInv, WholeSoFar
  <2> QED BY <2>2, <2>3, <2>4
<1>5. AgesOK'
  <2> SUFFICES ASSUME NEW k \in DOMAIN parts'
               PROVE  parts'[1].at <= parts'[k].at /\ parts'[k].at <= now'
    BY DEF AgesOK
  <2>1. parts' = parts
    BY <1>1 DEF fetchVars
  <2>2. parts \in Seq(Part)
    BY DEF IInv, TypeOK
  <2>3. parts[k] \in Part
    BY <2>1, <2>2
  <2>4. parts[k].at \in Nat
    BY <2>3 DEF Part
  <2>5. parts[1].at <= parts[k].at /\ parts[k].at <= now
    BY <2>1 DEF IInv, AgesOK
  <2> QED BY <1>1, <2>1, <2>4, <2>5
<1> QED BY <1>3, <1>4, <1>5 DEF IInv

-----------------------------------------------------------------------------
(* The check.                                                              *)

\* What is reported was received, and all of it if the service check is OK.
LEMMA ReportOK ==
  ASSUME NEW snapshot \in Snapshot, PartsOK(snapshot.parts)
  PROVE  /\ ToSet(Report(snapshot).emitted) \subseteq ToSet(snapshot.parts)
         /\ Report(snapshot).service = "OK"
              => snapshot.status = "success" /\ Report(snapshot).emitted = snapshot.parts
<1> DEFINE s == snapshot.parts
           I == {i \in 1..Len(s) : ~s[i].ok}
           bad == IF I # {} THEN Min(I) ELSE 0
<1>1. s \in Seq(Part) /\ snapshot.status \in {"success", "error"}
  BY DEF Snapshot
<1>2. Report(snapshot) =
        IF snapshot.status # "success" THEN [emitted |-> <<>>, service |-> "CRITICAL"]
        ELSE IF bad = 0 THEN [emitted |-> s, service |-> "OK"]
        ELSE [emitted |-> SubSeq(s, 1, bad - 1), service |-> "none"]
  BY Zenon DEF Report, SelectInSeq
<1>3. bad \in 0..Len(s)
  <2>1. CASE I = {}
    BY <1>1, <2>1
  <2>2. CASE I # {}
    <3>1. PICK i : i \in I
      BY <2>2
    <3>2. i \in 1..Len(s) /\ \A j \in I : j = i
      BY <1>1, <3>1 DEF PartsOK
    <3>3. I = {i}
      BY <3>1, <3>2
    <3>4. Min({i}) = i
      BY <3>2 DEF Min
    <3>5. bad = i
      BY <2>2, <3>3, <3>4
    <3> QED BY <3>2, <3>5
  <2> QED BY <2>1, <2>2
<1> HIDE DEF bad, s
<1>4. ToSet(SubSeq(s, 1, bad - 1)) \subseteq ToSet(s)
  <2>1. /\ SubSeq(s, 1, bad - 1) \in Seq(Part)
        /\ \A k \in DOMAIN SubSeq(s, 1, bad - 1) :
             k \in DOMAIN s /\ SubSeq(s, 1, bad - 1)[k] = s[k]
    BY <1>1, <1>3
  <2> QED BY <2>1 DEF ToSet
<1>5. ToSet(<<>>) \subseteq ToSet(s)
  BY EmptyParts
<1>6. CASE snapshot.status # "success"
  <2>1. Report(snapshot) = [emitted |-> <<>>, service |-> "CRITICAL"]
    BY <1>2, <1>6
  <2> QED BY <1>5, <2>1 DEF s
<1>7. CASE snapshot.status = "success" /\ bad = 0
  BY <1>2, <1>7 DEF s
<1>8. CASE snapshot.status = "success" /\ bad # 0
  BY <1>2, <1>4, <1>8 DEF s
<1> QED BY <1>6, <1>7, <1>8 DEF s

LEMMA CheckOK ==
  ASSUME IInv, Check
  PROVE  IInv'
<1>1. UNCHANGED <<clusterVars, fetchVars, cached>>
  BY DEF Check
<1>2. Rows(Report(cached).emitted) \subseteq Topo
  <2> SUFFICES ASSUME NEW p \in ToSet(Report(cached).emitted), NEW t \in p.topos
               PROVE  t \in Topo
    BY DEF Rows
  <2>1. p \in ToSet(cached.parts)
    BY ReportOK DEF IInv, TypeOK, CachedOK
  <2>2. cached.parts \in Seq(Part)
    BY DEF IInv, TypeOK, Snapshot
  <2>3. p \in Part
    BY <2>1, <2>2 DEF ToSet
  <2> QED BY <2>3 DEF Part
<1> DEFINE named(n) == {t \in Rows(Report(cached).emitted) : n \in NameOf[t]}
           shown(n) == IF named(n) = {} THEN last[n] ELSE CHOOSE t \in named(n) : TRUE
<1>3. ASSUME NEW n \in Name
      PROVE  shown(n) \in Topo \union {NoTopo}
  <2>1. CASE named(n) = {}
    BY <2>1 DEF IInv, TypeOK
  <2>2. CASE named(n) # {}
    <3>1. shown(n) \in named(n)
      BY <2>2
    <3> QED BY <1>2, <3>1
  <2> QED BY <2>1, <2>2
<1>4. last' = [n \in Name |-> shown(n)]
  BY DEF Check
<1>5. last' \in [Name -> Topo \union {NoTopo}]
  <2> HIDE DEF shown
  <2> QED BY <1>3, <1>4
<1>6. TypeOK'
  BY <1>1, <1>5 DEF clusterVars, fetchVars, IInv, TypeOK
<1>7. PartsOK(parts') /\ AgesOK' /\ FetchOK' /\ WholeSoFar' /\ CachedOK'
  <2>1. UNCHANGED <<now, pc, parts, todo, cur, comps, cached>>
    BY <1>1 DEF clusterVars, fetchVars
  <2>2. PartsOK(parts') /\ CachedOK'
    BY <2>1 DEF IInv, CachedOK
  <2>3. AgesOK'
    BY <2>1 DEF IInv, AgesOK
  <2>4. FetchOK'
    BY <2>1 DEF IInv, FetchOK
  <2>5. WholeSoFar'
    BY <2>1 DEF IInv, WholeSoFar
  <2> QED BY <2>2, <2>3, <2>4, <2>5
<1> QED BY <1>6, <1>7 DEF IInv

-----------------------------------------------------------------------------
(* The specification.                                                      *)

LEMMA InitOK == Init => IInv
<1> SUFFICES ASSUME Init PROVE IInv
  OBVIOUS
<1>1. parts = <<>> /\ Topos(ToSet(parts)) = {} /\ DOMAIN parts = {}
  <2>1. parts = <<>>
    BY DEF Init
  <2>2. DOMAIN <<>> = {}
    OBVIOUS
  <2> QED BY <2>1, <2>2, EmptyParts
<1>2. TypeOK
  BY DEF Init, TypeOK, Snapshot
<1>3. PartsOK(parts)
  BY <1>1, EmptyOK
<1>4. AgesOK /\ FetchOK /\ WholeSoFar
  BY <1>1 DEF Init, AgesOK, FetchOK, WholeSoFar
<1>5. CachedOK
  BY EmptyOK DEF Init, CachedOK
<1> QED BY <1>2, <1>3, <1>4, <1>5 DEF IInv

LEMMA NextOK == IInv /\ [Next]_vars => IInv'
<1> SUFFICES ASSUME IInv, [Next]_vars PROVE IInv'
  OBVIOUS
<1>1. CASE Tick \/ \E t \in Topo : Change(t)
  BY <1>1, ClusterOK
<1>2. CASE GetCluster \/ GetSupervisors
  BY <1>2, GetFirstOK
<1>3. CASE GetTopologies
  BY <1>3, GetTopologiesOK
<1>4. CASE GetDetails
  BY <1>4, GetDetailsOK
<1>5. CASE GetComponent
  BY <1>5, GetComponentOK
<1>6. CASE Finish
  BY <1>6, FinishOK
<1>7. CASE ConnectionFailure
  BY <1>7, ConnectionFailureOK
<1>8. CASE BadReply
  BY <1>8, BadReplyOK
<1>9. CASE Check
  BY <1>9, CheckOK
<1>10. CASE UNCHANGED vars
  <2>1. UNCHANGED <<now, topo, changes, pc, parts, active, todo, cur, comps, cached, last>>
    BY <1>10 DEF vars
  <2>2. TypeOK'
    BY <2>1 DEF IInv, TypeOK
  <2>3. PartsOK(parts') /\ CachedOK'
    BY <2>1 DEF IInv, CachedOK
  <2>4. AgesOK' /\ FetchOK'
    BY <2>1 DEF IInv, AgesOK, FetchOK
  <2>5. WholeSoFar'
    BY <2>1 DEF IInv, WholeSoFar
  <2> QED BY <2>2, <2>3, <2>4, <2>5 DEF IInv
<1> QED BY <1>1, <1>2, <1>3, <1>4, <1>5, <1>6, <1>7, <1>8, <1>9, <1>10 DEF Next

\* The inductive invariant: the replies that a fetch has are all that it asked for, in the
\* order of time, of one topology per name; and what was cached was whole when it was
\* (cache-storm-data:87-118).
THEOREM Invariance == Spec => []IInv
BY InitOK, NextOK, PTL DEF Spec

\* The variables keep their types, for any number of topologies, components and changes.
THEOREM TypeCorrect == Spec => []TypeOK
<1>1. IInv => TypeOK
  BY DEF IInv
<1> QED BY <1>1, Invariance, PTL

\* What is reported of a name is of one topology, however many deployments of it come and go
\* between the GETs (cache-storm-data:98-114).
THEOREM OneTopologyPerNameHolds == Spec => []OneTopologyPerName
<1>1. ASSUME IInv
      PROVE  OneTopologyPerName
  <2>1. ToSet(Report(cached).emitted) \subseteq ToSet(cached.parts)
    BY <1>1, ReportOK DEF IInv, TypeOK, CachedOK
  <2>2. OnePerName(Topos(ToSet(cached.parts)))
    BY <1>1 DEF IInv, CachedOK, PartsOK
  <2>3. UNION {p.topos : p \in ToSet(Report(cached).emitted)} \subseteq Topos(ToSet(cached.parts))
    BY <2>1 DEF Topos
  <2> QED BY <2>2, <2>3 DEF OneTopologyPerName, OnePerName
<1> QED BY <1>1, Invariance, PTL

\* An OK service check was preceded by the report of cluster, supervisors and every chosen
\* topology with its details and whitelisted components (storm_rest_api.py:108-128).
THEOREM OkIsWholeHolds == Spec => []OkIsWhole
<1>1. ASSUME IInv
      PROVE  OkIsWhole
  <2> SUFFICES ASSUME Report(cached).service = "OK"
               PROVE  Whole(ToSet(Report(cached).emitted))
    BY DEF OkIsWhole
  <2>1. cached.status = "success" /\ Report(cached).emitted = cached.parts
    BY <1>1, ReportOK DEF IInv, TypeOK, CachedOK
  <2> QED BY <1>1, <2>1 DEF IInv, CachedOK
<1> QED BY <1>1, Invariance, PTL

-----------------------------------------------------------------------------
(* The order of the reports.                                               *)

\* Once launched, a topology keeps its launch time.
LEMMA LaunchedStays ==
  ASSUME TypeOK, [Tick \/ \E t \in Topo : Change(t)]_clusterVars, NEW u \in Topo,
         topo[u].status # "NEW"
  PROVE  topo'[u].status # "NEW" /\ topo'[u].since = topo[u].since
<1>1. CASE UNCHANGED topo
  BY <1>1
<1>2. ASSUME NEW t \in Topo, Change(t)
      PROVE  topo'[u].status # "NEW" /\ topo'[u].since = topo[u].since
  <2>1. PICK s \in Lifecycle :
          /\ topo[t].status = s[1]
          /\ topo' = [topo EXCEPT ![t] = [status |-> s[2],
                                          since |-> IF s[1] = "NEW" THEN now ELSE @.since]]
    BY <1>2 DEF Change
  <2>2. s[2] # "NEW"
    BY DEF Lifecycle
  <2>3. topo \in [Topo -> [status : {"NEW", "ACTIVE", "INACTIVE", "KILLED", "GONE"},
                           since : Nat]]
    BY DEF TypeOK
  <2>4. CASE u = t
    BY <2>1, <2>2, <2>3, <2>4
  <2>5. CASE u # t
    BY <2>1, <2>3, <2>5
  <2> QED BY <2>4, <2>5
<1> QED BY <1>1, <1>2 DEF Tick, clusterVars

\* So what was newest at the summary is the newest of what the summary showed for good.
LEMMA NewestStays ==
  ASSUME TypeOK, [Tick \/ \E t \in Topo : Change(t)]_clusterVars,
         NEW s \in Seq(Part), NEW shown \in SUBSET Topo, NewestOK(s, shown)
  PROVE  /\ \A t \in Topos(ToSet(s)), u \in shown :
              NameOf[u] = NameOf[t] => topo'[u].since <= topo'[t].since
         /\ \A t \in Topos(ToSet(s)) \union shown : topo'[t].status # "NEW"
<1>1. ASSUME NEW u \in Topos(ToSet(s)) \union shown
      PROVE  u \in Topo
  <2>1. ASSUME NEW p \in ToSet(s)
        PROVE  p.topos \subseteq Topo
    <3>1. p \in Part
      BY DEF ToSet
    <3> QED BY <3>1 DEF Part
  <2> QED BY <2>1 DEF Topos
<1>2. ASSUME NEW u \in Topos(ToSet(s)) \union shown
      PROVE  topo'[u].status # "NEW" /\ topo'[u].since = topo[u].since
  <2>1. u \in Topo /\ topo[u].status # "NEW"
    BY <1>1 DEF NewestOK
  <2> QED BY <2>1, LaunchedStays
<1> QED BY <1>2 DEF NewestOK

\* The topologies are what counts of a list of parts.
LEMMA NewestOfTopos ==
  ASSUME NEW s, NEW r, NEW shown, NewestOK(s, shown), Topos(ToSet(r)) = Topos(ToSet(s))
  PROVE  NewestOK(r, shown)
BY DEF NewestOK

LEMMA NewestOfNone == ASSUME NEW s, Topos(ToSet(s)) = {} PROVE NewestOK(s, {})
BY DEF NewestOK

\* The chosen topologies are the newest of those the summary shows.
LEMMA NewestChosen ==
  ASSUME IInv, GetTopologies
  PROVE  NewestOK(parts, active)'
<1>1. PICK chosen \in SUBSET Topo : collect_topologies(chosen) /\ todo' = chosen
  BY DEF GetTopologies
<1>2. Topos(ToSet(parts')) = chosen /\ active' = Active /\ topo' = topo
  BY <1>1, GetTopologiesOK DEF GetTopologies, clusterVars
<1>3. chosen \subseteq NewestOf(Active) /\ Active \subseteq Topo
  BY <1>1 DEF collect_topologies, Active
<1>4. \A t \in chosen \union Active : t \in Active /\ topo[t].status = "ACTIVE"
  BY <1>3 DEF NewestOf, Active
<1>5. ASSUME NEW t \in chosen, NEW u \in Active, NameOf[u] = NameOf[t]
      PROVE  topo[u].since <= topo[t].since
  <2>1. uptime(t) <= uptime(u)
    BY <1>3, <1>5 DEF NewestOf
  <2>2. topo[t].since \in Nat /\ topo[u].since \in Nat /\ now \in Nat
    BY <1>3, <1>4 DEF IInv, TypeOK
  <2> QED BY <2>1, <2>2 DEF uptime
<1> QED BY <1>2, <1>4, <1>5 DEF NewestOK

\* The rows that are reported are of topologies of the cached snapshot.
LEMMA RowsCached ==
  ASSUME IInv
  PROVE  Rows(Report(cached).emitted) \subseteq Topos(ToSet(cached.parts))
<1>1. ToSet(Report(cached).emitted) \subseteq ToSet(cached.parts)
  BY ReportOK DEF IInv, TypeOK, CachedOK
<1> QED BY <1>1 DEF Rows, Topos

\* What a report does to the topology last shown under a name.
LEMMA ShownLast ==
  ASSUME IInv, Check, NEW n \in Name
  PROVE  \/ last'[n] = last[n]
         \/ last'[n] \in Topos(ToSet(cached.parts)) /\ n \in NameOf[last'[n]]
<1> DEFINE named(m) == {t \in Rows(Report(cached).emitted) : m \in NameOf[t]}
           shown(m) == IF named(m) = {} THEN last[m] ELSE CHOOSE t \in named(m) : TRUE
<1>1. last' = [m \in Name |-> shown(m)]
  BY DEF Check
<1>2. last'[n] = shown(n)
  <2> HIDE DEF shown
  <2> QED BY <1>1
<1>3. CASE named(n) = {}
  BY <1>2, <1>3
<1>4. CASE named(n) # {}
  <2>1. shown(n) \in named(n)
    BY <1>4
  <2> QED BY <1>2, <2>1, RowsCached
<1> QED BY <1>3, <1>4

LEMMA OrderInit == Init => OrderOK
<1> SUFFICES ASSUME Init PROVE OrderOK
  OBVIOUS
<1>1. /\ parts = <<>> /\ active = {} /\ cached.parts = <<>> /\ cached.active = {}
      /\ \A n \in Name : last[n] = NoTopo
  BY DEF Init
<1>2. Topos(ToSet(<<>>)) = {}
  BY EmptyParts
<1>3. NewestOK(parts, active) /\ NewestOK(cached.parts, cached.active)
  BY <1>1, <1>2, NewestOfNone
<1> QED BY <1>1, <1>3, IdsAssumption DEF OrderOK

\* The parts of a fetch that ended are gone; those of one that succeeded are in the cache.
LEMMA OrderForget ==
  ASSUME IInv, OrderOK, Forget, UNCHANGED <<clusterVars, last>>,
         \/ cached' = cached
         \/ cached'.parts = parts /\ cached'.active = active
         \/ cached'.parts = <<>> /\ cached'.active = {}
  PROVE  OrderOK'
<1>1. Topos(ToSet(<<>>)) = {}
  BY EmptyParts
<1>2. /\ topo' = topo /\ last' = last
      /\ parts' = <<>> /\ active' = {}
  BY DEF Forget, clusterVars
<1>3. NewestOK(parts, active)'
  BY <1>1, <1>2 DEF NewestOK
<1>4. NewestOK(cached.parts, cached.active)'
  BY <1>1, <1>2 DEF OrderOK, NewestOK
<1> QED BY <1>2, <1>3, <1>4 DEF OrderOK

LEMMA OrderNext == IInv /\ OrderOK /\ [Next]_vars => OrderOK'
<1> SUFFICES ASSUME IInv, OrderOK, [Next]_vars PROVE OrderOK'
  OBVIOUS
<1> DEFINE NamesOK == \A n \in Name : last[n] \in Topo => n \in NameOf[last[n]]
<1>1. CASE Tick \/ \E t \in Topo : Change(t)
  <2>1. UNCHANGED <<parts, active, cached, last>>
    BY <1>1 DEF Tick, Change, fetchVars
  <2>2. /\ TypeOK /\ parts \in Seq(Part) /\ active \in SUBSET Topo
        /\ cached.parts \in Seq(Part) /\ cached.active \in SUBSET Topo
    BY DEF IInv, TypeOK, Snapshot
  <2>3. NewestOK(parts, active)'
    <3>1. NewestOK(parts, active) /\ [Tick \/ \E t \in Topo : Change(t)]_clusterVars
      BY <1>1 DEF OrderOK
    <3>2. /\ \A t \in Topos(ToSet(parts)), u \in active :
               NameOf[u] = NameOf[t] => topo'[u].since <= topo'[t].since
          /\ \A t \in Topos(ToSet(parts)) \union active : topo'[t].status # "NEW"
      BY <2>2, <3>1, NewestStays
    <3> QED BY <2>1, <3>2 DEF NewestOK
  <2>4. NewestOK(cached.parts, cached.active)'
    <3>1. NewestOK(cached.parts, cached.active)
          /\ [Tick \/ \E t \in Topo : Change(t)]_clusterVars
      BY <1>1 DEF OrderOK
    <3>2. /\ \A t \in Topos(ToSet(cached.parts)), u \in cached.active :
               NameOf[u] = NameOf[t] => topo'[u].since <= topo'[t].since
          /\ \A t \in Topos(ToSet(cached.parts)) \union cached.active :
               topo'[t].status # "NEW"
      BY <2>2, <3>1, NewestStays
    <3> QED BY <2>1, <3>2 DEF NewestOK
  <2> QED BY <2>1, <2>3, <2>4 DEF OrderOK
<1>2. CASE GetCluster \/ GetSupervisors
  <2>1. UNCHANGED <<topo, active, cached, last>>
    BY <1>2 DEF GetCluster, GetSupervisors, clusterVars
  <2>2. Topos(ToSet(parts)) = {} /\ Topos(ToSet(parts')) = {}
    BY <1>2, GetFirstOK DEF GetCluster, GetSupervisors, IInv, FetchOK
  <2> QED BY <2>1, <2>2 DEF OrderOK, NewestOK
<1>3. CASE GetTopologies
  <2>1. UNCHANGED <<topo, cached, last>>
    BY <1>3 DEF GetTopologies, clusterVars
  <2>2. NewestOK(cached.parts, cached.active)'
    BY <2>1 DEF OrderOK, NewestOK
  <2>3. NewestOK(parts, active)'
    BY <1>3, NewestChosen
  <2> QED BY <2>1, <2>2, <2>3 DEF OrderOK
<1>4. CASE GetDetails \/ GetComponent
  <2>1. UNCHANGED <<topo, active, cached, last>>
    BY <1>4 DEF GetDetails, GetComponent, clusterVars
  <2>2. Topos(ToSet(parts')) = Topos(ToSet(parts))
    BY <1>4, GetDetailsOK, GetComponentOK
  <2> QED BY <2>1, <2>2 DEF OrderOK, NewestOK
<1>5. CASE Finish
  BY <1>5, OrderForget DEF Finish
<1>6. CASE ConnectionFailure
  BY <1>6, OrderForget DEF ConnectionFailure
<1>7. CASE BadReply
  BY <1>7, OrderForget DEF BadReply
<1>8. CASE Check
  <2>1. UNCHANGED <<topo, parts, active, cached>>
    BY <1>8 DEF Check, clusterVars, fetchVars
  <2>2. ASSUME NEW n \in Name, last'[n] \in Topo
        PROVE  n \in NameOf[last'[n]]
    BY <1>8, <2>2, ShownLast DEF OrderOK
  <2> QED BY <2>1, <2>2 DEF OrderOK, NewestOK
<1>9. CASE UNCHANGED vars
  BY <1>9 DEF vars, OrderOK, NewestOK
<1> QED BY <1>1, <1>2, <1>3, <1>4, <1>5, <1>6, <1>7, <1>8, <1>9 DEF Next

\* A report puts an older topology in the place of the one last reported under its name only
\* when that one was no longer ACTIVE at the summary: launch times are compared after any
\* number of changes, although uptimes were sorted when the summary was received
\* (cache-storm-data:98-104).
THEOREM ReportsMoveForwardHolds == Spec => ReportsMoveForward
<1>1. IInv /\ OrderOK /\ [Next]_vars =>
        [\A n \in Name :
           LET old == last[n]
               new == last'[n]
           IN old \in Topo /\ new \in Topo /\ topo[new].since < topo[old].since
                => old \notin cached.active]_vars
  <2> SUFFICES ASSUME IInv, OrderOK, Next, NEW n \in Name,
                      last[n] \in Topo, last'[n] \in Topo,
                      topo[last'[n]].since < topo[last[n]].since, last[n] \in cached.active
               PROVE  FALSE
    OBVIOUS
  <2>1. topo[last'[n]].since \in Nat /\ topo[last[n]].since \in Nat
    BY DEF IInv, TypeOK
  <2>2. last'[n] # last[n]
    BY <2>1
  <2>3. Check
    BY <2>2 DEF Next, Tick, Change, GetCluster, GetSupervisors, GetTopologies, GetDetails,
                GetComponent, Finish, ConnectionFailure, BadReply
  <2>4. last'[n] \in Topos(ToSet(cached.parts)) /\ n \in NameOf[last'[n]]
    BY <2>2, <2>3, ShownLast
  <2>5. NameOf[last[n]] = NameOf[last'[n]]
    <3>1. n \in NameOf[last[n]]
      BY DEF OrderOK
    <3> QED BY <2>4, <3>1, NameOfAssumption
  <2>6. topo[last[n]].since <= topo[last'[n]].since
    BY <2>4, <2>5 DEF OrderOK, NewestOK
  <2> QED BY <2>1, <2>6
<1>2. Spec => []OrderOK
  BY OrderInit, OrderNext, Invariance, PTL DEF Spec
<1> QED BY <1>1, <1>2, Invariance, PTL DEF Spec, ReportsMoveForward

-----------------------------------------------------------------------------
(* The refinement.                                                         *)

LEMMA OldestOfNone == Oldest(<<>>) = 0
BY DEF Oldest

\* While a fetch is under way its oldest reply is its first.
LEMMA OldestOfParts == IInv /\ parts # <<>> => Oldest(parts) = parts[1].at
BY OldestIsFirst DEF IInv, TypeOK, AgesOK

\* A GET begins a fetch, or nothing of the fetch is to be seen from outside.
LEMMA GetSteps ==
  ASSUME IInv, IInv', pc' # "cluster", UNCHANGED <<now, cached>>, parts' # <<>>,
         parts # <<>> => parts'[1] = parts[1],
         parts = <<>> => parts'[1].at = now
  PROVE  Fetch!Begin \/ UNCHANGED Fetch!vars
<1>1. Oldest(parts') = parts'[1].at
  BY OldestIsFirst DEF IInv, TypeOK, AgesOK
<1>2. CASE parts = <<>>
  <2>1. pc = "cluster"
    BY <1>2 DEF IInv, FetchOK
  <2> QED BY <1>1, <1>2, <2>1 DEF Fetch!Begin
<1>3. CASE parts # <<>>
  <2>1. pc # "cluster"
    BY <1>3 DEF IInv, FetchOK
  <2>2. Oldest(parts) = Oldest(parts')
    BY <1>1, <1>3, OldestOfParts
  <2> QED BY <2>1, <2>2 DEF Fetch!vars
<1> QED BY <1>2, <1>3

LEMMA FetchStep == IInv /\ IInv' /\ [Next]_vars => [Fetch!Next]_Fetch!vars
<1> SUFFICES ASSUME IInv, IInv', [Next]_vars
             PROVE  Fetch!Next \/ UNCHANGED Fetch!vars
  OBVIOUS
<1>1. CASE Tick
  BY <1>1 DEF Tick, fetchVars, Fetch!Next, Fetch!Tick
<1>2. CASE (\E t \in Topo : Change(t)) \/ Check \/ UNCHANGED vars
  <2>1. UNCHANGED <<now, pc, parts, cached>>
    BY <1>2 DEF Change, Check, vars, clusterVars, fetchVars
  <2> QED BY <2>1 DEF Fetch!vars
<1>3. CASE GetCluster \/ GetSupervisors
  <2>1. UNCHANGED <<now, cached>>
    BY <1>3 DEF GetCluster, GetSupervisors, clusterVars
  <2> QED BY <1>3, <2>1, GetFirstOK, GetSteps DEF Fetch!Next
<1>4. CASE GetTopologies \/ GetDetails \/ GetComponent
  <2>1. UNCHANGED <<now, cached>>
    BY <1>4 DEF GetTopologies, GetDetails, GetComponent, clusterVars
  <2> QED BY <1>4, <2>1, GetTopologiesOK, GetDetailsOK, GetComponentOK, GetSteps DEF Fetch!Next
<1>5. CASE Finish
  <2>1. pc = "details" /\ pc' = "cluster" /\ parts' = <<>> /\ now' = now
    BY <1>5 DEF Finish, Forget, clusterVars
  <2>2. cached' = [status |-> "success", updated |-> now, parts |-> parts, active |-> active]
    BY <1>5 DEF Finish
  <2> QED BY <2>1, <2>2, OldestOfNone DEF Fetch!Next, Fetch!Succeed, Fetch!Leave
<1>6. CASE ConnectionFailure
  <2>1. pc' = "cluster" /\ parts' = <<>> /\ now' = now
    BY <1>6 DEF ConnectionFailure, Forget, clusterVars
  <2>2. cached' = [status |-> "error", updated |-> now, parts |-> <<>>, active |-> {}]
    BY <1>6 DEF ConnectionFailure
  <2> QED BY <2>1, <2>2, OldestOfNone DEF Fetch!Next, Fetch!Fail, Fetch!Leave
<1>7. CASE BadReply
  <2>1. pc # "cluster" /\ pc' = "cluster" /\ parts' = <<>> /\ now' = now /\ cached' = cached
    BY <1>7 DEF BadReply, Forget, clusterVars
  <2> QED BY <2>1, OldestOfNone DEF Fetch!Next, Fetch!Die, Fetch!Leave
<1> QED BY <1>1, <1>2, <1>3, <1>4, <1>5, <1>6, <1>7 DEF Next

LEMMA FetchInit == Init => Fetch!Init
BY OldestOfNone DEF Init, Fetch!Init

\* One call of cache_one, with all its GETs, is the fetch that the cache's own theorems take
\* it for: a success rests on nothing older than the first reply, a failure keeps nothing
\* (cache-storm-data:87-118).
THEOREM ImplementsFetchHolds == Spec => ImplementsFetch
<1>1. Init => Fetch!Init
  BY FetchInit
<1>2. IInv /\ IInv' /\ [Next]_vars => [Fetch!Next]_Fetch!vars
  BY FetchStep
<1> QED BY <1>1, <1>2, Invariance, PTL DEF Spec, ImplementsFetch, Fetch!Spec
=============================================================================
