--------------------------- MODULE StormSnapshot ---------------------------
(***************************************************************************)
(* One fetch of scripts/cache-storm-data in detail, and what               *)
(* checks.d/storm_rest_api.py reports of it.  cache_one collects one       *)
(* snapshot with many GETs, and topologies are launched, deactivated,      *)
(* killed and removed between them: the summary is of one moment, the      *)
(* details of each topology and of each whitelisted component of later     *)
(* ones.  Topologies that are redeployed have the same taggable name.      *)
(*                                                                         *)
(* A reply is a part: what it is of, when it was received, and whether the *)
(* check will find in it the keys it reads.  Of the summary the chosen     *)
(* rows are kept.  The parts are in the order of the GETs, which is also   *)
(* the order in which the check reports them.                              *)
(***************************************************************************)
EXTENDS Naturals, SequencesExt

CONSTANTS
  Topo,       \* topology ids; Storm never reuses one
  NoTopo,
  Comp,       \* spout and bolt ids, of which every topology has all
  NoComp,
  Name,       \* taggable names
  NameOf,     \* the name the topologies regex extracts; {} when it does not match
  Whitelist,  \* the components that match executor_details_whitelist
  MaxTime,    \* bound on the clock
  MaxChanges  \* bound on how often a topology changes

ASSUME IdsAssumption == NoTopo \notin Topo /\ NoComp \notin Comp /\ Whitelist \subseteq Comp
ASSUME NameOfAssumption == NameOf \in [Topo -> {{n} : n \in Name} \union {{}}]

VARIABLES
  now,
  topo,     \* the Storm cluster: status and launch time of each topology
  changes,
  pc,       \* the GET that cache_one is at
  parts,    \* the replies it has
  active,   \* the topologies that the summary showed ACTIVE
  todo,     \* the chosen topologies it has not asked for yet
  cur,      \* the topology whose components it is asking for
  comps,    \* the components it has not asked for yet
  cached,   \* what cache_one returned last, and the cache file holds
  last      \* the topology last reported under each name

clusterVars == <<now, topo, changes>>
fetchVars == <<pc, parts, active, todo, cur, comps>>
vars == <<now, topo, changes, pc, parts, active, todo, cur, comps, cached, last>>

Kind == {"cluster", "supervisors", "topologies", "topology", "component"}
Part == [what : Kind, topos : SUBSET Topo, comp : Comp \union {NoComp},
         at : Nat, ok : BOOLEAN]
Snapshot == [status : {"success", "error"}, updated : Nat, parts : Seq(Part),
             active : SUBSET Topo]

Init ==
  /\ now = 0
  /\ topo = [t \in Topo |-> [status |-> "NEW", since |-> 0]]
  /\ changes = 0
  /\ pc = "cluster" /\ parts = <<>> /\ active = {} /\ todo = {} /\ cur = NoTopo /\ comps = {}
  /\ cached = [status |-> "error", updated |-> 0, parts |-> <<>>, active |-> {}]
  /\ last = [n \in Name |-> NoTopo]

-----------------------------------------------------------------------------
(* The cluster.                                                            *)

Tick == /\ now < MaxTime
        /\ now' = now + 1
        /\ UNCHANGED <<topo, changes, fetchVars, cached, last>>

Lifecycle == {<<"NEW", "ACTIVE">>, <<"ACTIVE", "INACTIVE">>, <<"INACTIVE", "ACTIVE">>,
              <<"ACTIVE", "KILLED">>, <<"INACTIVE", "KILLED">>, <<"KILLED", "GONE">>}

Change(t) ==
  /\ changes < MaxChanges
  /\ \E s \in Lifecycle :
       /\ topo[t].status = s[1]
       /\ topo' = [topo EXCEPT ![t] = [status |-> s[2],
                                       since |-> IF s[1] = "NEW" THEN now ELSE @.since]]
  /\ changes' = changes + 1
  /\ UNCHANGED <<now, fetchVars, cached, last>>

-----------------------------------------------------------------------------
(* cache_one.                                                              *)

\* A reply of the shape that is read, or (at most one of a snapshot) of another.
Receive(what, topos, c) ==
  \E ok \in BOOLEAN :
    /\ ~ok => \A k \in DOMAIN parts : parts[k].ok
    /\ parts' = Append(parts, [what |-> what, topos |-> topos, comp |-> c,
                               at |-> now, ok |-> ok])

GetCluster == /\ pc = "cluster"
              /\ Receive("cluster", {}, NoComp)
              /\ pc' = "supervisors"
              /\ UNCHANGED <<clusterVars, active, todo, cur, comps, cached, last>>

GetSupervisors == /\ pc = "supervisors"
                  /\ Receive("supervisors", {}, NoComp)
                  /\ pc' = "summary"
                  /\ UNCHANGED <<clusterVars, active, todo, cur, comps, cached, last>>

\* collect_topologies: the ACTIVE ones whose name matches, grouped by name, sorted
\* by uptime; of equals the one the API lists first, so any.
Active == {t \in Topo : topo[t].status = "ACTIVE" /\ NameOf[t] # {}}
uptime(t) == now - topo[t].since

\* A variant: the list is sorted the other way round.
OldestOf(S) == {t \in S : \A u \in S : NameOf[u] = NameOf[t] => uptime(t) >= uptime(u)}

NewestOf(S) == {t \in S : \A u \in S : NameOf[u] = NameOf[t] => uptime(t) <= uptime(u)}

collect_topologies(chosen) ==
  /\ chosen \subseteq NewestOf(Active)
  /\ \A t \in Active : \E u \in chosen : NameOf[u] = NameOf[t]
  /\ \A t, u \in chosen : NameOf[u] = NameOf[t] => t = u

GetTopologies ==
  /\ pc = "summary"
  /\ \E chosen \in SUBSET Topo :
       /\ collect_topologies(chosen)
       /\ Receive("topologies", chosen, NoComp)
       /\ todo' = chosen
  /\ active' = Active
  /\ pc' = "details"
  /\ UNCHANGED <<clusterVars, cur, comps, cached, last>>

\* A variant: the details are asked for by name, so of the newest one there is now.
GetDetailsByName ==
  /\ pc = "details" /\ comps = {}
  /\ \E t \in todo :
       \E u \in NewestOf(Active) :
         /\ NameOf[u] = NameOf[t]
         /\ Receive("topology", {u}, NoComp)
         /\ todo' = todo \ {t}
         /\ cur' = u
         /\ comps' = Whitelist
  /\ UNCHANGED <<clusterVars, pc, active, cached, last>>

\* The details of a chosen topology, by its id; then those of its components.
GetDetails ==
  /\ pc = "details" /\ comps = {}
  /\ \E t \in todo :
       /\ topo[t].status # "GONE"
       /\ Receive("topology", {t}, NoComp)
       /\ todo' = todo \ {t}
       /\ cur' = t
       /\ comps' = Whitelist
  /\ UNCHANGED <<clusterVars, pc, active, cached, last>>

GetComponent ==
  /\ pc = "details"
  /\ \E c \in comps :
       /\ topo[cur].status # "GONE"
       /\ Receive("component", {cur}, c)
       /\ comps' = comps \ {c}
  /\ UNCHANGED <<clusterVars, pc, active, todo, cur, cached, last>>

\* A variant: the list of replies is not a local but lives on.
ForgetAllButParts == /\ pc' = "cluster" /\ active' = {} /\ todo' = {}
                     /\ cur' = NoTopo /\ comps' = {} /\ UNCHANGED parts

\* cache_one returns or raises: its locals are gone.
Forget == /\ pc' = "cluster" /\ parts' = <<>> /\ active' = {} /\ todo' = {}
          /\ cur' = NoTopo /\ comps' = {}

Finish ==
  /\ pc = "details" /\ todo = {} /\ comps = {}
  /\ cached' = [status |-> "success", updated |-> now, parts |-> parts, active |-> active]
  /\ Forget
  /\ UNCHANGED <<clusterVars, last>>

\* A variant: what was fetched before the failure is kept.
FailureKeepsParts ==
  /\ pc # "details" \/ todo # {} \/ comps # {}
  /\ cached' = [status |-> "success", updated |-> now, parts |-> parts, active |-> active]
  /\ Forget
  /\ UNCHANGED <<clusterVars, last>>

\* Any GET may fail; one of a removed topology, or of a component of it, must.
ConnectionFailure ==
  /\ pc # "details" \/ todo # {} \/ comps # {}
  /\ cached' = [status |-> "error", updated |-> now, parts |-> <<>>, active |-> {}]
  /\ Forget
  /\ UNCHANGED <<clusterVars, last>>

\* The summary has no 'topologies', or the details no 'spouts' or no 'bolts': what
\* is raised then is not a ConnectionFailure and ends the script.
BadReply ==
  /\ \/ pc = "summary"
     \/ pc = "details" /\ comps = Whitelist /\ ~parts[Len(parts)].ok
  /\ Forget
  /\ UNCHANGED <<clusterVars, cached, last>>

-----------------------------------------------------------------------------
(* check, on a file that is fresh enough.  It keeps no state: what it sends *)
(* is a function of the file.                                              *)

\* report_* raises KeyError or TypeError at the first part it cannot read: what it
\* reported before stays reported, and no service check is sent.
Report(snapshot) ==
  LET bad == SelectInSeq(snapshot.parts, LAMBDA p : ~p.ok)
  IN IF snapshot.status # "success" THEN [emitted |-> <<>>, service |-> "CRITICAL"]
     ELSE IF bad = 0 THEN [emitted |-> snapshot.parts, service |-> "OK"]
     ELSE [emitted |-> SubSeq(snapshot.parts, 1, bad - 1), service |-> "none"]

\* The topologies whose rows are reported.
Rows(S) == UNION {p.topos : p \in {q \in ToSet(S) : q.what = "topologies"}}

Check ==
  /\ last' = [n \in Name |->
       LET named == {t \in Rows(Report(cached).emitted) : n \in NameOf[t]}
       IN IF named = {} THEN last[n] ELSE CHOOSE t \in named : TRUE]
  /\ UNCHANGED <<clusterVars, fetchVars, cached>>

-----------------------------------------------------------------------------
Next ==
  \/ Tick \/ \E t \in Topo : Change(t)
  \/ GetCluster \/ GetSupervisors \/ GetTopologies \/ GetDetails \/ GetComponent
  \/ Finish \/ ConnectionFailure \/ BadReply
  \/ Check

Spec == Init /\ [][Next]_vars

-----------------------------------------------------------------------------
\* Types of the variables.
TypeOK ==
  /\ now \in Nat /\ changes \in Nat
  /\ topo \in [Topo -> [status : {"NEW", "ACTIVE", "INACTIVE", "KILLED", "GONE"},
                        since : Nat]]
  /\ pc \in {"cluster", "supervisors", "summary", "details"}
  /\ parts \in Seq(Part)
  /\ active \subseteq Topo /\ todo \subseteq Topo
  /\ cur \in Topo \union {NoTopo} /\ comps \subseteq Comp
  /\ cached \in Snapshot
  /\ last \in [Name -> Topo \union {NoTopo}]

\* What is reported of a taggable name, from the summary, the details and the
\* components, is of one topology, although replies of different moments are put
\* together and a redeployed topology has the name of the old one
\* (cache-storm-data:98-114).
OneTopologyPerName ==
  LET reported == UNION {p.topos : p \in ToSet(Report(cached).emitted)}
  IN \A t, u \in reported : NameOf[t] = NameOf[u] => t = u

\* An OK service check means that cluster, supervisors and every chosen topology
\* were reported, each with its details and each of its whitelisted components:
\* never a snapshot some GET of which failed, never a report cut short by a part
\* the check cannot read (storm_rest_api.py:108-116, 124-128).
Whole(S) ==
  /\ {"cluster", "supervisors", "topologies"} \subseteq {p.what : p \in S}
  /\ \A t \in UNION {p.topos : p \in S} :
       /\ \E p \in S : p.what = "topology" /\ p.topos = {t}
       /\ \A c \in Whitelist : \E p \in S : p.what = "component" /\ p.topos = {t} /\ p.comp = c

OkIsWhole == Report(cached).service = "OK" => Whole(ToSet(Report(cached).emitted))

\* From one report to the next, the topology shown under a name is replaced by an
\* older one only when it was no longer ACTIVE at the summary.
ReportsMoveForward ==
  [][\A n \in Name :
       LET old == last[n]
           new == last'[n]
       IN old \in Topo /\ new \in Topo /\ topo[new].since < topo[old].since
            => old \notin cached.active]_vars

\* The topologies that some parts are of.
Topos(S) == UNION {p.topos : p \in S}

OnePerName(S) == \A t, u \in S : NameOf[t] = NameOf[u] => t = u

\* What every list of parts has: of each name one topology, and one part at most that the
\* check cannot read.
PartsOK(s) ==
  /\ \A j, k \in DOMAIN s : ~s[j].ok /\ ~s[k].ok => j = k
  /\ OnePerName(Topos(ToSet(s)))

\* The first part is the oldest one.
AgesOK == \A k \in DOMAIN parts : parts[1].at <= parts[k].at /\ parts[k].at <= now

\* Of no topology is there a part before the summary, nor of one that it did not choose.
FetchOK ==
  /\ pc = "cluster" <=> parts = <<>>
  /\ pc # "details" => Topos(ToSet(parts)) = {} /\ todo = {} /\ comps = {}
  /\ todo \subseteq Topos(ToSet(parts)) /\ comps \subseteq Whitelist
  /\ comps # {} => cur \in Topos(ToSet(parts))

\* What is not asked for any more has been received.
WholeSoFar ==
  LET S == ToSet(parts)
  IN /\ pc # "cluster" => "cluster" \in {p.what : p \in S}
     /\ pc \in {"summary", "details"} => "supervisors" \in {p.what : p \in S}
     /\ pc = "details" => "topologies" \in {p.what : p \in S}
     /\ \A t \in Topos(S) \ todo :
          /\ \E p \in S : p.what = "topology" /\ p.topos = {t}
          /\ \A c \in Whitelist :
               \/ t = cur /\ c \in comps
               \/ \E p \in S : p.what = "component" /\ p.topos = {t} /\ p.comp = c

CachedOK ==
  PartsOK(cached.parts) /\ (cached.status = "success" => Whole(ToSet(cached.parts)))

\* The inductive invariant.
IInv == TypeOK /\ PartsOK(parts) /\ AgesOK /\ FetchOK /\ WholeSoFar /\ CachedOK

\* Of the topologies a list of parts is of, each is the newest of its name that the summary
\* showed ACTIVE; their launch times are settled, for none of them is NEW any more.
NewestOK(s, shown) ==
  /\ \A t \in Topos(ToSet(s)), u \in shown :
       NameOf[u] = NameOf[t] => topo[u].since <= topo[t].since
  /\ \A t \in Topos(ToSet(s)) \union shown : topo[t].status # "NEW"

\* What makes the reports move forward, besides IInv.
OrderOK ==
  /\ NewestOK(parts, active) /\ NewestOK(cached.parts, cached.active)
  /\ \A n \in Name : last[n] \in Topo => n \in NameOf[last[n]]

\* cache_one, all its GETs together, is the fetch that module StormCache has: its
\* oldest reply is its first, and a failure leaves nothing of it.
Oldest(S) == IF S = <<>> THEN 0 ELSE Min({p.at : p \in ToSet(S)})

Fetch == INSTANCE StormFetch WITH
           phase <- IF pc = "cluster" THEN "idle" ELSE "fetch",
           first <- Oldest(parts),
           out <- [status |-> cached.status, updated |-> cached.updated,
                   oldest |-> IF cached.status = "success" THEN Oldest(cached.parts)
                              ELSE cached.updated]

ImplementsFetch == Fetch!Spec
=============================================================================
