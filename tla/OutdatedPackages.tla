-------------------------- MODULE OutdatedPackages --------------------------
(***************************************************************************)
(* checks.d/outdated_packages.py.  A check asks dpkg for the state of a    *)
(* package and then for its version, in two processes between which the    *)
(* package may be upgraded, removed or purged.  The last status of a       *)
(* package is an attribute of the object: instances that are about the     *)
(* same package share it, whatever versions they expect.                   *)
(***************************************************************************)
EXTENDS PackageConstants

VARIABLES
  changes,
  dpkg,     \* state and version of each package
  query,    \* the check that is running: its instance, what it does next, the version it read
  last,     \* _last_state_by_package
  current,  \* the last service check package.up_to_date of each instance
  event,    \* the last event of each package, and whether there was an odd number of them
  settled   \* the instances whose last report is of the version that dpkg had then, when
            \* nobody has touched the package since

packageVars == <<query, last, current, event, settled>>
vars == <<changes, dpkg, packageVars>>

State == {"absent", "config-files", "installed"}
Status == {"current", "outdated", "unknown"}
NotAsking == [of |-> None, doing |-> "status", version |-> 1]

Init ==
  /\ changes = 0
  /\ dpkg \in [Package -> [state : State, version : {1}]]
  /\ query = NotAsking
  /\ last = [p \in Package |-> "none"]
  /\ event = [p \in Package |-> [is |-> "none", odd |-> FALSE]]
  /\ current = [i \in Instance |-> "none"]
  /\ settled = {}

-----------------------------------------------------------------------------
(* dpkg.                                                                   *)

\* apt installs, upgrades, downgrades, removes or purges a package.
Change(p) ==
  /\ changes < MaxChanges /\ changes' = changes + 1
  /\ \E state \in State, version \in 1..MaxVersion :
       /\ dpkg' = [dpkg EXCEPT ![p] = [state |-> state, version |-> version]]
  /\ settled' = {i \in settled : PackageOf[i] # p}
  /\ UNCHANGED <<query, last, current, event>>

-----------------------------------------------------------------------------
(* The check.                                                              *)

Busy == query # NotAsking

Start(i) ==
  /\ ~Busy
  /\ query' = [of |-> i, doing |-> "status", version |-> 1]
  /\ UNCHANGED <<changes, dpkg, last, current, event, settled>>

\* It returns or raises without a report.
Leave == query' = NotAsking /\ UNCHANGED <<changes, dpkg, last, current, event, settled>>

package == PackageOf[query.of]
expected_version == Expected[query.of]

\* ${Status} is "install ok installed".
QueryStatus ==
  /\ query.of # None /\ query.doing = "status"
  /\ dpkg[package].state = "installed"
  /\ query' = [query EXCEPT !.doing = IF expected_version = None THEN "unknown" ELSE "version"]
  /\ UNCHANGED <<changes, dpkg, last, current, event, settled>>

\* It is another: the package is ignored.
NotInstalled ==
  /\ query.of # None /\ query.doing = "status"
  /\ dpkg[package].state = "config-files"
  /\ Leave

\* dpkg-query does not know the package: check_output raises.
NoSuchPackage ==
  /\ query.of # None /\ query.doing \in {"status", "version"}
  /\ dpkg[package].state = "absent"
  /\ Leave

\* An event, if there is one, that the package has this status now.
EventIf(different, p, status) ==
  event' = IF different THEN [event EXCEPT ![p] = [is |-> status, odd |-> ~@.odd]] ELSE event

\* A variant: only the first status of a package is stored.
has_different_status_Once(p, status) ==
  /\ last' = [last EXCEPT ![p] = IF @ = "none" THEN status ELSE @]
  /\ EventIf(last[p] \notin {"none", status}, p, status)

\* It stores the status, and there is an event if the previous one was another.
has_different_status(p, status) ==
  /\ last' = [last EXCEPT ![p] = status]
  /\ EventIf(last[p] \notin {"none", status}, p, status)

Report(status) ==
  /\ current' = [current EXCEPT ![query.of] = status]
  /\ has_different_status(package, status)
  /\ settled' = (settled \ {query.of})
                  \union {i \in {query.of} : query.version = dpkg[package].version}
  /\ query' = NotAsking
  /\ UNCHANGED <<changes, dpkg>>

\* dpkg-query prints a version also of a package that was removed but not purged.
QueryVersion ==
  /\ query.of # None /\ query.doing = "version"
  /\ dpkg[package].state # "absent"
  /\ query' = [query EXCEPT !.doing = "compare", !.version = dpkg[package].version]
  /\ UNCHANGED <<changes, dpkg, last, current, event, settled>>

\* A variant: the expected version itself is not enough.
UpToDateOnlyNewer(version, expected) == version > expected

\* dpkg --compare-versions version ge expected
UpToDate(version, expected) == version >= expected

CompareVersions ==
  /\ query.of # None /\ query.doing = "compare"
  /\ Report(IF UpToDate(query.version, expected_version) THEN "current" ELSE "outdated")

UnknownRelease ==
  /\ query.of # None /\ query.doing = "unknown"
  /\ Report("unknown")

Step == QueryStatus \/ NotInstalled \/ NoSuchPackage \/ QueryVersion \/ CompareVersions
        \/ UnknownRelease
Environment == \E p \in Package : Change(p)

Next == Environment \/ (\E i \in Instance : Start(i)) \/ Step

Spec == Init /\ [][Next]_vars

-----------------------------------------------------------------------------
\* Types of the variables.
TypeOK ==
  /\ changes \in Nat
  /\ dpkg \in [Package -> [state : State, version : 1..MaxVersion]]
  /\ query \in [of : Instance \union {None}, version : 1..MaxVersion,
                doing : {"status", "version", "compare", "unknown"}]
  /\ last \in [Package -> Status \union {"none"}]
  /\ event \in [Package -> [is : Status \union {"none"}, odd : BOOLEAN]]
  /\ current \in [Instance -> Status \union {"none"}]
  /\ settled \subseteq Instance

Verdict(i, version) ==
  IF Expected[i] = None THEN "unknown"
  ELSE IF version >= Expected[i] THEN "current" ELSE "outdated"

\* Whatever happens to a package between the three processes of a check, the status is of
\* the version that dpkg has, unless the package was touched behind the reading of its version.
SettledIsRight == \A i \in settled : current[i] = Verdict(i, dpkg[PackageOf[i]].version)

\* The last event of a package names the status that was reported last, although several
\* instances share it and report different ones (outdated_packages.py:26-29).
EventTellsLast == \A p \in Package : event[p].is \in {"none", last[p]}

\* An event is news: a check sends none if its package has not been touched since its last
\* report, and what it reported then is what was reported of the package last, be it by
\* another instance.
EventIsNews ==
  [][\A i \in settled : query.of = i /\ last[PackageOf[i]] = current[i]
       => event'[PackageOf[i]] = event[PackageOf[i]]]_vars

\* What the running check knows of its package: whether a version is expected of it, and,
\* if it reported before and nobody touched the package since, the version dpkg has.
ReadOK ==
  query.of # None =>
    /\ query.doing \in {"version", "compare"} => Expected[query.of] # None
    /\ query.doing = "unknown" => Expected[query.of] = None
    /\ query.doing = "compare" /\ query.of \in settled
         => query.version = dpkg[PackageOf[query.of]].version

\* The inductive invariant.
IInv == TypeOK /\ ReadOK /\ SettledIsRight /\ EventTellsLast

\* A package that stays installed with one version gets the right status of every instance.
Settles ==
  \A i \in Instance, version \in 1..MaxVersion :
    <>[](dpkg[PackageOf[i]] = [state |-> "installed", version |-> version])
      => <>[](current[i] = Verdict(i, version))
=============================================================================
