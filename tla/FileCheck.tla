------------------------------ MODULE FileCheck ------------------------------
(***************************************************************************)
(* checks.d/file.py.  A check lists the files that match its path, stats   *)
(* them one by one while sorting them by ctime, and stats the first of the *)
(* sorted list once more; other programs create, touch, replace and delete *)
(* files between any two of these calls.  The status last reported of a    *)
(* path is kept in the check object, for the events; instances may have    *)
(* the same path (one that expects it present, one that expects it absent).*)
(* Whether the service check is OK only compares the status with what the   *)
(* instance expects, and is left out.                                      *)
(***************************************************************************)
EXTENDS Naturals, FiniteSets

CONSTANTS
  Instance, \* the configured instances
  Path,     \* the paths (glob patterns) they name
  PathOf,   \* the path of each instance
  File,     \* names of files
  Matches,  \* the names a path matches
  MAX_FILES_TO_STAT,
  Kinds,    \* what a name may become, a subset of Kind
  MaxTime,  \* bound on the clock
  MaxChanges,  \* bound on the changes of the file system
  MaxRestarts  \* bound on the restarts of the agent

Status == {"absent", "present"}

ASSUME InstancesAssumption == /\ Instance # {} /\ File # {} /\ IsFiniteSet(File)
                              /\ PathOf \in [Instance -> Path]
                              /\ Matches \in [Path -> SUBSET File]
ASSUME BoundsAssumption == /\ MAX_FILES_TO_STAT \in Nat \ {0}
                           /\ MaxTime \in Nat /\ MaxChanges \in Nat /\ MaxRestarts \in Nat

VARIABLES
  now,
  fs,       \* what each name is: nothing, a file, a dangling link, a file whose stat is denied
  changes, restarts,
  pc,       \* where the check is: "idle", "sort", or "stat" for the last stat
  cur,      \* the instance it checks
  files,    \* what glob returned
  seen,     \* what the stats of the sort returned
  oldest,   \* sorted_files[0]
  gap,      \* whether since glob there was a moment at which nothing matched
  gone,     \* whether since glob a name that it returned was missing, or a dangling link
  kept,     \* the files that are there, untouched, since glob
  last,     \* _last_state_by_path
  events,   \* the last two events of each path since the agent started
  report    \* the outcome of the last check of each instance

fsVars == <<now, fs, changes>>
checkVars == <<pc, cur, files, seen, oldest>>
vars == <<now, fs, changes, restarts, pc, cur, files, seen, oldest, gap, gone, kept,
          last, events, report>>

AnyInstance == CHOOSE i \in Instance : TRUE
AnyFile == CHOOSE f \in File : TRUE

Kind == {"nothing", "file", "dangling", "denied"}
Listed == {"file", "dangling", "denied"}
Unfollowable == {"nothing", "dangling"}

ASSUME KindsAssumption == Kinds \subseteq Kind

\* The outcome of a check: what it reported; whether at a moment of it nothing matched;
\* whether a name it found could not be followed at a moment of it; whether one changed
\* meanwhile; and whether the file whose age it reported
\* is at most as young as all that did not change.
Outcome == [status : Status \union {"none", "raised"},
            gap : BOOLEAN, gone : BOOLEAN, changed : BOOLEAN, first : BOOLEAN]
Without(status) == [status |-> status, gap |-> FALSE, gone |-> FALSE, changed |-> FALSE,
                    first |-> FALSE]

Init ==
  /\ now = 0
  /\ fs = [f \in File |-> [kind |-> "nothing", ctime |-> 0]]
  /\ changes = 0 /\ restarts = 0
  /\ pc = "idle"
  /\ cur = AnyInstance
  /\ files = {} /\ seen = {} /\ oldest = AnyFile
  /\ gap = FALSE /\ gone = FALSE /\ kept = {}
  /\ last = [p \in Path |-> "none"]
  /\ events = [p \in Path |-> <<"none", "none">>]
  /\ report = [i \in Instance |-> Without("none")]

-----------------------------------------------------------------------------
(* The file system.                                                        *)

Matching(p) == {f \in Matches[p] : fs[f].kind \in Listed}

Tick == /\ now < MaxTime
        /\ now' = now + 1
        /\ UNCHANGED <<fs, changes, restarts, checkVars, gap, gone, kept, last, events, report>>

\* A file is created, deleted, touched or replaced by another kind.
Change(f) ==
  /\ changes < MaxChanges
  /\ \E k \in Kinds :
       /\ k # "nothing" \/ fs[f].kind # "nothing"
       /\ fs' = [fs EXCEPT ![f] = [kind |-> k, ctime |-> IF k = "nothing" THEN 0 ELSE now]]
  /\ changes' = changes + 1
  /\ kept' = kept \ {f}
  /\ gap' = (gap \/ (/\ pc # "idle"
                      /\ \A g \in Matches[PathOf[cur]] : fs'[g].kind \notin Listed))
  /\ gone' = (gone \/ (f \in files /\ fs'[f].kind \in Unfollowable))
  /\ UNCHANGED <<now, restarts, checkVars, last, events, report>>

-----------------------------------------------------------------------------
(* The check.                                                              *)

\* A variant: the status is stored only if none is known yet.
has_different_status_Once(p, current) ==
  last' = [last EXCEPT ![p] = IF @ = "none" THEN current ELSE @]

\* has_different_status keeps the current status for the next call.
has_different_status(p, current) == last' = [last EXCEPT ![p] = current]

Done == /\ pc' = "idle" /\ files' = {} /\ seen' = {}
        /\ gap' = FALSE /\ gone' = FALSE /\ kept' = {}
        /\ cur' = AnyInstance /\ oldest' = AnyFile

\* The rest of check once stat_file returned: service check, event, gauge.
Report(i, status, isGap, isGone, hasChanged, isFirst) ==
  LET p == PathOf[i]
  IN /\ report' = [report EXCEPT ![i] = [status |-> status, gap |-> isGap, gone |-> isGone,
                                         changed |-> hasChanged, first |-> isFirst]]
     /\ has_different_status(p, status)
     /\ events' = IF last[p] # "none" /\ last[p] # status
                  THEN [events EXCEPT ![p] = <<events[p][2], status>>]
                  ELSE events
     /\ Done

\* What stat_file raises ends the check before its service check.
Raised == /\ report' = [report EXCEPT ![cur] = Without("raised")]
          /\ Done
          /\ UNCHANGED <<last, events>>

\* A variant: one file is not enough.
GlobMoreThanOne(i) ==
  LET found == Matching(PathOf[i])
  IN /\ pc = "idle"
     /\ Cardinality(found) <= 1
     /\ Report(i, "absent", found = {}, FALSE, FALSE, FALSE)
     /\ UNCHANGED <<fsVars, restarts>>

\* glob.glob finds nothing.
GlobNothing(i) ==
  /\ pc = "idle"
  /\ Matching(PathOf[i]) = {}
  /\ Report(i, "absent", TRUE, FALSE, FALSE, FALSE)
  /\ UNCHANGED <<fsVars, restarts>>

\* glob.glob finds files; a list of one is sorted without a stat.
Glob(i) ==
  LET found == Matching(PathOf[i])
  IN /\ pc = "idle"
     /\ found # {} /\ Cardinality(found) <= MAX_FILES_TO_STAT
     /\ cur' = i
     /\ files' = found
     /\ IF Cardinality(found) = 1 THEN pc' = "stat" /\ oldest' \in found
                                  ELSE pc' = "sort" /\ UNCHANGED oldest
     /\ gap' = FALSE
     /\ gone' = (\E f \in found : fs[f].kind \in Unfollowable)
     /\ kept' = {f \in found : fs[f].kind = "file"}
     /\ UNCHANGED <<fsVars, restarts, seen, last, events, report>>

\* "File check sanity check prevents more than %d files"
TooMany(i) ==
  /\ pc = "idle"
  /\ Cardinality(Matching(PathOf[i])) > MAX_FILES_TO_STAT
  /\ report' = [report EXCEPT ![i] = Without("raised")]
  /\ UNCHANGED <<fsVars, restarts, checkVars, gap, gone, kept, last, events>>

\* A comparison stats two files; a file may be compared, and so seen, many times.
SortStat(f) ==
  /\ pc = "sort" /\ f \in files
  /\ fs[f].kind = "file"
  /\ seen' = seen \union {<<f, fs[f].ctime>>}
  /\ UNCHANGED <<fsVars, restarts, pc, cur, files, oldest, gap, gone, kept, last, events, report>>

\* A variant: the newest first.
LaterOrEqual(t, u) == t >= u

\* cmp(os.stat(x).st_ctime, os.stat(y).st_ctime)
BeforeOrEqual(t, u) == t <= u

\* Some comparison found that f need not come after g.
Before(f, g) == \E s, r \in seen : s[1] = f /\ r[1] = g /\ BeforeOrEqual(s[2], r[2])

\* Whatever the order of its comparisons, a sort puts f first only if they lead from f
\* to every other file.
First(f) == \A S \in SUBSET files :
              f \in S /\ S # files => \E g \in S, h \in files \ S : Before(g, h)

Sorted ==
  /\ pc = "sort"
  /\ \A f \in files : \E s \in seen : s[1] = f
  /\ oldest' \in {f \in files : First(f)}
  /\ pc' = "stat"
  /\ UNCHANGED <<fsVars, restarts, cur, files, seen, gap, gone, kept, last, events, report>>

\* os.stat of a name that is gone, or that is a dangling link: ENOENT, "absent".
StatNoEntry(f) ==
  /\ (pc = "sort" /\ f \in files) \/ (pc = "stat" /\ f = oldest)
  /\ fs[f].kind \in Unfollowable
  /\ Report(cur, "absent", gap, gone, files # kept, FALSE)
  /\ UNCHANGED <<fsVars, restarts>>

\* Any other OSError is raised again.
StatError(f) ==
  /\ (pc = "sort" /\ f \in files) \/ (pc = "stat" /\ f = oldest)
  /\ fs[f].kind = "denied"
  /\ Raised
  /\ UNCHANGED <<fsVars, restarts>>

Stat ==
  /\ pc = "stat"
  /\ fs[oldest].kind = "file"
  /\ Report(cur, "present", gap, gone, files # kept,
            \A f \in kept : fs[oldest].ctime <= fs[f].ctime)
  /\ UNCHANGED <<fsVars, restarts>>

\* The agent restarts: a running check is gone, and so is what the object kept.
Restart ==
  /\ restarts < MaxRestarts
  /\ restarts' = restarts + 1
  /\ last' = [p \in Path |-> "none"]
  /\ events' = [p \in Path |-> <<"none", "none">>]
  /\ Done
  /\ UNCHANGED <<fsVars, report>>

-----------------------------------------------------------------------------
Step == Sorted \/ Stat \/ \E f \in File : SortStat(f) \/ StatNoEntry(f) \/ StatError(f)
Start(i) == GlobNothing(i) \/ Glob(i) \/ TooMany(i)

Next ==
  \/ Tick \/ Restart
  \/ \E f \in File : Change(f)
  \/ \E i \in Instance : Start(i)
  \/ Step

Spec == Init /\ [][Next]_vars

\* The collector starts the check of every instance again and again, and the calls
\* of a check return; a sort ends.
FairSpec == Spec /\ (\A i \in Instance : SF_vars(Start(i))) /\ WF_vars(Step)

-----------------------------------------------------------------------------
\* Types of the variables.
TypeOK ==
  /\ now \in Nat /\ changes \in Nat /\ restarts \in Nat
  /\ fs \in [File -> [kind : Kind, ctime : Nat]]
  /\ pc \in {"idle", "sort", "stat"}
  /\ cur \in Instance /\ files \subseteq File /\ seen \subseteq File \X Nat /\ oldest \in File
  /\ gap \in BOOLEAN /\ gone \in BOOLEAN /\ kept \subseteq File
  /\ last \in [Path -> Status \union {"none"}]
  /\ events \in [Path -> (Status \union {"none"}) \X (Status \union {"none"})]
  /\ report \in [Instance -> Outcome]

\* "absent" is reported only if, at a moment of the check, nothing matched, or a name that
\* glob had returned was missing or a dangling link: files that are merely touched, or that
\* cannot be statted, are not called absent.  One such name is enough.  That another file
\* matches all the time does not help, although the README asks for "at least one file"
\* (file.py:30-37, README.md:21).
AbsentExplained ==
  \A i \in Instance : report[i].status = "absent" => report[i].gap \/ report[i].gone

\* The age that is reported is that of the oldest file if none of the files that glob
\* found changed during the check, although each is statted on its own, some of them
\* several times, and the first of the list once more (file.py:29-32, 89-92).
OldestReported ==
  \A i \in Instance : report[i].status = "present" /\ ~report[i].changed => report[i].first

\* Two events of a path in a row never say the same, whichever instances of that path
\* sent them and however their checks alternate (file.py:18-21, 69).
EventsAlternate ==
  \A p \in Path : events[p][1] # "none" => events[p][1] # events[p][2]

\* When the files of an instance stay what they are, and each of them can be statted,
\* its status ends up "present", and stays so, whatever was reported before
\* (file.py:23-39).
EventuallyRight ==
  \A i \in Instance :
    /\ <>[](\E f \in Matches[PathOf[i]] : fs[f].kind = "file")
    /\ <>[](/\ \A f \in Matches[PathOf[i]] : fs[f].kind \in {"file", "nothing"}
            /\ Cardinality(Matching(PathOf[i])) <= MAX_FILES_TO_STAT)
    => <>[](report[i].status = "present")

-----------------------------------------------------------------------------
(* Why the invariants hold.                                                *)

\* While a check runs: a file that did not change was always seen as it is, if none
\* changed, the one the sort put first is the oldest, and what cannot be followed now is
\* known to have been so.
SeenOK ==
  /\ pc = "idle" => seen = {}
  /\ kept \subseteq files
  /\ \A f \in kept : fs[f].kind = "file"
  /\ \A s \in seen : s[1] \in kept => s[2] = fs[s[1]].ctime
  /\ pc = "stat" => oldest \in files
  /\ (\E f \in files : fs[f].kind \in Unfollowable) => gone
  /\ pc = "stat" /\ files = kept => \A f \in files : fs[oldest].ctime <= fs[f].ctime

\* The last event of a path, if there was one, said what is now known of it.
EventsOK ==
  \A p \in Path : events[p][2] # "none" => events[p][2] = last[p]

\* The inductive invariant.
IInv == TypeOK /\ SeenOK /\ EventsOK /\ AbsentExplained /\ OldestReported /\ EventsAlternate
=============================================================================
