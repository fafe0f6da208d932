--------------------------- MODULE FileCheckProofs ---------------------------
(***************************************************************************)
(* What is proved of module FileCheck, for every set of instances, paths   *)
(* and files: the inductive invariant IInv, and from it the invariants     *)
(* that TLC checks on small instances.                                     *)
(***************************************************************************)
EXTENDS FileCheck, FiniteSetTheorems, TLAPS

LEMMA Defaults == AnyInstance \in Instance /\ AnyFile \in File
BY InstancesAssumption DEF AnyInstance, AnyFile

LEMMA InitIInv == Init => IInv
<1> SUFFICES ASSUME Init PROVE IInv
  OBVIOUS
<1> USE DEF Init
<1>1. TypeOK
  BY Defaults DEF TypeOK, Kind, Outcome, Without, Status
<1>2. SeenOK /\ EventsOK /\ EventsAlternate
  BY DEF SeenOK, EventsOK, EventsAlternate
<1>3. AbsentExplained /\ OldestReported
  BY DEF AbsentExplained, OldestReported, Without
<1> QED
  BY <1>1, <1>2, <1>3 DEF IInv

LEMMA TickIInv == IInv /\ Tick => IInv'
<1> SUFFICES ASSUME IInv, Tick PROVE IInv'
  OBVIOUS
<1> USE DEF IInv, Tick, checkVars
<1>1. TypeOK'
  BY DEF TypeOK
<1>2. SeenOK'
  BY DEF SeenOK
<1>3. EventsOK' /\ EventsAlternate'
  BY DEF EventsOK, EventsAlternate
<1>4. AbsentExplained' /\ OldestReported'
  BY DEF AbsentExplained, OldestReported
<1> QED
  BY <1>1, <1>2, <1>3, <1>4 DEF IInv

\* A change of a file takes it out of kept; nothing is said of it any more.
LEMMA ChangeIInv == ASSUME IInv, NEW f \in File, Change(f) PROVE IInv'
<1> USE DEF IInv, Change, checkVars
<1>1. PICK k \in Kinds :
        fs' = [fs EXCEPT ![f] = [kind |-> k, ctime |-> IF k = "nothing" THEN 0 ELSE now]]
  OBVIOUS
<1>2. TypeOK'
  <2>1. fs' \in [File -> [kind : Kind, ctime : Nat]]
    BY <1>1, KindsAssumption DEF TypeOK
  <2>2. gap' \in BOOLEAN /\ gone' \in BOOLEAN
    BY DEF TypeOK
  <2> QED
    BY <2>1, <2>2 DEF TypeOK
<1>3. SeenOK'
  <2>1. \A g \in kept' : fs'[g] = fs[g]
    BY <1>1 DEF TypeOK
  <2>2. kept' \subseteq files /\ \A g \in kept' : g \in kept /\ fs'[g].kind = "file"
    BY <2>1 DEF SeenOK
  <2>3. \A s \in seen : s[1] \in kept' => s[2] = fs'[s[1]].ctime
    BY <2>1 DEF SeenOK
  <2>4. ASSUME pc = "stat", files = kept'
        PROVE  \A g \in files : fs'[oldest].ctime <= fs'[g].ctime
    <3>1. files = kept
      BY <2>2, <2>4 DEF SeenOK
    <3> QED
      BY <2>1, <2>4, <3>1 DEF SeenOK
  <2>5. ASSUME NEW g \in files, fs'[g].kind \in Unfollowable
        PROVE  gone'
    <3>1. CASE g = f
      BY <2>5, <3>1
    <3>2. CASE g # f
      <4>1. fs'[g] = fs[g]
        BY <1>1, <3>2 DEF TypeOK
      <4>2. gone
        BY <2>5, <4>1 DEF SeenOK
      <4> QED
        BY <4>2
    <3> QED
      BY <3>1, <3>2
  <2>6. UNCHANGED <<pc, files, seen, oldest>>
    OBVIOUS
  <2>7. /\ pc = "idle" => seen = {}
        /\ pc = "stat" => oldest \in files
    BY DEF SeenOK
  <2> HIDE DEF IInv, Change, checkVars
  <2> QED
    BY <2>2, <2>3, <2>4, <2>5, <2>6, <2>7 DEF SeenOK
<1>4. EventsOK' /\ EventsAlternate'
  BY DEF EventsOK, EventsAlternate
<1>5. AbsentExplained' /\ OldestReported'
  BY DEF AbsentExplained, OldestReported
<1> QED
  BY <1>2, <1>3, <1>4, <1>5 DEF IInv

\* Between two checks there is nothing to say of a check.
LEMMA DoneSeenOK == Done => SeenOK'
BY DEF Done, SeenOK

\* A check that ends with a status it can justify keeps the invariant, and the event
\* it sends, if it sends one, is not the one before it.
LEMMA ReportIInv ==
  ASSUME IInv, NEW i \in Instance, NEW status \in Status,
         NEW isGap \in BOOLEAN, NEW isGone \in BOOLEAN,
         NEW hasChanged \in BOOLEAN, NEW isFirst \in BOOLEAN,
         Report(i, status, isGap, isGone, hasChanged, isFirst), UNCHANGED <<fsVars, restarts>>,
         status = "absent" => isGap \/ isGone,
         status = "present" /\ ~hasChanged => isFirst
  PROVE  IInv'
<1> DEFINE p == PathOf[i]
           outcome == [status |-> status, gap |-> isGap, gone |-> isGone,
                       changed |-> hasChanged, first |-> isFirst]
<1> USE DEF IInv
<1>1. p \in Path /\ Done
  BY InstancesAssumption DEF Report
<1>2. report' = [report EXCEPT ![i] = outcome]
  BY DEF Report
<1>3. last' = [last EXCEPT ![p] = status]
  BY DEF Report, has_different_status
<1>4. events' = IF last[p] # "none" /\ last[p] # status
                THEN [events EXCEPT ![p] = <<events[p][2], status>>] ELSE events
  BY DEF Report
<1> HIDE DEF p
<1>5. TypeOK'
  <2>1. report' \in [Instance -> Outcome]
    <3>1. outcome \in Outcome
      BY DEF Outcome
    <3> QED
      BY <1>2, <3>1 DEF TypeOK
  <2>2. last' \in [Path -> Status \union {"none"}]
    BY <1>3 DEF TypeOK
  <2>3. events' \in [Path -> (Status \union {"none"}) \X (Status \union {"none"})]
    BY <1>1, <1>4 DEF TypeOK
  <2>4. /\ pc' = "idle" /\ files' = {} /\ seen' = {} /\ gap' = FALSE /\ gone' = FALSE /\ kept' = {}
        /\ cur' \in Instance /\ oldest' \in File
    BY <1>1, Defaults DEF Done
  <2> QED
    BY <2>1, <2>2, <2>3, <2>4 DEF TypeOK, fsVars
<1>6. SeenOK'
  BY <1>1, DoneSeenOK
<1>7. EventsOK' /\ EventsAlternate'
  <2>1. ASSUME NEW q \in Path, q # p
        PROVE  events'[q] = events[q] /\ last'[q] = last[q]
    BY <1>1, <1>3, <1>4, <2>1 DEF TypeOK
  <2>2. last'[p] = status
    BY <1>1, <1>3 DEF TypeOK
  <2>3. CASE last[p] # "none" /\ last[p] # status
    <3>1. events'[p] = <<events[p][2], status>>
      BY <1>1, <1>4, <2>3 DEF TypeOK
    <3>2. events'[p][1] = events[p][2] /\ events'[p][2] = status
      BY <3>1
    <3> QED
      BY <2>1, <2>2, <2>3, <3>2 DEF EventsOK, EventsAlternate
  <2>4. CASE ~(last[p] # "none" /\ last[p] # status)
    <3>1. events' = events
      BY <1>4, <2>4
    <3>2. events[p][2] # "none" => events[p][2] = status
      BY <1>1, <2>4 DEF EventsOK, Status
    <3> QED
      BY <2>1, <2>2, <3>1, <3>2 DEF EventsOK, EventsAlternate
  <2> QED
    BY <2>3, <2>4
<1>8. AbsentExplained' /\ OldestReported'
  <2>1. ASSUME NEW j \in Instance, j # i PROVE report'[j] = report[j]
    BY <1>2, <2>1 DEF TypeOK
  <2>2. report'[i] = outcome
    BY <1>2 DEF TypeOK
  <2> QED
    BY <2>1, <2>2 DEF AbsentExplained, OldestReported
<1> QED
  BY <1>5, <1>6, <1>7, <1>8 DEF IInv

\* A check that raises says nothing, and sends no event.
LEMMA RaisedIInv ==
  ASSUME IInv, NEW i \in Instance,
         report' = [report EXCEPT ![i] = Without("raised")],
         UNCHANGED <<fsVars, restarts, last, events>>,
         \/ Done
         \/ UNCHANGED <<checkVars, gap, gone, kept>>
  PROVE  IInv'
<1> USE DEF IInv, fsVars
<1>1. Without("raised") \in Outcome
  BY DEF Without, Outcome
<1>2. TypeOK'
  BY <1>1, Defaults DEF TypeOK, Done, checkVars
<1>3. SeenOK'
  BY DoneSeenOK DEF SeenOK, checkVars
<1>4. EventsOK' /\ EventsAlternate'
  BY DEF EventsOK, EventsAlternate
<1>5. AbsentExplained' /\ OldestReported'
  <2>1. ASSUME NEW j \in Instance PROVE report'[j] = report[j] \/ report'[j] = Without("raised")
    BY DEF TypeOK
  <2> QED
    BY <2>1 DEF AbsentExplained, OldestReported, Without
<1> QED
  BY <1>2, <1>3, <1>4, <1>5 DEF IInv

LEMMA GlobNothingIInv == ASSUME IInv, NEW i \in Instance, GlobNothing(i) PROVE IInv'
BY ReportIInv DEF GlobNothing, Status

\* The sort starts with nothing seen; a list of one has its oldest.
LEMMA GlobIInv == ASSUME IInv, NEW i \in Instance, Glob(i) PROVE IInv'
<1> USE DEF IInv, Glob, fsVars
<1> DEFINE found == Matching(PathOf[i])
<1>1. seen = {}
  BY DEF SeenOK
<1>2. found \subseteq File /\ IsFiniteSet(found)
  BY InstancesAssumption, FS_Subset DEF Matching
<1>3. kept' \subseteq found /\ \A f \in kept' : fs[f].kind = "file"
  OBVIOUS
<1>4. TypeOK'
  <2>1. gone' \in BOOLEAN
    OBVIOUS
  <2> QED
    BY <1>2, <1>3, <2>1 DEF TypeOK
<1>5. SeenOK'
  <2>1. seen' = {}
    BY <1>1
  <2>2. ASSUME pc' = "stat"
        PROVE  oldest' \in found /\ \A f \in found : fs[oldest'].ctime <= fs[f].ctime
    <3>1. Cardinality(found) = 1 /\ oldest' \in found
      BY <2>2
    <3>2. PICK f : found = {f}
      BY <1>2, <3>1, FS_Singleton
    <3>3. oldest' = f /\ fs[f].ctime \in Nat
      BY <1>2, <3>1, <3>2 DEF TypeOK
    <3> QED
      BY <3>1, <3>2, <3>3
  <2>3. (\E f \in files' : fs'[f].kind \in Unfollowable) => gone'
    OBVIOUS
  <2>4. files' = found /\ fs' = fs
    OBVIOUS
  <2>5. pc' # "idle"
    OBVIOUS
  <2> HIDE DEF found, IInv, Glob, fsVars
  <2> QED
    BY <1>3, <2>1, <2>2, <2>3, <2>4, <2>5 DEF SeenOK
<1>6. EventsOK' /\ EventsAlternate'
  BY DEF EventsOK, EventsAlternate
<1>7. AbsentExplained' /\ OldestReported'
  BY DEF AbsentExplained, OldestReported
<1> QED
  BY <1>4, <1>5, <1>6, <1>7 DEF IInv

LEMMA TooManyIInv == ASSUME IInv, NEW i \in Instance, TooMany(i) PROVE IInv'
BY RaisedIInv DEF TooMany

LEMMA SortStatIInv == ASSUME IInv, NEW f \in File, SortStat(f) PROVE IInv'
<1> USE DEF IInv, SortStat, fsVars
<1>1. TypeOK'
  BY DEF TypeOK
<1>2. SeenOK'
  BY DEF SeenOK
<1>3. EventsOK' /\ EventsAlternate'
  BY DEF EventsOK, EventsAlternate
<1>4. AbsentExplained' /\ OldestReported'
  BY DEF AbsentExplained, OldestReported
<1> QED
  BY <1>1, <1>2, <1>3, <1>4 DEF IInv

\* If no file changed, every comparison compared the ctimes the files have now: the
\* files that are not older than the first one are closed under the comparisons, so
\* they are all.
LEMMA FirstIsOldest ==
  ASSUME IInv, files = kept, NEW f \in files, First(f)
  PROVE  \A g \in files : fs[f].ctime <= fs[g].ctime
<1> DEFINE S == {g \in files : fs[f].ctime <= fs[g].ctime}
<1> USE DEF IInv
<1>1. \A g \in files : g \in File /\ fs[g].ctime \in Nat
  BY DEF TypeOK
<1>2. f \in S /\ S \in SUBSET files
  BY <1>1
<1>3. ASSUME NEW g \in S, NEW h \in files \ S, Before(g, h) PROVE FALSE
  <2>1. fs[g].ctime <= fs[h].ctime
    BY <1>3 DEF Before, BeforeOrEqual, SeenOK
  <2> QED
    BY <1>1, <2>1
<1>4. S = files
  BY <1>2, <1>3 DEF First
<1> QED
  BY <1>4

LEMMA SortedIInv == ASSUME IInv, Sorted PROVE IInv'
<1> USE DEF IInv, Sorted, fsVars
<1>1. oldest' \in files /\ First(oldest')
  OBVIOUS
<1>2. files = kept => \A g \in files : fs[oldest'].ctime <= fs[g].ctime
  BY <1>1, FirstIsOldest
<1>3. TypeOK'
  BY <1>1 DEF TypeOK
<1>4. SeenOK'
  BY <1>1, <1>2 DEF SeenOK
<1>5. EventsOK' /\ EventsAlternate'
  BY DEF EventsOK, EventsAlternate
<1>6. AbsentExplained' /\ OldestReported'
  BY DEF AbsentExplained, OldestReported
<1> QED
  BY <1>3, <1>4, <1>5, <1>6 DEF IInv

\* A name that cannot be followed now is known to be gone.
LEMMA StatNoEntryIInv == ASSUME IInv, NEW f \in File, StatNoEntry(f) PROVE IInv'
<1> USE DEF IInv
<1>1. cur \in Instance /\ gap \in BOOLEAN /\ gone \in BOOLEAN /\ (files # kept) \in BOOLEAN
  BY DEF TypeOK
<1>2. f \in files
  BY DEF StatNoEntry, SeenOK
<1>3. gone
  BY <1>2 DEF StatNoEntry, SeenOK
<1>4. /\ Report(cur, "absent", gap, gone, files # kept, FALSE)
      /\ UNCHANGED <<fsVars, restarts>>
  BY DEF StatNoEntry
<1> QED
  BY <1>1, <1>3, <1>4, ReportIInv DEF Status

LEMMA StatErrorIInv == ASSUME IInv, NEW f \in File, StatError(f) PROVE IInv'
BY RaisedIInv DEF StatError, Raised, IInv, TypeOK

LEMMA StatIInv == ASSUME IInv, Stat PROVE IInv'
<1> USE DEF IInv
<1> DEFINE isFirst == \A f \in kept : fs[oldest].ctime <= fs[f].ctime
<1>1. cur \in Instance /\ gap \in BOOLEAN /\ gone \in BOOLEAN /\ (files # kept) \in BOOLEAN
  BY DEF TypeOK
<1>2. files = kept => isFirst
  BY DEF Stat, SeenOK
<1>3. isFirst \in BOOLEAN
  OBVIOUS
<1>4. Report(cur, "present", gap, gone, files # kept, isFirst) /\ UNCHANGED <<fsVars, restarts>>
  BY DEF Stat
<1> HIDE DEF isFirst
<1> QED
  BY <1>1, <1>2, <1>3, <1>4, ReportIInv DEF Status

LEMMA RestartIInv == IInv /\ Restart => IInv'
<1> SUFFICES ASSUME IInv, Restart PROVE IInv'
  OBVIOUS
<1> USE DEF IInv, Restart, fsVars
<1>1. TypeOK'
  <2>1. /\ last' \in [Path -> Status \union {"none"}]
        /\ events' \in [Path -> (Status \union {"none"}) \X (Status \union {"none"})]
    OBVIOUS
  <2>2. /\ pc' = "idle" /\ files' = {} /\ seen' = {} /\ gap' = FALSE /\ gone' = FALSE /\ kept' = {}
        /\ cur' \in Instance /\ oldest' \in File
    BY Defaults DEF Done
  <2>3. restarts' \in Nat /\ UNCHANGED <<now, fs, changes, report>>
    BY DEF TypeOK
  <2> QED
    BY <2>1, <2>2, <2>3 DEF TypeOK
<1>2. SeenOK'
  BY DoneSeenOK
<1>3. EventsOK' /\ EventsAlternate'
  BY DEF EventsOK, EventsAlternate
<1>4. AbsentExplained' /\ OldestReported'
  BY DEF AbsentExplained, OldestReported
<1> QED
  BY <1>1, <1>2, <1>3, <1>4 DEF IInv

LEMMA NextIInv == IInv /\ [Next]_vars => IInv'
<1> SUFFICES ASSUME IInv, [Next]_vars PROVE IInv'
  OBVIOUS
<1>1. CASE Tick \/ Restart
  BY <1>1, TickIInv, RestartIInv
<1>2. CASE \E f \in File : Change(f)
  BY <1>2, ChangeIInv
<1>3. CASE \E i \in Instance : Start(i)
  BY <1>3, GlobNothingIInv, GlobIInv, TooManyIInv DEF Start
<1>4. CASE Step
  BY <1>4, SortedIInv, StatIInv, SortStatIInv, StatNoEntryIInv, StatErrorIInv DEF Step
<1>5. CASE UNCHANGED vars
  <2> USE <1>5 DEF vars, IInv
  <2>1. TypeOK' /\ SeenOK'
    BY DEF TypeOK, SeenOK
  <2>2. EventsOK' /\ EventsAlternate' /\ AbsentExplained' /\ OldestReported'
    BY DEF EventsOK, EventsAlternate, AbsentExplained, OldestReported
  <2> QED
    BY <2>1, <2>2
<1> QED
  BY <1>1, <1>2, <1>3, <1>4, <1>5 DEF Next

\* The invariant holds in every reachable state.
THEOREM Invariance == Spec => []IInv
BY InitIInv, NextIInv, PTL DEF Spec

\* The variables have their types.
THEOREM TypeCorrect == Spec => []TypeOK
<1>1. IInv => TypeOK
  BY DEF IInv
<1> QED
  BY <1>1, Invariance, PTL

\* file.py:30-37: "absent" is reported only if nothing matched at a moment of the check, or a
\* name that glob returned was missing or dangling at one; whether others stay, however many
\* there are, and in whatever order they are statted.
THEOREM AbsentExplainedHolds == Spec => []AbsentExplained
<1>1. IInv => AbsentExplained
  BY DEF IInv
<1> QED
  BY <1>1, Invariance, PTL

\* file.py:29-32: of files that do not change during the check, the oldest one's age
\* is reported, however many there are and whatever comparisons the sort makes.
THEOREM OldestReportedHolds == Spec => []OldestReported
<1>1. IInv => OldestReported
  BY DEF IInv
<1> QED
  BY <1>1, Invariance, PTL

\* file.py:18-21: two events of a path in a row never say the same, however many
\* instances share the path.
THEOREM EventsAlternateHold == Spec => []EventsAlternate
<1>1. IInv => EventsAlternate
  BY DEF IInv
<1> QED
  BY <1>1, Invariance, PTL
=============================================================================
