-------------------------- MODULE StormCacheProofs --------------------------
(***************************************************************************)
(* What is proved of module StormCache, for every number of instances,     *)
(* overlapping runs, files, staleness and fetch duration: the inductive    *)
(* invariant IInv, and from it the invariants that TLC checks on small     *)
(* instances.                                                              *)
(***************************************************************************)
EXTENDS StormCache, TLAPS

LEMMA InitIInv == Init => IInv
<1> SUFFICES ASSUME Init PROVE IInv
  OBVIOUS
<1> USE CountsAssumption, FilesAssumption, WritersAssumption DEF Init, Inst
<1>1. TypeOK
  <2>1. NoEntry \in Entry
    BY DEF NoEntry, Entry
  <2>2. cache \in [Files -> Content]
    BY <2>1 DEF Content
  <2>3. report \in [Inst -> Outcome]
    BY DEF Outcome
  <2>4. /\ now \in Nat /\ api \in [Inst -> {"up", "down", "bad"}] /\ faults \in Nat
        /\ pc \in [Writers -> {"idle", "loop", "fetch", "write", "close"}]
        /\ idx \in [Writers -> 1..(N + 1)] /\ first \in [Writers -> Nat]
        /\ entry \in [Writers -> Entry] /\ crashes \in Nat
        /\ checking \in 0..N /\ loaded \in Entry
    BY <2>1
  <2>5. opened \in BOOLEAN
    OBVIOUS
  <2> QED
    BY <2>2, <2>3, <2>4, <2>5 DEF TypeOK
<1>2. RunOK /\ CacheOK /\ CheckOK
  BY DEF RunOK, CacheOK, CheckOK, EntryOK, NoEntry
<1>3. FreshReport /\ OwnReport
  BY DEF FreshReport, OwnReport
<1> QED
  BY <1>1, <1>2, <1>3 DEF IInv

\* The values the actions put in a variable have its type.
LEMMA NoEntryType == NoEntry \in Entry
BY CountsAssumption DEF NoEntry, Entry, Inst

LEMMA ContentType ==
  ASSUME NEW w \in Writers, NEW e \in Entry
  PROVE  Torn(w) \in Content /\ Readable(e) \in Content
BY NoEntryType DEF Torn, Readable, Content

LEMMA LettingGoType ==
  ASSUME NEW c \in Content PROVE [c EXCEPT !.holder = Nobody] \in Content
BY DEF Content

LEMMA TickIInv == IInv /\ Tick => IInv'
<1> SUFFICES ASSUME IInv, Tick PROVE IInv'
  OBVIOUS
<1> USE CountsAssumption DEF IInv, Tick, runVars, agentVars
<1>1. TypeOK'
  BY DEF TypeOK
<1>2. RunOK'
  BY DEF TypeOK, RunOK, EntryOK, Entry, HasFile
<1>3. CacheOK'
  BY DEF TypeOK, CacheOK, EntryOK, Entry, Content
<1>4. CheckOK'
  BY DEF TypeOK, CheckOK, EntryOK, Entry
<1>5. FreshReport' /\ OwnReport'
  BY DEF FreshReport, OwnReport
<1> QED
  BY <1>1, <1>2, <1>3, <1>4, <1>5 DEF IInv

LEMMA ApiIInv == ASSUME IInv, NEW i \in Inst, ApiFails(i) \/ ApiRecovers(i) PROVE IInv'
<1> USE CountsAssumption, FilesAssumption, WritersAssumption
    DEF IInv, ApiFails, ApiRecovers, envVars, runVars, agentVars
<1>1. TypeOK'
  BY FaultsAssumption DEF TypeOK
<1>2. RunOK'
  BY DEF TypeOK, RunOK, EntryOK, HasFile
<1>3. CacheOK'
  BY DEF TypeOK, CacheOK, EntryOK
<1>4. CheckOK'
  BY DEF TypeOK, CheckOK, EntryOK
<1>5. FreshReport' /\ OwnReport'
  BY DEF TypeOK, FreshReport, OwnReport
<1> QED
  BY <1>1, <1>2, <1>3, <1>4, <1>5 DEF IInv

LEMMA StartRunIInv == ASSUME IInv, NEW w \in Writers, StartRun(w) PROVE IInv'
<1> USE CountsAssumption, FilesAssumption, WritersAssumption
    DEF IInv, StartRun, Goto, envVars, runVars, agentVars
<1>1. TypeOK'
  BY DEF TypeOK, Inst
<1>2. RunOK'
  BY DEF TypeOK, RunOK, EntryOK, HasFile
<1>3. CacheOK'
  BY DEF TypeOK, CacheOK, EntryOK, Content
<1>4. CheckOK'
  BY DEF TypeOK, CheckOK, EntryOK
<1>5. FreshReport' /\ OwnReport'
  BY DEF TypeOK, FreshReport, OwnReport
<1> QED
  BY <1>1, <1>2, <1>3, <1>4, <1>5 DEF IInv

LEMMA SkipInstanceIInv == ASSUME IInv, NEW w \in Writers, SkipInstance(w) PROVE IInv'
<1> USE CountsAssumption, FilesAssumption, WritersAssumption
    DEF IInv, SkipInstance, Inst, envVars, runVars, agentVars
<1>1. TypeOK'
  BY DEF TypeOK, Inst
<1>2. RunOK'
  BY DEF TypeOK, RunOK, EntryOK, HasFile
<1>3. CacheOK'
  BY DEF TypeOK, CacheOK, EntryOK, Content
<1>4. CheckOK'
  BY DEF TypeOK, CheckOK, EntryOK
<1>5. FreshReport' /\ OwnReport'
  BY DEF TypeOK, FreshReport, OwnReport
<1> QED
  BY <1>1, <1>2, <1>3, <1>4, <1>5 DEF IInv

LEMMA EndRunIInv == ASSUME IInv, NEW w \in Writers, EndRun(w) PROVE IInv'
<1> USE CountsAssumption, FilesAssumption, WritersAssumption
    DEF IInv, EndRun, Exit, Goto, envVars, runVars, agentVars
<1>1. TypeOK'
  BY NoEntryType DEF TypeOK
<1>2. RunOK'
  BY DEF TypeOK, RunOK, EntryOK, HasFile, NoEntry
<1>3. CacheOK'
  BY DEF TypeOK, CacheOK, EntryOK, Content
<1>4. CheckOK'
  BY DEF TypeOK, CheckOK, EntryOK
<1>5. FreshReport' /\ OwnReport'
  BY DEF TypeOK, FreshReport, OwnReport
<1> QED
  BY <1>1, <1>2, <1>3, <1>4, <1>5 DEF IInv

LEMMA GetClusterIInv == ASSUME IInv, NEW w \in Writers, GetCluster(w) PROVE IInv'
<1> USE CountsAssumption, FilesAssumption, WritersAssumption
    DEF IInv, GetCluster, Goto, envVars, runVars, agentVars
<1>1. TypeOK'
  BY DEF TypeOK, Inst
<1>2. RunOK'
  BY DEF TypeOK, RunOK, EntryOK, HasFile, Inst
<1>3. CacheOK'
  BY DEF TypeOK, CacheOK, EntryOK, Content
<1>4. CheckOK'
  BY DEF TypeOK, CheckOK, EntryOK
<1>5. FreshReport' /\ OwnReport'
  BY DEF TypeOK, FreshReport, OwnReport
<1> QED
  BY <1>1, <1>2, <1>3, <1>4, <1>5 DEF IInv

LEMMA GetFailedIInv == ASSUME IInv, NEW w \in Writers, GetFailed(w) PROVE IInv'
<1> USE CountsAssumption, FilesAssumption, WritersAssumption
    DEF IInv, GetFailed, Goto, envVars, runVars, agentVars
<1>0. HasFile(w) /\ [inst |-> idx[w], status |-> "error", updated |-> now, oldest |-> now] \in Entry
  BY DEF TypeOK, HasFile, Entry
<1>1. TypeOK'
  BY <1>0 DEF TypeOK
<1>2. RunOK'
  BY <1>0 DEF TypeOK, RunOK, EntryOK, HasFile
<1>3. CacheOK'
  BY DEF TypeOK, CacheOK, EntryOK, Content
<1>4. CheckOK'
  BY DEF TypeOK, CheckOK, EntryOK
<1>5. FreshReport' /\ OwnReport'
  BY DEF TypeOK, FreshReport, OwnReport
<1> QED
  BY <1>1, <1>2, <1>3, <1>4, <1>5 DEF IInv

LEMMA GetRestIInv == ASSUME IInv, NEW w \in Writers, GetRest(w) PROVE IInv'
<1> USE CountsAssumption, FilesAssumption, WritersAssumption
    DEF IInv, GetRest, Goto, envVars, runVars, agentVars
<1>0. HasFile(w) /\ StampedSuccess(w) \in Entry
  BY DEF TypeOK, RunOK, HasFile, StampedSuccess, Entry
<1>1. TypeOK'
  BY <1>0 DEF TypeOK
<1>2. RunOK'
  BY DEF TypeOK, RunOK, EntryOK, HasFile, StampedSuccess, Inst
<1>3. CacheOK'
  BY DEF TypeOK, CacheOK, EntryOK, Content
<1>4. CheckOK'
  BY DEF TypeOK, CheckOK, EntryOK
<1>5. FreshReport' /\ OwnReport'
  BY DEF TypeOK, FreshReport, OwnReport
<1> QED
  BY <1>1, <1>2, <1>3, <1>4, <1>5 DEF IInv

LEMMA AbortIInv == ASSUME IInv, NEW w \in Writers, Abort(w) PROVE IInv'
<1> USE CountsAssumption, FilesAssumption, WritersAssumption
    DEF IInv, Abort, Exit, Goto, envVars, runVars, agentVars
<1>1. TypeOK'
  BY NoEntryType DEF TypeOK
<1>2. RunOK'
  BY DEF TypeOK, RunOK, EntryOK, HasFile, NoEntry
<1>3. CacheOK'
  BY DEF TypeOK, CacheOK, EntryOK, Content
<1>4. CheckOK'
  BY DEF TypeOK, CheckOK, EntryOK
<1>5. FreshReport' /\ OwnReport'
  BY DEF TypeOK, FreshReport, OwnReport
<1> QED
  BY <1>1, <1>2, <1>3, <1>4, <1>5 DEF IInv

LEMMA RenameIInv == ASSUME IInv, NEW w \in Writers, Rename(w) PROVE IInv'
<1> USE CountsAssumption, FilesAssumption, WritersAssumption
    DEF IInv, Rename, Goto, envVars, runVars, agentVars
<1>0. HasFile(w) /\ Torn(w) \in Content
  BY ContentType, NoEntryType DEF TypeOK, RunOK
<1>1. TypeOK'
  BY <1>0 DEF TypeOK
<1>2. RunOK'
  BY DEF TypeOK, RunOK, EntryOK, HasFile, Inst
<1>3. CacheOK'
  BY DEF TypeOK, CacheOK, EntryOK, Torn, Content, NoEntry, HasFile, RunOK
<1>4. CheckOK'
  BY DEF TypeOK, CheckOK, EntryOK
<1>5. FreshReport' /\ OwnReport'
  BY DEF TypeOK, FreshReport, OwnReport
<1> QED
  BY <1>1, <1>2, <1>3, <1>4, <1>5 DEF IInv

LEMMA CloseIInv == ASSUME IInv, NEW w \in Writers, Close(w) PROVE IInv'
<1> USE CountsAssumption, FilesAssumption, WritersAssumption
    DEF IInv, Close, Goto, envVars, runVars, agentVars
<1>0. HasFile(w) /\ Readable(entry[w]) \in Content
  BY ContentType DEF TypeOK, RunOK
<1>1. TypeOK'
  BY <1>0, NoEntryType DEF TypeOK, HasFile, Inst
<1>2. RunOK'
  BY DEF TypeOK, RunOK, EntryOK, HasFile, NoEntry
<1>3. CacheOK'
  BY DEF TypeOK, CacheOK, EntryOK, Readable, RunOK, HasFile, Inst
<1>4. CheckOK'
  BY DEF TypeOK, CheckOK, EntryOK
<1>5. FreshReport' /\ OwnReport'
  BY DEF TypeOK, FreshReport, OwnReport
<1> QED
  BY <1>1, <1>2, <1>3, <1>4, <1>5 DEF IInv

LEMMA CrashIInv == ASSUME IInv, NEW w \in Writers, Crash(w) PROVE IInv'
<1> USE CountsAssumption, FilesAssumption, WritersAssumption
    DEF IInv, Crash, Exit, Goto, envVars, runVars, agentVars
<1>1. TypeOK'
  BY NoEntryType, LettingGoType DEF TypeOK
<1>2. RunOK'
  BY DEF TypeOK, RunOK, EntryOK, HasFile, NoEntry
<1>3. CacheOK'
  BY DEF TypeOK, CacheOK, EntryOK, Content
<1>4. CheckOK'
  BY DEF TypeOK, CheckOK, EntryOK
<1>5. FreshReport' /\ OwnReport'
  BY DEF TypeOK, FreshReport, OwnReport
<1> QED
  BY <1>1, <1>2, <1>3, <1>4, <1>5 DEF IInv

LEMMA CheckStartIInv == ASSUME IInv, NEW i \in Inst, CheckStart(i) PROVE IInv'
<1> USE CountsAssumption, FilesAssumption, WritersAssumption
    DEF IInv, CheckStart, envVars, runVars, agentVars
<1>1. TypeOK'
  BY DEF TypeOK, Content, Inst
<1>2. RunOK'
  BY DEF TypeOK, RunOK, EntryOK, HasFile
<1>3. CacheOK'
  BY DEF TypeOK, CacheOK, EntryOK
<1>4. CheckOK'
  BY DEF TypeOK, CheckOK, EntryOK, Inst
<1>5. FreshReport' /\ OwnReport'
  BY DEF TypeOK, FreshReport, OwnReport
<1> QED
  BY <1>1, <1>2, <1>3, <1>4, <1>5 DEF IInv

LEMMA CheckRaisesIInv == ASSUME IInv, CheckRaises PROVE IInv'
<1> USE CountsAssumption, FilesAssumption, WritersAssumption
    DEF IInv, CheckRaises, envVars, runVars, agentVars
<1>1. TypeOK'
  BY DEF TypeOK, Content, Inst
<1>2. RunOK'
  BY DEF TypeOK, RunOK, EntryOK, HasFile
<1>3. CacheOK'
  BY DEF TypeOK, CacheOK, EntryOK
<1>4. CheckOK'
  BY DEF TypeOK, CheckOK, EntryOK, Inst
<1>5. FreshReport' /\ OwnReport'
  BY DEF TypeOK, FreshReport, OwnReport
<1> QED
  BY <1>1, <1>2, <1>3, <1>4, <1>5 DEF IInv

LEMMA CheckLoadIInv == ASSUME IInv, CheckLoad PROVE IInv'
<1> USE CountsAssumption, FilesAssumption, WritersAssumption
    DEF IInv, CheckLoad, CanLoad, envVars, runVars, agentVars
<1>1. TypeOK'
  BY DEF TypeOK, Content, Inst
<1>2. RunOK'
  BY DEF TypeOK, RunOK, EntryOK, HasFile
<1>3. CacheOK'
  BY DEF TypeOK, CacheOK, EntryOK
<1>4. CheckOK'
  BY UniqueAssumption DEF TypeOK, CheckOK, EntryOK, CacheOK, Content, Entry, Inst
<1>5. FreshReport' /\ OwnReport'
  BY DEF TypeOK, FreshReport, OwnReport
<1> QED
  BY <1>1, <1>2, <1>3, <1>4, <1>5 DEF IInv

LEMMA CheckReportIInv == ASSUME IInv, CheckReport PROVE IInv'
<1> USE CountsAssumption, FilesAssumption, WritersAssumption
    DEF IInv, CheckReport, ReportOf, FreshEnough, NoEntry, envVars, runVars, agentVars
<1>0. ReportOf(loaded) \in Outcome
  BY DEF TypeOK, CheckOK, EntryOK, Outcome, Entry
<1>1. TypeOK'
  <2>1. loaded' \in Entry
    BY NoEntryType DEF NoEntry
  <2>2. report' \in [Inst -> Outcome]
    BY <1>0 DEF TypeOK
  <2>3. checking' \in 0..N
    OBVIOUS
  <2>4. opened' \in BOOLEAN
    OBVIOUS
  <2> QED
    BY <2>1, <2>2, <2>3, <2>4 DEF TypeOK
<1>2. RunOK'
  BY DEF TypeOK, RunOK, EntryOK, HasFile
<1>3. CacheOK'
  BY DEF TypeOK, CacheOK, EntryOK
<1>4. CheckOK'
  BY DEF TypeOK, CheckOK, EntryOK, Inst
<1>5. FreshReport' /\ OwnReport'
  BY DEF TypeOK, FreshReport, OwnReport, CheckOK, EntryOK, Entry
<1> QED
  BY <1>1, <1>2, <1>3, <1>4, <1>5 DEF IInv

LEMMA StutterIInv == IInv /\ UNCHANGED vars => IInv'
BY DEF vars, IInv, TypeOK, RunOK, HasFile, CacheOK, CheckOK, EntryOK, FreshReport, OwnReport

\* No step of a run, of the agent or of the environment breaks IInv.
LEMMA NextIInv == IInv /\ [Next]_vars => IInv'
<1> SUFFICES ASSUME IInv, [Next]_vars PROVE IInv'
  OBVIOUS
<1>1. CASE Tick
  BY <1>1, TickIInv
<1>2. ASSUME NEW i \in Inst, ApiFails(i) \/ ApiRecovers(i) \/ CheckStart(i) PROVE IInv'
  BY <1>2, ApiIInv, CheckStartIInv
<1>3. ASSUME NEW w \in Writers, StartRun(w) \/ RunStep(w) \/ Crash(w) PROVE IInv'
  BY <1>3, StartRunIInv, SkipInstanceIInv, EndRunIInv, GetClusterIInv, GetFailedIInv,
     GetRestIInv, AbortIInv, RenameIInv, CloseIInv, CrashIInv DEF RunStep
<1>4. CASE CheckStep
  BY <1>4, CheckRaisesIInv, CheckLoadIInv, CheckReportIInv DEF CheckStep
<1>5. CASE UNCHANGED vars
  BY <1>5, StutterIInv
<1> QED
  BY <1>1, <1>2, <1>3, <1>4, <1>5 DEF Next

\* IInv holds in every reachable state.
THEOREM Invariance == Spec => []IInv
BY InitIInv, NextIInv, PTL DEF Spec

\* The variables keep their types.
THEOREM TypeCorrect == Spec => []TypeOK
<1>1. IInv => TypeOK
  BY DEF IInv
<1> QED
  BY <1>1, Invariance, PTL

\* An OK of the check never rests on a reply as old as cache_staleness plus the
\* longest fetch, whatever the number of overlapping runs and kills.
THEOREM FreshReportHolds == Spec => []FreshReport
<1>1. IInv => FreshReport
  BY DEF IInv
<1> QED
  BY <1>1, Invariance, PTL

\* A check reports on its own instance only, whatever runs interleave.
THEOREM OwnReportHolds == Spec => []OwnReport
<1>1. IInv => OwnReport
  BY DEF IInv
<1> QED
  BY <1>1, Invariance, PTL

\* A torn cache file is between the rename and the close of a live run, or a run
\* was killed.
THEOREM TornExplainedHolds == Spec => []TornExplained
<1>1. IInv => TornExplained
  BY WritersAssumption DEF IInv, TypeOK, RunOK, HasFile, CacheOK, Content, TornExplained
<1> QED
  BY <1>1, Invariance, PTL
=============================================================================
