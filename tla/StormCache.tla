----------------------------- MODULE StormCache -----------------------------
(***************************************************************************)
(* The Storm pipeline: scripts/cache-storm-data, started by cron, asks the *)
(* REST API of every configured Storm instance for its state and leaves    *)
(* the answer in that instance's cache file; checks.d/storm_rest_api.py,   *)
(* run by the agent, reads the file and reports metrics and a service      *)
(* check.  Nothing but the file connects the two, and nothing stops cron   *)
(* from starting a run while the previous one is still fetching.           *)
(*                                                                         *)
(* What a cache file holds is abstracted to an entry: the instance it was  *)
(* fetched from, its status, its "updated" stamp, and the time of the      *)
(* oldest reply in it.  (The stamp is in the file; the age of the oldest   *)
(* reply is not, and it is what "out of date" means to a reader.)          *)
(***************************************************************************)
EXTENDS Naturals

CONSTANTS
  N,          \* number of entries of "instances:" in the shared config file
  Writers,    \* slots for runs of the script that may overlap
  Files,      \* cache file paths
  NoFile,     \* an instance whose cache_file is None
  Nobody,     \* the holder of a file that no live run has open
  CacheFile,  \* the cache_file of each instance
  Staleness,  \* cache_staleness
  MaxFetch,   \* environment: longest time from a run's first GET to its last
  Faults,     \* the ways an API may misbehave, a subset of {"down", "bad"}
  MaxTime,    \* bound on the clock
  MaxFaults,  \* bound on how often an API starts to misbehave
  MaxCrashes  \* bound on how often a run is killed

Inst == 1..N

ASSUME CountsAssumption == /\ N \in Nat \ {0}
                           /\ Staleness \in Nat \ {0}
                           /\ MaxFetch \in Nat
                           /\ MaxTime \in Nat
                           /\ MaxFaults \in Nat
                           /\ MaxCrashes \in Nat
ASSUME FilesAssumption == /\ NoFile \notin Files
                          /\ CacheFile \in [Inst -> Files \union {NoFile}]
ASSUME WritersAssumption == Nobody \notin Writers
ASSUME FaultsAssumption == Faults \subseteq {"down", "bad"}
\* "Each cache file must be unique to each instance."
ASSUME UniqueAssumption ==
  \A i, j \in Inst : (CacheFile[i] = CacheFile[j] /\ CacheFile[i] # NoFile) => i = j

VARIABLES
  now,       \* the clock both programs read with time.time()
  api,       \* how the REST API of each instance behaves
  faults,    \* how often an API started to misbehave
  pc,        \* where each run of the script is
  idx,       \* its loop variable: the instance it is at
  first,     \* when it sent the first GET of that instance
  entry,     \* its local variable cached
  crashes,   \* how often a run was killed
  cache,     \* the cache files
  checking,  \* the instance the agent is checking, 0 when it is at none
  opened,    \* whether that check has read its cache file
  loaded,    \* what json.load returned to that check
  report     \* the last service check of each instance

envVars == <<now, api, faults>>
runVars == <<pc, idx, first, entry, crashes, cache>>
agentVars == <<checking, opened, loaded, report>>
vars == <<now, api, faults, pc, idx, first, entry, crashes, cache,
          checking, opened, loaded, report>>

Entry == [inst : Inst, status : {"success", "error"}, updated : Nat, oldest : Nat]
Content == [state : {"absent", "partial", "complete"}, entry : Entry,
            holder : Writers \union {Nobody}]
Outcome == [status : {"none", "ok", "unreachable", "stale"},
            from : Inst, age : Nat]

NoEntry == [inst |-> 1, status |-> "error", updated |-> 0, oldest |-> 0]

Init ==
  /\ now = 0
  /\ api = [i \in Inst |-> "up"]
  /\ faults = 0
  /\ pc = [w \in Writers |-> "idle"]
  /\ idx = [w \in Writers |-> 1]
  /\ first = [w \in Writers |-> 0]
  /\ entry = [w \in Writers |-> NoEntry]
  /\ crashes = 0
  /\ cache = [f \in Files |-> [state |-> "absent", entry |-> NoEntry, holder |-> Nobody]]
  /\ checking = 0
  /\ opened = FALSE
  /\ loaded = NoEntry
  /\ report = [i \in Inst |-> [status |-> "none", from |-> i, age |-> 0]]

-----------------------------------------------------------------------------
(* The environment.                                                        *)

\* Time passes, also while a run is suspended between two statements; only a
\* fetch is assumed to be over within MaxFetch (every GET has a timeout).
Tick ==
  /\ now < MaxTime
  /\ \A w \in Writers : pc[w] = "fetch" => now < first[w] + MaxFetch
  /\ now' = now + 1
  /\ UNCHANGED <<api, faults, runVars, agentVars>>

\* The API of instance i starts to misbehave: it refuses or exceeds the timeout
\* ("down"), or answers with JSON of another shape than the script expects ("bad").
ApiFails(i) ==
  /\ faults < MaxFaults
  /\ api[i] = "up"
  /\ \E how \in Faults : api' = [api EXCEPT ![i] = how]
  /\ faults' = faults + 1
  /\ UNCHANGED <<now, runVars, agentVars>>

ApiRecovers(i) ==
  /\ api[i] # "up"
  /\ api' = [api EXCEPT ![i] = "up"]
  /\ UNCHANGED <<now, faults, runVars, agentVars>>

-----------------------------------------------------------------------------
(* A run of the script.                                                    *)

HasFile(w) == idx[w] \in Inst /\ CacheFile[idx[w]] # NoFile

Goto(w, label) == pc' = [pc EXCEPT ![w] = label]

\* The process ends; its locals are gone.
Exit(w) == /\ Goto(w, "idle")
           /\ idx' = [idx EXCEPT ![w] = 1]
           /\ first' = [first EXCEPT ![w] = 0]
           /\ entry' = [entry EXCEPT ![w] = NoEntry]

\* A variant: the script stays away while a cache file is torn, as behind a lock.
StartRunUnlessTorn(w) ==
  /\ pc[w] = "idle"
  /\ \A f \in Files : cache[f].state # "partial"
  /\ Goto(w, "loop")
  /\ UNCHANGED <<envVars, idx, first, entry, crashes, cache, agentVars>>

\* cron starts the script; StormCache(sys.argv[1]).run()
StartRun(w) ==
  /\ pc[w] = "idle"
  /\ Goto(w, "loop")
  /\ UNCHANGED <<envVars, idx, first, entry, crashes, cache, agentVars>>

\* "if config.cache_file is None: continue"
SkipInstance(w) ==
  /\ pc[w] = "loop"
  /\ idx[w] \in Inst /\ CacheFile[idx[w]] = NoFile
  /\ idx' = [idx EXCEPT ![w] = idx[w] + 1]
  /\ UNCHANGED <<envVars, pc, first, entry, crashes, cache, agentVars>>

EndRun(w) ==
  /\ pc[w] = "loop"
  /\ idx[w] = N + 1
  /\ Exit(w)
  /\ UNCHANGED <<envVars, crashes, cache, agentVars>>

\* The first GET of cache_one, of the cluster summary, is answered.
GetCluster(w) ==
  /\ pc[w] = "loop" /\ HasFile(w)
  /\ api[idx[w]] # "down"
  /\ first' = [first EXCEPT ![w] = now]
  /\ Goto(w, "fetch")
  /\ UNCHANGED <<envVars, idx, entry, crashes, cache, agentVars>>

\* Whichever GET of cache_one fails, what was fetched before is dropped.
GetFailed(w) ==
  /\ pc[w] \in {"loop", "fetch"} /\ HasFile(w)
  /\ api[idx[w]] = "down"
  /\ entry' = [entry EXCEPT ![w] = [inst |-> idx[w], status |-> "error",
                                    updated |-> now, oldest |-> now]]
  /\ first' = [first EXCEPT ![w] = 0]
  /\ Goto(w, "write")
  /\ UNCHANGED <<envVars, idx, crashes, cache, agentVars>>

\* The last GET is answered: the stamp is taken now, the oldest reply is the first.
\* (Module StormSnapshot has the GETs in between.)
StampedSuccess(w) == [inst |-> idx[w], status |-> "success",
                      updated |-> now, oldest |-> first[w]]

GetRest(w) ==
  /\ pc[w] = "fetch"
  /\ api[idx[w]] = "up"
  /\ entry' = [entry EXCEPT ![w] = StampedSuccess(w)]
  /\ first' = [first EXCEPT ![w] = 0]
  /\ Goto(w, "write")
  /\ UNCHANGED <<envVars, idx, crashes, cache, agentVars>>

\* A reply of another shape (no 'topologies', a null 'spouts') raises TypeError
\* or KeyError, which cache_one does not catch: the whole run ends.
Abort(w) ==
  /\ pc[w] = "fetch"
  /\ api[idx[w]] = "bad"
  /\ Exit(w)
  /\ UNCHANGED <<envVars, crashes, cache, agentVars>>

\* A cache file that json.load can parse, and one whose tail is not written.
Readable(e) == [state |-> "complete", entry |-> e, holder |-> Nobody]
Torn(w) == [state |-> "partial", entry |-> NoEntry, holder |-> w]

\* A variant: the path is computed once, before the loop.
RenameToFirst(w) ==
  /\ pc[w] = "write"
  /\ cache' = [cache EXCEPT ![CacheFile[1]] = Torn(w)]
  /\ Goto(w, "close")
  /\ UNCHANGED <<envVars, idx, first, entry, crashes, agentVars>>

\* A variant: a cache file that exists is left alone.
RenameIfAbsent(w) ==
  /\ pc[w] = "write"
  /\ cache' = [cache EXCEPT ![CacheFile[idx[w]]] =
                 IF @.state = "absent" THEN Torn(w) ELSE @]
  /\ Goto(w, "close")
  /\ UNCHANGED <<envVars, idx, first, entry, crashes, agentVars>>

\* json.dump to the temporary file and os.rename over the cache file.  The
\* temporary file is still open and its last buffer is not flushed.
Rename(w) ==
  /\ pc[w] = "write"
  /\ cache' = [cache EXCEPT ![CacheFile[idx[w]]] = Torn(w)]
  /\ Goto(w, "close")
  /\ UNCHANGED <<envVars, idx, first, entry, crashes, agentVars>>

\* A variant: no with block, the file is never closed.
CloseNothing(w) ==
  /\ pc[w] = "close"
  /\ idx' = [idx EXCEPT ![w] = idx[w] + 1]
  /\ entry' = [entry EXCEPT ![w] = NoEntry]
  /\ Goto(w, "loop")
  /\ UNCHANGED <<envVars, first, crashes, cache, agentVars>>

\* Leaving the with block closes the file the run opened, which by now may no
\* longer be the one the path names; then the next instance.
Close(w) ==
  /\ pc[w] = "close"
  /\ cache' = [f \in Files |-> IF cache[f].holder = w
                               THEN Readable(entry[w])
                               ELSE cache[f]]
  /\ idx' = [idx EXCEPT ![w] = idx[w] + 1]
  /\ entry' = [entry EXCEPT ![w] = NoEntry]
  /\ Goto(w, "loop")
  /\ UNCHANGED <<envVars, first, crashes, agentVars>>

\* The run is killed (or the host restarts); what is not flushed is lost.
Crash(w) ==
  /\ crashes < MaxCrashes
  /\ pc[w] # "idle"
  /\ crashes' = crashes + 1
  /\ Exit(w)
  /\ cache' = [f \in Files |-> IF cache[f].holder = w
                               THEN [cache[f] EXCEPT !.holder = Nobody]
                               ELSE cache[f]]
  /\ UNCHANGED <<envVars, agentVars>>

-----------------------------------------------------------------------------
(* The agent's check.  The runner catches what check() raises.             *)

CheckStart(i) ==
  /\ checking = 0
  /\ checking' = i
  /\ UNCHANGED <<envVars, runVars, opened, loaded, report>>

CanLoad(i) == CacheFile[i] # NoFile /\ cache[CacheFile[i]].state = "complete"

\* instance_config raises without a cache_file; open and json.load raise when the
\* file is missing or torn.  No service check is sent then: the last one stays.
CheckRaises ==
  /\ checking \in Inst /\ ~opened /\ ~CanLoad(checking)
  /\ checking' = 0
  /\ UNCHANGED <<envVars, runVars, opened, loaded, report>>

CheckLoad ==
  /\ checking \in Inst /\ ~opened /\ CanLoad(checking)
  /\ opened' = TRUE
  /\ loaded' = cache[CacheFile[checking]].entry
  /\ UNCHANGED <<envVars, runVars, checking, report>>

\* A variant: an entry exactly as old as cache_staleness still passes.
FreshEnoughInclusive(e) == e.updated + Staleness >= now

\* details['updated'] > time.time() - config.cache_staleness
FreshEnough(e) == e.updated + Staleness > now

ReportOf(e) == [status |-> IF e.status # "success" THEN "unreachable"
                           ELSE IF FreshEnough(e) THEN "ok" ELSE "stale",
                from |-> e.inst, age |-> now - e.oldest]

CheckReport ==
  /\ checking \in Inst /\ opened
  /\ report' = [report EXCEPT ![checking] = ReportOf(loaded)]
  /\ checking' = 0
  /\ opened' = FALSE
  /\ loaded' = NoEntry
  /\ UNCHANGED <<envVars, runVars>>

-----------------------------------------------------------------------------
RunStep(w) == \/ SkipInstance(w) \/ EndRun(w) \/ GetCluster(w) \/ GetFailed(w)
              \/ GetRest(w) \/ Abort(w) \/ Rename(w) \/ Close(w)

CheckStep == CheckRaises \/ CheckLoad \/ CheckReport

Next ==
  \/ Tick
  \/ \E i \in Inst : ApiFails(i) \/ ApiRecovers(i) \/ CheckStart(i)
  \/ \E w \in Writers : StartRun(w) \/ RunStep(w) \/ Crash(w)
  \/ CheckStep

Spec == Init /\ [][Next]_vars

\* cron starts the script again and again, at least when no run of it is left; a
\* started run is scheduled and its GETs end by answer or by timeout; the agent checks
\* every instance again and again, and a check goes on.  Nothing is assumed of the APIs or of
\* the order of the two programs: every check may come just when its file is torn.
Alone(w) == \A v \in Writers \ {w} : pc[v] = "idle"

Fairness == /\ WF_vars(\E w \in Writers : Alone(w) /\ StartRun(w))
            /\ \A w \in Writers : WF_vars(RunStep(w))
            /\ \A i \in Inst : SF_vars(CheckStart(i))
            /\ WF_vars(CheckStep)

FairSpec == Spec /\ Fairness

-----------------------------------------------------------------------------
\* Types of the variables.
TypeOK ==
  /\ now \in Nat
  /\ api \in [Inst -> {"up", "down", "bad"}]
  /\ faults \in Nat
  /\ pc \in [Writers -> {"idle", "loop", "fetch", "write", "close"}]
  /\ idx \in [Writers -> 1..(N + 1)]
  /\ first \in [Writers -> Nat]
  /\ entry \in [Writers -> Entry]
  /\ crashes \in Nat
  /\ cache \in [Files -> Content]
  /\ checking \in 0..N
  /\ opened \in BOOLEAN
  /\ loaded \in Entry
  /\ report \in [Inst -> Outcome]

\* An OK service check, and the metrics sent with it, never rest on a reply older
\* than cache_staleness plus the duration of one fetch: not when runs overlap and
\* an older one wins, not when a run sleeps before its rename, not when the check
\* sleeps between json.load and the comparison (storm_rest_api.py:104-116).
FreshReport ==
  \A i \in Inst : report[i].status = "ok" =>
    report[i].age < Staleness + MaxFetch

\* Whatever a check reports about an instance was fetched from that instance,
\* however the loops of several runs interleave on the cache files.
OwnReport == \A i \in Inst : report[i].from = i

\* A cache file is torn only between the rename and the close of the run that
\* renamed it, or because a run was killed there: no other interleaving of
\* overlapping runs leaves a path that cannot be parsed (cache-storm-data:140-142).
TornExplained ==
  \A f \in Files : cache[f].state = "partial" =>
    \/ cache[f].holder = Nobody /\ crashes > 0
    \/ \E w \in Writers : /\ cache[f].holder = w /\ pc[w] = "close"
                          /\ idx[w] \in Inst /\ CacheFile[idx[w]] = f

\* An unexpected reply of an instance ends the run before it comes to the later ones;
\* one that is down does not.
Reached(i) == \A j \in 1..(i - 1) : CacheFile[j] # NoFile => <>[](api[j] # "bad")

\* If runs end up one at a time, the cache file of an API that answers for good is
\* readable and holds a success again and again, also after a kill that left it
\* torn, unless an earlier instance ends the runs.  (Of runs that overlap for ever
\* each may close a file that the other has already replaced.)
CacheRecovers ==
  <>[](\A v, w \in Writers : pc[v] # "idle" /\ pc[w] # "idle" => v = w) =>
    \A i \in Inst : CacheFile[i] # NoFile /\ <>[](api[i] = "up") /\ Reached(i) =>
      []<>(/\ cache[CacheFile[i]].state = "complete"
           /\ cache[CacheFile[i]].entry.status = "success")

\* Once an API answers for good, the CRITICAL "Could not connect to URL" of its
\* instance goes away and stays away, through script, file and check, however runs
\* overlap, unless an earlier instance ends the runs, or from some time on every check
\* of it finds the file torn and raises: the CRITICAL that was sent last then stays
\* (storm_rest_api.py:104-105).
UnreachableClears ==
  \A i \in Inst : CacheFile[i] # NoFile /\ <>[](api[i] = "up") /\ Reached(i) =>
    \/ <>[](report[i].status # "unreachable")
    \/ <>[]~(checking = i /\ opened)

-----------------------------------------------------------------------------
(* Why the invariants hold: what is true of an entry wherever it is, in a  *)
(* run, in a file, or in a check; and who may hold a torn file.            *)

EntryOK(e) == /\ e.oldest <= e.updated /\ e.updated <= now
              /\ e.updated <= e.oldest + MaxFetch

\* A run past the skip has a file, its fetch is not over time, and what it is
\* about to write is of the instance it is at.
RunOK ==
  \A w \in Writers :
    /\ pc[w] \in {"fetch", "write", "close"} => HasFile(w)
    /\ pc[w] = "fetch" => first[w] <= now /\ now <= first[w] + MaxFetch
    /\ pc[w] \in {"write", "close"} => entry[w].inst = idx[w]
    /\ EntryOK(entry[w])

\* A readable file is of its instance; a torn one is held by a run at its close,
\* or a run was killed.
CacheOK ==
  \A f \in Files :
    /\ EntryOK(cache[f].entry)
    /\ cache[f].state = "complete" => CacheFile[cache[f].entry.inst] = f
    /\ cache[f].state = "partial" /\ cache[f].holder = Nobody => crashes > 0
    /\ cache[f].holder # Nobody => /\ cache[f].state = "partial"
                                   /\ pc[cache[f].holder] = "close"
                                   /\ CacheFile[idx[cache[f].holder]] = f

\* What a check has loaded is of the instance it checks.
CheckOK == EntryOK(loaded) /\ (opened => checking \in Inst /\ loaded.inst = checking)

\* The inductive invariant.
IInv == TypeOK /\ RunOK /\ CacheOK /\ CheckOK /\ FreshReport /\ OwnReport

-----------------------------------------------------------------------------
(* What the documentation says, and the code does not do.                  *)

\* "writes the responses to a one json file per instance": what is at the path of
\* a cache file, once something is, is JSON.
CacheFileIsJSON == \A f \in Files : cache[f].state # "partial"
=============================================================================
