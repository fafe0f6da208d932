# Verification of datadog-checks

This directory holds TLA+ models of the checks in this repository, TLC runs that
model-check them on small instances, and proofs that TLAPS checks for every value of
the constants.  `PROJECT.json` lists the components, the runs, which lines of the
source each definition models, the hazards and the theorems.  Paths below are relative
to the repository's `src/`.

## The system

The repository is a set of *checks*, plug-ins of the Datadog agent.  The agent makes one
object per check class and calls `check(instance)` for every configured instance, one
after the other, again and again.  A check asks a program or reads files, and sends
metrics, service checks (`OK`, `WARNING`, `CRITICAL`, `UNKNOWN`) and events.  Whatever it
raises is caught by the agent, which goes on with the next instance; what was sent before
stays sent.  Attributes of the object survive from one call to the next, whichever
instance either was for.  One check is split in two: cron runs
`scripts/cache-storm-data`, which leaves a file for `checks.d/storm_rest_api.py`.

The checks have no threads.  What makes them hard is around them: the programs they ask
change between two requests of one check, files change between two system calls, cron
starts a script while its predecessor still runs, processes are killed between two
statements, and state that one call leaves behind meets the next.

### Inventory

| Component | State | Operations | Interacts with | Hard about it | Correct if |
| --- | --- | --- | --- | --- | --- |
| Storm cache script, `scripts/cache-storm-data` | locals of a run; one cache file per instance; temporary files | `run`, `cache_one`, `_get_json_from_url`, `collect_detail_components` | cron, Storm's REST API, the cache file | runs overlap, are killed between rename and close, APIs fail or answer strangely in the middle of many GETs | a file is torn only while it is being closed or after a kill; it recovers; a snapshot is whole or an error |
| Storm check, `checks.d/storm_rest_api.py` | none | `check`, `report_*` | the cache file, the clock | the file is replaced between load and comparison, entries age, a report raises half way | `OK` rests on fresh data of this instance, and on all of it |
| Storm helpers, `lib/storm_utils.py` | none | `collect_topologies`, `translate_timespec` | script and check | topologies redeployed under one name | one topology per name, the newest |
| Mesos master check, `checks.d/mesos_master.py` | `service_check_needed`, `leader`, `version`, shared by all masters | `check`, `_get_json`, `_check_leadership` | up to three GETs per master | elections and failures between GETs; a flag put down by one master and needed by another | no master's metrics are sent on what another said; service checks recover |
| File check, `checks.d/file.py` | last status per path, shared by instances and lost at a restart | `check`, `stat_file`, `has_different_status` | file system | files come and go between glob, the stats of the sort, and the last stat | `absent` and the age reported can be explained; events alternate |
| Line reader, `lib/helpers.py` | position, remaining size, segment | `reverse_readline`, `parse_fix_timestamp` | syslog, logrotate | lines cut by chunks; a log that grows or is truncated meanwhile; stamps without a year | every line once, whole, last first; the right year |
| OOM check, `checks.d/oom.py` | none | `check` | kernel log | lines of earlier boots in the log | kills since the last boot, exactly |
| Segfault check, `checks.d/segfault.py` | none | `check` | kernel log | window, turn of the year, lines that cannot be parsed | the segfaults of the window, exactly |
| Splunk check, `checks.d/splunk.py` | none | `check`, `is_*`, `do_*`, `get_json` | a login and up to sixteen GETs | roles move and GETs fail in between; failures of probes are swallowed | a report matches the roles; `can_connect` recovers |
| Outdated packages, `checks.d/outdated_packages.py` | last status per package, shared by instances | `check`, `has_different_status`, `version_compare` | lsb_release, dpkg-query, dpkg | the package changes between the processes; one that dpkg does not know raises | an untouched package gets its right status; the last event tells the last status |
| S3 object, `checks.d/s3_object_exists.py` | `_client`, with the credentials of the first check | `check` | S3 listing, page by page | the loop over pages and its marker; objects come and go between pages; rotated credentials | `CRITICAL` only if nothing fits, and always in the end if nothing does |
| Subdirectory sizes, `checks.d/subdir_sizes.py` | none | `check`, `_get_stats` | file system | two walks of a changing tree, stats behind a listing | an untouched file counted once, in the right subdirectory |
| OpenVPN, `checks.d/openvpn.py` | none | `check`, `parse_status_file` | status files | the file is read before it is looked for, twice | a dead server is `CRITICAL` |
| Slapd and Unbound, `checks.d/slapd.py`, `unbound.py` | none | `check` | LDAP; unbound-control | one query or line of several fails; no timeout; no tag | `OK` when it answered, `CRITICAL` when it did not |
| Sequins, NSQ, Phabricator, Jenkins | none | `check` | one GET | exceptions that are not caught; `OK` before or behind the reading of the reply | the status follows the program |
| Veneur and kernel, `checks.d/veneur.py`, `kernel.py` | none (the list of tags that a check extends is its own copy) | `check` | GETs; uname, lsb_release, grub's menu | the gauge of success is tagged with the answers, so a failure is in another series than the success before it | what breaks is told, what recovers is 1 again, in the series that is sent to |
| Nagios runner, `checks.d/nagios_runner.py` | none in use | `check` | a process | no timeout | exit status to service check; the collector goes on |
| os_updates, resque, linux_vm_extras, unix_time | none | `check` | one value | nothing | - |

The agent itself (`AgentCheck`) is not in the repository; `tests/checks/common.py` has a
stand-in.  The modules assume of it what the first paragraph says.

## The modules

| Module | Models | Interacts with |
| --- | --- | --- |
| `StormCache` | runs of the script, the cache files, the check | `cache_one` is one fetch here |
| `StormSnapshot` | `cache_one` GET by GET, and the report of what it returns | implements `StormFetch` |
| `StormFetch` | what `StormCache` assumes of `cache_one` | abstract specification |
| `MesosMaster` | the check of all masters, and the masters | |
| `FileCheck` | the check of all instances, and the file system | |
| `KernelLog` | a kernel log, and the two checks that read it | lines come as `ReverseReadline` says |
| `ReverseReadline` | the generator, and what happens to its file | |
| `Splunk` | the check of one instance, and the instance | |
| `Probes` | ten checks that ask one program each, as lists of statements, and the collector's round over their instances | |
| `S3Object`, `S3Constants` | the check of one bucket, and S3; its constants | composed in `Collector` |
| `OutdatedPackages`, `PackageConstants` | the check of all packages, and dpkg; its constants | composed in `Collector` |
| `Collector` | the one thread of the agent that calls both | INSTANCEs `S3Object` and `OutdatedPackages` |
| `SubdirSizes` | both walks, and the file system | |
| `StormCacheProofs`, `StormSnapshotProofs`, `FileCheckProofs`, `SplunkProofs`, `SubdirSizesProofs` | theorems about the module of that name | |
| `KernelLogProofs` | theorems about `KernelLog` and `ReverseReadline` | extends both |
| `ProbesProofs` | theorems about `Probes` and `MesosMaster` | extends both |
| `CollectorProofs` | theorems about `Collector` and its two parts | |
| `MC...` | small instances for TLC | |

A definition that is commented as *a variant* is a bug that this code could plausibly
have; it is used nowhere, and is there to see that a property would notice.  Variables
that are no part of the program (what a property remembers of the past) are named below.

### StormCache

State: `cache` is what is at the path of each cache file (`absent`, `complete`, or
`partial`: renamed into place while its last buffer is not yet written), with the entry
and the run that holds it open; `pc`, `idx`, `first`, `entry` are the locals of each run;
`checking`, `opened`, `loaded` those of the check; `report` the last service check per instance, which
stays what it was when a check raises (`CheckRaises`, `storm_rest_api.py:104-105`, sends nothing);
`api` how each REST API behaves; `now` the clock.  An entry's `oldest`, the time of its
first reply, is remembered for the properties.  `GetCluster`, `GetRest`, `GetFailed` and `Abort` are `cache_one`
(`cache-storm-data:94-132`); `Rename` and `Close` are separate because `os.rename` (142) is
inside the `with` block whose end closes the file; `Crash` kills a run anywhere.
`CheckLoad` and `CheckReport` are separate because time passes and the file changes
between `json.load` and `time.time()` (`storm_rest_api.py:105-107`).

Assumed: distinct instances have distinct cache files (nothing in the code checks it; the
configuration must); a fetch takes less than `MaxFetch` (every GET has a timeout); one
`open` and `json.load` of a file that is not torn is one step, because a rename does not change the
file that is open.

### StormSnapshot and StormFetch

`StormSnapshot` has one action per GET; between any two, topologies are launched,
deactivated, killed and removed.  A reply is a *part*: what it is of, when it came, and
whether the check will find its keys.  `Report` is what the check sends of a list of
parts, in the order in which it sends it, and where it stops.  `Fetch!Spec` says that
all this is one fetch of `StormFetch`: a success is stamped when it returns, rests on
nothing older than its first reply, and a failure leaves nothing of it.  That is what
the actions `GetCluster` to `Abort` of `StormCache` do.

Storm never reuses a topology id, a GET of a removed topology fails, and at most one
reply of a snapshot has an unexpected shape.

### MesosMaster

`needed`, `leader` and `old` are the attributes `service_check_needed`, `leader` and
`version < [0, 22, 0]`, shared by all masters; `svc` is the last service check of each
URL; `sent` what the current check, or the last one, sent; `claimed`, the field of the
reply, and `completed` are remembered for the properties.  One action per GET and kind
of answer; `GetBadState` has one disjunct for each place where `_check_leadership` or the
report of the frameworks may raise, because each leaves other attributes behind.  The
tables of metrics are four kinds.

### FileCheck

`Glob` and `GlobNothing` are line 25, `SortStat` one `os.stat` of the sort, `Sorted` the end of
the sort, `Stat` and its two failures the last `os.stat`.  Which comparisons a sort makes is
not modelled: `First` says that a sort can put a file first only if the comparisons lead from it to all others,
which covers every sort.  `last` is `_last_state_by_path`.  `gap` (nothing matched at a moment of the
check), `gone` (a name that glob returned was missing or a dangling link at one), `kept`, `events` and
the fields of `report` are remembered for the properties.

### KernelLog and ReverseReadline

`log` is the lines that match `kernel_line_regex`, with stamp, uptime and boot; the check
sees the stamp modulo `Year`.  `CheckSegfault` and `CheckOom` are a whole check each: an open
file does not change under a check when the log is rotated by a rename, and
`ReverseReadline` shows that it does not matter whether it grows.  What is stored of a segfault check is the
difference between what it counts and what it should.  A line may be stamped up to
`Ahead` later than the clock says when it is read; logrotate removes lines before they are `Keep` old.

`ReverseReadline` has the loop of `reverse_readline` one chunk a step, while lines (whole
ones, empty ones, ones whose newline is still missing) are appended and the file is
truncated.  A character is the number of its line, so lines that are put together wrongly show.
`str.split` is not recursive here: `Ends` are the positions at which the pieces of a text end, `Sorted` puts them
in order by how many lie before each, and `Split` cuts the text at them.  The names of the module
(`ReaderInit`, `ReaderSpec`, ...) differ from those of `KernelLog`, so that `KernelLogProofs` can extend
both; likewise those of `Probes`, for `ProbesProofs`.

Assumed: all years have one length, and `2 * Keep <= Year`; a stamp that
`strptime` refuses (29 February has no date in 1900) is the kind `odd`; uptimes are in the
regular expression, all lines are of this host, and no kill is logged at uptime 0; the agent
may read the file if there is one; a file that cannot be opened for another reason than
`ENOENT`, and the names of processes, are left out.

### Splunk

`Gets` are the GETs in the order of `check`: for each of four roles a probe and what is
fetched for it.  `HasRole` has the one asymmetry of the probes: `is_license_master` looks into the reply,
the other three only need one.  `sent` and `outcome` are of the current or last check; `held`,
`ever` and `steady` remember the roles and answers of the instance during it.  A reply is
one part; the gauges, the health service checks and the counters of timeouts in it are left out.

### Probes

Ten checks have one shape: ask a program, pass on what it answers, tell with a service check (for
`veneur.py` and `kernel.py`, a gauge of success) how that went.  What differs, and what is easy to get
wrong, is the order of these, what is caught, whether there is a timeout and whether the
status is tagged.  So each check is a record: its statements in order (`body`), the
modes of its program in which a request is `answers`ed, what is `told` when it is not, what is
sent when an item of the reply is `odd`, whether it is `patient` (has no timeout) and
`tagged`.  One action per kind of statement interprets them; `Round` is the agent, which calls
the instances of `Schedule` in turn, with a copy of the instance, as the repository's stand-in for the agent
does (`tests/checks/common.py:202-205`).  `at` is the statement and the locals of the check that runs; `at.got` the
answers that become tags.  A `Series` is what a status is shown in: its name and its tags.  It has a tag of the
instance in four checks (`tagged`); `openvpn.py`, `veneur.py` and `kernel.py` send the tags of the configuration, which
the instances of `named` have; the others send none.  `veneur.py` and `kernel.py` add their answers, `kernel.py`
'unknown' for each one that is missing.  `status[i]` is the series that instance i last sent to, and what is shown
there now, whichever instance sent it.  `last` is remembered for the properties.

Two `item`s stand for the many of a reply and two searches for the ten of slapd: the first may
succeed and the second fail.  Left out: `nsq.healthy` (a field of the reply sent as a second
service check), configuration errors, which gauge an item becomes.

The properties name the exceptions of the code: `Untold` are the modes in which a check raises and says
nothing, `HasNoTimeout` the checks that hold the collector while their program hangs, `OfItsOwn` the
instances that share their series with no other.  `FailureTold` and `RecoveryTold` say that an
instance's series shows a failure, or `OK`, for good if it is its own, and again and again if others send to it too.

### S3Object, OutdatedPackages and Collector

`S3Object`: `ListPage` and `ListLast` are an iteration of the loop (`s3_object_exists.py:87-93`), with
the verdict in the last one; `ListRaises` is everything that raises.  Objects are written and removed
between pages, S3 stops and resumes, credentials are rotated under the kept client
(`_client`), the SLA passes.  The repository does not say two things of S3, so both answers are
modelled: `echo`, whether the reply's `Marker` is the one that was asked for (then the loop asks for the
same page again), and `omits`, whether a reply without objects has no `Contents` (then
`resp['Contents']` raises).  A page is the first `PageSize` objects behind the marker; listing times and dates are left
out, the objects are those of the day.  `stayed` and `seen` are remembered for the properties.

`OutdatedPackages`: one action per process of a check (`dpkg-query` for the state, then for the version,
`dpkg --compare-versions`); apt changes the package between any two.  `last` is
`_last_state_by_package`, which all instances of one package share.  A package that dpkg does not
know raises; one that was removed but not purged is ignored at line 88, but has a version if it is
removed behind it.  Versions are numbers in dpkg's order; `lsb_release`, which never changes, is in
the constant `Expected`; errors of the configuration and of `--compare-versions` are left out.
`settled` and `event.odd` are remembered for the properties.

`Collector` composes the two under the one thread of the agent: a check that is started keeps the
others waiting until it ends.  So a listing that never ends is a matter of every instance
(`PagesForEver`), which `RoundsGoOn` and `Settles` make precise.  `Schedule` is any list of instances and the
bucket but the empty one.  The constants and
assumptions of the two modules are in `S3Constants` and `PackageConstants`, which `Collector`
extends, so that TLC evaluates the assumptions.

### SubdirSizes

The first walk is one step (it stops at the root's own directories), the second one step per directory
and per `stat`; `Deepest` is the order of `scandir.walk` as the loop asks for it.  `Visit` counts the files of a listing,
`StatFile` adds the size of one, or nothing when it is gone.  Files move (`Gone` is
no place), directories are made and, when empty, removed.  `Finish` sends the gauges; of subdirectories
with the same tags any may be the last.  `Dir` is any set of paths that has the directories
above each of its members.  The root itself always exists; files that do not
match the pattern are left out; `still` and `been` are remembered for the properties.

## The runs

Each run asks one question; `StormCache` has two passing ones, because ages
and recovery need different bounds.  The type invariants of `StormCache`, `StormSnapshot`, `MesosMaster`,
`FileCheck`, `KernelLog`, `Splunk`, `S3Object` and `OutdatedPackages`, and `OnlyRolesHeld`, `OkOnlyForState`, `OkMeansThere`,
`SettledIsRight` and `EventIsNews`, are theorems and are not run again.

| Run | Question | Bounds, and why they are enough |
| --- | --- | --- |
| `storm_fresh` | may `OK` rest on stale data | two instances, one without file; two overlapping runs, one outage or unexpected reply, one kill; clock to 2 with staleness and fetch 1, so an entry may pass its limit by both |
| `storm_live` | may a file be torn for another reason than a kill or a close under way, or an `OK` rest on another instance's data; do cache file and service check recover | two runs, two instances, one outage or unexpected reply of either, one kill; the clock stands still, for no property here is about ages |
| `snapshot_redeploy` | is a report of one topology per name and whole; is `cache_one` a fetch | two deployments of one name, four changes between GETs, one whitelisted component of two |
| `mesos_checks` | do the shared attributes mix up masters | two masters, one old; every answer at every GET; elections at any time. No bound: the model is finite |
| `file_check` | are `absent`, the age and the events right | three files, at most two statted, so too many are met; two instances of one path; three changes, one restart |
| `kernel_window` | are the counts those of the window and of the boot | years of 4, clock to 5, so a turn of the year and stamps two years apart are met; three lines, one restart, rotations at any time |
| `reader_chunks` | are the lines yielded whole, once, in reverse | chunks of 2, lines of 0 to 3 and four of them, so lines end before, at and behind a boundary and span three chunks; one truncation |
| `splunk_roles` | does a report match the roles; does it recover | any roles, all six fixup levels, three changes in the course of a check |
| `probes` | is what breaks told, does what recovers become `OK`, does the collector go on | two instances of each check, which may share a series, with and without tags in the configuration, and one pair of different checks; two failures, recoveries without bound, one new version |
| `collector` | is a missing object told, is an untouched package right, does the round go on | two objects on pages of one, so the marker is used and the listing changes under it; one package and three instances, which disagree about it; one incident of S3 and one change of apt |
| `subdirs` | is a file that nobody touches counted once | a directory below another, two with the same tags and one that is not reported; two files, two changes at any step |

The violation run `storm_torn` shows where code and documentation differ: the file at the path of an
instance is not JSON between `os.rename` and the close of the `with` block, `cache-storm-data:142`; a
kill there leaves it so.

Further differences seen on the way, and not run:

- with two matching files, one that is deleted between glob and its stat makes the path `absent`, and an
  `expect: absent` `OK`, although the other was there all the time (`file.py:36`, against "at least one file" of
  `README.md:21`); `AbsentExplained` says that nothing else does, not that this does not;
- the alert that `s3_object_exists.py:22-23` promises for a missing object is not sent when a listing of several
  pages echoes its marker (the check does not end), when a reply without objects has no `Contents` (it raises), or
  when the kept client outlived its credentials (it raises); `MissingIsTold` has the three as its premise;
- `README.md:336` promises each subdirectory a tag with its name, which `subdir_sizes.py:69-70` does not send when a
  regular expression is configured; subdirectories with equal tags overwrite each other's gauges, and
  `StillCountedOnce` excepts them;
- a failed check of `veneur.py` or `kernel.py` sends 0 in a series without the version, or with 'unknown', while
  the 1 of the version stays in its own (`veneur.py:22`, `kernel.py:51`); instances without tags in the
  configuration share a series as soon as they answer alike (`veneur.yaml` has none);
- a status file of OpenVPN that is removed between `os.path.isfile` and `os.path.getmtime` raises
  (`openvpn.py:42-48`) instead of being `CRITICAL`;
- a result without `structuralObjectClass` ends a check of slapd (`slapd.py:97`), though every other odd
  one is only logged;
- a reply of Phabricator without the keys that `phabricator.py:108` and 113 look for, and an `unbound-control` that
  prints nothing, get `OK` with nothing sent; in `Probes` an odd reply is one that raises, so `OkIsWhole` does not
  speak of them;
- while every check of an instance finds its cache file torn, `storm_rest_api.py:105` raises and the service
  check that was sent last stays, also a `CRITICAL` whose cause is gone; `UnreachableClears` names the case;
- the first status after a restart of the agent sends no event, whatever the last one before was (`file.py:20`);
- late in December, a stamp just ahead of the clock, that is of January, is taken for January of this
  year (`helpers.py:53`), though the comment above says it is in the future; in the other eleven months
  the comment is right;
- `splunk.can_connect` is sent after the login only: a later GET that fails leaves it `OK`
  (`splunk.py:60`), while `README.md:272` says it is sent "when things break during fetching status";
- a package that dpkg does not know raises in `check_output` (`outdated_packages.py:38`), although
  the comment at line 85 is "Ignore packages that aren't installed";
- a refused connection is a `ConnectionError`, which `nsq.py:147`, `sequins.py:64` and
  `jenkins_metrics.py:49` do not catch, so no `CRITICAL` is sent when the program is down;
- `openvpn.py:40` opens the status file before `os.path.isfile` asks for it: a missing file raises
  instead of being `CRITICAL`;
- the service checks of `slapd.py:34`, `jenkins_metrics.py:44` and `unbound.py:122` have no tag of the
  instance, so several instances overwrite each other's;
- `unbound.py:139` takes the last character of `thread10`, so its metrics get the tag of thread 0;
- the class in `kernel.py` is named `Veneur`;
- the stamp of a cache entry is taken at the end of the fetch, so data may be older than
  `cache_staleness` by the duration of a fetch; `FreshReport` states the bound that holds;
- `self.leader` is what the reply said; after an election in the middle of a check the "cluster" metrics
  are of a master that is no longer elected (`mesos_master.py:35`);
- a file that is touched between the sort and the last stat makes the age that of no
  oldest file (`README.md:25`);
- runs of the script that overlap for ever may each close a file that the other already
  replaced, so that the path is never readable; `CacheRecovers` is for runs that stop overlapping, and
  `UnreachableClears` for instances that a check can read again and again;
- an unexpected reply of one instance ends a run of the script before the later instances;
- `executor.tasks_total` is sent from `details['executors']` (`storm_rest_api.py:272-273`);
- the tag `actual_status` of `README.md:23` is not sent, and an example configuration says `expected:`
  where the code reads `expect`.

### Fairness

Liveness is checked under the following, and nothing is assumed of the programs asked or of
the order of the actors.

- *Checks*: the agent starts the check of every instance again and again (`StormCache`,
  `FileCheck`: strong fairness per instance, since the check of another instance disables
  it; `MesosMaster`, `Splunk`: weak fairness), and a check that was started goes on: every GET has a
  timeout, system calls return.
- *Collector*: its one thread goes on.  `Probes` has weak fairness of `Round` and of `Step`, `Collector` of
  `Collect`.  A request without timeout to a program that hangs is not enabled, and so is not
  assumed to return; no fairness is assumed per instance, because the order of the
  calls is the schedule's.
- *Script*: cron starts it again and again, at least when no run is left; a run that was
  started goes on.  A run may be killed, at most `MaxCrashes` times.

`CacheRecovers`, `UnreachableClears`, `AllRecover`, `EventuallyRight`, `Recovers`, the properties of `probes` and those of `collector` have
premises (the API answers for good, the files settle) that stand for the environment; they
are eventualities of a behaviour, not constraints of the model, so TLC also sees all the
behaviours that break them.

## The proofs

The theorems hold for every value of the constants that the `ASSUME`s of the modules
allow: any number of instances, runs, masters, files, lines, boots, topologies, packages, objects and pages,
any tree of directories and any size of chunks.  The assumptions are of three kinds: a number that must not be
negative or 0, a value for "none" that is none of the others, and what a configuration must be
(cache files that differ, `Keep` at most half a year, instances that are of some check).

Each module defines `IInv` (`ReaderIInv`, `ProbesIInv`), its inductive invariant.  The type invariant and the safety
invariants are not inductive; what is added says why they hold:

- `StormCacheProofs`: `EntryOK`, which holds of an entry wherever it is (in a run, in a
  file, loaded by a check): it is stamped at most `MaxFetch` after its first reply. `RunOK`: what a run is about to write is of
  the instance it is at.  `CacheOK`: a readable file is of its own instance, which needs the
  injectivity of `CacheFile`, and a torn one is held by a run that is at its close, or a run was
  killed.  From these follow `FreshReport`, `OwnReport`, `TornExplained`.
- `ProbesProofs`, of `MesosMaster`: `FlagOK`, the flag is up only between a completed check and the
  first GET of the next, so only `state.json` can get an `OK`; `LeaderOK`, between two GETs the
  attribute is what this check's reply said.  The action property
  `RecoveryNeedsCompletedCheck` follows from it.
- `ProbesProofs`, of `Probes`: `ProgramsOK` goes through the ten programs once and says what they have in common
  (at most two items, no failure told as `OK`, and, but for the checks of `OkFirst`, no item behind the `OK`).
  `SendStatusOK` and `GotOK` type what is sent and remembered.
  `AtOK`: the check that runs has got as many items as there are `item` statements behind it, and has sent `OK` only if
  that statement is behind it.  So an `OK` that stands at the end was sent behind the last item (`OkIsWhole`).
- `FileCheckProofs`: `SeenOK`, a file of the list that cannot be followed has set `gone`, so that an `ENOENT` is
  explained (`AbsentExplained`); stats of unchanged files say what the files are, so that if none changed the
  file put first is the oldest (for every sequence of comparisons, by the set of files at
  most as young as it); `EventsOK`.
- `KernelLogProofs`: `StampsParse`, a stamp of the last half year gets its year, from the
  uniqueness of quotient and remainder; `LogOK`, lines are not too old and uptimes grow within a boot; `BootsOK`,
  behind each kill there is a growing uptime (read backwards) exactly if it is of an earlier boot, although
  reboots whose uptimes do not show it may be in the log; `ResetOK` for `CriticalStays`.
- `KernelLogProofs`, of `ReverseReadline`: `FileOK`, as long as the file is whole it begins with what was opened, and
  what remains to be read is before the offset; `ReadOK`, what has been read of it is, split, the segment and,
  behind it and in reverse, what was yielded.  That a chunk keeps `ReadOK` is `ChunkSettles`: the lines it settles come
  right before those settled so far, and its first piece is the new segment.  It rests on `SplitConcat`, which says
  that splitting `a \o b` is splitting `a` and `b` and joining the last piece of the one with the first of the
  other, for all texts.  It needs no induction: the pieces are cut at the positions of the newlines, and
  those of `a \o b` are those of `a` and, shifted, those of `b` (`SortedUnion`).

- `StormSnapshotProofs`: `PartsOK` and `AgesOK`, a part is no older than the first reply and no younger
  than now; `FetchOK`, what is still asked for is of topologies that were chosen; `WholeSoFar`, what is not
  asked for any more has been received, from which a success is whole; `CachedOK`, the same of what the check reads.
  `ImplementsFetchHolds` is the refinement: the initial states map to `Fetch!Init` and each step to a step of
  `StormFetch` or a stutter, so the one fetch of `StormCache` stands for all the GETs of `cache_one`.
  `OrderOK` is a second invariant, on top of `IInv`: what was newest of its name at the summary has
  a launch time no earlier than any topology of that name which the summary showed, and keeps it, because none of
  them is `NEW` any more (`LaunchedStays`); from it the action property `ReportsMoveForward`.
- `SplunkProofs`: `RolesOK`, what is held all the time is held now; `SentOK`, what was sent is of a
  role the instance had, but for the searches until the members tell; `SteadyOK`, an instance that answers has been sent
  everything of the roles it held all the time up to the next GET.  The lemmas `GetAt`, `NextRoleOK` and
  `NextGet` say what the list of GETs is for any number of fixup levels.
- `CollectorProofs`, of the S3 check: `ListingOK`, what is collected was there, and everything up to the marker that
  stayed is collected, whatever the marker of a reply means.  Of the packages: `ReadOK`, the version that
  the running check read is still dpkg's if nobody touched the package; from it `SettledIsRight`, `EventTellsLast` and the action property
  `EventIsNews`.  Of the composition: `TurnOK`, the turn is in the schedule, so every step of the collector is
  a step of either part or leaves it alone (`ImplementsS3`, `ImplementsPackages`).  With these two refinements the
  theorems of the parts hold of the composition, which is what TLC checks in `collector`.
- `SubdirSizesProofs`: `TreeOK`, what a directory or a file is in exists; `CountsOK`, what is counted for a subdirectory
  was in it, and no more is sized than counted; `StillOK`, a file that nobody touches is either `Ahead` of
  the walk (exactly one directory still to be walked holds it, and nothing is counted), or `Behind` it
  (none does, and it is counted once, and sized unless that is what comes next).  A directory that the walk
  visits is replaced by its subdirectories, so a file passes from one to the other only when its own directory is listed.

Every safety invariant, action property and refinement that a passing run checks is a theorem.  Only model-checked:
all liveness, because fairness and `ENABLED` are out of the prover's reach
(`CacheRecovers`, `UnreachableClears`, `AllRecover`, `EventuallyRight`, `Recovers`, the three temporal properties of `probes`,
and `RoundsGoOn`, `MissingIsTold` and `Settles` of `collector`).

## Not modelled

- os_updates, resque, linux_vm_extras, unix_time: one value, no state and no failure handling.
- `translate_timespec`, the metric tables and tags, the regular expressions: data that no property tells apart.
- The health service checks and counters of `splunk.py`, the grouping of `segfault.py` by process name,
  `nsq.healthy`: parts of a reply or of a line, which are one value here.
- Errors of the configuration, which raise at the first statement of a check.
- The agent: not in the repository.  `Collector` and `Probes` have of it that it calls one instance after
  the other in one thread and catches what a check raises; its intervals and its own restarts are left
  out (`FileCheck` has the restart, because there state is lost).
