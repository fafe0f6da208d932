------------------------------ MODULE KernelLog ------------------------------
(***************************************************************************)
(* The two checks that read the kernel log backwards: checks.d/segfault.py *)
(* counts the segfaults of a time window, checks.d/oom.py the processes    *)
(* killed since the last boot.  Neither keeps anything from one check to   *)
(* the next; what can go wrong is what the log holds: stamps without a     *)
(* year (lib/helpers.py guesses it), stamps that are ahead of now, lines   *)
(* of an earlier boot, a log that was rotated.                             *)
(*                                                                         *)
(* A line is one that matches kernel_line_regex; others are skipped.  How  *)
(* reverse_readline delivers the lines is in module ReverseReadline.       *)
(***************************************************************************)
EXTENDS Integers, Sequences, FiniteSets

CONSTANTS
  Year,      \* length of a year
  Window,    \* time_window_seconds
  Ahead,     \* environment: how far ahead the stamp of a line may be
  Keep,      \* environment: the age at which logrotate has removed a line
  MaxTime,   \* bound on the clock
  MaxLines,  \* bound on the length of the log
  MaxBoots   \* bound on how often the host restarts

ASSUME YearAssumption == Year \in Nat \ {0} /\ Window \in Nat /\ Ahead \in Nat
ASSUME KeepAssumption == Keep \in Nat /\ 2 * Keep <= Year
ASSUME BoundsAssumption == MaxTime \in Nat /\ MaxLines \in Nat /\ MaxBoots \in Nat

VARIABLES
  now,
  boot,      \* how often the host restarted, and when it last did
  log,       \* the lines, the oldest first
  present,   \* whether the file is there
  segfault,  \* where the last check of segfault.py counted too much, and too little
  oom,       \* the last service check system.oom
  reset      \* whether the log was removed, or the host restarted, since oom was sent

vars == <<now, boot, log, present, segfault, oom, reset>>
hostVars == <<now, boot, log, present>>

\* "odd" lines have a timestamp that strptime refuses.
Kind == {"segfault", "kill", "other", "odd"}
Line == [kind : Kind, stamp : Nat, uptime : Nat, boot : Nat]

Init ==
  /\ now = 0
  /\ boot = [count |-> 0, at |-> 0]
  /\ log = <<>> /\ present = FALSE
  /\ segfault = [old |-> {}, missed |-> {}]
  /\ oom = [status |-> "none", count |-> 0, killed |-> 0]
  /\ reset = TRUE

-----------------------------------------------------------------------------
(* The host.                                                               *)

\* A line does not grow older than Keep before the log is rotated.
Tick ==
  /\ now < MaxTime
  /\ \A i \in DOMAIN log : now < log[i].stamp + Keep
  /\ now' = now + 1
  /\ UNCHANGED <<boot, log, present, segfault, oom, reset>>

LineOf(kind, skew) == [kind |-> kind, stamp |-> now + skew,
                       uptime |-> now - boot.at, boot |-> boot.count]

\* A line is logged.  Its stamp is ahead if the clock has been set back since.  The
\* kernel logs a line at uptime 0 before it kills anything.
Write(kind, skew) ==
  /\ Len(log) < MaxLines
  /\ kind = "kill" => now > boot.at
  /\ log' = Append(log, LineOf(kind, skew))
  /\ present' = TRUE
  /\ UNCHANGED <<now, boot, segfault, oom, reset>>

\* The host restarts; the first line of the kernel has uptime 0.
Reboot ==
  /\ boot.count < MaxBoots /\ Len(log) < MaxLines
  /\ boot' = [count |-> boot.count + 1, at |-> now]
  /\ log' = Append(log, [kind |-> "other", stamp |-> now, uptime |-> 0,
                         boot |-> boot.count + 1])
  /\ present' = TRUE
  /\ reset' = TRUE
  /\ UNCHANGED <<now, segfault, oom>>

\* logrotate moves the log away; syslog creates it again with the next line, if not now.
Rotate ==
  /\ log # <<>>
  /\ log' = <<>>
  /\ present' \in BOOLEAN
  /\ reset' = TRUE
  /\ UNCHANGED <<now, boot, segfault, oom>>

-----------------------------------------------------------------------------
(* lib/helpers.py: a stamp is a date of some year.                         *)

Distance(t, u) == IF t < u THEN u - t ELSE t - u

\* A variant: always the current year.
parse_fix_timestamp_ThisYear(date) == (now \div Year) * Year + date

\* The date in this year or in the last, whichever is closer.
parse_fix_timestamp(date) ==
  LET thisYear == (now \div Year) * Year + date
      lastYear == thisYear - Year
  IN IF Distance(now, thisYear) < Distance(now, lastYear) THEN thisYear ELSE lastYear

Parsed(line) == parse_fix_timestamp(line.stamp % Year)

-----------------------------------------------------------------------------
(* checks.d/segfault.py                                                    *)

\* A variant: a line that cannot be parsed ends the scan.
EndsScanOdd(line) == line.kind = "odd" \/ Parsed(line) < now - Window

\* "dt_timestamp < dt_oldest: break"; a line that cannot be parsed is skipped.
EndsScan(line) == line.kind # "odd" /\ Parsed(line) < now - Window

Counted == {i \in DOMAIN log : /\ log[i].kind = "segfault"
                               /\ \A j \in DOMAIN log : j >= i => ~EndsScan(log[j])}

\* The segfaults whose stamps are in the window; they may be missed when the lines are
\* not in the order of their stamps, or a stamp is ahead of now.
InWindow == {i \in DOMAIN log : log[i].kind = "segfault" /\ log[i].stamp >= now - Window}
Ordered == /\ \A i, j \in DOMAIN log : i < j => log[i].stamp <= log[j].stamp
           /\ \A i \in DOMAIN log : log[i].stamp <= now

\* A log that cannot be opened counts as an error; nothing is sent then.
CheckSegfault ==
  /\ segfault' = IF present THEN [old |-> Counted \ InWindow,
                                 missed |-> IF Ordered THEN InWindow \ Counted ELSE {}]
                 ELSE [old |-> {}, missed |-> {}]
  /\ UNCHANGED <<hostVars, oom, reset>>

-----------------------------------------------------------------------------
(* checks.d/oom.py                                                         *)

\* A variant: equal uptimes end the scan as well.
RebootSeenEqual(line, newer) == line.uptime >= newer.uptime

\* "uptime > last": read backwards, the uptime grows.
RebootSeen(line, newer) == line.uptime > newer.uptime

Killed == {i \in DOMAIN log : /\ log[i].kind = "kill"
                              /\ \A j \in i..(Len(log) - 1) : ~RebootSeen(log[j], log[j + 1])}

KilledSinceBoot == {i \in DOMAIN log : log[i].kind = "kill" /\ log[i].boot = boot.count}

\* ENOENT
NoFile == [status |-> "WARNING", count |-> 0, killed |-> 0]

CheckOom ==
  /\ oom' = IF ~present THEN NoFile
            ELSE [status |-> IF Killed = {} THEN "OK" ELSE "CRITICAL",
                  count |-> Cardinality(Killed), killed |-> Cardinality(KilledSinceBoot)]
  /\ reset' = IF oom'.status = "CRITICAL" THEN FALSE ELSE reset
  /\ UNCHANGED <<hostVars, segfault>>

-----------------------------------------------------------------------------
Next ==
  \/ Tick \/ Reboot \/ Rotate
  \/ \E kind \in Kind, skew \in 0..Ahead : Write(kind, skew)
  \/ CheckSegfault \/ CheckOom

Spec == Init /\ [][Next]_vars

-----------------------------------------------------------------------------
\* Types of the variables.
TypeOK ==
  /\ now \in Nat
  /\ boot \in [count : Nat, at : Nat]
  /\ log \in Seq(Line) /\ present \in BOOLEAN
  /\ segfault \in [old : SUBSET Nat, missed : SUBSET Nat]
  /\ oom \in [status : {"none", "OK", "WARNING", "CRITICAL"}, count : Nat, killed : Nat]
  /\ reset \in BOOLEAN

\* No segfault from before the window is counted, whatever the year, and however stamps
\* that are ahead are mixed with others (helpers.py:49-56, segfault.py:90-92).
NoOldSegfault == segfault.old = {}

\* Every segfault in the window is counted, also just after the turn of a year, if the
\* lines are in the order of their stamps and none is ahead of now.
EverySegfault == segfault.missed = {}

\* The kills counted are those since the last boot, although the boot is only told by
\* uptimes, and lines of the boot before it may still be in the log (oom.py:56-57).
KillsSinceBoot == oom.count = oom.killed

\* "It continues to emit criticals until the log file is removed or the system is
\* restarted" (README.md:120).
CriticalStays == [][oom.status = "CRITICAL" /\ oom'.status # "CRITICAL" => reset]_vars

-----------------------------------------------------------------------------
(* Why the invariants hold.                                                *)

\* What is true of the log: no line is older than Keep; the last line is of this boot;
\* within a boot the uptimes grow.
LogOK ==
  /\ ~present => log = <<>>
  /\ boot.at <= now
  /\ \A i \in DOMAIN log : now <= log[i].stamp + Keep
  /\ log # <<>> => log[Len(log)].boot = boot.count
  /\ \A i \in DOMAIN log :
       /\ log[i].boot <= boot.count
       /\ log[i].boot = boot.count => log[i].uptime <= now - boot.at
       /\ log[i].kind = "kill" => log[i].uptime > 0
       /\ \A j \in DOMAIN log :
            i <= j /\ log[i].boot = log[j].boot => log[i].uptime <= log[j].uptime

\* A reboot shows behind every kill of an earlier boot, and behind none of this one.
BootsOK ==
  \A i \in DOMAIN log :
    log[i].kind = "kill" =>
      (log[i].boot < boot.count <=> \E j \in i..(Len(log) - 1) : RebootSeen(log[j], log[j + 1]))

\* Until the log is removed or the host restarted, what was CRITICAL still is.
ResetOK == ~reset => present /\ KilledSinceBoot # {}

\* The inductive invariant.
IInv == TypeOK /\ LogOK /\ BootsOK /\ ResetOK /\ NoOldSegfault /\ EverySegfault /\ KillsSinceBoot
=============================================================================
