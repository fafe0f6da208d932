--------------------------- MODULE KernelLogProofs ---------------------------
(***************************************************************************)
(* What is proved of the two modules about the kernel log.                 *)
(*                                                                         *)
(* KernelLog, for every length of a year, every window and every rotation  *)
(* that keeps no line for more than half a year: the year that             *)
(* parse_fix_timestamp chooses, the inductive invariant IInv, and from it  *)
(* what TLC checks on small instances.                                     *)
(*                                                                         *)
(* ReverseReadline, for every size of the chunks and every file: splitting *)
(* a text and joining its pieces is splitting the whole (SplitConcat), so  *)
(* what a chunk settles comes before what was settled behind it            *)
(* (ChunkSettles); the inductive invariant ReaderIInv, and from it the     *)
(* order and the wholeness of the lines.                                   *)
(***************************************************************************)
EXTENDS KernelLog, ReverseReadline, FiniteSetTheorems, SequenceTheorems, TLAPS

-----------------------------------------------------------------------------
(* The year of a stamp.                                                    *)

LEMMA DivMod ==
  ASSUME NEW t \in Nat, NEW y \in Nat \ {0}
  PROVE  t \div y \in Nat /\ t % y \in 0..(y - 1) /\ t = (t \div y) * y + (t % y)
<1>1. t \div y \in Nat
  BY SMTT(30)
<1>2. t % y \in 0..(y - 1)
  BY SMTT(30)
<1>3. t = (t \div y) * y + (t % y)
  BY SMTT(30)
<1> QED
  BY <1>1, <1>2, <1>3

LEMMA YearsApart ==
  ASSUME NEW p \in Nat, NEW q \in Nat, NEW y \in Nat, p < q
  PROVE  p * y + y <= q * y
<1>1. PICK k \in Nat : q = p + 1 + k
  <2>1. q - p - 1 \in Nat /\ q = p + 1 + (q - p - 1)
    OBVIOUS
  <2> QED
    BY <2>1
<1>2. q * y = p * y + y + k * y
  BY <1>1
<1>3. p * y \in Nat /\ k * y \in Nat
  OBVIOUS
<1> QED
  BY <1>2, <1>3

\* A time of the last half year is in this year or in the last one.
LEMMA ThisYearOrLast ==
  ASSUME NEW t \in Nat, NEW n \in Nat, NEW y \in Nat \ {0}, t <= n, 2 * (n - t) <= y
  PROVE  \/ (n \div y) * y + (t % y) = t
         \/ (n \div y) * y + (t % y) = t + y
<1> DEFINE q == n \div y
           p == t \div y
<1>1. q \in Nat /\ n % y \in 0..(y - 1) /\ n = q * y + (n % y)
  BY DivMod
<1>2. p \in Nat /\ t % y \in 0..(y - 1) /\ t = p * y + (t % y)
  BY DivMod
<1> HIDE DEF p, q
<1>3. q * y \in Nat /\ p * y \in Nat
  BY <1>1, <1>2
<1>4. ~(q < p)
  BY <1>1, <1>2, <1>3, YearsApart
<1>5. CASE p = q
  BY <1>1, <1>2, <1>3, <1>5 DEF p, q
<1>6. CASE q = p + 1
  <2>1. q * y = p * y + y
    BY <1>2, <1>6
  <2> QED
    BY <1>2, <1>3, <2>1 DEF q
<1>7. CASE p + 1 < q
  <2>1. (p + 1) * y + y <= q * y
    BY <1>1, <1>2, <1>7, YearsApart
  <2>2. (p + 1) * y = p * y + y
    BY <1>2
  <2> QED
    BY <1>1, <1>2, <1>3, <2>1, <2>2
<1> QED
  BY <1>1, <1>2, <1>4, <1>5, <1>6, <1>7

\* helpers.py:49-56: a stamp of the last half year gets the year it was written in.
LEMMA StampsParse ==
  ASSUME now \in Nat, NEW t \in Nat, t <= now, now <= t + Keep
  PROVE  parse_fix_timestamp(t % Year) = t
<1> DEFINE thisYear == (now \div Year) * Year + (t % Year)
<1>1. 2 * (now - t) <= Year
  BY YearAssumption, KeepAssumption
<1>2. thisYear = t \/ thisYear = t + Year
  BY <1>1, YearAssumption, ThisYearOrLast
<1> HIDE DEF thisYear
<1>3. IF Distance(now, thisYear) < Distance(now, thisYear - Year)
      THEN t = thisYear ELSE t = thisYear - Year
  <2>1. CASE thisYear = t
    BY <1>1, <2>1, YearAssumption DEF Distance
  <2>2. CASE thisYear = t + Year
    BY <1>1, <2>2, YearAssumption DEF Distance
  <2> QED
    BY <1>2, <2>1, <2>2
<1> QED
  BY <1>3 DEF parse_fix_timestamp, thisYear

-----------------------------------------------------------------------------
(* The two checks.                                                         *)

LEMMA LogType ==
  ASSUME log \in Seq(Line)
  PROVE  /\ Len(log) \in Nat /\ DOMAIN log = 1..Len(log)
         /\ \A i \in DOMAIN log : /\ i \in Nat /\ log[i].kind \in Kind /\ log[i].stamp \in Nat
                                 /\ log[i].uptime \in Nat /\ log[i].boot \in Nat
<1>1. Len(log) \in Nat /\ DOMAIN log = 1..Len(log)
  OBVIOUS
<1>2. ASSUME NEW i \in 1..Len(log)
      PROVE  i \in Nat /\ log[i] \in Line
  OBVIOUS
<1>3. \A line \in Line : /\ line.kind \in Kind /\ line.stamp \in Nat
                         /\ line.uptime \in Nat /\ line.boot \in Nat
  BY DEF Line
<1> HIDE DEF Line
<1> QED
  BY <1>1, <1>2, <1>3

\* What segfault.py counts is in the window, and if the log is ordered, is all of it.
LEMMA WindowCounted ==
  ASSUME TypeOK, LogOK
  PROVE  /\ Counted \subseteq InWindow
         /\ Ordered => InWindow \subseteq Counted
<1>1. ASSUME NEW i \in DOMAIN log, log[i].stamp <= now
      PROVE  Parsed(log[i]) = log[i].stamp
  <2>1. log[i].stamp \in Nat /\ now <= log[i].stamp + Keep /\ now \in Nat
    BY LogType DEF TypeOK, LogOK
  <2> QED
    BY <1>1, <2>1, StampsParse DEF Parsed
<1>2. \A i \in DOMAIN log : i \in Nat /\ log[i].stamp \in Nat
  BY LogType DEF TypeOK
<1>3. now \in Nat /\ Window \in Nat
  BY YearAssumption DEF TypeOK
<1>4. ASSUME NEW i \in Counted PROVE i \in InWindow
  <2>1. i \in DOMAIN log /\ log[i].kind = "segfault" /\ i >= i
    BY <1>2 DEF Counted
  <2>2. ~EndsScan(log[i])
    BY <2>1 DEF Counted
  <2>3. ~(Parsed(log[i]) < now - Window)
    BY <2>1, <2>2 DEF EndsScan
  <2>4. CASE log[i].stamp <= now
    <3>1. Parsed(log[i]) = log[i].stamp
      BY <1>1, <2>1, <2>4
    <3> QED
      BY <1>2, <1>3, <2>1, <2>3, <3>1 DEF InWindow
  <2>5. CASE log[i].stamp > now
    BY <1>2, <1>3, <2>1, <2>5 DEF InWindow
  <2> QED
    BY <1>2, <1>3, <2>1, <2>4, <2>5
<1>5. ASSUME Ordered, NEW i \in InWindow PROVE i \in Counted
  <2>1. i \in DOMAIN log /\ log[i].kind = "segfault" /\ log[i].stamp >= now - Window
    BY DEF InWindow
  <2>2. ASSUME NEW j \in DOMAIN log, j >= i PROVE ~EndsScan(log[j])
    <3>1. log[i].stamp <= log[j].stamp /\ log[j].stamp <= now
      BY <1>2, <1>5, <2>1, <2>2 DEF Ordered
    <3>2. Parsed(log[j]) = log[j].stamp
      BY <1>1, <3>1
    <3> QED
      BY <1>2, <1>3, <2>1, <3>1, <3>2 DEF EndsScan
  <2> QED
    BY <2>1, <2>2 DEF Counted
<1> QED
  BY <1>4, <1>5

\* What oom.py counts are the kills of this boot.
LEMMA KillsCounted == ASSUME TypeOK, LogOK, BootsOK PROVE Killed = KilledSinceBoot
<1>1. ASSUME NEW i \in DOMAIN log PROVE log[i].boot \in Nat /\ log[i].boot <= boot.count
  BY LogType DEF TypeOK, LogOK
<1>2. boot.count \in Nat
  BY DEF TypeOK
<1>3. ASSUME NEW i \in DOMAIN log, log[i].kind = "kill"
      PROVE  i \in Killed <=> i \in KilledSinceBoot
  BY <1>1, <1>2, <1>3 DEF BootsOK, Killed, KilledSinceBoot
<1> QED
  BY <1>3 DEF Killed, KilledSinceBoot

-----------------------------------------------------------------------------
(* Intervals and the empty log.                                            *)

LEMMA EmptyLog == <<>> \in Seq(Line)
<1> DEFINE S == Line
<1>1. <<>> \in Seq(S)
  <2> HIDE DEF S
  <2> QED
    OBVIOUS
<1> QED
  BY <1>1

LEMMA Extended ==
  ASSUME NEW n \in Nat, NEW i \in 1..n
  PROVE  \A j : j \in i..n <=> (j \in i..(n - 1) \/ j = n)
OBVIOUS

-----------------------------------------------------------------------------
(* The invariant.                                                          *)

LEMMA InitIInv == Init => IInv
<1> SUFFICES ASSUME Init PROVE IInv
  OBVIOUS
<1> USE DEF Init
<1>1. TypeOK
  <2>1. boot \in [count : Nat, at : Nat] /\ now \in Nat
    OBVIOUS
  <2>2. log \in Seq(Line) /\ present \in BOOLEAN /\ reset \in BOOLEAN
    BY EmptyLog
  <2>3. segfault \in [old : SUBSET Nat, missed : SUBSET Nat]
    OBVIOUS
  <2>4. oom \in [status : {"none", "OK", "WARNING", "CRITICAL"}, count : Nat, killed : Nat]
    OBVIOUS
  <2> QED
    BY <2>1, <2>2, <2>3, <2>4 DEF TypeOK
<1>2. LogOK /\ BootsOK /\ ResetOK
  BY KeepAssumption DEF LogOK, BootsOK, ResetOK
<1>3. NoOldSegfault /\ EverySegfault /\ KillsSinceBoot
  BY DEF NoOldSegfault, EverySegfault, KillsSinceBoot
<1> QED
  BY <1>1, <1>2, <1>3 DEF IInv

LEMMA TickIInv == IInv /\ Tick => IInv'
<1> SUFFICES ASSUME IInv, Tick PROVE IInv'
  OBVIOUS
<1> USE DEF IInv, Tick
<1>1. TypeOK'
  BY DEF TypeOK
<1>2. LogOK'
  <2>1. \A i \in DOMAIN log : log[i].stamp \in Nat /\ log[i].uptime \in Nat
    BY LogType DEF TypeOK
  <2>2. now \in Nat /\ boot.at \in Nat /\ Keep \in Nat
    BY KeepAssumption DEF TypeOK
  <2> QED
    BY <2>1, <2>2 DEF LogOK
<1>3. BootsOK' /\ ResetOK'
  BY DEF BootsOK, RebootSeen, ResetOK, KilledSinceBoot
<1>4. NoOldSegfault' /\ EverySegfault' /\ KillsSinceBoot'
  BY DEF NoOldSegfault, EverySegfault, KillsSinceBoot
<1> QED
  BY <1>1, <1>2, <1>3, <1>4

\* A line of this boot, or the first one of the next, may be appended.
LEMMA AppendIInv ==
  ASSUME IInv, NEW line \in Line, log' = Append(log, line), present' = TRUE,
         boot' \in [count : Nat, at : Nat], boot'.at <= now, reset' \in BOOLEAN,
         UNCHANGED <<now, segfault, oom>>,
         now <= line.stamp + Keep, line.kind = "kill" => line.uptime > 0,
         \/ /\ boot' = boot /\ reset' = reset
            /\ line.boot = boot.count /\ line.uptime = now - boot.at
         \/ /\ boot'.count = boot.count + 1 /\ reset' = TRUE
            /\ line.boot = boot'.count /\ line.uptime = 0
  PROVE  IInv'
<1> USE DEF IInv
<1>1. /\ Len(log) \in Nat /\ Len(log') = Len(log) + 1
      /\ DOMAIN log = 1..Len(log) /\ DOMAIN log' = 1..(Len(log) + 1)
      /\ \A i \in 1..Len(log) : log'[i] = log[i]
      /\ log'[Len(log) + 1] = line
  BY DEF TypeOK
<1>2. \A i \in 1..Len(log) : /\ log[i].boot \in Nat /\ log[i].uptime \in Nat
                             /\ log[i].stamp \in Nat
  BY <1>1, LogType DEF TypeOK
<1>3. /\ now \in Nat /\ boot.at \in Nat /\ boot.count \in Nat
      /\ boot'.at \in Nat /\ boot'.count \in Nat
      /\ line.boot \in Nat /\ line.uptime \in Nat
  BY DEF TypeOK, Line
<1>4. \A i \in 1..Len(log) : log[i].boot <= boot.count
  BY <1>1 DEF LogOK
<1>5. TypeOK'
  BY DEF TypeOK
<1>6. LogOK'
  <2>1. log'[Len(log')].boot = boot'.count
    BY <1>1, <1>3
  <2>2. ASSUME NEW i \in DOMAIN log'
        PROVE  /\ now' <= log'[i].stamp + Keep
               /\ log'[i].boot <= boot'.count
               /\ log'[i].boot = boot'.count => log'[i].uptime <= now' - boot'.at
               /\ log'[i].kind = "kill" => log'[i].uptime > 0
    <3>1. CASE i = Len(log) + 1
      BY <1>1, <1>3, <3>1
    <3>2. CASE i \in 1..Len(log)
      <4>1. log'[i] = log[i] /\ i \in DOMAIN log
        BY <1>1, <3>2
      <4>2. log[i].boot = boot'.count => boot' = boot
        BY <1>2, <1>3, <1>4, <3>2
      <4> QED
        BY <1>2, <1>3, <1>4, <3>2, <4>1, <4>2 DEF LogOK
    <3> QED
      BY <1>1, <3>1, <3>2
  <2>3. ASSUME NEW i \in DOMAIN log', NEW j \in DOMAIN log', i <= j, log'[i].boot = log'[j].boot
        PROVE  log'[i].uptime <= log'[j].uptime
    <3>1. CASE j \in 1..Len(log)
      <4>1. i \in 1..Len(log)
        BY <1>1, <2>3, <3>1
      <4> QED
        BY <1>1, <2>3, <3>1, <4>1 DEF LogOK
    <3>2. CASE j = Len(log) + 1 /\ i \in 1..Len(log)
      <4>1. log[i].boot = line.boot /\ log'[i].uptime = log[i].uptime
        BY <1>1, <2>3, <3>2
      <4>2. boot' = boot /\ line.uptime = now - boot.at /\ log[i].boot = boot.count
        BY <1>2, <1>3, <1>4, <3>2, <4>1
      <4>3. log[i].uptime <= now - boot.at
        BY <1>1, <3>2, <4>2 DEF LogOK
      <4> QED
        BY <1>1, <3>2, <4>1, <4>2, <4>3
    <3>3. CASE j = Len(log) + 1 /\ i = Len(log) + 1
      BY <1>1, <1>3, <3>3
    <3> QED
      BY <1>1, <3>1, <3>2, <3>3
  <2>4. present' /\ boot'.at <= now'
    OBVIOUS
  <2> QED
    BY <2>1, <2>2, <2>3, <2>4 DEF LogOK
<1>7. BootsOK'
  <2> SUFFICES ASSUME NEW i \in DOMAIN log', log'[i].kind = "kill"
               PROVE  log'[i].boot < boot'.count
                        <=> \E j \in i..(Len(log') - 1) : RebootSeen(log'[j], log'[j + 1])
    BY DEF BootsOK
  <2>1. CASE i = Len(log) + 1
    BY <1>1, <1>3, <2>1
  <2>2. CASE i \in 1..Len(log)
    <3>1. log'[i] = log[i] /\ i \in DOMAIN log /\ log[i].uptime > 0
      BY <1>1, <2>2 DEF LogOK
    <3>2. \A j \in i..(Len(log) - 1) :
            RebootSeen(log'[j], log'[j + 1]) <=> RebootSeen(log[j], log[j + 1])
      BY <1>1, <2>2
    <3>3. log[i].boot < boot.count
            <=> \E j \in i..(Len(log) - 1) : RebootSeen(log'[j], log'[j + 1])
      BY <3>1, <3>2 DEF BootsOK
    <3>4. log'[Len(log)] = log[Len(log)] /\ log'[Len(log) + 1] = line
          /\ Len(log) \in DOMAIN log /\ i <= Len(log) /\ log # <<>>
      <4>1. Len(log) \in 1..Len(log) /\ i <= Len(log)
        BY <1>1, <2>2
      <4>2. Len(log) # 0 /\ Len(<<>>) = 0
        BY <2>2
      <4> QED
        BY <1>1, <4>1, <4>2
    <3>5. log[Len(log)].boot = boot.count
      BY <3>4 DEF LogOK
    <3>6. CASE boot' = boot /\ line.uptime = now - boot.at
      <4>1. log[Len(log)].uptime <= line.uptime
        BY <3>4, <3>5, <3>6 DEF LogOK
      <4>2. ~RebootSeen(log'[Len(log)], log'[Len(log) + 1])
        BY <1>1, <1>2, <1>3, <2>2, <3>4, <4>1 DEF RebootSeen
      <4>3. \A j \in i..Len(log) : j \in i..(Len(log) - 1) \/ j = Len(log)
        BY <1>1, <2>2, Extended
      <4>4. i..(Len(log) - 1) \subseteq i..Len(log) /\ Len(log') - 1 = Len(log)
        BY <1>1, <2>2
      <4>5. (\E j \in i..(Len(log') - 1) : RebootSeen(log'[j], log'[j + 1]))
              <=> (\E j \in i..(Len(log) - 1) : RebootSeen(log'[j], log'[j + 1]))
        BY <3>4, <4>2, <4>3, <4>4, Zenon
      <4> QED
        BY <3>1, <3>3, <3>6, <4>5, Zenon
    <3>7. CASE boot'.count = boot.count + 1 /\ line.uptime = 0
      <4>1. log'[i].boot < boot'.count
        BY <1>2, <1>3, <1>4, <2>2, <3>1, <3>7
      <4>2. CASE log[i].boot < boot.count
        BY <1>1, <2>2, <3>3, <4>1, <4>2
      <4>3. CASE log[i].boot = boot.count
        <5>1. log[Len(log)].uptime >= log[i].uptime
          BY <1>1, <2>2, <3>1, <3>4, <3>5, <4>3 DEF LogOK
        <5>2. RebootSeen(log'[Len(log)], log'[Len(log) + 1])
          BY <1>1, <1>2, <2>2, <3>1, <3>4, <3>7, <5>1 DEF RebootSeen
        <5>3. Len(log) \in i..(Len(log') - 1)
          BY <1>1, <2>2
        <5> QED
          BY <4>1, <5>2, <5>3
      <4>4. log[i].boot < boot.count \/ log[i].boot = boot.count
        BY <1>2, <1>3, <1>4, <2>2
      <4> QED
        BY <4>2, <4>3, <4>4, Zenon
    <3> QED
      BY <3>6, <3>7, Zenon
  <2> QED
    BY <1>1, <2>1, <2>2
<1>8. ResetOK'
  <2>1. ASSUME ~reset' PROVE KilledSinceBoot' # {}
    <3>1. ~reset /\ boot' = boot
      BY <2>1
    <3>2. PICK i \in KilledSinceBoot : TRUE
      BY <3>1 DEF ResetOK
    <3>3. i \in KilledSinceBoot'
      BY <1>1, <3>1 DEF KilledSinceBoot
    <3> QED
      BY <3>3
  <2> QED
    BY <2>1 DEF ResetOK
<1>9. NoOldSegfault' /\ EverySegfault' /\ KillsSinceBoot'
  BY DEF NoOldSegfault, EverySegfault, KillsSinceBoot
<1> QED
  BY <1>5, <1>6, <1>7, <1>8, <1>9

LEMMA WriteIInv ==
  ASSUME IInv, NEW kind \in Kind, NEW skew \in 0..Ahead, Write(kind, skew)
  PROVE  IInv'
<1> USE DEF IInv, Write
<1>1. now \in Nat /\ boot.at \in Nat /\ boot.count \in Nat /\ boot.at <= now /\ skew \in Nat
  BY YearAssumption DEF TypeOK, LogOK
<1>2. LineOf(kind, skew) \in Line
  BY <1>1 DEF LineOf, Line
<1>3. /\ LineOf(kind, skew).stamp = now + skew /\ LineOf(kind, skew).kind = kind
      /\ LineOf(kind, skew).uptime = now - boot.at /\ LineOf(kind, skew).boot = boot.count
  BY DEF LineOf
<1>4. boot' = boot /\ reset' = reset /\ boot \in [count : Nat, at : Nat] /\ reset \in BOOLEAN
  BY DEF TypeOK
<1> DEFINE line == LineOf(kind, skew)
<1>5. /\ log' = Append(log, line) /\ present' = TRUE /\ boot'.at <= now
      /\ UNCHANGED <<now, segfault, oom>>
  BY <1>1, <1>4
<1>6. now <= line.stamp + Keep /\ (line.kind = "kill" => line.uptime > 0)
  BY <1>1, <1>3, KeepAssumption
<1>7. boot' \in [count : Nat, at : Nat] /\ reset' \in BOOLEAN
  BY <1>4
<1> HIDE DEF line, Write, IInv
<1> QED
  BY <1>2, <1>3, <1>4, <1>5, <1>6, <1>7, AppendIInv DEF line

LEMMA RebootIInv == IInv /\ Reboot => IInv'
<1> SUFFICES ASSUME IInv, Reboot PROVE IInv'
  OBVIOUS
<1> USE DEF IInv, Reboot
<1> DEFINE line == [kind |-> "other", stamp |-> now, uptime |-> 0, boot |-> boot.count + 1]
<1>1. now \in Nat /\ boot.count \in Nat
  BY DEF TypeOK
<1>2. line \in Line
  BY <1>1 DEF Line, Kind
<1>3. boot' \in [count : Nat, at : Nat] /\ boot'.at = now /\ boot'.count = boot.count + 1
  BY <1>1
<1>4. /\ log' = Append(log, line) /\ present' = TRUE /\ boot'.at <= now
      /\ UNCHANGED <<now, segfault, oom>> /\ reset' = TRUE
  BY <1>1, <1>3
<1>5. /\ now <= line.stamp + Keep /\ line.kind # "kill"
      /\ line.boot = boot'.count /\ line.uptime = 0
  BY <1>1, <1>3, KeepAssumption
<1> HIDE DEF line, Reboot, IInv
<1> QED
  BY <1>2, <1>3, <1>4, <1>5, AppendIInv

LEMMA RotateIInv == IInv /\ Rotate => IInv'
<1> SUFFICES ASSUME IInv, Rotate PROVE IInv'
  OBVIOUS
<1> USE DEF IInv, Rotate
<1>1. TypeOK'
  BY DEF TypeOK
<1>2. LogOK' /\ BootsOK' /\ ResetOK'
  BY DEF LogOK, BootsOK, ResetOK
<1>3. NoOldSegfault' /\ EverySegfault' /\ KillsSinceBoot'
  BY DEF NoOldSegfault, EverySegfault, KillsSinceBoot
<1> QED
  BY <1>1, <1>2, <1>3

LEMMA CheckSegfaultIInv == IInv /\ CheckSegfault => IInv'
<1> SUFFICES ASSUME IInv, CheckSegfault PROVE IInv'
  OBVIOUS
<1> USE DEF IInv, CheckSegfault, hostVars
<1>1. segfault' = [old |-> {}, missed |-> {}]
  BY WindowCounted
<1>2. TypeOK'
  BY <1>1 DEF TypeOK
<1>3. LogOK' /\ BootsOK' /\ ResetOK'
  BY DEF LogOK, BootsOK, RebootSeen, ResetOK, KilledSinceBoot
<1>4. NoOldSegfault' /\ EverySegfault' /\ KillsSinceBoot'
  BY <1>1 DEF NoOldSegfault, EverySegfault, KillsSinceBoot
<1> QED
  BY <1>2, <1>3, <1>4

LEMMA KilledFinite == TypeOK => Cardinality(Killed) \in Nat
<1> SUFFICES ASSUME TypeOK PROVE Cardinality(Killed) \in Nat
  OBVIOUS
<1>1. Len(log) \in Nat /\ Killed \subseteq 1..Len(log)
  BY LogType DEF TypeOK, Killed
<1>2. IsFiniteSet(1..Len(log))
  BY <1>1, FS_Interval
<1> QED
  BY <1>1, <1>2, FS_Subset, FS_CardinalityType

LEMMA CheckOomIInv == IInv /\ CheckOom => IInv'
<1> SUFFICES ASSUME IInv, CheckOom PROVE IInv'
  OBVIOUS
<1> USE DEF IInv, CheckOom, hostVars
<1>1. Killed = KilledSinceBoot /\ Cardinality(Killed) \in Nat
  BY KillsCounted, KilledFinite
<1>2. /\ oom' \in [status : {"none", "OK", "WARNING", "CRITICAL"}, count : Nat, killed : Nat]
      /\ oom'.count = oom'.killed
      /\ oom'.status = "CRITICAL" => present /\ Killed # {}
  BY <1>1 DEF NoFile
<1>3. TypeOK'
  BY <1>2 DEF TypeOK
<1>4. LogOK' /\ BootsOK'
  BY DEF LogOK, BootsOK, RebootSeen
<1>5. ResetOK'
  BY <1>1, <1>2 DEF ResetOK, KilledSinceBoot
<1>6. NoOldSegfault' /\ EverySegfault' /\ KillsSinceBoot'
  BY <1>2 DEF NoOldSegfault, EverySegfault, KillsSinceBoot
<1> QED
  BY <1>3, <1>4, <1>5, <1>6

LEMMA NextIInv == IInv /\ [Next]_vars => IInv'
<1> SUFFICES ASSUME IInv, [Next]_vars PROVE IInv'
  OBVIOUS
<1>1. CASE Tick \/ Reboot \/ Rotate
  BY <1>1, TickIInv, RebootIInv, RotateIInv
<1>2. CASE \E kind \in Kind, skew \in 0..Ahead : Write(kind, skew)
  BY <1>2, WriteIInv
<1>3. CASE CheckSegfault \/ CheckOom
  BY <1>3, CheckSegfaultIInv, CheckOomIInv
<1>4. CASE UNCHANGED vars
  <2> USE <1>4 DEF vars, IInv
  <2>1. TypeOK' /\ LogOK' /\ BootsOK' /\ ResetOK'
    BY DEF TypeOK, LogOK, BootsOK, RebootSeen, ResetOK, KilledSinceBoot
  <2>2. NoOldSegfault' /\ EverySegfault' /\ KillsSinceBoot'
    BY DEF NoOldSegfault, EverySegfault, KillsSinceBoot
  <2> QED
    BY <2>1, <2>2
<1> QED
  BY <1>1, <1>2, <1>3, <1>4 DEF Next

\* The invariant holds in every reachable state.
THEOREM Invariance == Spec => []IInv
BY InitIInv, NextIInv, PTL DEF Spec

\* The variables have their types.
THEOREM TypeCorrect == Spec => []TypeOK
<1>1. IInv => TypeOK
  BY DEF IInv
<1> QED
  BY <1>1, Invariance, PTL

\* helpers.py:49-56, segfault.py:90-92: if no line is kept for more than half a year, no
\* segfault from before the window is counted, whatever the year and the window.
THEOREM NoOldSegfaultHolds == Spec => []NoOldSegfault
<1>1. IInv => NoOldSegfault
  BY DEF IInv
<1> QED
  BY <1>1, Invariance, PTL

\* segfault.py:90-92: in an ordered log, every segfault in the window is counted.
THEOREM EverySegfaultHolds == Spec => []EverySegfault
<1>1. IInv => EverySegfault
  BY DEF IInv
<1> QED
  BY <1>1, Invariance, PTL

\* oom.py:56-57: the kills counted are those since the last boot.
THEOREM KillsSinceBootHolds == Spec => []KillsSinceBoot
<1>1. IInv => KillsSinceBoot
  BY DEF IInv
<1> QED
  BY <1>1, Invariance, PTL

\* README.md:120: CRITICAL is sent again until the log is removed or the host restarted.
THEOREM CriticalStaysHolds == Spec => CriticalStays
<1>1. ASSUME IInv, [Next]_vars, oom.status = "CRITICAL", oom'.status # "CRITICAL"
      PROVE  reset
  <2>1. CASE CheckOom
    <3>1. ~reset => present /\ Killed # {}
      BY <1>1, KillsCounted DEF IInv, ResetOK
    <3>2. oom'.status = IF ~present THEN "WARNING" ELSE IF Killed = {} THEN "OK" ELSE "CRITICAL"
      BY <2>1 DEF CheckOom, NoFile
    <3>3. reset \in BOOLEAN
      BY <1>1 DEF IInv, TypeOK
    <3> QED
      BY <1>1, <3>1, <3>2, <3>3
  <2>2. CASE ~CheckOom
    <3>1. oom' = oom
      BY <1>1, <2>2 DEF Next, Tick, Reboot, Rotate, Write, CheckSegfault, vars
    <3> QED
      BY <1>1, <3>1
  <2> QED
    BY <2>1, <2>2
<1>2. IInv /\ [Next]_vars => [oom.status = "CRITICAL" /\ oom'.status # "CRITICAL" => reset]_vars
  BY <1>1
<1> QED
  BY <1>2, Invariance, PTL DEF Spec, CriticalStays

-----------------------------------------------------------------------------
(* Sets of numbers in their order.                                         *)

Rank(S, n) == Cardinality({m \in S : m <= n})

\* e lists the members of S in their order.
Enumerates(e, S) ==
  /\ e \in Seq(Nat)
  /\ \A i, j \in 1..Len(e) : i < j => e[i] < e[j]
  /\ S = {e[i] : i \in 1..Len(e)}

\* The k-th member has rank k.
LEMMA RankOfMember ==
  ASSUME NEW S, NEW e, Enumerates(e, S), NEW k \in 0..Len(e)
  PROVE  /\ Cardinality({e[i] : i \in 1..k}) = k
         /\ \A n \in S : k > 0 /\ n = e[k] => Rank(S, n) = k
<1> DEFINE T == {e[i] : i \in 1..k}
           f == [i \in 1..k |-> e[i]]
<1>1. Len(e) \in Nat /\ \A i \in 1..Len(e) : e[i] \in Nat
  BY ElementOfSeq DEF Enumerates
<1>2. f \in Bijection(1..k, T)
  <2>1. f \in [1..k -> T]
    OBVIOUS
  <2>2. \A i, j \in 1..k : f[i] = f[j] => i = j
    <3> SUFFICES ASSUME NEW i \in 1..k, NEW j \in 1..k, e[i] = e[j], i # j PROVE FALSE
      OBVIOUS
    <3>1. i \in 1..Len(e) /\ j \in 1..Len(e) /\ (i < j \/ j < i)
      BY <1>1
    <3>2. e[i] < e[j] \/ e[j] < e[i]
      BY <3>1 DEF Enumerates
    <3> QED BY <1>1, <3>1, <3>2
  <2>3. \A t \in T : \E i \in 1..k : f[i] = t
    OBVIOUS
  <2> QED BY <2>1, <2>2, <2>3 DEF Bijection, Injection, Surjection, IsInjective
<1>3. Cardinality(T) = k
  <2>1. ExistsBijection(1..k, T)
    BY <1>2 DEF ExistsBijection
  <2>2. k \in Nat
    BY <1>1
  <2> QED BY <2>1, <2>2, FS_CountingElements
<1>4. ASSUME NEW n \in S, k > 0, n = e[k]
      PROVE  {m \in S : m <= n} = T
  <2>1. \A i \in 1..Len(e) : e[i] <= e[k] <=> i <= k
    BY <1>1, <1>4 DEF Enumerates
  <2>2. S = {e[i] : i \in 1..Len(e)}
    BY DEF Enumerates
  <2>3. \A i \in 1..k : i \in 1..Len(e) /\ i <= k
    BY <1>1
  <2>4. ASSUME NEW m \in S, m <= n
        PROVE  m \in T
    <3>1. PICK i \in 1..Len(e) : m = e[i]
      BY <2>2
    <3>2. i <= k
      BY <1>4, <2>1, <2>4, <3>1
    <3>3. i \in 1..k
      BY <1>1, <3>2
    <3> QED BY <3>1, <3>3
  <2>5. ASSUME NEW m \in T
        PROVE  m \in S /\ m <= n
    <3>1. PICK i \in 1..k : m = e[i]
      OBVIOUS
    <3> QED BY <1>4, <2>1, <2>2, <2>3, <3>1
  <2> HIDE DEF T
  <2> QED BY <2>4, <2>5
<1> QED BY <1>3, <1>4 DEF Rank

\* Ranks tell the members apart,
LEMMA RanksDiffer ==
  ASSUME NEW S \in SUBSET Nat, IsFiniteSet(S), NEW m \in S, NEW n \in S, m < n
  PROVE  Rank(S, m) < Rank(S, n)
<1> DEFINE UpTo(x) == {y \in S : y <= x}
<1>1. UpTo(m) \subseteq UpTo(n) /\ n \in UpTo(n) /\ n \notin UpTo(m)
  <2>1. m \in Nat /\ n \in Nat
    OBVIOUS
  <2>2. \A y \in S : y \in Nat /\ (y <= m => y <= n)
    BY <2>1
  <2>3. n <= n /\ ~(n <= m)
    BY <2>1
  <2> QED BY <2>2, <2>3
<1>2. IsFiniteSet(UpTo(m)) /\ IsFiniteSet(UpTo(n))
  BY FS_Subset
<1>3. /\ Cardinality(UpTo(m)) \in Nat /\ Cardinality(UpTo(n)) \in Nat
      /\ Cardinality(UpTo(m)) <= Cardinality(UpTo(n))
      /\ Cardinality(UpTo(m)) # Cardinality(UpTo(n))
  BY <1>1, <1>2, FS_Subset, FS_CardinalityType
<1> QED BY <1>3 DEF Rank

LEMMA RankType ==
  ASSUME NEW S \in SUBSET Nat, IsFiniteSet(S), NEW n \in S
  PROVE  Rank(S, n) \in 1..Cardinality(S)
<1> DEFINE U == {m \in S : m <= n}
<1>1. U \in SUBSET S /\ n \in U
  OBVIOUS
<1>2. IsFiniteSet(U) /\ Cardinality(U) <= Cardinality(S) /\ Cardinality(S) \in Nat
  BY <1>1, FS_Subset, FS_CardinalityType
<1>3. Cardinality(U) \in Nat /\ Cardinality(U) # 0
  BY <1>1, <1>2, FS_CardinalityType, FS_EmptySet
<1> HIDE DEF U
<1>4. Cardinality(U) \in 1..Cardinality(S)
  BY <1>2, <1>3
<1> QED BY <1>4 DEF Rank, U

LEMMA SameRank ==
  ASSUME NEW S \in SUBSET Nat, IsFiniteSet(S), NEW m \in S, NEW n \in S, Rank(S, m) = Rank(S, n)
  PROVE  m = n
<1>1. m \in Nat /\ n \in Nat /\ Rank(S, m) \in Nat /\ Rank(S, n) \in Nat
  BY RankType, FS_CardinalityType
<1>2. ~(m < n) /\ ~(n < m)
  BY <1>1, RanksDiffer
<1> QED BY <1>1, <1>2

\* and none is left out.
LEMMA RanksAreAll ==
  ASSUME NEW S \in SUBSET Nat, IsFiniteSet(S), NEW k \in 1..Cardinality(S)
  PROVE  \E n \in S : Rank(S, n) = k
<1> DEFINE N == Cardinality(S)
           f == [n \in S |-> Rank(S, n)]
<1>1. N \in Nat
  BY FS_CardinalityType
<1>2. \A n \in S : Rank(S, n) \in 1..N
  BY RankType
<1>3. f \in Injection(S, 1..N)
  <2>1. f \in [S -> 1..N]
    BY <1>2
  <2>2. \A m, n \in S : f[m] = f[n] => m = n
    BY SameRank
  <2> QED BY <2>1, <2>2 DEF Injection, IsInjective
<1>4. IsFiniteSet(1..N) /\ Cardinality(1..N) = N
  BY <1>1, FS_Interval
<1>5. f \in Surjection(S, 1..N)
  BY <1>3, <1>4, FS_Injection
<1> QED BY <1>5 DEF Surjection

\* Sorted lists a finite set of numbers,
LEMMA SortedEnumerates ==
  ASSUME NEW S \in SUBSET Nat, IsFiniteSet(S)
  PROVE  Enumerates(Sorted(S), S)
<1> DEFINE N == Cardinality(S)
           At(k) == CHOOSE n \in S : Rank(S, n) = k
<1>1. N \in Nat
  BY FS_CardinalityType
<1>2. \A k \in 1..N : At(k) \in S /\ Rank(S, At(k)) = k
  BY RanksAreAll
<1>3. Sorted(S) = [k \in 1..N |-> At(k)]
  BY DEF Sorted, Rank
<1> HIDE DEF N, At
<1>4. Sorted(S) \in Seq(Nat) /\ Len(Sorted(S)) = N
  <2>1. Sorted(S) \in [1..N -> Nat]
    BY <1>2, <1>3
  <2> QED BY <1>1, <2>1, LenProperties
<1>5. \A i \in 1..N : Sorted(S)[i] = At(i)
  BY <1>3
<1>6. ASSUME NEW i \in 1..N, NEW j \in 1..N, i < j PROVE At(i) < At(j)
  <2>1. /\ At(i) \in S /\ At(j) \in S /\ At(i) \in Nat /\ At(j) \in Nat
        /\ Rank(S, At(i)) = i /\ Rank(S, At(j)) = j
    BY <1>2
  <2>2. ASSUME At(j) < At(i) PROVE FALSE
    <3>1. Rank(S, At(j)) < Rank(S, At(i))
      BY <2>1, <2>2, RanksDiffer
    <3> QED BY <1>1, <1>6, <2>1, <3>1
  <2>3. At(i) # At(j)
    BY <1>1, <1>6, <2>1
  <2> QED BY <2>1, <2>2, <2>3
<1>7. ASSUME NEW n \in S PROVE \E i \in 1..N : n = At(i)
  <2>1. Rank(S, n) \in 1..N
    BY RankType DEF N
  <2>2. PICK i \in 1..N : i = Rank(S, n)
    BY <2>1
  <2>3. At(i) \in S /\ Rank(S, At(i)) = i
    BY <1>2
  <2>4. PICK m \in S : m = At(i) /\ Rank(S, m) = i
    BY <2>3
  <2>5. m = n
    BY <2>2, <2>4, SameRank
  <2> QED BY <2>4, <2>5
<1>8. S = {Sorted(S)[i] : i \in 1..N}
  BY <1>2, <1>5, <1>7
<1>9. \A i, j \in 1..N : i < j => Sorted(S)[i] < Sorted(S)[j]
  BY <1>5, <1>6
<1> QED BY <1>4, <1>8, <1>9 DEF Enumerates

\* and what lists it is Sorted.
LEMMA SortedIs ==
  ASSUME NEW S, NEW e, Enumerates(e, S)
  PROVE  Sorted(S) = e
<1>1. e \in Seq(Nat) /\ Len(e) \in Nat /\ \A i \in 1..Len(e) : e[i] \in Nat /\ e[i] \in S
  BY ElementOfSeq DEF Enumerates
<1>2. Cardinality(S) = Len(e)
  <2>1. Len(e) \in 0..Len(e)
    BY <1>1
  <2>2. Cardinality({e[i] : i \in 1..Len(e)}) = Len(e)
    BY <2>1, RankOfMember
  <2> QED BY <2>2 DEF Enumerates
<1>3. \A k \in 1..Len(e) : \A n \in S : Rank(S, n) = k <=> n = e[k]
  <2> SUFFICES ASSUME NEW k \in 1..Len(e), NEW n \in S PROVE Rank(S, n) = k <=> n = e[k]
    OBVIOUS
  <2>1. PICK i \in 1..Len(e) : n = e[i]
    BY DEF Enumerates
  <2>2. Rank(S, n) = i
    <3>1. i \in 0..Len(e) /\ i > 0
      BY <1>1
    <3> QED BY <2>1, <3>1, RankOfMember
  <2>3. e[i] = e[k] <=> i = k
    BY <1>1 DEF Enumerates
  <2> QED BY <2>1, <2>2, <2>3
<1>4. \A k \in 1..Len(e) : (CHOOSE n \in S : Rank(S, n) = k) = e[k]
  BY <1>1, <1>3
<1>5. Sorted(S) = [k \in 1..Len(e) |-> CHOOSE n \in S : Rank(S, n) = k]
  BY <1>2 DEF Sorted, Rank
<1>6. e = [k \in 1..Len(e) |-> e[k]]
  BY <1>1, LenProperties
<1> QED BY <1>4, <1>5, <1>6

LEMMA SortedFacts ==
  ASSUME NEW S \in SUBSET Nat, IsFiniteSet(S)
  PROVE  /\ Sorted(S) \in Seq(Nat) /\ Len(Sorted(S)) \in Nat
         /\ DOMAIN Sorted(S) = 1..Len(Sorted(S))
         /\ \A i \in 1..Len(Sorted(S)) : Sorted(S)[i] \in S /\ Sorted(S)[i] \in Nat
         /\ \A n \in S : \E i \in 1..Len(Sorted(S)) : n = Sorted(S)[i]
         /\ \A i, j \in 1..Len(Sorted(S)) : i < j => Sorted(S)[i] < Sorted(S)[j]
<1>1. Enumerates(Sorted(S), S)
  BY SortedEnumerates
<1>2. Sorted(S) \in Seq(Nat)
  BY <1>1 DEF Enumerates
<1>3. Len(Sorted(S)) \in Nat /\ DOMAIN Sorted(S) = 1..Len(Sorted(S))
  BY <1>2, LenProperties
<1> QED BY <1>1, <1>2, <1>3 DEF Enumerates

\* Behind the members of S come those of T, shifted.
LEMMA SortedUnion ==
  ASSUME NEW S \in SUBSET Nat, IsFiniteSet(S), NEW T \in SUBSET Nat, IsFiniteSet(T),
         NEW d \in Nat, \A m \in S, n \in T : m < n + d
  PROVE  LET s == Sorted(S)
             t == Sorted(T)
             u == Sorted(S \union {n + d : n \in T})
         IN  /\ u \in Seq(Nat) /\ Len(u) = Len(s) + Len(t)
             /\ \A k \in 1..Len(s) : u[k] = s[k]
             /\ \A k \in 1..Len(t) : u[Len(s) + k] = t[k] + d
<1> DEFINE s == Sorted(S)
           t == Sorted(T)
           p == Len(s)
           q == Len(t)
           U == S \union {n + d : n \in T}
           e == [k \in 1..(p + q) |-> IF k <= p THEN s[k] ELSE t[k - p] + d]
<1>1. /\ p \in Nat /\ \A i \in 1..p : s[i] \in S /\ s[i] \in Nat
      /\ \A n \in S : \E i \in 1..p : n = s[i]
      /\ \A i, j \in 1..p : i < j => s[i] < s[j]
  BY SortedFacts
<1>2. /\ q \in Nat /\ \A i \in 1..q : t[i] \in T /\ t[i] \in Nat
      /\ \A n \in T : \E i \in 1..q : n = t[i]
      /\ \A i, j \in 1..q : i < j => t[i] < t[j]
  BY SortedFacts
<1> HIDE DEF s, t, p, q
<1>3. \A k \in 1..(p + q) : k > p => k - p \in 1..q
  BY <1>1, <1>2
<1>4. \A k \in 1..(p + q) : k <= p => k \in 1..p
  BY <1>1, <1>2
<1>5. \A k \in 1..(p + q) : e[k] = IF k <= p THEN s[k] ELSE t[k - p] + d
  OBVIOUS
<1>6. \A k \in 1..(p + q) : e[k] \in U /\ e[k] \in Nat
  BY <1>1, <1>2, <1>3, <1>4, <1>5
<1>7. e \in Seq(Nat) /\ Len(e) = p + q
  <2>1. e \in [1..(p + q) -> Nat]
    BY <1>6
  <2>2. p + q \in Nat
    BY <1>1, <1>2
  <2> QED BY <2>1, <2>2, LenProperties
<1>8. \A k \in 1..q : p + k \in 1..(p + q) /\ e[p + k] = t[k] + d
  <2> SUFFICES ASSUME NEW k \in 1..q PROVE p + k \in 1..(p + q) /\ e[p + k] = t[k] + d
    OBVIOUS
  <2>1. p + k \in 1..(p + q) /\ ~(p + k <= p) /\ (p + k) - p = k
    BY <1>1, <1>2
  <2> QED BY <1>5, <2>1
<1>9. \A k \in 1..p : k \in 1..(p + q) /\ e[k] = s[k]
  BY <1>1, <1>2, <1>5
<1>10. \A i, j \in 1..(p + q) : i < j => e[i] < e[j]
  <2> SUFFICES ASSUME NEW i \in 1..(p + q), NEW j \in 1..(p + q), i < j PROVE e[i] < e[j]
    OBVIOUS
  <2>1. CASE j <= p
    BY <1>1, <1>4, <1>5, <2>1
  <2>2. CASE i <= p /\ ~(j <= p)
    <3>1. s[i] \in S /\ t[j - p] \in T
      BY <1>1, <1>2, <1>3, <1>4, <2>2
    <3> QED BY <1>5, <2>2, <3>1
  <2>3. CASE ~(i <= p) /\ ~(j <= p)
    <3>1. i - p \in 1..q /\ j - p \in 1..q /\ i - p < j - p
      BY <1>1, <1>2, <1>3, <2>3
    <3>2. t[i - p] < t[j - p] /\ t[i - p] \in Nat /\ t[j - p] \in Nat
      BY <1>2, <3>1
    <3> QED BY <1>5, <2>3, <3>2
  <2> QED BY <1>1, <1>2, <2>1, <2>2, <2>3
<1>11. U = {e[k] : k \in 1..(p + q)}
  <2>1. ASSUME NEW n \in U PROVE \E k \in 1..(p + q) : n = e[k]
    <3>1. CASE n \in S
      BY <1>1, <1>9, <3>1
    <3>2. CASE n \in {m + d : m \in T}
      <4>1. PICK k \in 1..q : n = t[k] + d
        BY <1>2, <3>2
      <4> QED BY <1>8, <4>1
    <3> QED BY <3>1, <3>2
  <2> QED BY <1>6, <2>1
<1> HIDE DEF e, U
<1>12. Enumerates(e, U)
  BY <1>7, <1>10, <1>11 DEF Enumerates
<1>13. Sorted(U) = e
  BY <1>12, SortedIs
<1> QED BY <1>7, <1>8, <1>9, <1>13 DEF s, t, p, q, U

\* A set whose members are all the numbers up to n.
LEMMA SortedInterval ==
  ASSUME NEW n \in Nat
  PROVE  Sorted(1..n) = [k \in 1..n |-> k]
<1> DEFINE e == [k \in 1..n |-> k]
<1>1. e \in Seq(Nat) /\ Len(e) = n
  <2>1. e \in [1..n -> Nat]
    OBVIOUS
  <2> QED BY <2>1, LenProperties
<1>2. Enumerates(e, 1..n)
  BY <1>1 DEF Enumerates
<1> QED BY <1>2, SortedIs

-----------------------------------------------------------------------------
(* The lines that are not empty.                                           *)

Kept(lines) == {i \in 1..Len(lines) : lines[i] # <<>>}

LEMMA KeptType ==
  ASSUME NEW lines \in Seq(Text)
  PROVE  /\ Len(lines) \in Nat /\ Kept(lines) \in SUBSET Nat /\ IsFiniteSet(Kept(lines))
         /\ NonEmpty(lines) =
              [k \in 1..Len(Sorted(Kept(lines))) |-> lines[Sorted(Kept(lines))[k]]]
<1>1. Len(lines) \in Nat /\ DOMAIN lines = 1..Len(lines)
  BY LenProperties
<1>2. Kept(lines) \in SUBSET Nat /\ Kept(lines) \in SUBSET (1..Len(lines))
  BY <1>1 DEF Kept
<1>3. IsFiniteSet(Kept(lines))
  <2>1. 1 \in Int /\ Len(lines) \in Int
    BY <1>1
  <2>2. IsFiniteSet(1..Len(lines))
    BY <2>1, FS_Interval
  <2> QED BY <1>2, <2>2, FS_Subset
<1>4. Kept(lines) = {i \in DOMAIN lines : lines[i] # <<>>}
  BY <1>1 DEF Kept
<1>5. DOMAIN Sorted(Kept(lines)) = 1..Len(Sorted(Kept(lines)))
  BY <1>2, <1>3, SortedFacts
<1> QED BY <1>1, <1>2, <1>3, <1>4, <1>5 DEF NonEmpty

LEMMA NonEmptyType ==
  ASSUME NEW lines \in Seq(Text)
  PROVE  /\ NonEmpty(lines) \in Seq(Text) /\ Len(NonEmpty(lines)) = Len(Sorted(Kept(lines)))
         /\ \A k \in 1..Len(NonEmpty(lines)) : NonEmpty(lines)[k] # <<>>
<1> DEFINE s == Sorted(Kept(lines))
<1>1. Len(s) \in Nat /\ \A k \in 1..Len(s) : s[k] \in Kept(lines)
  BY KeptType, SortedFacts
<1>2. \A k \in 1..Len(s) : lines[s[k]] \in Text /\ lines[s[k]] # <<>>
  BY <1>1, ElementOfSeq DEF Kept
<1>3. NonEmpty(lines) = [k \in 1..Len(s) |-> lines[s[k]]]
  BY KeptType
<1> HIDE DEF s
<1>4. NonEmpty(lines) \in [1..Len(s) -> Text]
  BY <1>2, <1>3
<1>5. NonEmpty(lines) \in Seq(Text) /\ Len(NonEmpty(lines)) = Len(s)
  BY <1>1, <1>4, LenProperties
<1> QED BY <1>2, <1>3, <1>5 DEF s

LEMMA NonEmptyConcat ==
  ASSUME NEW a \in Seq(Text), NEW b \in Seq(Text)
  PROVE  NonEmpty(a \o b) = NonEmpty(a) \o NonEmpty(b)
<1> DEFINE d == Len(a)
           s == Sorted(Kept(a))
           t == Sorted(Kept(b))
           u == Sorted(Kept(a \o b))
<1>1. /\ a \o b \in Seq(Text) /\ Len(a) \in Nat /\ Len(b) \in Nat /\ Len(a \o b) = Len(a) + Len(b)
      /\ \A i \in 1..Len(a) + Len(b) : (a \o b)[i] = IF i <= Len(a) THEN a[i] ELSE b[i - Len(a)]
  BY ConcatProperties, LenProperties
<1>2. /\ \A i \in 1..Len(a) : (a \o b)[i] = a[i]
      /\ \A i \in 1..Len(b) : i + Len(a) \in 1..Len(a) + Len(b) /\ (a \o b)[i + Len(a)] = b[i]
  <2>1. ASSUME NEW i \in 1..Len(b)
        PROVE  i + Len(a) \in 1..Len(a) + Len(b) /\ (a \o b)[i + Len(a)] = b[i]
    <3>1. i + Len(a) \in 1..Len(a) + Len(b) /\ ~(i + Len(a) <= Len(a)) /\ (i + Len(a)) - Len(a) = i
      BY <1>1
    <3> QED BY <1>1, <3>1
  <2> QED BY <1>1, <2>1
<1>3. Kept(a \o b) = Kept(a) \union {i + Len(a) : i \in Kept(b)}
  <2>1. ASSUME NEW i \in 1..Len(a) + Len(b), (a \o b)[i] # <<>>
        PROVE  i \in Kept(a) \/ \E j \in Kept(b) : i = j + Len(a)
    <3>1. CASE i <= Len(a)
      BY <1>1, <2>1, <3>1 DEF Kept
    <3>2. CASE ~(i <= Len(a))
      <4>1. i - Len(a) \in 1..Len(b) /\ i = (i - Len(a)) + Len(a)
        BY <1>1, <3>2
      <4>2. i - Len(a) \in Kept(b)
        BY <1>1, <2>1, <3>2, <4>1 DEF Kept
      <4> QED BY <4>1, <4>2
    <3> QED BY <3>1, <3>2
  <2>2. ASSUME NEW i \in Kept(a) PROVE i \in Kept(a \o b)
    BY <1>1, <1>2 DEF Kept
  <2>3. ASSUME NEW j \in Kept(b) PROVE j + Len(a) \in Kept(a \o b)
    BY <1>1, <1>2 DEF Kept
  <2>4. Kept(a \o b) = {i \in 1..Len(a) + Len(b) : (a \o b)[i] # <<>>}
    BY <1>1 DEF Kept
  <2> QED BY <2>1, <2>2, <2>3, <2>4
<1>4. \A m \in Kept(a), n \in Kept(b) : m < n + d
  BY <1>1 DEF Kept
<1>5. /\ u \in Seq(Nat) /\ Len(u) = Len(s) + Len(t)
      /\ \A k \in 1..Len(s) : u[k] = s[k]
      /\ \A k \in 1..Len(t) : u[Len(s) + k] = t[k] + d
  <2>1. /\ Kept(a) \in SUBSET Nat /\ IsFiniteSet(Kept(a))
        /\ Kept(b) \in SUBSET Nat /\ IsFiniteSet(Kept(b)) /\ d \in Nat
    BY <1>1, KeptType
  <2> DEFINE A == Kept(a)
             B == Kept(b)
  <2>2. A \in SUBSET Nat /\ IsFiniteSet(A) /\ B \in SUBSET Nat /\ IsFiniteSet(B) /\ d \in Nat
    BY <2>1
  <2>3. \A m \in A, n \in B : m < n + d
    BY <1>4
  <2>4. u = Sorted(A \union {n + d : n \in B})
    BY <1>3
  <2>5. s = Sorted(A) /\ t = Sorted(B)
    OBVIOUS
  <2> DEFINE v == Sorted(A \union {n + d : n \in B})
  <2> HIDE DEF A, B, s, t, u, d
  <2>6. /\ v \in Seq(Nat) /\ Len(v) = Len(Sorted(A)) + Len(Sorted(B))
        /\ \A k \in 1..Len(Sorted(A)) : v[k] = Sorted(A)[k]
        /\ \A k \in 1..Len(Sorted(B)) : v[Len(Sorted(A)) + k] = Sorted(B)[k] + d
    BY <2>2, <2>3, SortedUnion
  <2>7. u = v
    BY <2>4
  <2> HIDE DEF v
  <2> QED BY <2>5, <2>6, <2>7
<1>6. /\ Len(s) \in Nat /\ \A k \in 1..Len(s) : s[k] \in Kept(a)
      /\ Len(t) \in Nat /\ \A k \in 1..Len(t) : t[k] \in Kept(b)
  BY KeptType, SortedFacts
<1>7. /\ NonEmpty(a \o b) \in Seq(Text) /\ Len(NonEmpty(a \o b)) = Len(u)
      /\ NonEmpty(a) \in Seq(Text) /\ Len(NonEmpty(a)) = Len(s)
      /\ NonEmpty(b) \in Seq(Text) /\ Len(NonEmpty(b)) = Len(t)
  BY <1>1, NonEmptyType
<1>8. /\ \A k \in 1..Len(u) : NonEmpty(a \o b)[k] = (a \o b)[u[k]]
      /\ \A k \in 1..Len(s) : NonEmpty(a)[k] = a[s[k]]
      /\ \A k \in 1..Len(t) : NonEmpty(b)[k] = b[t[k]]
  BY <1>1, KeptType
<1> HIDE DEF s, t, u
<1>9. /\ NonEmpty(a) \o NonEmpty(b) \in Seq(Text)
      /\ Len(NonEmpty(a) \o NonEmpty(b)) = Len(s) + Len(t)
      /\ \A k \in 1..Len(s) + Len(t) : (NonEmpty(a) \o NonEmpty(b))[k] =
           IF k <= Len(s) THEN NonEmpty(a)[k] ELSE NonEmpty(b)[k - Len(s)]
  <2> DEFINE x == NonEmpty(a)
             y == NonEmpty(b)
  <2>1. x \in Seq(Text) /\ y \in Seq(Text) /\ Len(x) = Len(s) /\ Len(y) = Len(t)
    BY <1>7
  <2> HIDE DEF x, y
  <2>2. /\ x \o y \in Seq(Text) /\ Len(x \o y) = Len(x) + Len(y)
        /\ \A k \in 1..Len(x) + Len(y) : (x \o y)[k] =
             IF k <= Len(x) THEN x[k] ELSE y[k - Len(x)]
    BY <2>1, ConcatProperties
  <2> QED BY <2>1, <2>2 DEF x, y
<1>10. ASSUME NEW k \in 1..Len(s) + Len(t)
       PROVE  NonEmpty(a \o b)[k] = (NonEmpty(a) \o NonEmpty(b))[k]
  <2>1. CASE k <= Len(s)
    <3>1. k \in 1..Len(s) /\ s[k] \in 1..Len(a)
      BY <1>6, <2>1 DEF Kept
    <3>2. NonEmpty(a \o b)[k] = (a \o b)[s[k]]
      BY <1>5, <1>8, <3>1
    <3> QED BY <1>2, <1>8, <1>9, <2>1, <3>1, <3>2
  <2>2. CASE ~(k <= Len(s))
    <3>1. k - Len(s) \in 1..Len(t) /\ k = Len(s) + (k - Len(s))
      BY <1>6, <2>2
    <3>2. t[k - Len(s)] \in 1..Len(b) /\ u[k] = t[k - Len(s)] + d
      BY <1>5, <1>6, <3>1 DEF Kept
    <3>3. NonEmpty(a \o b)[k] = (a \o b)[u[k]]
      BY <1>5, <1>8
    <3>4. NonEmpty(a \o b)[k] = b[t[k - Len(s)]]
      BY <1>2, <3>2, <3>3
    <3> QED BY <1>8, <1>9, <2>2, <3>1, <3>4
  <2> QED BY <2>1, <2>2
<1> QED BY <1>5, <1>7, <1>9, <1>10, SeqEqual

\* Lines of which none is empty stay what they are.
LEMMA NonEmptyAll ==
  ASSUME NEW lines \in Seq(Text), \A k \in 1..Len(lines) : lines[k] # <<>>
  PROVE  NonEmpty(lines) = lines
<1>1. Kept(lines) = 1..Len(lines) /\ Len(lines) \in Nat
  BY KeptType DEF Kept
<1>2. Sorted(Kept(lines)) = [k \in 1..Len(lines) |-> k]
  BY <1>1, SortedInterval
<1>3. Len(Sorted(Kept(lines))) = Len(lines)
  BY <1>1, <1>2, LenProperties
<1>4. NonEmpty(lines) = [k \in 1..Len(lines) |-> lines[k]]
  BY <1>2, <1>3, KeptType
<1> QED BY <1>4, LenProperties

LEMMA NonEmptyTwice ==
  ASSUME NEW lines \in Seq(Text)
  PROVE  NonEmpty(NonEmpty(lines)) = NonEmpty(lines)
BY NonEmptyType, NonEmptyAll

LEMMA NonEmptyOfEmpty == NonEmpty(<<>>) = <<>> /\ NonEmpty(<< <<>> >>) = <<>>
<1>1. <<>> \in Text
  BY EmptySeq DEF Text
<1>2. <<>> \in Seq(Text) /\ << <<>> >> \in Seq(Text)
  BY <1>1
<1>3. NonEmpty(<<>>) = <<>>
  <2>1. \A k \in 1..Len(<<>>) : <<>>[k] # <<>>
    <3>1. Len(<<>>) = 0 /\ 1..0 = {}
      BY EmptySeq
    <3> QED BY <3>1
  <2> QED BY <1>2, <2>1, NonEmptyAll
<1>4. Kept(<< <<>> >>) = {}
  BY DEF Kept
<1>5. Sorted({}) = <<>>
  <2>1. Enumerates(<<>>, {})
    BY EmptySeq DEF Enumerates
  <2> QED BY <2>1, SortedIs
<1>6. NonEmpty(<< <<>> >>) \in Seq(Text) /\ Len(NonEmpty(<< <<>> >>)) = Len(Sorted({}))
  BY <1>2, <1>4, NonEmptyType
<1>7. Len(NonEmpty(<< <<>> >>)) = 0
  BY <1>5, <1>6, EmptySeq
<1>8. NonEmpty(<< <<>> >>) = <<>>
  BY <1>6, <1>7, EmptySeq
<1> QED BY <1>3, <1>8

-----------------------------------------------------------------------------
(* Parts of a concatenation, and its reverse.                              *)

LEMMA ConcatParts ==
  ASSUME NEW S, NEW a \in Seq(S), NEW b \in Seq(S)
  PROVE  /\ a \o b \in Seq(S) /\ Len(a) \in Nat /\ Len(b) \in Nat /\ Len(a \o b) = Len(a) + Len(b)
         /\ \A i \in 1..Len(a) : i \in 1..Len(a \o b) /\ (a \o b)[i] = a[i]
         /\ \A i \in 1..Len(b) : Len(a) + i \in 1..Len(a \o b) /\ (a \o b)[Len(a) + i] = b[i]
<1>1. /\ a \o b \in Seq(S) /\ Len(a) \in Nat /\ Len(b) \in Nat /\ Len(a \o b) = Len(a) + Len(b)
      /\ \A i \in 1..Len(a) + Len(b) : (a \o b)[i] = IF i <= Len(a) THEN a[i] ELSE b[i - Len(a)]
  BY ConcatProperties, LenProperties
<1>2. \A i \in 1..Len(a) : i \in 1..Len(a) + Len(b) /\ i <= Len(a)
  BY <1>1
<1>3. \A i \in 1..Len(b) : /\ Len(a) + i \in 1..Len(a) + Len(b) /\ ~(Len(a) + i <= Len(a))
                           /\ (Len(a) + i) - Len(a) = i
  BY <1>1
<1> QED BY <1>1, <1>2, <1>3

\* A part of a sequence within its bounds.
LEMMA PartOf ==
  ASSUME NEW S, NEW s \in Seq(S), NEW p \in Nat \ {0}, NEW q \in Nat, q <= Len(s)
  PROVE  /\ SubSeq(s, p, q) \in Seq(S)
         /\ Len(SubSeq(s, p, q)) = IF p <= q THEN q - p + 1 ELSE 0
         /\ \A i \in 1..(q - p + 1) : SubSeq(s, p, q)[i] = s[p + i - 1]
<1>1. p \in Int /\ q \in Int /\ Len(s) \in Nat
  BY LenProperties
<1>2. \A i \in p..q : i \in 1..Len(s)
  BY <1>1
<1>3. \A i \in p..q : s[i] \in S
  BY <1>2, ElementOfSeq
<1> QED BY <1>1, <1>3, SubSeqProperties

LEMMA PartLeft ==
  ASSUME NEW S, NEW a \in Seq(S), NEW b \in Seq(S),
         NEW p \in Nat \ {0}, NEW q \in Nat, q <= Len(a)
  PROVE  SubSeq(a \o b, p, q) = SubSeq(a, p, q)
<1>1. /\ a \o b \in Seq(S) /\ Len(a) \in Nat /\ Len(b) \in Nat /\ Len(a \o b) = Len(a) + Len(b)
      /\ \A i \in 1..Len(a) : (a \o b)[i] = a[i]
  BY ConcatParts
<1>2. q <= Len(a \o b)
  BY <1>1
<1> DEFINE c == a \o b
           x == SubSeq(c, p, q)
           y == SubSeq(a, p, q)
<1>3. /\ x \in Seq(S) /\ Len(x) = IF p <= q THEN q - p + 1 ELSE 0
      /\ \A i \in 1..(q - p + 1) : x[i] = c[p + i - 1]
  <2>1. c \in Seq(S) /\ q <= Len(c)
    BY <1>1, <1>2
  <2> HIDE DEF c
  <2> QED BY <2>1, PartOf
<1>4. /\ y \in Seq(S) /\ Len(y) = IF p <= q THEN q - p + 1 ELSE 0
      /\ \A i \in 1..(q - p + 1) : y[i] = a[p + i - 1]
  BY PartOf
<1>5. \A i \in 1..(q - p + 1) : p + i - 1 \in 1..Len(a)
  BY <1>1
<1>6. \A i \in 1..(q - p + 1) : c[p + i - 1] = a[p + i - 1]
  BY <1>1, <1>5
<1> HIDE DEF x, y, c
<1>7. \A i \in 1..Len(x) : x[i] = y[i]
  BY <1>3, <1>4, <1>6
<1>8. x = y
  BY <1>3, <1>4, <1>7, SeqEqual
<1> QED BY <1>8 DEF x, y, c

LEMMA PartRight ==
  ASSUME NEW S, NEW a \in Seq(S), NEW b \in Seq(S),
         NEW p \in Nat \ {0}, NEW q \in Nat, q <= Len(b)
  PROVE  SubSeq(a \o b, Len(a) + p, Len(a) + q) = SubSeq(b, p, q)
<1> DEFINE c == a \o b
           d == Len(a)
           x == SubSeq(c, d + p, d + q)
           y == SubSeq(b, p, q)
<1>1. /\ c \in Seq(S) /\ d \in Nat /\ Len(b) \in Nat /\ Len(c) = d + Len(b)
      /\ \A i \in 1..Len(b) : c[d + i] = b[i]
  BY ConcatParts
<1> HIDE DEF c, d
<1>2. /\ x \in Seq(S) /\ Len(x) = IF d + p <= d + q THEN (d + q) - (d + p) + 1 ELSE 0
      /\ \A i \in 1..((d + q) - (d + p) + 1) : x[i] = c[(d + p) + i - 1]
  <2>1. d + p \in Nat \ {0} /\ d + q \in Nat /\ d + q <= Len(c)
    BY <1>1
  <2> QED BY <1>1, <2>1, PartOf
<1>3. /\ y \in Seq(S) /\ Len(y) = IF p <= q THEN q - p + 1 ELSE 0
      /\ \A i \in 1..(q - p + 1) : y[i] = b[p + i - 1]
  BY PartOf
<1>4. (d + q) - (d + p) + 1 = q - p + 1 /\ (d + p <= d + q <=> p <= q)
  BY <1>1
<1>5. \A i \in 1..(q - p + 1) : p + i - 1 \in 1..Len(b) /\ (d + p) + i - 1 = d + (p + i - 1)
  BY <1>1
<1>6. \A i \in 1..(q - p + 1) : c[(d + p) + i - 1] = b[p + i - 1]
  BY <1>1, <1>5
<1> HIDE DEF x, y
<1>7. Len(x) = Len(y) /\ \A i \in 1..Len(x) : x[i] = y[i]
  BY <1>2, <1>3, <1>4, <1>6
<1>8. x = y
  BY <1>2, <1>3, <1>7, SeqEqual
<1> QED BY <1>8 DEF x, y, c, d

LEMMA PartAcross ==
  ASSUME NEW S, NEW a \in Seq(S), NEW b \in Seq(S),
         NEW p \in 1..(Len(a) + 1), NEW q \in 0..Len(b)
  PROVE  SubSeq(a \o b, p, Len(a) + q) = SubSeq(a, p, Len(a)) \o SubSeq(b, 1, q)
<1> DEFINE c == a \o b
           d == Len(a)
<1>1. /\ c \in Seq(S) /\ d \in Nat /\ Len(b) \in Nat /\ Len(c) = d + Len(b)
  BY ConcatParts
<1>2. SubSeq(c, p, d) = SubSeq(a, p, Len(a))
  <2>1. p \in Nat \ {0} /\ d \in Nat /\ d <= Len(a)
    BY <1>1
  <2> QED BY <2>1, PartLeft
<1>3. SubSeq(c, d + 1, d + q) = SubSeq(b, 1, q)
  <2>1. 1 \in Nat \ {0} /\ q \in Nat /\ q <= Len(b)
    BY <1>1
  <2> QED BY <2>1, PartRight
<1> HIDE DEF c, d
<1>4. p \in 1..(Len(c) + 1) /\ d \in (p - 1)..Len(c) /\ d + q \in d..Len(c)
  BY <1>1 DEF d
<1>5. SubSeq(c, p, d) \o SubSeq(c, d + 1, d + q) = SubSeq(c, p, d + q)
  BY <1>1, <1>4, ConcatAdjacentSubSeq
<1> QED BY <1>2, <1>3, <1>5 DEF c, d

LEMMA ReverseType ==
  ASSUME NEW S, NEW s \in Seq(S)
  PROVE  /\ Reverse(s) \in Seq(S) /\ Len(Reverse(s)) = Len(s)
         /\ \A i \in 1..Len(s) : Reverse(s)[i] = s[Len(s) - i + 1]
<1>1. Len(s) \in Nat
  BY LenProperties
<1>2. \A i \in 1..Len(s) : Len(s) - i + 1 \in 1..Len(s)
  BY <1>1
<1>3. \A i \in 1..Len(s) : s[Len(s) - i + 1] \in S
  BY <1>2, ElementOfSeq
<1>4. Reverse(s) \in [1..Len(s) -> S]
  BY <1>3 DEF Reverse
<1>5. Reverse(s) \in Seq(S) /\ Len(Reverse(s)) = Len(s)
  BY <1>1, <1>4, LenProperties
<1> QED BY <1>5 DEF Reverse

LEMMA ReverseConcat ==
  ASSUME NEW S, NEW a \in Seq(S), NEW b \in Seq(S)
  PROVE  Reverse(a \o b) = Reverse(b) \o Reverse(a)
<1> DEFINE c == a \o b
           x == Reverse(a)
           y == Reverse(b)
           z == Reverse(c)
<1>1. /\ c \in Seq(S) /\ Len(a) \in Nat /\ Len(b) \in Nat /\ Len(c) = Len(a) + Len(b)
      /\ \A i \in 1..Len(a) : c[i] = a[i]
      /\ \A i \in 1..Len(b) : c[Len(a) + i] = b[i]
  BY ConcatParts
<1>2. x \in Seq(S) /\ Len(x) = Len(a) /\ \A i \in 1..Len(a) : x[i] = a[Len(a) - i + 1]
  BY ReverseType
<1>3. y \in Seq(S) /\ Len(y) = Len(b) /\ \A i \in 1..Len(b) : y[i] = b[Len(b) - i + 1]
  BY ReverseType
<1> HIDE DEF c, x, y
<1>4. z \in Seq(S) /\ Len(z) = Len(c) /\ \A i \in 1..Len(c) : z[i] = c[Len(c) - i + 1]
  BY <1>1, ReverseType
<1> HIDE DEF z
<1>5. /\ y \o x \in Seq(S) /\ Len(y \o x) = Len(y) + Len(x)
      /\ \A i \in 1..Len(y) + Len(x) : (y \o x)[i] = IF i <= Len(y) THEN y[i] ELSE x[i - Len(y)]
  <2>1. x \in Seq(S) /\ y \in Seq(S)
    BY <1>2, <1>3
  <2> QED BY <2>1, ConcatProperties
<1>6. ASSUME NEW i \in 1..Len(c) PROVE z[i] = (y \o x)[i]
  <2>1. CASE i <= Len(b)
    <3>1. /\ i \in 1..Len(b) /\ Len(b) - i + 1 \in 1..Len(b)
          /\ Len(c) - i + 1 = Len(a) + (Len(b) - i + 1)
      BY <1>1, <2>1
    <3>2. z[i] = b[Len(b) - i + 1]
      BY <1>1, <1>4, <3>1
    <3>3. (y \o x)[i] = y[i]
      BY <1>1, <1>2, <1>3, <1>5, <2>1
    <3> QED BY <1>3, <3>1, <3>2, <3>3
  <2>2. CASE ~(i <= Len(b))
    <3>1. /\ i - Len(b) \in 1..Len(a) /\ Len(a) - (i - Len(b)) + 1 \in 1..Len(a)
          /\ Len(c) - i + 1 = Len(a) - (i - Len(b)) + 1
      BY <1>1, <2>2
    <3>2. z[i] = a[Len(a) - (i - Len(b)) + 1]
      BY <1>1, <1>4, <3>1
    <3>3. (y \o x)[i] = x[i - Len(b)]
      BY <1>1, <1>2, <1>3, <1>5, <2>2
    <3> QED BY <1>2, <3>1, <3>2, <3>3
  <2> QED BY <2>1, <2>2
<1>7. z = y \o x
  <2>1. Len(z) = Len(y \o x)
    BY <1>1, <1>2, <1>3, <1>4, <1>5
  <2>2. \A i \in 1..Len(z) : z[i] = (y \o x)[i]
    BY <1>4, <1>6
  <2> QED BY <1>4, <1>5, <2>1, <2>2, SeqEqual
<1> QED BY <1>7 DEF c, x, y, z

-----------------------------------------------------------------------------
(* The pieces of a text.                                                   *)

From(ends, k) == IF k = 1 THEN 1 ELSE ends[k - 1] + 1

LEMMA EndsFacts ==
  ASSUME NEW text \in Text
  PROVE  /\ Len(text) \in Nat /\ DOMAIN text = 1..Len(text)
         /\ Ends(text) \in SUBSET Nat /\ IsFiniteSet(Ends(text))
         /\ \A i \in Ends(text) : i \in 1..(Len(text) + 1)
         /\ Len(text) + 1 \in Ends(text)
         /\ \A i \in 1..Len(text) : i \in Ends(text) <=> text[i] = NL
<1>1. Len(text) \in Nat /\ DOMAIN text = 1..Len(text)
  BY LenProperties DEF Text
<1>2. \A i \in Ends(text) : i \in 1..(Len(text) + 1)
  BY <1>1 DEF Ends
<1>3. IsFiniteSet(Ends(text))
  <2>1. 1 \in Int /\ Len(text) + 1 \in Int
    BY <1>1
  <2>2. IsFiniteSet(1..(Len(text) + 1))
    BY <2>1, FS_Interval
  <2> QED BY <1>2, <2>2, FS_Subset
<1>4. \A i \in 1..Len(text) : i # Len(text) + 1
  BY <1>1
<1> QED BY <1>1, <1>2, <1>3, <1>4 DEF Ends

LEMMA EndsSorted ==
  ASSUME NEW text \in Text
  PROVE  LET e == Sorted(Ends(text))
         IN  /\ e \in Seq(Nat) /\ Len(e) \in Nat \ {0} /\ DOMAIN e = 1..Len(e)
             /\ \A k \in 1..Len(e) : e[k] \in Ends(text) /\ e[k] \in 1..(Len(text) + 1)
             /\ \A i, j \in 1..Len(e) : i < j => e[i] < e[j]
             /\ \A n \in Ends(text) : \E k \in 1..Len(e) : n = e[k]
             /\ e[Len(e)] = Len(text) + 1
             /\ \A k \in 1..Len(e) : k < Len(e) => e[k] \in 1..Len(text)
             /\ \A k \in 1..Len(e) : From(e, k) \in 1..(Len(text) + 1) /\ From(e, k) <= e[k]
<1> DEFINE e == Sorted(Ends(text))
           n == Len(text)
<1>1. /\ e \in Seq(Nat) /\ Len(e) \in Nat /\ DOMAIN e = 1..Len(e)
      /\ \A k \in 1..Len(e) : e[k] \in Ends(text) /\ e[k] \in 1..(n + 1)
      /\ \A i, j \in 1..Len(e) : i < j => e[i] < e[j]
      /\ \A m \in Ends(text) : \E k \in 1..Len(e) : m = e[k]
      /\ n \in Nat
  <2>1. Ends(text) \in SUBSET Nat /\ IsFiniteSet(Ends(text)) /\ n \in Nat
    BY EndsFacts
  <2>2. \A i \in Ends(text) : i \in 1..(n + 1)
    BY EndsFacts
  <2> QED BY <2>1, <2>2, SortedFacts
<1>2. PICK k \in 1..Len(e) : e[k] = n + 1
  BY <1>1, EndsFacts
<1> HIDE DEF e, n
<1>3. Len(e) # 0
  BY <1>1, <1>2
<1>4. e[Len(e)] = n + 1
  <2>1. Len(e) \in 1..Len(e) /\ (k < Len(e) \/ k = Len(e))
    <3> DEFINE m == Len(e)
    <3>1. m \in Nat /\ m # 0 /\ k \in 1..m
      BY <1>1, <1>2, <1>3
    <3> HIDE DEF m
    <3>2. m \in 1..m /\ (k < m \/ k = m)
      BY <3>1
    <3> QED BY <3>2 DEF m
  <2>2. e[Len(e)] \in 1..(n + 1)
    BY <1>1, <2>1
  <2>3. ~(k < Len(e))
    <3> SUFFICES ASSUME k < Len(e) PROVE FALSE
      OBVIOUS
    <3>1. e[k] < e[Len(e)]
      BY <1>1, <2>1
    <3> QED BY <1>1, <1>2, <2>2, <3>1
  <2> QED BY <1>2, <2>1, <2>3
<1>5. ASSUME NEW j \in 1..Len(e), j < Len(e) PROVE e[j] \in 1..n
  <2>1. e[j] < n + 1 /\ e[j] \in 1..(n + 1)
    BY <1>1, <1>3, <1>4, <1>5
  <2> QED BY <1>1, <2>1
<1>6. ASSUME NEW j \in 1..Len(e)
      PROVE  From(e, j) \in 1..(n + 1) /\ From(e, j) <= e[j]
  <2>1. CASE j = 1
    BY <1>1, <2>1 DEF From
  <2>2. CASE j # 1
    <3>1. j - 1 \in 1..Len(e) /\ j - 1 < j
      BY <1>1, <2>2
    <3>2. e[j - 1] < e[j] /\ e[j] \in 1..(n + 1) /\ e[j - 1] \in 1..(n + 1)
      BY <1>1, <3>1
    <3> QED BY <1>1, <2>2, <3>2 DEF From
  <2> QED BY <2>1, <2>2
<1> QED BY <1>1, <1>3, <1>4, <1>5, <1>6 DEF e, n

LEMMA SplitIs ==
  ASSUME NEW text \in Text
  PROVE  LET e == Sorted(Ends(text))
         IN  /\ Split(text) \in Seq(Text) /\ Len(Split(text)) = Len(e)
             /\ \A k \in 1..Len(e) : Split(text)[k] = SubSeq(text, From(e, k), e[k] - 1)
<1> DEFINE e == Sorted(Ends(text))
<1>1. /\ Len(e) \in Nat /\ DOMAIN e = 1..Len(e)
      /\ \A k \in 1..Len(e) : e[k] \in 1..(Len(text) + 1)
      /\ \A k \in 1..Len(e) : From(e, k) \in 1..(Len(text) + 1)
  BY EndsSorted
<1>2. Len(text) \in Nat
  BY EndsFacts
<1>3. Split(text) = [k \in DOMAIN e |-> SubSeq(text, From(e, k), e[k] - 1)]
  BY DEF Split, From
<1> HIDE DEF e
<1>4. \A k \in 1..Len(e) : /\ From(e, k) \in Nat \ {0} /\ e[k] - 1 \in Nat
                           /\ e[k] - 1 <= Len(text)
  BY <1>1, <1>2
<1>5. ASSUME NEW k \in 1..Len(e) PROVE SubSeq(text, From(e, k), e[k] - 1) \in Text
  BY <1>4, PartOf DEF Text
<1>6. Split(text) \in [1..Len(e) -> Text]
  BY <1>1, <1>3, <1>5
<1>7. Split(text) \in Seq(Text) /\ Len(Split(text)) = Len(e)
  BY <1>1, <1>6, LenProperties
<1>8. \A k \in 1..Len(e) : Split(text)[k] = SubSeq(text, From(e, k), e[k] - 1)
  BY <1>1, <1>3
<1> QED BY <1>7, <1>8 DEF e

\* There is a piece, and no piece contains a newline.
LEMMA SplitType ==
  ASSUME NEW text \in Text
  PROVE  /\ Split(text) \in Seq(Text) /\ Len(Split(text)) \in Nat \ {0}
         /\ \A k \in 1..Len(Split(text)) : Split(text)[k] \in Text /\ Split(text)[k] # None
<1> DEFINE e == Sorted(Ends(text))
<1>1. /\ Len(e) \in Nat \ {0}
      /\ \A k \in 1..Len(e) : e[k] \in Ends(text) /\ e[k] \in 1..(Len(text) + 1)
      /\ \A i, j \in 1..Len(e) : i < j => e[i] < e[j]
      /\ \A n \in Ends(text) : \E k \in 1..Len(e) : n = e[k]
      /\ \A k \in 1..Len(e) : From(e, k) \in 1..(Len(text) + 1)
  BY EndsSorted
<1>2. /\ Split(text) \in Seq(Text) /\ Len(Split(text)) = Len(e)
      /\ \A k \in 1..Len(e) : Split(text)[k] = SubSeq(text, From(e, k), e[k] - 1)
  BY SplitIs
<1> HIDE DEF e
<1>3. Len(text) \in Nat
  BY EndsFacts
<1>4. ASSUME NEW k \in 1..Len(e), SubSeq(text, From(e, k), e[k] - 1) = None PROVE FALSE
  <2> DEFINE p == From(e, k)
             q == e[k] - 1
             x == SubSeq(text, p, q)
  <2>1. p \in Nat \ {0} /\ q \in Nat /\ q <= Len(text) /\ p <= Len(text) + 1
    BY <1>1, <1>3
  <2> HIDE DEF p, q
  <2>2. /\ Len(x) = IF p <= q THEN q - p + 1 ELSE 0
        /\ \A i \in 1..(q - p + 1) : x[i] = text[p + i - 1]
    BY <2>1, PartOf DEF Text
  <2>3. Len(x) = 1 /\ x[1] = NL
    <3>1. x = None
      BY <1>4 DEF p, q
    <3>2. Len(None) = 1 /\ None[1] = NL
      BY DEF None
    <3> QED BY <3>1, <3>2
  <2> HIDE DEF x
  <2>4. p <= q /\ q = p
    <3>1. 1 = IF p <= q THEN q - p + 1 ELSE 0
      BY <2>2, <2>3
    <3> QED BY <2>1, <3>1
  <2>5. text[p] = NL /\ p \in 1..Len(text)
    BY <2>1, <2>2, <2>3, <2>4
  <2>6. PICK j \in 1..Len(e) : p = e[j]
    BY <1>1, <2>5, EndsFacts
  <2>7. e[j] < e[k]
    BY <1>1, <2>1, <2>4, <2>6 DEF q
  <2>8. j < k
    <3> SUFFICES ASSUME ~(j < k) PROVE FALSE
      OBVIOUS
    <3>1. j = k \/ k < j
      BY <1>1
    <3>2. e[k] \in Nat /\ e[j] \in Nat
      BY <1>1
    <3>3. e[k] <= e[j]
      BY <1>1, <3>1, <3>2
    <3> QED BY <2>7, <3>2, <3>3
  <2>9. k # 1 /\ k - 1 \in 1..Len(e) /\ (j < k - 1 \/ j = k - 1)
    BY <1>1, <2>8
  <2>10. e[j] <= e[k - 1] /\ e[k - 1] \in Nat /\ e[j] \in Nat
    BY <1>1, <2>9
  <2>11. p = e[k - 1] + 1
    BY <2>9 DEF p, From
  <2> QED BY <2>6, <2>10, <2>11
<1>5. \A k \in 1..Len(e) : Split(text)[k] \in Text
  BY <1>2, ElementOfSeq
<1> QED BY <1>1, <1>2, <1>4, <1>5

\* Splitting what ends with a newline leaves an empty piece, and the one before it.
LEMMA SplitNewline ==
  ASSUME NEW text \in Text, text # <<>>, Last(text) = NL
  PROVE  Len(Split(text)) > 1 /\ Split(text)[Len(Split(text))] = <<>>
<1> DEFINE e == Sorted(Ends(text))
           m == Len(e)
           n == Len(text)
<1>1. /\ m \in Nat \ {0}
      /\ \A k \in 1..m : e[k] \in Ends(text) /\ e[k] \in 1..(n + 1)
      /\ \A i, j \in 1..m : i < j => e[i] < e[j]
      /\ \A x \in Ends(text) : \E k \in 1..m : x = e[k]
      /\ e[m] = n + 1
      /\ \A k \in 1..m : k < m => e[k] \in 1..n
  BY EndsSorted
<1>2. n \in Nat \ {0} /\ text[n] = NL
  BY EmptySeq DEF Text, Last
<1>3. PICK k \in 1..m : e[k] = n
  <2>1. n \in 1..n
    BY <1>2
  <2> QED BY <1>1, <1>2, <2>1, EndsFacts
<1>4. Len(Split(text)) = m /\ \A j \in 1..m : Split(text)[j] = SubSeq(text, From(e, j), e[j] - 1)
  BY SplitIs
<1> HIDE DEF e, m, n
<1>5. k < m
  BY <1>1, <1>2, <1>3
<1>6. m - 1 \in 1..m /\ m - 1 < m /\ m \in 1..m /\ m # 1 /\ (k < m - 1 \/ k = m - 1)
  BY <1>1, <1>5
<1>7. e[m - 1] = n
  <2>1. e[m - 1] \in 1..n
    BY <1>1, <1>6
  <2>2. n <= e[m - 1]
    BY <1>1, <1>2, <1>3, <1>6
  <2> QED BY <1>2, <2>1, <2>2
<1>8. From(e, m) = n + 1 /\ e[m] - 1 = n
  BY <1>1, <1>2, <1>6, <1>7 DEF From
<1>9. SubSeq(text, n + 1, n) = <<>>
  BY <1>2, SubSeqEmpty
<1>10. Split(text)[m] = <<>>
  BY <1>4, <1>6, <1>8, <1>9
<1> QED BY <1>1, <1>4, <1>6, <1>10

-----------------------------------------------------------------------------
(* Splitting a concatenation.                                              *)

LEMMA ConcatText ==
  ASSUME NEW a \in Text, NEW b \in Text
  PROVE  /\ a \o b \in Text /\ Len(a) \in Nat /\ Len(b) \in Nat /\ Len(a \o b) = Len(a) + Len(b)
         /\ \A i \in 1..Len(a) : i \in 1..Len(a \o b) /\ (a \o b)[i] = a[i]
         /\ \A i \in 1..Len(b) : Len(a) + i \in 1..Len(a \o b) /\ (a \o b)[Len(a) + i] = b[i]
BY ConcatParts DEF Text

LEMMA EndsOfConcat ==
  ASSUME NEW a \in Text, NEW b \in Text
  PROVE  Ends(a \o b) = (Ends(a) \ {Len(a) + 1}) \union {n + Len(a) : n \in Ends(b)}
<1> DEFINE c == a \o b
           d == Len(a)
<1>1. /\ c \in Text /\ d \in Nat /\ Len(b) \in Nat /\ Len(c) = d + Len(b)
      /\ \A i \in 1..d : c[i] = a[i]
      /\ \A i \in 1..Len(b) : c[d + i] = b[i]
  BY ConcatText
<1>2. /\ \A i \in Ends(a) : i \in 1..(d + 1)
      /\ \A i \in 1..d : i \in Ends(a) <=> a[i] = NL
  BY EndsFacts
<1>3. /\ \A i \in Ends(b) : i \in 1..(Len(b) + 1)
      /\ Len(b) + 1 \in Ends(b)
      /\ \A i \in 1..Len(b) : i \in Ends(b) <=> b[i] = NL
  BY EndsFacts
<1> HIDE DEF c
<1>4. /\ \A i \in Ends(c) : i \in 1..(Len(c) + 1)
      /\ Len(c) + 1 \in Ends(c)
      /\ \A i \in 1..Len(c) : i \in Ends(c) <=> c[i] = NL
  BY <1>1, EndsFacts
<1> HIDE DEF d
<1>5. ASSUME NEW i \in Ends(c)
      PROVE  i \in Ends(a) \ {d + 1} \/ \E n \in Ends(b) : i = n + d
  <2>1. CASE i \in 1..d
    <3>1. i \in 1..Len(c) /\ i # d + 1
      BY <1>1, <2>1
    <3> QED BY <1>1, <1>2, <1>4, <2>1, <3>1
  <2>2. CASE i \notin 1..d /\ i # Len(c) + 1
    <3>1. i \in 1..Len(c) /\ i - d \in 1..Len(b) /\ d + (i - d) = i /\ i = (i - d) + d
      BY <1>1, <1>4, <2>2
    <3>2. c[i] = NL /\ c[i] = b[i - d]
      BY <1>1, <1>4, <3>1
    <3> QED BY <1>3, <3>1, <3>2
  <2>3. CASE i = Len(c) + 1
    <3>1. i = (Len(b) + 1) + d
      BY <1>1, <2>3
    <3> QED BY <1>3, <3>1
  <2> QED BY <2>1, <2>2, <2>3
<1>6. ASSUME NEW i \in Ends(a), i # d + 1 PROVE i \in Ends(c)
  <2>1. i \in 1..d /\ i \in 1..Len(c)
    BY <1>1, <1>2, <1>6
  <2> QED BY <1>1, <1>2, <1>4, <2>1
<1>7. ASSUME NEW n \in Ends(b) PROVE n + d \in Ends(c)
  <2>1. CASE n \in 1..Len(b)
    <3>1. d + n = n + d /\ n + d \in 1..Len(c)
      BY <1>1, <2>1
    <3> QED BY <1>1, <1>3, <1>4, <2>1, <3>1
  <2>2. CASE n \notin 1..Len(b)
    <3>1. n + d = Len(c) + 1
      BY <1>1, <1>3, <2>2
    <3> QED BY <1>4, <3>1
  <2> QED BY <2>1, <2>2
<1>8. Ends(c) = (Ends(a) \ {d + 1}) \union {n + d : n \in Ends(b)}
  BY <1>5, <1>6, <1>7
<1> QED BY <1>8 DEF c, d

LEMMA EndsConcat ==
  ASSUME NEW a \in Text, NEW b \in Text
  PROVE  LET e == Sorted(Ends(a))
             f == Sorted(Ends(b))
             u == Sorted(Ends(a \o b))
         IN  /\ Len(u) = (Len(e) - 1) + Len(f)
             /\ \A k \in 1..(Len(e) - 1) : u[k] = e[k]
             /\ \A k \in 1..Len(f) : u[(Len(e) - 1) + k] = f[k] + Len(a)
<1> DEFINE e == Sorted(Ends(a))
           f == Sorted(Ends(b))
           u == Sorted(Ends(a \o b))
           d == Len(a)
           m == Len(e)
           S == Ends(a) \ {d + 1}
           T == Ends(b)
           s == [k \in 1..(m - 1) |-> e[k]]
<1>1. /\ m \in Nat \ {0}
      /\ \A k \in 1..m : e[k] \in Ends(a) /\ e[k] \in 1..(d + 1)
      /\ \A i, j \in 1..m : i < j => e[i] < e[j]
      /\ \A n \in Ends(a) : \E k \in 1..m : n = e[k]
      /\ e[m] = d + 1
      /\ \A k \in 1..m : k < m => e[k] \in 1..d
  BY EndsSorted
<1>2. /\ Ends(a) \in SUBSET Nat /\ IsFiniteSet(Ends(a)) /\ d \in Nat
      /\ \A i \in Ends(a) : i \in 1..(d + 1)
  BY EndsFacts
<1>3. /\ T \in SUBSET Nat /\ IsFiniteSet(T)
      /\ \A i \in T : i \in 1..(Len(b) + 1)
  BY EndsFacts
<1>4. u = Sorted(S \union {n + d : n \in T})
  BY EndsOfConcat
<1>5. f = Sorted(T)
  OBVIOUS
<1> HIDE DEF u, e, f, m, d, T
<1>6. S \in SUBSET Nat /\ IsFiniteSet(S)
  BY <1>2, FS_Subset
<1>7. Enumerates(s, S) /\ Len(s) = m - 1
  <2>1. \A k \in 1..(m - 1) : k \in 1..m /\ k < m
    BY <1>1
  <2>2. s \in [1..(m - 1) -> Nat] /\ m - 1 \in Nat
    BY <1>1, <2>1
  <2>3. s \in Seq(Nat) /\ Len(s) = m - 1
    BY <2>2, LenProperties
  <2>4. \A k \in 1..(m - 1) : s[k] = e[k]
    OBVIOUS
  <2>5. ASSUME NEW n \in S PROVE \E k \in 1..(m - 1) : n = e[k]
    <3>1. PICK k \in 1..m : n = e[k]
      BY <1>1
    <3>2. k # m
      BY <1>1, <3>1
    <3>3. k \in 1..(m - 1)
      BY <1>1, <3>2
    <3> QED BY <3>1, <3>3
  <2>6. ASSUME NEW k \in 1..(m - 1) PROVE e[k] \in S
    <3>1. e[k] \in Ends(a) /\ e[k] \in 1..d
      BY <1>1, <2>1
    <3>2. e[k] # d + 1
      BY <1>2, <3>1
    <3> QED BY <3>1, <3>2
  <2>7. \A i, j \in 1..(m - 1) : i < j => e[i] < e[j]
    BY <1>1, <2>1
  <2> HIDE DEF s, S
  <2>8. \A i, j \in 1..Len(s) : i < j => s[i] < s[j]
    BY <2>3, <2>4, <2>7
  <2>9. S = {s[i] : i \in 1..Len(s)}
    BY <2>3, <2>4, <2>5, <2>6
  <2> QED BY <2>3, <2>8, <2>9 DEF Enumerates
<1>8. Sorted(S) = s
  BY <1>7, SortedIs
<1>9. \A x \in S, y \in T : x < y + d
  <2> SUFFICES ASSUME NEW x \in S, NEW y \in T PROVE x < y + d
    OBVIOUS
  <2>1. x \in 1..(d + 1) /\ x # d + 1 /\ y \in Nat /\ y >= 1
    BY <1>2, <1>3
  <2> QED BY <1>2, <2>1
<1> HIDE DEF S, s
<1>10. /\ Len(u) = Len(Sorted(S)) + Len(Sorted(T))
       /\ \A k \in 1..Len(Sorted(S)) : u[k] = Sorted(S)[k]
       /\ \A k \in 1..Len(Sorted(T)) : u[Len(Sorted(S)) + k] = Sorted(T)[k] + d
  <2> DEFINE v == Sorted(S \union {n + d : n \in T})
  <2>1. S \in SUBSET Nat /\ IsFiniteSet(S) /\ T \in SUBSET Nat /\ IsFiniteSet(T) /\ d \in Nat
    BY <1>2, <1>3, <1>6
  <2>2. /\ Len(v) = Len(Sorted(S)) + Len(Sorted(T))
        /\ \A k \in 1..Len(Sorted(S)) : v[k] = Sorted(S)[k]
        /\ \A k \in 1..Len(Sorted(T)) : v[Len(Sorted(S)) + k] = Sorted(T)[k] + d
    BY <1>9, <2>1, SortedUnion
  <2>3. u = v
    BY <1>4
  <2> HIDE DEF v
  <2> QED BY <2>2, <2>3
<1>11. /\ Len(u) = (m - 1) + Len(f)
       /\ \A k \in 1..(m - 1) : u[k] = s[k]
       /\ \A k \in 1..Len(f) : u[(m - 1) + k] = f[k] + d
  BY <1>5, <1>7, <1>8, <1>10
<1>12. \A k \in 1..(m - 1) : s[k] = e[k]
  BY DEF s
<1> QED BY <1>11, <1>12 DEF u, e, f, m, d

\* The last piece of the first text and the first of the second are one piece, the
\* others stay what they are.
LEMMA SplitPieces ==
  ASSUME NEW a \in Text, NEW b \in Text
  PROVE  LET A == Split(a)
             B == Split(b)
             C == Split(a \o b)
             m == Len(A)
         IN  /\ Len(C) = (m - 1) + Len(B)
             /\ \A k \in 1..(m - 1) : C[k] = A[k]
             /\ C[m] = A[m] \o B[1]
             /\ \A k \in 2..Len(B) : C[(m - 1) + k] = B[k]
<1> DEFINE e == Sorted(Ends(a))
           f == Sorted(Ends(b))
           u == Sorted(Ends(a \o b))
           d == Len(a)
           m == Len(e)
           A == Split(a)
           B == Split(b)
           C == Split(a \o b)
<1>1. /\ m \in Nat \ {0} /\ d \in Nat
      /\ \A k \in 1..m : e[k] \in 1..(d + 1)
      /\ e[m] = d + 1
      /\ \A k \in 1..m : k < m => e[k] \in 1..d
      /\ \A k \in 1..m : From(e, k) \in 1..(d + 1)
  BY EndsSorted, EndsFacts
<1>2. /\ Len(f) \in Nat \ {0} /\ Len(b) \in Nat
      /\ \A k \in 1..Len(f) : f[k] \in 1..(Len(b) + 1)
  BY EndsSorted, EndsFacts
<1>3. /\ Len(u) = (m - 1) + Len(f)
      /\ \A k \in 1..(m - 1) : u[k] = e[k]
      /\ \A k \in 1..Len(f) : u[(m - 1) + k] = f[k] + d
  BY EndsConcat
<1>4. /\ Len(A) = m
      /\ \A k \in 1..m : A[k] = SubSeq(a, From(e, k), e[k] - 1)
  BY SplitIs
<1>5. /\ Len(B) = Len(f)
      /\ \A k \in 1..Len(f) : B[k] = SubSeq(b, From(f, k), f[k] - 1)
  BY SplitIs
<1>6. /\ Len(C) = Len(u)
      /\ \A k \in 1..Len(u) : C[k] = SubSeq(a \o b, From(u, k), u[k] - 1)
  BY ConcatText, SplitIs
<1> HIDE DEF e, f, u, d, m, A, B, C
<1>7. \A k \in 1..(m - 1) : /\ k \in 1..m /\ k \in 1..Len(u) /\ k < m
                            /\ k # 1 => k - 1 \in 1..(m - 1)
  BY <1>1, <1>2, <1>3
<1>8. ASSUME NEW k \in 1..m PROVE From(u, k) = From(e, k)
  <2>1. CASE k = 1
    BY <2>1 DEF From
  <2>2. CASE k # 1
    <3>1. k - 1 \in 1..(m - 1)
      BY <1>1, <2>2
    <3> QED BY <1>3, <2>2, <3>1 DEF From
  <2> QED BY <2>1, <2>2
<1>9. ASSUME NEW k \in 1..(m - 1) PROVE C[k] = A[k]
  <2>1. k \in 1..m /\ k \in 1..Len(u) /\ k < m
    BY <1>7
  <2>2. u[k] = e[k] /\ From(u, k) = From(e, k)
    BY <1>3, <1>8, <2>1
  <2> DEFINE p == From(e, k)
             q == e[k] - 1
  <2>3. p \in Nat \ {0} /\ q \in Nat /\ q <= Len(a)
    <3>1. p \in 1..(d + 1) /\ e[k] \in 1..d
      BY <1>1, <2>1
    <3> QED BY <1>1, <3>1 DEF d
  <2> HIDE DEF p, q
  <2>4. SubSeq(a \o b, p, q) = SubSeq(a, p, q)
    BY <2>3, PartLeft DEF Text
  <2> QED BY <1>4, <1>6, <2>1, <2>2, <2>4 DEF p, q
<1>10. C[m] = A[m] \o B[1]
  <2>1. m \in 1..m /\ m \in 1..Len(u) /\ 1 \in 1..Len(f) /\ (m - 1) + 1 = m
    BY <1>1, <1>2, <1>3
  <2>2. u[m] = f[1] + d /\ From(u, m) = From(e, m) /\ From(f, 1) = 1
    BY <1>3, <1>8, <2>1 DEF From
  <2> DEFINE p == From(e, m)
             q == f[1] - 1
  <2>3. p \in 1..(d + 1) /\ q \in 0..Len(b) /\ u[m] - 1 = d + q /\ e[m] - 1 = d
    <3>1. f[1] \in 1..(Len(b) + 1)
      BY <1>2, <2>1
    <3> QED BY <1>1, <1>2, <2>1, <2>2, <3>1
  <2>4. /\ C[m] = SubSeq(a \o b, p, d + q) /\ A[m] = SubSeq(a, p, d)
        /\ B[1] = SubSeq(b, 1, q)
    BY <1>4, <1>5, <1>6, <2>1, <2>2, <2>3
  <2> HIDE DEF p, q
  <2>5. SubSeq(a \o b, p, d + q) = SubSeq(a, p, d) \o SubSeq(b, 1, q)
    BY <2>3, PartAcross DEF Text, d
  <2> QED BY <2>4, <2>5
<1>11. ASSUME NEW k \in 2..Len(f) PROVE C[(m - 1) + k] = B[k]
  <2>1. /\ k \in 1..Len(f) /\ (m - 1) + k \in 1..Len(u) /\ k # 1 /\ (m - 1) + k # 1
        /\ k - 1 \in 1..Len(f) /\ ((m - 1) + k) - 1 = (m - 1) + (k - 1)
    BY <1>1, <1>2, <1>3
  <2>2. u[(m - 1) + k] = f[k] + d /\ u[(m - 1) + (k - 1)] = f[k - 1] + d
    BY <1>3, <2>1
  <2>3. From(u, (m - 1) + k) = (f[k - 1] + d) + 1 /\ From(f, k) = f[k - 1] + 1
    BY <2>1, <2>2 DEF From
  <2> DEFINE p == f[k - 1] + 1
             q == f[k] - 1
  <2>4. /\ p \in Nat \ {0} /\ q \in Nat /\ q <= Len(b)
        /\ (f[k - 1] + d) + 1 = d + p /\ (f[k] + d) - 1 = d + q
    <3>1. f[k] \in 1..(Len(b) + 1) /\ f[k - 1] \in 1..(Len(b) + 1)
      BY <1>2, <2>1
    <3>2. f[k] \in Nat \ {0} /\ f[k - 1] \in Nat /\ f[k] <= Len(b) + 1
      BY <1>2, <3>1
    <3>3. p \in Nat \ {0} /\ q \in Nat /\ q <= Len(b)
      BY <1>2, <3>2
    <3>4. (f[k - 1] + d) + 1 = d + p /\ (f[k] + d) - 1 = d + q
      BY <1>1, <3>2
    <3> QED BY <3>3, <3>4
  <2>5. C[(m - 1) + k] = SubSeq(a \o b, d + p, d + q) /\ B[k] = SubSeq(b, p, q)
    BY <1>5, <1>6, <2>1, <2>2, <2>3, <2>4
  <2> HIDE DEF p, q
  <2>6. SubSeq(a \o b, d + p, d + q) = SubSeq(b, p, q)
    BY <2>4, PartRight DEF Text, d
  <2> QED BY <2>5, <2>6
<1> QED BY <1>3, <1>4, <1>5, <1>6, <1>9, <1>10, <1>11 DEF A, B, C

\* The pieces of the first text, the last of them joined with the first of the second.
Joined(A, piece) == [A EXCEPT ![Len(A)] = A[Len(A)] \o piece]

LEMMA JoinedType ==
  ASSUME NEW A \in Seq(Text), A # <<>>, NEW piece \in Text
  PROVE  /\ Joined(A, piece) \in Seq(Text) /\ Len(Joined(A, piece)) = Len(A)
         /\ Len(A) \in Nat \ {0}
         /\ \A k \in 1..Len(A) :
              Joined(A, piece)[k] = IF k = Len(A) THEN A[k] \o piece ELSE A[k]
<1>1. Len(A) \in Nat \ {0}
  BY EmptySeq
<1>2. Len(A) \in 1..Len(A)
  BY <1>1
<1>3. A[Len(A)] \o piece \in Text
  <2>1. A[Len(A)] \in Text
    BY <1>2, ElementOfSeq
  <2> QED BY <2>1, ConcatText
<1> DEFINE n == Len(A)
           x == A[n] \o piece
<1>4. /\ [A EXCEPT ![n] = x] \in Seq(Text) /\ Len([A EXCEPT ![n] = x]) = n
      /\ \A j \in 1..n : [A EXCEPT ![n] = x][j] = IF j = n THEN x ELSE A[j]
  <2>1. n \in 1..Len(A) /\ x \in Text /\ n = Len(A)
    BY <1>2, <1>3
  <2> HIDE DEF n, x
  <2>2. /\ [A EXCEPT ![n] = x] \in Seq(Text) /\ Len([A EXCEPT ![n] = x]) = Len(A)
        /\ \A j \in 1..Len(A) : [A EXCEPT ![n] = x][j] = IF j = n THEN x ELSE A[j]
    BY <2>1, ExceptSeq
  <2> QED BY <2>1, <2>2
<1>5. Joined(A, piece) = [A EXCEPT ![n] = x]
  BY DEF Joined
<1>6. \A k \in 1..Len(A) : k = n => x = A[k] \o piece
  OBVIOUS
<1>7. n = Len(A)
  OBVIOUS
<1> HIDE DEF n, x
<1>8. \A k \in 1..n : Joined(A, piece)[k] = IF k = n THEN A[k] \o piece ELSE A[k]
  BY <1>4, <1>5, <1>6, <1>7
<1> QED BY <1>1, <1>4, <1>5, <1>7, <1>8

LEMMA SplitConcat ==
  ASSUME NEW a \in Text, NEW b \in Text
  PROVE  Split(a \o b) = Joined(Split(a), Split(b)[1]) \o Tail(Split(b))
<1> DEFINE A == Split(a)
           B == Split(b)
           C == Split(a \o b)
           m == Len(A)
           n == Len(B)
           J == Joined(A, B[1])
           T == Tail(B)
<1>1. A \in Seq(Text) /\ m \in Nat \ {0} /\ B \in Seq(Text) /\ n \in Nat \ {0}
  BY SplitType
<1>2. C \in Seq(Text)
  BY ConcatText, SplitType
<1>3. /\ Len(C) = (m - 1) + n
      /\ \A k \in 1..(m - 1) : C[k] = A[k]
      /\ C[m] = A[m] \o B[1]
      /\ \A k \in 2..n : C[(m - 1) + k] = B[k]
  BY SplitPieces
<1>4. A # <<>> /\ B # <<>>
  BY <1>1, EmptySeq
<1> HIDE DEF A, B, C
<1>5. B[1] \in Text
  BY <1>1, ElementOfSeq
<1>6. /\ J \in Seq(Text) /\ Len(J) = m
      /\ \A k \in 1..m : J[k] = IF k = m THEN A[k] \o B[1] ELSE A[k]
  BY <1>1, <1>4, <1>5, JoinedType
<1>7. T \in Seq(Text) /\ Len(T) = n - 1 /\ \A k \in 1..(n - 1) : T[k] = B[k + 1]
  BY <1>1, <1>4, HeadTailProperties
<1> HIDE DEF J, T, m, n
<1>8. /\ J \o T \in Seq(Text) /\ Len(J \o T) = m + (n - 1)
      /\ \A i \in 1..m : (J \o T)[i] = J[i]
      /\ \A i \in 1..(n - 1) : (J \o T)[m + i] = T[i]
  <2>1. /\ J \o T \in Seq(Text) /\ Len(J \o T) = Len(J) + Len(T)
        /\ \A i \in 1..Len(J) : (J \o T)[i] = J[i]
        /\ \A i \in 1..Len(T) : (J \o T)[Len(J) + i] = T[i]
    <3>1. J \in Seq(Text) /\ T \in Seq(Text)
      BY <1>6, <1>7
    <3> QED BY <3>1, ConcatParts
  <2> QED BY <1>6, <1>7, <2>1
<1>9. ASSUME NEW k \in 1..(m + (n - 1)) PROVE C[k] = (J \o T)[k]
  <2>1. CASE k <= m
    <3>1. k \in 1..m /\ (k # m => k \in 1..(m - 1))
      BY <1>1, <2>1
    <3>2. C[k] = IF k = m THEN A[k] \o B[1] ELSE A[k]
      BY <1>3, <3>1
    <3> QED BY <1>6, <1>8, <3>1, <3>2
  <2>2. CASE ~(k <= m)
    <3>1. /\ k - m \in 1..(n - 1) /\ (k - m) + 1 \in 2..n /\ m + (k - m) = k
          /\ (m - 1) + ((k - m) + 1) = k
      BY <1>1, <2>2
    <3>2. C[k] = B[(k - m) + 1]
      BY <1>3, <3>1
    <3>3. (J \o T)[k] = T[k - m]
      BY <1>8, <3>1
    <3> QED BY <1>7, <3>1, <3>2, <3>3
  <2> QED BY <2>1, <2>2
<1>10. Len(C) = m + (n - 1)
  BY <1>1, <1>3
<1>11. C = J \o T
  BY <1>2, <1>8, <1>9, <1>10, SeqEqual
<1> QED BY <1>11 DEF A, B, C, J, T

-----------------------------------------------------------------------------
(* The lines that are settled once the end of a file is read: all but the  *)
(* first, of which more may come.                                          *)

LEMMA PrefixPoints ==
  ASSUME NEW S, NEW s \in Seq(S), NEW t \in Seq(S)
  PROVE  IsPrefix(s, t) <=> Len(s) <= Len(t) /\ \A i \in 1..Len(s) : s[i] = t[i]
<1> DEFINE n == Len(s)
           x == SubSeq(s, 1, n)
           y == SubSeq(t, 1, n)
<1>1. n \in Nat /\ Len(t) \in Nat
  BY LenProperties
<1>2. CASE n <= Len(t)
  <2>1. x \in Seq(S) /\ Len(x) = n /\ \A i \in 1..n : x[i] = s[i]
    <3>1. n = Len(s)
      OBVIOUS
    <3> HIDE DEF n
    <3>2. 1 \in Nat \ {0} /\ n \in Nat /\ n <= Len(s) /\ n - 1 + 1 = n /\ (1 <= n \/ n = 0)
      BY <1>1, <3>1
    <3>3. /\ x \in Seq(S) /\ Len(x) = IF 1 <= n THEN n - 1 + 1 ELSE 0
          /\ \A i \in 1..(n - 1 + 1) : x[i] = s[1 + i - 1]
      BY <3>2, PartOf
    <3> QED BY <3>2, <3>3
  <2>2. y \in Seq(S) /\ Len(y) = n /\ \A i \in 1..n : y[i] = t[i]
    <3> HIDE DEF n
    <3>2. 1 \in Nat \ {0} /\ n \in Nat /\ n <= Len(t) /\ n - 1 + 1 = n /\ (1 <= n \/ n = 0)
      BY <1>1, <1>2
    <3>3. /\ y \in Seq(S) /\ Len(y) = IF 1 <= n THEN n - 1 + 1 ELSE 0
          /\ \A i \in 1..(n - 1 + 1) : y[i] = t[1 + i - 1]
      BY <3>2, PartOf
    <3> QED BY <3>2, <3>3
  <2>3. IsPrefix(s, t) <=> x = y
    BY <1>2 DEF IsPrefix
  <2> HIDE DEF n, x, y
  <2>4. x = y <=> \A i \in 1..n : s[i] = t[i]
    <3>1. ASSUME x = y PROVE \A i \in 1..n : s[i] = t[i]
      BY <2>1, <2>2, <3>1
    <3>2. ASSUME \A i \in 1..n : s[i] = t[i] PROVE x = y
      <4>1. \A i \in 1..Len(x) : x[i] = y[i]
        BY <2>1, <2>2, <3>2
      <4> QED BY <2>1, <2>2, <4>1, SeqEqual
    <3> QED BY <3>1, <3>2
  <2> QED BY <1>2, <2>3, <2>4 DEF n
<1>3. CASE ~(n <= Len(t))
  BY <1>3 DEF IsPrefix
<1> QED BY <1>2, <1>3

LEMMA PrefixOfConcat ==
  ASSUME NEW S, NEW s \in Seq(S), NEW t \in Seq(S)
  PROVE  IsPrefix(s, s \o t)
<1> DEFINE c == s \o t
<1>1. /\ c \in Seq(S) /\ Len(s) \in Nat /\ Len(t) \in Nat /\ Len(c) = Len(s) + Len(t)
      /\ \A i \in 1..Len(s) : c[i] = s[i]
  BY ConcatParts
<1> HIDE DEF c
<1>2. IsPrefix(s, c)
  BY <1>1, PrefixPoints
<1> QED BY <1>2 DEF c

LEMMA PrefixLonger ==
  ASSUME NEW S, NEW s \in Seq(S), NEW t \in Seq(S), NEW u \in Seq(S), IsPrefix(s, t)
  PROVE  IsPrefix(s, t \o u)
<1> DEFINE c == t \o u
<1>1. Len(s) <= Len(t) /\ \A i \in 1..Len(s) : s[i] = t[i]
  BY PrefixPoints
<1>2. /\ c \in Seq(S) /\ Len(t) \in Nat /\ Len(u) \in Nat /\ Len(c) = Len(t) + Len(u)
      /\ \A i \in 1..Len(t) : c[i] = t[i]
  BY ConcatParts
<1>3. Len(s) \in Nat
  BY LenProperties
<1> HIDE DEF c
<1>4. Len(s) <= Len(c) /\ \A i \in 1..Len(s) : s[i] = c[i]
  <2>1. \A i \in 1..Len(s) : i \in 1..Len(t)
    BY <1>1, <1>2, <1>3
  <2> QED BY <1>1, <1>2, <1>3, <2>1
<1>5. IsPrefix(s, c)
  BY <1>2, <1>4, PrefixPoints
<1> QED BY <1>5 DEF c

LEMMA TailConcat ==
  ASSUME NEW S, NEW s \in Seq(S), s # <<>>, NEW t \in Seq(S)
  PROVE  /\ s \o t \in Seq(S) /\ s \o t # <<>> /\ (s \o t)[1] = s[1]
         /\ Tail(s) \in Seq(S) /\ Tail(s \o t) = Tail(s) \o t
<1> DEFINE c == s \o t
           x == Tail(s)
           y == x \o t
           z == Tail(c)
<1>1. /\ c \in Seq(S) /\ Len(s) \in Nat /\ Len(t) \in Nat /\ Len(c) = Len(s) + Len(t)
      /\ \A i \in 1..Len(s) : c[i] = s[i]
      /\ \A i \in 1..Len(t) : c[Len(s) + i] = t[i]
  BY ConcatParts
<1>2. Len(s) \in Nat \ {0}
  BY EmptySeq
<1> HIDE DEF c
<1>3. c # <<>> /\ c[1] = s[1]
  BY <1>1, <1>2, EmptySeq
<1>4. x \in Seq(S) /\ Len(x) = Len(s) - 1 /\ \A i \in 1..Len(x) : x[i] = s[i + 1]
  BY HeadTailProperties
<1>5. z \in Seq(S) /\ Len(z) = Len(c) - 1 /\ \A i \in 1..Len(z) : z[i] = c[i + 1]
  BY <1>1, <1>3, HeadTailProperties
<1> HIDE DEF x, z
<1>6. /\ y \in Seq(S) /\ Len(y) = Len(x) + Len(t)
      /\ \A i \in 1..Len(x) : y[i] = x[i]
      /\ \A i \in 1..Len(t) : y[Len(x) + i] = t[i]
  <2>1. x \in Seq(S)
    BY <1>4
  <2> QED BY <2>1, ConcatParts
<1> HIDE DEF y
<1>7. ASSUME NEW i \in 1..Len(z) PROVE z[i] = y[i]
  <2>1. CASE i <= Len(x)
    <3>1. i \in 1..Len(x) /\ i + 1 \in 1..Len(s)
      BY <1>1, <1>2, <1>4, <2>1
    <3> QED BY <1>1, <1>4, <1>5, <1>6, <3>1
  <2>2. CASE ~(i <= Len(x))
    <3>1. /\ i - Len(x) \in 1..Len(t) /\ Len(x) + (i - Len(x)) = i
          /\ Len(s) + (i - Len(x)) = i + 1
      BY <1>1, <1>2, <1>4, <1>5, <2>2
    <3>2. y[i] = t[i - Len(x)] /\ c[i + 1] = t[i - Len(x)]
      BY <1>1, <1>6, <3>1
    <3> QED BY <1>5, <3>2
  <2> QED BY <2>1, <2>2
<1>8. Len(z) = Len(y)
  BY <1>1, <1>2, <1>4, <1>5, <1>6
<1>9. z = y
  BY <1>5, <1>6, <1>7, <1>8, SeqEqual
<1> QED BY <1>1, <1>3, <1>4, <1>9 DEF c, x, y, z

Settled(text) == NonEmpty(Reverse(Tail(Split(text))))

LEMMA SplitTail ==
  ASSUME NEW text \in Text
  PROVE  /\ Split(text) \in Seq(Text) /\ Split(text) # <<>>
         /\ Split(text)[1] \in Text /\ Split(text)[1] # None
         /\ Tail(Split(text)) \in Seq(Text)
<1>1. /\ Split(text) \in Seq(Text) /\ Len(Split(text)) \in Nat \ {0}
      /\ \A k \in 1..Len(Split(text)) : Split(text)[k] \in Text /\ Split(text)[k] # None
  BY SplitType
<1> DEFINE A == Split(text)
<1> HIDE DEF A
<1>2. A # <<>>
  BY <1>1, EmptySeq DEF A
<1>3. A[1] \in Text /\ A[1] # None
  <2>1. 1 \in 1..Len(A)
    BY <1>1 DEF A
  <2> QED BY <1>1, <2>1 DEF A
<1>4. Tail(A) \in Seq(Text)
  BY <1>1, <1>2, HeadTailProperties DEF A
<1> QED BY <1>1, <1>2, <1>3, <1>4 DEF A

LEMMA SettledType == ASSUME NEW text \in Text PROVE Settled(text) \in Seq(Text)
<1>1. Tail(Split(text)) \in Seq(Text)
  BY SplitTail
<1>2. Reverse(Tail(Split(text))) \in Seq(Text)
  BY <1>1, ReverseType
<1> QED BY <1>2, NonEmptyType DEF Settled

\* The lines of s \o t are those of t, then those of s.
LEMMA LinesConcat ==
  ASSUME NEW s \in Seq(Text), NEW t \in Seq(Text)
  PROVE  NonEmpty(Reverse(s \o t)) = NonEmpty(Reverse(t)) \o NonEmpty(Reverse(s))
<1>1. Reverse(s \o t) = Reverse(t) \o Reverse(s)
  BY ReverseConcat
<1>2. Reverse(t) \in Seq(Text) /\ Reverse(s) \in Seq(Text)
  BY ReverseType
<1>3. NonEmpty(Reverse(t) \o Reverse(s)) = NonEmpty(Reverse(t)) \o NonEmpty(Reverse(s))
  BY <1>2, NonEmptyConcat
<1> QED BY <1>1, <1>3

LEMMA ReverseOne == ASSUME NEW x PROVE Reverse(<<x>>) = <<x>>
<1>1. Len(<<x>>) = 1
  OBVIOUS
<1>2. Reverse(<<x>>) = [i \in 1..1 |-> <<x>>[(1 - i) + 1]]
  BY <1>1 DEF Reverse
<1>3. \A i \in 1..1 : (1 - i) + 1 = 1 /\ i = 1
  OBVIOUS
<1>4. [i \in 1..1 |-> <<x>>[(1 - i) + 1]] = [i \in 1..1 |-> x]
  BY <1>3
<1>5. <<x>> = [i \in 1..1 |-> x]
  OBVIOUS
<1> QED BY <1>2, <1>4, <1>5

\* What is settled when a chunk is read.
LEMMA SettledConcat ==
  ASSUME NEW a \in Text, NEW b \in Text
  PROVE  LET J == Joined(Split(a), Split(b)[1])
         IN  /\ J \in Seq(Text) /\ J # <<>>
             /\ Split(a \o b)[1] = J[1]
             /\ Settled(a \o b) = Settled(b) \o NonEmpty(Reverse(Tail(J)))
             /\ NonEmpty(Reverse(Split(a \o b))) = Settled(b) \o NonEmpty(Reverse(J))
<1> DEFINE A == Split(a)
           B == Split(b)
           J == Joined(A, B[1])
           T == Tail(B)
<1>1. A \in Seq(Text) /\ A # <<>> /\ B[1] \in Text /\ T \in Seq(Text)
  BY SplitTail
<1>2. Split(a \o b) = J \o T
  BY SplitConcat
<1>3. Settled(b) = NonEmpty(Reverse(T))
  BY DEF Settled
<1> HIDE DEF A, T, B
<1>4. J \in Seq(Text) /\ J # <<>>
  BY <1>1, JoinedType, EmptySeq
<1> HIDE DEF J
<1>5. (J \o T)[1] = J[1] /\ Tail(J) \in Seq(Text) /\ Tail(J \o T) = Tail(J) \o T
  BY <1>1, <1>4, TailConcat
<1>6. Settled(a \o b) = NonEmpty(Reverse(Tail(J) \o T))
  BY <1>2, <1>5 DEF Settled
<1>7. NonEmpty(Reverse(Tail(J) \o T)) = NonEmpty(Reverse(T)) \o NonEmpty(Reverse(Tail(J)))
  BY <1>1, <1>5, LinesConcat
<1>8. NonEmpty(Reverse(J \o T)) = NonEmpty(Reverse(T)) \o NonEmpty(Reverse(J))
  BY <1>1, <1>4, LinesConcat
<1> QED BY <1>2, <1>3, <1>4, <1>5, <1>6, <1>7, <1>8 DEF A, B, J, T

\* When the chunk ends with a newline, what was joined to it is a line of its own.
LEMMA JoinedNewline ==
  ASSUME NEW a \in Text, a # <<>>, Last(a) = NL, NEW piece \in Text
  PROVE  LET A == Split(a)
             J == Joined(A, piece)
         IN  /\ J[1] = A[1]
             /\ NonEmpty(Reverse(Tail(J))) = NonEmpty(<<piece>>) \o NonEmpty(Reverse(Tail(A)))
<1> DEFINE A == Split(a)
           m == Len(A)
           J == Joined(A, piece)
           F == SubSeq(A, 1, m - 1)
           E == << <<>> >>
           P == <<piece>>
<1>1. A \in Seq(Text) /\ A # <<>> /\ m \in Nat /\ m > 1 /\ A[m] = <<>>
  <2>1. Len(Split(a)) > 1 /\ Split(a)[Len(Split(a))] = <<>>
    BY SplitNewline
  <2>2. Split(a) \in Seq(Text) /\ Len(Split(a)) \in Nat
    BY SplitType
  <2> QED BY <2>1, <2>2, SplitTail
<1>2. m = Len(A)
  OBVIOUS
<1> HIDE DEF A, m
<1>3. /\ J \in Seq(Text) /\ Len(J) = m
      /\ \A k \in 1..m : J[k] = IF k = m THEN A[k] \o piece ELSE A[k]
  BY <1>1, <1>2, JoinedType
<1> HIDE DEF J
<1>4. F \in Seq(Text) /\ Len(F) = m - 1 /\ \A k \in 1..(m - 1) : F[k] = A[k]
  <2>1. 1 \in Nat \ {0} /\ m - 1 \in Nat /\ m - 1 <= Len(A) /\ 1 <= m - 1
    BY <1>1, <1>2
  <2> DEFINE q == m - 1
  <2>2. q \in Nat /\ q <= Len(A) /\ 1 <= q
    BY <2>1
  <2> HIDE DEF q
  <2>3. /\ SubSeq(A, 1, q) \in Seq(Text) /\ Len(SubSeq(A, 1, q)) = IF 1 <= q THEN q - 1 + 1 ELSE 0
        /\ \A i \in 1..(q - 1 + 1) : SubSeq(A, 1, q)[i] = A[1 + i - 1]
    BY <1>1, <2>2, PartOf
  <2>4. q - 1 + 1 = q /\ \A i \in 1..q : 1 + i - 1 = i
    BY <2>2
  <2>5. /\ SubSeq(A, 1, q) \in Seq(Text) /\ Len(SubSeq(A, 1, q)) = q
        /\ \A i \in 1..q : SubSeq(A, 1, q)[i] = A[i]
    BY <2>2, <2>3, <2>4
  <2> QED BY <2>5 DEF q
<1> HIDE DEF F
<1>5. F # <<>>
  BY <1>1, <1>4, EmptySeq
<1>6. <<>> \in Text /\ E \in Seq(Text) /\ P \in Seq(Text) /\ Len(E) = 1 /\ Len(P) = 1
      /\ E[1] = <<>> /\ P[1] = piece
  BY EmptySeq DEF Text
<1> HIDE DEF E, P
<1>7. A = F \o E
  <2>1. /\ F \o E \in Seq(Text) /\ Len(F \o E) = Len(F) + Len(E)
        /\ \A i \in 1..Len(F) : (F \o E)[i] = F[i]
        /\ \A i \in 1..Len(E) : (F \o E)[Len(F) + i] = E[i]
    <3>1. F \in Seq(Text) /\ E \in Seq(Text)
      BY <1>4, <1>6
    <3> QED BY <3>1, ConcatParts
  <2>2. Len(F \o E) = m /\ (F \o E)[m] = <<>>
    <3>1. 1 \in 1..Len(E) /\ Len(F) + 1 = m
      BY <1>1, <1>4, <1>6
    <3> QED BY <1>1, <1>4, <1>6, <2>1, <3>1
  <2>3. ASSUME NEW k \in 1..m PROVE A[k] = (F \o E)[k]
    <3>1. k = m \/ k \in 1..(m - 1)
      BY <1>1
    <3> QED BY <1>1, <1>4, <2>1, <2>2, <3>1
  <2> QED BY <1>1, <1>2, <2>1, <2>2, <2>3, SeqEqual
<1>8. J = F \o P
  <2>1. /\ F \o P \in Seq(Text) /\ Len(F \o P) = Len(F) + Len(P)
        /\ \A i \in 1..Len(F) : (F \o P)[i] = F[i]
        /\ \A i \in 1..Len(P) : (F \o P)[Len(F) + i] = P[i]
    <3>1. F \in Seq(Text) /\ P \in Seq(Text)
      BY <1>4, <1>6
    <3> QED BY <3>1, ConcatParts
  <2>2. Len(F \o P) = m /\ (F \o P)[m] = piece
    <3>1. 1 \in 1..Len(P) /\ Len(F) + 1 = m
      BY <1>1, <1>4, <1>6
    <3> QED BY <1>1, <1>4, <1>6, <2>1, <3>1
  <2>3. <<>> \o piece = piece
    BY ConcatEmptySeq DEF Text
  <2>4. ASSUME NEW k \in 1..m PROVE J[k] = (F \o P)[k]
    <3>1. CASE k = m
      BY <1>1, <1>3, <2>2, <2>3, <3>1
    <3>2. CASE k # m
      <4>1. k \in 1..(m - 1)
        BY <1>1, <3>2
      <4> QED BY <1>3, <1>4, <2>1, <3>2, <4>1
    <3> QED BY <3>1, <3>2
  <2> QED BY <1>3, <2>1, <2>2, <2>4, SeqEqual
<1>9. J[1] = A[1]
  <2>1. 1 \in 1..m /\ 1 # m
    BY <1>1
  <2> QED BY <1>3, <2>1
<1>10. Tail(F) \in Seq(Text) /\ Tail(A) = Tail(F) \o E /\ Tail(J) = Tail(F) \o P
  <2>1. Tail(F) \in Seq(Text) /\ Tail(F \o E) = Tail(F) \o E
    BY <1>4, <1>5, <1>6, TailConcat
  <2>2. Tail(F \o P) = Tail(F) \o P
    BY <1>4, <1>5, <1>6, TailConcat
  <2> QED BY <1>7, <1>8, <2>1, <2>2
<1>11. NonEmpty(Reverse(Tail(A))) = NonEmpty(Reverse(Tail(F)))
  <2>1. NonEmpty(Reverse(Tail(A))) = NonEmpty(Reverse(E)) \o NonEmpty(Reverse(Tail(F)))
    BY <1>6, <1>10, LinesConcat
  <2>2. NonEmpty(Reverse(E)) = <<>>
    BY ReverseOne, NonEmptyOfEmpty DEF E
  <2>3. NonEmpty(Reverse(Tail(F))) \in Seq(Text)
    BY <1>10, ReverseType, NonEmptyType
  <2> QED BY <2>1, <2>2, <2>3, ConcatEmptySeq
<1>12. NonEmpty(Reverse(Tail(J))) = NonEmpty(P) \o NonEmpty(Reverse(Tail(F)))
  <2>1. NonEmpty(Reverse(Tail(J))) = NonEmpty(Reverse(P)) \o NonEmpty(Reverse(Tail(F)))
    BY <1>6, <1>10, LinesConcat
  <2>2. Reverse(P) = P
    BY ReverseOne DEF P
  <2> QED BY <2>1, <2>2
<1> QED BY <1>9, <1>11, <1>12 DEF A, J, P

\* All lines: the settled ones, then the first.
LEMMA LinesOfText ==
  ASSUME NEW text \in Text
  PROVE  NonEmpty(Reverse(Split(text))) = Settled(text) \o NonEmpty(<<Split(text)[1]>>)
<1> DEFINE A == Split(text)
           F == <<A[1]>>
           T == Tail(A)
<1>1. A \in Seq(Text) /\ A # <<>> /\ A[1] \in Text /\ T \in Seq(Text)
  BY SplitTail
<1>2. Settled(text) = NonEmpty(Reverse(T))
  BY DEF Settled
<1> HIDE DEF A
<1>3. F \in Seq(Text) /\ Len(F) = 1 /\ F[1] = A[1]
  BY <1>1
<1>4. Reverse(F) = F
  BY ReverseOne
<1>5. A = F \o T
  <2>1. Len(A) \in Nat \ {0}
    BY <1>1, EmptySeq
  <2>2. T \in Seq(Text) /\ Len(T) = Len(A) - 1 /\ \A i \in 1..Len(T) : T[i] = A[i + 1]
    BY <1>1, HeadTailProperties
  <2> HIDE DEF F, T
  <2>3. /\ F \o T \in Seq(Text) /\ Len(F \o T) = Len(F) + Len(T)
        /\ \A i \in 1..Len(F) : (F \o T)[i] = F[i]
        /\ \A i \in 1..Len(T) : (F \o T)[Len(F) + i] = T[i]
    <3>1. F \in Seq(Text) /\ T \in Seq(Text)
      BY <1>3, <2>2
    <3> QED BY <3>1, ConcatParts
  <2>4. ASSUME NEW k \in 1..Len(A) PROVE A[k] = (F \o T)[k]
    <3>1. CASE k = 1
      <4>1. 1 \in 1..Len(F)
        BY <1>3
      <4> QED BY <1>3, <2>3, <3>1, <4>1
    <3>2. CASE k # 1
      <4>1. k - 1 \in 1..Len(T) /\ (k - 1) + 1 = k /\ Len(F) + (k - 1) = k
        BY <1>3, <2>1, <2>2, <3>2
      <4> QED BY <2>2, <2>3, <4>1
    <3> QED BY <3>1, <3>2
  <2>5. Len(F \o T) = Len(A)
    BY <1>3, <2>1, <2>2, <2>3
  <2> QED BY <1>1, <2>3, <2>4, <2>5, SeqEqual
<1> HIDE DEF F, T
<1>6. NonEmpty(Reverse(F \o T)) = NonEmpty(Reverse(T)) \o NonEmpty(Reverse(F))
  BY <1>1, <1>3, LinesConcat
<1> QED BY <1>2, <1>4, <1>5, <1>6 DEF A, F

\* Of a text that is empty nothing is settled.
LEMMA EmptyText ==
  /\ <<>> \in Text /\ Split(<<>>) = << <<>> >> /\ Settled(<<>>) = <<>>
  /\ NonEmpty(Reverse(Split(<<>>))) = <<>>
<1>1. <<>> \in Text /\ Len(<<>>) = 0 /\ DOMAIN <<>> = {}
  BY EmptySeq DEF Text
<1>2. Ends(<<>>) = 1..1
  BY <1>1 DEF Ends
<1>3. Sorted(Ends(<<>>)) = [k \in 1..1 |-> k]
  BY <1>2, SortedInterval
<1> DEFINE e == [k \in 1..1 |-> k]
           A == Split(<<>>)
<1>4. Len(e) = 1 /\ e[1] = 1
  <2>1. e \in [1..1 -> Nat]
    OBVIOUS
  <2> QED BY <2>1, LenProperties
<1>5. A \in Seq(Text) /\ Len(A) = 1 /\ A[1] = SubSeq(<<>>, 1, 0)
  <2>1. /\ A \in Seq(Text) /\ Len(A) = Len(e)
        /\ \A k \in 1..Len(e) : A[k] = SubSeq(<<>>, From(e, k), e[k] - 1)
    BY <1>1, <1>3, SplitIs
  <2> HIDE DEF e, A
  <2>2. 1 \in 1..Len(e) /\ From(e, 1) = 1 /\ e[1] - 1 = 0
    BY <1>4 DEF From
  <2> QED BY <1>4, <2>1, <2>2
<1>6. SubSeq(<<>>, 1, 0) = <<>>
  BY SubSeqEmpty
<1> HIDE DEF A
<1>7. A = << <<>> >>
  BY <1>1, <1>5, <1>6, SeqEqual
<1>8. Tail(A) = <<>> /\ Reverse(<<>>) = <<>>
  <2>1. Tail(A) = <<>>
    <3>1. A # <<>>
      BY <1>5, EmptySeq
    <3>2. Tail(A) \in Seq(Text) /\ Len(Tail(A)) = 0
      BY <1>5, <3>1, HeadTailProperties
    <3> QED BY <3>2, EmptySeq
  <2>2. <<>> \in Seq(Text)
    BY EmptySeq
  <2>3. Reverse(<<>>) \in Seq(Text) /\ Len(Reverse(<<>>)) = 0
    BY <1>1, <2>2, ReverseType
  <2> QED BY <2>1, <2>3, EmptySeq
<1>9. Settled(<<>>) = <<>>
  BY <1>8, NonEmptyOfEmpty DEF Settled, A
<1>10. NonEmpty(Reverse(A)) = <<>>
  BY <1>7, ReverseOne, NonEmptyOfEmpty
<1> QED BY <1>1, <1>7, <1>9, <1>10 DEF A

-----------------------------------------------------------------------------
(* The file and the chunk that is read next.                               *)

\* What of the opened file was read.
BeenRead == SubSeq(opened, remaining_size + 1, file_size)

LEMMA FileFacts ==
  ASSUME ReaderTypeOK, FileOK
  PROVE  /\ file \in Seq(0..MaxWritten) /\ opened \in Seq(0..MaxWritten)
         /\ Len(file) \in Nat /\ Len(opened) \in Nat /\ BufSize \in Nat \ {0}
         /\ file_size = Len(opened) /\ offset \in Nat /\ remaining_size \in Nat
         /\ offset + remaining_size = file_size
         /\ whole => Len(opened) <= Len(file)
         /\ whole => \A i \in 1..Len(opened) : opened[i] = file[i]
<1>1. file \in Seq(0..MaxWritten) /\ opened \in Seq(0..MaxWritten)
  BY DEF ReaderTypeOK, Text
<1>2. Len(file) \in Nat /\ Len(opened) \in Nat
  BY <1>1, LenProperties
<1>3. whole => Len(opened) <= Len(file) /\ \A i \in 1..Len(opened) : opened[i] = file[i]
  BY <1>1, PrefixPoints DEF FileOK
<1>4. file_size = Len(opened) /\ offset + remaining_size = file_size
  BY DEF FileOK
<1>5. offset \in Nat /\ remaining_size \in Nat
  BY DEF ReaderTypeOK
<1> QED BY <1>1, <1>2, <1>3, <1>4, <1>5, ReaderAssumption

\* Where the chunk begins, and where it ends.
LEMMA BufferBounds ==
  ASSUME ReaderTypeOK, FileOK, remaining_size > 0
  PROVE  /\ Left \in Nat /\ Left < remaining_size
         /\ Least(file_size, offset + BufSize) \in Nat
         /\ Least(file_size, offset + BufSize) > 0
         /\ Least(file_size, offset + BufSize) + Left = file_size
         /\ buffer = SubSeq(file, Left + 1, Least(Len(file), remaining_size))
<1> DEFINE next == Least(file_size, offset + BufSize)
           start == file_size - next
<1>1. /\ Len(file) \in Nat /\ BufSize \in Nat \ {0} /\ offset \in Nat /\ remaining_size \in Nat
      /\ offset + remaining_size = file_size /\ file_size \in Nat
  BY FileFacts
<1>2. Left \in Nat /\ Left < remaining_size
  BY <1>1 DEF Left
<1>3. next \in Nat /\ next > 0 /\ next + Left = file_size
  BY <1>1 DEF Least, Left
<1>4. start = Left
  BY <1>1, <1>2, <1>3
<1>5. start + Least(remaining_size, BufSize) = remaining_size
  <2>1. Left + Least(remaining_size, BufSize) = remaining_size
    BY <1>1 DEF Least, Left
  <2> QED BY <1>4, <2>1
<1>6. buffer = SubSeq(file, start + 1, Least(Len(file), start + Least(remaining_size, BufSize)))
  BY DEF buffer
<1> HIDE DEF start
<1>7. buffer = SubSeq(file, Left + 1, Least(Len(file), remaining_size))
  BY <1>4, <1>5, <1>6
<1> QED BY <1>2, <1>3, <1>7

LEMMA BufferType ==
  ASSUME ReaderTypeOK, FileOK, remaining_size > 0
  PROVE  buffer \in Text
<1> DEFINE q == Least(Len(file), remaining_size)
           p == Left + 1
<1>1. Left \in Nat /\ buffer = SubSeq(file, p, q)
  BY BufferBounds
<1>2. q \in Nat /\ q <= Len(file) /\ p \in Nat \ {0}
  BY <1>1, FileFacts DEF Least
<1>3. file \in Seq(0..MaxWritten)
  BY FileFacts
<1> HIDE DEF p, q
<1>4. SubSeq(file, p, q) \in Seq(0..MaxWritten)
  BY <1>2, <1>3, PartOf
<1> QED BY <1>1, <1>4 DEF Text

\* As long as the file is whole, the chunk is what of the opened file comes before.
LEMMA BufferIs ==
  ASSUME ReaderTypeOK, FileOK, remaining_size > 0, whole
  PROVE  /\ buffer \in Text /\ buffer # <<>> /\ BeenRead \in Text
         /\ SubSeq(opened, Left + 1, file_size) = buffer \o BeenRead
<1> DEFINE q == remaining_size
           p == Left + 1
           S == 0..MaxWritten
           n == Len(opened)
           x == SubSeq(file, p, q)
           y == SubSeq(opened, p, q)
<1>1. /\ Len(file) \in Nat /\ n \in Nat /\ file_size = n /\ q \in Nat /\ q > 0 /\ q <= n
      /\ n <= Len(file) /\ \A i \in 1..n : opened[i] = file[i]
  BY FileFacts
<1>2. file \in Seq(S) /\ opened \in Seq(S)
  BY FileFacts
<1>3. Left \in Nat /\ p \in Nat \ {0} /\ p <= q /\ buffer = SubSeq(file, p, Least(Len(file), q))
  BY <1>1, BufferBounds
<1>4. buffer = x
  BY <1>1, <1>3 DEF Least
<1>5. buffer \in Text
  BY BufferType
<1> HIDE DEF p, q, n, S
<1>6. x \in Seq(S) /\ Len(x) = q - p + 1 /\ \A i \in 1..(q - p + 1) : x[i] = file[p + i - 1]
  <2>1. q <= Len(file)
    BY <1>1
  <2> QED BY <1>1, <1>2, <1>3, <2>1, PartOf
<1>7. y \in Seq(S) /\ Len(y) = q - p + 1 /\ \A i \in 1..(q - p + 1) : y[i] = opened[p + i - 1]
  <2>1. q <= Len(opened)
    BY <1>1 DEF n
  <2> QED BY <1>1, <1>2, <1>3, <2>1, PartOf
<1>8. x = y
  <2>1. \A i \in 1..(q - p + 1) : p + i - 1 \in 1..n
    BY <1>1, <1>3
  <2>2. \A i \in 1..(q - p + 1) : opened[p + i - 1] = file[p + i - 1]
    BY <1>1, <2>1
  <2> HIDE DEF x, y
  <2>3. \A i \in 1..Len(x) : x[i] = y[i]
    BY <1>6, <1>7, <2>2
  <2> QED BY <1>6, <1>7, <2>3, SeqEqual
<1>9. buffer # <<>>
  <2>1. q - p + 1 # 0
    BY <1>1, <1>3
  <2> QED BY <1>4, <1>6, <2>1, EmptySeq
<1>10. BeenRead \in Text
  <2>1. SubSeq(opened, q + 1, n) \in Seq(S)
    <3>1. q + 1 \in Nat \ {0} /\ n <= Len(opened)
      BY <1>1 DEF n
    <3> QED BY <1>1, <1>2, <3>1, PartOf
  <2> QED BY <1>1, <2>1 DEF BeenRead, Text, q, S
<1>11. SubSeq(opened, p, q) \o SubSeq(opened, q + 1, n) = SubSeq(opened, p, n)
  <2>1. p \in 1..(Len(opened) + 1) /\ q \in (p - 1)..Len(opened) /\ n \in q..Len(opened)
    BY <1>1, <1>3 DEF n
  <2> QED BY <1>2, <2>1, ConcatAdjacentSubSeq
<1>12. SubSeq(opened, p, file_size) = buffer \o BeenRead
  BY <1>1, <1>4, <1>8, <1>11 DEF BeenRead, q
<1> QED BY <1>5, <1>9, <1>10, <1>12 DEF p

\* What was read of a file of which nothing, or everything, was.
LEMMA BeenReadEnds ==
  ASSUME ReaderTypeOK, FileOK
  PROVE  /\ BeenRead \in Text
         /\ offset = 0 => BeenRead = <<>>
         /\ remaining_size = 0 => BeenRead = opened
<1> DEFINE n == Len(opened)
           q == remaining_size
           S == 0..MaxWritten
<1>1. n \in Nat /\ q \in Nat /\ file_size = n /\ offset \in Nat /\ offset + q = n
  BY FileFacts
<1>2. opened \in Seq(S) /\ n = Len(opened)
  BY FileFacts
<1>3. BeenRead = SubSeq(opened, q + 1, n)
  BY <1>1 DEF BeenRead
<1> HIDE DEF n, q, S
<1>4. SubSeq(opened, q + 1, n) \in Seq(S)
  <2>1. q + 1 \in Nat \ {0} /\ n <= Len(opened)
    BY <1>1, <1>2
  <2> QED BY <1>1, <1>2, <2>1, PartOf
<1>5. ASSUME offset = 0 PROVE SubSeq(opened, q + 1, n) = <<>>
  <2>1. q + 1 \in Int /\ n \in Int /\ n < q + 1
    BY <1>1, <1>5
  <2> QED BY <2>1, SubSeqEmpty
<1>6. ASSUME q = 0 PROVE SubSeq(opened, q + 1, n) = opened
  <2>1. q + 1 = 1
    BY <1>6
  <2> QED BY <1>2, <2>1, SubSeqFull
<1> QED BY <1>3, <1>4, <1>5, <1>6 DEF Text, q, S

\* What is settled are the first of the expected lines.
LEMMA SettledExpected ==
  ASSUME NEW text \in Text, NEW q \in 0..Len(text)
  PROVE  IsPrefix(Settled(SubSeq(text, q + 1, Len(text))), NonEmpty(Reverse(Split(text))))
<1> DEFINE n == Len(text)
           a == SubSeq(text, 1, q)
           b == SubSeq(text, q + 1, n)
           J == Joined(Split(a), Split(b)[1])
<1>1. n \in Nat /\ q \in Nat /\ q <= n /\ n = Len(text)
  BY EndsFacts
<1> HIDE DEF n
<1>2. a \in Text /\ b \in Text
  <2>1. /\ 1 \in Nat \ {0} /\ q <= Len(text)
        /\ q + 1 \in Nat \ {0} /\ n <= Len(text)
    BY <1>1
  <2> QED BY <1>1, <2>1, PartOf DEF Text
<1>3. text = a \o b
  <2>1. 1 \in 1..(Len(text) + 1) /\ q \in (1 - 1)..Len(text) /\ n \in q..Len(text)
    BY <1>1
  <2>2. a \o b = SubSeq(text, 1, n)
    BY <2>1, ConcatAdjacentSubSeq DEF Text
  <2>3. SubSeq(text, 1, n) = text
    BY <1>1, SubSeqFull DEF Text
  <2> QED BY <2>2, <2>3
<1> HIDE DEF a, b
<1>4. J \in Seq(Text) /\ NonEmpty(Reverse(Split(a \o b))) = Settled(b) \o NonEmpty(Reverse(J))
  BY <1>2, SettledConcat
<1>5. NonEmpty(Reverse(J)) \in Seq(Text) /\ Settled(b) \in Seq(Text)
  BY <1>2, <1>4, ReverseType, NonEmptyType, SettledType
<1>6. IsPrefix(Settled(b), Settled(b) \o NonEmpty(Reverse(J)))
  BY <1>5, PrefixOfConcat
<1> QED BY <1>3, <1>4, <1>6 DEF b, n

-----------------------------------------------------------------------------
(* The invariant.                                                          *)

LEMMA ReaderInitIInv == ReaderInit => ReaderIInv
<1> SUFFICES ASSUME ReaderInit PROVE ReaderIInv
  OBVIOUS
<1> USE DEF ReaderInit
<1>1. <<>> \in Text /\ <<>> \in Seq(Text) /\ None \in Text /\ Len(<<>>) = 0
  <2>1. 0 \in 0..MaxWritten
    BY ReaderAssumption
  <2> QED BY <2>1, EmptySeq DEF Text, None, NL
<1>2. ReaderTypeOK
  BY <1>1, ReaderAssumption DEF ReaderTypeOK
<1>3. FileOK
  <2>1. IsPrefix(<<>>, <<>>)
    BY DEF IsPrefix
  <2> QED BY <1>1, <2>1 DEF FileOK
<1>4. ReadOK /\ RaisesOnlyTruncated
  BY DEF ReadOK, RaisesOnlyTruncated
<1>5. LinesInReverse
  <2>1. Expected = <<>> /\ NonEmpty(yielded) = <<>>
    BY EmptyText, NonEmptyOfEmpty DEF Expected
  <2>2. IsPrefix(<<>>, <<>>)
    BY DEF IsPrefix
  <2> QED BY <2>1, <2>2 DEF LinesInReverse
<1> QED BY <1>2, <1>3, <1>4, <1>5 DEF ReaderIInv

LEMMA AppendLineIInv ==
  ASSUME ReaderIInv, NEW n \in 0..MaxLine, AppendLine(n)
  PROVE  ReaderIInv'
<1> DEFINE body == [k \in 1..n |-> written + 1]
<1>1. PICK end \in {<<NL>>, <<>>} : file' = file \o body \o end
  BY DEF AppendLine
<1>2. /\ written < MaxWritten /\ written' = written + 1
      /\ UNCHANGED <<truncates, localVars, opened, whole>>
  BY DEF AppendLine
<1>3. file \in Text /\ opened \in Text /\ written \in 0..MaxWritten
  BY DEF ReaderIInv, ReaderTypeOK
<1>4. body \in Text /\ end \in Text
  <2>1. n \in Nat /\ written + 1 \in 0..MaxWritten /\ 0 \in 0..MaxWritten
    BY <1>2, <1>3, ReaderAssumption
  <2>2. body \in [1..n -> 0..MaxWritten]
    BY <2>1
  <2>3. body \in Seq(0..MaxWritten)
    BY <2>1, <2>2
  <2>4. <<>> \in Seq(0..MaxWritten) /\ <<NL>> \in Seq(0..MaxWritten)
    BY <2>1 DEF NL
  <2> QED BY <2>3, <2>4 DEF Text
<1> HIDE DEF body
<1>5. file' \in Text /\ (IsPrefix(opened, file) => IsPrefix(opened, file'))
  <2>1. file \o body \in Text
    BY <1>3, <1>4, ConcatText
  <2>2. (file \o body) \o end \in Text
    BY <1>4, <2>1, ConcatText
  <2>3. ASSUME IsPrefix(opened, file) PROVE IsPrefix(opened, (file \o body) \o end)
    <3>1. IsPrefix(opened, file \o body)
      BY <1>3, <1>4, <2>3, PrefixLonger DEF Text
    <3> QED BY <1>3, <1>4, <2>1, <3>1, PrefixLonger DEF Text
  <2> QED BY <1>1, <2>2, <2>3
<1>6. ReaderTypeOK'
  BY <1>2, <1>3, <1>5, ReaderAssumption DEF ReaderIInv, ReaderTypeOK, localVars
<1>7. FileOK'
  BY <1>2, <1>5 DEF ReaderIInv, FileOK, localVars
<1>8. ReadOK' /\ RaisesOnlyTruncated'
  BY <1>2 DEF ReaderIInv, ReadOK, RaisesOnlyTruncated, localVars
<1>9. LinesInReverse'
  BY <1>2 DEF ReaderIInv, LinesInReverse, Expected, localVars
<1> QED BY <1>6, <1>7, <1>8, <1>9 DEF ReaderIInv

LEMMA TruncateIInv == ReaderIInv /\ Truncate => ReaderIInv'
<1> SUFFICES ASSUME ReaderIInv, Truncate PROVE ReaderIInv'
  OBVIOUS
<1> USE DEF Truncate, localVars
<1>1. <<>> \in Text
  BY EmptyText
<1>2. ReaderTypeOK'
  <2>1. ReaderTypeOK
    BY DEF ReaderIInv
  <2>2. truncates' \in 0..MaxTruncates
    BY <2>1, ReaderAssumption DEF ReaderTypeOK
  <2>3. file' \in Text /\ whole' \in BOOLEAN
    BY <1>1
  <2> QED BY <2>1, <2>2, <2>3 DEF ReaderTypeOK
<1>3. FileOK' /\ ReadOK' /\ LinesInReverse' /\ RaisesOnlyTruncated'
  BY DEF ReaderIInv, FileOK, ReadOK, LinesInReverse, RaisesOnlyTruncated
<1> QED BY <1>2, <1>3 DEF ReaderIInv

LEMMA OpenIInv == ReaderIInv /\ Open => ReaderIInv'
<1> SUFFICES ASSUME ReaderIInv, Open PROVE ReaderIInv'
  OBVIOUS
<1> USE DEF Open
<1>1. <<>> \in Seq(Text) /\ None \in Text /\ file \in Text /\ Len(file) \in Nat
  <2>1. 0 \in 0..MaxWritten
    BY ReaderAssumption
  <2>2. file \in Seq(0..MaxWritten)
    BY DEF ReaderIInv, ReaderTypeOK, Text
  <2> QED BY <2>1, <2>2, EmptySeq, LenProperties DEF Text, None, NL
<1>2. ReaderTypeOK'
  BY <1>1 DEF ReaderIInv, ReaderTypeOK
<1>3. FileOK'
  <2>1. IsPrefix(file, file)
    BY DEF IsPrefix
  <2> QED BY <1>1, <2>1 DEF FileOK
<1>4. ReadOK' /\ RaisesOnlyTruncated'
  BY DEF ReadOK, RaisesOnlyTruncated
<1>5. LinesInReverse'
  <2>1. FileOK' /\ ReaderTypeOK'
    BY <1>2, <1>3
  <2>2. Expected' \in Seq(Text)
    <3>1. Split(file) \in Seq(Text)
      BY <1>1, SplitType
    <3>2. NonEmpty(Reverse(Split(file))) \in Seq(Text)
      BY <3>1, ReverseType, NonEmptyType
    <3> QED BY <3>2 DEF Expected
  <2>3. IsPrefix(<<>>, Expected')
    <3>1. Len(<<>>) <= Len(Expected') /\ \A i \in 1..Len(<<>>) : <<>>[i] = Expected'[i]
      <4>1. Len(<<>>) = 0 /\ Len(Expected') \in Nat /\ 1..0 = {}
        BY <2>2, EmptySeq, LenProperties
      <4> QED BY <4>1
    <3> QED BY <1>1, <2>2, <3>1, PrefixPoints
  <2>4. NonEmpty(yielded') = <<>>
    BY NonEmptyOfEmpty
  <2> QED BY <2>3, <2>4 DEF LinesInReverse
<1> QED BY <1>2, <1>3, <1>4, <1>5 DEF ReaderIInv

\* While a file is read, what was yielded are the settled lines, if it is whole.
LEMMA ReadFacts ==
  ASSUME ReaderIInv, pc = "read", whole
  PROVE  /\ BeenRead \in Text
         /\ NonEmpty(yielded) = Settled(BeenRead)
         /\ segment # None => segment = Split(BeenRead)[1]
         /\ segment = None <=> offset = 0
         /\ segment = None => BeenRead = <<>>
<1>1. ReaderTypeOK /\ FileOK /\ ReadOK
  BY DEF ReaderIInv
<1>2. BeenRead \in Text /\ (offset = 0 => BeenRead = <<>>)
  BY <1>1, BeenReadEnds
<1>3. Split(BeenRead)[1] # None
  BY <1>2, SplitTail
<1>4. IF offset = 0 THEN segment = None /\ yielded = <<>>
      ELSE segment = Split(BeenRead)[1] /\ NonEmpty(yielded) = Settled(BeenRead)
  BY <1>1 DEF ReadOK, BeenRead, Settled
<1>5. offset = 0 => NonEmpty(yielded) = Settled(BeenRead)
  BY <1>2, <1>4, EmptyText, NonEmptyOfEmpty
<1> QED BY <1>2, <1>3, <1>4, <1>5

\* The chunk that is read: its pieces, the last of them joined with the segment.
JoinedLines ==
  LET lines == Split(buffer)
  IN IF segment # None /\ Joins THEN Joined(lines, segment) ELSE lines

LEMMA JoinedLinesType ==
  ASSUME ReaderTypeOK, FileOK, remaining_size > 0
  PROVE  /\ JoinedLines \in Seq(Text) /\ JoinedLines # <<>> /\ JoinedLines[1] \in Text
         /\ Tail(JoinedLines) \in Seq(Text)
<1>1. buffer \in Text /\ segment \in Text
  BY BufferType DEF ReaderTypeOK
<1> DEFINE B == Split(buffer)
           J == JoinedLines
<1>2. B \in Seq(Text) /\ B # <<>>
  BY <1>1, SplitTail
<1>3. J = B \/ J = Joined(B, segment)
  BY DEF JoinedLines
<1> HIDE DEF B, J
<1>4. J \in Seq(Text) /\ J # <<>>
  <2>1. Joined(B, segment) \in Seq(Text) /\ Len(Joined(B, segment)) \in Nat \ {0}
    BY <1>1, <1>2, JoinedType
  <2> QED BY <1>2, <1>3, <2>1, EmptySeq
<1>5. J[1] \in Text /\ Tail(J) \in Seq(Text)
  <2>1. Len(J) \in Nat \ {0}
    BY <1>4, EmptySeq
  <2>2. 1 \in 1..Len(J)
    BY <2>1
  <2> QED BY <1>4, <2>2, ElementOfSeq, HeadTailProperties
<1> QED BY <1>4, <1>5 DEF J

\* The segment, if it is a line of its own as the chunk ends with a newline.
LineOfSegment == IF segment # None /\ ~Joins THEN <<segment>> ELSE <<>>

LEMMA ReadChunkSteps ==
  ASSUME ReadChunk
  PROVE  /\ pc = "read" /\ remaining_size > 0 /\ remaining_size' = Left
         /\ offset' = Least(file_size, offset + BufSize)
         /\ segment' = JoinedLines[1]
         /\ yielded' = (yielded \o LineOfSegment) \o NonEmpty(Reverse(Tail(JoinedLines)))
         /\ UNCHANGED <<file, written, truncates, pc, file_size, opened, whole>>
<1>1. JoinedLines = LET lines == Split(buffer)
                    IN IF segment # None /\ Joins
                       THEN [lines EXCEPT ![Len(lines)] = @ \o segment] ELSE lines
  BY DEF JoinedLines, Joined
<1> QED BY <1>1 DEF ReadChunk, LineOfSegment

\* A whole file: the chunk settles what comes before what was read.
LEMMA ChunkSettles ==
  ASSUME ReaderIInv, pc = "read", remaining_size > 0, whole
  PROVE  /\ Split(buffer \o BeenRead)[1] = JoinedLines[1]
         /\ Settled(buffer \o BeenRead) =
              (NonEmpty(yielded) \o NonEmpty(LineOfSegment))
                \o NonEmpty(Reverse(Tail(JoinedLines)))
<1> DEFINE b == buffer
           B == Split(b)
           r == BeenRead
           piece == Split(r)[1]
           J == Joined(B, piece)
           N(A) == NonEmpty(Reverse(Tail(A)))
<1>1. ReaderTypeOK /\ FileOK
  BY DEF ReaderIInv
<1>2. b \in Text /\ b # <<>> /\ r \in Text
  BY <1>1, BufferIs
<1>3. /\ NonEmpty(yielded) = Settled(r)
      /\ segment # None => segment = piece
      /\ segment = None => r = <<>>
  BY ReadFacts
<1>4. JoinedLines = IF segment # None /\ Joins THEN Joined(B, segment) ELSE B
  BY DEF JoinedLines
<1>5. Joins <=> Last(b) # NL
  BY DEF Joins
<1> HIDE DEF b, r
<1>6. /\ J \in Seq(Text) /\ J # <<>> /\ Split(b \o r)[1] = J[1]
      /\ Settled(b \o r) = Settled(r) \o N(J)
  BY <1>2, SettledConcat
<1>7. B \in Seq(Text) /\ B # <<>> /\ Tail(B) \in Seq(Text) /\ piece \in Text
  BY <1>2, SplitTail
<1>8. Settled(r) \in Seq(Text) /\ <<>> \in Seq(Text) /\ Settled(r) \o <<>> = Settled(r)
  BY <1>2, SettledType, ConcatEmptySeq
<1>9. CASE segment = None
  <2>1. LineOfSegment = <<>> /\ JoinedLines = B
    BY <1>4, <1>9 DEF LineOfSegment
  <2>2. b \o r = b
    BY <1>2, <1>3, <1>9, ConcatEmptySeq DEF Text
  <2>3. Settled(r) = <<>>
    BY <1>3, <1>9, EmptyText
  <2>4. N(B) \in Seq(Text)
    BY <1>7, ReverseType, NonEmptyType
  <2>5. Settled(b) = N(B)
    BY DEF Settled
  <2>6. (<<>> \o <<>>) \o N(B) = N(B)
    BY <1>8, <2>3, <2>4, ConcatEmptySeq
  <2> QED BY <1>3, <2>1, <2>2, <2>3, <2>5, <2>6, NonEmptyOfEmpty DEF b, r
<1>10. CASE segment # None /\ Joins
  <2>1. LineOfSegment = <<>> /\ JoinedLines = J
    BY <1>3, <1>4, <1>10 DEF LineOfSegment
  <2>2. Settled(r) \o NonEmpty(<<>>) = Settled(r)
    BY <1>8, NonEmptyOfEmpty
  <2> QED BY <1>3, <1>6, <2>1, <2>2 DEF b, r
<1>11. CASE segment # None /\ ~Joins
  <2>1. LineOfSegment = <<piece>> /\ JoinedLines = B
    BY <1>3, <1>4, <1>11 DEF LineOfSegment
  <2>2. J[1] = B[1] /\ N(J) = NonEmpty(<<piece>>) \o N(B)
    BY <1>2, <1>5, <1>7, <1>11, JoinedNewline
  <2>3. N(B) \in Seq(Text) /\ NonEmpty(<<piece>>) \in Seq(Text)
    <3>1. N(B) \in Seq(Text)
      BY <1>7, ReverseType, NonEmptyType
    <3>2. <<piece>> \in Seq(Text)
      BY <1>7
    <3> QED BY <3>1, <3>2, NonEmptyType
  <2>4. Settled(r) \o (NonEmpty(<<piece>>) \o N(B)) = (Settled(r) \o NonEmpty(<<piece>>)) \o N(B)
    BY <1>8, <2>3, ConcatAssociative
  <2> QED BY <1>3, <1>6, <2>1, <2>2, <2>4 DEF b, r
<1> QED BY <1>9, <1>10, <1>11

LEMMA ReadChunkIInv == ReaderIInv /\ ReadChunk => ReaderIInv'
<1> SUFFICES ASSUME ReaderIInv, ReadChunk PROVE ReaderIInv'
  OBVIOUS
<1> DEFINE done == NonEmpty(Reverse(Tail(JoinedLines)))
           next == Least(file_size, offset + BufSize)
<1>1. /\ pc = "read" /\ remaining_size > 0 /\ remaining_size' = Left /\ offset' = next
      /\ segment' = JoinedLines[1]
      /\ yielded' = (yielded \o LineOfSegment) \o done
      /\ UNCHANGED <<file, written, truncates, pc, file_size, opened, whole>>
  BY ReadChunkSteps
<1>2. ReaderTypeOK /\ FileOK
  BY DEF ReaderIInv
<1>3. /\ Left \in Nat /\ Left < remaining_size /\ next \in Nat /\ next > 0
      /\ next + Left = file_size /\ file_size \in Nat
  BY <1>1, <1>2, BufferBounds DEF ReaderTypeOK
<1>4. /\ JoinedLines[1] \in Text /\ yielded \in Seq(Text) /\ LineOfSegment \in Seq(Text)
      /\ done \in Seq(Text)
  <2>1. JoinedLines[1] \in Text /\ Tail(JoinedLines) \in Seq(Text)
    BY <1>1, <1>2, JoinedLinesType
  <2>2. done \in Seq(Text)
    BY <2>1, ReverseType, NonEmptyType
  <2>3. segment \in Text /\ yielded \in Seq(Text)
    BY <1>2 DEF ReaderTypeOK
  <2>4. <<segment>> \in Seq(Text) /\ <<>> \in Seq(Text)
    BY <2>3
  <2> QED BY <2>1, <2>2, <2>3, <2>4 DEF LineOfSegment
<1> HIDE DEF done, next
<1>5. yielded \o LineOfSegment \in Seq(Text) /\ yielded' \in Seq(Text)
  <2>1. yielded \o LineOfSegment \in Seq(Text)
    BY <1>4, ConcatProperties
  <2> QED BY <1>1, <1>4, <2>1, ConcatProperties
<1>6. ReaderTypeOK'
  <2>1. offset' \in 0..file_size /\ remaining_size' \in 0..file_size
    BY <1>1, <1>3
  <2> QED BY <1>1, <1>2, <1>4, <1>5, <2>1 DEF ReaderTypeOK
<1>7. FileOK'
  <2>1. offset' + remaining_size' = file_size
    BY <1>1, <1>3
  <2> QED BY <1>1, <1>2, <2>1 DEF FileOK
<1>8. RaisesOnlyTruncated'
  BY <1>1 DEF RaisesOnlyTruncated
<1>9. ASSUME whole
      PROVE  /\ BeenRead' \in Text /\ segment' = Split(BeenRead')[1]
             /\ NonEmpty(yielded') = Settled(BeenRead')
  <2>1. BeenRead' = buffer \o BeenRead /\ buffer \in Text /\ BeenRead \in Text
    <3>1. /\ buffer \in Text /\ BeenRead \in Text
          /\ SubSeq(opened, Left + 1, file_size) = buffer \o BeenRead
      BY <1>1, <1>2, <1>9, BufferIs
    <3> QED BY <1>1, <3>1 DEF BeenRead
  <2>2. buffer \o BeenRead \in Text
    BY <2>1, ConcatText
  <2>3. /\ Split(buffer \o BeenRead)[1] = JoinedLines[1]
        /\ Settled(buffer \o BeenRead) = (NonEmpty(yielded) \o NonEmpty(LineOfSegment)) \o done
    BY <1>1, <1>9, ChunkSettles DEF done
  <2>4. NonEmpty(yielded') = (NonEmpty(yielded) \o NonEmpty(LineOfSegment)) \o done
    <3>1. NonEmpty(yielded') = NonEmpty(yielded \o LineOfSegment) \o NonEmpty(done)
      BY <1>1, <1>4, <1>5, NonEmptyConcat
    <3>2. NonEmpty(yielded \o LineOfSegment) = NonEmpty(yielded) \o NonEmpty(LineOfSegment)
      BY <1>4, NonEmptyConcat
    <3>3. NonEmpty(done) = done
      <4>1. Tail(JoinedLines) \in Seq(Text)
        BY <1>1, <1>2, JoinedLinesType
      <4>2. Reverse(Tail(JoinedLines)) \in Seq(Text)
        BY <4>1, ReverseType
      <4> QED BY <4>2, NonEmptyTwice DEF done
    <3> QED BY <3>1, <3>2, <3>3
  <2>5. /\ Settled(BeenRead') = Settled(buffer \o BeenRead)
        /\ Split(BeenRead') = Split(buffer \o BeenRead)
    BY <2>1
  <2> QED BY <1>1, <2>1, <2>2, <2>3, <2>4, <2>5
<1>10. ReadOK'
  <2> SUFFICES ASSUME whole PROVE ReadOK'
    BY <1>1 DEF ReadOK
  <2>1. offset' # 0
    BY <1>1, <1>3
  <2>2. segment' = Split(BeenRead')[1] /\ NonEmpty(yielded') = Settled(BeenRead')
    BY <1>9
  <2> QED BY <2>1, <2>2 DEF ReadOK, BeenRead, Settled
<1>11. LinesInReverse'
  <2> SUFFICES ASSUME whole PROVE LinesInReverse'
    BY <1>1 DEF LinesInReverse
  <2>1. opened \in Text /\ file_size = Len(opened) /\ remaining_size' \in 0..Len(opened)
    BY <1>1, <1>2, <1>3 DEF ReaderTypeOK, FileOK
  <2> DEFINE q == remaining_size'
  <2>2. q \in 0..Len(opened)
    BY <2>1
  <2> HIDE DEF q
  <2>3. IsPrefix(Settled(SubSeq(opened, q + 1, Len(opened))), NonEmpty(Reverse(Split(opened))))
    BY <2>1, <2>2, SettledExpected
  <2>4. /\ BeenRead' = SubSeq(opened, q + 1, Len(opened))
        /\ Expected' = NonEmpty(Reverse(Split(opened)))
    BY <1>1, <2>1 DEF BeenRead, Expected, q
  <2>5. IsPrefix(NonEmpty(yielded'), Expected')
    BY <1>9, <2>3, <2>4
  <2> QED BY <1>1, <2>5 DEF LinesInReverse
<1> QED BY <1>6, <1>7, <1>8, <1>10, <1>11 DEF ReaderIInv

LEMMA IndexErrorIInv == ReaderIInv /\ IndexError => ReaderIInv'
<1> SUFFICES ASSUME ReaderIInv, IndexError PROVE ReaderIInv'
  OBVIOUS
<1>1. /\ pc = "read" /\ remaining_size > 0 /\ buffer = <<>> /\ pc' = "raised"
      /\ UNCHANGED <<file, written, truncates, file_size, offset, remaining_size, segment,
                     yielded, opened, whole>>
  BY DEF IndexError
<1>2. ReaderTypeOK /\ FileOK
  BY DEF ReaderIInv
<1>3. ~whole
  BY <1>1, <1>2, BufferIs
<1>4. ReaderTypeOK' /\ FileOK'
  BY <1>1, <1>2 DEF ReaderTypeOK, FileOK
<1>5. ReadOK' /\ LinesInReverse' /\ RaisesOnlyTruncated'
  BY <1>1, <1>3 DEF ReadOK, LinesInReverse, RaisesOnlyTruncated
<1> QED BY <1>4, <1>5 DEF ReaderIInv

LEMMA FinishIInv == ReaderIInv /\ Finish => ReaderIInv'
<1> SUFFICES ASSUME ReaderIInv, Finish PROVE ReaderIInv'
  OBVIOUS
<1>1. /\ pc = "read" /\ remaining_size = 0 /\ pc' = "done"
      /\ yielded' = IF segment # None THEN Append(yielded, segment) ELSE yielded
      /\ UNCHANGED <<file, written, truncates, file_size, offset, remaining_size, segment,
                     opened, whole>>
  BY DEF Finish
<1>2. ReaderTypeOK /\ FileOK /\ segment \in Text /\ yielded \in Seq(Text)
  BY DEF ReaderIInv, ReaderTypeOK
<1>3. Append(yielded, segment) \in Seq(Text) /\ Append(yielded, segment) = yielded \o <<segment>>
  BY <1>2, AppendProperties, AppendIsConcat
<1>4. ReaderTypeOK'
  BY <1>1, <1>2, <1>3 DEF ReaderTypeOK
<1>5. FileOK' /\ ReadOK' /\ RaisesOnlyTruncated'
  BY <1>1, <1>2 DEF FileOK, ReadOK, RaisesOnlyTruncated
<1>6. ASSUME whole PROVE NonEmpty(yielded') = Expected
  <2>1. BeenRead = opened /\ BeenRead \in Text
    BY <1>1, <1>2, BeenReadEnds
  <2>2. /\ NonEmpty(yielded) = Settled(opened)
        /\ segment # None => segment = Split(opened)[1]
        /\ segment = None => opened = <<>>
    BY <1>1, <1>6, <2>1, ReadFacts
  <2>3. CASE segment = None
    BY <1>1, <2>2, <2>3, EmptyText DEF Expected
  <2>4. CASE segment # None
    <3>1. <<segment>> \in Seq(Text)
      BY <1>2
    <3>2. NonEmpty(yielded') = NonEmpty(yielded) \o NonEmpty(<<segment>>)
      BY <1>1, <1>2, <1>3, <2>4, <3>1, NonEmptyConcat
    <3>3. Expected = Settled(opened) \o NonEmpty(<<Split(opened)[1]>>)
      BY <2>1, LinesOfText DEF Expected
    <3> QED BY <2>2, <2>4, <3>2, <3>3
  <2> QED BY <2>3, <2>4
<1>7. LinesInReverse'
  <2> SUFFICES ASSUME whole PROVE LinesInReverse'
    BY <1>1 DEF LinesInReverse
  <2>1. NonEmpty(yielded') = Expected' /\ Expected' = Expected
    BY <1>1, <1>6 DEF Expected
  <2>2. IsPrefix(Expected', Expected')
    BY DEF IsPrefix
  <2> QED BY <2>1, <2>2 DEF LinesInReverse
<1> QED BY <1>4, <1>5, <1>7 DEF ReaderIInv

LEMMA ReaderNextIInv == ReaderIInv /\ [ReaderNext]_readerVars => ReaderIInv'
<1> SUFFICES ASSUME ReaderIInv, [ReaderNext]_readerVars PROVE ReaderIInv'
  OBVIOUS
<1>1. CASE \E n \in 0..MaxLine : AppendLine(n)
  BY <1>1, AppendLineIInv
<1>2. CASE Truncate \/ Open
  BY <1>2, TruncateIInv, OpenIInv
<1>3. CASE Reader
  BY <1>3, ReadChunkIInv, IndexErrorIInv, FinishIInv DEF Reader
<1>4. CASE UNCHANGED readerVars
  <2> USE <1>4 DEF readerVars, ReaderIInv
  <2>1. ReaderTypeOK' /\ FileOK' /\ ReadOK'
    BY DEF ReaderTypeOK, FileOK, ReadOK
  <2>2. LinesInReverse' /\ RaisesOnlyTruncated'
    BY DEF LinesInReverse, Expected, RaisesOnlyTruncated
  <2> QED BY <2>1, <2>2
<1> QED BY <1>1, <1>2, <1>3, <1>4 DEF ReaderNext

\* The invariant holds in every reachable state.
THEOREM ReaderInvariance == ReaderSpec => []ReaderIInv
BY ReaderInitIInv, ReaderNextIInv, PTL DEF ReaderSpec

\* helpers.py:11-34: the variables of the generator have their types.
THEOREM ReaderTypeCorrect == ReaderSpec => []ReaderTypeOK
<1>1. ReaderIInv => ReaderTypeOK
  BY DEF ReaderIInv
<1> QED BY <1>1, ReaderInvariance, PTL

\* helpers.py:11-34: the lines are yielded from the last to the first, each once and whole,
\* for every size of the chunks, every text, and whatever is appended meanwhile.
THEOREM LinesInReverseHolds == ReaderSpec => []LinesInReverse
<1>1. ReaderIInv => LinesInReverse
  BY DEF ReaderIInv
<1> QED BY <1>1, ReaderInvariance, PTL

\* helpers.py:23-27: the last character of a chunk is there unless the file was truncated.
THEOREM RaisesOnlyTruncatedHolds == ReaderSpec => []RaisesOnlyTruncated
<1>1. ReaderIInv => RaisesOnlyTruncated
  BY DEF ReaderIInv
<1> QED BY <1>1, ReaderInvariance, PTL
=============================================================================
