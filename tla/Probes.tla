------------------------------- MODULE Probes -------------------------------
(***************************************************************************)
(* The checks that ask one program and pass on what it answers: nsq,       *)
(* sequins, jenkins_metrics, phabricator, slapd, unbound, openvpn, veneur, *)
(* kernel and nagios_runner of checks.d.  Each is a list of statements,    *)
(* and what it does when its program, the peer, does not answer as         *)
(* expected.  The agent calls them one after the other in one thread.      *)
(*                                                                         *)
(* A peer is "up", answers something "odd" (no JSON, a missing key, a line *)
(* that cannot be parsed), answers with an "error" (an HTTP status, an     *)
(* exit status), is "slow" (it does not answer, or not in time), or is     *)
(* "refused" (nobody answers at all).  veneur and kernel send a gauge of   *)
(* success; 1 is "OK" here and 0 is "CRITICAL".                            *)
(***************************************************************************)
EXTENDS Naturals, Sequences, FiniteSets

CONSTANTS
  Schedule,     \* the instances, in the order in which the agent calls them
  Deployments,  \* the check that each instance may be of
  None,
  MaxChanges    \* bound on the failures of the peers

Probe == {Schedule[n] : n \in DOMAIN Schedule}

ASSUME ProbesAssumption == Schedule \in Seq(Probe) /\ Schedule # <<>> /\ None \notin Probe

Mode == {"up", "odd", "error", "slow", "refused"}
Status == {"OK", "WARNING", "CRITICAL", "UNKNOWN"}

\* A tag that names an answer: the statement that got it, and what it was.
Answer == {"old", "new", "odd", "unknown"}
Tag == (1..3) \X Answer

VARIABLES
  changes,
  peer,     \* the mode of the peer of each instance
  version,  \* what the peers run
  kind,     \* the check of each instance; it stays what it is
  named,    \* the instances that have tags of their own in the configuration
  turn,     \* the position in Schedule
  at,       \* the check that runs, the statement it is at and its locals
  status,   \* the series to which an instance sent its last status, and what is shown there
  last      \* the status that the last check of an instance sent, and the items

peerVars == <<changes, peer, version>>
fixed == <<kind, named>>
probesVars == <<peerVars, fixed, turn, at, status, last>>

-----------------------------------------------------------------------------
(* The checks.  "ask" is a request and waits for its answer; "item" sends   *)
(* something of the answer, and raises if it is odd there; "ok" sends OK;   *)
(* "search" is a request of which a failure is swallowed, but not what is   *)
(* odd; "grub" is read if it can be; "open", "isfile" and "mtime" look at   *)
(* the peer's file.                                                         *)
(*   answers  the modes in which a request is answered                      *)
(*   told     what is sent when it is not                                   *)
(*   odd      what is sent when an item cannot be read                      *)
(*   patient  there is no timeout                                           *)
(*   tagged   the check tags its status with the instance                   *)

\* A variant: no timeout.
NSQPatient == [body |-> <<"ask", "ok", "item", "item">>, answers |-> {"up", "odd"},
               told |-> [slow |-> "CRITICAL", error |-> "CRITICAL"], odd |-> "none",
               patient |-> TRUE, tagged |-> TRUE]

NSQ == [body |-> <<"ask", "ok", "item", "item">>, answers |-> {"up", "odd"},
        told |-> [slow |-> "CRITICAL", error |-> "CRITICAL"], odd |-> "none",
        patient |-> FALSE, tagged |-> TRUE]

\* The exception of a database with too many versions is an odd item.
Sequins == [body |-> <<"ask", "ok", "item", "item">>, answers |-> {"up", "odd"},
            told |-> [slow |-> "CRITICAL", error |-> "CRITICAL"], odd |-> "none",
            patient |-> FALSE, tagged |-> TRUE]

JenkinsMetrics == [body |-> <<"ask", "ok", "item", "item">>, answers |-> {"up", "odd"},
                   told |-> [slow |-> "CRITICAL", error |-> "CRITICAL"], odd |-> "none",
                   patient |-> FALSE, tagged |-> FALSE]

\* A variant: as the others, it is connected as soon as there is an answer.
PhabricatorEarly == [body |-> <<"ask", "ok", "item", "item">>, answers |-> {"up", "odd"},
                     told |-> [slow |-> "CRITICAL", error |-> "CRITICAL", refused |-> "CRITICAL"],
                     odd |-> "none", patient |-> FALSE, tagged |-> TRUE]

\* A variant: only the errors that nsq catches are caught.
PhabricatorHTTPError == [body |-> <<"ask", "item", "item", "ok">>, answers |-> {"up", "odd"},
                         told |-> [slow |-> "CRITICAL", error |-> "CRITICAL"],
                         odd |-> "none", patient |-> FALSE, tagged |-> TRUE]

Phabricator == [body |-> <<"ask", "item", "item", "ok">>, answers |-> {"up", "odd"},
                told |-> [slow |-> "CRITICAL", error |-> "CRITICAL", refused |-> "CRITICAL"],
                odd |-> "none", patient |-> FALSE, tagged |-> TRUE]

\* STARTTLS and the bind.
connect_to_server == <<"ask", "ask">>

\* Two of the ten calls of fetch_metric.
Slapd == [body |-> connect_to_server \o <<"ok", "search", "search">>, answers |-> {"up", "odd"},
          told |-> [error |-> "CRITICAL", refused |-> "CRITICAL"], odd |-> "none",
          patient |-> TRUE, tagged |-> FALSE]

Unbound == [body |-> <<"ask", "item", "item", "ok">>, answers |-> {"up", "odd"},
            told |-> [error |-> "CRITICAL", refused |-> "CRITICAL"], odd |-> "CRITICAL",
            patient |-> TRUE, tagged |-> FALSE]

\* The status file is read first (one of its clients may have no IPv4 address), and only
\* then it is looked at, twice.  That OpenVPN hangs shows in the age of the file.
OpenVPN == [body |-> <<"open", "item", "item", "isfile", "mtime", "ok">>,
            answers |-> {"up", "odd", "slow"},
            told |-> [slow |-> "CRITICAL", refused |-> "CRITICAL"], odd |-> "none",
            patient |-> FALSE, tagged |-> FALSE]

\* Its status is a gauge of success, tagged with the text of the first answer.  An error page
\* is as good an answer as a version, but not as a date.
Veneur == [body |-> <<"ask", "ask", "item", "ok">>, answers |-> {"up", "odd", "error"},
           told |-> [refused |-> "CRITICAL"], odd |-> "CRITICAL",
           patient |-> TRUE, tagged |-> FALSE]

\* uname, lsb_release, and grub's menu; a gauge of success, too, tagged with all three.
Kernel == [body |-> <<"ask", "ask", "grub", "ok">>, answers |-> {"up", "odd"},
           told |-> [error |-> "CRITICAL", refused |-> "CRITICAL"], odd |-> "none",
           patient |-> TRUE, tagged |-> FALSE]

\* The name of the status is the instance's.  Exit statuses 1, 2 and others.
NagiosRunner == [body |-> <<"ask", "ok">>, answers |-> {"up"},
                 told |-> [odd |-> "WARNING", error |-> "CRITICAL", refused |-> "UNKNOWN"],
                 odd |-> "none", patient |-> TRUE, tagged |-> TRUE]

Checks == [nsq |-> NSQ, sequins |-> Sequins, jenkins_metrics |-> JenkinsMetrics,
           phabricator |-> Phabricator, slapd |-> Slapd, unbound |-> Unbound,
           openvpn |-> OpenVPN, veneur |-> Veneur, kernel |-> Kernel,
           nagios_runner |-> NagiosRunner]

ASSUME DeploymentsAssumption == Deployments \subseteq [Probe -> DOMAIN Checks]

Check(i) == Checks[kind[i]]
ItemsOf(i) == Cardinality({n \in DOMAIN Check(i).body : Check(i).body[n] = "item"})

\* The statements whose answers become tags, and those that are 'unknown' without an answer.
Tagging(check) == CASE check = "veneur" -> {1} [] check = "kernel" -> {1, 2, 3} [] OTHER -> {}
Unknown(check) == IF check = "kernel" THEN {1, 2, 3} ELSE {}

\* The checks that send the configured tags with their status.
ConfiguredTags == {"openvpn", "veneur", "kernel"}

\* The status of instance i is of i alone.
OfItsOwn(i) == Check(i).tagged \/ i \in named

\* What is added to the configured tags.
SentTags(i) ==
  at.got \union {<<n, "unknown">> : n \in Unknown(kind[i]) \ {tag[1] : tag \in at.got}}

\* A variant: no status is tagged by its instance.
SeriesUntagged(i) == [of |-> kind[i], tags |-> SentTags(i)]

\* Statuses with the same name and tags are one series; a later one replaces an earlier one.
Series(i) == [of |-> IF OfItsOwn(i) THEN i ELSE kind[i], tags |-> SentTags(i)]

-----------------------------------------------------------------------------
NotChecking == [of |-> None, step |-> 1, reply |-> "none", told |-> "none", items |-> 0,
                got |-> {}]
Nowhere == [of |-> None, tags |-> {}]

ProbesInit ==
  /\ changes = 0
  /\ peer = [i \in Probe |-> "up"] /\ version = "old"
  /\ kind \in Deployments
  /\ named \in {{}, {i \in Probe : kind[i] \in ConfiguredTags}}
  /\ turn = 1
  /\ at = NotChecking
  /\ status = [i \in Probe |-> [series |-> Nowhere, told |-> "none"]]
  /\ last = [i \in Probe |-> [told |-> "none", items |-> 0]]

-----------------------------------------------------------------------------
(* The peers.  What they break is counted, that they recover is not.       *)

Change(i) ==
  /\ \E mode \in Mode \ {peer[i]} :
       /\ peer' = [peer EXCEPT ![i] = mode]
       /\ IF mode = "up" THEN changes' = changes
                         ELSE changes < MaxChanges /\ changes' = changes + 1
  /\ UNCHANGED <<version, fixed, turn, at, status, last>>

Deploy ==
  /\ version = "old" /\ version' = "new"
  /\ UNCHANGED <<changes, peer, fixed, turn, at, status, last>>

-----------------------------------------------------------------------------
(* The checks, a statement at a time.                                      *)

Busy == at # NotChecking

\* The agent catches what a check raises, and calls the next one, with a copy of its instance.
Start(i) ==
  /\ ~Busy
  /\ at' = [NotChecking EXCEPT !.of = i]
  /\ UNCHANGED <<peerVars, fixed, status, last>>

\* A variant: the list does not begin again.
RoundForward == Start(Schedule[turn]) /\ turn' = turn + 1

Round == Start(Schedule[turn]) /\ turn' = (turn % Len(Schedule)) + 1

At(statement) ==
  Busy /\ at.step \in DOMAIN Check(at.of).body /\ Check(at.of).body[at.step] = statement

GoOn == at' = [at EXCEPT !.step = @ + 1]

\* Whoever sent to that series last, this is what it shows now.
SendStatus(s) ==
  LET series == Series(at.of)
  IN status' = IF s = "none" THEN status
               ELSE [i \in Probe |-> IF i = at.of \/ status[i].series = series
                                     THEN [series |-> series, told |-> s] ELSE status[i]]

\* It returns or raises, and sends this before it does.
Leave(told) ==
  /\ SendStatus(told)
  /\ last' = [last EXCEPT ![at.of] = [told |-> IF told = "none" THEN at.told ELSE told,
                                     items |-> at.items]]
  /\ at' = NotChecking
  /\ UNCHANGED <<peerVars, fixed, turn>>

Answers == peer[at.of] \in Check(at.of).answers
Told == LET told == Check(at.of).told
        IN IF peer[at.of] \in DOMAIN told THEN told[peer[at.of]] ELSE "none"

\* What is got here is remembered for the tags.
Got(answer) ==
  at.got \union (IF at.step \in Tagging(kind[at.of]) THEN {<<at.step, answer>>} ELSE {})

Ask ==
  /\ At("ask") /\ Answers
  /\ at' = [at EXCEPT !.step = @ + 1, !.reply = peer[at.of],
                      !.got = Got(IF peer[at.of] = "up" THEN version ELSE "odd")]
  /\ UNCHANGED <<peerVars, fixed, turn, status, last>>

\* Without a timeout it waits for as long as the peer is slow.
AskFails ==
  /\ At("ask") /\ ~Answers
  /\ ~(peer[at.of] = "slow" /\ Check(at.of).patient)
  /\ Leave(Told)

SendOk ==
  /\ At("ok") /\ SendStatus("OK")
  /\ at' = [at EXCEPT !.step = @ + 1, !.told = "OK"]
  /\ UNCHANGED <<peerVars, fixed, turn, last>>

Readable == at.reply \notin {"odd", "error"}
IsLastItem == "item" \notin {Check(at.of).body[n] : n \in at.step + 1..Len(Check(at.of).body)}

\* What is odd need not be odd from the beginning.
Item ==
  /\ At("item") /\ (IsLastItem => Readable)
  /\ at' = [at EXCEPT !.step = @ + 1, !.items = @ + 1]
  /\ UNCHANGED <<peerVars, fixed, turn, status, last>>

ItemFails == At("item") /\ ~Readable /\ Leave(Check(at.of).odd)

Search ==
  /\ At("search") /\ peer[at.of] # "slow"
  /\ GoOn
  /\ UNCHANGED <<peerVars, fixed, turn, status, last>>

\* A result without structuralObjectClass is none of the LDAPErrors.
SearchRaises == At("search") /\ peer[at.of] = "odd" /\ Leave("none")

\* Whatever goes wrong with it is ignored.
Grub ==
  /\ At("grub")
  /\ at' = [at EXCEPT !.step = @ + 1,
                      !.got = Got(IF peer[at.of] = "up" THEN version ELSE "unknown")]
  /\ UNCHANGED <<peerVars, fixed, turn, status, last>>

Open ==
  /\ At("open") /\ Answers
  /\ at' = [at EXCEPT !.step = @ + 1, !.reply = peer[at.of]]
  /\ UNCHANGED <<peerVars, fixed, turn, status, last>>

OpenRaises == At("open") /\ ~Answers /\ Leave("none")

\* The file is missing if the peer is refused, and too old if it is slow.
IsFile ==
  /\ \/ At("isfile") /\ peer[at.of] # "refused"
     \/ At("mtime") /\ peer[at.of] \notin {"refused", "slow"}
  /\ GoOn
  /\ UNCHANGED <<peerVars, fixed, turn, status, last>>

IsNotRunning ==
  /\ \/ At("isfile") /\ peer[at.of] = "refused"
     \/ At("mtime") /\ peer[at.of] = "slow"
  /\ Leave(Told)

\* The file was there for os.path.isfile and is gone for os.path.getmtime.
MtimeRaises == At("mtime") /\ peer[at.of] = "refused" /\ Leave("none")

Return == Busy /\ at.step \notin DOMAIN Check(at.of).body /\ Leave("none")

Step == \/ Ask \/ AskFails \/ SendOk \/ Item \/ ItemFails \/ Search \/ SearchRaises \/ Grub
        \/ Open \/ OpenRaises \/ IsFile \/ IsNotRunning \/ MtimeRaises \/ Return
Environment == (\E i \in Probe : Change(i)) \/ Deploy

ProbesNext == Environment \/ Round \/ Step

ProbesSpec == ProbesInit /\ [][ProbesNext]_probesVars

\* The collector's thread goes on.
ProbesFairSpec == ProbesSpec /\ WF_probesVars(Round) /\ WF_probesVars(Step)

-----------------------------------------------------------------------------
\* Types of the variables.
ProbesTypeOK ==
  /\ changes \in Nat
  /\ peer \in [Probe -> Mode] /\ version \in {"old", "new"}
  /\ kind \in Deployments /\ named \subseteq Probe
  /\ turn \in DOMAIN Schedule
  /\ at \in [of : Probe \union {None}, step : Nat, reply : Mode \union {"none"},
            told : {"none", "OK"}, items : 0..2, got : SUBSET Tag]
  /\ Busy => at.step \in 1..Len(Check(at.of).body) + 1 /\ at.items \in 0..ItemsOf(at.of)
  /\ status \in [Probe -> [series : [of : Probe \union DOMAIN Checks \union {None},
                                    tags : SUBSET Tag],
                          told : Status \union {"none"}]]
  /\ last \in [Probe -> [told : Status \union {"none"}, items : 0..2]]

\* The checks that send OK before they have read the answer: their OK is of the connection.
OkFirst == {"nsq", "sequins", "jenkins_metrics", "slapd"}

\* The OK of all others comes behind the last thing that the check had to pass on, whatever
\* becomes odd, and whenever (phabricator.py:75-83, unbound.py:178-193, veneur.py:20-36).
OkIsWhole ==
  \A i \in Probe : last[i].told = "OK" /\ kind[i] \notin OkFirst => last[i].items = ItemsOf(i)

\* Of how many items the check that runs has got, and that it has sent OK.
AtOK ==
  Busy => /\ at.of \in Probe
          /\ at.items = Cardinality({n \in DOMAIN Check(at.of).body :
                                        n < at.step /\ Check(at.of).body[n] = "item"})
          /\ at.told = "OK" => \E n \in DOMAIN Check(at.of).body :
                                  n < at.step /\ Check(at.of).body[n] = "ok"

\* The inductive invariant.
ProbesIInv == ProbesTypeOK /\ AtOK /\ OkIsWhole

\* What has no timeout holds the one thread of the collector for as long as its peer is slow.
HasNoTimeout == {"slapd", "unbound", "veneur", "kernel", "nagios_runner"}
NobodyHangs == \A j \in Probe : kind[j] \in HasNoTimeout => peer[j] # "slow"

\* The modes of its peer in which a check raises and says nothing: a ConnectionError is not a
\* Timeout (nsq.py:147), JSON is decoded behind the try (phabricator.py:105), and a missing
\* status file is opened before it is missed (openvpn.py:40).
Untold(check) ==
  CASE check \in {"nsq", "sequins", "jenkins_metrics"} -> {"odd", "refused"}
    [] check \in {"phabricator", "slapd", "kernel"} -> {"odd"}
    [] check = "openvpn" -> {"odd", "error", "refused"}
    [] OTHER -> {}

\* Every instance is checked again and again when nothing without a timeout hangs.
RoundsGoOn == \A i \in Probe : <>[]NobodyHangs => []<>(at.of = i)

\* A peer that stays broken is told: what is shown in the series to which its instance sends
\* is a failure for good, or, when another instance sends to the same series, again and again.
\* (veneur and kernel tag their status with the answers, so that a failure is shown in another
\* series than the OK before it, and that OK stays: veneur.py:22, kernel.py:51.)
FailureTold ==
  \A i \in Probe, mode \in Mode \ {"up"} :
    <>[](NobodyHangs /\ peer[i] = mode /\ mode \notin Untold(kind[i]))
      => /\ <>[](OfItsOwn(i) => status[i].told \in Status \ {"OK"})
         /\ []<>(status[i].told \in Status \ {"OK"})

\* A peer that stays up is OK again in the series to which its instance sends, whatever
\* happened before; likewise.
RecoveryTold ==
  \A i \in Probe :
    <>[](NobodyHangs /\ peer[i] = "up")
      => /\ <>[](OfItsOwn(i) => status[i].told = "OK")
         /\ []<>(status[i].told = "OK")
=============================================================================
