---------------------------- MODULE MesosMaster ----------------------------
(***************************************************************************)
(* checks.d/mesos_master.py.  One object of class MesosMaster checks every *)
(* configured master in turn; service_check_needed, leader and version are *)
(* attributes of that object, so what one check leaves in them the check   *)
(* of the next master finds.  A check asks its master up to three times    *)
(* (state.json, roles.json, and the statistics), and the masters elect,    *)
(* fail and answer strangely between two of these GETs.                    *)
(*                                                                         *)
(* The service check mesos_master.can_connect is tagged with the URL of    *)
(* the GET it is about: the three endpoints of a master have one each.     *)
(***************************************************************************)
EXTENDS Naturals

CONSTANTS
  N,           \* number of masters in instances
  OldMasters,  \* the masters of a version before 0.22.0
  Modes,       \* the ways a master may answer
  NoLeader

Master == 1..N

ASSUME CountAssumption == N \in Nat \ {0}
ASSUME ModesAssumption == Modes \subseteq {"up", "down", "null", "bad"}
ASSUME MastersAssumption == OldMasters \subseteq Master /\ NoLeader \notin Master

VARIABLES
  mode,       \* how each master answers
  elected,    \* the elected master
  pc,         \* the GET the check is at, "idle" between two checks
  cur,        \* the master being checked, or the next one
  needed,     \* self.service_check_needed
  leader,     \* self.leader
  old,        \* self.version < [0, 22, 0]
  claimed,    \* the leader field of state_metrics, a local variable
  svc,        \* the last service check for each master's endpoint
  sent,       \* the metrics the current check, or the last one, has sent
  completed   \* whether the last check reached its end

masterVars == <<mode, elected>>
vars == <<mode, elected, pc, cur, needed, leader, old, claimed, svc, sent, completed>>

Endpoint == {"state.json", "roles.json", "stats.json", "metrics/snapshot"}
Table == {"system", "framework", "role", "cluster"}
\* A table of metrics, and whether the master was the elected one as it was read.
Metrics == [table : Table, elected : BOOLEAN]

Init ==
  /\ mode = [m \in Master |-> "up"]
  /\ elected \in Master \union {NoLeader}
  /\ pc = "idle"
  /\ cur = 1
  /\ needed = TRUE
  /\ leader = FALSE /\ old = FALSE /\ claimed = FALSE
  /\ svc = [m \in Master |-> [e \in Endpoint |-> "none"]]
  /\ sent = {}
  /\ completed = TRUE

-----------------------------------------------------------------------------
(* The masters: "down" is an error status, a timeout or a refused          *)
(* connection, "null" the JSON null, "bad" no JSON or not the keys.        *)

ModeChanges(m) ==
  /\ \E how \in Modes \ {mode[m]} :
       mode' = [mode EXCEPT ![m] = how]
  /\ UNCHANGED <<elected, pc, cur, needed, leader, old, claimed, svc, sent, completed>>

Election ==
  /\ \E m \in Master \union {NoLeader} : m # elected /\ elected' = m
  /\ UNCHANGED <<mode, pc, cur, needed, leader, old, claimed, svc, sent, completed>>

-----------------------------------------------------------------------------
(* The check.                                                              *)

\* _get_json sends OK for an answer only while service_check_needed is up.
OkSent == mode[cur] # "down" /\ needed

\* The service check of _get_json for the URL of endpoint e.  (A failure with the
\* flag up sends CRITICAL twice.)  Either way service_check_needed is down after
\* it: it was taken down now, or by an earlier GET.
get_json(e) ==
  svc' = [svc EXCEPT ![cur][e] = IF mode[cur] = "down" THEN "CRITICAL"
                                 ELSE IF OkSent THEN "OK" ELSE @]

Send(tables) ==
  sent' = sent \union {[table |-> t, elected |-> elected = cur] : t \in tables}

\* The runner's loop: the next instance, and after the last one the first.
NextMaster == /\ pc' = "idle"
              /\ cur' = IF cur = N THEN 1 ELSE cur + 1
              /\ claimed' = FALSE

Continue(label) == pc' = label /\ needed' = FALSE /\ UNCHANGED <<cur, completed>>

\* Whatever a check raises, the runner logs it; the rest of the check is skipped.
Raise == NextMaster /\ needed' = FALSE /\ completed' = FALSE

\* A variant: service_check_needed is not put up again.
ReachEndQuietly == NextMaster /\ needed' = FALSE /\ completed' = TRUE

\* The last statement of check.
ReachEnd == NextMaster /\ needed' = TRUE /\ completed' = TRUE

\* A variant: the flag is up at the start of every check.
BeginNeeding ==
  /\ pc = "idle"
  /\ pc' = "state"
  /\ needed' = TRUE
  /\ sent' = {}
  /\ UNCHANGED <<masterVars, cur, leader, old, claimed, svc, completed>>

Begin ==
  /\ pc = "idle"
  /\ pc' = "state"
  /\ sent' = {}
  /\ UNCHANGED <<masterVars, cur, needed, leader, old, claimed, svc, completed>>

\* A variant: self.leader is not reset before the reply is looked at.
LeaderAfter(claims) == leader \/ claims

\* "self.leader = False", then True if the reply names this master's own pid.
LeaderOf(claims) == claims

\* _check_leadership got the state; a leader's frameworks are sent at once.
GetState ==
  /\ pc = "state" /\ mode[cur] = "up"
  /\ get_json("state.json")
  /\ leader' = LeaderOf(elected = cur)
  /\ old' = (cur \in OldMasters)
  /\ claimed' = (elected = cur)
  /\ IF leader' THEN Send({"framework"}) /\ Continue("roles")
                ELSE UNCHANGED sent /\ Continue("stats")
  /\ UNCHANGED masterVars

\* The state is null: nothing more is asked, and the check is over.
GetNoState ==
  /\ pc = "state" /\ mode[cur] = "null"
  /\ get_json("state.json")
  /\ leader' = FALSE
  /\ ReachEnd
  /\ UNCHANGED <<masterVars, old, sent>>

\* No JSON raises before self.leader is reset, a missing 'version' after it, a
\* missing 'leader' after self.version is set as well; a framework without a key
\* part of the way through the report of the frameworks.
GetBadState ==
  /\ pc = "state" /\ mode[cur] = "bad"
  /\ get_json("state.json")
  /\ \/ UNCHANGED <<leader, old, sent>>
     \/ leader' = FALSE /\ UNCHANGED <<old, sent>>
     \/ leader' = FALSE /\ old' = (cur \in OldMasters) /\ UNCHANGED sent
     \/ /\ elected = cur
        /\ leader' = TRUE /\ old' = (cur \in OldMasters)
        /\ Send({}) \/ Send({"framework"})
  /\ Raise
  /\ UNCHANGED masterVars

GetRoles ==
  /\ pc = "roles" /\ mode[cur] \in {"up", "null"}
  /\ get_json("roles.json")
  /\ IF mode[cur] = "up" THEN Send({"role"}) ELSE UNCHANGED sent
  /\ Continue("stats")
  /\ UNCHANGED <<masterVars, leader, old, claimed>>

StatsEndpoint == IF old THEN "stats.json" ELSE "metrics/snapshot"

GetStats ==
  /\ pc = "stats" /\ mode[cur] \in {"up", "null"}
  /\ get_json(StatsEndpoint)
  /\ IF mode[cur] = "null" THEN UNCHANGED sent
     ELSE Send(IF leader THEN {"system", "cluster"} ELSE {"system"})
  /\ ReachEnd
  /\ UNCHANGED <<masterVars, leader, old>>

Asked == CASE pc = "state" -> "state.json" [] pc = "roles" -> "roles.json"
           [] pc = "stats" -> StatsEndpoint

\* Roles without their keys raise part of the way through the report.
GetBadRest ==
  /\ pc \in {"roles", "stats"} /\ mode[cur] = "bad"
  /\ get_json(Asked)
  /\ Send({}) \/ (pc = "roles" /\ Send({"role"}))
  /\ Raise
  /\ UNCHANGED <<masterVars, leader, old>>

GetFails ==
  /\ pc # "idle" /\ mode[cur] = "down"
  /\ get_json(Asked)
  /\ Raise
  /\ UNCHANGED <<masterVars, leader, old, sent>>

CheckStep == \/ Begin \/ GetState \/ GetNoState \/ GetBadState \/ GetRoles \/ GetStats
             \/ GetBadRest \/ GetFails

Next == \/ \E m \in Master : ModeChanges(m)
        \/ Election
        \/ CheckStep

Spec == Init /\ [][Next]_vars

\* The collector checks every master again and again, and a GET ends by answer or
\* by timeout; nothing is assumed of the masters.
FairSpec == Spec /\ WF_vars(CheckStep)

-----------------------------------------------------------------------------
\* Types of the variables.
TypeOK ==
  /\ mode \in [Master -> {"up", "down", "null", "bad"}]
  /\ elected \in Master \union {NoLeader}
  /\ pc \in {"idle", "state", "roles", "stats"}
  /\ cur \in Master
  /\ needed \in BOOLEAN /\ leader \in BOOLEAN /\ old \in BOOLEAN /\ claimed \in BOOLEAN
  /\ svc \in [Master -> [Endpoint -> {"none", "OK", "CRITICAL"}]]
  /\ sent \subseteq Metrics
  /\ completed \in BOOLEAN

\* Only a master's state.json ever gets an OK: a CRITICAL sent for the URL of its
\* roles or of its statistics is never taken back, however long the master answers
\* afterwards (mesos_master.py:145-153, 236).
OkOnlyForState ==
  \A m \in Master, e \in Endpoint : svc[m][e] = "OK" => e = "state.json"

\* Cluster and role metrics are sent for a master only if the same check has seen
\* that very master claim to be the leader, and sent its frameworks: never on the
\* self.leader that the check of another master, or an earlier one, left behind.
ClusterMetricsClaimed ==
  (\E s \in sent : s.table \in {"role", "cluster"})
    => \E s \in sent : s.table = "framework" /\ s.elected

\* A master that was not shown OK becomes OK only in a check that follows a check
\* that reached its end: whenever one raises, of whichever master, the next check
\* does not report a recovery, and a master behind one that always fails never
\* does (mesos_master.py:149, 236).
RecoveryNeedsCompletedCheck ==
  [][\A m \in Master : svc[m]["state.json"] # "OK" /\ svc'[m]["state.json"] = "OK"
       => completed]_vars

\* When all the masters answer for good, every one of them is eventually shown OK,
\* and stays so, whatever failed before.
AllRecover ==
  (\A m \in Master : <>[](mode[m] = "up"))
    => \A m \in Master : <>[](svc[m]["state.json"] = "OK")

\* What is true between two GETs of a check: the flag is up at most until the first
\* GET and only after a completed check; the attribute says what the reply said.
FlagOK == needed => pc \in {"idle", "state"} /\ completed
LeaderOK ==
  /\ pc \in {"roles", "stats"} => leader = claimed
  /\ pc \in {"roles", "stats"} /\ claimed =>
       \E s \in sent : s.table = "framework" /\ s.elected
  /\ pc = "roles" => claimed
  /\ pc = "state" => sent = {}

\* The inductive invariant.
IInv == TypeOK /\ FlagOK /\ LeaderOK /\ OkOnlyForState /\ ClusterMetricsClaimed

=============================================================================
