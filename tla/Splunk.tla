------------------------------- MODULE Splunk -------------------------------
(***************************************************************************)
(* checks.d/splunk.py.  A check logs in, sends the service check           *)
(* splunk.can_connect, and then goes through four roles that a Splunk      *)
(* instance may have: a GET probes for the role, and if it is answered     *)
(* more GETs fetch its metrics.  A probe that fails means "not this role"; *)
(* any other GET that fails raises.  Between two GETs the instance may     *)
(* fail and roles may move: the members of a search head cluster elect     *)
(* another captain.  The check keeps nothing between two calls, so one     *)
(* instance is enough.                                                     *)
(***************************************************************************)
EXTENDS Naturals, Sequences, FiniteSetsExt

CONSTANTS
  Levels,     \* number of FIXUP_LEVELS
  MaxChanges  \* bound on the changes of the instance in the course of one check

ASSUME CountAssumption == Levels \in Nat /\ MaxChanges \in Nat

VARIABLES
  mode, roles,   \* of the instance
  changes,       \* changes since the check began
  pc,            \* "idle", "login" or "get"
  at,            \* the position of the next GET
  connect,       \* the last service check splunk.can_connect
  sent,          \* what the current check, or the last one, has sent
  outcome,       \* how the last check ended
  held, ever,    \* the roles the instance had all the time, and at any time, of the check
  steady         \* whether the instance answered all the time

splunkVars == <<mode, roles, changes, held, ever, steady>>
vars == <<mode, roles, changes, pc, at, connect, sent, outcome, held, ever, steady>>

Role == {"license", "master", "captain", "forwarder"}
Mode == {"up", "slow", "error", "odd"}

\* A GET: the role it is made for, what it fetches, whether only an instance with the
\* role answers it.
Get(role, part, own) == [role |-> role, part |-> part, own |-> own]

\* The GETs in the order of check().
Gets ==
  <<Get("license", "probe", TRUE), Get("license", "pools", FALSE),
    Get("master", "probe", TRUE), Get("master", "indexes", TRUE), Get("master", "peers", TRUE)>>
  \o [level \in 1..Levels |-> Get("master", "fixup", TRUE)]
  \o <<Get("captain", "probe", TRUE), Get("captain", "searches", FALSE),
       Get("captain", "members", TRUE),
       Get("forwarder", "probe", TRUE), Get("forwarder", "files", TRUE)>>

Probes == {k \in DOMAIN Gets : Gets[k].part = "probe"}
PartsOf(rs) == {Gets[k].part : k \in {l \in DOMAIN Gets \ Probes : Gets[l].role \in rs}}

Init ==
  /\ mode = "up"
  /\ roles \in SUBSET Role
  /\ changes = 0
  /\ pc = "idle" /\ at = 1
  /\ connect = "none"
  /\ sent = {} /\ outcome = "none"
  /\ held = {} /\ ever = {} /\ steady = FALSE

-----------------------------------------------------------------------------
(* The instance:  "slow" exceeds the timeout, "error" is an error status,  *)
(* a refused connection or a reply that is no JSON, "odd" a reply without  *)
(* the expected keys.                                                      *)

ModeChanges(how) ==
  /\ changes < MaxChanges /\ mode # how
  /\ changes' = changes + 1
  /\ mode' = how /\ steady' = FALSE
  /\ UNCHANGED <<roles, held, ever, pc, at, connect, sent, outcome>>

RoleMoves(role) ==
  /\ changes < MaxChanges
  /\ changes' = changes + 1
  /\ roles' = IF role \in roles THEN roles \ {role} ELSE roles \union {role}
  /\ held' = held \intersect roles' /\ ever' = ever \union roles'
  /\ UNCHANGED <<mode, steady, pc, at, connect, sent, outcome>>

Answered(g) == mode = "up" /\ (g.own => g.role \in roles)

-----------------------------------------------------------------------------
(* The check.                                                              *)

Begin ==
  /\ pc = "idle"
  /\ pc' = "login" /\ at' = 1
  /\ sent' = {} /\ outcome' = "none"
  /\ changes' = 0
  /\ held' = roles /\ ever' = roles /\ steady' = (mode = "up")
  /\ UNCHANGED <<mode, roles, connect>>

\* A variant: a status is sent only when there is none.
LoginOnce ==
  /\ pc = "login" /\ mode = "up"
  /\ connect' = IF connect = "none" THEN "OK" ELSE connect
  /\ pc' = "get"
  /\ UNCHANGED <<splunkVars, at, sent, outcome>>

Login ==
  /\ pc = "login" /\ mode = "up"
  /\ connect' = "OK"
  /\ pc' = "get"
  /\ UNCHANGED <<splunkVars, at, sent, outcome>>

\* A timeout, an error, or a reply without a session key.
LoginFails ==
  /\ pc = "login" /\ mode # "up"
  /\ connect' = "CRITICAL"
  /\ outcome' = "refused" /\ pc' = "idle"
  /\ UNCHANGED <<splunkVars, at, sent>>

\* The check goes on with the GET at k, if there is one.
GoOn(k) ==
  /\ at' = k
  /\ IF k \in DOMAIN Gets THEN UNCHANGED <<pc, outcome>>
                          ELSE pc' = "idle" /\ outcome' = "completed"

\* Only is_license_master looks at what the probe replies.
HasRole(g) == Answered(g) \/ (mode = "odd" /\ g.role # "license")

Probe ==
  /\ pc = "get" /\ at \in Probes /\ HasRole(Gets[at])
  /\ GoOn(at + 1)
  /\ UNCHANGED <<splunkVars, connect, sent>>

\* A variant: the GETs of the role are made all the same.
NextRoleAnyway(k) == k + 1

\* A variant: the first role that the instance does not have ends the check.
NextRoleNone(k) == Len(Gets) + 1

\* The next probe, behind what is fetched for this role.
NextRole(k) == Min({l \in Probes : l > k} \union {Len(Gets) + 1})

ProbeFails ==
  /\ pc = "get" /\ at \in Probes /\ ~HasRole(Gets[at])
  /\ GoOn(NextRole(at))
  /\ UNCHANGED <<splunkVars, connect, sent>>

Fetch ==
  /\ pc = "get" /\ at \notin Probes /\ Answered(Gets[at])
  /\ sent' = sent \union {Gets[at].part}
  /\ GoOn(at + 1)
  /\ UNCHANGED <<splunkVars, connect>>

\* get_json raises, or a key is missing; the runner catches it.
FetchFails ==
  /\ pc = "get" /\ at \notin Probes /\ ~Answered(Gets[at])
  /\ outcome' = "raised" /\ pc' = "idle"
  /\ UNCHANGED <<splunkVars, at, connect, sent>>

-----------------------------------------------------------------------------
CheckStep == Login \/ LoginFails \/ Probe \/ ProbeFails \/ Fetch \/ FetchFails

Next ==
  \/ \E how \in Mode : ModeChanges(how)
  \/ \E role \in Role : RoleMoves(role)
  \/ Begin \/ CheckStep

Spec == Init /\ [][Next]_vars

\* Every GET has a timeout, and the agent checks the instance again and again.
FairSpec == Spec /\ WF_vars(CheckStep) /\ WF_vars(Begin)

-----------------------------------------------------------------------------
\* Types of the variables.
TypeOK ==
  /\ mode \in Mode /\ roles \subseteq Role /\ changes \in Nat
  /\ pc \in {"idle", "login", "get"} /\ at \in 1..(Len(Gets) + 1)
  /\ connect \in {"none", "OK", "CRITICAL"}
  /\ sent \subseteq PartsOf(Role)
  /\ outcome \in {"none", "refused", "raised", "completed"}
  /\ held \subseteq Role /\ ever \subseteq Role /\ steady \in BOOLEAN

\* A check that ends without an exception sent nothing for a role that the instance did
\* not have while it was checked, whichever probes were answered oddly and whichever
\* roles moved (splunk.py:64-78).  A check that raised may have: the searches of an
\* instance that is no captain.
OnlyRolesHeld == outcome = "completed" => sent \subseteq PartsOf(ever)

\* A check of an instance that answers all the time sends everything for the roles that
\* the instance has all the time, unless it raised on a role that moved away.
HeldReported == outcome = "completed" /\ steady => PartsOf(held) \subseteq sent

\* It raises only where the metrics are of a role that the instance had and lost: a role
\* that comes between two GETs, or was never there, ends no check.
RaisedExplained == outcome = "raised" /\ steady => Gets[at].role \in ever \ held

\* A role that the instance holds all the time it has now, and all it has it had.
RolesOK ==
  /\ held \subseteq roles
  /\ pc # "idle" => roles \subseteq ever
  /\ steady => mode = "up"

\* What is sent is of a role that the instance had, and the pools are asked for only of a
\* license master; but an odd answer may pass for the captain's, and the searches are sent
\* before the members tell.
SentOK ==
  pc = "get" =>
    /\ sent \subseteq PartsOf(ever) \union
                        (IF Gets[at].part = "members" THEN {"searches"} ELSE {})
    /\ at \notin Probes /\ Gets[at].role = "license" => "license" \in ever

\* An instance that answers has been sent everything of its roles up to the next GET, and
\* is asked for the parts of no role that it never had.
SteadyOK ==
  /\ pc = "login" => at = 1 /\ sent = {}
  /\ pc = "get" => at \in DOMAIN Gets
  /\ pc = "get" /\ steady =>
       /\ at \notin Probes => Gets[at].role \in ever
       /\ \A k \in DOMAIN Gets \ Probes : k < at /\ Gets[k].role \in held => Gets[k].part \in sent

\* A check that goes on has not ended, and where it raised there is a GET.
RaisedOK == /\ pc # "idle" => outcome = "none"
            /\ outcome = "raised" => at \in DOMAIN Gets

\* The inductive invariant.
IInv == TypeOK /\ RolesOK /\ SentOK /\ SteadyOK /\ RaisedOK
        /\ OnlyRolesHeld /\ HeldReported /\ RaisedExplained

\* Once the instance answers for good and keeps its roles, splunk.can_connect is OK for
\* good, and everything of its roles is sent again and again.
Recovers ==
  <>[][mode' = "up" /\ roles' = roles]_vars =>
    <>[](connect = "OK") /\ []<>(outcome = "completed" /\ sent = PartsOf(roles))
=============================================================================
