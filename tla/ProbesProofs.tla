---------------------------- MODULE ProbesProofs ----------------------------
(***************************************************************************)
(* Theorems about the checks that ask a program and tell what they hear:   *)
(* about MesosMaster, which asks several times, for any number of masters  *)
(* (when a recovery can be reported at all), and about the checks of       *)
(* Probes, for any number of instances of any of them.                     *)
(***************************************************************************)
EXTENDS MesosMaster, Probes, FiniteSetTheorems, SequenceTheorems, TLAPS

-----------------------------------------------------------------------------
(* MesosMaster.                                                            *)

LEMMA InitIInv == Init => IInv
<1> SUFFICES ASSUME Init PROVE IInv
  OBVIOUS
<1> USE DEF Init
<1>1. TypeOK
  <2>1. /\ mode \in [Master -> {"up", "down", "null", "bad"}] /\ cur \in Master
        /\ svc \in [Master -> [Endpoint -> {"none", "OK", "CRITICAL"}]]
        /\ sent \subseteq Metrics
    BY CountAssumption DEF Master
  <2>2. needed \in BOOLEAN /\ leader \in BOOLEAN /\ old \in BOOLEAN /\ claimed \in BOOLEAN
    OBVIOUS
  <2> QED
    BY <2>1, <2>2 DEF TypeOK
<1>2. FlagOK /\ LeaderOK
  BY DEF FlagOK, LeaderOK
<1>3. OkOnlyForState /\ ClusterMetricsClaimed
  BY DEF OkOnlyForState, ClusterMetricsClaimed
<1> QED
  BY <1>1, <1>2, <1>3 DEF IInv

\* The environment changes only what no conjunct but TypeOK mentions.
LEMMA EnvIInv ==
  ASSUME IInv, (\E m \in Master : ModeChanges(m)) \/ Election PROVE IInv'
<1> USE DEF IInv, ModeChanges, Election
<1>1. TypeOK'
  <2>1. mode' \in [Master -> {"up", "down", "null", "bad"}] /\ elected' \in Master \union {NoLeader}
    BY ModesAssumption DEF TypeOK
  <2>2. UNCHANGED <<pc, cur, needed, leader, old, claimed, svc, sent, completed>>
    OBVIOUS
  <2> QED
    BY <2>1, <2>2 DEF TypeOK
<1>2. FlagOK' /\ LeaderOK' /\ OkOnlyForState' /\ ClusterMetricsClaimed'
  BY DEF FlagOK, LeaderOK, OkOnlyForState, ClusterMetricsClaimed
<1> QED
  BY <1>1, <1>2

\* _get_json keeps the types, and sends an OK only in the first GET of a check.
LEMMA GetJson ==
  ASSUME TypeOK, FlagOK, OkOnlyForState,
         NEW e \in Endpoint, e = "state.json" \/ pc # "state", pc # "idle", get_json(e)
  PROVE  svc' \in [Master -> [Endpoint -> {"none", "OK", "CRITICAL"}]] /\ OkOnlyForState'
<1>1. svc' \in [Master -> [Endpoint -> {"none", "OK", "CRITICAL"}]]
  BY DEF TypeOK, get_json
<1>2. OkOnlyForState'
  BY DEF TypeOK, FlagOK, OkOnlyForState, get_json, OkSent
<1> QED
  BY <1>1, <1>2

\* What is sent is of the master being checked, and says who is elected.
LEMMA SendTables ==
  ASSUME TypeOK, NEW tables \in SUBSET Table, Send(tables)
  PROVE  /\ sent' \subseteq Metrics
         /\ sent' = sent \union {[table |-> t, elected |-> elected = cur] : t \in tables}
<1> DEFINE new == {[table |-> t, elected |-> elected = cur] : t \in tables}
<1>1. new \subseteq Metrics
  <2> SUFFICES ASSUME NEW t \in tables PROVE [table |-> t, elected |-> elected = cur] \in Metrics
    OBVIOUS
  <2>1. (elected = cur) \in BOOLEAN /\ t \in Table
    OBVIOUS
  <2> QED
    BY <2>1 DEF Metrics
<1>2. sent' = sent \union new
  BY DEF Send
<1> QED
  BY <1>1, <1>2 DEF TypeOK

LEMMA NextMasterType == ASSUME TypeOK, NextMaster PROVE cur' \in Master /\ pc' = "idle"
BY CountAssumption DEF TypeOK, NextMaster, Master

LEMMA BeginIInv == ASSUME IInv, Begin PROVE IInv'
<1> USE DEF IInv, Begin, masterVars
<1>1. TypeOK'
  BY DEF TypeOK
<1>2. FlagOK' /\ LeaderOK'
  BY DEF TypeOK, FlagOK, LeaderOK
<1>3. OkOnlyForState' /\ ClusterMetricsClaimed'
  BY DEF TypeOK, OkOnlyForState, ClusterMetricsClaimed
<1> QED
  BY <1>1, <1>2, <1>3

LEMMA GetStateIInv == ASSUME IInv, GetState PROVE IInv'
<1> USE DEF IInv, GetState, masterVars
<1>1. /\ svc' \in [Master -> [Endpoint -> {"none", "OK", "CRITICAL"}]] /\ OkOnlyForState'
  BY GetJson DEF Endpoint
<1>2. UNCHANGED <<mode, elected>> /\ (old' = (cur \in OldMasters))
  OBVIOUS
<1>3. old' \in BOOLEAN
  BY <1>2
<1>4. CASE elected = cur
  <2>1. leader' = TRUE /\ claimed' = TRUE /\ Send({"framework"}) /\ Continue("roles")
    BY <1>4 DEF LeaderOf
  <2>2. (elected = cur) = TRUE
    BY <1>4
  <2>3. /\ sent' \subseteq Metrics
        /\ sent' = {[table |-> "framework", elected |-> TRUE]}
    <3>1. /\ sent' \subseteq Metrics
          /\ sent' = sent \union {[table |-> t, elected |-> elected = cur] : t \in {"framework"}}
      BY <2>1, SendTables DEF Table
    <3>2. sent = {}
      BY DEF LeaderOK
    <3> QED
      BY <3>1, <3>2, <2>2
  <2> HIDE DEF GetState
  <2>4. TypeOK'
    BY <1>1, <1>2, <1>3, <2>1, <2>3 DEF TypeOK, Continue
  <2>5. FlagOK' /\ LeaderOK'
    BY <2>1, <2>3 DEF TypeOK, FlagOK, LeaderOK, Continue
  <2>6. ClusterMetricsClaimed'
    BY <2>3 DEF TypeOK, ClusterMetricsClaimed
  <2> QED
    BY <1>1, <2>4, <2>5, <2>6
<1>5. CASE elected # cur
  <2>1. leader' = FALSE /\ claimed' = FALSE /\ UNCHANGED sent /\ Continue("stats")
    BY <1>5 DEF LeaderOf
  <2> HIDE DEF GetState
  <2>2. TypeOK'
    BY <1>1, <1>2, <1>3, <2>1 DEF TypeOK, Continue
  <2>3. FlagOK' /\ LeaderOK' /\ ClusterMetricsClaimed'
    BY <2>1 DEF TypeOK, FlagOK, LeaderOK, ClusterMetricsClaimed, Continue
  <2> QED
    BY <1>1, <2>2, <2>3
<1> QED
  BY <1>4, <1>5

LEMMA GetNoStateIInv == ASSUME IInv, GetNoState PROVE IInv'
<1> USE DEF IInv, GetNoState, masterVars, ReachEnd
<1>1. /\ svc' \in [Master -> [Endpoint -> {"none", "OK", "CRITICAL"}]] /\ OkOnlyForState'
  BY GetJson DEF Endpoint
<1>2. TypeOK'
  BY <1>1, NextMasterType DEF TypeOK, NextMaster
<1>3. FlagOK' /\ LeaderOK' /\ ClusterMetricsClaimed'
  BY DEF FlagOK, LeaderOK, ClusterMetricsClaimed, NextMaster
<1> QED
  BY <1>1, <1>2, <1>3

LEMMA GetBadStateIInv == ASSUME IInv, GetBadState PROVE IInv'
<1> USE DEF IInv, GetBadState, masterVars, Raise
<1>1. /\ svc' \in [Master -> [Endpoint -> {"none", "OK", "CRITICAL"}]] /\ OkOnlyForState'
  BY GetJson DEF Endpoint
<1>2. UNCHANGED sent \/ Send({}) \/ Send({"framework"})
  OBVIOUS
<1>3. /\ sent' \subseteq Metrics
      /\ \A s \in sent' : s.table = "framework"
  <2>1. CASE UNCHANGED sent
    BY <2>1 DEF TypeOK, LeaderOK
  <2>2. CASE Send({})
    BY <2>2, SendTables DEF LeaderOK
  <2>3. CASE Send({"framework"})
    BY <2>3, SendTables DEF Table, LeaderOK
  <2> QED
    BY <1>2, <2>1, <2>2, <2>3
<1>4. TypeOK'
  <2>1. leader' \in BOOLEAN /\ old' \in BOOLEAN
    <3>1. /\ leader' = leader \/ leader' = TRUE \/ leader' = FALSE
          /\ old' = old \/ (old' = (cur \in OldMasters))
      OBVIOUS
    <3>2. leader \in BOOLEAN /\ old \in BOOLEAN
      BY DEF TypeOK
    <3>3. leader' \in BOOLEAN
      BY <3>1, <3>2
    <3>4. old' \in BOOLEAN
      <4>1. CASE old' = old
        BY <4>1, <3>2
      <4>2. CASE old' = (cur \in OldMasters)
        <5>1. (cur \in OldMasters) \in BOOLEAN
          OBVIOUS
        <5> QED
          BY <4>2, <5>1, Zenon
      <4> QED
        BY <3>1, <4>1, <4>2
    <3> QED
      BY <3>3, <3>4
  <2>2. /\ UNCHANGED <<mode, elected>> /\ cur' \in Master /\ pc' = "idle"
        /\ claimed' = FALSE /\ needed' = FALSE /\ completed' = FALSE
    BY NextMasterType DEF NextMaster
  <2> QED
    BY <1>1, <1>3, <2>1, <2>2 DEF TypeOK
<1>5. FlagOK' /\ LeaderOK'
  BY DEF FlagOK, LeaderOK, NextMaster
<1>6. ClusterMetricsClaimed'
  BY <1>3 DEF TypeOK, ClusterMetricsClaimed
<1> QED
  BY <1>1, <1>4, <1>5, <1>6

LEMMA GetRolesIInv == ASSUME IInv, GetRoles PROVE IInv'
<1> USE DEF IInv, GetRoles, masterVars, Continue
<1>1. /\ svc' \in [Master -> [Endpoint -> {"none", "OK", "CRITICAL"}]] /\ OkOnlyForState'
  BY GetJson DEF Endpoint
<1>2. /\ sent' \subseteq Metrics
      /\ sent \subseteq sent'
  BY SendTables DEF Table, TypeOK
<1>3. TypeOK'
  BY <1>1, <1>2 DEF TypeOK
<1>4. FlagOK' /\ LeaderOK'
  BY <1>2 DEF TypeOK, FlagOK, LeaderOK
<1>5. ClusterMetricsClaimed'
  BY <1>2 DEF TypeOK, LeaderOK, ClusterMetricsClaimed
<1> QED
  BY <1>1, <1>3, <1>4, <1>5

LEMMA GetStatsIInv == ASSUME IInv, GetStats PROVE IInv'
<1> USE DEF IInv, GetStats, masterVars, ReachEnd
<1>1. /\ svc' \in [Master -> [Endpoint -> {"none", "OK", "CRITICAL"}]] /\ OkOnlyForState'
  BY GetJson DEF Endpoint, StatsEndpoint
<1>2. /\ sent' \subseteq Metrics
      /\ sent \subseteq sent'
      /\ ~leader => \A s \in sent' : s \in sent \/ s.table = "system"
  <2>1. CASE mode[cur] = "null"
    BY <2>1 DEF TypeOK
  <2>2. CASE mode[cur] # "null" /\ leader
    BY <2>2, SendTables DEF Table
  <2>3. CASE mode[cur] # "null" /\ ~leader
    BY <2>3, SendTables DEF Table
  <2> QED
    BY <2>1, <2>2, <2>3 DEF TypeOK
<1>3. TypeOK'
  BY <1>1, <1>2, NextMasterType DEF TypeOK, NextMaster
<1>4. FlagOK' /\ LeaderOK'
  BY DEF FlagOK, LeaderOK, NextMaster
<1>5. ClusterMetricsClaimed'
  BY <1>2 DEF TypeOK, LeaderOK, ClusterMetricsClaimed
<1> QED
  BY <1>1, <1>3, <1>4, <1>5

LEMMA GetBadRestIInv == ASSUME IInv, GetBadRest PROVE IInv'
<1> USE DEF IInv, GetBadRest, masterVars, Raise
<1>1. /\ svc' \in [Master -> [Endpoint -> {"none", "OK", "CRITICAL"}]] /\ OkOnlyForState'
  BY GetJson DEF Endpoint, StatsEndpoint, Asked
<1>2. /\ sent' \subseteq Metrics
      /\ sent \subseteq sent'
      /\ pc = "roles" \/ sent' = sent
  <2>1. CASE Send({})
    BY <2>1, SendTables
  <2>2. CASE pc = "roles" /\ Send({"role"})
    BY <2>2, SendTables DEF Table
  <2>3. Send({}) \/ (pc = "roles" /\ Send({"role"}))
    OBVIOUS
  <2> QED
    BY <2>1, <2>2, <2>3
<1>3. TypeOK'
  BY <1>1, <1>2, NextMasterType DEF TypeOK, NextMaster
<1>4. FlagOK' /\ LeaderOK'
  BY DEF FlagOK, LeaderOK, NextMaster
<1>5. ClusterMetricsClaimed'
  BY <1>2 DEF TypeOK, LeaderOK, ClusterMetricsClaimed
<1> QED
  BY <1>1, <1>3, <1>4, <1>5

LEMMA GetFailsIInv == ASSUME IInv, GetFails PROVE IInv'
<1> USE DEF IInv, GetFails, masterVars, Raise
<1>1. /\ svc' \in [Master -> [Endpoint -> {"none", "OK", "CRITICAL"}]] /\ OkOnlyForState'
  BY GetJson DEF TypeOK, Endpoint, StatsEndpoint, Asked
<1>2. TypeOK'
  BY <1>1, NextMasterType DEF TypeOK, NextMaster
<1>3. FlagOK' /\ LeaderOK' /\ ClusterMetricsClaimed'
  BY DEF FlagOK, LeaderOK, ClusterMetricsClaimed, NextMaster
<1> QED
  BY <1>1, <1>2, <1>3

\* No step of a check or of a master breaks IInv.
LEMMA NextIInv == IInv /\ [Next]_vars => IInv'
<1> SUFFICES ASSUME IInv, [Next]_vars PROVE IInv'
  OBVIOUS
<1>1. CASE (\E m \in Master : ModeChanges(m)) \/ Election
  BY <1>1, EnvIInv
<1>2. CASE CheckStep
  BY <1>2, BeginIInv, GetStateIInv, GetNoStateIInv, GetBadStateIInv, GetRolesIInv,
     GetStatsIInv, GetBadRestIInv, GetFailsIInv DEF CheckStep
<1>3. CASE UNCHANGED vars
  BY <1>3 DEF vars, IInv, TypeOK, FlagOK, LeaderOK, OkOnlyForState, ClusterMetricsClaimed
<1> QED
  BY <1>1, <1>2, <1>3 DEF Next

\* IInv holds in every reachable state.
THEOREM Invariance == Spec => []IInv
BY InitIInv, NextIInv, PTL DEF Spec

\* The variables keep their types.
THEOREM TypeCorrect == Spec => []TypeOK
<1>1. IInv => TypeOK
  BY DEF IInv
<1> QED
  BY <1>1, Invariance, PTL

\* Only state.json is ever shown OK: a CRITICAL of another endpoint is not taken back.
THEOREM OkOnlyForStateHolds == Spec => []OkOnlyForState
<1>1. IInv => OkOnlyForState
  BY DEF IInv
<1> QED
  BY <1>1, Invariance, PTL

\* Cluster metrics come only of a leadership claimed in the same check.
THEOREM ClusterMetricsClaimedHolds == Spec => []ClusterMetricsClaimed
<1>1. IInv => ClusterMetricsClaimed
  BY DEF IInv
<1> QED
  BY <1>1, Invariance, PTL

\* A recovery is reported only in a check that follows a completed one.
THEOREM RecoveryNeedsCompletedCheckHolds == Spec => RecoveryNeedsCompletedCheck
<1> DEFINE Recover == \A m \in Master :
                svc[m]["state.json"] # "OK" /\ svc'[m]["state.json"] = "OK" => completed
<1>1. IInv /\ [Next]_vars => [Recover]_vars
  <2> SUFFICES ASSUME IInv, Next PROVE Recover
    OBVIOUS
  <2>1. UNCHANGED svc \/ \E e \in Endpoint : get_json(e)
    BY DEF IInv, TypeOK, Next, ModeChanges, Election, CheckStep, Begin, GetState, GetNoState,
       GetBadState, GetRoles, GetStats, GetBadRest, GetFails, Endpoint, StatsEndpoint, Asked
  <2>2. SUFFICES ASSUME NEW m \in Master,
                        svc[m]["state.json"] # "OK", svc'[m]["state.json"] = "OK"
                 PROVE  needed
    BY DEF IInv, FlagOK
  <2>3. PICK e \in Endpoint : get_json(e)
    BY <2>1, <2>2
  <2>4. "state.json" \in Endpoint /\ svc \in [Master -> [Endpoint -> {"none", "OK", "CRITICAL"}]]
    BY DEF IInv, TypeOK, Endpoint
  <2> QED
    BY <2>2, <2>3, <2>4 DEF get_json, OkSent
<1> QED
  BY <1>1, Invariance, PTL DEF Spec, RecoveryNeedsCompletedCheck

-----------------------------------------------------------------------------
(* Probes: the programs of the checks.                                     *)

Statement == {"ask", "ok", "item", "search", "grub", "open", "isfile", "mtime"}

ItemsIn(program) == {n \in DOMAIN program.body : program.body[n] = "item"}

\* What every program is: it sends at most two items, and no failure is told as OK.
WellMade(program) ==
  /\ program.body \in Seq(Statement)
  /\ \E j, k \in 1..5 : ItemsIn(program) \subseteq {j, k}
  /\ \A m \in DOMAIN program.told : program.told[m] \in {"WARNING", "CRITICAL", "UNKNOWN"}
  /\ program.odd \in {"none", "CRITICAL"}

\* What most are: behind the OK comes no item.
OkLast(program) ==
  \A j, k \in DOMAIN program.body :
    program.body[j] = "ok" /\ program.body[k] = "item" => k < j

LEMMA ItemsThenOk ==
  ASSUME NEW program, program.body = <<"ask", "item", "item", "ok">>
  PROVE  program.body \in Seq(Statement) /\ ItemsIn(program) \subseteq {2, 3} /\ OkLast(program)
<1> DEFINE b == program.body
<1>1. b \in Seq(Statement)
  BY DEF Statement
<1>2. DOMAIN b = 1..4 /\ b[1] = "ask" /\ b[2] = "item" /\ b[3] = "item" /\ b[4] = "ok"
  OBVIOUS
<1> HIDE DEF b
<1>3. \A n \in DOMAIN b : n = 1 \/ n = 2 \/ n = 3 \/ n = 4
  BY <1>2
<1>4. \A n \in DOMAIN b : (b[n] = "item" => n \in {2, 3}) /\ (b[n] = "ok" => n = 4)
  BY <1>2, <1>3
<1>5. ItemsIn(program) \subseteq {2, 3}
  BY <1>4 DEF ItemsIn, b
<1>6. OkLast(program)
  BY <1>4 DEF OkLast, b
<1> QED BY <1>1, <1>5, <1>6 DEF b

LEMMA OkThenItems ==
  ASSUME NEW program, program.body = <<"ask", "ok", "item", "item">>
  PROVE  program.body \in Seq(Statement) /\ ItemsIn(program) \subseteq {3, 4}
<1> DEFINE b == program.body
<1>1. b \in Seq(Statement)
  BY DEF Statement
<1>2. DOMAIN b = 1..4 /\ b[1] = "ask" /\ b[2] = "ok"
  OBVIOUS
<1> HIDE DEF b
<1>3. \A n \in DOMAIN b : n = 1 \/ n = 2 \/ n = 3 \/ n = 4
  BY <1>2
<1>4. \A n \in DOMAIN b : b[n] = "item" => n \in {3, 4}
  BY <1>2, <1>3
<1> QED BY <1>1, <1>4 DEF ItemsIn, b

\* A program that ends with its OK has nothing behind it.
LEMMA OkAtEnd ==
  ASSUME NEW program, NEW m \in Nat, DOMAIN program.body = 1..m,
         \A n \in DOMAIN program.body : program.body[n] = "ok" => n = m,
         program.body[m] # "item"
  PROVE  OkLast(program)
BY DEF OkLast

\* The ten programs.
LEMMA WellMadeOK ==
  /\ WellMade(NSQ) /\ WellMade(Sequins) /\ WellMade(JenkinsMetrics)
  /\ WellMade(Phabricator) /\ OkLast(Phabricator)
  /\ WellMade(Slapd)
  /\ WellMade(Unbound) /\ OkLast(Unbound)
  /\ WellMade(OpenVPN) /\ OkLast(OpenVPN)
  /\ WellMade(Veneur) /\ OkLast(Veneur)
  /\ WellMade(Kernel) /\ OkLast(Kernel)
  /\ WellMade(NagiosRunner) /\ OkLast(NagiosRunner)
<1>1. WellMade(NSQ) /\ WellMade(Sequins) /\ WellMade(JenkinsMetrics)
  <2>1. /\ NSQ.body = <<"ask", "ok", "item", "item">>
        /\ Sequins.body = <<"ask", "ok", "item", "item">>
        /\ JenkinsMetrics.body = <<"ask", "ok", "item", "item">>
    BY DEF NSQ, Sequins, JenkinsMetrics
  <2>2. \A program \in {NSQ, Sequins, JenkinsMetrics} :
          /\ \A m \in DOMAIN program.told : program.told[m] \in {"WARNING", "CRITICAL", "UNKNOWN"}
          /\ program.odd \in {"none", "CRITICAL"}
    BY DEF NSQ, Sequins, JenkinsMetrics
  <2>3. ASSUME NEW program \in {NSQ, Sequins, JenkinsMetrics}
        PROVE  WellMade(program)
    <3>1. program.body \in Seq(Statement) /\ ItemsIn(program) \subseteq {3, 4}
      BY <2>1, OkThenItems
    <3>2. 3 \in 1..5 /\ 4 \in 1..5
      OBVIOUS
    <3>3. \E j, k \in 1..5 : ItemsIn(program) \subseteq {j, k}
      BY <3>1, <3>2
    <3> QED BY <2>2, <3>1, <3>3 DEF WellMade
  <2> QED BY <2>3
<1>2. WellMade(Phabricator) /\ OkLast(Phabricator)
  <2>1. Phabricator.body = <<"ask", "item", "item", "ok">>
    BY DEF Phabricator
  <2>2. /\ \A m \in DOMAIN Phabricator.told :
              Phabricator.told[m] \in {"WARNING", "CRITICAL", "UNKNOWN"}
        /\ Phabricator.odd \in {"none", "CRITICAL"}
    BY DEF Phabricator
  <2>3. /\ Phabricator.body \in Seq(Statement)
        /\ ItemsIn(Phabricator) \subseteq {2, 3} /\ OkLast(Phabricator)
    BY <2>1, ItemsThenOk
  <2>4. 2 \in 1..5 /\ 3 \in 1..5
    OBVIOUS
  <2>5. \E j, k \in 1..5 : ItemsIn(Phabricator) \subseteq {j, k}
    BY <2>3, <2>4
  <2> QED BY <2>2, <2>3, <2>5 DEF WellMade
<1>3. WellMade(Unbound) /\ OkLast(Unbound)
  <2>1. Unbound.body = <<"ask", "item", "item", "ok">>
    BY DEF Unbound
  <2>2. /\ \A m \in DOMAIN Unbound.told : Unbound.told[m] \in {"WARNING", "CRITICAL", "UNKNOWN"}
        /\ Unbound.odd \in {"none", "CRITICAL"}
    BY DEF Unbound
  <2>3. Unbound.body \in Seq(Statement) /\ ItemsIn(Unbound) \subseteq {2, 3} /\ OkLast(Unbound)
    BY <2>1, ItemsThenOk
  <2>4. 2 \in 1..5 /\ 3 \in 1..5
    OBVIOUS
  <2>5. \E j, k \in 1..5 : ItemsIn(Unbound) \subseteq {j, k}
    BY <2>3, <2>4
  <2> QED BY <2>2, <2>3, <2>5 DEF WellMade
<1>4. WellMade(Slapd)
  <2>1. /\ Slapd.body \in Seq(Statement) /\ DOMAIN Slapd.body = 1..5
        /\ Slapd.body[1] = "ask" /\ Slapd.body[2] = "ask" /\ Slapd.body[3] = "ok"
        /\ Slapd.body[4] = "search" /\ Slapd.body[5] = "search"
    <3> DEFINE s == <<"ask", "ask">>
               r == <<"ok", "search", "search">>
    <3>1. /\ s \in Seq(Statement) /\ Len(s) = 2 /\ s[1] = "ask" /\ s[2] = "ask"
          /\ r \in Seq(Statement) /\ Len(r) = 3
          /\ r[1] = "ok" /\ r[2] = "search" /\ r[3] = "search"
      BY DEF Statement
    <3>2. Slapd.body = s \o r
      BY DEF Slapd, connect_to_server
    <3> HIDE DEF s, r
    <3>3. /\ s \o r \in Seq(Statement) /\ Len(s \o r) = Len(s) + Len(r)
          /\ \A n \in 1..Len(s) + Len(r) :
               (s \o r)[n] = IF n <= Len(s) THEN s[n] ELSE r[n - Len(s)]
      <4>1. s \in Seq(Statement) /\ r \in Seq(Statement)
        BY <3>1
      <4> QED BY <4>1, ConcatProperties
    <3>4. /\ (s \o r)[1] = s[1] /\ (s \o r)[2] = s[2]
          /\ (s \o r)[3] = r[1] /\ (s \o r)[4] = r[2] /\ (s \o r)[5] = r[3]
      BY <3>1, <3>3
    <3> QED BY <3>1, <3>2, <3>3, <3>4
  <2>2. /\ \A m \in DOMAIN Slapd.told : Slapd.told[m] \in {"WARNING", "CRITICAL", "UNKNOWN"}
        /\ Slapd.odd \in {"none", "CRITICAL"}
    BY DEF Slapd
  <2>3. \A n \in DOMAIN Slapd.body : n = 1 \/ n = 2 \/ n = 3 \/ n = 4 \/ n = 5
    BY <2>1
  <2>4. \A n \in DOMAIN Slapd.body :
          /\ Slapd.body[n] = "item" => n \in {1}
    BY <2>1, <2>3
  <2> QED BY <2>1, <2>2, <2>4 DEF WellMade, ItemsIn
<1>5. WellMade(OpenVPN) /\ OkLast(OpenVPN)
  <2>1. /\ OpenVPN.body \in Seq(Statement) /\ DOMAIN OpenVPN.body = 1..6
        /\ OpenVPN.body[1] = "open" /\ OpenVPN.body[2] = "item" /\ OpenVPN.body[3] = "item"
        /\ OpenVPN.body[4] = "isfile" /\ OpenVPN.body[5] = "mtime" /\ OpenVPN.body[6] = "ok"
    BY DEF OpenVPN, Statement
  <2>2. /\ \A m \in DOMAIN OpenVPN.told : OpenVPN.told[m] \in {"WARNING", "CRITICAL", "UNKNOWN"}
        /\ OpenVPN.odd \in {"none", "CRITICAL"}
    BY DEF OpenVPN
  <2>3. \A n \in DOMAIN OpenVPN.body : n = 1 \/ n = 2 \/ n = 3 \/ n = 4 \/ n = 5 \/ n = 6
    BY <2>1
  <2>4. \A n \in DOMAIN OpenVPN.body :
          /\ OpenVPN.body[n] = "item" => n \in {2, 3}
          /\ OpenVPN.body[n] = "ok" => n = 6
    BY <2>1, <2>3
  <2>5. OkLast(OpenVPN)
    BY <2>1, <2>4, OkAtEnd
  <2>6. 2 \in 1..5 /\ 3 \in 1..5 /\ ItemsIn(OpenVPN) \subseteq {2, 3}
    BY <2>4 DEF ItemsIn
  <2>7. \E j, k \in 1..5 : ItemsIn(OpenVPN) \subseteq {j, k}
    BY <2>6
  <2> QED BY <2>1, <2>2, <2>5, <2>7 DEF WellMade
<1>6. WellMade(Veneur) /\ OkLast(Veneur)
  <2>1. /\ Veneur.body \in Seq(Statement) /\ DOMAIN Veneur.body = 1..4
        /\ Veneur.body[1] = "ask" /\ Veneur.body[2] = "ask"
        /\ Veneur.body[3] = "item" /\ Veneur.body[4] = "ok"
    BY DEF Veneur, Statement
  <2>2. /\ \A m \in DOMAIN Veneur.told : Veneur.told[m] \in {"WARNING", "CRITICAL", "UNKNOWN"}
        /\ Veneur.odd \in {"none", "CRITICAL"}
    BY DEF Veneur
  <2>3. \A n \in DOMAIN Veneur.body : n = 1 \/ n = 2 \/ n = 3 \/ n = 4
    BY <2>1
  <2>4. \A n \in DOMAIN Veneur.body :
          /\ Veneur.body[n] = "item" => n \in {3}
          /\ Veneur.body[n] = "ok" => n = 4
    BY <2>1, <2>3
  <2>5. OkLast(Veneur)
    BY <2>1, <2>4, OkAtEnd
  <2> QED BY <2>1, <2>2, <2>4, <2>5 DEF WellMade, ItemsIn
<1>7. WellMade(Kernel) /\ OkLast(Kernel)
  <2>1. /\ Kernel.body \in Seq(Statement) /\ DOMAIN Kernel.body = 1..4
        /\ Kernel.body[1] = "ask" /\ Kernel.body[2] = "ask"
        /\ Kernel.body[3] = "grub" /\ Kernel.body[4] = "ok"
    BY DEF Kernel, Statement
  <2>2. /\ \A m \in DOMAIN Kernel.told : Kernel.told[m] \in {"WARNING", "CRITICAL", "UNKNOWN"}
        /\ Kernel.odd \in {"none", "CRITICAL"}
    BY DEF Kernel
  <2>3. \A n \in DOMAIN Kernel.body : n = 1 \/ n = 2 \/ n = 3 \/ n = 4
    BY <2>1
  <2>4. \A n \in DOMAIN Kernel.body :
          /\ Kernel.body[n] = "item" => n \in {1}
          /\ Kernel.body[n] = "ok" => n = 4
    BY <2>1, <2>3
  <2>5. OkLast(Kernel)
    BY <2>1, <2>4, OkAtEnd
  <2> QED BY <2>1, <2>2, <2>4, <2>5 DEF WellMade, ItemsIn
<1>8. WellMade(NagiosRunner) /\ OkLast(NagiosRunner)
  <2>1. /\ NagiosRunner.body \in Seq(Statement) /\ DOMAIN NagiosRunner.body = 1..2
        /\ NagiosRunner.body[1] = "ask" /\ NagiosRunner.body[2] = "ok"
    BY DEF NagiosRunner, Statement
  <2>2. /\ \A m \in DOMAIN NagiosRunner.told :
              NagiosRunner.told[m] \in {"WARNING", "CRITICAL", "UNKNOWN"}
        /\ NagiosRunner.odd \in {"none", "CRITICAL"}
    BY DEF NagiosRunner
  <2>3. \A n \in DOMAIN NagiosRunner.body : n = 1 \/ n = 2
    BY <2>1
  <2>4. \A n \in DOMAIN NagiosRunner.body :
          /\ NagiosRunner.body[n] = "item" => n \in {1}
          /\ NagiosRunner.body[n] = "ok" => n = 2
    BY <2>1, <2>3
  <2>5. OkLast(NagiosRunner)
    BY <2>1, <2>4, OkAtEnd
  <2> QED BY <2>1, <2>2, <2>4, <2>5 DEF WellMade, ItemsIn
<1> QED BY <1>1, <1>2, <1>3, <1>4, <1>5, <1>6, <1>7, <1>8

LEMMA ProgramsOK ==
  \A name \in DOMAIN Checks :
    WellMade(Checks[name]) /\ (name \notin OkFirst => OkLast(Checks[name]))
<1> SUFFICES ASSUME NEW name \in DOMAIN Checks
             PROVE  WellMade(Checks[name]) /\ (name \notin OkFirst => OkLast(Checks[name]))
  OBVIOUS
<1>1. /\ Checks["nsq"] = NSQ /\ Checks["sequins"] = Sequins
      /\ Checks["jenkins_metrics"] = JenkinsMetrics /\ Checks["phabricator"] = Phabricator
      /\ Checks["slapd"] = Slapd /\ Checks["unbound"] = Unbound /\ Checks["openvpn"] = OpenVPN
      /\ Checks["veneur"] = Veneur /\ Checks["kernel"] = Kernel
      /\ Checks["nagios_runner"] = NagiosRunner
      /\ name \in {"nsq", "sequins", "jenkins_metrics", "phabricator", "slapd", "unbound",
                   "openvpn", "veneur", "kernel", "nagios_runner"}
  BY DEF Checks
<1> QED BY <1>1, WellMadeOK DEF OkFirst

-----------------------------------------------------------------------------
(* Where a check is in its program.                                        *)

ItemsBefore(program, m) == {n \in DOMAIN program.body : n < m /\ program.body[n] = "item"}

LEMMA ItemsCounted ==
  ASSUME NEW program, WellMade(program)
  PROVE  /\ IsFiniteSet(ItemsIn(program)) /\ Cardinality(ItemsIn(program)) \in 0..2
         /\ \A m \in Nat : /\ IsFiniteSet(ItemsBefore(program, m))
                           /\ Cardinality(ItemsBefore(program, m))
                                \in 0..Cardinality(ItemsIn(program))
<1>1. PICK j \in 1..5, k \in 1..5 : ItemsIn(program) \subseteq {j, k}
  BY DEF WellMade
<1>2. IsFiniteSet({j, k}) /\ Cardinality({j, k}) <= 2
  <2>1. IsFiniteSet({j}) /\ Cardinality({j}) = 1
    BY FS_Singleton
  <2>2. {j, k} = {j} \union {k}
    OBVIOUS
  <2> QED BY <2>1, <2>2, FS_AddElement
<1>3. IsFiniteSet(ItemsIn(program)) /\ Cardinality(ItemsIn(program)) <= Cardinality({j, k})
  BY <1>1, <1>2, FS_Subset
<1>4. Cardinality(ItemsIn(program)) \in Nat /\ Cardinality({j, k}) \in Nat
  BY <1>2, <1>3, FS_CardinalityType
<1>5. ASSUME NEW m \in Nat
      PROVE  /\ IsFiniteSet(ItemsBefore(program, m))
             /\ Cardinality(ItemsBefore(program, m)) \in 0..Cardinality(ItemsIn(program))
  <2>1. ItemsBefore(program, m) \in SUBSET ItemsIn(program)
    BY DEF ItemsBefore, ItemsIn
  <2>2. /\ IsFiniteSet(ItemsBefore(program, m))
        /\ Cardinality(ItemsBefore(program, m)) <= Cardinality(ItemsIn(program))
    BY <1>3, <2>1, FS_Subset
  <2>3. Cardinality(ItemsBefore(program, m)) \in Nat
    BY <2>2, FS_CardinalityType
  <2> QED BY <1>4, <2>2, <2>3
<1> QED BY <1>2, <1>3, <1>4, <1>5

\* A statement more.
LEMMA OneMore ==
  ASSUME NEW program, WellMade(program), NEW m \in DOMAIN program.body
  PROVE  Cardinality(ItemsBefore(program, m + 1)) =
           IF program.body[m] = "item" THEN Cardinality(ItemsBefore(program, m)) + 1
           ELSE Cardinality(ItemsBefore(program, m))
<1>1. program.body \in Seq(Statement)
  BY DEF WellMade
<1>2. m \in Nat /\ \A n \in DOMAIN program.body : n \in Nat
  BY <1>1
<1>3. CASE program.body[m] = "item"
  <2>1. ItemsBefore(program, m + 1) = ItemsBefore(program, m) \union {m}
    BY <1>2, <1>3 DEF ItemsBefore
  <2>2. m \notin ItemsBefore(program, m)
    BY <1>2 DEF ItemsBefore
  <2>3. IsFiniteSet(ItemsBefore(program, m))
    BY <1>2, ItemsCounted
  <2> QED BY <1>3, <2>1, <2>2, <2>3, FS_AddElement
<1>4. CASE program.body[m] # "item"
  <2>1. ItemsBefore(program, m + 1) = ItemsBefore(program, m)
    BY <1>2, <1>4 DEF ItemsBefore
  <2> QED BY <1>4, <2>1
<1> QED BY <1>3, <1>4

\* No item is left behind the OK.
LEMMA AllBefore ==
  ASSUME NEW program, WellMade(program), OkLast(program), NEW m \in Nat,
         NEW n \in DOMAIN program.body, n < m, program.body[n] = "ok"
  PROVE  ItemsBefore(program, m) = ItemsIn(program)
<1>1. program.body \in Seq(Statement)
  BY DEF WellMade
<1>2. \A k \in DOMAIN program.body : k \in Nat
  BY <1>1
<1>3. \A k \in DOMAIN program.body : program.body[k] = "item" => k < m
  BY <1>2 DEF OkLast
<1> QED BY <1>3 DEF ItemsBefore, ItemsIn

\* The program of an instance.
LEMMA CheckOf ==
  ASSUME ProbesTypeOK, NEW i \in Probe
  PROVE  /\ kind[i] \in DOMAIN Checks
         /\ WellMade(Check(i)) /\ (kind[i] \notin OkFirst => OkLast(Check(i)))
         /\ Check(i).body \in Seq(Statement)
         /\ ItemsOf(i) = Cardinality(ItemsIn(Check(i)))
<1>1. kind[i] \in DOMAIN Checks
  BY DeploymentsAssumption DEF ProbesTypeOK
<1>2. WellMade(Check(i)) /\ (kind[i] \notin OkFirst => OkLast(Check(i)))
  BY <1>1, ProgramsOK DEF Check
<1>3. Check(i).body \in Seq(Statement)
  BY <1>2 DEF WellMade
<1>4. ItemsOf(i) = Cardinality(ItemsIn(Check(i)))
  BY DEF ItemsOf, ItemsIn
<1> QED BY <1>1, <1>2, <1>3, <1>4

-----------------------------------------------------------------------------
(* The types of what a check has got and of what it sends.                 *)

Running(items) ==
  [of : Probe \union {None}, step : Nat, reply : Mode \union {"none"}, told : {"none", "OK"},
   items : items, got : SUBSET Tag]

SeriesType == [of : Probe \union DOMAIN Checks \union {None}, tags : SUBSET Tag]
Shown == [series : SeriesType, told : Status \union {"none"}]

LEMMA TypesNamed ==
  ASSUME ProbesTypeOK
  PROVE  at \in Running(0..2) /\ status \in [Probe -> Shown]
BY DEF ProbesTypeOK, Running, SeriesType, Shown

\* The answers that become tags are tags.
LEMMA GotOK ==
  ASSUME ProbesTypeOK, NEW answer \in Answer
  PROVE  Got(answer) \in SUBSET Tag
<1>1. at.got \in SUBSET Tag
  BY TypesNamed DEF Running
<1>2. \A check : Tagging(check) \subseteq 1..3
  <2>1. 1 \in 1..3 /\ 2 \in 1..3 /\ 3 \in 1..3
    OBVIOUS
  <2> QED BY <2>1 DEF Tagging
<1>3. at.step \in Tagging(kind[at.of]) => <<at.step, answer>> \in Tag
  BY <1>2 DEF Tag
<1> QED BY <1>1, <1>3 DEF Got

\* A status goes to a series, and is shown in it.
LEMMA SendStatusOK ==
  ASSUME ProbesTypeOK, at.of \in Probe, NEW s \in Status \union {"none"}, SendStatus(s)
  PROVE  status' \in [Probe -> Shown]
<1> DEFINE told == [series |-> Series(at.of), told |-> s]
<1>1. status \in [Probe -> Shown] /\ at.got \in SUBSET Tag /\ kind[at.of] \in DOMAIN Checks
  BY TypesNamed, CheckOf DEF Running
<1>2. SentTags(at.of) \in SUBSET Tag
  <2>1. Unknown(kind[at.of]) \subseteq 1..3
    <3>1. 1 \in 1..3 /\ 2 \in 1..3 /\ 3 \in 1..3
      OBVIOUS
    <3> QED BY <3>1 DEF Unknown
  <2>2. \A n \in 1..3 : <<n, "unknown">> \in Tag
    BY DEF Tag, Answer
  <2> QED BY <1>1, <2>1, <2>2 DEF SentTags
<1>3. Series(at.of) \in SeriesType
  BY <1>1, <1>2 DEF Series, SeriesType
<1>4. told \in Shown
  BY <1>3 DEF Shown
<1>5. status' = IF s = "none" THEN status
               ELSE [i \in Probe |-> IF i = at.of \/ status[i].series = Series(at.of)
                                     THEN told ELSE status[i]]
  BY DEF SendStatus
<1> HIDE DEF told
<1> QED BY <1>1, <1>4, <1>5

-----------------------------------------------------------------------------
(* The steps of a check.                                                   *)

\* What a step that goes on does to the check that runs.
Advanced ==
  /\ Busy /\ at.step \in DOMAIN Check(at.of).body
  /\ at' \in Running(Nat)
  /\ at'.of = at.of /\ at'.step = at.step + 1
  /\ at'.items = IF Check(at.of).body[at.step] = "item" THEN at.items + 1 ELSE at.items
  /\ at'.told = "OK" => at.told = "OK" \/ Check(at.of).body[at.step] = "ok"

LEMMA AdvanceOK ==
  ASSUME ProbesIInv, Advanced, UNCHANGED <<peerVars, fixed, turn, last>>,
         status' \in [Probe -> Shown]
  PROVE  ProbesIInv'
<1> DEFINE i == at.of
           program == Check(i)
<1>1. i \in Probe /\ ProbesTypeOK /\ AtOK
  BY DEF Advanced, ProbesIInv, AtOK
<1>2. /\ WellMade(program) /\ program.body \in Seq(Statement)
      /\ ItemsOf(i) = Cardinality(ItemsIn(program))
  BY <1>1, CheckOf
<1>3. kind' = kind /\ at'.of = i
  BY DEF Advanced, fixed
<1>4. Check(at.of)' = program /\ ItemsOf(at.of)' = ItemsOf(i)
  BY <1>3 DEF Check, ItemsOf
<1>5. at.step \in DOMAIN program.body /\ at.step \in 1..Len(program.body) /\ at'.step = at.step + 1
  BY <1>2 DEF Advanced
<1>6. at.items = Cardinality(ItemsBefore(program, at.step))
  BY <1>1 DEF Advanced, AtOK, ItemsBefore
<1>7. at'.items = Cardinality(ItemsBefore(program, at.step + 1))
  <2>1. Cardinality(ItemsBefore(program, at.step + 1)) =
          IF program.body[at.step] = "item" THEN Cardinality(ItemsBefore(program, at.step)) + 1
          ELSE Cardinality(ItemsBefore(program, at.step))
    BY <1>2, <1>5, OneMore
  <2>2. at'.items = IF program.body[at.step] = "item" THEN at.items + 1 ELSE at.items
    BY DEF Advanced
  <2> QED BY <1>6, <2>1, <2>2
<1>8. at'.items \in 0..ItemsOf(i) /\ ItemsOf(i) \in 0..2
  <2>1. at.step + 1 \in Nat
    BY <1>5
  <2> QED BY <1>2, <1>7, <2>1, ItemsCounted
<1>9. at'.step \in 1..Len(program.body) + 1
  BY <1>2, <1>5
<1>10. at'.told = "OK" => \E n \in DOMAIN program.body :
                            n < at'.step /\ program.body[n] = "ok"
  <2>1. CASE at.told = "OK"
    <3>1. PICK n \in DOMAIN program.body : n < at.step /\ program.body[n] = "ok"
      BY <1>1, <2>1 DEF Advanced, AtOK
    <3>2. n < at.step + 1
      BY <1>2, <1>5, <3>1
    <3> QED BY <1>5, <3>1, <3>2
  <2>2. CASE program.body[at.step] = "ok"
    <3>1. at.step < at.step + 1
      BY <1>5
    <3> QED BY <1>5, <2>2, <3>1
  <2> QED BY <2>1, <2>2 DEF Advanced
<1> HIDE DEF program, i
<1>11. AtOK'
  <2> SUFFICES ASSUME Busy'
               PROVE  /\ at'.of \in Probe
                      /\ at'.items = Cardinality(ItemsBefore(program, at'.step))
                      /\ at'.told = "OK" => \E n \in DOMAIN program.body :
                                              n < at'.step /\ program.body[n] = "ok"
    BY <1>4 DEF AtOK, ItemsBefore
  <2> QED BY <1>1, <1>3, <1>5, <1>7, <1>10
<1>12. ProbesTypeOK'
  <2>1. UNCHANGED <<changes, peer, version, kind, named, turn, last>>
    BY DEF peerVars, fixed
  <2>2. at' \in Running(0..2)
    BY <1>8 DEF Advanced, Running
  <2>3. Busy' => at'.step \in 1..Len(Check(at.of)'.body) + 1 /\ at'.items \in 0..ItemsOf(at.of)'
    BY <1>4, <1>8, <1>9
  <2> QED BY <1>1, <2>1, <2>2, <2>3 DEF ProbesTypeOK, Running, Shown, SeriesType
<1>13. OkIsWhole'
  <2>1. UNCHANGED <<kind, last>>
    BY DEF fixed
  <2> QED BY <2>1 DEF ProbesIInv, OkIsWhole, ItemsOf, Check
<1> QED BY <1>11, <1>12, <1>13 DEF ProbesIInv

\* What a check leaves behind is what it was at.
LEMMA LeaveOK ==
  ASSUME ProbesIInv, Busy, NEW told \in {"none", "WARNING", "CRITICAL", "UNKNOWN"}, Leave(told)
  PROVE  ProbesIInv'
<1> DEFINE i == at.of
           left == [told |-> IF told = "none" THEN at.told ELSE told, items |-> at.items]
<1>1. i \in Probe /\ ProbesTypeOK /\ AtOK
  BY DEF ProbesIInv, AtOK
<1>2. /\ at' = NotChecking /\ UNCHANGED <<changes, peer, version, kind, named, turn>>
      /\ last' = [last EXCEPT ![i] = left] /\ SendStatus(told)
  BY DEF Leave, peerVars, fixed
<1>3. at.told \in {"none", "OK"} /\ at.items \in 0..2
  BY <1>1 DEF ProbesTypeOK
<1>4. left \in [told : Status \union {"none"}, items : 0..2]
  BY <1>1, <1>3 DEF Status
<1>5. left.told = "OK" => at.told = "OK"
  OBVIOUS
<1>6. left.items = at.items
  OBVIOUS
<1>7. /\ WellMade(Check(i)) /\ (kind[i] \notin OkFirst => OkLast(Check(i)))
      /\ ItemsOf(i) = Cardinality(ItemsIn(Check(i)))
  BY <1>1, CheckOf
<1> HIDE DEF left
<1>8. ~Busy'
  BY <1>2 DEF Busy, NotChecking
<1>9. ProbesTypeOK'
  <2>1. at' \in Running(0..2)
    BY <1>2 DEF NotChecking, Running
  <2>2. status' \in [Probe -> Shown]
    BY <1>1, <1>2, SendStatusOK DEF Status
  <2>3. last' \in [Probe -> [told : Status \union {"none"}, items : 0..2]]
    BY <1>1, <1>2, <1>4 DEF ProbesTypeOK
  <2> QED
    BY <1>1, <1>2, <1>8, <2>1, <2>2, <2>3 DEF ProbesTypeOK, Running, Shown, SeriesType
<1>10. OkIsWhole'
  <2> SUFFICES ASSUME NEW j \in Probe, last'[j].told = "OK", kind[j] \notin OkFirst
               PROVE  last'[j].items = ItemsOf(j)
    BY <1>2 DEF OkIsWhole, ItemsOf, Check
  <2>1. CASE j = i
    <3>1. last'[j] = left
      BY <1>1, <1>2, <2>1 DEF ProbesTypeOK
    <3>2. PICK n \in DOMAIN Check(i).body : n < at.step /\ Check(i).body[n] = "ok"
      BY <1>1, <1>5, <3>1 DEF AtOK
    <3>3. at.step \in Nat /\ OkLast(Check(i))
      BY <1>1, <1>7, <2>1 DEF ProbesTypeOK
    <3>4. ItemsBefore(Check(i), at.step) = ItemsIn(Check(i))
      BY <1>7, <3>2, <3>3, AllBefore
    <3>5. at.items = Cardinality(ItemsBefore(Check(i), at.step))
      BY <1>1 DEF AtOK, ItemsBefore
    <3> QED BY <1>6, <1>7, <2>1, <3>1, <3>4, <3>5
  <2>2. CASE j # i
    <3>1. last'[j] = last[j]
      BY <1>1, <1>2, <2>2 DEF ProbesTypeOK
    <3> QED BY <3>1 DEF ProbesIInv, OkIsWhole
  <2> QED BY <2>1, <2>2
<1> QED BY <1>8, <1>9, <1>10 DEF ProbesIInv, AtOK

LEMMA GoingOn ==
  ASSUME ProbesIInv, Ask \/ SendOk \/ Item \/ Search \/ Grub \/ Open \/ IsFile
  PROVE  ProbesIInv'
<1> DEFINE program == Check(at.of)
<1>1. ProbesTypeOK
  BY DEF ProbesIInv
<1>2. /\ at \in Running(0..2) /\ status \in [Probe -> Shown]
      /\ peer \in [Probe -> Mode] /\ version \in {"old", "new"}
  BY <1>1, TypesNamed DEF ProbesTypeOK
<1>3. /\ Busy /\ at.step \in DOMAIN program.body
      /\ Item <=> program.body[at.step] = "item" /\ Item
      /\ SendOk => program.body[at.step] = "ok"
      /\ ~Item => program.body[at.step] # "item"
  BY DEF Ask, SendOk, Item, Search, Grub, Open, IsFile, At
<1>4. at.of \in Probe
  BY <1>3 DEF ProbesIInv, AtOK
<1>5. /\ at' \in Running(Nat)
      /\ at'.of = at.of /\ at'.step = at.step + 1
      /\ at'.items = IF Item THEN at.items + 1 ELSE at.items
      /\ at'.told = "OK" => at.told = "OK" \/ SendOk
  <2>0. /\ at.of \in Probe \union {None} /\ at.step \in Nat /\ at.items \in Nat
        /\ at.told \in {"none", "OK"} /\ at.got \in SUBSET Tag
        /\ at.reply \in Mode \union {"none"} /\ peer[at.of] \in Mode
    BY <1>2, <1>4 DEF Running
  <2>1. CASE Ask \/ Grub
    <3>1. PICK answer \in Answer, reply \in Mode \union {"none"} :
            at' = [at EXCEPT !.step = @ + 1, !.reply = reply, !.got = Got(answer)]
      <4>1. CASE Ask
        <5>1. (IF peer[at.of] = "up" THEN version ELSE "odd") \in Answer
          BY <1>2 DEF Answer
        <5> QED BY <2>0, <4>1, <5>1 DEF Ask
      <4>2. CASE Grub
        <5>1. (IF peer[at.of] = "up" THEN version ELSE "unknown") \in Answer
          BY <1>2 DEF Answer
        <5>2. at' = [at EXCEPT !.step = @ + 1, !.reply = at.reply,
                     !.got = Got(IF peer[at.of] = "up" THEN version ELSE "unknown")]
          BY <1>2, <4>2 DEF Grub, Running
        <5> QED BY <2>0, <5>1, <5>2
      <4> QED BY <2>1, <4>1, <4>2
    <3>2. at' = [of |-> at.of, step |-> at.step + 1, reply |-> reply,
                 told |-> at.told, items |-> at.items, got |-> Got(answer)]
      BY <1>2, <3>1 DEF Running
    <3>3. ~Item
      BY <2>1 DEF Ask, Grub, Item, At
    <3>4. Got(answer) \in SUBSET Tag
      BY <1>1, GotOK
    <3>5. at' \in Running(Nat)
      BY <2>0, <3>1, <3>2, <3>4 DEF Running
    <3> QED BY <3>2, <3>3, <3>5
  <2>2. CASE Open
    <3>1. at' = [at EXCEPT !.step = @ + 1, !.reply = peer[at.of]] /\ ~Item
      BY <2>2 DEF Open, Item, At
    <3>2. at' = [of |-> at.of, step |-> at.step + 1, reply |-> peer[at.of],
                 told |-> at.told, items |-> at.items, got |-> at.got]
      BY <1>2, <3>1 DEF Running
    <3>3. at' \in Running(Nat)
      BY <2>0, <3>2 DEF Running
    <3> QED BY <3>1, <3>2, <3>3
  <2>3. CASE SendOk
    <3>1. at' = [at EXCEPT !.step = @ + 1, !.told = "OK"] /\ ~Item
      BY <2>3 DEF SendOk, Item, At
    <3>2. at' = [of |-> at.of, step |-> at.step + 1, reply |-> at.reply,
                 told |-> "OK", items |-> at.items, got |-> at.got]
      BY <1>2, <3>1 DEF Running
    <3>3. at' \in Running(Nat)
      BY <2>0, <3>2 DEF Running
    <3> QED BY <2>3, <3>1, <3>2, <3>3
  <2>4. CASE Item
    <3>1. at' = [at EXCEPT !.step = @ + 1, !.items = @ + 1]
      BY <2>4 DEF Item
    <3>2. at' = [of |-> at.of, step |-> at.step + 1, reply |-> at.reply,
                 told |-> at.told, items |-> at.items + 1, got |-> at.got]
      BY <1>2, <3>1 DEF Running
    <3>3. at' \in Running(Nat)
      BY <2>0, <3>2 DEF Running
    <3> QED BY <2>4, <3>2, <3>3
  <2>5. CASE Search \/ IsFile
    <3>1. at' = [at EXCEPT !.step = @ + 1] /\ ~Item
      BY <2>5 DEF Search, IsFile, GoOn, Item, At
    <3>2. at' = [of |-> at.of, step |-> at.step + 1, reply |-> at.reply,
                 told |-> at.told, items |-> at.items, got |-> at.got]
      BY <1>2, <3>1 DEF Running
    <3>3. at' \in Running(Nat)
      BY <2>0, <3>2 DEF Running
    <3> QED BY <3>1, <3>2, <3>3
  <2> QED BY <2>1, <2>2, <2>3, <2>4, <2>5
<1>6. Advanced
  <2>1. Item <=> program.body[at.step] = "item"
    BY <1>3
  <2> QED BY <1>3, <1>5, <2>1 DEF Advanced
<1>7. UNCHANGED <<peerVars, fixed, turn, last>>
  BY DEF Ask, SendOk, Item, Search, Grub, Open, IsFile
<1>8. status' \in [Probe -> Shown]
  <2>1. CASE SendOk
    BY <1>1, <1>4, <2>1, SendStatusOK DEF SendOk, Status
  <2>2. CASE ~SendOk
    BY <1>2, <2>2 DEF Ask, Item, Search, Grub, Open, IsFile
  <2> QED BY <2>1, <2>2
<1> QED BY <1>6, <1>7, <1>8, AdvanceOK

LEMMA Leaving ==
  ASSUME ProbesIInv,
         AskFails \/ ItemFails \/ SearchRaises \/ OpenRaises \/ IsNotRunning \/ MtimeRaises
           \/ Return
  PROVE  ProbesIInv'
<1>1. Busy /\ ProbesTypeOK
  BY DEF AskFails, ItemFails, SearchRaises, OpenRaises, IsNotRunning, MtimeRaises, Return, At,
         ProbesIInv
<1>2. at.of \in Probe /\ WellMade(Check(at.of))
  BY <1>1, CheckOf DEF ProbesIInv, AtOK
<1>3. Told \in {"none", "WARNING", "CRITICAL", "UNKNOWN"}
      /\ Check(at.of).odd \in {"none", "WARNING", "CRITICAL", "UNKNOWN"}
  BY <1>2 DEF Told, WellMade
<1>4. PICK told \in {"none", "WARNING", "CRITICAL", "UNKNOWN"} : Leave(told)
  BY <1>3 DEF AskFails, ItemFails, SearchRaises, OpenRaises, IsNotRunning, MtimeRaises, Return
<1> QED BY <1>1, <1>4, LeaveOK

\* The collector calls the next check.
LEMMA RoundOK ==
  ASSUME ProbesIInv, Round
  PROVE  ProbesIInv'
<1> DEFINE i == Schedule[turn]
<1>1. /\ ProbesTypeOK /\ ~Busy /\ at' = [NotChecking EXCEPT !.of = i]
      /\ UNCHANGED <<changes, peer, version, kind, named, status, last>>
      /\ turn' = (turn % Len(Schedule)) + 1
  BY DEF Round, Start, ProbesIInv, peerVars, fixed
<1>2. i \in Probe /\ turn' \in DOMAIN Schedule
  BY <1>1, ProbesAssumption DEF ProbesTypeOK
<1> HIDE DEF i
<1>3. at' = [of |-> i, step |-> 1, reply |-> "none", told |-> "none", items |-> 0,
             got |-> {}]
  BY <1>1 DEF NotChecking
<1>4. /\ WellMade(Check(i)) /\ Check(i).body \in Seq(Statement)
      /\ ItemsOf(i) = Cardinality(ItemsIn(Check(i)))
  BY <1>1, <1>2, CheckOf
<1>5. ItemsOf(i) \in 0..2
  BY <1>4, ItemsCounted
<1>6. \A n \in DOMAIN Check(i).body : ~(n < 1)
  BY <1>4
<1>7. Cardinality({n \in DOMAIN Check(i).body : n < 1 /\ Check(i).body[n] = "item"}) = 0
  <2>1. {n \in DOMAIN Check(i).body : n < 1 /\ Check(i).body[n] = "item"} = {}
    BY <1>6
  <2> QED BY <2>1, FS_EmptySet
<1>8. Check(at.of)' = Check(i) /\ ItemsOf(at.of)' = ItemsOf(i)
  BY <1>1, <1>3 DEF Check, ItemsOf
<1>9. AtOK'
  BY <1>2, <1>3, <1>7, <1>8 DEF AtOK
<1>10. ProbesTypeOK'
  <2>1. at' \in Running(0..2)
    BY <1>2, <1>3 DEF Running
  <2>2. at'.step \in 1..Len(Check(at.of)'.body) + 1 /\ at'.items \in 0..ItemsOf(at.of)'
    BY <1>3, <1>4, <1>5, <1>8
  <2> QED BY <1>1, <1>2, <2>1, <2>2 DEF ProbesTypeOK, Running
<1>11. OkIsWhole'
  BY <1>1 DEF ProbesIInv, OkIsWhole, ItemsOf, Check
<1> QED BY <1>9, <1>10, <1>11 DEF ProbesIInv

\* What changes in the peers is not of the checks.
LEMMA PeersOK ==
  ASSUME ProbesIInv, UNCHANGED <<fixed, turn, at, status, last>>,
         changes' \in Nat, peer' \in [Probe -> Mode], version' \in {"old", "new"}
  PROVE  ProbesIInv'
<1>1. UNCHANGED <<kind, named>>
  BY DEF fixed
<1>2. ProbesTypeOK'
  BY <1>1 DEF ProbesIInv, ProbesTypeOK, Busy, Check, ItemsOf
<1>3. AtOK'
  BY <1>1 DEF ProbesIInv, AtOK, Busy, Check
<1>4. OkIsWhole'
  BY <1>1 DEF ProbesIInv, OkIsWhole, ItemsOf, Check
<1> QED BY <1>2, <1>3, <1>4 DEF ProbesIInv

LEMMA ProbesInitOK == ProbesInit => ProbesIInv
<1> SUFFICES ASSUME ProbesInit PROVE ProbesIInv
  OBVIOUS
<1>1. ~Busy
  BY DEF ProbesInit, Busy
<1>2. ProbesTypeOK
  <2>1. turn \in DOMAIN Schedule
    BY ProbesAssumption DEF ProbesInit
  <2>2. named \subseteq Probe
    BY DEF ProbesInit
  <2>3. at \in Running(0..2)
    BY DEF ProbesInit, NotChecking, Running
  <2>4. status \in [Probe -> Shown]
    BY DEF ProbesInit, Nowhere, Shown, SeriesType
  <2> QED
    BY <1>1, <2>1, <2>2, <2>3, <2>4
    DEF ProbesInit, ProbesTypeOK, Running, Shown, SeriesType, Mode
<1>3. AtOK /\ OkIsWhole
  BY <1>1 DEF ProbesInit, AtOK, OkIsWhole
<1> QED BY <1>2, <1>3 DEF ProbesIInv

LEMMA ProbesNextOK == ProbesIInv /\ [ProbesNext]_probesVars => ProbesIInv'
<1> SUFFICES ASSUME ProbesIInv, [ProbesNext]_probesVars
             PROVE  ProbesIInv'
  OBVIOUS
<1>1. /\ changes \in Nat /\ peer \in [Probe -> Mode] /\ version \in {"old", "new"}
  BY DEF ProbesIInv, ProbesTypeOK
<1>2. ASSUME NEW i \in Probe, Change(i)
      PROVE  ProbesIInv'
  <2>1. /\ UNCHANGED <<version, fixed, turn, at, status, last>>
        /\ changes' \in Nat /\ peer' \in [Probe -> Mode]
    BY <1>1, <1>2 DEF Change
  <2> QED BY <1>1, <2>1, PeersOK
<1>3. CASE Deploy
  BY <1>1, <1>3, PeersOK DEF Deploy
<1>4. CASE Round
  BY <1>4, RoundOK
<1>5. CASE Step
  BY <1>5, GoingOn, Leaving DEF Step
<1>6. CASE UNCHANGED probesVars
  <2>1. /\ UNCHANGED <<fixed, turn, at, status, last>>
        /\ changes' = changes /\ peer' = peer /\ version' = version
    BY <1>6 DEF probesVars, peerVars
  <2> QED BY <1>1, <2>1, PeersOK
<1> QED BY <1>2, <1>3, <1>4, <1>5, <1>6 DEF ProbesNext, Environment

\* The inductive invariant: a check that runs has got the items of the statements behind it,
\* and has sent OK only where its program says so.
THEOREM ProbesInvariance == ProbesSpec => []ProbesIInv
BY ProbesInitOK, ProbesNextOK, PTL DEF ProbesSpec

\* The variables keep their types, for any number of instances of any of the checks, and any
\* number of failures.
THEOREM ProbesTypeCorrect == ProbesSpec => []ProbesTypeOK
<1>1. ProbesIInv => ProbesTypeOK
  BY DEF ProbesIInv
<1> QED BY <1>1, ProbesInvariance, PTL

\* Of the checks that do not tell OK first, an OK comes behind the last item, however their
\* programs break while the check runs (phabricator.py:75-83, unbound.py:178-193,
\* veneur.py:20-36).
THEOREM OkIsWholeHolds == ProbesSpec => []OkIsWhole
<1>1. ProbesIInv => OkIsWhole
  BY DEF ProbesIInv
<1> QED BY <1>1, ProbesInvariance, PTL
=============================================================================
