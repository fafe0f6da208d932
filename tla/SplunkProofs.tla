---------------------------- MODULE SplunkProofs ----------------------------
(***************************************************************************)
(* Theorems about Splunk, for any number of fixup levels and of changes in *)
(* the course of a check.                                                  *)
(***************************************************************************)
EXTENDS Splunk, TLAPS

-----------------------------------------------------------------------------
(* The list of the GETs.                                                   *)

\* A list of as many equal elements.
LEMMA Repeated ==
  ASSUME NEW S, NEW e \in S, NEW n \in Nat
  PROVE  /\ [i \in 1..n |-> e] \in Seq(S) /\ Len([i \in 1..n |-> e]) = n
         /\ \A k \in 1..n : [i \in 1..n |-> e][k] = e
OBVIOUS

\* How many there are, and which one is at which position.
LEMMA GetAt ==
  /\ Levels \in Nat
  /\ DOMAIN Gets = 1..(Levels + 10) /\ Len(Gets) = Levels + 10
  /\ Gets[1] = Get("license", "probe", TRUE)
  /\ Gets[2] = Get("license", "pools", FALSE)
  /\ Gets[3] = Get("master", "probe", TRUE)
  /\ Gets[4] = Get("master", "indexes", TRUE)
  /\ Gets[5] = Get("master", "peers", TRUE)
  /\ \A k \in 6..(Levels + 5) : Gets[k] = Get("master", "fixup", TRUE)
  /\ Gets[Levels + 6] = Get("captain", "probe", TRUE)
  /\ Gets[Levels + 7] = Get("captain", "searches", FALSE)
  /\ Gets[Levels + 8] = Get("captain", "members", TRUE)
  /\ Gets[Levels + 9] = Get("forwarder", "probe", TRUE)
  /\ Gets[Levels + 10] = Get("forwarder", "files", TRUE)
<1> DEFINE A == <<Get("license", "probe", TRUE), Get("license", "pools", FALSE),
                  Get("master", "probe", TRUE), Get("master", "indexes", TRUE),
                  Get("master", "peers", TRUE)>>
           L == [level \in 1..Levels |-> Get("master", "fixup", TRUE)]
           B == <<Get("captain", "probe", TRUE), Get("captain", "searches", FALSE),
                  Get("captain", "members", TRUE),
                  Get("forwarder", "probe", TRUE), Get("forwarder", "files", TRUE)>>
           S == [role : Role, part : {"probe", "pools", "indexes", "peers", "fixup", "searches",
                                      "members", "files"}, own : BOOLEAN]
<1>1. Levels \in Nat
  BY CountAssumption
<1>2. /\ A \in Seq(S) /\ Len(A) = 5
      /\ A[1] = Get("license", "probe", TRUE) /\ A[2] = Get("license", "pools", FALSE)
      /\ A[3] = Get("master", "probe", TRUE) /\ A[4] = Get("master", "indexes", TRUE)
      /\ A[5] = Get("master", "peers", TRUE)
  BY DEF Get, Role
<1>3. /\ B \in Seq(S) /\ Len(B) = 5
      /\ B[1] = Get("captain", "probe", TRUE) /\ B[2] = Get("captain", "searches", FALSE)
      /\ B[3] = Get("captain", "members", TRUE) /\ B[4] = Get("forwarder", "probe", TRUE)
      /\ B[5] = Get("forwarder", "files", TRUE)
  BY DEF Get, Role
<1>4. /\ L \in Seq(S) /\ Len(L) = Levels
      /\ \A k \in 1..Levels : L[k] = Get("master", "fixup", TRUE)
  <2>1. Get("master", "fixup", TRUE) \in S
    BY DEF Get, Role
  <2> HIDE DEF S
  <2> QED BY <1>1, <2>1, Repeated, Zenon
<1>5. Gets = (A \o L) \o B
  BY DEF Gets
<1> HIDE DEF A, L, B, S
<1>6. /\ A \o L \in Seq(S) /\ Len(A \o L) = Levels + 5
      /\ \A k \in 1..5 : (A \o L)[k] = A[k]
      /\ \A k \in 1..Levels : (A \o L)[5 + k] = L[k]
  <2>1. /\ A \o L \in Seq(S) /\ Len(A \o L) = Len(A) + Len(L)
        /\ \A k \in 1..Len(A) : (A \o L)[k] = A[k]
        /\ \A k \in 1..Len(L) : (A \o L)[Len(A) + k] = L[k]
    <3>1. A \in Seq(S) /\ L \in Seq(S)
      BY <1>2, <1>4
    <3> QED BY <3>1
  <2>2. Len(A) + Len(L) = Levels + 5
    BY <1>1, <1>2, <1>4
  <2> QED BY <1>2, <1>4, <2>1, <2>2
<1>7. /\ Gets \in Seq(S) /\ Len(Gets) = Levels + 10
      /\ \A k \in 1..(Levels + 5) : Gets[k] = (A \o L)[k]
      /\ \A k \in 1..5 : Gets[(Levels + 5) + k] = B[k]
  <2>1. /\ Gets \in Seq(S) /\ Len(Gets) = Len(A \o L) + Len(B)
        /\ \A k \in 1..Len(A \o L) : Gets[k] = (A \o L)[k]
        /\ \A k \in 1..Len(B) : Gets[Len(A \o L) + k] = B[k]
    <3>1. /\ (A \o L) \o B \in Seq(S) /\ Len((A \o L) \o B) = Len(A \o L) + Len(B)
          /\ \A k \in 1..Len(A \o L) : ((A \o L) \o B)[k] = (A \o L)[k]
          /\ \A k \in 1..Len(B) : ((A \o L) \o B)[Len(A \o L) + k] = B[k]
      <4>1. A \o L \in Seq(S) /\ B \in Seq(S)
        BY <1>3, <1>6
      <4> QED BY <4>1
    <3> QED BY <1>5, <3>1
  <2>2. Len(A \o L) + Len(B) = Levels + 10
    BY <1>1, <1>3, <1>6
  <2> QED BY <1>3, <1>6, <2>1, <2>2
<1>8. DOMAIN Gets = 1..(Levels + 10)
  BY <1>7
<1>9. \A k \in 1..5 : Gets[k] = A[k]
  <2> SUFFICES ASSUME NEW k \in 1..5 PROVE Gets[k] = A[k]
    OBVIOUS
  <2>1. k \in 1..(Levels + 5)
    BY <1>1
  <2> QED BY <1>6, <1>7, <2>1
<1>10. \A k \in 6..(Levels + 5) : Gets[k] = Get("master", "fixup", TRUE)
  <2> SUFFICES ASSUME NEW k \in 6..(Levels + 5)
               PROVE  Gets[k] = Get("master", "fixup", TRUE)
    OBVIOUS
  <2>1. k - 5 \in 1..Levels /\ 5 + (k - 5) = k /\ k \in 1..(Levels + 5)
    BY <1>1
  <2>2. (A \o L)[k] = L[k - 5]
    BY <1>6, <2>1
  <2>3. Gets[k] = (A \o L)[k]
    BY <1>7, <2>1
  <2> QED BY <1>4, <2>1, <2>2, <2>3
<1>11. /\ Gets[Levels + 6] = B[1] /\ Gets[Levels + 7] = B[2] /\ Gets[Levels + 8] = B[3]
       /\ Gets[Levels + 9] = B[4] /\ Gets[Levels + 10] = B[5]
  <2>1. /\ (Levels + 5) + 1 = Levels + 6 /\ (Levels + 5) + 2 = Levels + 7
        /\ (Levels + 5) + 3 = Levels + 8
        /\ (Levels + 5) + 4 = Levels + 9 /\ (Levels + 5) + 5 = Levels + 10
    BY <1>1
  <2>2. /\ Gets[(Levels + 5) + 1] = B[1] /\ Gets[(Levels + 5) + 2] = B[2]
        /\ Gets[(Levels + 5) + 3] = B[3]
        /\ Gets[(Levels + 5) + 4] = B[4] /\ Gets[(Levels + 5) + 5] = B[5]
    BY <1>7
  <2> QED BY <2>1, <2>2
<1>12. \A k \in {1, 2, 3, 4, 5} : Gets[k] = A[k]
  BY <1>9
<1>13. /\ Gets[1] = Get("license", "probe", TRUE) /\ Gets[2] = Get("license", "pools", FALSE)
       /\ Gets[3] = Get("master", "probe", TRUE) /\ Gets[4] = Get("master", "indexes", TRUE)
       /\ Gets[5] = Get("master", "peers", TRUE)
  BY <1>2, <1>12
<1>14. /\ Gets[Levels + 6] = Get("captain", "probe", TRUE)
       /\ Gets[Levels + 7] = Get("captain", "searches", FALSE)
       /\ Gets[Levels + 8] = Get("captain", "members", TRUE)
       /\ Gets[Levels + 9] = Get("forwarder", "probe", TRUE)
       /\ Gets[Levels + 10] = Get("forwarder", "files", TRUE)
  BY <1>3, <1>11
<1> QED BY <1>1, <1>7, <1>8, <1>10, <1>13, <1>14

LEMMA ProbesAre == Probes = {1, 3, Levels + 6, Levels + 9}
<1> DEFINE P == {1, 3, Levels + 6, Levels + 9}
<1>1. P \subseteq DOMAIN Gets
  BY GetAt
<1>2. \A k \in P : Gets[k].part = "probe"
  BY GetAt DEF Get
<1>3. ASSUME NEW k \in DOMAIN Gets, k \notin P
      PROVE  Gets[k].part # "probe"
  <2>1. k \in 1..(Levels + 10)
    BY GetAt
  <2>2. k \in {2, 4, 5, Levels + 7, Levels + 8, Levels + 10} \/ k \in 6..(Levels + 5)
    BY <1>3, <2>1, GetAt
  <2> QED BY <2>2, GetAt DEF Get
<1> QED BY <1>1, <1>2, <1>3 DEF Probes

LEMMA MinIs ==
  ASSUME NEW S \in SUBSET Nat, NEW m \in S, \A x \in S : m <= x
  PROVE  Min(S) = m
<1>1. ASSUME NEW n \in S, \A x \in S : n <= x
      PROVE  n = m
  <2>1. n <= m /\ m <= n /\ n \in Nat /\ m \in Nat
    BY <1>1
  <2> QED BY <2>1
<1> QED BY <1>1, Zenon DEF Min

\* Where a failed probe leads: what it leaves out is of its own role.
LEMMA NextRoleOK ==
  ASSUME NEW k \in Probes
  PROVE  /\ NextRole(k) \in (k + 1)..(Len(Gets) + 1)
         /\ NextRole(k) \in DOMAIN Gets => NextRole(k) \in Probes
         /\ \A l \in DOMAIN Gets : k < l /\ l < NextRole(k) => Gets[l].role = Gets[k].role
<1> DEFINE S == {l \in Probes : l > k} \union {Len(Gets) + 1}
<1>1. Levels \in Nat /\ Probes = {1, 3, Levels + 6, Levels + 9} /\ Len(Gets) + 1 = Levels + 11
      /\ DOMAIN Gets = 1..(Levels + 10)
  BY GetAt, ProbesAre
<1>2. S \in SUBSET Nat
  BY <1>1
<1>3. CASE k = 1
  <2>1. 3 \in S /\ \A x \in S : 3 <= x
    BY <1>1, <1>3
  <2>2. NextRole(k) = 3
    BY <1>2, <2>1, MinIs DEF NextRole
  <2>3. \A l \in DOMAIN Gets : k < l /\ l < 3 => l = 2
    BY <1>1, <1>3
  <2> QED BY <1>1, <1>3, <2>2, <2>3, GetAt DEF Get
<1>4. CASE k = 3
  <2>1. Levels + 6 \in S /\ \A x \in S : Levels + 6 <= x
    BY <1>1, <1>4
  <2>2. NextRole(k) = Levels + 6
    BY <1>2, <2>1, MinIs DEF NextRole
  <2>3. \A l \in DOMAIN Gets : k < l /\ l < Levels + 6 => l \in {4, 5} \/ l \in 6..(Levels + 5)
    BY <1>1, <1>4
  <2>4. \A l \in DOMAIN Gets : k < l /\ l < Levels + 6 => Gets[l].role = "master"
    BY <2>3, GetAt DEF Get
  <2>5. Gets[3].role = "master"
    BY GetAt DEF Get
  <2> QED BY <1>1, <1>4, <2>2, <2>4, <2>5
<1>5. CASE k = Levels + 6
  <2>1. Levels + 9 \in S /\ \A x \in S : Levels + 9 <= x
    BY <1>1, <1>5
  <2>2. NextRole(k) = Levels + 9
    BY <1>2, <2>1, MinIs DEF NextRole
  <2>3. \A l \in DOMAIN Gets : k < l /\ l < Levels + 9 => l \in {Levels + 7, Levels + 8}
    BY <1>1, <1>5
  <2> QED BY <1>1, <1>5, <2>2, <2>3, GetAt DEF Get
<1>6. CASE k = Levels + 9
  <2>1. Levels + 11 \in S /\ \A x \in S : Levels + 11 <= x
    BY <1>1, <1>6
  <2>2. NextRole(k) = Levels + 11
    BY <1>2, <2>1, MinIs DEF NextRole
  <2>3. \A l \in DOMAIN Gets : k < l /\ l < Levels + 11 => l = Levels + 10
    BY <1>1, <1>6
  <2> QED BY <1>1, <1>6, <2>2, <2>3, GetAt DEF Get
<1> QED BY <1>1, <1>3, <1>4, <1>5, <1>6

\* What follows a GET that is answered is of the same role, or a probe; the searches are
\* followed by the members, and the members by a probe.
LEMMA NextGet ==
  ASSUME NEW k \in DOMAIN Gets
  PROVE  /\ k + 1 \in 1..(Len(Gets) + 1)
         /\ k + 1 \in DOMAIN Gets => k + 1 \in Probes \/ Gets[k + 1].role = Gets[k].role
         /\ k \notin Probes =>
              /\ ~Gets[k].own => Gets[k].part \in {"pools", "searches"}
              /\ Gets[k].part = "pools" => Gets[k].role = "license"
              /\ Gets[k].part = "searches" => Gets[k].role = "captain"
              /\ Gets[k].part = "searches"
                   => k + 1 \in DOMAIN Gets /\ Gets[k + 1].part = "members"
              /\ Gets[k].part = "members" => Gets[k].role = "captain" /\ Gets[k].own
              /\ Gets[k].role = "license" => k - 1 \in Probes
         /\ k \in Probes => Gets[k].own /\ Gets[k].part # "members"
         /\ Gets[k].role \in Role
<1>1. /\ Levels \in Nat /\ DOMAIN Gets = 1..(Levels + 10) /\ Len(Gets) + 1 = Levels + 11
      /\ Probes = {1, 3, Levels + 6, Levels + 9}
  BY GetAt, ProbesAre
<1>2. k \in 1..(Levels + 10)
  BY <1>1
<1>3. \/ k \in {1, 2, 3, 4, 5}
      \/ k \in 6..(Levels + 5)
      \/ k \in {Levels + 6, Levels + 7, Levels + 8, Levels + 9, Levels + 10}
  BY <1>1, <1>2
<1>4. CASE k \in {1, 2, 3, 4}
  <2>1. k + 1 \in {2, 3, 4, 5}
    BY <1>4
  <2> QED BY <1>1, <1>4, <2>1, GetAt DEF Get, Role
<1>5. CASE k = 5 \/ k \in 6..(Levels + 5)
  <2>1. k + 1 \in 6..(Levels + 5) \/ k + 1 = Levels + 6
    BY <1>1, <1>5
  <2>2. Gets[k].role = "master" /\ Gets[k].part \in {"peers", "fixup"} /\ Gets[k].own
    BY <1>5, GetAt DEF Get
  <2>3. k + 1 \in Probes \/ Gets[k + 1].role = "master"
    BY <1>1, <2>1, GetAt DEF Get
  <2>4. k \notin Probes
    BY <1>1, <1>5
  <2>5. k + 1 \in 1..(Len(Gets) + 1)
    BY <1>1, <1>2
  <2> QED BY <2>2, <2>3, <2>4, <2>5 DEF Role
<1>6. CASE k \in {Levels + 6, Levels + 7, Levels + 8, Levels + 9, Levels + 10}
  <2>1. k + 1 \in 1..(Len(Gets) + 1)
    BY <1>1, <1>2
  <2>2. CASE k = Levels + 6
    <3>1. k + 1 = Levels + 7 /\ k \in Probes
      BY <1>1, <2>2
    <3> QED BY <2>1, <2>2, <3>1, GetAt DEF Get, Role
  <2>3. CASE k = Levels + 7
    <3>1. k + 1 = Levels + 8 /\ k \notin Probes /\ k + 1 \in DOMAIN Gets
      BY <1>1, <2>3
    <3> QED BY <2>1, <2>3, <3>1, GetAt DEF Get, Role
  <2>4. CASE k = Levels + 8
    <3>1. k + 1 = Levels + 9 /\ k \notin Probes /\ k + 1 \in Probes
      BY <1>1, <2>4
    <3> QED BY <2>1, <2>4, <3>1, GetAt DEF Get, Role
  <2>5. CASE k = Levels + 9
    <3>1. k + 1 = Levels + 10 /\ k \in Probes
      BY <1>1, <2>5
    <3> QED BY <2>1, <2>5, <3>1, GetAt DEF Get, Role
  <2>6. CASE k = Levels + 10
    <3>1. k + 1 \notin DOMAIN Gets /\ k \notin Probes
      BY <1>1, <2>6
    <3> QED BY <2>1, <2>6, <3>1, GetAt DEF Get, Role
  <2> QED BY <1>6, <2>2, <2>3, <2>4, <2>5, <2>6
<1> QED BY <1>3, <1>4, <1>5, <1>6

-----------------------------------------------------------------------------
(* The parts of roles.                                                     *)

LEMMA PartsGrow ==
  ASSUME NEW rs, NEW qs, rs \subseteq qs
  PROVE  PartsOf(rs) \subseteq PartsOf(qs)
BY DEF PartsOf

LEMMA PartIn ==
  ASSUME NEW k \in DOMAIN Gets \ Probes, NEW rs, Gets[k].role \in rs
  PROVE  Gets[k].part \in PartsOf(rs)
BY DEF PartsOf

\* The searches are a part of the captain's.
LEMMA SearchesIn ==
  ASSUME NEW rs, "captain" \in rs
  PROVE  "searches" \in PartsOf(rs)
<1>1. Levels + 7 \in DOMAIN Gets \ Probes
  BY GetAt, ProbesAre
<1>2. Gets[Levels + 7].role = "captain" /\ Gets[Levels + 7].part = "searches"
  BY GetAt DEF Get
<1> QED BY <1>1, <1>2, PartIn

-----------------------------------------------------------------------------
(* The steps.                                                              *)

LEMMA InitOK == Init => IInv
<1> SUFFICES ASSUME Init PROVE IInv
  OBVIOUS
<1>1. TypeOK
  <2>1. 1 \in 1..(Len(Gets) + 1)
    BY GetAt
  <2> QED BY <2>1 DEF Init, TypeOK, Mode
<1>2. RolesOK /\ SentOK /\ SteadyOK /\ RaisedOK
  BY DEF Init, RolesOK, SentOK, SteadyOK, RaisedOK
<1>3. OnlyRolesHeld /\ HeldReported /\ RaisedExplained
  BY DEF Init, OnlyRolesHeld, HeldReported, RaisedExplained
<1> QED BY <1>1, <1>2, <1>3 DEF IInv

\* The instance changes: what it held all the time shrinks, what it ever held grows.
LEMMA InstanceOK ==
  ASSUME IInv, (\E how \in Mode : ModeChanges(how)) \/ (\E role \in Role : RoleMoves(role))
  PROVE  IInv'
<1>1. /\ UNCHANGED <<pc, at, connect, sent, outcome>>
      /\ held' \subseteq held /\ ever \subseteq ever' /\ ever' \subseteq Role
      /\ changes' \in Nat /\ steady' \in BOOLEAN /\ (steady' => steady /\ mode' = mode)
      /\ mode' \in Mode /\ roles' \subseteq Role
      /\ held' \subseteq roles' /\ (pc # "idle" => roles' \subseteq ever')
  <2>1. CASE \E how \in Mode : ModeChanges(how)
    <3>1. PICK how \in Mode : ModeChanges(how)
      BY <2>1
    <3>2. /\ mode' = how /\ ~steady' /\ steady' \in BOOLEAN /\ changes' = changes + 1
          /\ UNCHANGED <<roles, held, ever>> /\ UNCHANGED <<pc, at, connect, sent, outcome>>
      BY <3>1 DEF ModeChanges
    <3> QED BY <3>2 DEF IInv, TypeOK, RolesOK
  <2>2. CASE \E role \in Role : RoleMoves(role)
    <3>1. PICK role \in Role : RoleMoves(role)
      BY <2>2
    <3>2. /\ roles' \subseteq roles \union {role}
          /\ held' = held \intersect roles' /\ ever' = ever \union roles'
          /\ changes' = changes + 1
          /\ UNCHANGED <<mode, steady>> /\ UNCHANGED <<pc, at, connect, sent, outcome>>
      BY <3>1 DEF RoleMoves
    <3> QED BY <3>2 DEF IInv, TypeOK, RolesOK
  <2> QED BY <2>1, <2>2
<1>2. PartsOf(ever) \subseteq PartsOf(ever') /\ PartsOf(held') \subseteq PartsOf(held)
  BY <1>1, PartsGrow
<1>3. TypeOK'
  BY <1>1 DEF IInv, TypeOK
<1>4. RolesOK' /\ RaisedOK'
  BY <1>1 DEF IInv, RolesOK, RaisedOK
<1>5. SentOK'
  BY <1>1, <1>2 DEF IInv, SentOK
<1>6. SteadyOK'
  BY <1>1 DEF IInv, SteadyOK
<1>7. OnlyRolesHeld' /\ HeldReported' /\ RaisedExplained'
  BY <1>1, <1>2 DEF IInv, OnlyRolesHeld, HeldReported, RaisedExplained
<1> QED BY <1>3, <1>4, <1>5, <1>6, <1>7 DEF IInv

LEMMA BeginOK ==
  ASSUME IInv, Begin
  PROVE  IInv'
<1>1. 1 \in 1..(Len(Gets) + 1)
  BY GetAt
<1>2. TypeOK'
  BY <1>1 DEF Begin, IInv, TypeOK
<1>3. RolesOK' /\ RaisedOK' /\ SentOK' /\ SteadyOK'
  BY DEF Begin, RolesOK, RaisedOK, SentOK, SteadyOK
<1>4. OnlyRolesHeld' /\ HeldReported' /\ RaisedExplained'
  BY DEF Begin, OnlyRolesHeld, HeldReported, RaisedExplained
<1> QED BY <1>2, <1>3, <1>4 DEF IInv

LEMMA LoginOK ==
  ASSUME IInv, Login \/ LoginFails
  PROVE  IInv'
<1>1. /\ UNCHANGED <<splunkVars, at, sent>> /\ pc = "login"
      /\ connect' \in {"OK", "CRITICAL"}
      /\ \/ pc' = "get" /\ outcome' = outcome
         \/ pc' = "idle" /\ outcome' = "refused"
  BY DEF Login, LoginFails
<1>2. at = 1 /\ sent = {} /\ outcome = "none"
  BY <1>1 DEF IInv, SteadyOK, RaisedOK
<1>3. TypeOK'
  BY <1>1 DEF splunkVars, IInv, TypeOK
<1>4. RolesOK' /\ RaisedOK'
  BY <1>1, <1>2 DEF splunkVars, IInv, RolesOK, RaisedOK
<1>5. SentOK'
  <2>1. 1 \in Probes
    BY ProbesAre
  <2> QED BY <1>1, <1>2, <2>1 DEF SentOK
<1>6. SteadyOK'
  <2>1. 1 \in Probes /\ 1 \in DOMAIN Gets /\ \A k \in DOMAIN Gets : ~(k < 1)
    BY GetAt, ProbesAre
  <2> QED BY <1>1, <1>2, <2>1 DEF SteadyOK
<1>7. OnlyRolesHeld' /\ HeldReported' /\ RaisedExplained'
  BY <1>1, <1>2 DEF OnlyRolesHeld, HeldReported, RaisedExplained
<1> QED BY <1>3, <1>4, <1>5, <1>6, <1>7 DEF IInv

\* The check goes on with the GET at k, or ends behind the last one.
LEMMA GoOnOK ==
  ASSUME IInv, pc = "get", UNCHANGED <<splunkVars, connect>>,
         NEW k \in 1..(Len(Gets) + 1), GoOn(k),
         sent' \subseteq PartsOf(Role),
         sent' \subseteq PartsOf(ever) \union
           (IF k \in DOMAIN Gets /\ Gets[k].part = "members" THEN {"searches"} ELSE {}),
         k \in DOMAIN Gets \ Probes /\ Gets[k].role = "license" => "license" \in ever,
         steady /\ k \in DOMAIN Gets \ Probes => Gets[k].role \in ever,
         steady => \A l \in DOMAIN Gets \ Probes :
                     l < k /\ Gets[l].role \in held => Gets[l].part \in sent'
  PROVE  IInv'
<1>1. /\ at' = k /\ UNCHANGED <<mode, roles, changes, held, ever, steady>> /\ connect' = connect
      /\ outcome = "none"
      /\ \/ k \in DOMAIN Gets /\ pc' = "get" /\ outcome' = "none"
         \/ k \notin DOMAIN Gets /\ pc' = "idle" /\ outcome' = "completed"
  BY DEF GoOn, splunkVars, IInv, RaisedOK
<1>2. TypeOK'
  BY <1>1 DEF IInv, TypeOK
<1>3. RolesOK' /\ RaisedOK'
  BY <1>1 DEF IInv, RolesOK, RaisedOK
<1>4. SentOK'
  BY <1>1 DEF SentOK
<1>5. SteadyOK'
  BY <1>1 DEF SteadyOK
<1>6. OnlyRolesHeld'
  BY <1>1 DEF OnlyRolesHeld
<1>7. HeldReported'
  <2> SUFFICES ASSUME k \notin DOMAIN Gets, steady
               PROVE  PartsOf(held) \subseteq sent'
    BY <1>1 DEF HeldReported
  <2>1. \A l \in DOMAIN Gets : l < k
    BY GetAt
  <2> QED BY <2>1 DEF PartsOf
<1>8. RaisedExplained'
  BY <1>1 DEF RaisedExplained
<1> QED BY <1>2, <1>3, <1>4, <1>5, <1>6, <1>7, <1>8 DEF IInv

\* What the invariant says while the check goes through the GETs.
LEMMA Between ==
  ASSUME IInv, pc = "get"
  PROVE  /\ at \in DOMAIN Gets /\ at \in Nat
         /\ sent \subseteq PartsOf(Role) /\ PartsOf(ever) \subseteq PartsOf(Role)
         /\ held \subseteq roles /\ roles \subseteq ever
         /\ at \in Probes => sent \subseteq PartsOf(ever)
         /\ steady => mode = "up"
<1>1. at \in DOMAIN Gets /\ at \in Nat
  BY GetAt DEF IInv, SteadyOK
<1>2. sent \subseteq PartsOf(Role) /\ PartsOf(ever) \subseteq PartsOf(Role)
  BY PartsGrow DEF IInv, TypeOK
<1>3. held \subseteq roles /\ roles \subseteq ever /\ (steady => mode = "up")
  BY DEF IInv, RolesOK
<1>4. at \in Probes => sent \subseteq PartsOf(ever)
  BY <1>1, NextGet DEF IInv, SentOK
<1> QED BY <1>1, <1>2, <1>3, <1>4

LEMMA ProbeOK ==
  ASSUME IInv, Probe
  PROVE  IInv'
<1>1. /\ pc = "get" /\ at \in Probes /\ HasRole(Gets[at]) /\ GoOn(at + 1)
      /\ UNCHANGED <<splunkVars, connect>> /\ sent' = sent
  BY DEF Probe
<1>2. /\ at + 1 \in 1..(Len(Gets) + 1)
      /\ at + 1 \in DOMAIN Gets => at + 1 \in Probes \/ Gets[at + 1].role = Gets[at].role
      /\ Gets[at].own
  BY <1>1, Between, NextGet
<1>3. steady \/ Gets[at].role = "license" => Gets[at].role \in ever
  BY <1>1, <1>2, Between DEF HasRole, Answered
<1>4. at + 1 \in DOMAIN Gets \ Probes /\ Gets[at + 1].role = "license" => "license" \in ever
  BY <1>2, <1>3
<1>5. steady /\ at + 1 \in DOMAIN Gets \ Probes => Gets[at + 1].role \in ever
  BY <1>2, <1>3
<1>6. sent' \subseteq PartsOf(Role) /\ sent' \subseteq PartsOf(ever)
  BY <1>1, Between
<1>7. ASSUME steady, NEW l \in DOMAIN Gets \ Probes, l < at + 1, Gets[l].role \in held
      PROVE  Gets[l].part \in sent'
  <2>1. l < at
    <3>1. l # at /\ l \in Nat /\ at \in Nat
      BY <1>1, Between, GetAt
    <3> QED BY <1>7, <3>1
  <2> QED BY <1>1, <1>7, <2>1 DEF IInv, SteadyOK
<1> QED BY <1>1, <1>2, <1>4, <1>5, <1>6, <1>7, GoOnOK

LEMMA ProbeFailsOK ==
  ASSUME IInv, ProbeFails
  PROVE  IInv'
<1> DEFINE k == NextRole(at)
<1>1. /\ pc = "get" /\ at \in Probes /\ ~HasRole(Gets[at]) /\ GoOn(k)
      /\ UNCHANGED <<splunkVars, connect>> /\ sent' = sent
  BY DEF ProbeFails
<1>2. /\ k \in (at + 1)..(Len(Gets) + 1) /\ (k \in DOMAIN Gets => k \in Probes)
      /\ \A l \in DOMAIN Gets : at < l /\ l < k => Gets[l].role = Gets[at].role
  BY <1>1, NextRoleOK
<1> HIDE DEF k
<1>3. k \in 1..(Len(Gets) + 1)
  BY <1>1, <1>2, Between, GetAt
<1>4. sent' \subseteq PartsOf(Role) /\ sent' \subseteq PartsOf(ever)
  BY <1>1, Between
<1>5. ASSUME steady, NEW l \in DOMAIN Gets \ Probes, l < k, Gets[l].role \in held
      PROVE  Gets[l].part \in sent'
  <2>1. Gets[at].role \notin held
    BY <1>1, <1>5, Between DEF HasRole, Answered
  <2>2. ~(at < l)
    BY <1>2, <1>5, <2>1
  <2>3. l < at
    <3>1. l # at /\ l \in Nat /\ at \in Nat
      BY <1>1, Between, GetAt
    <3> QED BY <2>2, <3>1
  <2> QED BY <1>1, <1>5, <2>3 DEF IInv, SteadyOK
<1> QED BY <1>1, <1>2, <1>3, <1>4, <1>5, GoOnOK

LEMMA FetchOK ==
  ASSUME IInv, Fetch
  PROVE  IInv'
<1>1. /\ pc = "get" /\ at \in DOMAIN Gets \ Probes /\ Answered(Gets[at]) /\ GoOn(at + 1)
      /\ UNCHANGED <<splunkVars, connect>> /\ sent' = sent \union {Gets[at].part}
  BY Between DEF Fetch
<1>2. /\ at + 1 \in 1..(Len(Gets) + 1)
      /\ at + 1 \in DOMAIN Gets => at + 1 \in Probes \/ Gets[at + 1].role = Gets[at].role
      /\ Gets[at].part = "searches" => at + 1 \in DOMAIN Gets /\ Gets[at + 1].part = "members"
      /\ ~Gets[at].own => Gets[at].part \in {"pools", "searches"}
      /\ Gets[at].part = "pools" => Gets[at].role = "license"
      /\ Gets[at].part = "members" => Gets[at].role = "captain" /\ Gets[at].own
      /\ Gets[at].role \in Role
  BY <1>1, NextGet
<1>3. Gets[at].own => Gets[at].role \in ever
  BY <1>1, Between DEF Answered
<1>4. Gets[at].role = "license" => "license" \in ever
  BY <1>1 DEF IInv, SentOK
<1>5. Gets[at].part \in PartsOf(ever) \/ Gets[at].part = "searches"
  <2>1. Gets[at].role \in ever \/ Gets[at].part = "searches"
    BY <1>2, <1>3, <1>4
  <2> QED BY <1>1, <2>1, PartIn
<1>6. sent \subseteq PartsOf(ever)
  <2>1. CASE Gets[at].part = "members"
    <3>1. "captain" \in ever
      BY <1>2, <1>3, <2>1
    <3>2. sent \subseteq PartsOf(ever) \union {"searches"}
      BY <1>1 DEF IInv, SentOK
    <3> QED BY <3>1, <3>2, SearchesIn
  <2>2. CASE Gets[at].part # "members"
    BY <1>1, <2>2 DEF IInv, SentOK
  <2> QED BY <2>1, <2>2
<1>7. sent' \subseteq PartsOf(Role)
  <2>1. Gets[at].part \in PartsOf(Role)
    BY <1>1, <1>2, PartIn
  <2> QED BY <1>1, <2>1, Between
<1>8. sent' \subseteq PartsOf(ever) \union
        (IF at + 1 \in DOMAIN Gets /\ Gets[at + 1].part = "members" THEN {"searches"} ELSE {})
  BY <1>1, <1>2, <1>5, <1>6
<1>9. at + 1 \in DOMAIN Gets \ Probes /\ Gets[at + 1].role = "license" => "license" \in ever
  BY <1>2, <1>4
<1>10. steady /\ at + 1 \in DOMAIN Gets \ Probes => Gets[at + 1].role \in ever
  BY <1>1, <1>2 DEF IInv, SteadyOK
<1>11. ASSUME steady, NEW l \in DOMAIN Gets \ Probes, l < at + 1, Gets[l].role \in held
       PROVE  Gets[l].part \in sent'
  <2>1. l < at \/ l = at
    <3>1. l \in Nat /\ at \in Nat
      BY <1>1, Between, GetAt
    <3> QED BY <1>11, <3>1
  <2>2. CASE l = at
    BY <1>1, <2>2
  <2>3. CASE l < at
    BY <1>1, <1>11, <2>3 DEF IInv, SteadyOK
  <2> QED BY <2>1, <2>2, <2>3
<1> QED BY <1>1, <1>2, <1>7, <1>8, <1>9, <1>10, <1>11, GoOnOK

LEMMA FetchFailsOK ==
  ASSUME IInv, FetchFails
  PROVE  IInv'
<1>1. /\ pc = "get" /\ at \in DOMAIN Gets \ Probes /\ ~Answered(Gets[at])
      /\ outcome' = "raised" /\ pc' = "idle"
      /\ UNCHANGED <<mode, roles, changes, held, ever, steady>> /\ UNCHANGED <<at, connect, sent>>
  BY Between DEF FetchFails, splunkVars
<1>2. TypeOK'
  BY <1>1 DEF IInv, TypeOK
<1>3. RolesOK' /\ RaisedOK' /\ SentOK' /\ SteadyOK'
  BY <1>1 DEF IInv, RolesOK, RaisedOK, SentOK, SteadyOK
<1>4. OnlyRolesHeld' /\ HeldReported'
  BY <1>1 DEF OnlyRolesHeld, HeldReported
<1>5. RaisedExplained'
  <2> SUFFICES ASSUME steady PROVE Gets[at].role \in ever \ held
    BY <1>1 DEF RaisedExplained
  <2>1. Gets[at].role \in ever
    BY <1>1 DEF IInv, SteadyOK
  <2>2. Gets[at].role \notin roles
    BY <1>1, Between DEF Answered
  <2> QED BY <1>1, <2>1, <2>2, Between
<1> QED BY <1>2, <1>3, <1>4, <1>5 DEF IInv

LEMMA NextOK ==
  ASSUME IInv, [Next]_vars
  PROVE  IInv'
<1>1. CASE (\E how \in Mode : ModeChanges(how)) \/ (\E role \in Role : RoleMoves(role))
  BY <1>1, InstanceOK
<1>2. CASE Begin
  BY <1>2, BeginOK
<1>3. CASE Login \/ LoginFails
  BY <1>3, LoginOK
<1>4. CASE Probe
  BY <1>4, ProbeOK
<1>5. CASE ProbeFails
  BY <1>5, ProbeFailsOK
<1>6. CASE Fetch
  BY <1>6, FetchOK
<1>7. CASE FetchFails
  BY <1>7, FetchFailsOK
<1>8. CASE UNCHANGED vars
  BY <1>8 DEF vars, IInv, TypeOK, RolesOK, SentOK, SteadyOK, RaisedOK, OnlyRolesHeld,
              HeldReported, RaisedExplained
<1> QED BY <1>1, <1>2, <1>3, <1>4, <1>5, <1>6, <1>7, <1>8 DEF Next, CheckStep

-----------------------------------------------------------------------------
(* The theorems.                                                           *)

\* The inductive invariant holds in every reachable state.
THEOREM Invariance == Spec => []IInv
<1>1. IInv /\ [Next]_vars => IInv'
  BY NextOK
<1> QED BY <1>1, InitOK, PTL DEF Spec

\* Every variable keeps its type, for any number of levels.
THEOREM TypeCorrect == Spec => []TypeOK
<1>1. IInv => TypeOK
  BY DEF IInv
<1> QED BY <1>1, Invariance, PTL

\* A check that ends without an exception sent nothing of a role the instance never had.
THEOREM OnlyRolesHeldHolds == Spec => []OnlyRolesHeld
<1>1. IInv => OnlyRolesHeld
  BY DEF IInv
<1> QED BY <1>1, Invariance, PTL

\* Such a check of an instance that answers sends everything of the roles it has all the
\* time, however the other roles move between the GETs.
THEOREM HeldReportedHolds == Spec => []HeldReported
<1>1. IInv => HeldReported
  BY DEF IInv
<1> QED BY <1>1, Invariance, PTL

\* A check of an instance that answers raises only on a role that it had and lost.
THEOREM RaisedExplainedHolds == Spec => []RaisedExplained
<1>1. IInv => RaisedExplained
  BY DEF IInv
<1> QED BY <1>1, Invariance, PTL
=============================================================================
