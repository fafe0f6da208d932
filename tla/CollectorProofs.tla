--------------------------- MODULE CollectorProofs ---------------------------
(***************************************************************************)
(* Theorems about S3Object and OutdatedPackages, and about their           *)
(* composition under the collector's one thread, for any number of         *)
(* objects, pages of any size, any number of instances, packages and       *)
(* versions, and every schedule.                                           *)
(***************************************************************************)
EXTENDS Collector, FiniteSetTheorems, TLAPS

-----------------------------------------------------------------------------
(* S3: pages.                                                              *)

\* S3Object counts as this module does.
LEMMA S3Counts == \A S : S3!Cardinality(S) = Cardinality(S)
BY DEF S3!Cardinality, Cardinality

\* There are finitely many objects.
LEMMA S3ObjectsFinite ==
  ASSUME NEW S, S \subseteq S3!Object
  PROVE  IsFiniteSet(S)
<1>1. IsFiniteSet(S3!Object)
  BY KeysAssumption, FS_Interval DEF S3!Object
<1> QED BY <1>1, FS_Subset

\* A page has no gaps: what is behind the marker, and before something of the page, is of it.
LEMMA S3PageHasNoGaps ==
  ASSUME S3!TypeOK, NEW marker \in 0..Keys, NEW p \in S3!Contents(marker),
         NEW o \in S3!Behind(marker), o <= p
  PROVE  o \in S3!Contents(marker)
<1> DEFINE Before(q) == {b \in S3!Behind(marker) : b <= q}
<1>1. o \in Nat /\ p \in Nat /\ S3!Behind(marker) \subseteq Nat
  <2>1. bucket \subseteq Nat
    BY KeysAssumption DEF S3!TypeOK, S3!Object
  <2>2. o \in bucket /\ p \in bucket
    BY DEF S3!Behind, S3!Contents
  <2> QED BY <2>1, <2>2 DEF S3!Behind
<1>2. Before(o) \subseteq Before(p)
  BY <1>1
<1>3. Before(p) \subseteq S3!Object
  BY DEF S3!TypeOK, S3!Behind
<1>4. IsFiniteSet(Before(p)) /\ IsFiniteSet(Before(o))
  BY <1>2, <1>3, S3ObjectsFinite
<1>5. Cardinality(Before(o)) <= Cardinality(Before(p))
  BY <1>2, <1>4, FS_Subset
<1>6. Cardinality(Before(o)) \in Nat /\ Cardinality(Before(p)) \in Nat
  BY <1>4, FS_CardinalityType
<1>7. Cardinality(Before(p)) <= PageSize
  BY S3Counts DEF S3!Contents
<1>8. Cardinality(Before(o)) <= PageSize
  BY <1>5, <1>6, <1>7, PageAssumption
<1> QED BY <1>8, S3Counts DEF S3!Contents

\* What the marker of a reply promises: up to it nothing was left out.
LEMMA S3MarkerOK ==
  ASSUME S3!TypeOK, NEW marker \in 0..Keys, NEW next \in S3!Markers(marker)
  PROVE  /\ next \in 0..Keys
         /\ \A o \in bucket : o <= next => o <= marker \/ o \in S3!Contents(marker)
<1>1. bucket \subseteq Nat /\ S3!Contents(marker) \subseteq bucket
      /\ S3!Object \subseteq 0..Keys
  BY KeysAssumption DEF S3!TypeOK, S3!Object, S3!Contents, S3!Behind
<1>2. CASE service.echo
  BY <1>2 DEF S3!Markers
<1>3. CASE ~service.echo
  <2>1. next \in S3!Contents(marker)
    BY <1>3 DEF S3!Markers
  <2>2. next \in 0..Keys
    BY <1>1, <2>1 DEF S3!TypeOK
  <2>3. ASSUME NEW o \in bucket, o <= next, ~(o <= marker)
        PROVE  o \in S3!Contents(marker)
    <3>1. o \in S3!Behind(marker)
      BY <1>1, <2>3, KeysAssumption DEF S3!Behind
    <3> QED BY <2>1, <2>3, <3>1, S3PageHasNoGaps
  <2> QED BY <2>2, <2>3
<1> QED BY <1>2, <1>3

-----------------------------------------------------------------------------
(* S3: the invariant.                                                      *)

LEMMA S3InitOK == S3!Init => S3!IInv
<1> SUFFICES ASSUME S3!Init PROVE S3!IInv
  OBVIOUS
<1>1. S3!TypeOK
  <2>1. service \in [up : BOOLEAN, echo : BOOLEAN, omits : BOOLEAN]
    BY DEF S3!Init
  <2>2. listing \in [on : BOOLEAN, marker : 0..Keys, objects : SUBSET S3!Object, safe : BOOLEAN]
    BY KeysAssumption DEF S3!Init, S3!NotListing
  <2>3. verdict \in [status : {"none", "OK", "CRITICAL"}, raised : BOOLEAN, safe : BOOLEAN]
    BY DEF S3!Init
  <2> QED BY <2>1, <2>2, <2>3 DEF S3!Init, S3!TypeOK
<1>2. S3!ListingOK /\ S3!CriticalMeansMissing /\ S3!OkMeansThere
  BY DEF S3!Init, S3!ListingOK, S3!CriticalMeansMissing, S3!OkMeansThere, S3!Busy, S3!NotListing
<1> QED BY <1>1, <1>2 DEF S3!IInv

LEMMA S3EnvironmentOK ==
  ASSUME S3!IInv, S3!Environment
  PROVE  S3!IInv'
<1>1. CASE \E o \in S3!Object : S3!Change(o)
  <2>1. UNCHANGED <<service, late, S3!s3Vars>> /\ incidents' = incidents + 1
    BY <1>1 DEF S3!Change
  <2>2. bucket' \subseteq S3!Object
    BY <1>1 DEF S3!Change, S3!IInv, S3!TypeOK
  <2>3. stayed' = stayed \intersect bucket' /\ seen' = seen \union bucket'
    BY <1>1 DEF S3!Change
  <2>4. S3!TypeOK'
    BY <2>1, <2>2, <2>3 DEF S3!s3Vars, S3!IInv, S3!TypeOK
  <2>5. S3!ListingOK'
    BY <2>1, <2>3 DEF S3!s3Vars, S3!IInv, S3!ListingOK, S3!Busy
  <2>6. S3!CriticalMeansMissing' /\ S3!OkMeansThere'
    BY <2>1, <2>3 DEF S3!s3Vars, S3!IInv, S3!CriticalMeansMissing, S3!OkMeansThere,
        S3!Reported, S3!Busy
  <2> QED BY <2>4, <2>5, <2>6 DEF S3!IInv
<1>2. CASE S3!Toggle \/ S3!Rotate \/ S3!SLAPasses
  <2>1. UNCHANGED <<bucket, listing, verdict, stayed, seen>>
    BY <1>2 DEF S3!Toggle, S3!Rotate, S3!SLAPasses, S3!s3Vars
  <2>2. S3!TypeOK'
    <3>1. incidents' \in Nat
      BY <1>2 DEF S3!Toggle, S3!Rotate, S3!SLAPasses, S3!IInv, S3!TypeOK
    <3>2. service' \in [up : BOOLEAN, echo : BOOLEAN, omits : BOOLEAN]
      BY <1>2 DEF S3!Toggle, S3!Rotate, S3!SLAPasses, S3!IInv, S3!TypeOK
    <3>3. client' \in {"none", "valid", "revoked"} /\ late' \in BOOLEAN
      BY <1>2 DEF S3!Toggle, S3!Rotate, S3!SLAPasses, S3!s3Vars, S3!IInv, S3!TypeOK
    <3> QED BY <2>1, <3>1, <3>2, <3>3 DEF S3!IInv, S3!TypeOK
  <2>3. S3!ListingOK' /\ S3!CriticalMeansMissing' /\ S3!OkMeansThere'
    BY <2>1 DEF S3!IInv, S3!ListingOK, S3!CriticalMeansMissing, S3!OkMeansThere, S3!Reported,
        S3!Busy
  <2> QED BY <2>2, <2>3 DEF S3!IInv
<1> QED BY <1>1, <1>2 DEF S3!Environment

LEMMA S3StartOK ==
  ASSUME S3!IInv, S3!Start
  PROVE  S3!IInv'
<1>1. listing' = [on |-> TRUE, marker |-> 0, objects |-> {}, safe |-> ~late]
  BY DEF S3!Start
<1>2. S3!TypeOK'
  BY <1>1, KeysAssumption DEF S3!Start, S3!get_client, S3!IInv, S3!TypeOK
<1>3. S3!ListingOK'
  <2>1. \A o \in stayed' : ~(o <= 0)
    BY KeysAssumption DEF S3!Start, S3!IInv, S3!TypeOK, S3!Object
  <2> QED BY <1>1, <2>1 DEF S3!Start, S3!ListingOK, S3!Busy
<1>4. S3!CriticalMeansMissing' /\ S3!OkMeansThere'
  BY <1>1 DEF S3!CriticalMeansMissing, S3!OkMeansThere, S3!Reported, S3!Busy
<1> QED BY <1>2, <1>3, <1>4 DEF S3!IInv

LEMMA S3ListPageOK ==
  ASSUME S3!IInv, S3!ListPage
  PROVE  S3!IInv'
<1>1. S3!Busy /\ UNCHANGED <<incidents, bucket, service, late, client, verdict, stayed, seen>>
  BY DEF S3!ListPage, S3!Answered
<1>2. listing.marker \in 0..Keys
  BY DEF S3!IInv, S3!TypeOK
<1>3. PICK marker \in S3!Markers(listing.marker) :
        listing' = [listing EXCEPT !.objects = @ \union S3!Contents(listing.marker),
                                   !.marker = marker]
  BY DEF S3!ListPage
<1>4. /\ marker \in 0..Keys
      /\ \A o \in bucket : o <= marker => o <= listing.marker
                                          \/ o \in S3!Contents(listing.marker)
  BY <1>2, S3MarkerOK DEF S3!IInv
<1>5. S3!Contents(listing.marker) \subseteq bucket
  BY DEF S3!Contents, S3!Behind
<1>6. S3!TypeOK'
  BY <1>1, <1>3, <1>4, <1>5 DEF S3!IInv, S3!TypeOK
<1>7. listing'.on /\ listing'.marker = marker
      /\ listing'.objects = listing.objects \union S3!Contents(listing.marker)
  BY <1>1, <1>3 DEF S3!IInv, S3!TypeOK, S3!Busy
<1>8. S3!ListingOK'
  BY <1>1, <1>4, <1>5, <1>7 DEF S3!IInv, S3!ListingOK, S3!Busy
<1>9. S3!CriticalMeansMissing' /\ S3!OkMeansThere'
  BY <1>7 DEF S3!CriticalMeansMissing, S3!OkMeansThere, S3!Reported, S3!Busy
<1> QED BY <1>6, <1>8, <1>9 DEF S3!IInv

\* On the last page, everything is found that was there all the time, and nothing else that
\* was not there at some time.
LEMMA S3FoundOK ==
  ASSUME S3!IInv, S3!Busy, ~S3!IsTruncated(listing.marker)
  PROVE  stayed \subseteq S3!Found /\ S3!Found \subseteq seen
<1>1. S3!Contents(listing.marker) = {o \in bucket : o > listing.marker}
  BY DEF S3!IsTruncated, S3!Behind
<1>2. \A o \in stayed : o \in Nat /\ listing.marker \in Nat
  BY KeysAssumption DEF S3!IInv, S3!TypeOK, S3!Object
<1>3. \A o \in stayed : o <= listing.marker \/ o > listing.marker
  BY <1>2
<1> QED BY <1>1, <1>3 DEF S3!IInv, S3!ListingOK, S3!Found

LEMMA S3ListLastOK ==
  ASSUME S3!IInv, S3!ListLast
  PROVE  S3!IInv'
<1>1. S3!Busy /\ ~S3!IsTruncated(listing.marker)
  BY DEF S3!ListLast, S3!Answered
<1>2. /\ listing' = S3!NotListing
      /\ UNCHANGED <<incidents, bucket, service, late, client, stayed, seen>>
      /\ verdict' = [status |-> IF S3!Safe THEN "OK" ELSE "CRITICAL", raised |-> FALSE,
                     safe |-> listing.safe]
  BY DEF S3!ListLast
<1>3. S3!TypeOK'
  BY <1>2, KeysAssumption DEF S3!NotListing, S3!IInv, S3!TypeOK
<1>4. S3!ListingOK'
  BY <1>2 DEF S3!NotListing, S3!ListingOK, S3!Busy
<1>5. stayed \subseteq S3!Found /\ S3!Found \subseteq seen
  BY <1>1, S3FoundOK
<1>6. S3!CriticalMeansMissing' /\ S3!OkMeansThere'
  BY <1>2, <1>5 DEF S3!CriticalMeansMissing, S3!OkMeansThere, S3!Safe
<1> QED BY <1>3, <1>4, <1>6 DEF S3!IInv

LEMMA S3ListRaisesOK ==
  ASSUME S3!IInv, S3!ListRaises
  PROVE  S3!IInv'
<1>1. /\ listing' = S3!NotListing /\ verdict' = [verdict EXCEPT !.raised = TRUE]
      /\ UNCHANGED <<incidents, bucket, service, late, client, stayed, seen>>
  BY DEF S3!ListRaises
<1>2. verdict'.raised
  BY <1>1 DEF S3!IInv, S3!TypeOK
<1>3. S3!TypeOK'
  <2>1. listing' \in [on : BOOLEAN, marker : 0..Keys, objects : SUBSET S3!Object,
        safe : BOOLEAN]
    BY <1>1, KeysAssumption DEF S3!NotListing
  <2>2. verdict' \in [status : {"none", "OK", "CRITICAL"}, raised : BOOLEAN, safe : BOOLEAN]
    BY <1>1 DEF S3!IInv, S3!TypeOK
  <2> QED BY <1>1, <2>1, <2>2 DEF S3!IInv, S3!TypeOK
<1>4. S3!ListingOK'
  BY <1>1 DEF S3!NotListing, S3!ListingOK, S3!Busy
<1>5. S3!CriticalMeansMissing' /\ S3!OkMeansThere'
  BY <1>2 DEF S3!CriticalMeansMissing, S3!OkMeansThere, S3!Reported
<1> QED BY <1>3, <1>4, <1>5 DEF S3!IInv

LEMMA S3NextOK == S3!IInv /\ [S3!Next]_(S3!vars) => S3!IInv'
<1> SUFFICES ASSUME S3!IInv, [S3!Next]_(S3!vars) PROVE S3!IInv'
  OBVIOUS
<1>1. CASE UNCHANGED S3!vars
  BY <1>1 DEF S3!vars, S3!s3Vars, S3!IInv, S3!TypeOK, S3!ListingOK, S3!CriticalMeansMissing,
      S3!OkMeansThere, S3!Reported, S3!Busy
<1> QED BY <1>1, S3EnvironmentOK, S3StartOK, S3ListPageOK, S3ListLastOK, S3ListRaisesOK
    DEF S3!Next, S3!Step

\* IInv holds in every reachable state.
THEOREM S3Invariance == S3!Spec => []S3!IInv
BY S3InitOK, S3NextOK, PTL DEF S3!Spec

-----------------------------------------------------------------------------
(* S3: the results.                                                        *)

\* The variables have their types.
THEOREM S3TypeCorrect == S3!Spec => []S3!TypeOK
<1>1. S3!IInv => S3!TypeOK
  BY DEF S3!IInv
<1> QED BY <1>1, S3Invariance, PTL

\* An object that fits and is there all the time is never missed, whatever comes and goes
\* between two pages, and whatever the marker is (s3_object_exists.py:87-117).
THEOREM S3CriticalMeansMissingHolds == S3!Spec => []S3!CriticalMeansMissing
<1>1. S3!IInv => S3!CriticalMeansMissing
  BY DEF S3!IInv
<1> QED BY <1>1, S3Invariance, PTL

\* Behind the SLA, OK is never sent for an object that was not there, or does not fit.
THEOREM S3OkMeansThereHolds == S3!Spec => []S3!OkMeansThere
<1>1. S3!IInv => S3!OkMeansThere
  BY DEF S3!IInv
<1> QED BY <1>1, S3Invariance, PTL

-----------------------------------------------------------------------------
(* Packages: a report.                                                     *)

\* A check that leaves, or asks dpkg, changes nothing but query.
LEMMA PackagesQuiet ==
  ASSUME Packages!QueryStatus \/ Packages!NotInstalled \/ Packages!NoSuchPackage
         \/ Packages!QueryVersion
  PROVE  UNCHANGED <<changes, dpkg, last, current, event, settled>>
BY DEF Packages!QueryStatus, Packages!NotInstalled, Packages!NoSuchPackage,
    Packages!QueryVersion, Packages!Leave

\* What a report of the right status, of the version that was read, does.
LEMMA PackagesReportOK ==
  ASSUME Packages!IInv, NEW status \in Packages!Status, query.of # None,
         Packages!Report(status),
         status = Packages!Verdict(query.of, query.version)
  PROVE  Packages!IInv'
<1>1. query.of \in Instance /\ PackageOf[query.of] \in Package
  BY InstanceAssumption DEF Packages!IInv, Packages!TypeOK
<1>2. query' = Packages!NotAsking
  BY DEF Packages!Report
<1>3. Packages!TypeOK'
  <2>1. query' \in [of : Instance \union {None}, version : 1..MaxVersion,
                    doing : {"status", "version", "compare", "unknown"}]
    BY <1>2, VersionAssumption DEF Packages!NotAsking
  <2>2. changes' \in Nat
        /\ dpkg' \in [Package -> [state : Packages!State, version : 1..MaxVersion]]
    BY DEF Packages!Report, Packages!IInv, Packages!TypeOK
  <2>3. last' \in [Package -> Packages!Status \union {"none"}]
    BY <1>1 DEF Packages!Report, Packages!has_different_status, Packages!package,
        Packages!IInv, Packages!TypeOK
  <2>4. event' \in [Package -> [is : Packages!Status \union {"none"}, odd : BOOLEAN]]
    BY <1>1 DEF Packages!Report, Packages!has_different_status, Packages!EventIf,
        Packages!package, Packages!IInv, Packages!TypeOK
  <2>5. current' \in [Instance -> Packages!Status \union {"none"}]
    BY <1>1 DEF Packages!Report, Packages!IInv, Packages!TypeOK
  <2>6. settled' \subseteq Instance
    BY <1>1 DEF Packages!Report, Packages!IInv, Packages!TypeOK
  <2> QED BY <2>1, <2>2, <2>3, <2>4, <2>5, <2>6 DEF Packages!TypeOK
<1>4. Packages!ReadOK'
  BY <1>2 DEF Packages!ReadOK, Packages!NotAsking
<1>5. Packages!SettledIsRight'
  <2> SUFFICES ASSUME NEW i \in settled'
               PROVE  current'[i] = Packages!Verdict(i, dpkg'[PackageOf[i]].version)
    BY DEF Packages!SettledIsRight, Packages!Verdict
  <2>1. dpkg' = dpkg /\ i \in Instance
    BY <1>3 DEF Packages!Report, Packages!TypeOK
  <2>2. CASE i = query.of
    <3>1. query.version = dpkg[PackageOf[i]].version
      BY <2>2 DEF Packages!Report, Packages!package
    <3>2. current'[i] = status
      BY <2>1, <2>2 DEF Packages!Report, Packages!IInv, Packages!TypeOK
    <3> QED BY <2>1, <2>2, <3>1, <3>2
  <2>3. CASE i # query.of
    <3>1. i \in settled /\ current'[i] = current[i]
      BY <2>1, <2>3 DEF Packages!Report, Packages!IInv, Packages!TypeOK
    <3> QED BY <2>1, <3>1 DEF Packages!IInv, Packages!SettledIsRight
  <2> QED BY <2>2, <2>3
<1>6. Packages!EventTellsLast'
  <2> SUFFICES ASSUME NEW p \in Package
               PROVE  event'[p].is \in {"none", last'[p]}
    BY DEF Packages!EventTellsLast
  <2>1. CASE p = Packages!package
    <3>1. last'[p] = status
      BY <2>1 DEF Packages!Report, Packages!has_different_status, Packages!IInv, Packages!TypeOK
    <3>2. CASE last[p] \notin {"none", status}
      BY <2>1, <3>1, <3>2 DEF Packages!Report, Packages!has_different_status, Packages!EventIf,
          Packages!IInv, Packages!TypeOK
    <3>3. CASE last[p] \in {"none", status}
      BY <2>1, <3>1, <3>3 DEF Packages!Report, Packages!has_different_status, Packages!EventIf,
          Packages!IInv, Packages!EventTellsLast
    <3> QED BY <3>2, <3>3
  <2>2. CASE p # Packages!package
    BY <2>2 DEF Packages!Report, Packages!has_different_status, Packages!EventIf,
        Packages!IInv, Packages!TypeOK, Packages!EventTellsLast
  <2> QED BY <2>1, <2>2
<1> QED BY <1>3, <1>4, <1>5, <1>6 DEF Packages!IInv

\* The comparison gives the right status of the version that was read.
LEMMA PackagesCompareIsVerdict ==
  ASSUME Packages!IInv, Packages!CompareVersions
  PROVE  \E status \in Packages!Status : status = Packages!Verdict(query.of, query.version)
         /\ Packages!Report(status)
BY DEF Packages!CompareVersions, Packages!UpToDate, Packages!expected_version,
    Packages!Verdict, Packages!Status, Packages!IInv, Packages!ReadOK

\* So does the branch for a release that the instance does not name.
LEMMA PackagesUnknownIsVerdict ==
  ASSUME Packages!IInv, Packages!UnknownRelease
  PROVE  \E status \in Packages!Status : status = Packages!Verdict(query.of, query.version)
         /\ Packages!Report(status)
BY DEF Packages!UnknownRelease, Packages!Verdict, Packages!Status, Packages!IInv,
    Packages!ReadOK

-----------------------------------------------------------------------------
(* Packages: the invariant.                                                *)

LEMMA PackagesInitOK == Packages!Init => Packages!IInv
<1> SUFFICES ASSUME Packages!Init PROVE Packages!IInv
  OBVIOUS
<1>1. Packages!TypeOK
  BY VersionAssumption DEF Packages!Init, Packages!TypeOK, Packages!NotAsking
<1>2. Packages!ReadOK /\ Packages!SettledIsRight
  BY DEF Packages!Init, Packages!ReadOK, Packages!SettledIsRight, Packages!NotAsking
<1>3. Packages!EventTellsLast
  BY DEF Packages!Init, Packages!EventTellsLast
<1> QED BY <1>1, <1>2, <1>3 DEF Packages!IInv

LEMMA PackagesChangeOK ==
  ASSUME Packages!IInv, NEW p \in Package, Packages!Change(p)
  PROVE  Packages!IInv'
<1>1. PICK state \in Packages!State, version \in 1..MaxVersion :
        dpkg' = [dpkg EXCEPT ![p] = [state |-> state, version |-> version]]
  BY DEF Packages!Change
<1>2. UNCHANGED <<query, last, current, event>> /\ settled' \subseteq settled
  BY DEF Packages!Change
<1>3. Packages!TypeOK'
  BY <1>1, <1>2 DEF Packages!Change, Packages!IInv, Packages!TypeOK
<1>4. \A i \in settled' : dpkg'[PackageOf[i]] = dpkg[PackageOf[i]]
  BY <1>1, <1>2, InstanceAssumption DEF Packages!Change, Packages!IInv, Packages!TypeOK
<1>5. Packages!ReadOK'
  BY <1>2, <1>4 DEF Packages!IInv, Packages!ReadOK
<1>6. Packages!SettledIsRight'
  BY <1>2, <1>4 DEF Packages!IInv, Packages!SettledIsRight, Packages!Verdict
<1>7. Packages!EventTellsLast'
  BY <1>2 DEF Packages!IInv, Packages!EventTellsLast
<1> QED BY <1>3, <1>5, <1>6, <1>7 DEF Packages!IInv

LEMMA PackagesStartOK ==
  ASSUME Packages!IInv, NEW i \in Instance, Packages!Start(i)
  PROVE  Packages!IInv'
<1>1. Packages!TypeOK'
  BY VersionAssumption DEF Packages!Start, Packages!IInv, Packages!TypeOK
<1>2. Packages!ReadOK'
  BY DEF Packages!Start, Packages!ReadOK
<1>3. Packages!SettledIsRight' /\ Packages!EventTellsLast'
  BY DEF Packages!Start, Packages!IInv, Packages!SettledIsRight, Packages!EventTellsLast,
      Packages!Verdict
<1> QED BY <1>1, <1>2, <1>3 DEF Packages!IInv

LEMMA PackagesQuietOK ==
  ASSUME Packages!IInv, Packages!QueryStatus \/ Packages!NotInstalled
         \/ Packages!NoSuchPackage \/ Packages!QueryVersion
  PROVE  Packages!IInv'
<1>1. UNCHANGED <<changes, dpkg, last, current, event, settled>>
  BY PackagesQuiet
<1>2. Packages!SettledIsRight' /\ Packages!EventTellsLast'
  BY <1>1 DEF Packages!IInv, Packages!SettledIsRight, Packages!EventTellsLast, Packages!Verdict
<1>3. CASE Packages!QueryStatus
  <2>1. query.of \in Instance
    BY <1>3 DEF Packages!QueryStatus, Packages!IInv, Packages!TypeOK
  <2>2. Packages!TypeOK'
    BY <1>1, <1>3 DEF Packages!QueryStatus, Packages!IInv, Packages!TypeOK
  <2>3. Packages!ReadOK'
    BY <1>1, <1>3, <2>1 DEF Packages!QueryStatus, Packages!expected_version, Packages!IInv,
        Packages!TypeOK, Packages!ReadOK
  <2> QED BY <1>2, <2>2, <2>3 DEF Packages!IInv
<1>4. CASE Packages!NotInstalled \/ Packages!NoSuchPackage
  <2>1. query' = Packages!NotAsking
    BY <1>4 DEF Packages!NotInstalled, Packages!NoSuchPackage, Packages!Leave
  <2>2. Packages!TypeOK' /\ Packages!ReadOK'
    BY <1>1, <2>1, VersionAssumption DEF Packages!NotAsking, Packages!IInv, Packages!TypeOK,
        Packages!ReadOK
  <2> QED BY <1>2, <2>2 DEF Packages!IInv
<1>5. CASE Packages!QueryVersion
  <2>1. query.of \in Instance /\ Packages!package \in Package
    BY <1>5, InstanceAssumption DEF Packages!QueryVersion, Packages!package, Packages!IInv,
        Packages!TypeOK
  <2>2. dpkg[Packages!package].version \in 1..MaxVersion
    BY <2>1 DEF Packages!IInv, Packages!TypeOK
  <2>3. Packages!TypeOK'
    BY <1>1, <1>5, <2>2 DEF Packages!QueryVersion, Packages!IInv, Packages!TypeOK
  <2>4. Packages!ReadOK'
    BY <1>1, <1>5, <2>1 DEF Packages!QueryVersion, Packages!package, Packages!IInv,
        Packages!TypeOK, Packages!ReadOK
  <2> QED BY <1>2, <2>3, <2>4 DEF Packages!IInv
<1> QED BY <1>3, <1>4, <1>5

LEMMA PackagesNextOK == Packages!IInv /\ [Packages!Next]_(Packages!vars) => Packages!IInv'
<1> SUFFICES ASSUME Packages!IInv, [Packages!Next]_(Packages!vars) PROVE Packages!IInv'
  OBVIOUS
<1>1. CASE Packages!Environment
  BY <1>1, PackagesChangeOK DEF Packages!Environment
<1>2. CASE \E i \in Instance : Packages!Start(i)
  BY <1>2, PackagesStartOK
<1>3. CASE Packages!QueryStatus \/ Packages!NotInstalled \/ Packages!NoSuchPackage
           \/ Packages!QueryVersion
  BY <1>3, PackagesQuietOK
<1>4. CASE Packages!CompareVersions
  <2>1. query.of # None
    BY <1>4 DEF Packages!CompareVersions
  <2> QED BY <1>4, <2>1, PackagesCompareIsVerdict, PackagesReportOK
<1>5. CASE Packages!UnknownRelease
  <2>1. query.of # None
    BY <1>5 DEF Packages!UnknownRelease
  <2> QED BY <1>5, <2>1, PackagesUnknownIsVerdict, PackagesReportOK
<1>6. CASE UNCHANGED Packages!vars
  BY <1>6 DEF Packages!vars, Packages!packageVars, Packages!IInv, Packages!TypeOK,
      Packages!ReadOK, Packages!SettledIsRight, Packages!EventTellsLast, Packages!Verdict
<1> QED BY <1>1, <1>2, <1>3, <1>4, <1>5, <1>6 DEF Packages!Next, Packages!Step

\* IInv holds in every reachable state.
THEOREM PackagesInvariance == Packages!Spec => []Packages!IInv
BY PackagesInitOK, PackagesNextOK, PTL DEF Packages!Spec

-----------------------------------------------------------------------------
(* Packages: the results.                                                  *)

\* The variables have their types.
THEOREM PackagesTypeCorrect == Packages!Spec => []Packages!TypeOK
<1>1. Packages!IInv => Packages!TypeOK
  BY DEF Packages!IInv
<1> QED BY <1>1, PackagesInvariance, PTL

\* The status is of the version that dpkg has, unless the package was touched behind the
\* reading of its version (outdated_packages.py:84-112).
THEOREM PackagesSettledIsRightHolds == Packages!Spec => []Packages!SettledIsRight
<1>1. Packages!IInv => Packages!SettledIsRight
  BY DEF Packages!IInv
<1> QED BY <1>1, PackagesInvariance, PTL

\* The last event of a package names its last status (outdated_packages.py:26-29).
THEOREM PackagesEventTellsLastHolds == Packages!Spec => []Packages!EventTellsLast
<1>1. Packages!IInv => Packages!EventTellsLast
  BY DEF Packages!IInv
<1> QED BY <1>1, PackagesInvariance, PTL

\* A report of what was reported last, of a package that nobody touched, is no event.
LEMMA PackagesSameStatusNoEvent ==
  ASSUME Packages!IInv, NEW i \in settled, query.of = i, last[PackageOf[i]] = current[i],
         NEW status \in Packages!Status, status = Packages!Verdict(i,
         dpkg[PackageOf[i]].version), Packages!Report(status)
  PROVE  event' = event
<1>1. current[i] = status
  BY DEF Packages!IInv, Packages!SettledIsRight
<1> QED BY <1>1 DEF Packages!Report, Packages!has_different_status, Packages!EventIf,
    Packages!package

\* There is no event without news (outdated_packages.py:26-29).
THEOREM PackagesEventIsNewsHolds == Packages!Spec => Packages!EventIsNews
<1> DEFINE News == \A i \in settled : query.of = i /\ last[PackageOf[i]] = current[i]
                     => event'[PackageOf[i]] = event[PackageOf[i]]
<1>1. ASSUME Packages!IInv, [Packages!Next]_(Packages!vars) PROVE [News]_(Packages!vars)
  <2> SUFFICES ASSUME Packages!Next, NEW i \in settled, query.of = i,
                      last[PackageOf[i]] = current[i]
               PROVE  event' = event
    BY <1>1
  <2>1. i \in Instance /\ i # None
    BY <1>1, VersionAssumption DEF Packages!IInv, Packages!TypeOK
  <2>2. CASE Packages!Environment
    BY <2>2 DEF Packages!Environment, Packages!Change
  <2>3. CASE \E j \in Instance : Packages!Start(j)
    BY <2>3 DEF Packages!Start
  <2>4. CASE Packages!QueryStatus \/ Packages!NotInstalled \/ Packages!NoSuchPackage
             \/ Packages!QueryVersion
    BY <2>4, PackagesQuiet
  <2>5. CASE Packages!CompareVersions
    <3>1. query.version = dpkg[PackageOf[i]].version
      BY <1>1, <2>1, <2>5 DEF Packages!CompareVersions, Packages!IInv, Packages!ReadOK
    <3>2. PICK status \in Packages!Status : status = Packages!Verdict(i, query.version)
               /\ Packages!Report(status)
      BY <1>1, <2>5, PackagesCompareIsVerdict
    <3> QED BY <1>1, <3>1, <3>2, PackagesSameStatusNoEvent
  <2>6. CASE Packages!UnknownRelease
    <3>1. PICK status \in Packages!Status : status = Packages!Verdict(i, query.version)
               /\ Packages!Report(status)
      BY <1>1, <2>6, PackagesUnknownIsVerdict
    <3>2. Expected[i] = None
      BY <1>1, <2>1, <2>6 DEF Packages!UnknownRelease, Packages!IInv, Packages!ReadOK
    <3>3. status = Packages!Verdict(i, dpkg[PackageOf[i]].version)
      BY <3>1, <3>2 DEF Packages!Verdict
    <3> QED BY <1>1, <3>1, <3>3, PackagesSameStatusNoEvent
  <2> QED BY <2>2, <2>3, <2>4, <2>5, <2>6 DEF Packages!Next, Packages!Step
<1> QED BY <1>1, PackagesInvariance, PTL DEF Packages!Spec, Packages!EventIsNews

-----------------------------------------------------------------------------
(* The composition: whatever one check does is nothing to the other.       *)

\* The collector is at an instance of the schedule.
LEMMA TurnInvariance == Spec => []TurnOK
<1>1. Init => TurnOK
  BY ScheduleAssumption DEF Init, TurnOK
<1>2. TurnOK /\ [Next]_vars => TurnOK'
  <2> SUFFICES ASSUME TurnOK, [Next]_vars PROVE TurnOK'
    OBVIOUS
  <2>1. CASE UNCHANGED turn
    BY <2>1 DEF TurnOK
  <2>2. CASE Rotate
    BY <2>2, ScheduleAssumption DEF Rotate, TurnOK
  <2> QED BY <2>1, <2>2 DEF Next, Collect, Environment, CallS3, CallPackages, Step, vars
<1> QED BY <1>1, <1>2, PTL DEF Spec

LEMMA S3Step ==
  ASSUME [Next]_vars
  PROVE  [S3!Next]_(S3!vars)
<1>1. CASE UNCHANGED s3State
  BY <1>1 DEF s3State, S3!vars, S3!s3Vars
<1>2. CASE S3!Start \/ S3!Step \/ S3!Environment
  BY <1>2 DEF S3!Next
<1> QED BY <1>1, <1>2 DEF Next, Collect, Environment, CallS3, CallPackages, Step, vars

LEMMA PackagesStep ==
  ASSUME TurnOK, [Next]_vars
  PROVE  [Packages!Next]_(Packages!vars)
<1>1. CASE UNCHANGED packageState
  BY <1>1 DEF packageState, Packages!vars, Packages!packageVars
<1>2. CASE CallPackages
  <2>1. Schedule[turn] \in Instance
    BY <1>2, ScheduleAssumption DEF CallPackages, TurnOK
  <2> QED BY <1>2, <2>1 DEF CallPackages, Packages!Next
<1>3. CASE Packages!Step \/ Packages!Environment
  BY <1>3 DEF Packages!Next
<1> QED BY <1>1, <1>2, <1>3 DEF Next, Collect, Environment, CallS3, Step, vars

\* In the collector, the S3 check does what it does alone.
THEOREM ImplementsS3 == Spec => S3!Spec
<1>1. Init => S3!Init
  BY DEF Init
<1> QED BY <1>1, S3Step, PTL DEF Spec, S3!Spec

\* And so does the check of the packages, of whichever instance the collector calls it.
THEOREM ImplementsPackages == Spec => Packages!Spec
<1>1. Init => Packages!Init
  BY DEF Init
<1> QED BY <1>1, TurnInvariance, PackagesStep, PTL DEF Spec, Packages!Spec

\* An object that fits and is there all the time is never missed, whenever the collector
\* calls the check, and whatever the packages do between two pages.
THEOREM CriticalMeansMissingHolds == Spec => []CriticalMeansMissing
BY ImplementsS3, S3CriticalMeansMissingHolds, PTL DEF CriticalMeansMissing

\* The last event of a package names its last status, in whichever order the collector calls
\* the instances that share it, and whatever S3 does in between.
THEOREM EventTellsLastHolds == Spec => []EventTellsLast
BY ImplementsPackages, PackagesEventTellsLastHolds, PTL DEF EventTellsLast
=============================================================================
