------------------------------ MODULE Collector ------------------------------
(***************************************************************************)
(* The agent's collector with the checks s3_object_exists and              *)
(* outdated_packages.  It calls one instance after the other in one        *)
(* thread, round after round; a check that does not come back holds the    *)
(* others, and what a check reports ages until its turn comes again.       *)
(***************************************************************************)
EXTENDS S3Constants, PackageConstants, Sequences

CONSTANTS
  Schedule,    \* the instances in the order in which they are called: S3, or a package's
  Bucket       \* the S3 instance

ASSUME ScheduleAssumption ==
  Schedule \in Seq(Instance \union {Bucket}) /\ Schedule # <<>>

VARIABLES
  turn,     \* the position in Schedule of the next call
  incidents, bucket, service, late, listing, client, verdict, stayed, seen,
  changes, dpkg, query, last, current, event, settled

S3 == INSTANCE S3Object
Packages == INSTANCE OutdatedPackages

s3State == <<incidents, bucket, service, late, listing, client, verdict, stayed, seen>>
packageState == <<changes, dpkg, query, last, current, event, settled>>
vars == <<turn, s3State, packageState>>

Init == turn = 1 /\ S3!Init /\ Packages!Init

Busy == S3!Busy \/ Packages!Busy

Rotate == turn' = (turn % Len(Schedule)) + 1

CallS3 ==
  /\ ~Busy /\ Schedule[turn] = Bucket
  /\ S3!Start /\ Rotate
  /\ UNCHANGED packageState

CallPackages ==
  /\ ~Busy /\ Schedule[turn] # Bucket
  /\ Packages!Start(Schedule[turn]) /\ Rotate
  /\ UNCHANGED s3State

Step ==
  \/ S3!Step /\ UNCHANGED <<turn, packageState>>
  \/ Packages!Step /\ UNCHANGED <<turn, s3State>>

Environment ==
  \/ S3!Environment /\ UNCHANGED <<turn, packageState>>
  \/ Packages!Environment /\ UNCHANGED <<turn, s3State>>

Collect == CallS3 \/ CallPackages \/ Step

Next == Environment \/ Collect

Spec == Init /\ [][Next]_vars

\* The collector's thread goes on; nothing is assumed of S3, of apt or of the days.
FairSpec == Spec /\ WF_vars(Collect)

-----------------------------------------------------------------------------
\* The inductive invariant, besides those of the two modules.
TurnOK == turn \in DOMAIN Schedule

\* CRITICAL means that no fitting object was there all the time of the check, whatever the
\* packages do in between.
CriticalMeansMissing == S3!CriticalMeansMissing

\* The last event of a package names the status that was reported last, whatever S3 does in
\* between.
EventTellsLast == Packages!EventTellsLast

\* The reply's Marker is the one that was asked for, and there is more than one page: the
\* same page is asked for again and again (s3_object_exists.py:87-93).
PagesForEver == service.echo /\ service.up /\ client # "revoked" /\ S3!IsTruncated(0)

\* Every instance is called again and again, unless the list of objects never ends.
RoundsGoOn == <>[]~PagesForEver => \A n \in DOMAIN Schedule : []<>(turn = n)

\* What is missing is told, whatever the packages do.
MissingIsTold == S3!MissingIsTold

\* A package that is left alone gets its right status, unless the list of objects never ends.
Settles == <>[]~PagesForEver => Packages!Settles
=============================================================================
