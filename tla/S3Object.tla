------------------------------ MODULE S3Object ------------------------------
(***************************************************************************)
(* checks.d/s3_object_exists.py.  A check lists, page by page, the objects *)
(* of a day that have a prefix, and sends CRITICAL when none of them fits  *)
(* the size limits and the SLA has passed.  Objects are written and        *)
(* removed between two pages.                                              *)
(*                                                                         *)
(* Of S3 two things are left open, on which the code relies: whether a     *)
(* reply's Marker is the one that was asked for or the one to ask for      *)
(* next, and whether a reply without objects has the key Contents.         *)
(***************************************************************************)
EXTENDS S3Constants, FiniteSets

VARIABLES
  incidents,
  bucket,   \* the objects that are there
  service,  \* whether S3 answers, echoes the marker, omits an empty Contents
  late,     \* whether the SLA has passed
  listing,  \* the locals of the check: whether it runs, marker, objects, is_within_sla
  client,   \* _client: whether there is one, and its key is still valid
  verdict,  \* the last service check, whether the last check raised, and its is_within_sla
  stayed,   \* the objects that were there all the time of the check
  seen      \* the objects that were there at some time of it

s3Vars == <<listing, client, verdict>>
vars == <<incidents, bucket, service, late, s3Vars, stayed, seen>>

Object == 1..Keys
NotListing == [on |-> FALSE, marker |-> 0, objects |-> {}, safe |-> FALSE]

Init ==
  /\ incidents = 0
  /\ bucket \in SUBSET Object
  /\ service \in [up : {TRUE}, echo : BOOLEAN, omits : BOOLEAN]
  /\ late \in BOOLEAN
  /\ listing = NotListing /\ client = "none"
  /\ verdict = [status |-> "none", raised |-> FALSE, safe |-> FALSE]
  /\ stayed = {} /\ seen = {}

-----------------------------------------------------------------------------
(* S3 and the time of day.                                                 *)

\* A job writes an object or a lifecycle rule removes one.
Change(o) ==
  /\ incidents < MaxIncidents /\ incidents' = incidents + 1
  /\ bucket' = IF o \in bucket THEN bucket \ {o} ELSE bucket \union {o}
  /\ stayed' = stayed \intersect bucket' /\ seen' = seen \union bucket'
  /\ UNCHANGED <<service, late, s3Vars>>

\* S3 stops to answer, which is counted, or answers again.
Toggle ==
  /\ service' = [service EXCEPT !.up = ~@]
  /\ IF service.up THEN incidents < MaxIncidents /\ incidents' = incidents + 1
                   ELSE incidents' = incidents
  /\ UNCHANGED <<bucket, late, s3Vars, stayed, seen>>

\* The credentials are changed, in the file and at AWS.
Rotate ==
  /\ incidents < MaxIncidents /\ incidents' = incidents + 1
  /\ client = "valid" /\ client' = "revoked"
  /\ UNCHANGED <<bucket, service, late, listing, verdict, stayed, seen>>

SLAPasses == ~late /\ late' = TRUE /\ UNCHANGED <<incidents, bucket, service, s3Vars, stayed, seen>>

\* The reply to list_objects: the first objects behind the marker, and whether it IsTruncated.
Behind(marker) == {o \in bucket : o > marker}
Contents(marker) ==
  {o \in Behind(marker) : Cardinality({b \in Behind(marker) : b <= o}) <= PageSize}
IsTruncated(marker) == Contents(marker) # Behind(marker)

-----------------------------------------------------------------------------
(* The check.                                                              *)

Busy == listing.on

\* The credentials are read by the first check only.
get_client == client' = IF client = "none" THEN "valid" ELSE client

\* now is taken here; a check that starts within the SLA is safe however long it takes.
Start ==
  /\ ~Busy
  /\ listing' = [on |-> TRUE, marker |-> 0, objects |-> {}, safe |-> ~late]
  /\ get_client
  /\ stayed' = bucket /\ seen' = bucket
  /\ UNCHANGED <<incidents, bucket, service, late, verdict>>

Answered == Busy /\ service.up /\ client = "valid"

\* A variant: the marker of the request, as an echo would give.
MarkersAsked(marker) == {marker}

\* What resp['Marker'] may be: the one that was asked for, or the last of the page.
Markers(marker) ==
  IF service.echo THEN {marker}
  ELSE {o \in Contents(marker) : \A p \in Contents(marker) : p <= o}

ListPage ==
  /\ Answered /\ IsTruncated(listing.marker)
  /\ \E marker \in Markers(listing.marker) :
       listing' = [listing EXCEPT !.objects = @ \union Contents(listing.marker),
                                  !.marker = marker]
  /\ UNCHANGED <<incidents, bucket, service, late, client, verdict, stayed, seen>>

\* resp['Contents'] raises when S3 omits it.
HasContents(marker) == Contents(marker) # {} \/ ~service.omits

\* A variant: only the objects of the last page are looked at.
FoundLast == Contents(listing.marker)

Found == listing.objects \union Contents(listing.marker)

\* A variant: an object of any size will do.
SafeAnySize == Found # {} \/ listing.safe

Safe == Found \intersect Fitting # {} \/ listing.safe

ListLast ==
  /\ Answered /\ ~IsTruncated(listing.marker) /\ HasContents(listing.marker)
  /\ verdict' = [status |-> IF Safe THEN "OK" ELSE "CRITICAL", raised |-> FALSE,
                 safe |-> listing.safe]
  /\ listing' = NotListing
  /\ UNCHANGED <<incidents, bucket, service, late, client, stayed, seen>>

ListRaises ==
  /\ Busy
  /\ ~Answered \/ ~HasContents(listing.marker)
  /\ verdict' = [verdict EXCEPT !.raised = TRUE]
  /\ listing' = NotListing
  /\ UNCHANGED <<incidents, bucket, service, late, client, stayed, seen>>

Step == ListPage \/ ListLast \/ ListRaises
Environment == (\E o \in Object : Change(o)) \/ Toggle \/ Rotate \/ SLAPasses

Next == Environment \/ Start \/ Step

Spec == Init /\ [][Next]_vars

-----------------------------------------------------------------------------
\* Types of the variables.
TypeOK ==
  /\ incidents \in Nat
  /\ bucket \subseteq Object /\ late \in BOOLEAN
  /\ service \in [up : BOOLEAN, echo : BOOLEAN, omits : BOOLEAN]
  /\ listing \in [on : BOOLEAN, marker : 0..Keys, objects : SUBSET Object, safe : BOOLEAN]
  /\ client \in {"none", "valid", "revoked"}
  /\ verdict \in [status : {"none", "OK", "CRITICAL"}, raised : BOOLEAN, safe : BOOLEAN]
  /\ stayed \subseteq Object /\ seen \subseteq Object

Reported == ~Busy /\ ~verdict.raised

\* CRITICAL means that no fitting object was there all the time of the check, although the
\* pages are of different moments and may come twice (s3_object_exists.py:87-93).
CriticalMeansMissing ==
  Reported /\ verdict.status = "CRITICAL" => stayed \intersect Fitting = {}

\* OK behind the SLA means that a fitting object was there at some time of the check.
OkMeansThere ==
  Reported /\ verdict.status = "OK" /\ ~verdict.safe => seen \intersect Fitting # {}

\* What the running check has collected: nothing that was never there, and everything up to
\* the marker that was there all the time.
ListingOK ==
  Busy => /\ stayed \subseteq bucket /\ bucket \subseteq seen
          /\ listing.objects \subseteq seen
          /\ \A o \in stayed : o <= listing.marker => o \in listing.objects

\* The inductive invariant.
IInv == TypeOK /\ ListingOK /\ CriticalMeansMissing /\ OkMeansThere

\* "alert if they are missing" (s3_object_exists.py:23): once S3 answers, the SLA has passed
\* and no object fits, the status is CRITICAL for good, except where the loop or the reply
\* prevents it: more objects than a page when the marker is echoed, none at all when
\* Contents is omitted, or a client that outlived its credentials.
MissingIsTold ==
  <>[](/\ service.up /\ client # "revoked" /\ late /\ bucket \intersect Fitting = {}
       /\ service.omits => bucket # {}
       /\ service.echo => ~IsTruncated(0))
    => <>[](verdict.status = "CRITICAL")
=============================================================================
