---------------------------- MODULE MCCollector ----------------------------
EXTENDS Collector

MCSchedule == <<"bucket", "first", "second", "other">>

\* Three instances of one package: two expect different versions, one says nothing about
\* this release.
MCPackageOf == [i \in Instance |-> "package"]
MCExpected == [i \in Instance |-> CASE i = "first" -> 1 [] i = "second" -> 2 [] i = "other" -> None]
=============================================================================
