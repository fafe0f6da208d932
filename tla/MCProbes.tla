------------------------------ MODULE MCProbes ------------------------------
EXTENDS Probes

MCSchedule == <<"first", "second">>

\* Two instances of each check, and two of different ones.
MCDeployments ==
  {[first |-> check, second |-> check] : check \in DOMAIN Checks}
    \union {[first |-> "nsq", second |-> "nagios_runner"]}
=============================================================================
