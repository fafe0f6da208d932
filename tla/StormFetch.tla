----------------------------- MODULE StormFetch -----------------------------
(***************************************************************************)
(* What module StormCache assumes of one call of cache_one: between its    *)
(* first reply and its return only the clock matters; a success is stamped *)
(* with the time of the return and rests on nothing older than the first   *)
(* reply; a failure leaves nothing of what was fetched.  Module            *)
(* StormSnapshot, which has every GET, implements this one.                *)
(***************************************************************************)
EXTENDS Naturals

VARIABLES
  now,    \* the clock
  first,  \* time of the first reply, while fetching
  phase,  \* "idle" or "fetch"
  out     \* what cache_one returned last

vars == <<now, first, phase, out>>

Init == now = 0 /\ first = 0 /\ phase = "idle"
        /\ out = [status |-> "error", updated |-> 0, oldest |-> 0]

Tick == now' = now + 1 /\ UNCHANGED <<first, phase, out>>

Begin == /\ phase = "idle"
         /\ phase' = "fetch" /\ first' = now
         /\ UNCHANGED <<now, out>>

Leave == phase' = "idle" /\ first' = 0 /\ UNCHANGED now

Succeed == /\ phase = "fetch"
           /\ out' = [status |-> "success", updated |-> now, oldest |-> first]
           /\ Leave

Fail == /\ out' = [status |-> "error", updated |-> now, oldest |-> now]
        /\ Leave

\* An exception that cache_one does not catch, or a kill.
Die == phase = "fetch" /\ Leave /\ UNCHANGED out

Next == Tick \/ Begin \/ Succeed \/ Fail \/ Die

Spec == Init /\ [][Next]_vars
=============================================================================
