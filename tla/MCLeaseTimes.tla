--------------------------- MODULE MCLeaseTimes ---------------------------
(***************************************************************************)
(* Instances of LeasePolicy and ExpiryTimers for TLC, side by side: which  *)
(* of the two a behaviour is of is chosen at the start.  All policies and  *)
(* requests over a few durations; one lease owner and its timer.           *)
(***************************************************************************)
EXTENDS LeasePolicy, ExpiryTimers

VARIABLE part

Unbounded == [minKey |-> 0, maxKey |-> 0, minRR |-> 0, maxRR |-> 0]

LeaseTimesInit ==
  /\ part \in {"policy", "timers"} /\ Init /\ PolicyInit
  /\ part = "timers" => policy = Unbounded /\ handler = "srp"

LeaseTimesNext ==
  \/ part = "policy" /\ PolicyNext /\ UNCHANGED <<part, vars>>
  \/ part = "timers" /\ Next /\ UNCHANGED <<part, policyVars>>

LeaseTimesSpec ==
  LeaseTimesInit /\ [][LeaseTimesNext]_<<part, vars, policyVars>> /\ Fairness
===========================================================================
