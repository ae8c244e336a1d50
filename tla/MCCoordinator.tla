--------------------------- MODULE MCCoordinator ---------------------------
(***************************************************************************)
(* Coordinator for TLC.  What a behaviour is about is chosen at the start: *)
(* one node, one slot and every failure; or, with fewer failures, nodes    *)
(* that compete for one slot, or overlapping sets of nodes and no limit.   *)
(***************************************************************************)
EXTENDS Coordinator

CONSTANTS n1       \* the one node of the first kind of behaviour

VARIABLE asked     \* the sets of nodes callers ask for

MCInit ==
  /\ Init
  /\ \/ /\ limit = 1 /\ budget = [refusals |-> 0, timeouts |-> MaxTimeouts]
        /\ asked = SUBSET {n1}
     \/ /\ budget \in {[refusals |-> 0, timeouts |-> 1], [refusals |-> MaxRefusals, timeouts |-> 0]}
        /\ asked = IF limit = 0 THEN {{n1}, Id} ELSE {{i} : i \in Id}

MCNext ==
  /\ CoordinatorNext
  /\ \A p \in Proc : nodes'[p] \in asked \cup {{}}
  /\ UNCHANGED asked

MCSpec == MCInit /\ [][MCNext]_<<vars, asked>> /\ Fairness
============================================================================
