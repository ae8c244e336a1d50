---------------------------- MODULE LockTable ----------------------------
(***************************************************************************)
(* What NodeLocks promises to its callers, with no table, no channel and   *)
(* no retry: a set of ids is granted whole, to one caller at a time, and a *)
(* caller that holds a grant gives it back before it gets another.         *)
(***************************************************************************)
CONSTANTS Id,    \* lock ids: NodeKey and RecordKey values
          Proc   \* callers: requests and expiry runs

VARIABLES grant, \* grant[p]: the ids p holds
          holds  \* the callers that hold a (possibly empty) grant

vars == <<grant, holds>>

Init == /\ grant = [p \in Proc |-> {}]
        /\ holds = {}

\* p gets all of ids at once, none of them being anybody else's.
Grant(p, ids) ==
  /\ p \notin holds
  /\ \A q \in holds : grant[q] \cap ids = {}
  /\ grant' = [grant EXCEPT ![p] = ids]
  /\ holds' = holds \cup {p}

\* p gives back everything it holds.
Return(p) ==
  /\ p \in holds
  /\ grant' = [grant EXCEPT ![p] = {}]
  /\ holds' = holds \ {p}

Next == \E p \in Proc : Return(p) \/ \E ids \in SUBSET Id : Grant(p, ids)

Spec == Init /\ [][Next]_vars
==========================================================================
