--------------------------- MODULE MCEnumeration ---------------------------
(***************************************************************************)
(* Instances of LeaseStore and ServiceEnumeration for TLC, side by side:   *)
(* which of the two a behaviour is of is chosen at the start.              *)
(***************************************************************************)
EXTENDS ServiceEnumeration, LeaseStore, TLC

CONSTANTS k1, k2, k3, n1, n2,
          Parts  \* what is run: "store", "enumeration"

VARIABLE part

\* Two KEYs at one name and a third at another.
MCKeyName == k1 :> n1 @@ k2 :> n1 @@ k3 :> n2

---------------------------------------------------------------------------
(* The worklists of the code, turn by turn, against the closure LeaseTree  *)
(* defines.                                                                *)

\* ListSubtreeKeys marks a child visited when it pushes it.
RECURSIVE Worklist(_, _, _)
Worklist(s, stack, visited) ==
  IF stack = {} THEN visited
  ELSE LET cur == CHOOSE n \in stack : TRUE
           new == IF cur \in Key THEN s.children[cur] \ visited ELSE {}
       IN  Worklist(s, (stack \ {cur}) \cup new, visited \cup new)

ListSubtreeKeysWalk(s, root) == Worklist(s, {root}, {root}) \ {root}

\* deleteSubtreeLocked marks a node seen when it pops it, and pushes all children.
RECURSIVE SeenWalk(_, _, _)
SeenWalk(s, stack, seen) ==
  IF stack = {} THEN seen
  ELSE LET cur == CHOOSE n \in stack : TRUE
           rest == stack \ {cur}
       IN  IF cur \in seen THEN SeenWalk(s, rest, seen)
           ELSE SeenWalk(s, rest \cup (IF cur \in Key THEN s.children[cur] ELSE {}),
                         seen \cup {cur})

\* Both worklists end, on trees and on cycles alike, with the least closed set: an
\* expiry locks exactly what its delete will remove (ListSubtreeKeys,
\* deleteSubtreeLocked).
WalksAgree ==
  part = "store" =>
    \A k \in Key : /\ ListSubtreeKeysWalk(store, k) = ListSubtreeKeys(store, k)
                   /\ SeenWalk(store, {k}, {}) = Subtree(store, k)

---------------------------------------------------------------------------
EnumerationInit == part \in Parts /\ Init /\ StoreInit

EnumerationNext ==
  \/ part = "store" /\ StoreNext /\ UNCHANGED <<part, vars>>
  \/ part = "enumeration" /\ Next /\ UNCHANGED <<part, storeVars>>

EnumerationSpec ==
  /\ EnumerationInit /\ [][EnumerationNext]_<<part, vars, storeVars>>
  /\ Fairness
========================================
