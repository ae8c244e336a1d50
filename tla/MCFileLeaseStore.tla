------------------------- MODULE MCFileLeaseStore -------------------------
(* An instance of FileLeaseStore for TLC. *)
EXTENDS FileLeaseStore, TLC

CONSTANTS tick, stop

MCSaver == {tick, stop}
ItemSymmetry == Permutations(Item)
====
