---------------------------- MODULE LeaseStore ----------------------------
(***************************************************************************)
(* The lease store as a component: any sequence of its writing calls, with *)
(* any arguments, at any time, and restarts from its own snapshot.  No     *)
(* handler discipline is assumed: a KEY may be registered again under      *)
(* another parent, or a record stored for an owner that has no lease.      *)
(***************************************************************************)
EXTENDS LeaseTree

CONSTANTS Duration,  \* lease durations
          MaxClock   \* bound of the model: the clock stops here

ASSUME DurationAssumption == Duration \subseteq Nat
ASSUME MaxClockAssumption == MaxClock \in Nat

VARIABLES store,  \* the InMemoryLeaseStore
          clock   \* the clock

storeVars == <<store, clock>>

StoreInit == /\ store = EmptyStore
             /\ clock = 0

Tick == /\ clock < MaxClock
        /\ clock' = clock + 1
        /\ UNCHANGED store

Register(k, parent, d) ==
  /\ store' = RegisterWithParent(store, k, parent, clock + d)
  /\ UNCHANGED clock

\* RenewLease returns an error, changing nothing, for a KEY that is not there.
Renew(k, d) ==
  /\ HasKey(store, k)
  /\ store' = RenewLease(store, k, clock + d)
  /\ UNCHANGED clock

Upsert(owner, recs, d) ==
  /\ ~UpsertFails(store, owner, recs)
  /\ store' = UpsertNonKEYRecords(store, owner, recs, clock + d)
  /\ UNCHANGED clock

RemoveSingle(owner, r) ==
  /\ ~RemoveFails(store, owner, r)
  /\ store' = RemoveSingleNonKEYRecords(store, owner, {r})
  /\ UNCHANGED clock

RemoveAll(owner) ==
  /\ store' = RemoveNonKEYRecords(store, owner)
  /\ UNCHANGED clock

DeleteNode(n) ==
  /\ store' = DeleteSubtree(store, n)
  /\ UNCHANGED clock

\* Stop saves a snapshot and the next start loads it.
Reload ==
  /\ store' = ImportSnapshot(ExportSnapshot(store))
  /\ UNCHANGED clock

StoreNext ==
  \/ Tick
  \/ Reload
  \/ \E k \in Key, p \in Key \cup {NoKey}, d \in Duration : Register(k, p, d)
  \/ \E k \in Key, d \in Duration : Renew(k, d)
  \/ \E k \in Key, recs \in SUBSET Rec, d \in Duration : Upsert(k, recs, d)
  \/ \E k \in Key, r \in Rec : RemoveSingle(k, r)
  \/ \E k \in Key : RemoveAll(k)
  \/ \E n \in Node : DeleteNode(n)

StoreSpec == StoreInit /\ [][StoreNext]_storeVars

---------------------------------------------------------------------------
\* The store's maps have the types of their Go counterparts.
StoreTypes == IsStore(store) /\ clock \in Nat

\* The children index and the parents the nodes record say the same: what a
\* subtree walk finds is what belongs to the node, nothing more or less.
ChildrenExact == ChildrenMatch(store)

\* The name index lists exactly the KEYs stored at each name.
NameIdxExact == NamesMatch(store)

\* The inductive invariant: types and both indices.
IInv == Consistent(store) /\ clock \in Nat

\* A restart loses nothing: the store rebuilt from its snapshot is the store,
\* its derived indices included.
SnapshotFaithful == ImportSnapshot(ExportSnapshot(store)) = store

\* A KEY leaves the store with everything under it: once it is gone, no stored
\* node still names it as its parent (deleteSubtreeLocked's cascade).
NoOrphans ==
  [][\A k \in Key : HasKey(store, k) /\ ~HasKey(store', k)
                    => \A n \in Node : ~HasParent(store', n, k)]_storeVars

\* A record never changes hands while it is stored: another KEY can have it only
\* after it was removed (UpsertNonKEYRecords's uniqueness rule).
OwnerStable ==
  [][\A r \in Rec : HasRec(store, r) /\ HasRec(store', r)
                    => OwnerOf(store', r) = OwnerOf(store, r)]_storeVars
==========================================================================
