------------------------- MODULE LeaseStoreProofs -------------------------
(***************************************************************************)
(* Proofs about the lease store for any set of KEYs, records and names:    *)
(* every writer keeps both indices in step with the nodes, a delete takes  *)
(* a whole subtree, and a snapshot round trip is the identity.             *)
(***************************************************************************)
EXTENDS LeaseStore, LeaseTreeProofs

---------------------------------------------------------------------------
\* The invariant holds initially.
LEMMA InitEstablishes == StoreInit => IInv
  BY EmptyConsistent DEF StoreInit, IInv

\* Every call, with any arguments, keeps the invariant.
LEMMA StepPreserves == IInv /\ [StoreNext]_storeVars => IInv'
<1> SUFFICES ASSUME IInv, [StoreNext]_storeVars PROVE IInv'
  OBVIOUS
<1> USE DEF IInv
<1>1. CASE UNCHANGED storeVars
  BY <1>1 DEF storeVars
<1>2. CASE Tick
  BY <1>2 DEF Tick
<1>3. CASE Reload
  BY <1>3, RoundTrip DEF Reload
<1>4. ASSUME NEW k \in Key, NEW p \in Key \cup {NoKey}, NEW d \in Duration,
             Register(k, p, d)
      PROVE  IInv'
  BY <1>4, RegisterConsistent, DurationAssumption DEF Register
<1>5. ASSUME NEW k \in Key, NEW d \in Duration, Renew(k, d) PROVE IInv'
  BY <1>5, RenewConsistent, DurationAssumption DEF Renew
<1>6. ASSUME NEW k \in Key, NEW recs \in SUBSET Rec, NEW d \in Duration,
             Upsert(k, recs, d)
      PROVE  IInv'
  BY <1>6, UpsertConsistent, DurationAssumption DEF Upsert
<1>7. ASSUME NEW k \in Key, NEW r \in Rec, RemoveSingle(k, r) PROVE IInv'
  BY <1>7, RemoveConsistent DEF RemoveSingle
<1>8. ASSUME NEW k \in Key, RemoveAll(k) PROVE IInv'
  <2>1. /\ RecordSet(store, k) \in SUBSET Rec
        /\ \A r \in RecordSet(store, k) : ~RemoveFails(store, k, r)
    BY NodeAssumption DEF RecordSet, RemoveFails, Consistent, IsStore,
       ChildrenMatch, HasParent, HasKey, HasRec, Node
  <2> QED
    BY <1>8, <2>1, RemoveConsistent DEF RemoveAll, RemoveNonKEYRecords
<1>9. ASSUME NEW n \in Node, DeleteNode(n) PROVE IInv'
  BY <1>9, DeleteConsistent DEF DeleteNode
<1> QED
  BY <1>1, <1>2, <1>3, <1>4, <1>5, <1>6, <1>7, <1>8, <1>9 DEF StoreNext

\* The invariant holds in every reachable state.
THEOREM Invariance == StoreSpec => []IInv
  BY InitEstablishes, StepPreserves, PTL DEF StoreSpec

\* The store's maps keep their types under any sequence of calls.
THEOREM TypeCorrect == StoreSpec => []StoreTypes
<1>1. IInv => StoreTypes
  BY DEF IInv, StoreTypes, Consistent
<1> QED BY <1>1, Invariance, PTL

\* The children index never disagrees with the parents the nodes record.
THEOREM ChildrenIndexCorrect == StoreSpec => []ChildrenExact
<1>1. IInv => ChildrenExact
  BY DEF IInv, ChildrenExact, Consistent
<1> QED BY <1>1, Invariance, PTL

\* The name index never disagrees with the leases.
THEOREM NameIndexCorrect == StoreSpec => []NameIdxExact
<1>1. IInv => NameIdxExact
  BY DEF IInv, NameIdxExact, Consistent
<1> QED BY <1>1, Invariance, PTL

\* A restart from a snapshot of any reachable store restores it entirely.
THEOREM RestartLosesNothing == StoreSpec => []SnapshotFaithful
<1>1. IInv => SnapshotFaithful
  BY RoundTrip DEF IInv, SnapshotFaithful
<1> QED BY <1>1, Invariance, PTL

\* A KEY never leaves the store without every node that names it as parent.
THEOREM DeleteIsComplete == StoreSpec => NoOrphans
<1> DEFINE Complete ==
      \A k \in Key : HasKey(store, k) /\ ~HasKey(store', k)
                     => \A n \in Node : ~HasParent(store', n, k)
<1>1. IInv /\ [StoreNext]_storeVars => [Complete]_storeVars
  <2> SUFFICES ASSUME IInv, StoreNext, NEW k \in Key,
                      HasKey(store, k), ~HasKey(store', k),
                      NEW n \in Node, HasParent(store', n, k)
               PROVE  FALSE
    OBVIOUS
  <2>1. CASE Tick
    BY <2>1 DEF Tick
  <2>2. CASE Reload
    BY <2>2, RoundTrip DEF Reload, IInv
  <2>3. ASSUME NEW q \in Key, NEW p \in Key \cup {NoKey}, NEW d \in Duration,
               Register(q, p, d)
        PROVE  FALSE
    BY <2>3 DEF Register, RegisterWithParent, HasKey
  <2>4. ASSUME NEW q \in Key, NEW d \in Duration, Renew(q, d) PROVE FALSE
    BY <2>4 DEF Renew, RenewLease, HasKey, IInv, Consistent, IsStore
  <2>5. ASSUME NEW q \in Key, NEW recs \in SUBSET Rec, NEW d \in Duration,
               Upsert(q, recs, d)
        PROVE  FALSE
    BY <2>5 DEF Upsert, UpsertNonKEYRecords, HasKey
  <2>6. ASSUME NEW q \in Key, NEW r \in Rec, RemoveSingle(q, r) PROVE FALSE
    BY <2>6 DEF RemoveSingle, RemoveSingleNonKEYRecords, HasKey
  <2>7. ASSUME NEW q \in Key, RemoveAll(q) PROVE FALSE
    BY <2>7 DEF RemoveAll, RemoveNonKEYRecords, RemoveSingleNonKEYRecords, HasKey
  <2>8. ASSUME NEW root \in Node, DeleteNode(root) PROVE FALSE
    <3> DEFINE gone == Subtree(store, root)
    <3>1. k \in gone
      BY <2>8 DEF DeleteNode, DeleteSubtree, HasKey
    <3>2. HasParent(store, n, k) /\ n \notin gone
      BY <2>8 DEF DeleteNode, DeleteSubtree, HasParent, HasKey, HasRec, OwnerOf
    <3>3. n \in store.children[k]
      BY <3>2 DEF IInv, Consistent, ChildrenMatch
    <3>4. Closed(store, gone)
      BY SubtreeClosed DEF IInv, Consistent
    <3> QED BY <3>1, <3>2, <3>3, <3>4 DEF Closed
  <2> QED BY <2>1, <2>2, <2>3, <2>4, <2>5, <2>6, <2>7, <2>8 DEF StoreNext
<1> QED BY <1>1, Invariance, PTL DEF StoreSpec, NoOrphans

\* A stored record keeps its owner for as long as it is stored.
THEOREM RecordsKeepOwner == StoreSpec => OwnerStable
<1> DEFINE Kept ==
      \A r \in Rec : HasRec(store, r) /\ HasRec(store', r)
                     => OwnerOf(store', r) = OwnerOf(store, r)
<1>1. IInv /\ [StoreNext]_storeVars => [Kept]_storeVars
  <2> SUFFICES ASSUME IInv, StoreNext, NEW r \in Rec,
                      HasRec(store, r), HasRec(store', r)
               PROVE  OwnerOf(store', r) = OwnerOf(store, r)
    OBVIOUS
  <2> USE DEF OwnerOf, HasRec
  <2>1. CASE Tick
    BY <2>1 DEF Tick
  <2>2. CASE Reload
    BY <2>2, RoundTrip DEF Reload, IInv
  <2>3. ASSUME NEW q \in Key, NEW p \in Key \cup {NoKey}, NEW d \in Duration,
               Register(q, p, d)
        PROVE  OwnerOf(store', r) = OwnerOf(store, r)
    BY <2>3 DEF Register, RegisterWithParent
  <2>4. ASSUME NEW q \in Key, NEW d \in Duration, Renew(q, d)
        PROVE  OwnerOf(store', r) = OwnerOf(store, r)
    BY <2>4 DEF Renew, RenewLease, IInv, Consistent, IsStore
  <2>5. ASSUME NEW q \in Key, NEW recs \in SUBSET Rec, NEW d \in Duration,
               Upsert(q, recs, d)
        PROVE  OwnerOf(store', r) = OwnerOf(store, r)
    BY <2>5 DEF Upsert, UpsertNonKEYRecords, UpsertFails
  <2>6. ASSUME NEW q \in Key, NEW x \in Rec, RemoveSingle(q, x)
        PROVE  OwnerOf(store', r) = OwnerOf(store, r)
    BY <2>6 DEF RemoveSingle, RemoveSingleNonKEYRecords
  <2>7. ASSUME NEW q \in Key, RemoveAll(q)
        PROVE  OwnerOf(store', r) = OwnerOf(store, r)
    BY <2>7 DEF RemoveAll, RemoveNonKEYRecords, RemoveSingleNonKEYRecords
  <2>8. ASSUME NEW root \in Node, DeleteNode(root)
        PROVE  OwnerOf(store', r) = OwnerOf(store, r)
    BY <2>8 DEF DeleteNode, DeleteSubtree
  <2> QED BY <2>1, <2>2, <2>3, <2>4, <2>5, <2>6, <2>7, <2>8 DEF StoreNext
<1> QED BY <1>1, Invariance, PTL DEF StoreSpec, OwnerStable
==========================================================================
