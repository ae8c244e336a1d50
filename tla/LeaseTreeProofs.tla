-------------------------- MODULE LeaseTreeProofs --------------------------
(***************************************************************************)
(* Proofs about the operators on a lease store, for any set of KEYs,       *)
(* records and names: what a subtree is and when it stays the same, and    *)
(* that every writing call keeps both indices in step with the nodes.      *)
(***************************************************************************)
EXTENDS LeaseTree, TLAPS

\* A subtree has its root in it and is closed under children (ListSubtreeKeys).
LEMMA SubtreeClosed ==
  ASSUME NEW s, IsStore(s), NEW root \in Node
  PROVE  /\ root \in Subtree(s, root)
         /\ Subtree(s, root) \subseteq Node
         /\ Closed(s, Subtree(s, root))
<1>1. root \in Subtree(s, root) /\ Subtree(s, root) \subseteq Node
  BY DEF Subtree
<1>2. ASSUME NEW n \in Subtree(s, root) \cap Key, NEW m \in s.children[n]
      PROVE  m \in Subtree(s, root)
  <2>1. m \in Node
    BY <1>2 DEF IsStore
  <2>2. ASSUME NEW S \in SUBSET Node, root \in S, Closed(s, S) PROVE m \in S
    <3>1. n \in S
      BY <1>2, <2>2 DEF Subtree
    <3> QED BY <1>2, <2>2, <3>1 DEF Closed
  <2> QED BY <2>1, <2>2 DEF Subtree
<1> QED BY <1>1, <1>2 DEF Closed

\* A closed set with the root in it has the whole subtree in it.
LEMMA SubtreeLeast ==
  ASSUME NEW s, NEW root, NEW S \in SUBSET Node, root \in S, Closed(s, S)
  PROVE  Subtree(s, root) \subseteq S
  BY DEF Subtree

\* A store that loses children loses nodes of a subtree, and gains none.
LEMMA SubtreeShrinks ==
  ASSUME NEW s, IsStore(s), NEW t, NEW root \in Node,
         \A k \in Key : t.children[k] \subseteq s.children[k]
  PROVE  Subtree(t, root) \subseteq Subtree(s, root)
<1>1. /\ root \in Subtree(s, root) /\ Subtree(s, root) \in SUBSET Node
      /\ Closed(s, Subtree(s, root))
  BY SubtreeClosed
<1>2. Closed(t, Subtree(s, root))
  BY <1>1 DEF Closed
<1> QED BY <1>1, <1>2, SubtreeLeast

\* A subtree stays the same as long as its own nodes keep their children, whatever
\* happens elsewhere in the store.
LEMMA SubtreeSame ==
  ASSUME NEW s, IsStore(s), NEW t, IsStore(t), NEW root \in Node,
         \A k \in Subtree(s, root) \cap Key : t.children[k] = s.children[k]
  PROVE  Subtree(t, root) = Subtree(s, root)
<1>1. /\ root \in Subtree(s, root) /\ Subtree(s, root) \in SUBSET Node
      /\ Closed(s, Subtree(s, root))
  BY SubtreeClosed
<1>2. /\ root \in Subtree(t, root) /\ Subtree(t, root) \in SUBSET Node
      /\ Closed(t, Subtree(t, root))
  BY SubtreeClosed
<1>3. Subtree(t, root) \subseteq Subtree(s, root)
  <2>1. Closed(t, Subtree(s, root))
    BY <1>1 DEF Closed
  <2> QED BY <1>1, <2>1, SubtreeLeast
<1>4. Closed(s, Subtree(t, root))
  BY <1>2, <1>3 DEF Closed
<1>5. Subtree(s, root) \subseteq Subtree(t, root)
  BY <1>2, <1>4, SubtreeLeast
<1> QED BY <1>3, <1>5

\* When a closed set of nodes is cut out of a store, a subtree loses nothing else.
LEMMA SubtreePruned ==
  ASSUME NEW s, IsStore(s), NEW t, IsStore(t), NEW root \in Node,
         NEW G \in SUBSET Node, Closed(s, G),
         \A k \in Key \ G : s.children[k] \subseteq t.children[k] \cup G
  PROVE  Subtree(s, root) \subseteq Subtree(t, root) \cup G
<1> DEFINE S == Subtree(t, root) \cup G
<1>1. /\ root \in Subtree(t, root) /\ Subtree(t, root) \in SUBSET Node
      /\ Closed(t, Subtree(t, root))
  BY SubtreeClosed
<1>2. S \in SUBSET Node /\ root \in S
  BY <1>1
<1>3. Closed(s, S)
  BY <1>1 DEF Closed
<1> QED BY <1>2, <1>3, SubtreeLeast

\* The empty store is consistent.
LEMMA EmptyConsistent == Consistent(EmptyStore)
  BY DEF EmptyStore, Consistent, IsStore, ChildrenMatch, NamesMatch, HasParent,
         HasKey, HasRec

\* RegisterWithParent keeps a store consistent, for a new KEY and for one that
\* moves from another parent.
LEMMA RegisterConsistent ==
  ASSUME NEW s, Consistent(s), NEW k \in Key, NEW p \in Key \cup {NoKey},
         NEW e \in Nat
  PROVE  Consistent(RegisterWithParent(s, k, p, e))
<1> DEFINE t == RegisterWithParent(s, k, p, e)
<1> USE NodeAssumption
<1>1. IsStore(t)
  BY DEF Consistent, IsStore, RegisterWithParent, ParentFor, Attach, Detach,
         Lease, Node
<1>2. ChildrenMatch(t)
  <2> SUFFICES ASSUME NEW q \in Key, NEW n \in Node
               PROVE  n \in t.children[q] <=> HasParent(t, n, q)
    BY DEF ChildrenMatch
  <2>1. n \in s.children[q] <=> HasParent(s, n, q)
    BY DEF Consistent, ChildrenMatch
  <2>2. CASE n = k
    BY <2>1, <2>2 DEF Consistent, IsStore, RegisterWithParent, Attach, Detach,
         HasParent, HasKey, HasRec, Node
  <2>3. CASE n # k
    BY <2>1, <2>3 DEF Consistent, IsStore, RegisterWithParent, Attach, Detach,
         HasParent, HasKey, HasRec, OwnerOf, Node
  <2> QED BY <2>2, <2>3
<1>3. NamesMatch(t)
  BY DEF Consistent, IsStore, NamesMatch, RegisterWithParent
<1> QED BY <1>1, <1>2, <1>3 DEF Consistent

\* RenewLease moves an expiry and nothing else.
LEMMA RenewConsistent ==
  ASSUME NEW s, Consistent(s), NEW k \in Key, NEW e \in Nat
  PROVE  Consistent(RenewLease(s, k, e))
<1> DEFINE t == RenewLease(s, k, e)
<1>1. IsStore(t)
  BY DEF Consistent, IsStore, RenewLease, Lease
<1>2. \A n, q : HasParent(t, n, q) <=> HasParent(s, n, q)
  BY DEF RenewLease, HasParent, HasKey, HasRec, OwnerOf, Consistent, IsStore
<1>3. ChildrenMatch(t)
  BY <1>2 DEF Consistent, IsStore, ChildrenMatch, RenewLease
<1>4. NamesMatch(t)
  BY DEF Consistent, IsStore, NamesMatch, RenewLease
<1> QED BY <1>1, <1>3, <1>4 DEF Consistent

\* UpsertNonKEYRecords keeps a store consistent when it does not fail.
LEMMA UpsertConsistent ==
  ASSUME NEW s, Consistent(s), NEW k \in Key, NEW recs \in SUBSET Rec,
         NEW e \in Nat, ~UpsertFails(s, k, recs)
  PROVE  Consistent(UpsertNonKEYRecords(s, k, recs, e))
<1> DEFINE t == UpsertNonKEYRecords(s, k, recs, e)
<1> USE NodeAssumption
<1>1. IsStore(t)
  BY DEF Consistent, IsStore, UpsertNonKEYRecords, Owned, Node
<1>2. ChildrenMatch(t)
  <2> SUFFICES ASSUME NEW q \in Key, NEW n \in Node
               PROVE  n \in t.children[q] <=> HasParent(t, n, q)
    BY DEF ChildrenMatch
  <2>1. n \in s.children[q] <=> HasParent(s, n, q)
    BY DEF Consistent, ChildrenMatch
  <2>2. CASE n \in recs
    <3>1. HasParent(t, n, q) <=> q = k
      BY <2>2 DEF UpsertNonKEYRecords, HasParent, HasKey, HasRec, OwnerOf,
                  Consistent, IsStore
    <3>2. HasParent(s, n, q) => q = k
      BY <2>2 DEF UpsertFails, HasParent, HasKey, HasRec, Consistent, IsStore
    <3> QED BY <2>1, <2>2, <3>1, <3>2 DEF UpsertNonKEYRecords, Consistent, IsStore
  <2>3. CASE n \notin recs
    <3>1. HasParent(t, n, q) <=> HasParent(s, n, q)
      BY <2>3 DEF UpsertNonKEYRecords, HasParent, HasKey, HasRec, OwnerOf,
                  Consistent, IsStore
    <3> QED BY <2>1, <2>3, <3>1 DEF UpsertNonKEYRecords, Consistent, IsStore
  <2> QED BY <2>2, <2>3
<1>3. NamesMatch(t)
  BY DEF Consistent, NamesMatch, UpsertNonKEYRecords, IsStore
<1> QED BY <1>1, <1>2, <1>3 DEF Consistent

\* Removing records an owner has, or nobody has, keeps a store consistent.
LEMMA RemoveConsistent ==
  ASSUME NEW s, Consistent(s), NEW k \in Key, NEW recs \in SUBSET Rec,
         \A r \in recs : ~RemoveFails(s, k, r)
  PROVE  Consistent(RemoveSingleNonKEYRecords(s, k, recs))
<1> DEFINE t == RemoveSingleNonKEYRecords(s, k, recs)
<1> USE NodeAssumption
<1>1. IsStore(t)
  BY DEF Consistent, IsStore, RemoveSingleNonKEYRecords
<1>2. ChildrenMatch(t)
  <2> SUFFICES ASSUME NEW q \in Key, NEW n \in Node
               PROVE  n \in t.children[q] <=> HasParent(t, n, q)
    BY DEF ChildrenMatch
  <2>1. n \in s.children[q] <=> HasParent(s, n, q)
    BY DEF Consistent, ChildrenMatch
  <2>2. HasParent(t, n, q) <=> HasParent(s, n, q) /\ n \notin recs
    BY DEF RemoveSingleNonKEYRecords, HasParent, HasKey, HasRec, OwnerOf,
           Consistent, IsStore
  <2>3. n \in recs /\ HasParent(s, n, q) => q = k /\ HasRec(s, n)
    BY DEF RemoveFails, HasParent, HasKey, HasRec, Consistent, IsStore
  <2> QED BY <2>1, <2>2, <2>3 DEF RemoveSingleNonKEYRecords, HasRec, Consistent, IsStore
<1>3. NamesMatch(t)
  BY DEF Consistent, NamesMatch, RemoveSingleNonKEYRecords, IsStore
<1> QED BY <1>1, <1>2, <1>3 DEF Consistent

\* DeleteSubtree keeps a store consistent: nothing that stays had its parent in
\* the subtree, so nothing that stays is left out of the index.
LEMMA DeleteConsistent ==
  ASSUME NEW s, Consistent(s), NEW root \in Node
  PROVE  Consistent(DeleteSubtree(s, root))
<1> DEFINE t == DeleteSubtree(s, root)
           gone == Subtree(s, root)
<1> USE NodeAssumption
<1>0. gone \subseteq Node /\ Closed(s, gone)
  BY SubtreeClosed DEF Consistent
<1>1. IsStore(t)
  BY DEF Consistent, IsStore, DeleteSubtree
<1>2. ChildrenMatch(t)
  <2> SUFFICES ASSUME NEW q \in Key, NEW n \in Node
               PROVE  n \in t.children[q] <=> HasParent(t, n, q)
    BY DEF ChildrenMatch
  <2>1. n \in s.children[q] <=> HasParent(s, n, q)
    BY DEF Consistent, ChildrenMatch
  <2>2. HasParent(t, n, q) <=> HasParent(s, n, q) /\ n \notin gone
    BY DEF DeleteSubtree, HasParent, HasKey, HasRec, OwnerOf
  <2>3. q \in gone /\ n \in s.children[q] => n \in gone
    BY <1>0 DEF Closed
  <2> QED BY <2>1, <2>2, <2>3 DEF DeleteSubtree
<1>3. NamesMatch(t)
  BY DEF Consistent, IsStore, NamesMatch, DeleteSubtree, HasKey
<1> QED BY <1>1, <1>2, <1>3 DEF Consistent

\* Loading what was saved gives the store back.
LEMMA RoundTrip ==
  ASSUME NEW s, Consistent(s)
  PROVE  ImportSnapshot(ExportSnapshot(s)) = s
<1> DEFINE t == ImportSnapshot(ExportSnapshot(s))
<1> USE NodeAssumption
<1>1. t.leases = s.leases /\ t.nonKeyRecords = s.nonKeyRecords
  BY DEF ImportSnapshot, ExportSnapshot
<1>2. t.nameIdx = s.nameIdx
  BY DEF ImportSnapshot, ExportSnapshot, Consistent, IsStore, NamesMatch
<1>3. ASSUME NEW k \in Key PROVE t.children[k] = s.children[k]
  <2>1. \A n \in Node : n \in t.children[k] <=> n \in s.children[k]
    BY DEF ImportSnapshot, ExportSnapshot, Consistent, IsStore, ChildrenMatch,
           HasParent, HasKey, HasRec, OwnerOf
  <2>2. t.children[k] \subseteq Node /\ s.children[k] \subseteq Node
    BY DEF ImportSnapshot, ExportSnapshot, Consistent, IsStore, Node
  <2> QED BY <2>1, <2>2
<1>4. t.children = s.children
  BY <1>3 DEF ImportSnapshot, Consistent, IsStore
<1> QED BY <1>1, <1>2, <1>4 DEF ImportSnapshot, Consistent, IsStore
===========================================================================
