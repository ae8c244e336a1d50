---------------------------- MODULE LeaseTree ----------------------------
(***************************************************************************)
(* The lease store, pkg/lease/state.go (InMemoryLeaseStore).  A node is a  *)
(* KEY or another record; each has the KEY that registered it as parent    *)
(* (NoKey for a root) and an expiry time.  "children" and "nameIdx" are    *)
(* redundant indices every writer has to keep in step.                     *)
(*                                                                         *)
(* A store is a value, and each method of InMemoryLeaseStore that writes   *)
(* is an operator from a store to the next one: the store's mutex makes    *)
(* each call atomic, and the handlers make several calls in a row.         *)
(***************************************************************************)
EXTENDS Naturals

CONSTANTS Key,      \* KEY nodes (NodeKey: name and key)
          Rec,      \* other records (RecordKey: name, type and data)
          Name,     \* domain names
          KeyName,  \* the owner name of each KEY
          NoKey     \* the parent of a root, "" in the code

Node == Key \cup Rec

\* KEYs and records have identities of different forms, and every KEY a name.
ASSUME NodeAssumption == /\ Key \cap Rec = {}
                         /\ NoKey \notin Node
                         /\ KeyName \in [Key -> Name]

Lease == [parent : Key \cup {NoKey}, expiresAt : Nat]
Owned == [parent : Key, expiresAt : Nat]

\* The stores, typed: leases and nonKeyRecords are maps, absent = not in DOMAIN.
IsStore(s) ==
  /\ s = [leases |-> s.leases, nonKeyRecords |-> s.nonKeyRecords,
          children |-> s.children, nameIdx |-> s.nameIdx]
  /\ DOMAIN s.leases \subseteq Key
  /\ s.leases \in [DOMAIN s.leases -> Lease]
  /\ DOMAIN s.nonKeyRecords \subseteq Rec
  /\ s.nonKeyRecords \in [DOMAIN s.nonKeyRecords -> Owned]
  /\ s.children \in [Key -> SUBSET Node]
  /\ s.nameIdx \in [Name -> SUBSET Key]

EmptyStore == [leases |-> [k \in {} |-> 0],
               nonKeyRecords |-> [r \in {} |-> 0],
               children |-> [k \in Key |-> {}],
               nameIdx |-> [n \in Name |-> {}]]

---------------------------------------------------------------------------
(* Reading.                                                                *)

IsExpired(lease, now) == now > lease.expiresAt

HasKey(s, k) == k \in DOMAIN s.leases
HasRec(s, r) == r \in DOMAIN s.nonKeyRecords

\* LookupByKEY and LookupBySIG: an expired lease that is still there is not seen.
Lookup(s, k, now) == HasKey(s, k) /\ ~IsExpired(s.leases[k], now)

\* FindByName: the unexpired KEYs at a name.
FindByName(s, name, now) == {k \in s.nameIdx[name] : Lookup(s, k, now)}

\* The owner of a stored record (LookupNonKEYRecord: expired or not).
OwnerOf(s, r) == s.nonKeyRecords[r].parent

\* The parent a stored node records, whatever its kind.
HasParent(s, n, k) == \/ HasKey(s, n) /\ s.leases[n].parent = k
                      \/ HasRec(s, n) /\ OwnerOf(s, n) = k

\* GetNonKEYRecordSet: the records among a node's children.
RecordSet(s, k) == {c \in s.children[k] : HasRec(s, c)}

\* ListOwners: every node with a lease or a record of its own.
ListOwners(s) == DOMAIN s.leases
                 \cup {OwnerOf(s, r) : r \in DOMAIN s.nonKeyRecords}

\* S is closed under the children index.
Closed(s, S) == \A n \in S \cap Key : s.children[n] \subseteq S

\* Faulty variant: the walk stops after one level.
SubtreeOneLevel(s, root) ==
  {root} \cup (IF root \in Key THEN s.children[root] ELSE {})

\* What the worklist of ListSubtreeKeys and of deleteSubtreeLocked collects:
\* the least closed set with the root in it.
Subtree(s, root) ==
  {n \in Node : \A S \in SUBSET Node : root \in S /\ Closed(s, S) => n \in S}

ListSubtreeKeys(s, root) == Subtree(s, root) \ {root}

---------------------------------------------------------------------------
(* Writing.                                                                *)

\* attachNodeLocked and detachNodeLocked: a root has no entry.
Attach(children, n, parent) ==
  [k \in Key |-> IF k = parent THEN children[k] \cup {n} ELSE children[k]]

Detach(children, n, parent) ==
  [k \in Key |-> IF k = parent THEN children[k] \ {n} ELSE children[k]]

\* A KEY that names itself as its parent is a root.
ParentFor(k, parent) == IF parent = k THEN NoKey ELSE parent

\* Faulty variant: a KEY registered again also stays with its former parent.
RegisterAttached(s, k, parent, expiresAt) ==
  [leases |-> [x \in DOMAIN s.leases \cup {k} |->
                 IF x = k THEN [parent |-> ParentFor(k, parent), expiresAt |-> expiresAt]
                          ELSE s.leases[x]],
   nonKeyRecords |-> s.nonKeyRecords,
   children |-> Attach(s.children, k, ParentFor(k, parent)),
   nameIdx |-> [n \in Name |-> IF n = KeyName[k] THEN s.nameIdx[n] \cup {k}
                                                 ELSE s.nameIdx[n]]]

\* RegisterWithParent creates the node, or rebuilds it under a new parent; its
\* own children stay where they are.
RegisterWithParent(s, k, parent, expiresAt) ==
  LET p == ParentFor(k, parent)
      detached == IF HasKey(s, k)
                    THEN Detach(s.children, k, s.leases[k].parent)
                    ELSE s.children
  IN  [leases |-> [x \in DOMAIN s.leases \cup {k} |->
                     IF x = k THEN [parent |-> p, expiresAt |-> expiresAt]
                              ELSE s.leases[x]],
       nonKeyRecords |-> s.nonKeyRecords,
       children |-> Attach(detached, k, p),
       nameIdx |-> [n \in Name |-> IF n = KeyName[k] THEN s.nameIdx[n] \cup {k}
                                                     ELSE s.nameIdx[n]]]

\* RenewLease moves the expiry of a node that exists, expired or not, and leaves
\* its place in the tree alone.
RenewLease(s, k, expiresAt) ==
  [s EXCEPT !.leases = [x \in DOMAIN s.leases |->
     IF x = k THEN [parent |-> s.leases[x].parent, expiresAt |-> expiresAt]
              ELSE s.leases[x]]]

\* UpsertNonKEYRecords fails, and writes nothing, if any record has another owner.
UpsertFails(s, owner, recs) == \E r \in recs : HasRec(s, r) /\ OwnerOf(s, r) # owner

UpsertNonKEYRecords(s, owner, recs, expiresAt) ==
  [leases |-> s.leases,
   nonKeyRecords |-> [r \in DOMAIN s.nonKeyRecords \cup recs |->
      IF r \in recs THEN [parent |-> owner, expiresAt |-> expiresAt]
                    ELSE s.nonKeyRecords[r]],
   children |-> [k \in Key |-> IF k = owner THEN s.children[k] \cup recs
                                           ELSE s.children[k]],
   nameIdx |-> s.nameIdx]

\* RemoveSingleNonKEYRecord fails on another node's record; a missing one is fine.
RemoveFails(s, owner, r) == HasRec(s, r) /\ OwnerOf(s, r) # owner

RemoveSingleNonKEYRecords(s, owner, recs) ==
  [leases |-> s.leases,
   nonKeyRecords |-> [r \in DOMAIN s.nonKeyRecords \ recs |-> s.nonKeyRecords[r]],
   children |-> [k \in Key |->
      IF k = owner THEN s.children[k] \ (recs \cap DOMAIN s.nonKeyRecords)
                   ELSE s.children[k]],
   nameIdx |-> s.nameIdx]

\* RemoveNonKEYRecords: all records among the node's children.
RemoveNonKEYRecords(s, owner) ==
  RemoveSingleNonKEYRecords(s, owner, RecordSet(s, owner))

\* deleteSubtreeLocked: every node the worklist reached leaves the maps, its
\* parent's child set and the name index, and its own child set goes.
DeleteSubtree(s, root) ==
  LET gone == Subtree(s, root)
  IN  [leases |-> [k \in DOMAIN s.leases \ gone |-> s.leases[k]],
       nonKeyRecords |-> [r \in DOMAIN s.nonKeyRecords \ gone |-> s.nonKeyRecords[r]],
       children |-> [k \in Key |-> IF k \in gone THEN {}
                                   ELSE s.children[k] \ {n \in gone : HasParent(s, n, k)}],
       nameIdx |-> [n \in Name |-> {k \in s.nameIdx[n] :
                                      ~(k \in gone /\ HasKey(s, k) /\ KeyName[k] = n)}]]

---------------------------------------------------------------------------
(* Snapshots.  Only the nodes are written; ImportSnapshot builds both       *)
(* indices from the parents again.                                          *)

ExportSnapshot(s) == [keys |-> s.leases, records |-> s.nonKeyRecords]

\* Faulty variant: records are not attached to their owners again.
ImportKeysOnly(snap) ==
  [leases |-> snap.keys,
   nonKeyRecords |-> snap.records,
   children |-> [k \in Key |-> {c \in DOMAIN snap.keys : snap.keys[c].parent = k}],
   nameIdx |-> [n \in Name |-> {k \in DOMAIN snap.keys : KeyName[k] = n}]]

ImportSnapshot(snap) ==
  [leases |-> snap.keys,
   nonKeyRecords |-> snap.records,
   children |-> [k \in Key |->
      {c \in DOMAIN snap.keys : snap.keys[c].parent = k}
      \cup {r \in DOMAIN snap.records : snap.records[r].parent = k}],
   nameIdx |-> [n \in Name |-> {k \in DOMAIN snap.keys : KeyName[k] = n}]]

---------------------------------------------------------------------------
(* What every writer keeps true of a store.                                *)

\* The children index and the parents the nodes record say the same.
ChildrenMatch(s) ==
  \A k \in Key, n \in Node : n \in s.children[k] <=> HasParent(s, n, k)

\* The name index lists exactly the KEYs stored at each name.
NamesMatch(s) ==
  \A n \in Name : s.nameIdx[n] = {k \in DOMAIN s.leases : KeyName[k] = n}

Consistent(s) == IsStore(s) /\ ChildrenMatch(s) /\ NamesMatch(s)
==========================================================================
