------------------------ MODULE UpdateHandlerProofs ------------------------
(***************************************************************************)
(* Proofs about the RFC 9664 handler for any KEYs, records, requests,      *)
(* slots, leases and any number of events: the store follows the DNS, no   *)
(* branch the code calls impossible is reached, no lease is without its    *)
(* timer, and a running KEY keeps its parent.                              *)
(*                                                                         *)
(* The heart of the argument is Planned: an operation past its checks      *)
(* holds the lock of everything its pending mutations will touch, so what  *)
(* the checks found stays true until the mutations run, whatever other     *)
(* operations do in the meantime.                                          *)
(***************************************************************************)
EXTENDS UpdateHandler, LeaseTreeProofs
USE Zenon

---------------------------------------------------------------------------
(* Small facts about the clock, leases and requests.                        *)

\* A clock that stands does not go back.
LEMMA SameTime ==
  ASSUME now \in Nat, now' = now
  PROVE  now' \in Nat /\ now <= now'
  BY SMT

\* The order of instants and leases.
LEMMA NatReflexive == \A a \in Nat : a <= a
  BY SMT

\* Instants are ordered.
LEMMA NatTransitive == \A a, b, c \in Nat : a <= b /\ b <= c => a <= c
  BY SMT

\* What has come is not to come.
LEMMA NatStrict == \A a, b \in Nat : a <= b => ~(b < a)
  BY SMT

\* One element is some.
LEMMA OneNotZero == 1 # 0
  BY SMT

\* A longer lease ends no earlier.
LEMMA NatSum == \A a, b, c \in Nat : a <= b => c + a <= c + b
  BY SMT

\* What ends within a lease from now ends within a lease from any later instant.
LEMMA LaterBound ==
  \A e, lease, t, u \in Nat : e <= t + lease /\ t <= u => e <= u + lease
  BY SMT

\* The fields of a KEY's lease.
LEMMA LeaseFields ==
  ASSUME NEW l, NEW parent, NEW end, l = [parent |-> parent, expiresAt |-> end]
  PROVE  l.parent = parent /\ l.expiresAt = end
  BY SMT

\* The parts of an UPDATE.
LEMMA UpdateFields ==
  ASSUME NEW u, NEW add, NEW del, u = [add |-> add, del |-> del]
  PROVE  u.add = add /\ u.del = del
  BY SMT

\* A request names KEYs.
LEMMA NamedKeys ==
  ASSUME NEW q, q.keys \in Seq(Key)
  PROVE  Keys(q) \subseteq Key
  BY SMT DEF Keys

---------------------------------------------------------------------------
(* Sequences.                                                               *)

\* The elements of a sequence.
Elems(s) == {s[i] : i \in DOMAIN s}

\* Taking the first element off a sequence leaves the others.
LEMMA HeadAndTail ==
  ASSUME NEW S, NEW s \in Seq(S), Len(s) # 0
  PROVE  /\ Head(s) \in S /\ Tail(s) \in Seq(S)
         /\ Elems(s) \subseteq S
         /\ Elems(s) = {Head(s)} \cup Elems(Tail(s))
         /\ Len(s) = 1 => Elems(Tail(s)) = {}
         /\ Len(s) # 1 => Len(Tail(s)) # 0
<1>2. Head(s) = s[1] /\ Tail(s) \in Seq(S) /\ Len(Tail(s)) = Len(s) - 1
  BY SMT
<1>5. \A i \in DOMAIN s : i = 1 \/ (i-1 \in DOMAIN Tail(s) /\ s[i] = Tail(s)[i-1])
  BY SMT
<1>7. Elems(s) \subseteq {Head(s)} \cup Elems(Tail(s))
  BY <1>2, <1>5, SMT DEF Elems
<1> QED BY <1>7, SMT DEF Elems

\* The elements of two sequences, one after the other.
LEMMA ElemsOfBoth ==
  ASSUME NEW S, NEW s \in Seq(S), NEW t \in Seq(S)
  PROVE  /\ s \o t \in Seq(S)
         /\ Elems(s \o t) = Elems(s) \cup Elems(t)
         /\ Len(s \o t) = Len(s) + Len(t)
<1>2. \A i \in DOMAIN s : i \in DOMAIN (s \o t) /\ (s \o t)[i] = s[i]
  BY SMT
<1>3. \A i \in DOMAIN t : Len(s) + i \in DOMAIN (s \o t) /\ (s \o t)[Len(s) + i] = t[i]
  BY SMT
<1>5. Elems(s \o t) \subseteq Elems(s) \cup Elems(t)
  BY SMT DEF Elems
<1>6. Elems(s) \cup Elems(t) \subseteq Elems(s \o t)
  BY <1>2, <1>3, Zenon DEF Elems
<1> QED BY <1>5, <1>6, SMT

\* A sequence of one element, and the one of none.
LEMMA ShortSeqs ==
  ASSUME NEW S
  PROVE  /\ <<>> \in Seq(S) /\ Elems(<<>>) = {}
         /\ \A x \in S : <<x>> \in Seq(S) /\ Len(<<x>>) = 1 /\ Elems(<<x>>) = {x}
  BY SMT DEF Elems

\* A sequence that is not empty has a length.
LEMMA SomeLength ==
  ASSUME NEW S, NEW s \in Seq(S), s # <<>>
  PROVE  Len(s) # 0
  BY SMT

\* A sequence made from another one, element by element.
LEMMA SameLength ==
  ASSUME NEW K, NEW S, NEW s \in Seq(K), NEW f \in [DOMAIN s -> S]
  PROVE  f \in Seq(S) /\ Len(f) = Len(s)
  BY SMT

---------------------------------------------------------------------------
(* What a mutation does to the store.                                       *)

MutationType ==
  [key : Key, how : {"register", "renew", "delete", "keep"}, lease : Nat,
   add : SUBSET Rec, del : SUBSET Rec, sched : BOOLEAN]

\* One list of mutations after another.
LEMMA MutationLists ==
  \A s, t \in Seq(MutationType) :
    /\ s \o t \in Seq(MutationType) /\ Elems(s \o t) = Elems(s) \cup Elems(t)
    /\ Len(s) # 0 \/ Len(t) # 0 => Len(s \o t) # 0
<1> SUFFICES ASSUME NEW s \in Seq(MutationType), NEW t \in Seq(MutationType)
             PROVE  /\ s \o t \in Seq(MutationType) /\ Elems(s \o t) = Elems(s) \cup Elems(t)
                    /\ Len(s) # 0 \/ Len(t) # 0 => Len(s \o t) # 0
  OBVIOUS
<1> HIDE DEF MutationType
<1> QED BY ElemsOfBoth, SMT

\* A mutation has its fields, each of its type.
LEMMA MutationFields ==
  ASSUME NEW m \in MutationType
  PROVE  /\ m.key \in Key /\ m.how \in {"register", "renew", "delete", "keep"}
         /\ m.lease \in Nat /\ m.add \in SUBSET Rec /\ m.del \in SUBSET Rec
         /\ m.sched \in BOOLEAN
  BY DEF MutationType

\* The nodes a mutation deletes with its KEY.
Gone(s, m) == IF m.how = "delete" THEN Subtree(s, m.key) ELSE {}

\* The leases of t are those of s after m: the KEY registered under the signer, renewed
\* or deleted with its subtree.
LeasesAfter(s, t, m, signer) ==
  /\ \A k \in Key : HasKey(t, k) <=> /\ HasKey(s, k) \/ (m.how = "register" /\ k = m.key)
                                     /\ k \notin Gone(s, m)
  /\ \A k \in DOMAIN t.leases :
       /\ k = m.key /\ m.how = "register"
            => t.leases[k] = [parent |-> ParentFor(k, signer), expiresAt |-> now + m.lease]
       /\ k = m.key /\ m.how = "renew"
            => t.leases[k] = [parent |-> s.leases[k].parent, expiresAt |-> now + m.lease]
       /\ k # m.key \/ m.how \in {"keep", "delete"} => t.leases[k] = s.leases[k]

\* The records of t are those of s with some added to the KEY of m and others removed.
RecordsAfter(s, t, m, add, del) ==
  /\ \A r \in Rec : HasRec(t, r) <=> /\ HasRec(s, r) \/ r \in add
                                     /\ r \notin del \cup Gone(s, m)
  /\ \A r \in DOMAIN t.nonKeyRecords :
       /\ r \in add => t.nonKeyRecords[r] = [parent |-> m.key, expiresAt |-> now + LeaseTime]
       /\ r \notin add => t.nonKeyRecords[r] = s.nonKeyRecords[r]

Effect(s, t, m, signer, add, del) ==
  Consistent(t) /\ LeasesAfter(s, t, m, signer) /\ RecordsAfter(s, t, m, add, del)

\* What happens to the node of a mutation, before its records.
LEMMA NodeEffect ==
  ASSUME Consistent(store), now \in Nat, NEW m \in MutationType,
         NEW signer \in Key \cup {NoKey}
  PROVE  Effect(store, NodeChange(m, signer), m, signer, {}, {})
<1> DEFINE s == NodeChange(m, signer)
<1> USE NodeAssumption
<1>0. m.key \in Key /\ now + m.lease \in Nat /\ m.key \in Node
  BY MutationFields, SMT DEF Node
<1>1. CASE m.how = "register"
  <2>1. s = RegisterWithParent(store, m.key, signer, now + m.lease)
    BY <1>1 DEF NodeChange
  <2>3. Gone(store, m) = {}
    BY <1>1 DEF Gone
  <2>4. LeasesAfter(store, s, m, signer)
    BY <1>1, <2>1, <2>3, SMT DEF LeasesAfter, RegisterWithParent, HasKey
  <2>5. RecordsAfter(store, s, m, {}, {})
    BY <2>1, <2>3, SMT DEF RecordsAfter, RegisterWithParent, HasRec
  <2> QED BY <2>1, <2>4, <2>5, <1>0, RegisterConsistent, SMT DEF Effect
<1>2. CASE m.how = "renew"
  <2>1. s = RenewLease(store, m.key, now + m.lease)
    BY <1>2 DEF NodeChange
  <2>3. Gone(store, m) = {}
    BY <1>2 DEF Gone
  <2>4. LeasesAfter(store, s, m, signer)
    BY <1>2, <2>1, <2>3, SMT DEF LeasesAfter, RenewLease, HasKey, Consistent, IsStore
  <2>5. RecordsAfter(store, s, m, {}, {})
    BY <2>1, <2>3 DEF RecordsAfter, RenewLease, HasRec, Consistent, IsStore
  <2> QED BY <2>4, <2>5, <1>0, <2>1, RenewConsistent, SMT DEF Effect
<1>3. CASE m.how = "delete"
  <2>1. s = DeleteSubtree(store, m.key)
    BY <1>3 DEF NodeChange
  <2>3. Gone(store, m) = Subtree(store, m.key)
    BY <1>3 DEF Gone
  <2>4. LeasesAfter(store, s, m, signer)
    BY <1>3, <2>1, <2>3, SMT DEF LeasesAfter, DeleteSubtree, HasKey
  <2>5. RecordsAfter(store, s, m, {}, {})
    BY <2>1, <2>3, SMT DEF RecordsAfter, DeleteSubtree, HasRec
  <2> QED BY <2>4, <2>5, <1>0, <2>1, DeleteConsistent, SMT DEF Effect
<1>4. CASE m.how = "keep"
  BY <1>4 DEF NodeChange, Gone, LeasesAfter, RecordsAfter, Effect
<1> QED BY <1>1, <1>2, <1>3, <1>4, MutationFields

\* Then the records of the node: those it gets, or those it loses.
LEMMA RecordEffect ==
  ASSUME now \in Nat, NEW m \in MutationType, NEW signer, NEW s,
         Effect(store, s, m, signer, {}, {}),
         m.add # {} => m.del = {} /\ ~UpsertFails(s, m.key, m.add),
         \A r \in m.del : ~RemoveFails(s, m.key, r),
         m.how = "delete" => m.add = {}
  PROVE  Effect(store, RecordChange(m, s), m, signer, m.add, m.del)
<1> DEFINE t == RecordChange(m, s)
<1>0. /\ m.key \in Key /\ m.add \in SUBSET Rec /\ m.del \in SUBSET Rec
      /\ now + LeaseTime \in Nat
  BY MutationFields, LeaseTimeAssumption, SMT
<1>t. Consistent(s) /\ DOMAIN s.nonKeyRecords \subseteq Rec
  BY DEF Effect, Consistent, IsStore
<1>1. CASE m.add # {}
  <2>1. t = UpsertNonKEYRecords(s, m.key, m.add, now + LeaseTime)
    BY <1>1 DEF RecordChange
  <2>2. Consistent(t)
    BY <1>0, <1>t, <1>1, <2>1, UpsertConsistent
  <2> QED BY <2>2, <2>1, <1>1, SMT DEF Effect, LeasesAfter, HasKey, UpsertNonKEYRecords,
             RecordsAfter, HasRec, Gone
<1>2. CASE m.add = {}
  <2>1. t = RemoveSingleNonKEYRecords(s, m.key, m.del)
    BY <1>2 DEF RecordChange
  <2>2. Consistent(t)
    BY <1>0, <1>t, <2>1, RemoveConsistent
  <2> QED BY <1>2, <2>2, <2>1, SMT DEF Effect, LeasesAfter, HasKey, RemoveSingleNonKEYRecords,
             RecordsAfter, HasRec
<1> QED BY <1>1, <1>2

---------------------------------------------------------------------------
(* The inductive invariant.                                                 *)

IsRequest(q) ==
  /\ q.signer \in Key /\ q.case \in {"A", "B", "C", "D"}
  /\ q.keys \in Seq(Key) /\ q.recs \subseteq Rec

\* What TypeOK leaves out: the requests, and which operation can be where.
OpTypes ==
  /\ DOMAIN request = Slot /\ DOMAIN mutations = Proc
  /\ \A p \in Slot : pc[p] # "idle" => IsRequest(request[p])

Sent == {"sending", "confirmed", "applying"}

\* An operation has its locks from the lock step to its end, and nobody else has them.
Exclusive ==
  /\ \A p \in Proc : p \in holds <=> pc[p] \in Sent \cup {"locked"}
  /\ \A p \in Proc \ holds : grant[p] = {}
  /\ \A p, q \in Proc : p # q => grant[p] \cap grant[q] = {}

\* A request that checks has the locks of what it names, a delete of all that is below.
Covered(p) ==
  LET q == request[p] IN
  /\ q.recs \subseteq grant[p]
  /\ IF q.case = "C" THEN \A k \in Keys(q) : Subtree(store, k) \subseteq grant[p]
                     ELSE {q.signer} \cup Keys(q) \subseteq grant[p]

SignerOf(p) == IF p \in Slot THEN request[p].signer ELSE NoKey

\* A registration adds what the UPDATE adds, below a node that is locked, and moves no
\* KEY whose lease is running.
RegisterReady(p, m) ==
  m.how = "register" =>
    /\ p \in Slot /\ m.key \in update[p].add /\ SignerOf(p) \in grant[p] \cap Key
    /\ m.sched /\ m.lease = KeyLeaseTime
    /\ Lookup(store, m.key, now)
       => store.leases[m.key].parent = ParentFor(m.key, SignerOf(p))

\* A renewal finds its KEY and never brings its end forward.
RenewReady(p, m) ==
  m.how = "renew" =>
    /\ HasKey(store, m.key) /\ m.key \in grant[p]
    /\ store.leases[m.key].expiresAt <= now + m.lease /\ m.lease <= KeyLeaseTime

\* A delete has the locks of the whole subtree and deleted all of its RRs upstream; the
\* delete of an expiry finds its KEY still expired.
DeleteReady(p, m) ==
  m.how = "delete" =>
    /\ Subtree(store, m.key) \subseteq grant[p]
    /\ SubtreeLeases(m.key) \subseteq update[p].del
    /\ m.add = {} /\ m.del = {}
    /\ p \in Key => m.key = p /\ (HasKey(store, p) => store.leases[p].expiresAt <= now)

\* Records come and go as in the UPDATE, and have no other owner; only a refresh may
\* find one that has.
RecordsReady(p, m) ==
  /\ m.add \subseteq update[p].add /\ m.del \subseteq update[p].del
  /\ m.add # {} => m.key = SignerOf(p) /\ m.key \in grant[p] /\ m.sched /\ m.del = {}
  /\ m.how # "renew" => ~UpsertFails(store, m.key, m.add)
  /\ \A r \in m.del : ~RemoveFails(store, m.key, r)

Ready(p, m) ==
  RegisterReady(p, m) /\ RenewReady(p, m) /\ DeleteReady(p, m) /\ RecordsReady(p, m)

Todo(p) == Elems(mutations[p])

\* The mutations of one operation do not get in each other's way.
Compatible(m, n) ==
  /\ m.key = n.key /\ m.how # "keep" /\ n.how # "keep" => m = n
  /\ m.add = {} \/ n.del = {}
  /\ m.how = "delete" => n.how \in {"keep", "delete"} /\ n.add = {}

Adds(m, n) == n \in m.add \/ (m.how = "register" /\ n = m.key)
Removes(m, n) == n \in m.del \/ (m.how = "delete" /\ n \in Subtree(store, m.key))

\* What the UPDATE changed and the store does not show yet is still to be done.
Complete(p) ==
  /\ \A n \in update[p].add : Leased(store, n) \/ \E m \in Todo(p) : Adds(m, n)
  /\ \A n \in update[p].del : Leased(store, n) => \E m \in Todo(p) : Removes(m, n)

\* An expiry has one mutation, which schedules its own node.
ExpiryPlan(p) ==
  p \in Key => /\ Len(mutations[p]) = 1
               /\ \A m \in Todo(p) : /\ m.key = p /\ m.sched /\ m.add = {}
                                     /\ m.how \in {"keep", "delete"}

Planned(p) ==
  /\ mutations[p] \in Seq(MutationType) /\ Len(mutations[p]) # 0
  /\ RRsOf(update[p]) \subseteq grant[p] /\ update[p].add \cap update[p].del = {}
  /\ \A m \in Todo(p) : Ready(p, m)
  /\ \A m, n \in Todo(p) : Compatible(m, n)
  /\ Complete(p)
  /\ ExpiryPlan(p)

\* A confirmed UPDATE stands until its mutations are done.
Published(p) ==
  \A n \in RRsOf(update[p]) \ doubt : n \in dns <=> n \in update[p].add

Operation(p) ==
  /\ p \in Slot /\ pc[p] = "locked" => Covered(p)
  /\ pc[p] \in Sent => Planned(p)
  /\ Applying(p) => Published(p)

\* No KEY is leased for longer than a whole KEY-LEASE from now.
LeasesBounded ==
  \A k \in DOMAIN store.leases : store.leases[k].expiresAt <= now + KeyLeaseTime

HandlerIInv ==
  /\ TypeOK /\ Consistent(store) /\ OpTypes /\ Exclusive
  /\ \A p \in Proc : Operation(p)
  /\ StoreMatchesDNS /\ NoPanic /\ TimerCoverage /\ LeasesBounded

---------------------------------------------------------------------------
(* What one operation's change leaves alone.                                *)

SameNode(s, t, n) ==
  /\ HasKey(t, n) <=> HasKey(s, n)
  /\ HasRec(t, n) <=> HasRec(s, n)
  /\ HasKey(s, n) => t.leases[n] = s.leases[n]
  /\ HasRec(s, n) => t.nonKeyRecords[n] = s.nonKeyRecords[n]

\* s and t agree on the nodes of g, and on the subtrees that lie within g.
Alike(s, t, g) ==
  /\ \A n \in g : SameNode(s, t, n)
  /\ \A root \in Node : Subtree(s, root) \subseteq g => Subtree(t, root) = Subtree(s, root)

\* A mutation touches the nodes its operation has locked, and puts nothing below
\* any other: all other operations find their nodes and subtrees as they were.
LEMMA OthersAlike ==
  ASSUME Consistent(store), Consistent(store'), NEW q \in Proc, NEW m \in MutationType,
         NEW add \in SUBSET m.add, NEW del \in SUBSET m.del,
         Effect(store, store', m, SignerOf(q), add, del), Ready(q, m),
         RRsOf(update[q]) \subseteq grant[q], NEW g \in SUBSET Node, g \cap grant[q] = {}
  PROVE  Alike(store, store', g)
<1> USE NodeAssumption
<1>0. /\ m.key \in Key /\ m.how \in {"register", "renew", "delete", "keep"}
      /\ add \in SUBSET Rec /\ del \in SUBSET Rec
      /\ DOMAIN store.leases \subseteq Key /\ DOMAIN store'.leases \subseteq Key
      /\ DOMAIN store.nonKeyRecords \subseteq Rec /\ DOMAIN store'.nonKeyRecords \subseteq Rec
  BY MutationFields DEF Consistent, IsStore
<1>1. /\ m.how \in {"register", "renew"} => m.key \in grant[q]
      /\ Gone(store, m) \subseteq grant[q]
      /\ add \subseteq grant[q] /\ del \subseteq grant[q]
      /\ add # {} => m.key \in grant[q]
      /\ m.how = "register" => SignerOf(q) \in grant[q]
  BY DEF Ready, RegisterReady, RenewReady, DeleteReady, RecordsReady, RRsOf, Gone
<1>2. ASSUME NEW n \in Node, n \notin grant[q] PROVE SameNode(store, store', n)
  <2>1. /\ HasKey(store', n) <=> HasKey(store, n)
        /\ HasKey(store, n) => store'.leases[n] = store.leases[n]
    BY <1>0, <1>1, <1>2, Zenon DEF Effect, LeasesAfter, HasKey, Node
  <2> QED BY <2>1, <1>0, <1>1, <1>2 DEF SameNode, Effect, RecordsAfter, HasRec
<1>3. ASSUME NEW n \in Node, NEW x \in Key, x \notin grant[q], HasParent(store', n, x)
      PROVE  HasParent(store, n, x)
  <2>1. CASE HasKey(store', n) /\ store'.leases[n].parent = x
    <3>2. ~(m.how = "register" /\ n = m.key)
      <4> SUFFICES ASSUME m.how = "register", n = m.key PROVE FALSE
        OBVIOUS
      <4>1. store'.leases[n] = [parent |-> ParentFor(n, SignerOf(q)),
                                expiresAt |-> now + m.lease]
        BY <2>1 DEF Effect, LeasesAfter, HasKey
      <4> QED BY <1>1, <1>3, <2>1, <4>1, SMT DEF ParentFor, Node
    <3>3. store'.leases[n].parent = store.leases[n].parent
      <4>1. CASE n = m.key /\ m.how = "renew"
        <5>1. store'.leases[n] = [parent |-> store.leases[n].parent,
                                  expiresAt |-> now + m.lease]
          BY <2>1, <4>1 DEF Effect, LeasesAfter, HasKey
        <5> QED BY <5>1, SMT
      <4>2. CASE ~(n = m.key /\ m.how = "renew")
        BY <1>0, <2>1, <3>2, <4>2, Zenon DEF Effect, LeasesAfter, HasKey
      <4> QED BY <4>1, <4>2
    <3> QED BY <2>1, <3>2, <3>3, <1>0 DEF HasParent, Effect, LeasesAfter, HasKey
  <2>2. CASE HasRec(store', n) /\ OwnerOf(store', n) = x
    BY <1>1, <1>3, <2>2, <1>0, SMT DEF Effect, RecordsAfter, HasRec, OwnerOf, HasParent
  <2> QED BY <1>3, <2>1, <2>2 DEF HasParent
<1>4. ASSUME NEW root \in Node, Subtree(store, root) \subseteq g
      PROVE  Subtree(store', root) = Subtree(store, root)
  <2>1. ASSUME NEW x \in Subtree(store, root) \cap Key
        PROVE  store'.children[x] = store.children[x]
    <3>3. \A n \in Node : n \in store.children[x] <=> HasParent(store, n, x)
      BY DEF Consistent, ChildrenMatch
    <3>4. \A n \in Node : n \in store'.children[x] <=> HasParent(store', n, x)
      BY DEF Consistent, ChildrenMatch
    <3>6. ASSUME NEW n \in store.children[x] PROVE n \in store'.children[x]
      BY <1>2, <3>3, <3>4, <1>4, SubtreeClosed, SMT DEF SameNode, HasParent, OwnerOf, Closed,
         Consistent
    <3> QED BY <1>3, <3>3, <3>4, <3>6, <1>4, Zenon DEF Consistent, IsStore
  <2> QED BY <2>1, SubtreeSame DEF Consistent
<1> QED BY <1>2, <1>4 DEF Alike

\* What a consistent store says of a stored KEY and of a stored record.
LEMMA StoredNodes ==
  ASSUME NEW s, Consistent(s)
  PROVE  /\ DOMAIN s.leases \subseteq Key /\ DOMAIN s.nonKeyRecords \subseteq Rec
         /\ \A k \in DOMAIN s.leases : /\ s.leases[k].parent \in Key \cup {NoKey}
                                       /\ s.leases[k].expiresAt \in Nat
         /\ \A r \in DOMAIN s.nonKeyRecords : /\ s.nonKeyRecords[r].parent \in Key
                                              /\ s.nonKeyRecords[r].expiresAt \in Nat
  BY DEF Consistent, IsStore, Lease, Owned

\* A step leaves p's plan alone: all p has to itself, the nodes it has locked and the
\* subtrees within them.
Undisturbed(p) ==
  /\ grant'[p] = grant[p] /\ update'[p] = update[p]
  /\ mutations'[p] = mutations[p] /\ (p \in Slot => request'[p] = request[p])
  /\ now <= now'
  /\ Alike(store, store', grant[p])

\* And p itself, and the RRs it has locked as far as they are not in doubt.
Kept(p) ==
  /\ pc'[p] = pc[p] /\ Undisturbed(p)
  /\ \A n \in grant[p] \ doubt' : n \notin doubt /\ (n \in dns' <=> n \in dns)

\* A mutation stays ready while others work.
LEMMA ReadyKept ==
  ASSUME Consistent(store), now \in Nat, now' \in Nat, NEW p \in Proc, Undisturbed(p),
         RRsOf(update[p]) \subseteq grant[p], NEW m \in MutationType, Ready(p, m)
  PROVE  Ready(p, m)'
<1>0. /\ m.key \in Key /\ m.key \in Node /\ m.lease \in Nat
  BY MutationFields DEF Node
<1>1. /\ grant'[p] = grant[p] /\ update'[p] = update[p] /\ SignerOf(p)' = SignerOf(p)
      /\ now <= now' /\ \A n \in grant[p] : SameNode(store, store', n)
      /\ update[p].add \subseteq grant[p] /\ update[p].del \subseteq grant[p]
  BY DEF Undisturbed, Alike, SignerOf, RRsOf
<1>4. DeleteReady(p, m)'
  <2> SUFFICES ASSUME m.how = "delete"
               PROVE  DeleteReady(p, m)'
    BY DEF DeleteReady
  <2>5. p \in Key /\ HasKey(store', p) => store'.leases[p].expiresAt <= now'
    BY <1>1, <1>0, SubtreeClosed, StoredNodes, SMT DEF Ready, DeleteReady, Consistent, SameNode,
       HasKey
  <2> QED BY <2>5, <1>0 DEF Ready, DeleteReady, SubtreeLeases, Leased, SameNode, Undisturbed,
             Alike
<1>5. RecordsReady(p, m)'
  BY <1>1 DEF Ready, RecordsReady, UpsertFails, SameNode, OwnerOf, RemoveFails
<1> QED BY <1>4, <1>5, <1>1, StoredNodes, <1>0, SMT DEF Ready, RegisterReady, SameNode, Lookup,
           IsExpired, HasKey, RenewReady

\* So does the whole plan of an operation.
LEMMA PlanKept ==
  ASSUME Consistent(store), now \in Nat, now' \in Nat, NEW p \in Proc, Undisturbed(p), Planned(p)
  PROVE  Planned(p)'
<1>1. /\ mutations'[p] = mutations[p] /\ update'[p] = update[p] /\ grant'[p] = grant[p]
      /\ Todo(p)' = Todo(p) /\ \A n \in grant[p] : SameNode(store, store', n)
      /\ \A root \in Node : Subtree(store, root) \subseteq grant[p]
           => Subtree(store', root) = Subtree(store, root)
  BY DEF Undisturbed, Todo, Alike
<1>2. /\ RRsOf(update[p]) \subseteq grant[p]
      /\ Todo(p) \subseteq MutationType
  BY HeadAndTail DEF Planned, Todo
<1>3. ASSUME NEW m \in Todo(p) PROVE Ready(p, m)'
  BY <1>2, ReadyKept DEF Planned
<1>4. Complete(p)'
  <2>1. ASSUME NEW n \in RRsOf(update[p]) PROVE Leased(store', n) <=> Leased(store, n)
    BY <1>1, <1>2 DEF Leased, SameNode
  <2>2. ASSUME NEW m \in Todo(p), NEW n, Removes(m, n) PROVE Removes(m, n)'
    BY <1>2, MutationFields, <1>1, <2>2 DEF Planned, Ready, DeleteReady, Node, Removes
  <2> QED BY <1>1, <2>1, <2>2 DEF Complete, Planned, RRsOf
<1> QED BY <1>1, <1>3, <1>4 DEF Planned, ExpiryPlan

\* And so does everything the invariant says of the operation.
LEMMA OperationKept ==
  ASSUME Consistent(store), now \in Nat, now' \in Nat, NEW p \in Proc, Kept(p),
         Operation(p), OpTypes
  PROVE  Operation(p)'
<1>1. pc'[p] = pc[p] /\ Undisturbed(p) /\ grant'[p] = grant[p] /\ update'[p] = update[p]
  BY DEF Kept, Undisturbed
<1>2. ASSUME p \in Slot, pc[p] = "locked" PROVE Covered(p)'
  BY <1>2, <1>1, SMT DEF Operation, Undisturbed, OpTypes, IsRequest, Keys, Node, Alike, Covered
<1>4. ASSUME Applying(p) PROVE Published(p)'
  BY <1>4, <1>1 DEF Operation, Applying, Sent, Planned, Published, Kept
<1> QED BY <1>1, <1>2, <1>4, PlanKept DEF Operation, Applying

---------------------------------------------------------------------------
(* What an operation's own mutation does to the rest of its plan.           *)

\* A node enters or leaves the store only as the UPDATE says.
LEMMA LeasedAsSent ==
  ASSUME Consistent(store), Consistent(store'), NEW q \in Proc, NEW m \in MutationType,
         NEW add \in SUBSET m.add, NEW del \in SUBSET m.del,
         Effect(store, store', m, SignerOf(q), add, del), Ready(q, m), NEW n \in Node
  PROVE  /\ Leased(store', n) /\ ~Leased(store, n) => n \in update[q].add
         /\ Leased(store, n) /\ ~Leased(store', n) => n \in update[q].del
<1> USE NodeAssumption
<1>0. /\ DOMAIN store.leases \subseteq Key /\ DOMAIN store'.leases \subseteq Key
      /\ DOMAIN store.nonKeyRecords \subseteq Rec /\ DOMAIN store'.nonKeyRecords \subseteq Rec
      /\ add \subseteq Rec /\ del \subseteq Rec
  BY StoredNodes, MutationFields
<1>1. /\ add \subseteq update[q].add /\ del \subseteq update[q].del
      /\ m.how = "register" => m.key \in update[q].add
  BY DEF Ready, RegisterReady, RecordsReady
<1>2. ASSUME n \in Gone(store, m), Leased(store, n) PROVE n \in update[q].del
  BY <1>2 DEF Gone, Ready, DeleteReady, SubtreeLeases
<1>3. CASE n \in Key
  BY <1>0, <1>1, <1>2, <1>3 DEF Effect, LeasesAfter, Leased, HasKey, HasRec
<1>4. CASE n \in Rec
  BY <1>0, <1>1, <1>2, <1>4 DEF Effect, RecordsAfter, Leased, HasKey, HasRec
<1> QED BY <1>3, <1>4 DEF Node

\* A mutation that adds nothing only takes nodes out of the tree.
LEMMA Pruning ==
  ASSUME Consistent(store), Consistent(store'), NEW m \in MutationType, NEW signer,
         Effect(store, store', m, signer, {}, m.del), m.how \in {"keep", "delete"}
  PROVE  LET G == m.del \cup Gone(store, m) IN
         /\ G \in SUBSET Node /\ Closed(store, G)
         /\ \A n \in G : ~Leased(store', n)
         /\ \A n \in Node \ G : SameNode(store, store', n)
         /\ \A k \in Key : /\ store'.children[k] \subseteq store.children[k]
                           /\ store.children[k] \subseteq store'.children[k] \cup G
<1> DEFINE G == m.del \cup Gone(store, m)
<1> USE NodeAssumption
<1>0. /\ DOMAIN store.leases \subseteq Key /\ DOMAIN store'.leases \subseteq Key
      /\ DOMAIN store.nonKeyRecords \subseteq Rec /\ DOMAIN store'.nonKeyRecords \subseteq Rec
      /\ m.del \in SUBSET Rec /\ m.key \in Node
  BY StoredNodes, MutationFields DEF Node
<1>3. ASSUME NEW n \in G PROVE ~Leased(store', n)
  BY <1>0 DEF Effect, LeasesAfter, Leased, HasKey, HasRec, RecordsAfter
<1>4. ASSUME NEW n \in Node \ G PROVE SameNode(store, store', n)
  BY <1>0, Zenon DEF Effect, LeasesAfter, SameNode, HasKey, HasRec, RecordsAfter
<1>5. ASSUME NEW k \in Key
      PROVE  /\ store'.children[k] \subseteq store.children[k]
             /\ store.children[k] \subseteq store'.children[k] \cup G
  <2>4. \A n \in Node \ G : HasParent(store', n, k) <=> HasParent(store, n, k)
    BY <1>4 DEF SameNode, HasParent, OwnerOf
  <2> QED BY <2>4, <1>3 DEF Consistent, IsStore, ChildrenMatch, HasParent, Leased
<1> QED BY <1>3, <1>4, <1>5, <1>0, SubtreeClosed DEF Closed, Node, Gone, Consistent

\* An operation's mutation leaves its other mutations ready.
LEMMA ReadyAfter ==
  ASSUME Consistent(store), Consistent(store'), now \in Nat, now' = now, NEW p \in Proc,
         grant'[p] = grant[p], update'[p] = update[p], SignerOf(p)' = SignerOf(p),
         NEW m \in MutationType, NEW n \in MutationType, Ready(p, m), Ready(p, n),
         Compatible(m, n), Compatible(n, m),
         Effect(store, store', m, SignerOf(p), m.add, m.del)
  PROVE  Ready(p, n)'
<1>0. /\ m.key \in Key /\ n.key \in Key /\ m.lease \in Nat /\ n.lease \in Nat
      /\ m.key \in Node /\ n.key \in Node
      /\ m.how \in {"register", "renew", "delete", "keep"}
      /\ DOMAIN store.leases \subseteq Key /\ DOMAIN store'.leases \subseteq Key
      /\ DOMAIN store.nonKeyRecords \subseteq Rec /\ DOMAIN store'.nonKeyRecords \subseteq Rec
      /\ m.add \subseteq Rec /\ n.add \subseteq Rec /\ n.del \subseteq Rec
  BY StoredNodes, MutationFields DEF Node
<1>1. ASSUME n.how \in {"register", "renew"}, n # m
      PROVE  /\ HasKey(store', n.key) <=> HasKey(store, n.key)
             /\ HasKey(store, n.key) => store'.leases[n.key] = store.leases[n.key]
  BY <1>1, <1>0, Zenon DEF Compatible, Gone, Effect, LeasesAfter, HasKey
<1>2. RegisterReady(p, n)'
  <2> SUFFICES ASSUME n.how = "register", Lookup(store', n.key, now)
               PROVE  store'.leases[n.key].parent = ParentFor(n.key, SignerOf(p))
    BY DEF RegisterReady, Ready
  <2>1. CASE n = m
    <3>1. store'.leases[n.key] = [parent |-> ParentFor(n.key, SignerOf(p)),
                                  expiresAt |-> now + m.lease]
      BY <2>1, Zenon DEF Effect, LeasesAfter, Lookup, HasKey
    <3> QED BY <3>1, SMT
  <2>2. CASE n # m
    BY <1>1, <2>2 DEF Ready, RegisterReady, Lookup
  <2> QED BY <2>1, <2>2
<1>3. RenewReady(p, n)'
  <2> SUFFICES ASSUME n.how = "renew"
               PROVE  HasKey(store', n.key) /\ store'.leases[n.key].expiresAt <= now + n.lease
    BY DEF RenewReady, Ready
  <2>1. CASE n = m
    <3>2. HasKey(store', n.key)
      BY <1>0, <2>1 DEF Ready, RenewReady, Effect, LeasesAfter, Gone
    <3>3. store'.leases[n.key] = [parent |-> store.leases[n.key].parent,
                                  expiresAt |-> now + m.lease]
      BY <2>1, <3>2, Zenon DEF Effect, LeasesAfter, HasKey
    <3> QED BY <1>0, <2>1, <3>2, <3>3, SMT
  <2>2. CASE n # m
    BY <1>1, <2>2 DEF Ready, RenewReady
  <2> QED BY <2>1, <2>2
<1>4. DeleteReady(p, n)'
  <2> SUFFICES ASSUME n.how = "delete" PROVE DeleteReady(p, n)'
    BY DEF DeleteReady
  <2> DEFINE G == m.del \cup Gone(store, m)
  <2>2. /\ \A x \in G : ~Leased(store', x)
        /\ \A x \in Node \ G : SameNode(store, store', x)
        /\ \A k \in Key : store'.children[k] \subseteq store.children[k]
    BY Pruning, Zenon DEF Compatible
  <2>3. Subtree(store', n.key) \subseteq Subtree(store, n.key)
    BY <1>0, <2>2, SubtreeShrinks DEF Consistent
  <2> QED BY <2>3, <1>0, <2>2 DEF Ready, DeleteReady, SubtreeLeases, Subtree, Leased, SameNode
<1>5. RecordsReady(p, n)'
  <2>1. ASSUME n.how # "renew", NEW r \in n.add, HasRec(store', r)
        PROVE  OwnerOf(store', r) = n.key
    BY <2>1, <1>0, SMT DEF Effect, RecordsAfter, HasRec, Ready, RecordsReady, OwnerOf, UpsertFails
  <2>2. ASSUME NEW r \in n.del, HasRec(store', r) PROVE OwnerOf(store', r) = n.key
    BY <2>2, <1>0 DEF Compatible, Effect, RecordsAfter, HasRec, OwnerOf, Ready, RecordsReady,
       RemoveFails
  <2> QED BY <2>1, <2>2 DEF Ready, RecordsReady, UpsertFails, RemoveFails
<1> QED BY <1>2, <1>3, <1>4, <1>5 DEF Ready

\* What the first mutation of a plan did not do, the others will.
LEMMA CompleteAfter ==
  ASSUME Consistent(store), Consistent(store'), NEW p \in Proc, Planned(p),
         NEW m, m = Head(mutations[p]),
         Effect(store, store', m, SignerOf(p), m.add, m.del)
  PROVE  LET rest == Elems(Tail(mutations[p])) IN
         /\ \A n \in update[p].add \cap Node :
              Leased(store', n) \/ \E x \in rest : Adds(x, n)
         /\ \A n \in update[p].del \cap Node :
              Leased(store', n) => \E x \in rest : Removes(x, n)'
<1> DEFINE rest == Elems(Tail(mutations[p]))
<1> USE NodeAssumption
<1>0. /\ Todo(p) = {m} \cup rest /\ Todo(p) \subseteq MutationType /\ m \in MutationType
      /\ update[p].add \cap update[p].del = {}
      /\ Ready(p, m) /\ \A x \in Todo(p) : Compatible(x, m)
  BY HeadAndTail, SMT DEF Planned, Todo
<1>1. /\ DOMAIN store.leases \subseteq Key /\ DOMAIN store'.leases \subseteq Key
      /\ DOMAIN store.nonKeyRecords \subseteq Rec /\ DOMAIN store'.nonKeyRecords \subseteq Rec
      /\ m.key \in Key /\ m.add \in SUBSET Rec /\ m.del \in SUBSET Rec
  BY <1>0, StoredNodes, MutationFields
<1>2. ASSUME NEW n \in Node
      PROVE  /\ Leased(store', n) /\ ~Leased(store, n) => n \in update[p].add
             /\ Leased(store, n) /\ ~Leased(store', n) => n \in update[p].del
  BY <1>0, LeasedAsSent
<1>3. ASSUME NEW n \in update[p].add \cap Node, ~Leased(store', n)
      PROVE  \E x \in rest : Adds(x, n)
  <2>2. PICK x \in Todo(p) : Adds(x, n)
    BY <1>3, <1>2 DEF Planned, Complete
  <2>3. x # m
    <3> SUFFICES ASSUME x = m PROVE FALSE
      OBVIOUS
    <3>1. CASE n \in m.add
      BY <1>0, <3>1, <1>1, <1>3 DEF Ready, DeleteReady, RecordsReady, Gone, Effect,
         RecordsAfter, Leased
    <3>2. CASE m.how = "register" /\ n = m.key
      BY <3>2, <1>1, <1>3 DEF Gone, Effect, LeasesAfter, Leased
    <3> QED BY <2>2, <3>1, <3>2 DEF Adds
  <2> QED BY <1>0, <2>2, <2>3
<1>4. ASSUME NEW n \in update[p].del \cap Node, Leased(store', n)
      PROVE  \E x \in rest : Removes(x, n)'
  <2>2. PICK x \in Todo(p) : Removes(x, n)
    BY <1>4, <1>2 DEF Planned, Complete
  <2>3. x # m
    BY <1>1, <1>4, <2>2 DEF Effect, RecordsAfter, Leased, HasKey, HasRec, Gone, LeasesAfter,
       Removes
  <2>4. CASE n \in x.del
    BY <1>0, <2>3, <2>4 DEF Removes
  <2>5. CASE x.how = "delete" /\ n \in Subtree(store, x.key)
    <3> DEFINE G == m.del \cup Gone(store, m)
    <3>1. m.how \in {"keep", "delete"} /\ m.add = {}
      BY <1>0, <2>5 DEF Compatible
    <3>2. /\ G \in SUBSET Node /\ Closed(store, G)
          /\ \A y \in G : ~Leased(store', y)
          /\ \A k \in Key : store.children[k] \subseteq store'.children[k] \cup G
      <4>1. Effect(store, store', m, SignerOf(p), {}, m.del)
        BY <3>1, Zenon
      <4> QED BY <1>0, <3>1, <4>1, Pruning, Zenon
    <3>4. Subtree(store, x.key) \subseteq Subtree(store', x.key) \cup G
      BY <3>2, SubtreePruned, <1>0, MutationFields, SMT DEF Consistent, Node
    <3>5. n \in Subtree(store', x.key)
      BY <1>4, <2>5, <3>2, <3>4
    <3> QED BY <1>0, <2>3, <2>5, <3>5 DEF Removes
  <2> QED BY <2>2, <2>4, <2>5 DEF Removes
<1> QED BY <1>3, <1>4

\* After one mutation of several, the plan goes on.
LEMMA PlanAdvances ==
  ASSUME Consistent(store), Consistent(store'), now \in Nat, now' = now,
         NEW p \in Proc, Planned(p), Len(mutations[p]) # 1, RRsOf(update[p]) \subseteq Node,
         grant'[p] = grant[p], update'[p] = update[p], SignerOf(p)' = SignerOf(p),
         mutations'[p] = Tail(mutations[p]),
         NEW m, m = Head(mutations[p]),
         Effect(store, store', m, SignerOf(p), m.add, m.del)
  PROVE  Planned(p)'
<1>1. /\ m \in Todo(p) /\ Todo(p) \subseteq MutationType /\ Todo(p)' \subseteq Todo(p)
      /\ Todo(p)' = Elems(Tail(mutations[p]))
      /\ mutations'[p] \in Seq(MutationType) /\ Len(mutations'[p]) # 0
  BY HeadAndTail, SMT DEF Planned, Todo
<1>2. ASSUME NEW n \in Todo(p)' PROVE Ready(p, n)'
  BY <1>1, ReadyAfter DEF Planned
<1> QED BY <1>1, <1>2, CompleteAfter DEF Planned, Complete, RRsOf, ExpiryPlan

\* After the last one, the store has what the UPDATE added and not what it deleted.
LEMMA PlanDone ==
  ASSUME Consistent(store), Consistent(store'), NEW p \in Proc, Planned(p),
         Len(mutations[p]) = 1, NEW m, m = Head(mutations[p]),
         Effect(store, store', m, SignerOf(p), m.add, m.del)
  PROVE  /\ \A n \in update[p].add \cap Node : Leased(store', n)
         /\ \A n \in update[p].del \cap Node : ~Leased(store', n)
  BY HeadAndTail, CompleteAfter, SMT DEF Planned

---------------------------------------------------------------------------
(* The checks make a plan that can be carried out.                          *)

\* The lease left of a KEY is no longer than a KEY-LEASE and never brings its end forward.
LEMMA RemainingLease ==
  ASSUME Consistent(store), now \in Nat, LeasesBounded, NEW k, HasKey(store, k)
  PROVE  /\ Remaining(k) \in Nat /\ Remaining(k) <= KeyLeaseTime
         /\ store.leases[k].expiresAt <= now + Remaining(k)
         /\ store.leases[k].expiresAt <= now + KeyLeaseTime
  BY StoredNodes, LeaseTimeAssumption, SMT DEF HasKey, LeasesBounded, Remaining

\* The mutation that registers or refreshes a KEY; a refresh never brings the KEY's end
\* forward, and never leases it for longer than a KEY-LEASE.
LEMMA KeyMutationMade ==
  ASSUME Consistent(store), now \in Nat, LeasesBounded, NEW k \in Key,
         NEW add \in SUBSET Rec, NEW del \in SUBSET Rec, NEW m, m = KeyMutation(k, add, del)
  PROVE  /\ m \in MutationType /\ m.key = k /\ m.add = add /\ m.del = del /\ m.sched
         /\ ~Lookup(store, k, now) => m.how = "register" /\ m.lease = KeyLeaseTime
         /\ Lookup(store, k, now) =>
              /\ m.how = "renew" /\ HasKey(store, k)
              /\ store.leases[k].expiresAt <= now + m.lease /\ m.lease <= KeyLeaseTime
<1> USE LeaseTimeAssumption
<1>1. ASSUME HasKey(store, k)
      PROVE  /\ RefreshLease(k) \in Nat /\ RefreshLease(k) <= KeyLeaseTime
             /\ store.leases[k].expiresAt <= now + RefreshLease(k)
  BY <1>1, RemainingLease, SMT DEF RefreshLease
<1>2. CASE Lookup(store, k, now)
  BY <1>2, <1>1 DEF KeyMutation, Renew, Lookup, Mutation, MutationType
<1>3. CASE ~Lookup(store, k, now)
  BY <1>3 DEF KeyMutation, Register, Mutation, MutationType
<1> QED BY <1>2, <1>3

\* What each case adds and deletes.
LEMMA UpdateParts ==
  ASSUME NEW q
  PROVE  /\ UpdateA(q).add = q.recs \cup {k \in Keys(q) : Lookup(store, k, now) => ~KeyAtName(k)}
         /\ UpdateA(q).del = {}
         /\ UpdateB(q).add = q.recs \cup (IF KeyAtName(q.signer) THEN {} ELSE {q.signer})
         /\ UpdateB(q).del = {}
         /\ UpdateC(q).add = {}
         /\ UpdateC(q).del =
              OwnRecords(q) \cup UNION {SubtreeLeases(k) : k \in {x \in Keys(q) : DeletableKey(q, x)}}
         /\ UpdateD(q).add = Keys(q)
         /\ UpdateD(q).del = UNION {Own(q, k) : k \in Keys(q)}
  BY DEF UpdateA, UpdateB, UpdateC, UpdateD

\* What a check leaves alone, and what it fixes.
LEMMA CheckFixes ==
  ASSUME HandlerIInv, NEW p \in Slot, Check(p)
  PROVE  LET q == request[p] IN
         /\ p \in Proc /\ p \notin Key
         /\ IsRequest(q) /\ Keys(q) \subseteq Key /\ Accepts(q) /\ Covered(p)
         /\ store' = store /\ now' = now /\ grant'[p] = grant[p] /\ request' = request
         /\ update'[p] = UpdateFor(q) /\ mutations'[p] = MutationsFor(q)
         /\ SignerOf(p)' = q.signer
<1>1. p \in Proc /\ p \notin Key
  BY HandlerAssumption DEF Proc, Node
<1>5. /\ Accepts(request[p])
      /\ update' = [update EXCEPT ![p] = UpdateFor(request[p])]
      /\ mutations' = [mutations EXCEPT ![p] = MutationsFor(request[p])]
      /\ store' = store /\ now' = now /\ grant' = grant /\ request' = request
  BY Zenon DEF Check, lockVars, envVars
<1>6. IsRequest(request[p]) /\ Covered(p)
  BY <1>1 DEF Check, HandlerIInv, Operation, OpTypes
<1>7. Keys(request[p]) \subseteq Key
  BY <1>6, NamedKeys DEF IsRequest
<1>8. update'[p] = UpdateFor(request[p]) /\ mutations'[p] = MutationsFor(request[p])
  BY <1>1, <1>5 DEF HandlerIInv, TypeOK, OpTypes
<1> QED BY <1>1, <1>5, <1>6, <1>7, <1>8 DEF SignerOf

\* In Cases A and D, the mutation of each KEY is ready.
LEMMA KeyMutationReady ==
  ASSUME HandlerIInv, NEW p \in Slot, Check(p), request[p].case # "C",
         NEW k \in Keys(request[p]), NEW add \in SUBSET Scoped(request[p], k),
         NEW del \in SUBSET Own(request[p], k), add = {} \/ del = {},
         add \subseteq update'[p].add, del \subseteq update'[p].del,
         Lookup(store, k, now) \/ (k \in update'[p].add /\ ~UpsertFails(store, k, add)),
         NEW m, m = KeyMutation(k, add, del)
  PROVE  /\ Ready(p, m)' /\ m \in MutationType /\ m.key = k /\ m.add = add /\ m.del = del
         /\ m.how \in {"register", "renew"} /\ (~Lookup(store, k, now) => m.how = "register")
<1> DEFINE q == request[p]
<1>0. /\ p \in Proc /\ p \notin Key /\ k \in Key /\ store' = store /\ now' = now
      /\ grant'[p] = grant[p] /\ SignerOf(p)' = q.signer /\ Covered(p) /\ IsRequest(q)
  BY CheckFixes
<1>1. add \in SUBSET Rec /\ del \in SUBSET Rec /\ (add # {} => k = q.signer)
  BY <1>0 DEF Scoped, Own, IsRequest
<1>3. /\ m \in MutationType /\ m.key = k /\ m.add = add /\ m.del = del /\ m.sched
      /\ ~Lookup(store, k, now) => m.how = "register" /\ m.lease = KeyLeaseTime
      /\ Lookup(store, k, now) =>
           /\ m.how = "renew" /\ HasKey(store, k)
           /\ store.leases[k].expiresAt <= now + m.lease /\ m.lease <= KeyLeaseTime
  <2>1. Consistent(store) /\ now \in Nat /\ LeasesBounded
    BY DEF HandlerIInv, TypeOK
  <2> QED BY <1>0, <1>1, <2>1, KeyMutationMade, SMT
<1>4. q.signer \in grant[p] /\ q.signer \in Key /\ k \in grant[p]
  BY <1>0 DEF Covered, IsRequest
<1>5. RegisterReady(p, m)'
  BY <1>0, <1>3, <1>4 DEF RegisterReady
<1>6. RenewReady(p, m)'
  BY <1>0, <1>3, <1>4 DEF RenewReady
<1>8. RecordsReady(p, m)'
  BY <1>3, <1>0, <1>1, <1>4 DEF Own, RemoveFails, RecordsReady
<1> QED BY <1>3, <1>5, <1>6, <1>8 DEF Ready, DeleteReady

\* The mutation that gives the signer its records is ready if no record is another's.
LEMMA UpsertReady ==
  ASSUME HandlerIInv, NEW p \in Slot, Check(p), request[p].case # "C",
         request[p].recs \subseteq update'[p].add,
         ~Duplicate(request[p].signer, request[p].recs),
         NEW m, m = Upsert(request[p].signer, request[p].recs)
  PROVE  /\ Ready(p, m)' /\ m \in MutationType /\ m.how = "keep"
         /\ m.add = request[p].recs /\ m.del = {}
<1> DEFINE q == request[p]
<1>0. /\ p \in Proc /\ p \notin Key /\ store' = store /\ now' = now
      /\ grant'[p] = grant[p] /\ SignerOf(p)' = q.signer /\ Covered(p) /\ IsRequest(q)
  BY CheckFixes
<1>1. q.signer \in Key /\ q.recs \in SUBSET Rec /\ q.signer \in grant[p]
  BY <1>0 DEF IsRequest, Covered
<1>2. /\ m \in MutationType /\ m.key = q.signer /\ m.how = "keep"
      /\ m.add = q.recs /\ m.del = {} /\ m.sched
  BY <1>1 DEF Upsert, Mutation, MutationType
<1> QED BY <1>2, <1>0, <1>1 DEF Ready, RegisterReady, RenewReady, DeleteReady, RecordsReady,
           Duplicate, UpsertFails

\* Case A.
LEMMA PlanA ==
  ASSUME HandlerIInv, NEW p \in Slot, Check(p), request[p].case = "A"
  PROVE  Planned(p)'
<1> DEFINE q == request[p]
           KM(k) == KeyMutation(k, Scoped(q, k), {})
           up == Upsert(q.signer, q.recs)
<1> USE NodeAssumption
<1>0. /\ p \in Proc /\ p \notin Key /\ IsRequest(q) /\ Keys(q) \subseteq Key /\ Accepts(q)
      /\ Covered(p) /\ store' = store /\ now' = now /\ grant'[p] = grant[p]
      /\ update'[p] = UpdateFor(q) /\ mutations'[p] = MutationsFor(q)
  BY CheckFixes
<1>1. /\ AcceptsA(q) /\ update'[p] = UpdateA(q) /\ mutations'[p] = MutationsA(q)
  BY <1>0 DEF Accepts, UpdateFor, MutationsFor
<1>2. /\ update'[p].add = q.recs \cup {k \in Keys(q) : Lookup(store, k, now) => ~KeyAtName(k)}
      /\ update'[p].del = {}
  BY <1>1, UpdateParts
<1>3. q.keys \in Seq(Key) /\ Len(q.keys) # 0 /\ q.signer \in Key /\ q.recs \in SUBSET Rec
  <2>1. q.keys \in Seq(Key) /\ q.signer \in Key /\ q.recs \in SUBSET Rec
    BY <1>0 DEF IsRequest
  <2>2. q.keys # <<>>
    BY <1>1 DEF AcceptsA
  <2> QED BY <2>1, <2>2, SomeLength
<1>4. ASSUME NEW k \in Keys(q), NEW m, m = KM(k)
      PROVE  /\ Ready(p, m)' /\ m \in MutationType /\ m.key = k /\ m.add = Scoped(q, k)
             /\ m.del = {} /\ m.how \in {"register", "renew"}
             /\ ~Lookup(store, k, now) => m.how = "register"
  BY <1>2, <1>1, <1>4, KeyMutationReady, SMT DEF Scoped, AcceptsA, Duplicate, UpsertFails
<1>5. ASSUME ~SignerInUpdate(q), NEW m, m = up
      PROVE  /\ Ready(p, m)' /\ m \in MutationType /\ m.how = "keep"
             /\ m.add = q.recs /\ m.del = {}
  BY <1>1, <1>2, <1>5, UpsertReady, Zenon DEF AcceptsA
<1>6. /\ mutations'[p] \in Seq(MutationType) /\ Len(mutations'[p]) # 0
      /\ Todo(p)' = {KM(k) : k \in Keys(q)} \cup (IF SignerInUpdate(q) THEN {} ELSE {up})
  <2> DEFINE a == [i \in DOMAIN q.keys |-> KM(q.keys[i])]
             b == IF SignerInUpdate(q) THEN <<>> ELSE <<up>>
  <2>1. mutations'[p] = a \o b
    BY <1>1 DEF MutationsA
  <2> HIDE DEF KM, up
  <2>2. a \in [DOMAIN q.keys -> MutationType]
    <3>1. \A k \in Keys(q) : KM(k) \in MutationType
      BY <1>4
    <3> QED BY <3>1 DEF Keys
  <2>3. a \in Seq(MutationType) /\ Len(a) # 0
    <3> HIDE DEF a
    <3> QED BY <1>3, <2>2, SameLength, SMT
  <2>4. Elems(a) = {KM(k) : k \in Keys(q)}
    BY Zenon DEF Elems, Keys
  <2>5. b \in Seq(MutationType) /\ Elems(b) = IF SignerInUpdate(q) THEN {} ELSE {up}
    <3>1. CASE SignerInUpdate(q)
      BY <3>1, ShortSeqs
    <3>2. CASE ~SignerInUpdate(q)
      BY <1>5, <3>2, ShortSeqs
    <3> QED BY <3>1, <3>2
  <2> HIDE DEF a, b
  <2>6. /\ a \o b \in Seq(MutationType) /\ Elems(a \o b) = Elems(a) \cup Elems(b)
        /\ Len(a \o b) # 0
    BY <2>3, <2>5, MutationLists
  <2> QED BY <2>1, <2>4, <2>5, <2>6 DEF Todo
<1> HIDE DEF KM, up
<1>7. ASSUME NEW m \in Todo(p)'
      PROVE  /\ Ready(p, m)' /\ m.del = {} /\ m.how # "delete"
             /\ m.how # "keep" => m = KM(m.key)
  <2>1. (\E k \in Keys(q) : m = KM(k)) \/ (~SignerInUpdate(q) /\ m = up)
    BY <1>6
  <2> QED BY <1>4, <1>5, <2>1
<1>8. ASSUME NEW m \in Todo(p)', NEW n \in Todo(p)' PROVE Compatible(m, n)
  BY <1>7 DEF Compatible
<1>9. Complete(p)'
  <2>1. ASSUME NEW n \in update'[p].add
        PROVE  Leased(store', n) \/ \E m \in Todo(p)' : Adds(m, n)
    <3>1. CASE n \in q.recs /\ SignerInUpdate(q)
      <4>2. KM(q.signer) \in Todo(p)' /\ KM(q.signer).add = q.recs
        <5>1. q.signer \in Keys(q) /\ Scoped(q, q.signer) = q.recs
          BY <3>1 DEF SignerInUpdate, Keys, Scoped
        <5> QED BY <1>4, <1>6, <5>1
      <4> QED BY <3>1, <4>2 DEF Adds
    <3>2. CASE n \in q.recs /\ ~SignerInUpdate(q)
      BY <1>5, <1>6, <3>2 DEF Adds
    <3>3. CASE n \in Keys(q) /\ Lookup(store, n, now)
      BY <1>0, <3>3 DEF Lookup, Leased
    <3>4. CASE n \in Keys(q) /\ ~Lookup(store, n, now)
      <4>1. PICK m : m = KM(n)
        OBVIOUS
      <4>2. m.how = "register" /\ m.key = n
        BY <1>4, <3>4, <4>1
      <4>3. m \in Todo(p)'
        BY <1>6, <3>4, <4>1
      <4> QED BY <4>2, <4>3 DEF Adds
    <3> QED BY <1>2, <3>1, <3>2, <3>3, <3>4
  <2> QED BY <1>2, <2>1 DEF Complete
<1>10. RRsOf(update'[p]) \subseteq grant'[p] /\ update'[p].add \cap update'[p].del = {}
  BY <1>0, <1>2 DEF Covered, RRsOf
<1>11. ExpiryPlan(p)'
  BY <1>0 DEF ExpiryPlan
<1> QED BY <1>6, <1>7, <1>8, <1>9, <1>10, <1>11 DEF Planned

\* Case D.
LEMMA PlanD ==
  ASSUME HandlerIInv, NEW p \in Slot, Check(p), request[p].case = "D"
  PROVE  Planned(p)'
<1> DEFINE q == request[p]
           KM(k) == KeyMutation(k, {}, Own(q, k))
<1> USE NodeAssumption
<1>0. /\ p \in Proc /\ p \notin Key /\ IsRequest(q) /\ Keys(q) \subseteq Key /\ Accepts(q)
      /\ Covered(p) /\ store' = store /\ now' = now /\ grant'[p] = grant[p]
      /\ update'[p] = UpdateFor(q) /\ mutations'[p] = MutationsFor(q)
  BY CheckFixes
<1>1. /\ AcceptsD(q) /\ update'[p] = UpdateD(q) /\ mutations'[p] = MutationsD(q)
  BY <1>0 DEF Accepts, UpdateFor, MutationsFor
<1>2. update'[p].add = Keys(q) /\ update'[p].del = UNION {Own(q, k) : k \in Keys(q)}
  BY <1>1, UpdateParts
<1>3. q.keys \in Seq(Key) /\ Len(q.keys) # 0 /\ q.recs \in SUBSET Rec
  BY <1>0, <1>1, SomeLength DEF IsRequest, AcceptsD
<1>4. ASSUME NEW k \in Keys(q), NEW m, m = KM(k)
      PROVE  /\ Ready(p, m)' /\ m \in MutationType /\ m.key = k /\ m.add = {}
             /\ m.del = Own(q, k) /\ m.how \in {"register", "renew"}
             /\ ~Lookup(store, k, now) => m.how = "register"
  BY <1>2, <1>4, KeyMutationReady, SMT DEF UpsertFails
<1>5. /\ mutations'[p] \in Seq(MutationType) /\ Len(mutations'[p]) # 0
      /\ Todo(p)' = {KM(k) : k \in Keys(q)}
  <2> DEFINE a == [i \in DOMAIN q.keys |-> KM(q.keys[i])]
  <2>1. mutations'[p] = a
    BY <1>1 DEF MutationsD
  <2> HIDE DEF KM
  <2>2. a \in [DOMAIN q.keys -> MutationType]
    <3>1. \A k \in Keys(q) : KM(k) \in MutationType
      BY <1>4
    <3> QED BY <3>1 DEF Keys
  <2>3. Elems(a) = {KM(k) : k \in Keys(q)}
    BY Zenon DEF Elems, Keys
  <2> HIDE DEF a
  <2>4. a \in Seq(MutationType) /\ Len(a) # 0
    BY <1>3, <2>2, SameLength, SMT
  <2> QED BY <2>1, <2>3, <2>4 DEF Todo
<1> HIDE DEF KM
<1>6. ASSUME NEW m \in Todo(p)'
      PROVE  Ready(p, m)' /\ m.add = {} /\ m = KM(m.key) /\ m.how # "delete"
  <2>1. PICK k \in Keys(q) : m = KM(k)
    BY <1>5
  <2> QED BY <1>4, <2>1
<1>7. ASSUME NEW m \in Todo(p)', NEW n \in Todo(p)' PROVE Compatible(m, n)
  BY <1>6 DEF Compatible
<1>8. Complete(p)'
  <2>1. ASSUME NEW n \in update'[p].add
        PROVE  Leased(store', n) \/ \E m \in Todo(p)' : Adds(m, n)
    <3>1. CASE Lookup(store, n, now)
      BY <1>0, <3>1 DEF Lookup, Leased
    <3>2. CASE ~Lookup(store, n, now)
      <4>1. PICK m : m = KM(n)
        OBVIOUS
      <4>2. m.how = "register" /\ m.key = n
        BY <1>2, <1>4, <3>2, <4>1
      <4>3. m \in Todo(p)'
        BY <1>2, <1>5, <4>1
      <4> QED BY <4>2, <4>3 DEF Adds
    <3> QED BY <3>1, <3>2
  <2>2. ASSUME NEW n \in update'[p].del
        PROVE  \E m \in Todo(p)' : Removes(m, n)'
    <3>1. PICK k \in Keys(q) : n \in Own(q, k)
      BY <1>2
    <3>2. KM(k) \in Todo(p)' /\ KM(k).del = Own(q, k)
      BY <1>4, <1>5
    <3> QED BY <3>1, <3>2 DEF Removes
  <2> QED BY <2>1, <2>2 DEF Complete
<1>9. RRsOf(update'[p]) \subseteq grant'[p] /\ update'[p].add \cap update'[p].del = {}
  <2>1. update'[p].del \subseteq q.recs
    BY <1>2 DEF Own, Scoped
  <2>2. q.recs \subseteq grant'[p] /\ Keys(q) \subseteq grant'[p] /\ q.recs \cap Keys(q) = {}
    BY <1>0, <1>3 DEF Covered
  <2> QED BY <1>2, <2>1, <2>2 DEF RRsOf
<1>10. ExpiryPlan(p)'
  BY <1>0 DEF ExpiryPlan
<1> QED BY <1>5, <1>6, <1>7, <1>8, <1>9, <1>10 DEF Planned

\* Case B.
LEMMA PlanB ==
  ASSUME HandlerIInv, NEW p \in Slot, Check(p), request[p].case = "B"
  PROVE  Planned(p)'
<1> DEFINE q == request[p]
           up == Upsert(q.signer, q.recs)
           re == Mutation(q.signer, "renew", Remaining(q.signer), {}, {}, FALSE)
<1> USE NodeAssumption
<1>0. /\ p \in Proc /\ p \notin Key /\ IsRequest(q) /\ Keys(q) \subseteq Key /\ Accepts(q)
      /\ Covered(p) /\ store' = store /\ now' = now /\ grant'[p] = grant[p]
      /\ update'[p] = UpdateFor(q) /\ mutations'[p] = MutationsFor(q)
  BY CheckFixes
<1>1. /\ AcceptsB(q) /\ update'[p] = UpdateB(q) /\ mutations'[p] = MutationsB(q)
  BY <1>0 DEF Accepts, UpdateFor, MutationsFor
<1>2. /\ update'[p].add = q.recs \cup (IF KeyAtName(q.signer) THEN {} ELSE {q.signer})
      /\ update'[p].del = {}
  BY <1>1, UpdateParts
<1>3. /\ q.signer \in Key /\ q.recs \in SUBSET Rec /\ HasKey(store, q.signer)
      /\ q.signer \in grant[p] /\ q.recs \subseteq grant[p]
  BY <1>0, <1>1 DEF IsRequest, AcceptsB, Lookup, Covered
<1>4. ASSUME NEW m, m = up
      PROVE  /\ Ready(p, m)' /\ m \in MutationType /\ m.how = "keep"
             /\ m.add = q.recs /\ m.del = {}
  BY <1>1, <1>2, <1>4, UpsertReady, Zenon DEF AcceptsB
<1>5. ASSUME NEW m, m = re
      PROVE  /\ Ready(p, m)' /\ m \in MutationType /\ m.how = "renew"
             /\ m.add = {} /\ m.del = {}
  <2>2. /\ Remaining(q.signer) \in Nat /\ Remaining(q.signer) <= KeyLeaseTime
        /\ store.leases[q.signer].expiresAt <= now + Remaining(q.signer)
    BY <1>3, RemainingLease DEF HandlerIInv, TypeOK
  <2> QED BY <1>0, <1>3, <2>2, <1>5 DEF Ready, RegisterReady, DeleteReady, RenewReady,
             RecordsReady, Mutation, MutationType
<1>6. /\ mutations'[p] \in Seq(MutationType) /\ Len(mutations'[p]) # 0
      /\ Todo(p)' = {up} \cup (IF KeyAtName(q.signer) THEN {} ELSE {re})
  <2>1. mutations'[p] = (IF KeyAtName(q.signer) THEN <<>> ELSE <<re>>) \o <<up>>
    BY <1>1 DEF MutationsB
  <2>2. up \in MutationType /\ re \in MutationType
    BY <1>4, <1>5, Zenon
  <2> HIDE DEF up, re
  <2>5. <<up>> \in Seq(MutationType) /\ Len(<<up>>) # 0 /\ Elems(<<up>>) = {up}
    BY <2>2, ShortSeqs, OneNotZero
  <2>6. <<re>> \in Seq(MutationType) /\ Elems(<<re>>) = {re}
    BY <2>2, ShortSeqs
  <2>7. <<>> \in Seq(MutationType) /\ Elems(<<>>) = {}
    BY ShortSeqs
  <2>3. CASE KeyAtName(q.signer)
    <3>1. mutations'[p] = <<>> \o <<up>>
      BY <2>1, <2>3
    <3>2. /\ <<>> \o <<up>> \in Seq(MutationType) /\ Elems(<<>> \o <<up>>) = {} \cup {up}
          /\ Len(<<>> \o <<up>>) # 0
      BY <2>5, <2>7, MutationLists
    <3> QED BY <2>3, <3>1, <3>2 DEF Todo
  <2>4. CASE ~KeyAtName(q.signer)
    <3>1. mutations'[p] = <<re>> \o <<up>>
      BY <2>1, <2>4
    <3>2. /\ <<re>> \o <<up>> \in Seq(MutationType) /\ Elems(<<re>> \o <<up>>) = {re} \cup {up}
          /\ Len(<<re>> \o <<up>>) # 0
      BY <2>5, <2>6, MutationLists
    <3> QED BY <2>4, <3>1, <3>2 DEF Todo
  <2> QED BY <2>3, <2>4
<1> HIDE DEF up, re
<1>7. ASSUME NEW m \in Todo(p)' PROVE Ready(p, m)'
  BY <1>4, <1>5, <1>6
<1>8. ASSUME NEW m \in Todo(p)', NEW n \in Todo(p)' PROVE Compatible(m, n)
  BY <1>4, <1>5, <1>6 DEF Compatible
<1>9. Complete(p)'
  BY <1>4, <1>6, <1>0, <1>3, <1>2 DEF Adds, Leased, Complete
<1>10. RRsOf(update'[p]) \subseteq grant'[p] /\ update'[p].add \cap update'[p].del = {}
  BY <1>0, <1>2, <1>3 DEF RRsOf
<1>11. ExpiryPlan(p)'
  BY <1>0 DEF ExpiryPlan
<1> QED BY <1>6, <1>7, <1>8, <1>9, <1>10, <1>11 DEF Planned

\* Case C.
LEMMA PlanC ==
  ASSUME HandlerIInv, NEW p \in Slot, Check(p), request[p].case = "C"
  PROVE  Planned(p)'
<1> DEFINE q == request[p]
           own == Mutation(q.signer, "keep", 0, {}, OwnRecords(q), FALSE)
           KM(k) == Mutation(k, IF DeletableKey(q, k) THEN "delete" ELSE "keep",
                             0, {}, {}, FALSE)
<1> USE NodeAssumption
<1>0. /\ p \in Proc /\ p \notin Key /\ IsRequest(q) /\ Keys(q) \subseteq Key
      /\ Covered(p) /\ store' = store /\ now' = now /\ grant'[p] = grant[p]
      /\ update'[p] = UpdateFor(q) /\ mutations'[p] = MutationsFor(q)
  BY CheckFixes
<1>1. update'[p] = UpdateC(q) /\ mutations'[p] = MutationsC(q)
  BY <1>0 DEF UpdateFor, MutationsFor
<1>2. /\ update'[p].add = {}
      /\ update'[p].del =
           OwnRecords(q) \cup UNION {SubtreeLeases(k) : k \in {x \in Keys(q) : DeletableKey(q, x)}}
  BY <1>1, UpdateParts
<1>3. /\ q.keys \in Seq(Key) /\ q.signer \in Key /\ q.recs \in SUBSET Rec
      /\ OwnRecords(q) \subseteq q.recs /\ q.recs \subseteq grant[p]
      /\ \A k \in Keys(q) : Subtree(store, k) \subseteq grant[p]
  BY <1>0 DEF IsRequest, OwnRecords, Covered
<1>4. ASSUME NEW m, m = own
      PROVE  /\ Ready(p, m)' /\ m \in MutationType /\ m.how = "keep" /\ m.add = {}
             /\ m.del = OwnRecords(q)
  <2>1. /\ m \in MutationType /\ m.how = "keep" /\ m.add = {} /\ m.del = OwnRecords(q)
        /\ m.key = q.signer
    BY <1>3, <1>4 DEF Mutation, MutationType
  <2> QED BY <2>1, <1>0, <1>2 DEF Ready, RegisterReady, RenewReady, DeleteReady, RecordsReady,
             UpsertFails, OwnRecords, RemoveFails
<1>5. ASSUME NEW k \in Keys(q), NEW m, m = KM(k)
      PROVE  /\ Ready(p, m)' /\ m \in MutationType /\ m.key = k /\ m.add = {} /\ m.del = {}
             /\ m.how \in {"keep", "delete"} /\ (DeletableKey(q, k) => m.how = "delete")
  <2>1. /\ m \in MutationType /\ m.key = k /\ m.add = {} /\ m.del = {}
        /\ m.how = IF DeletableKey(q, k) THEN "delete" ELSE "keep"
    BY <1>0, <1>5 DEF Mutation, MutationType
  <2>2. ASSUME m.how = "delete" PROVE SubtreeLeases(k) \subseteq update'[p].del
    BY <1>2, <2>1, <2>2
  <2>3. DeleteReady(p, m)'
    BY <1>0, <1>3, <2>1, <2>2 DEF DeleteReady, SubtreeLeases
  <2>4. RecordsReady(p, m)'
    BY <2>1 DEF RecordsReady, UpsertFails
  <2> QED BY <2>1, <2>3, <2>4 DEF Ready, RegisterReady, RenewReady
<1>6. /\ mutations'[p] \in Seq(MutationType) /\ Len(mutations'[p]) # 0
      /\ Todo(p)' = {own} \cup {KM(k) : k \in Keys(q)}
  <2> DEFINE a == <<own>>
             b == [i \in DOMAIN q.keys |-> KM(q.keys[i])]
  <2>1. mutations'[p] = a \o b
    BY <1>1 DEF MutationsC
  <2> HIDE DEF KM, own
  <2>2. b \in [DOMAIN q.keys -> MutationType]
    <3>1. \A k \in Keys(q) : KM(k) \in MutationType
      BY <1>5
    <3> QED BY <3>1 DEF Keys
  <2>4. a \in Seq(MutationType) /\ Len(a) # 0 /\ Elems(a) = {own}
    BY <1>4, ShortSeqs, OneNotZero
  <2>5. Elems(b) = {KM(k) : k \in Keys(q)}
    BY Zenon DEF Elems, Keys
  <2> HIDE DEF a, b
  <2>7. b \in Seq(MutationType)
    BY <1>3, <2>2, SameLength, SMT
  <2>8. /\ a \o b \in Seq(MutationType) /\ Elems(a \o b) = Elems(a) \cup Elems(b)
        /\ Len(a \o b) # 0
    BY <2>4, <2>7, MutationLists
  <2> QED BY <2>1, <2>4, <2>5, <2>8 DEF Todo
<1> HIDE DEF KM, own
<1>7. ASSUME NEW m \in Todo(p)'
      PROVE  /\ Ready(p, m)' /\ m.add = {} /\ m.how \in {"keep", "delete"}
             /\ m.how # "keep" => m = KM(m.key)
  <2>1. (\E k \in Keys(q) : m = KM(k)) \/ m = own
    BY <1>6
  <2>2. CASE \E k \in Keys(q) : m = KM(k)
    BY <1>5, <2>2
  <2>3. CASE m = own
    BY <1>4, <2>3
  <2> QED BY <2>1, <2>2, <2>3
<1>8. ASSUME NEW m \in Todo(p)', NEW n \in Todo(p)' PROVE Compatible(m, n)
  BY <1>7 DEF Compatible
<1>9. Complete(p)'
  <2>1. ASSUME NEW n \in update'[p].del PROVE \E m \in Todo(p)' : Removes(m, n)'
    <3>1. CASE n \in OwnRecords(q)
      <4>1. own \in Todo(p)' /\ own.del = OwnRecords(q)
        BY <1>4, <1>6
      <4> QED BY <3>1, <4>1 DEF Removes
    <3>2. CASE n \notin OwnRecords(q)
      <4>1. PICK k \in Keys(q) : DeletableKey(q, k) /\ n \in SubtreeLeases(k)
        BY <1>2, <3>2
      <4>2. KM(k) \in Todo(p)' /\ KM(k).how = "delete" /\ KM(k).key = k
        BY <1>5, <1>6, <4>1
      <4> QED BY <1>0, <4>1, <4>2 DEF Removes, SubtreeLeases
    <3> QED BY <3>1, <3>2
  <2> QED BY <1>2, <2>1 DEF Complete
<1>10. RRsOf(update'[p]) \subseteq grant'[p] /\ update'[p].add \cap update'[p].del = {}
  <2>1. ASSUME NEW n \in update'[p].del PROVE n \in grant'[p]
    <3>1. n \in OwnRecords(q) \/ \E k \in Keys(q) : n \in SubtreeLeases(k)
      BY <1>2
    <3> QED BY <1>0, <1>3, <3>1 DEF SubtreeLeases
  <2> QED BY <1>2, <2>1 DEF RRsOf
<1>11. ExpiryPlan(p)'
  BY <1>0 DEF ExpiryPlan
<1> QED BY <1>6, <1>7, <1>8, <1>9, <1>10, <1>11 DEF Planned

\* An expiry locks the node and all below it, and ends what is due there.
LEMMA PlanExpiry ==
  ASSUME HandlerIInv, NEW p \in Key, Expire(p)
  PROVE  Planned(p)'
<1> DEFINE m == ExpiryMutation(p)
<1> USE NodeAssumption
<1>0. /\ p \in Proc /\ p \in Node /\ Consistent(store) /\ IsStore(store)
      /\ DOMAIN update = Proc /\ DOMAIN mutations = Proc
  BY DEF HandlerIInv, TypeOK, OpTypes, Proc, Node, Consistent
<1>1. /\ store' = store /\ now' = now
      /\ update' = [update EXCEPT ![p] = [add |-> {}, del |-> Ending(p)]]
      /\ mutations' = [mutations EXCEPT ![p] = <<ExpiryMutation(p)>>]
      /\ Locks!Grant(p, ExpiryLockSet(p))
  BY Zenon DEF Expire, envVars
<1>2. /\ update'[p].add = {} /\ update'[p].del = Ending(p) /\ mutations'[p] = <<m>>
  BY <1>0, <1>1
<1>3. /\ p \in Subtree(store, p) /\ Subtree(store, p) \subseteq Node
      /\ Closed(store, Subtree(store, p))
  BY <1>0, SubtreeClosed
<1>4. grant'[p] = Subtree(store, p)
  BY <1>0, <1>1, <1>3, SMT DEF HandlerIInv, TypeOK, Locks!Grant, ExpiryLockSet, ListSubtreeKeys
<1>5. RecordSet(store, p) \subseteq Subtree(store, p) \cap Rec
  BY <1>0, <1>3, StoredNodes DEF RecordSet, HasRec, Closed
<1>6. Ending(p) \subseteq Subtree(store, p)
  BY <1>5 DEF Ending, SubtreeLeases
<1>7. /\ m \in MutationType /\ m.key = p /\ m.add = {} /\ m.sched
      /\ KeyExpired(p) => m.how = "delete" /\ m.del = {}
      /\ ~KeyExpired(p) => m.how = "keep" /\ m.del = Ending(p)
  BY <1>5 DEF ExpiryMutation, Mutation, MutationType, Ending
<1>8. Todo(p)' = {m} /\ mutations'[p] \in Seq(MutationType) /\ Len(mutations'[p]) = 1
  <2> HIDE DEF m
  <2>1. <<m>> \in Seq(MutationType) /\ Len(<<m>>) = 1 /\ Elems(<<m>>) = {m}
    BY <1>7, ShortSeqs
  <2> QED BY <1>2, <2>1 DEF Todo
<1>9. PICK x : x = m
  OBVIOUS
<1> HIDE DEF m
<1>10. Ready(p, x)'
  <2>2. DeleteReady(p, x)'
    <3> SUFFICES ASSUME x.how = "delete" PROVE DeleteReady(p, x)'
      BY DEF DeleteReady
    <3>1. KeyExpired(p) /\ x.key = p /\ x.add = {} /\ x.del = {}
      BY <1>7, <1>9
    <3>2. SubtreeLeases(p)' \subseteq update'[p].del
      BY <1>1, <1>2, <3>1 DEF Ending, SubtreeLeases, Leased
    <3>3. HasKey(store, p) => store.leases[p].expiresAt <= now
      BY <3>1 DEF KeyExpired
    <3> QED BY <1>1, <1>4, <3>1, <3>2, <3>3 DEF DeleteReady
  <2>3. RecordsReady(p, x)'
    <3>1. ASSUME NEW r \in x.del PROVE ~RemoveFails(store, p, r)
      <4>1. r \in RecordSet(store, p) /\ r \in Rec /\ r \in Node
        BY <1>5, <1>7, <1>9 DEF Ending, Node
      <4> QED BY <1>0, <4>1, StoredNodes DEF HasParent, RemoveFails, RecordSet, Consistent,
                 ChildrenMatch, HasKey
    <3> QED BY <1>1, <1>2, <1>7, <1>9, <3>1 DEF RecordsReady, UpsertFails
  <2> QED BY <2>2, <2>3, <1>7, <1>9 DEF Ready, RegisterReady, RenewReady
<1>11. Compatible(x, x)
  BY <1>7, <1>9 DEF Compatible
<1>12. Complete(p)'
  BY <1>1, <1>2, <1>6, <1>7, <1>8 DEF Removes, Complete
<1>13. RRsOf(update'[p]) \subseteq grant'[p] /\ update'[p].add \cap update'[p].del = {}
  BY <1>2, <1>4, <1>6 DEF RRsOf
<1>14. ExpiryPlan(p)'
  BY <1>7, <1>8 DEF ExpiryPlan
<1> QED BY <1>8, <1>9, <1>10, <1>11, <1>12, <1>13, <1>14, OneNotZero DEF Planned

\* Whatever the case, a request that passes its checks has a plan.
LEMMA PlanRequest ==
  ASSUME HandlerIInv, NEW p \in Slot, Check(p)
  PROVE  Planned(p)'
  BY CheckFixes, PlanA, PlanB, PlanC, PlanD DEF IsRequest

---------------------------------------------------------------------------
(* Steps that leave the store alone.                                        *)

\* The operation p is the only one that moves.
Alone(p) ==
  \A q \in Proc \ {p} :
    /\ pc'[q] = pc[q] /\ grant'[q] = grant[q] /\ update'[q] = update[q]
    /\ mutations'[q] = mutations[q] /\ (q \in Slot => request'[q] = request[q])

\* The store and the DNS still agree if no UPDATE leaves the operations in transit and
\* only RRs in transit, in doubt or left over change.
LEMMA MatchKept ==
  ASSUME StoreMatchesDNS, store' = store,
         \A q \in Proc : Applying(q) => Applying(q)' /\ update'[q] = update[q],
         \A n \in Node \ (InTransit' \cup doubt' \cup leftover') :
            n \notin doubt \cup leftover /\ (n \in dns' <=> n \in dns)
  PROVE  StoreMatchesDNS'
  BY DEF InTransit, StoreMatchesDNS, Settled

\* A timer as TimerCoverage wants it.
TimerFor(k) ==
  \/ timers[k] = Spent /\ pc[k] # "idle"
  \/ /\ timers[k] \in Nat
     /\ timers[k] <= now \/ timers[k] <= NextLeaseEvent(store, k)

\* The owners of leases are KEYs.
LEMMA OwnersAreKeys ==
  ASSUME NEW s, Consistent(s)
  PROVE  ListOwners(s) \subseteq Key
  BY StoredNodes DEF ListOwners, OwnerOf

\* Every owner still has its timer if each timer is as before, and its run not over, or
\* is set anew.
LEMMA TimersKept ==
  ASSUME HandlerIInv, store' = store, now' \in Nat, now <= now',
         \A k \in Key : \/ timers'[k] = timers[k] /\ (pc[k] # "idle" => pc'[k] # "idle")
                        \/ timers'[k] = Spent /\ pc'[k] # "idle"
                        \/ timers'[k] \in Nat /\ timers'[k] <= now'
                        \/ k \in ListOwners(store)
                           => timers'[k] \in Nat /\ timers'[k] <= NextLeaseEvent(store, k)
  PROVE  TimerCoverage'
  BY OwnersAreKeys, SMT DEF TimerCoverage, TimerFor, HandlerIInv, TypeOK

\* So it has if no timer moves, and no expiry run ends.
LEMMA TimersStay ==
  ASSUME HandlerIInv, NEW p \in Proc, Alone(p), p \notin Key \/ pc'[p] # "idle",
         store' = store, now' = now, timers' = timers
  PROVE  TimerCoverage'
<1>1. now' \in Nat /\ now <= now'
  BY SameTime DEF HandlerIInv, TypeOK
<1>2. \A k \in Key : timers'[k] = timers[k] /\ (pc[k] # "idle" => pc'[k] # "idle")
  BY DEF Alone, Proc
<1> QED BY <1>1, <1>2, TimersKept

\* If the store stays and time does not go back, this is left to show.
LEMMA QuietStep ==
  ASSUME HandlerIInv, store' = store, now' \in Nat, now <= now', panicked' = panicked,
         TypeOK', OpTypes', Exclusive', \A q \in Proc : Operation(q)',
         StoreMatchesDNS', TimerCoverage'
  PROVE  HandlerIInv'
<1>1. Consistent(store) /\ now \in Nat /\ LeasesBounded
  BY DEF HandlerIInv, TypeOK
<1>2. LeasesBounded'
  <2> SUFFICES ASSUME NEW k \in DOMAIN store.leases
               PROVE  store.leases[k].expiresAt <= now' + KeyLeaseTime
    BY DEF LeasesBounded
  <2>1. store.leases[k].expiresAt \in Nat
    BY <1>1, StoredNodes
  <2>2. store.leases[k].expiresAt <= now + KeyLeaseTime
    BY <1>1 DEF LeasesBounded
  <2> QED BY <1>1, <2>1, <2>2, LaterBound, LeaseTimeAssumption
<1> QED BY <1>1, <1>2 DEF HandlerIInv, NoPanic

\* If moreover one operation moves, which was not applying, and the DNS stays, this is left.
LEMMA OneMoves ==
  ASSUME HandlerIInv, NEW p \in Proc, Alone(p), ~Applying(p),
         store' = store /\ now' = now /\ dns' = dns /\ doubt' = doubt
           /\ leftover' = leftover /\ panicked' = panicked,
         TypeOK', OpTypes', Exclusive', Operation(p)', TimerCoverage'
  PROVE  HandlerIInv'
<1>1. Consistent(store) /\ now \in Nat /\ OpTypes /\ now <= now' /\ now' \in Nat
  BY SameTime DEF HandlerIInv, TypeOK
<1>2. ASSUME NEW q \in Proc \ {p} PROVE Operation(q)'
  BY <1>1, OperationKept DEF Alike, SameNode, Kept, Undisturbed, Alone, HandlerIInv
<1> QED BY <1>1, QuietStep, <1>2, MatchKept DEF HandlerIInv, Alone, Applying

\* An operation that has no lock set has none after the step, or one that has it keeps it.
LEMMA LocksKept ==
  ASSUME HandlerIInv, NEW p \in Proc, Alone(p), UNCHANGED <<grant, holds>>,
         pc[p] \in Sent \cup {"locked"} <=> pc'[p] \in Sent \cup {"locked"}
  PROVE  Exclusive'
  BY DEF Alone, HandlerIInv, Exclusive

\* An operation gets its lock set.
LEMMA LocksGranted ==
  ASSUME HandlerIInv, NEW p \in Proc, NEW ids \in SUBSET Node, Locks!Grant(p, ids),
         \A q \in Proc \ {p} : pc'[q] = pc[q], pc'[p] \in Sent \cup {"locked"}
  PROVE  /\ Exclusive' /\ grant'[p] = ids /\ \A q \in Proc \ {p} : grant'[q] = grant[q]
         /\ grant' \in [Proc -> SUBSET Node] /\ holds' \subseteq Proc
<1>1. grant \in [Proc -> SUBSET Node] /\ holds \subseteq Proc /\ Exclusive
  BY DEF HandlerIInv, TypeOK
<1>2. /\ grant' = [grant EXCEPT ![p] = ids] /\ holds' = holds \cup {p}
      /\ \A q \in holds : grant[q] \cap ids = {}
  BY DEF Locks!Grant
<1>3. /\ grant'[p] = ids /\ \A q \in Proc \ {p} : grant'[q] = grant[q]
      /\ grant' \in [Proc -> SUBSET Node] /\ holds' \subseteq Proc
  BY <1>1, <1>2
<1>4. \A q \in Proc : grant[q] \cap ids = {}
  BY <1>1, <1>2 DEF Exclusive
<1>5. Exclusive'
  BY <1>1, <1>2, <1>3, <1>4 DEF Exclusive
<1> QED BY <1>3, <1>5

\* An operation ends: its locks, its UPDATE and its plan are gone, the others have theirs.
LEMMA EndFrame ==
  ASSUME HandlerIInv, NEW p \in Proc, End(p)
  PROVE  /\ Alone(p) /\ pc'[p] = "idle" /\ Exclusive' /\ OpTypes' /\ Operation(p)'
         /\ pc' \in [Proc -> Ops] /\ grant' \in [Proc -> SUBSET Node] /\ holds' \subseteq Proc
         /\ update' \in [Proc -> [add : SUBSET Node, del : SUBSET Node]]
<1>1. /\ grant' = [grant EXCEPT ![p] = {}] /\ holds' = holds \ {p}
      /\ pc' = [pc EXCEPT ![p] = "idle"]
      /\ request' = [q \in Slot |-> IF q = p THEN NoRequest ELSE request[q]]
      /\ update' = [update EXCEPT ![p] = NoUpdate]
      /\ mutations' = [mutations EXCEPT ![p] = <<>>]
  BY DEF End, Locks!Return
<1>2. /\ grant \in [Proc -> SUBSET Node] /\ holds \subseteq Proc /\ pc \in [Proc -> Ops]
      /\ update \in [Proc -> [add : SUBSET Node, del : SUBSET Node]]
      /\ DOMAIN request = Slot /\ DOMAIN mutations = Proc
  BY DEF HandlerIInv, TypeOK, OpTypes
<1>4. /\ pc' \in [Proc -> Ops] /\ grant' \in [Proc -> SUBSET Node] /\ holds' \subseteq Proc
      /\ update' \in [Proc -> [add : SUBSET Node, del : SUBSET Node]]
  BY <1>1, <1>2 DEF Ops, NoUpdate
<1>5. OpTypes'
  BY <1>1, <1>2 DEF Alone, Proc, HandlerIInv, OpTypes
<1> QED BY <1>4, <1>5, <1>1, SMT DEF Alone, HandlerIInv, Exclusive, Sent, Operation, Applying

\* The initial state satisfies the invariant.
LEMMA InitHandler == Init => HandlerIInv
<1> SUFFICES ASSUME Init PROVE HandlerIInv
  OBVIOUS
<1> USE HandlerAssumption
<1>1. /\ store = EmptyStore /\ now = 0 /\ dns = Provisioned /\ doubt = Provisioned
      /\ grant = [p \in Proc |-> {}] /\ holds = {}
      /\ pc = [p \in Proc |-> "idle"] /\ update = [p \in Proc |-> NoUpdate]
      /\ request = [p \in Slot |-> NoRequest] /\ mutations = [p \in Proc |-> <<>>]
      /\ timers = [k \in Key |-> NoTimer] /\ stray = {} /\ panicked = FALSE /\ leftover = {}
  BY DEF Init, Locks!Init
<1>3. DOMAIN store.leases = {} /\ DOMAIN store.nonKeyRecords = {}
  BY <1>1 DEF EmptyStore
<1>5. OpTypes /\ Exclusive /\ \A p \in Proc : Operation(p)
  BY <1>1 DEF OpTypes, Exclusive, Operation, Sent, Applying, Proc
<1>6. StoreMatchesDNS
  BY <1>1, <1>3 DEF StoreMatchesDNS, Settled, Leased, HasKey, HasRec
<1>7. NoPanic /\ TimerCoverage /\ LeasesBounded
  BY <1>1, <1>3 DEF NoPanic, TimerCoverage, ListOwners, LeasesBounded
<1> QED BY <1>5, <1>6, <1>7, <1>1, EmptyConsistent, Zenon DEF HandlerIInv, TypeOK, Consistent,
           Ops, NoUpdate

\* Time passes.
LEMMA TickKeeps == HandlerIInv /\ Tick => HandlerIInv'
<1> SUFFICES ASSUME HandlerIInv, Tick PROVE HandlerIInv'
  OBVIOUS
<1>1. /\ now' = now + 1 /\ store' = store /\ dns' = dns /\ timers' = timers
      /\ panicked' = panicked /\ leftover' = leftover /\ grant' = grant /\ holds' = holds
      /\ pc' = pc /\ request' = request /\ update' = update /\ mutations' = mutations
      /\ stray' = stray /\ doubt' = doubt
  BY Zenon DEF Tick, lockVars, opVars
<1>2. /\ Consistent(store) /\ now \in Nat /\ OpTypes /\ now' \in Nat /\ now <= now'
  BY <1>1, SMT DEF HandlerIInv, TypeOK
<1>3. ASSUME NEW q \in Proc PROVE Operation(q)'
  BY <1>1, <1>2, OperationKept DEF Alike, SameNode, Kept, Undisturbed, HandlerIInv
<1>4. TypeOK' /\ OpTypes' /\ Exclusive'
  BY <1>1, SMT DEF HandlerIInv, TypeOK, OpTypes, Exclusive
<1>5. StoreMatchesDNS'
  BY <1>1, MatchKept DEF HandlerIInv, Applying
<1>6. TimerCoverage'
  BY <1>1, <1>2, TimersKept
<1> QED BY <1>1, <1>2, <1>3, <1>4, <1>5, <1>6, QuietStep

\* A request arrives.
LEMMA ArriveKeeps ==
  ASSUME HandlerIInv, NEW p \in Slot, NEW q \in Requests, Arrive(p, q)
  PROVE  HandlerIInv'
<1> USE HandlerAssumption
<1>0. p \in Proc /\ p \notin Key
  BY DEF Proc, Node
<1> DEFINE r == [signer |-> q.signer, case |-> q.case, keys |-> q.keys, recs |-> q.recs,
                 source |-> SignerSource(q)]
<1>1. /\ pc[p] = "idle" /\ pc' = [pc EXCEPT ![p] = "waiting"]
      /\ request' = [request EXCEPT ![p] = r]
      /\ store' = store /\ now' = now /\ dns' = dns /\ timers' = timers
      /\ panicked' = panicked /\ leftover' = leftover /\ grant' = grant /\ holds' = holds
      /\ update' = update /\ mutations' = mutations /\ stray' = stray /\ doubt' = doubt
  BY Zenon DEF Arrive, lockVars
<1>2. pc \in [Proc -> Ops] /\ DOMAIN request = Slot /\ now \in Nat
  BY DEF HandlerIInv, TypeOK, OpTypes
<1>3. Alone(p) /\ pc'[p] = "waiting" /\ request'[p] = r
  BY <1>0, <1>1, <1>2 DEF Alone
<1>4. IsRequest(r)
  BY DEF IsRequest
<1> HIDE DEF r
<1>5. TypeOK'
  BY <1>1, Zenon DEF HandlerIInv, TypeOK, Ops
<1>6. OpTypes'
  BY <1>1, <1>2, <1>3, <1>4 DEF Alone, Proc, HandlerIInv, OpTypes
<1>7. Exclusive'
  BY <1>0, <1>1, <1>3, LocksKept DEF Sent
<1>8. Operation(p)' /\ ~Applying(p)
  BY <1>1, <1>3 DEF Operation, Applying, Sent
<1>9. TimerCoverage'
  BY <1>0, <1>1, <1>3, TimersStay
<1> QED BY <1>0, <1>1, <1>3, <1>5, <1>6, <1>7, <1>8, <1>9, OneMoves

\* A request gets its locks: with them, it has all it names, and a delete all below.
LEMMA LockKeeps ==
  ASSUME HandlerIInv, NEW p \in Slot, Lock(p)
  PROVE  HandlerIInv'
<1> USE HandlerAssumption
<1> DEFINE q == request[p]
<1>0. p \in Proc /\ p \notin Key
  BY DEF Proc, Node
<1>1. /\ pc[p] = "waiting" /\ pc' = [pc EXCEPT ![p] = "locked"]
      /\ Locks!Grant(p, RequestLockSet(q))
      /\ store' = store /\ now' = now /\ dns' = dns /\ timers' = timers /\ request' = request
      /\ panicked' = panicked /\ leftover' = leftover
      /\ update' = update /\ mutations' = mutations /\ stray' = stray /\ doubt' = doubt
  BY Zenon DEF Lock, envVars
<1>2. pc \in [Proc -> Ops] /\ now \in Nat /\ Consistent(store) /\ IsRequest(q)
  BY <1>1 DEF HandlerIInv, TypeOK, OpTypes
<1>3. pc'[p] = "locked" /\ \A x \in Proc \ {p} : pc'[x] = pc[x]
  BY <1>0, <1>1, <1>2
<1>4. /\ Keys(q) \subseteq Node /\ q.signer \in Node /\ q.recs \subseteq Node
  BY <1>2, NamedKeys DEF IsRequest, Node
<1>5. ASSUME NEW k \in Keys(q)
      PROVE  /\ {k} \cup ListSubtreeKeys(store, k) = Subtree(store, k)
             /\ Subtree(store, k) \subseteq Node
  BY <1>2, <1>4, SubtreeClosed DEF ListSubtreeKeys, Consistent
<1>6. RequestLockSet(q) \in SUBSET Node
  BY <1>4, <1>5 DEF RequestLockSet
<1>7. /\ Exclusive' /\ grant'[p] = RequestLockSet(q)
      /\ \A x \in Proc \ {p} : grant'[x] = grant[x]
      /\ grant' \in [Proc -> SUBSET Node] /\ holds' \subseteq Proc
  BY <1>0, <1>1, <1>3, <1>6, LocksGranted
<1>8. Alone(p)
  BY <1>1, <1>3, <1>7 DEF Alone
<1>9. TypeOK'
  BY <1>1, <1>7, Zenon DEF HandlerIInv, TypeOK, Ops
<1>10. OpTypes'
  BY <1>1, <1>3 DEF Proc, HandlerIInv, OpTypes
<1>11. Operation(p)' /\ ~Applying(p)
  <2>1. q.recs \subseteq grant'[p]
    BY <1>7 DEF RequestLockSet
  <2>2. ASSUME q.case = "C", NEW k \in Keys(q) PROVE Subtree(store, k) \subseteq grant'[p]
    <3>1. {k} \cup ListSubtreeKeys(store, k)
            \in {{x} \cup ListSubtreeKeys(store, x) : x \in Keys(q)}
      OBVIOUS
    <3>2. {k} \cup ListSubtreeKeys(store, k) \subseteq RequestLockSet(q)
      BY <2>2, <3>1 DEF RequestLockSet
    <3>3. {k} \cup ListSubtreeKeys(store, k) = Subtree(store, k)
      BY <1>5
    <3> QED BY <1>7, <3>2, <3>3
  <2>3. q.case # "C" => {q.signer} \cup Keys(q) \subseteq grant'[p]
    BY <1>7 DEF RequestLockSet
  <2>4. Covered(p)'
    BY <1>1, <2>1, <2>2, <2>3 DEF Covered
  <2> QED BY <1>1, <1>3, <2>4 DEF Operation, Applying, Sent
<1>12. TimerCoverage'
  BY <1>0, <1>1, <1>8, TimersStay
<1> QED BY <1>0, <1>1, <1>7, <1>8, <1>9, <1>10, <1>11, <1>12, OneMoves

\* A request that gives up waiting leaves nothing behind.
LEMMA LockTimeoutKeeps ==
  ASSUME HandlerIInv, NEW p \in Slot, LockTimeout(p)
  PROVE  HandlerIInv'
<1> USE HandlerAssumption
<1>0. p \in Proc /\ p \notin Key
  BY DEF Proc, Node
<1>1. /\ pc[p] = "waiting" /\ pc' = [pc EXCEPT ![p] = "idle"]
      /\ request' = [request EXCEPT ![p] = NoRequest]
      /\ store' = store /\ now' = now /\ dns' = dns /\ timers' = timers
      /\ panicked' = panicked /\ leftover' = leftover /\ grant' = grant /\ holds' = holds
      /\ update' = update /\ mutations' = mutations /\ stray' = stray /\ doubt' = doubt
  BY Zenon DEF LockTimeout, lockVars, envVars
<1>2. pc \in [Proc -> Ops] /\ DOMAIN request = Slot /\ now \in Nat
  BY DEF HandlerIInv, TypeOK, OpTypes
<1>3. Alone(p) /\ pc'[p] = "idle"
  BY <1>0, <1>1, <1>2 DEF Alone
<1>4. TypeOK'
  BY <1>1, Zenon DEF HandlerIInv, TypeOK, Ops
<1>5. OpTypes'
  BY <1>1, <1>2 DEF Alone, Proc, HandlerIInv, OpTypes
<1>6. Exclusive'
  BY <1>0, <1>1, <1>3, LocksKept DEF Sent
<1>7. Operation(p)' /\ ~Applying(p)
  BY <1>1, <1>3 DEF Operation, Applying, Sent
<1>8. TimerCoverage'
  BY <1>0, <1>1, <1>3, TimersStay
<1> QED BY <1>0, <1>1, <1>3, <1>4, <1>5, <1>6, <1>7, <1>8, OneMoves

\* A request passes its checks: it has its plan.
LEMMA CheckKeeps ==
  ASSUME HandlerIInv, NEW p \in Slot, Check(p)
  PROVE  HandlerIInv'
<1> USE HandlerAssumption
<1>0. p \in Proc /\ p \notin Key
  BY DEF Proc, Node
<1>1. /\ pc[p] = "locked" /\ pc' = [pc EXCEPT ![p] = "sending"]
      /\ update' = [update EXCEPT ![p] = UpdateFor(request[p])]
      /\ mutations' = [mutations EXCEPT ![p] = MutationsFor(request[p])]
      /\ store' = store /\ now' = now /\ dns' = dns /\ timers' = timers /\ request' = request
      /\ panicked' = panicked /\ leftover' = leftover /\ grant' = grant /\ holds' = holds
      /\ stray' = stray /\ doubt' = doubt
  BY Zenon DEF Check, lockVars, envVars
<1>2. /\ pc \in [Proc -> Ops] /\ now \in Nat /\ DOMAIN mutations = Proc
      /\ update \in [Proc -> [add : SUBSET Node, del : SUBSET Node]]
      /\ grant \in [Proc -> SUBSET Node]
  BY DEF HandlerIInv, TypeOK, OpTypes
<1>3. Alone(p) /\ pc'[p] = "sending" /\ update'[p] = UpdateFor(request[p])
  BY <1>0, <1>1, <1>2 DEF Alone
<1>4. Planned(p)'
  BY PlanRequest
<1>5. TypeOK'
  <2>1. UpdateFor(request[p]) \in [add : SUBSET Node, del : SUBSET Node]
    <3>2. \E a, d : UpdateFor(request[p]) = [add |-> a, del |-> d]
      <4>1. IsRequest(request[p])
        BY CheckFixes
      <4> QED BY <4>1, Zenon DEF IsRequest, UpdateFor, UpdateA, UpdateB, UpdateC, UpdateD
    <3> QED BY <3>2, <1>0, <1>1, <1>2, <1>4 DEF RRsOf, Planned
  <2> QED BY <1>1, <2>1, Zenon DEF HandlerIInv, TypeOK, Ops
<1>6. OpTypes'
  BY <1>1, <1>2, <1>3 DEF Alone, Proc, HandlerIInv, OpTypes
<1>7. Exclusive'
  BY <1>0, <1>1, <1>3, LocksKept DEF Sent
<1>8. Operation(p)' /\ ~Applying(p)
  BY <1>1, <1>3, <1>4 DEF Operation, Applying, Sent
<1>9. TimerCoverage'
  BY <1>0, <1>1, <1>3, TimersStay
<1> QED BY <1>0, <1>1, <1>3, <1>5, <1>6, <1>7, <1>8, <1>9, OneMoves

\* An operation that ends before its UPDATE is confirmed leaves the store and the DNS
\* alone; an expiry is armed again.
LEMMA GivesUp ==
  ASSUME HandlerIInv, NEW p \in Proc, End(p), pc[p] \in {"locked", "sending"},
         store' = store /\ now' = now /\ dns' = dns /\ doubt' = doubt
           /\ leftover' = leftover /\ panicked' = panicked,
         IF p \in Key THEN timers' = [timers EXCEPT ![p] = now] ELSE timers' = timers,
         stray' \subseteq stray \cup {update[p]}
  PROVE  HandlerIInv'
<1>1. /\ Alone(p) /\ pc'[p] = "idle" /\ Exclusive' /\ OpTypes' /\ Operation(p)'
      /\ pc' \in [Proc -> Ops] /\ grant' \in [Proc -> SUBSET Node] /\ holds' \subseteq Proc
      /\ update' \in [Proc -> [add : SUBSET Node, del : SUBSET Node]]
  BY EndFrame
<1>2. /\ timers \in [Key -> Nat \cup {NoTimer, Spent}] /\ now \in Nat
      /\ stray \subseteq [add : SUBSET Node, del : SUBSET Node]
      /\ update \in [Proc -> [add : SUBSET Node, del : SUBSET Node]]
  BY DEF HandlerIInv, TypeOK
<1>5. TypeOK'
  <2>1. timers' \in [Key -> Nat \cup {NoTimer, Spent}]
    BY <1>2
  <2>2. stray' \subseteq [add : SUBSET Node, del : SUBSET Node]
    BY <1>2
  <2> QED BY <1>1, <2>1, <2>2 DEF HandlerIInv, TypeOK
<1>6. TimerCoverage'
  <2>1. now' \in Nat /\ now <= now' /\ now <= now
    BY <1>2, SameTime
  <2>2. \A k \in Key : \/ timers'[k] = timers[k] /\ (pc[k] # "idle" => pc'[k] # "idle")
                       \/ timers'[k] \in Nat /\ timers'[k] <= now'
    BY <1>1, <1>2, <2>1 DEF Alone, Proc
  <2> QED BY <2>1, <2>2, TimersKept
<1> QED BY <1>1, <1>5, <1>6, OneMoves DEF Applying

\* A refused request.
LEMMA RefuseKeeps ==
  ASSUME HandlerIInv, NEW p \in Slot, Refuse(p) \/ LookupFails(p)
  PROVE  HandlerIInv'
  BY HandlerAssumption, GivesUp DEF Proc, Node, Refuse, envVars, LookupFails

\* A send that fails, whether or not the server received it.
LEMMA SendFailsKeeps ==
  ASSUME HandlerIInv, NEW p \in Proc, Reject(p) \/ Unanswered(p)
  PROVE  HandlerIInv'
  BY GivesUp DEF Reject, Unanswered, SendFails, Retry

\* The UPDATE of one operation is confirmed: its RRs are locked, so no other is concerned.
LEMMA ConfirmKeeps ==
  ASSUME HandlerIInv, NEW p \in Proc, Confirm(p)
  PROVE  HandlerIInv'
<1> DEFINE u == update[p]
<1>1. /\ pc[p] = "sending" /\ dns' = (dns \cup u.add) \ u.del
      /\ pc' = [pc EXCEPT ![p] = "confirmed"] /\ doubt' = doubt \ RRsOf(u)
      /\ leftover' = leftover \ RRsOf(u)
      /\ store' = store /\ now' = now /\ timers' = timers /\ panicked' = panicked
      /\ grant' = grant /\ holds' = holds /\ request' = request /\ update' = update
      /\ mutations' = mutations /\ stray' \subseteq stray \cup {u}
  BY Zenon DEF Confirm, Applied, lockVars
<1>2. /\ pc \in [Proc -> Ops] /\ now \in Nat /\ Consistent(store) /\ OpTypes
      /\ u \in [add : SUBSET Node, del : SUBSET Node] /\ dns \subseteq Node
      /\ doubt \subseteq Node /\ leftover \subseteq Node
  BY DEF HandlerIInv, TypeOK
<1>3. Alone(p) /\ pc'[p] = "confirmed"
  BY <1>1, <1>2 DEF Alone
<1>4. Planned(p) /\ RRsOf(u) \subseteq grant[p] /\ u.add \cap u.del = {}
  BY <1>1 DEF HandlerIInv, Operation, Sent, Planned
<1>5. \A q \in Proc : Alike(store, store', grant[q])
  BY <1>1 DEF Alike, SameNode
<1>6. \A n : n \notin RRsOf(u) => (n \in dns' <=> n \in dns) /\ (n \in doubt' <=> n \in doubt)
                                 /\ (n \in leftover' <=> n \in leftover)
  BY <1>1 DEF RRsOf
<1>7. ASSUME NEW q \in Proc PROVE Operation(q)'
  <2>1. CASE q = p
    <3>2. Planned(p)'
      BY <1>1, <1>2, <1>4, PlanKept, <1>5, SameTime DEF Undisturbed
    <3> QED BY <1>1, <1>3, <1>4, <2>1, <3>2 DEF Operation, Published, RRsOf
  <2>2. CASE q # p
    <3>1. grant[q] \cap RRsOf(u) = {}
      BY <1>4, <2>2 DEF HandlerIInv, Exclusive
    <3>2. Undisturbed(q) /\ pc'[q] = pc[q]
      BY <1>1, <1>2, <1>3, <1>5, <2>2, SameTime DEF Undisturbed, Alone
    <3>3. Kept(q) /\ Operation(q)
      BY <1>6, <3>1, <3>2 DEF Kept, HandlerIInv
    <3> QED BY <1>1, <1>2, <3>3, OperationKept
  <2> QED BY <2>1, <2>2
<1>8. TypeOK' /\ OpTypes'
  BY <1>1, <1>2 DEF HandlerIInv, TypeOK, OpTypes, Ops, Proc
<1>9. Exclusive'
  BY <1>1, <1>3, LocksKept DEF Sent
<1>10. StoreMatchesDNS'
  BY <1>1, <1>3, <1>6, MatchKept DEF Alone, Applying, InTransit, HandlerIInv
<1>11. TimerCoverage'
  BY <1>1, <1>3, TimersStay
<1> QED BY <1>1, <1>2, <1>7, <1>8, <1>9, <1>10, <1>11, QuietStep, SameTime

\* Others change the DNS: what they touch is in doubt from then on.
LEMMA DNSChangeKeeps ==
  ASSUME HandlerIInv, NEW rrs \in SUBSET Node, doubt' = doubt \cup rrs, dns' \subseteq Node,
         \A n \in Node \ rrs : n \in dns' <=> n \in dns, stray' \subseteq stray,
         UNCHANGED <<store, timers, panicked, leftover, lockVars, opVars, now>>
  PROVE  HandlerIInv'
<1>1. /\ store' = store /\ now' = now /\ timers' = timers /\ panicked' = panicked
      /\ leftover' = leftover /\ grant' = grant /\ holds' = holds /\ pc' = pc
      /\ request' = request /\ update' = update /\ mutations' = mutations
  BY Zenon DEF lockVars, opVars
<1>2. /\ now \in Nat /\ Consistent(store) /\ OpTypes /\ doubt \subseteq Node
      /\ grant \in [Proc -> SUBSET Node]
  BY DEF HandlerIInv, TypeOK
<1>3. ASSUME NEW q \in Proc PROVE Operation(q)'
  BY <1>1, <1>2, OperationKept, SameTime DEF Alike, SameNode, Undisturbed, HandlerIInv, Kept
<1>4. TypeOK' /\ OpTypes' /\ Exclusive'
  BY <1>1 DEF HandlerIInv, TypeOK, OpTypes, Exclusive
<1>5. StoreMatchesDNS'
  BY <1>1, MatchKept DEF HandlerIInv, Applying
<1>6. TimerCoverage'
  BY <1>1, <1>2, TimersKept, SameTime
<1> QED BY <1>1, <1>2, <1>3, <1>4, <1>5, <1>6, QuietStep, SameTime

\* A late UPDATE arrives or is lost, another writer changes an RR.
LEMMA OthersKeep ==
  ASSUME HandlerIInv,
         \/ \E u \in stray : StrayApplied(u) \/ StrayLost(u)
         \/ \E n \in Node : External(n)
  PROVE  HandlerIInv'
<1>0. /\ dns \subseteq Node /\ stray \subseteq [add : SUBSET Node, del : SUBSET Node]
  BY DEF HandlerIInv, TypeOK
<1>1. ASSUME NEW u \in stray, StrayApplied(u) PROVE HandlerIInv'
  BY <1>1, <1>0, DNSChangeKeeps, Zenon DEF StrayApplied, Applied, RRsOf
<1>2. ASSUME NEW u \in stray, StrayLost(u) PROVE HandlerIInv'
  <2>2. PICK rrs \in SUBSET Node : rrs = {}
    BY Zenon
  <2> QED BY DNSChangeKeeps, <1>0, <2>2, <1>2 DEF StrayLost
<1>3. ASSUME NEW n \in Node, External(n) PROVE HandlerIInv'
  <2>1. /\ dns' = IF n \in dns THEN dns \ {n} ELSE dns \cup {n}
        /\ doubt' = doubt \cup {n} /\ stray' = stray
        /\ UNCHANGED <<store, timers, panicked, leftover, lockVars, opVars, now>>
    BY <1>3, Zenon DEF External
  <2>2. /\ {n} \in SUBSET Node /\ dns' \subseteq Node /\ stray' \subseteq stray
        /\ \A x \in Node \ {n} : x \in dns' <=> x \in dns
    BY <1>0, <2>1
  <2> QED BY <2>1, <2>2, DNSChangeKeeps, Zenon
<1> QED BY <1>1, <1>2, <1>3

\* An expiry takes its locks and has its plan.
LEMMA ExpireKeeps ==
  ASSUME HandlerIInv, NEW p \in Key, Expire(p)
  PROVE  HandlerIInv'
<1> USE HandlerAssumption
<1>0. p \in Proc /\ p \notin Slot /\ p \in Node
  BY DEF Proc, Node
<1>1. /\ pc[p] = "fired" /\ pc' = [pc EXCEPT ![p] = "sending"]
      /\ Locks!Grant(p, ExpiryLockSet(p))
      /\ update' = [update EXCEPT ![p] = [add |-> {}, del |-> Ending(p)]]
      /\ mutations' = [mutations EXCEPT ![p] = <<ExpiryMutation(p)>>]
      /\ store' = store /\ now' = now /\ dns' = dns /\ timers' = timers /\ request' = request
      /\ panicked' = panicked /\ leftover' = leftover /\ stray' = stray /\ doubt' = doubt
  BY Zenon DEF Expire, envVars
<1>2. /\ pc \in [Proc -> Ops] /\ now \in Nat /\ Consistent(store) /\ DOMAIN mutations = Proc
      /\ update \in [Proc -> [add : SUBSET Node, del : SUBSET Node]]
  BY DEF HandlerIInv, TypeOK, OpTypes
<1>3. pc'[p] = "sending" /\ \A x \in Proc \ {p} : pc'[x] = pc[x]
  BY <1>0, <1>1, <1>2
<1>5. /\ Exclusive' /\ \A x \in Proc \ {p} : grant'[x] = grant[x]
      /\ grant' \in [Proc -> SUBSET Node] /\ holds' \subseteq Proc
  BY <1>0, <1>1, <1>3, LocksGranted DEF Sent, ExpiryLockSet, ListSubtreeKeys, Subtree
<1>6. Alone(p) /\ update'[p] = [add |-> {}, del |-> Ending(p)]
  <2>1. /\ update'[p] = [add |-> {}, del |-> Ending(p)]
        /\ \A x \in Proc \ {p} : update'[x] = update[x] /\ mutations'[x] = mutations[x]
    BY <1>0, <1>1, <1>2
  <2> QED BY <1>1, <1>3, <1>5, <2>1 DEF Alone
<1>7. Planned(p)'
  BY PlanExpiry
<1>8. TypeOK'
  <2>1. Ending(p) \in SUBSET Node
    <3>1. Ending(p) = update'[p].del
      BY <1>6, UpdateFields
    <3>2. update'[p].del \subseteq grant'[p]
      BY <1>7 DEF Planned, RRsOf
    <3> QED BY <1>0, <1>5, <3>1, <3>2
  <2> QED BY <1>1, <1>5, <2>1, Zenon DEF HandlerIInv, TypeOK, Ops
<1>9. OpTypes'
  BY <1>0, <1>1, <1>3 DEF Proc, HandlerIInv, OpTypes
<1>10. Operation(p)' /\ ~Applying(p)
  BY <1>0, <1>1, <1>3, <1>7 DEF Operation, Applying, Sent
<1>11. TimerCoverage'
  BY <1>0, <1>1, <1>3, <1>6, TimersStay
<1> QED BY <1>0, <1>1, <1>5, <1>6, <1>8, <1>9, <1>10, <1>11, OneMoves

---------------------------------------------------------------------------
(* Timers.                                                                  *)

\* A set of instants that is not empty has an earliest one; shown at the end, so that the
\* theory it takes is not in the way of everything else.
EarliestExists == \A T \in SUBSET Nat : T # {} => \E t \in T : \A u \in T : t <= u

\* The lease events of a node: the ends of its KEY and of its own records.
Events(s, k) == {s.leases[x].expiresAt : x \in {k} \cap DOMAIN s.leases}
                \cup {s.nonKeyRecords[r].expiresAt : r \in RecordSet(s, k)}

\* The owners of leases are the nodes with a lease event, and the next one is the first
\* of them (nextLeaseEvent).
LEMMA NextEvent ==
  ASSUME EarliestExists, NEW s, Consistent(s), NEW k \in Key
  PROVE  /\ Events(s, k) \in SUBSET Nat
         /\ ListOwners(s) \subseteq Key
         /\ k \in ListOwners(s) <=> Events(s, k) # {}
         /\ k \in ListOwners(s) => /\ NextLeaseEvent(s, k) \in Events(s, k)
                                   /\ \A e \in Events(s, k) : NextLeaseEvent(s, k) <= e
         /\ k \notin ListOwners(s) => NextLeaseEvent(s, k) = NoTimer
<1> USE NodeAssumption
<1>1. Events(s, k) \in SUBSET Nat
  BY StoredNodes, SMT DEF Events, RecordSet, HasRec
<1>2. ListOwners(s) \subseteq Key
  BY StoredNodes, SMT DEF ListOwners, OwnerOf
<1>3. k \in ListOwners(s) <=> Events(s, k) # {}
  <2>1. RecordSet(s, k) = {r \in DOMAIN s.nonKeyRecords : OwnerOf(s, r) = k}
    BY DEF Consistent, IsStore, ChildrenMatch, RecordSet, HasRec, HasKey, HasParent, Node
  <2>2. Events(s, k) # {} <=> k \in DOMAIN s.leases \/ RecordSet(s, k) # {}
    BY Zenon DEF Events
  <2> QED BY <2>1, <2>2 DEF ListOwners
<1>4. NextLeaseEvent(s, k) = IF Events(s, k) = {} THEN NoTimer
                             ELSE CHOOSE t \in Events(s, k) : \A u \in Events(s, k) : t <= u
  BY DEF NextLeaseEvent, Events
<1>5. ASSUME Events(s, k) # {}
      PROVE  /\ NextLeaseEvent(s, k) \in Events(s, k)
             /\ \A e \in Events(s, k) : NextLeaseEvent(s, k) <= e
  <2>1. \E t \in Events(s, k) : \A u \in Events(s, k) : t <= u
    BY <1>1, <1>5 DEF EarliestExists
  <2> QED BY <1>4, <2>1
<1> QED BY <1>1, <1>2, <1>3, <1>4, <1>5

\* A node's events come no earlier by a mutation, unless it is a KEY that the mutation
\* registers or gives records to.
LEMMA EventsLater ==
  ASSUME EarliestExists, Consistent(store), Consistent(store'), now \in Nat,
         NEW q \in Proc, NEW m \in MutationType, NEW add \in SUBSET m.add, NEW del \in SUBSET m.del,
         Effect(store, store', m, SignerOf(q), add, del), Ready(q, m), NEW k \in Key,
         k # m.key \/ (m.how # "register" /\ add = {}), k \in ListOwners(store')
  PROVE  k \in ListOwners(store) /\ NextLeaseEvent(store, k) <= NextLeaseEvent(store', k)
<1> USE NodeAssumption
<1>0. /\ m.lease \in Nat /\ m.how \in {"register", "renew", "delete", "keep"}
      /\ add \in SUBSET Rec
      /\ DOMAIN store.leases \subseteq Key /\ DOMAIN store'.leases \subseteq Key
      /\ DOMAIN store.nonKeyRecords \subseteq Rec /\ DOMAIN store'.nonKeyRecords \subseteq Rec
  BY StoredNodes, MutationFields
<1>1. ASSUME NEW e \in Events(store', k) PROVE \E d \in Events(store, k) : d <= e
  <2>1. CASE k \in DOMAIN store'.leases /\ e = store'.leases[k].expiresAt
    <3>2. store.leases[k].expiresAt \in Events(store, k) /\ store.leases[k].expiresAt \in Nat
      BY StoredNodes, <2>1 DEF Events, Effect, LeasesAfter, HasKey
    <3>3. CASE k = m.key /\ m.how = "renew"
      <4>3. e = now + m.lease
        <5>1. PICK x : store'.leases[k] = [parent |-> x, expiresAt |-> now + m.lease]
          BY <2>1, <3>3 DEF Effect, LeasesAfter
        <5>2. store'.leases[k].expiresAt = now + m.lease
          BY <5>1, LeaseFields
        <5> QED BY <2>1, <5>2
      <4>2. store.leases[k].expiresAt <= e
        BY <3>3, <4>3 DEF Ready, RenewReady
      <4> QED BY <3>2, <4>2
    <3>4. CASE ~(k = m.key /\ m.how = "renew")
      <4>1. store'.leases[k] = store.leases[k]
        BY <1>0, <2>1, <3>4, Zenon DEF Effect, LeasesAfter
      <4> QED BY <2>1, <3>2, <4>1, NatReflexive
    <3> QED BY <3>3, <3>4
  <2>2. CASE \E r \in RecordSet(store', k) : e = store'.nonKeyRecords[r].expiresAt
    <3>1. PICK r \in RecordSet(store', k) : e = store'.nonKeyRecords[r].expiresAt
      BY <2>2
    <3>2. r \in DOMAIN store'.nonKeyRecords /\ r \in Rec /\ OwnerOf(store', r) = k
      <4>1. r \in store'.children[k] /\ r \in DOMAIN store'.nonKeyRecords /\ r \in Rec
        BY <1>0 DEF RecordSet, HasRec
      <4>2. HasParent(store', r, k) /\ r \notin DOMAIN store'.leases
        BY <1>0, <4>1 DEF Consistent, ChildrenMatch, Node
      <4> QED BY <4>1, <4>2 DEF HasParent, HasKey
    <3>4. r \in DOMAIN store.nonKeyRecords /\ store'.nonKeyRecords[r] = store.nonKeyRecords[r]
      BY <3>2, SMT DEF Effect, RecordsAfter, HasRec, OwnerOf
    <3>5. r \in RecordSet(store, k)
      <4>1. HasParent(store, r, k) /\ r \in Node
        BY <3>2, <3>4 DEF HasParent, HasRec, OwnerOf, Node
      <4> QED BY <3>4, <4>1 DEF RecordSet, HasRec, Consistent, ChildrenMatch
    <3>6. e \in Events(store, k)
      BY <3>1, <3>4, <3>5 DEF Events
    <3> QED BY <3>6, NextEvent
  <2> QED BY <2>1, <2>2 DEF Events
<1>3. PICK d \in Events(store, k) : d <= NextLeaseEvent(store', k)
  BY <1>1, NextEvent
<1>4. /\ NextLeaseEvent(store', k) \in Nat /\ NextLeaseEvent(store, k) \in Nat /\ d \in Nat
      /\ k \in ListOwners(store) /\ NextLeaseEvent(store, k) <= d
  BY NextEvent
<1> QED BY <1>3, <1>4, NatTransitive

\* Nothing in a deleted subtree owns a lease any more.
LEMMA DeletedOwnNothing ==
  ASSUME Consistent(store), Consistent(store'), NEW m \in MutationType, NEW signer,
         Effect(store, store', m, signer, {}, m.del), m.how = "delete",
         NEW k \in Subtree(store, m.key)
  PROVE  k \notin ListOwners(store')
<1> DEFINE G == m.del \cup Gone(store, m)
<1>1. /\ Closed(store, G) /\ \A n \in G : ~Leased(store', n)
      /\ \A x \in Key : store'.children[x] \subseteq store.children[x]
  BY Pruning
<1>2. k \in G
  BY DEF Gone
<1>4. ASSUME NEW r \in DOMAIN store'.nonKeyRecords, OwnerOf(store', r) = k PROVE FALSE
  <2>1. k \in Key /\ r \in Node /\ HasParent(store', r, k)
    BY <1>4, StoredNodes DEF OwnerOf, HasParent, HasRec, Node
  <2>2. r \in store'.children[k]
    BY <2>1 DEF Consistent, ChildrenMatch
  <2>3. r \in G
    BY <1>1, <1>2, <2>1, <2>2 DEF Closed
  <2> QED BY <1>1, <2>3 DEF Leased, HasRec
<1> QED BY <1>4, <1>1, <1>2 DEF ListOwners, Leased, HasKey

\* A timer fires, or an expiry finds nothing to do or its locks taken.
LEMMA ExpiryRunKeeps ==
  ASSUME EarliestExists, HandlerIInv, NEW p \in Key, Fire(p) \/ NothingDue(p) \/ BackOff(p)
  PROVE  HandlerIInv'
<1> USE HandlerAssumption
<1>0. p \in Proc /\ p \notin Slot
  BY DEF Proc, Node
<1>1. /\ store' = store /\ now' = now /\ dns' = dns /\ request' = request
      /\ panicked' = panicked /\ leftover' = leftover /\ grant' = grant /\ holds' = holds
      /\ update' = update /\ mutations' = mutations /\ stray' = stray /\ doubt' = doubt
  BY DEF Fire, lockVars, envVars, NothingDue, BackOff
<1>2. /\ pc \in [Proc -> Ops] /\ now \in Nat /\ Consistent(store)
      /\ timers \in [Key -> Nat \cup {NoTimer, Spent}]
  BY DEF HandlerIInv, TypeOK
<1>3. PICK t, c : /\ timers' = [timers EXCEPT ![p] = t] /\ pc' = [pc EXCEPT ![p] = c]
                  /\ pc[p] \in {"idle", "fired"} /\ c \in {"idle", "fired"}
                  /\ \/ t = Spent /\ c = "fired"
                     \/ t = now
                     \/ t = NextLeaseEvent(store, p)
  BY Zenon DEF Fire, NothingDue, Schedule, BackOff, Retry
<1>4. NextLeaseEvent(store, p) \in Nat \cup {NoTimer}
  BY <1>2, NextEvent
<1>5. /\ Alone(p) /\ pc'[p] = c /\ timers'[p] = t
      /\ \A k \in Key \ {p} : timers'[k] = timers[k]
  BY <1>0, <1>1, <1>2, <1>3 DEF Alone
<1>6. TypeOK'
  <2>1. timers' \in [Key -> Nat \cup {NoTimer, Spent}] /\ pc' \in [Proc -> Ops]
    BY <1>2, <1>3, <1>4, Zenon DEF Ops
  <2> QED BY <1>1, <2>1 DEF HandlerIInv, TypeOK
<1>7. OpTypes'
  BY <1>0, <1>1, <1>5 DEF Alone, Proc, HandlerIInv, OpTypes
<1>8. Exclusive'
  BY <1>0, <1>1, <1>3, <1>5, LocksKept DEF Sent
<1>9. Operation(p)' /\ ~Applying(p)
  BY <1>3, <1>5 DEF Operation, Applying, Sent
<1>10. TimerCoverage'
  <2>1. ASSUME NEW k \in Key
        PROVE  \/ timers'[k] = timers[k] /\ (pc[k] # "idle" => pc'[k] # "idle")
               \/ timers'[k] = Spent /\ pc'[k] # "idle"
               \/ timers'[k] \in Nat /\ timers'[k] <= now'
               \/ k \in ListOwners(store)
                  => timers'[k] \in Nat /\ timers'[k] <= NextLeaseEvent(store, k)
    <3>1. CASE k = p
      <4>1. k \in ListOwners(store) => NextLeaseEvent(store, k) \in Nat
        BY <1>2, NextEvent
      <4> QED BY <1>1, <1>2, <1>3, <1>5, <3>1, <4>1, NatReflexive
    <3>2. CASE k # p
      BY <1>5, <3>2 DEF Alone, Proc
    <3> QED BY <3>1, <3>2
  <2>2. now' \in Nat /\ now <= now' /\ store' = store
    BY <1>1, <1>2, SameTime
  <2> QED BY <2>1, <2>2, TimersKept, Zenon
<1> QED BY <1>0, <1>1, <1>5, <1>6, <1>7, <1>8, <1>9, <1>10, OneMoves

---------------------------------------------------------------------------
(* The deferred mutations.                                                  *)

\* What is known of a mutation when it runs, and what its node change does.
LEMMA MutationRuns ==
  ASSUME HandlerIInv, NEW p \in Proc, Applying(p), NEW m, m = Head(mutations[p])
  PROVE  /\ Consistent(store) /\ now \in Nat /\ Planned(p) /\ Published(p)
         /\ m \in MutationType /\ m \in Todo(p) /\ Ready(p, m)
         /\ RRsOf(update[p]) \subseteq grant[p] /\ RRsOf(update[p]) \subseteq Node
         /\ Effect(store, NodeChange(m, SignerOf(p)), m, SignerOf(p), {}, {})
<1>1. /\ Consistent(store) /\ now \in Nat /\ grant \in [Proc -> SUBSET Node]
  BY DEF HandlerIInv, TypeOK
<1>2. Planned(p) /\ Published(p)
  BY DEF HandlerIInv, Operation, Applying, Sent
<1>3. m \in MutationType /\ m \in Todo(p)
  <2>1. mutations[p] \in Seq(MutationType) /\ Len(mutations[p]) # 0
    BY <1>2 DEF Planned
  <2>2. /\ Head(mutations[p]) \in MutationType
        /\ Elems(mutations[p]) = {Head(mutations[p])} \cup Elems(Tail(mutations[p]))
    BY <2>1, HeadAndTail
  <2> QED BY <2>2 DEF Todo
<1>4. Ready(p, m) /\ RRsOf(update[p]) \subseteq grant[p]
  BY <1>2, <1>3 DEF Planned
<1>5. SignerOf(p) \in Key \cup {NoKey}
  BY DEF HandlerIInv, OpTypes, IsRequest, Applying, SignerOf
<1>6. Effect(store, NodeChange(m, SignerOf(p)), m, SignerOf(p), {}, {})
  BY <1>1, <1>3, <1>5, NodeEffect
<1> QED BY <1>1, <1>2, <1>3, <1>4, <1>6

\* The change of the node moves no record to another owner.
LEMMA OwnersKept ==
  ASSUME Consistent(store), NEW m \in MutationType, NEW signer, NEW s,
         Effect(store, s, m, signer, {}, {}), NEW r, HasRec(s, r)
  PROVE  HasRec(store, r) /\ OwnerOf(s, r) = OwnerOf(store, r)
  BY StoredNodes DEF Effect, HasRec, RecordsAfter, OwnerOf

\* A mutation that succeeds has its whole effect, and reaches no branch declared impossible.
LEMMA ApplyEffect ==
  ASSUME HandlerIInv, NEW p \in Proc, Apply(p), NEW m, m = Head(mutations[p])
  PROVE  /\ Effect(store, store', m, SignerOf(p), m.add, m.del)
         /\ Consistent(store') /\ ~panicked'
<1> DEFINE s == NodeChange(m, SignerOf(p))
<1>1. /\ Applying(p) /\ ~MutationFails(m, s) /\ store' = RecordChange(m, s)
      /\ panicked' = (panicked \/ MutationPanics(p, m, s))
  BY DEF Apply, SignerOf
<1>2. /\ Consistent(store) /\ now \in Nat /\ m \in MutationType /\ Ready(p, m)
      /\ Effect(store, s, m, SignerOf(p), {}, {})
  BY <1>1, MutationRuns
<1> HIDE DEF s
<1>3. ~UpsertFails(s, m.key, m.add)
  BY <1>1 DEF MutationFails
<1>4. \A r \in m.del : ~RemoveFails(s, m.key, r)
  <2>1. \A r \in m.del : ~RemoveFails(store, m.key, r)
    BY <1>2 DEF Ready, RecordsReady
  <2>2. ASSUME NEW r \in m.del, HasRec(s, r)
        PROVE  HasRec(store, r) /\ OwnerOf(s, r) = OwnerOf(store, r)
    BY <1>2, <2>2, OwnersKept
  <2> QED BY <2>1, <2>2 DEF RemoveFails
<1>5. (m.add # {} => m.del = {}) /\ (m.how = "delete" => m.add = {})
  BY <1>2 DEF Ready, RecordsReady, DeleteReady
<1>6. Effect(store, RecordChange(m, s), m, SignerOf(p), m.add, m.del)
  BY <1>2, <1>3, <1>4, <1>5, RecordEffect
<1>7. ~MutationPanics(p, m, s)
  <2>2. ~(p \in Key /\ m.how = "delete" /\ HasKey(store, p) /\ now < store.leases[p].expiresAt)
    <3> SUFFICES ASSUME p \in Key, m.how = "delete", HasKey(store, p)
                 PROVE  ~(now < store.leases[p].expiresAt)
      OBVIOUS
    <3>1. store.leases[p].expiresAt \in Nat
      BY <1>2, StoredNodes DEF HasKey
    <3>2. store.leases[p].expiresAt <= now
      BY <1>2 DEF Ready, DeleteReady
    <3> QED BY <1>2, <3>1, <3>2, NatStrict
  <2> QED BY <1>4, <2>2 DEF MutationPanics
<1>8. ~panicked'
  BY <1>1, <1>7, Zenon DEF HandlerIInv, NoPanic
<1> QED BY <1>1, <1>6, <1>8 DEF Effect

\* Only a refresh can fail, by a record that has another owner; its node is renewed.
LEMMA FailedEffect ==
  ASSUME HandlerIInv, NEW p \in Proc, ApplyFails(p), NEW m, m = Head(mutations[p])
  PROVE  /\ Effect(store, store', m, SignerOf(p), {}, {}) /\ Consistent(store')
         /\ m.how = "renew" /\ p \notin Key
<1> DEFINE s == NodeChange(m, SignerOf(p))
<1>1. Applying(p) /\ MutationFails(m, s) /\ store' = s
  BY DEF ApplyFails, SignerOf
<1>2. /\ Consistent(store) /\ m \in MutationType /\ Ready(p, m) /\ m \in Todo(p) /\ Planned(p)
      /\ Effect(store, s, m, SignerOf(p), {}, {})
  BY <1>1, MutationRuns
<1> HIDE DEF s
<1>3. m.how = "renew"
  <2> SUFFICES ASSUME m.how # "renew" PROVE FALSE
    OBVIOUS
  <2>1. ~UpsertFails(store, m.key, m.add)
    BY <1>2 DEF Ready, RecordsReady
  <2>2. PICK r \in m.add : HasRec(s, r) /\ OwnerOf(s, r) # m.key
    BY <1>1 DEF MutationFails, UpsertFails
  <2>3. HasRec(store, r) /\ OwnerOf(store, r) # m.key
    BY <1>2, <2>2, OwnersKept
  <2> QED BY <2>1, <2>3 DEF UpsertFails
<1>4. p \notin Key
  BY <1>2, <1>3 DEF Planned, ExpiryPlan
<1> QED BY <1>1, <1>2, <1>3, <1>4 DEF Effect

\* What a mutation of p leaves to show: all the rest follows from its effect.
LEMMA MutationStep ==
  ASSUME HandlerIInv, NEW p \in Proc, Applying(p), Alone(p), NEW m, m = Head(mutations[p]),
         NEW add \in SUBSET m.add, NEW del \in SUBSET m.del,
         Effect(store, store', m, SignerOf(p), add, del), Consistent(store'),
         now' = now /\ dns' = dns /\ doubt' = doubt /\ stray' = stray, ~panicked',
         panicked' \in BOOLEAN, leftover \subseteq leftover', leftover' \subseteq Node,
         pc' \in [Proc -> Ops], grant' \in [Proc -> SUBSET Node], holds' \subseteq Proc,
         update' \in [Proc -> [add : SUBSET Node, del : SUBSET Node]],
         timers' \in [Key -> Nat \cup {NoTimer, Spent}],
         OpTypes', Exclusive', Operation(p)', TimerCoverage',
         \A n \in RRsOf(update[p]) \ (InTransit' \cup doubt \cup leftover') :
            Leased(store', n) <=> n \in dns
  PROVE  HandlerIInv'
<1>1. /\ Consistent(store) /\ now \in Nat /\ Planned(p) /\ m \in MutationType /\ Ready(p, m)
      /\ RRsOf(update[p]) \subseteq grant[p]
  BY MutationRuns
<1>2. TypeOK'
  BY DEF HandlerIInv, TypeOK, Consistent
<1>3. ASSUME NEW q \in Proc \ {p} PROVE Operation(q)'
  <2>1. grant[q] \in SUBSET Node /\ grant[q] \cap grant[p] = {} /\ Operation(q) /\ OpTypes
    BY DEF HandlerIInv, TypeOK, Exclusive
  <2>2. Alike(store, store', grant[q])
    BY <1>1, <2>1, OthersAlike, Zenon
  <2>4. Kept(q)
    BY <1>1, <2>2, SameTime DEF Kept, Undisturbed, Alone
  <2> QED BY <1>1, <2>1, <2>4, OperationKept
<1>4. \A q \in Proc : Operation(q)'
  BY <1>3
<1>5. StoreMatchesDNS'
  <2> SUFFICES ASSUME NEW n \in Node, n \notin InTransit' \cup doubt' \cup leftover'
               PROVE  Leased(store', n) <=> n \in dns'
    BY DEF StoreMatchesDNS, Settled
  <2>2. CASE n \notin RRsOf(update[p])
    <3>3. /\ Leased(store', n) /\ ~Leased(store, n) => n \in update[p].add
          /\ Leased(store, n) /\ ~Leased(store', n) => n \in update[p].del
      BY <1>1, LeasedAsSent
    <3>1. n \notin InTransit \cup doubt \cup leftover
      <4>1. ASSUME NEW q \in Proc, Applying(q), n \in RRsOf(update[q]) PROVE n \in InTransit'
        BY <2>2, <4>1 DEF InTransit, Applying, Alone
      <4>2. ASSUME n \in InTransit PROVE FALSE
        <5>1. PICK q \in Proc : Applying(q) /\ n \in RRsOf(update[q])
          BY <4>2, SMT DEF InTransit
        <5> QED BY <4>1, <5>1
      <4> QED BY <4>2
    <3>2. Leased(store, n) <=> n \in dns
      BY <3>1 DEF HandlerIInv, StoreMatchesDNS, Settled
    <3> QED BY <2>2, <3>2, <3>3 DEF RRsOf
  <2> QED BY <2>2
<1>6. NoPanic'
  BY DEF NoPanic
<1>7. LeasesBounded'
  <2> SUFFICES ASSUME NEW k \in DOMAIN store'.leases
               PROVE  store'.leases[k].expiresAt <= now + KeyLeaseTime
    BY DEF LeasesBounded
  <2>0. k \in Key /\ m.lease \in Nat /\ m.how \in {"register", "renew", "delete", "keep"}
    BY <1>1, StoredNodes, MutationFields
  <2>1. CASE k = m.key /\ m.how \in {"register", "renew"}
    <3>1. store'.leases[k].expiresAt = now + m.lease
      <4>1. PICK x : store'.leases[k] = [parent |-> x, expiresAt |-> now + m.lease]
        BY <2>1 DEF Effect, LeasesAfter
      <4> QED BY <4>1, LeaseFields
    <3>2. m.lease <= KeyLeaseTime
      <4>1. CASE m.how = "register"
        <5>1. m.lease = KeyLeaseTime
          BY <1>1, <4>1 DEF Ready, RegisterReady
        <5> QED BY <2>0, <5>1, NatReflexive
      <4>2. CASE m.how = "renew"
        BY <1>1, <4>2 DEF Ready, RenewReady
      <4> QED BY <2>1, <4>1, <4>2
    <3>3. KeyLeaseTime \in Nat
      BY LeaseTimeAssumption
    <3>4. now + m.lease <= now + KeyLeaseTime
      BY <1>1, <2>0, <3>2, <3>3, NatSum
    <3> QED BY <3>1, <3>4
  <2>2. CASE ~(k = m.key /\ m.how \in {"register", "renew"})
    <3>1. store'.leases[k] = store.leases[k] /\ HasKey(store, k)
      BY <2>0, <2>2 DEF Effect, LeasesAfter, HasKey
    <3> QED BY <3>1 DEF HandlerIInv, LeasesBounded, HasKey
  <2> QED BY <2>1, <2>2
<1> QED BY <1>2, <1>4, <1>5, <1>6, <1>7 DEF HandlerIInv

\* A timer still covers its node after a mutation that leaves it as it is.
LEMMA TimerStands ==
  ASSUME EarliestExists, HandlerIInv, Consistent(store'), now' = now, NEW q \in Proc,
         NEW m \in MutationType,
         NEW add \in SUBSET m.add, NEW del \in SUBSET m.del,
         Effect(store, store', m, SignerOf(q), add, del), Ready(q, m), NEW k \in Key,
         k # m.key \/ (m.how # "register" /\ add = {}), k \in ListOwners(store'),
         timers'[k] = timers[k], pc[k] # "idle" => pc'[k] # "idle"
  PROVE  TimerFor(k)'
<1>1. Consistent(store) /\ now \in Nat
  BY DEF HandlerIInv, TypeOK
<1>2. k \in ListOwners(store) /\ NextLeaseEvent(store, k) <= NextLeaseEvent(store', k)
  BY <1>1, EventsLater
<1>3. TimerFor(k)
  BY <1>2 DEF HandlerIInv, TimerCoverage, TimerFor
<1>4. NextLeaseEvent(store, k) \in Nat /\ NextLeaseEvent(store', k) \in Nat
  BY <1>1, <1>2, NextEvent
<1> QED BY <1>2, <1>3, <1>4, NatTransitive DEF TimerFor

\* A mutation leaves every owner its timer: deleted nodes own nothing, and a node whose
\* next event comes earlier is scheduled.
LEMMA TimersAfter ==
  ASSUME EarliestExists, HandlerIInv, NEW p \in Proc, Applying(p), NEW m, m = Head(mutations[p]),
         Effect(store, store', m, SignerOf(p), m.add, m.del), Consistent(store'),
         TimerChange(m, store'), Alone(p), now' = now
  PROVE  TimerCoverage' /\ timers' \in [Key -> Nat \cup {NoTimer, Spent}]
<1>1. /\ Consistent(store) /\ now \in Nat /\ Planned(p) /\ m \in MutationType /\ m \in Todo(p)
      /\ Ready(p, m)
  BY MutationRuns
<1>2. timers' = [k \in Key |->
        IF m.how = "delete" /\ k \in Subtree(store, m.key) THEN NoTimer
        ELSE IF k = m.key /\ m.sched THEN NextLeaseEvent(store', k) ELSE timers[k]]
  BY DEF TimerChange
<1>3. \A k \in Key : NextLeaseEvent(store', k) \in Nat \cup {NoTimer}
  BY NextEvent
<1>4. timers' \in [Key -> Nat \cup {NoTimer, Spent}]
  BY <1>2, <1>3 DEF HandlerIInv, TypeOK
<1>5. ASSUME NEW k \in ListOwners(store') PROVE TimerFor(k)'
  <2>1. k \in Key
    BY OwnersAreKeys
  <2>2. ~(m.how = "delete" /\ k \in Subtree(store, m.key))
    <3> SUFFICES ASSUME m.how = "delete", k \in Subtree(store, m.key) PROVE FALSE
      OBVIOUS
    <3>1. Effect(store, store', m, SignerOf(p), {}, m.del)
      BY <1>1, Zenon DEF Ready, DeleteReady
    <3> QED BY <1>1, <1>5, <3>1, DeletedOwnNothing
  <2>3. CASE k = m.key /\ m.sched
    <3>1. timers'[k] = NextLeaseEvent(store', k)
      BY <1>2, <2>1, <2>2, <2>3
    <3>2. NextLeaseEvent(store', k) \in Nat
      BY <1>5, <2>1, NextEvent
    <3> QED BY <3>1, <3>2, NatReflexive DEF TimerFor
  <2>4. CASE ~(k = m.key /\ m.sched)
    <3>1. timers'[k] = timers[k]
      BY <1>2, <2>1, <2>2, <2>4
    <3>2. k # m.key \/ (m.how # "register" /\ m.add = {})
      BY <1>1, <2>4 DEF Ready, RegisterReady, RecordsReady
    <3>3. k # p
      BY <1>1, <2>1, <2>4 DEF Planned, ExpiryPlan
    <3>4. pc'[k] = pc[k]
      BY <2>1, <3>3 DEF Alone, Proc
    <3> QED BY <1>1, <1>5, <2>1, <3>1, <3>2, <3>4, TimerStands
  <2> QED BY <2>3, <2>4
<1> QED BY <1>4, <1>5 DEF TimerCoverage, TimerFor

\* A mutation that succeeds.
LEMMA ApplyKeeps ==
  ASSUME EarliestExists, HandlerIInv, NEW p \in Proc, Apply(p)
  PROVE  HandlerIInv'
<1> DEFINE u == update[p]
<1>1. PICK m : m = Head(mutations[p])
  OBVIOUS
<1>2. /\ Applying(p) /\ dns' = dns /\ leftover' = leftover /\ now' = now /\ stray' = stray
      /\ doubt' = doubt
  BY Zenon DEF Apply, envVars
<1>3. TimerChange(m, store') /\ panicked' \in BOOLEAN
  BY <1>1 DEF Apply, HandlerIInv, NoPanic
<1>4. /\ Effect(store, store', m, SignerOf(p), m.add, m.del)
      /\ Consistent(store') /\ ~panicked'
  BY <1>1, ApplyEffect
<1>5. /\ Consistent(store) /\ now \in Nat /\ Planned(p) /\ Published(p) /\ Ready(p, m)
      /\ RRsOf(u) \subseteq grant[p] /\ RRsOf(u) \subseteq Node
  BY <1>1, <1>2, MutationRuns
<1>6. /\ pc \in [Proc -> Ops] /\ grant \in [Proc -> SUBSET Node] /\ holds \subseteq Proc
      /\ update \in [Proc -> [add : SUBSET Node, del : SUBSET Node]]
      /\ leftover \subseteq Node /\ DOMAIN mutations = Proc
  BY DEF HandlerIInv, TypeOK, OpTypes
<1>7. m.add \in SUBSET m.add /\ m.del \in SUBSET m.del
  OBVIOUS
<1>8. CASE Len(mutations[p]) = 1
  <2>1. End(p)
    BY <1>8 DEF Apply
  <2>2. /\ Alone(p) /\ Exclusive' /\ OpTypes' /\ Operation(p)'
        /\ pc' \in [Proc -> Ops] /\ grant' \in [Proc -> SUBSET Node] /\ holds' \subseteq Proc
        /\ update' \in [Proc -> [add : SUBSET Node, del : SUBSET Node]]
    BY <2>1, EndFrame
  <2>3. TimerCoverage' /\ timers' \in [Key -> Nat \cup {NoTimer, Spent}]
    BY <1>1, <1>2, <1>3, <1>4, <2>2, TimersAfter
  <2>4. ASSUME NEW n \in RRsOf(u) \ (InTransit' \cup doubt \cup leftover')
        PROVE  Leased(store', n) <=> n \in dns
    <3>1. /\ \A x \in u.add \cap Node : Leased(store', x)
          /\ \A x \in u.del \cap Node : ~Leased(store', x)
      BY <1>1, <1>4, <1>5, <1>8, PlanDone
    <3>2. n \in dns <=> n \in u.add
      BY <1>5 DEF Published
    <3> QED BY <1>5, <2>4, <3>1, <3>2 DEF RRsOf, Planned
  <2> QED BY <1>1, <1>2, <1>3, <1>4, <1>6, <1>7, <2>2, <2>3, <2>4, MutationStep, Zenon
<1>9. CASE Len(mutations[p]) # 1
  <2>1. /\ mutations' = [mutations EXCEPT ![p] = Tail(mutations[p])]
        /\ pc' = [pc EXCEPT ![p] = "applying"]
        /\ grant' = grant /\ holds' = holds /\ request' = request /\ update' = update
    BY <1>9 DEF Apply, lockVars
  <2>2. Alone(p) /\ pc'[p] = "applying" /\ mutations'[p] = Tail(mutations[p])
    BY <1>6, <2>1 DEF Alone
  <2>3. /\ pc' \in [Proc -> Ops] /\ grant' \in [Proc -> SUBSET Node] /\ holds' \subseteq Proc
        /\ update' \in [Proc -> [add : SUBSET Node, del : SUBSET Node]]
    BY <1>6, <2>1 DEF Ops
  <2>4. Exclusive'
    BY <1>2, <2>1, <2>2, LocksKept DEF Applying, Sent
  <2>5. OpTypes'
    BY <1>2, <1>6, <2>1, <2>2 DEF Alone, Proc, Applying, HandlerIInv, OpTypes
  <2>6. Operation(p)'
    <3>1. Planned(p)'
      BY <1>1, <1>2, <1>4, <1>5, <1>9, <2>1, <2>2, PlanAdvances DEF SignerOf
    <3>2. Published(p)'
      BY <1>2, <1>5, <2>1 DEF Published
    <3> QED BY <2>2, <3>1, <3>2 DEF Operation
  <2>7. TimerCoverage' /\ timers' \in [Key -> Nat \cup {NoTimer, Spent}]
    BY <1>1, <1>2, <1>3, <1>4, <2>2, TimersAfter
  <2>9. \A n \in RRsOf(u) \ (InTransit' \cup doubt \cup leftover') :
          Leased(store', n) <=> n \in dns
    BY <2>1, <2>2 DEF InTransit, Applying
  <2> QED BY <1>1, <1>2, <1>3, <1>4, <1>6, <1>7, <2>2, <2>3, <2>4, <2>5, <2>6, <2>7, <2>9,
             MutationStep, Zenon
<1> QED BY <1>8, <1>9

\* A mutation that fails: its RRs are left over.
LEMMA ApplyFailsKeeps ==
  ASSUME EarliestExists, HandlerIInv, NEW p \in Proc, ApplyFails(p)
  PROVE  HandlerIInv'
<1> DEFINE u == update[p]
<1>1. PICK m : m = Head(mutations[p])
  OBVIOUS
<1>2. /\ Applying(p) /\ End(p) /\ dns' = dns /\ now' = now /\ stray' = stray
      /\ doubt' = doubt /\ timers' = timers /\ panicked' = panicked
      /\ leftover' = leftover \cup RRsOf(u)
  BY Zenon DEF ApplyFails, envVars
<1>3. PICK none : none = {}
  BY Zenon
<1>4. /\ Effect(store, store', m, SignerOf(p), none, none)
      /\ Consistent(store') /\ m.how = "renew" /\ p \notin Key
  BY <1>1, <1>3, FailedEffect
<1>5. /\ m \in MutationType /\ Ready(p, m) /\ RRsOf(u) \subseteq Node
  BY <1>1, <1>2, MutationRuns
<1>6. /\ leftover \subseteq Node /\ timers \in [Key -> Nat \cup {NoTimer, Spent}]
      /\ panicked \in BOOLEAN /\ ~panicked
  BY DEF HandlerIInv, TypeOK, NoPanic
<1>7. /\ Alone(p) /\ Exclusive' /\ OpTypes' /\ Operation(p)'
      /\ pc' \in [Proc -> Ops] /\ grant' \in [Proc -> SUBSET Node] /\ holds' \subseteq Proc
      /\ update' \in [Proc -> [add : SUBSET Node, del : SUBSET Node]]
  BY <1>2, EndFrame
<1>8. none \in SUBSET m.add /\ none \in SUBSET m.del
  BY <1>3
<1>9. TimerCoverage'
  <2>1. ASSUME NEW k \in ListOwners(store') PROVE TimerFor(k)'
    <3>1. k \in Key
      BY <1>4, OwnersAreKeys
    <3>2. pc'[k] = pc[k]
      BY <1>4, <1>7, <3>1 DEF Alone, Proc
    <3>3. m.how # "register" /\ none = {}
      BY <1>3, <1>4
    <3> QED BY <1>2, <1>4, <1>5, <1>8, <2>1, <3>1, <3>2, <3>3, TimerStands
  <2> QED BY <2>1 DEF TimerCoverage, TimerFor
<1>10. /\ leftover \subseteq leftover' /\ leftover' \subseteq Node
       /\ timers' \in [Key -> Nat \cup {NoTimer, Spent}]
       /\ panicked' \in BOOLEAN /\ ~panicked'
       /\ \A n \in RRsOf(u) \ (InTransit' \cup doubt \cup leftover') :
            Leased(store', n) <=> n \in dns
  BY <1>2, <1>5, <1>6
<1> QED BY <1>1, <1>2, <1>4, <1>7, <1>8, <1>9, <1>10, MutationStep, Zenon

---------------------------------------------------------------------------
(* The theorems.                                                            *)

\* Every step preserves the invariant.
LEMMA NextKeeps ==
  ASSUME EarliestExists, HandlerIInv, [Next]_vars
  PROVE  HandlerIInv'
<1>1. CASE Tick
  BY <1>1, TickKeeps
<1>2. ASSUME NEW p \in Slot, NEW q \in Requests, Arrive(p, q) PROVE HandlerIInv'
  BY <1>2, ArriveKeeps
<1>3. ASSUME NEW p \in Slot, RequestStep(p) PROVE HandlerIInv'
  BY <1>3, LockKeeps, LockTimeoutKeeps, CheckKeeps, RefuseKeeps DEF RequestStep
<1>4. ASSUME NEW p \in Proc, UpstreamStep(p) \/ Apply(p) \/ ApplyFails(p) PROVE HandlerIInv'
  BY <1>4, ConfirmKeeps, SendFailsKeeps, ApplyKeeps, ApplyFailsKeeps DEF UpstreamStep
<1>5. ASSUME NEW k \in Key, ExpiryStep(k) PROVE HandlerIInv'
  BY <1>5, ExpiryRunKeeps, ExpireKeeps DEF ExpiryStep
<1>6. CASE \/ \E u \in stray : StrayApplied(u) \/ StrayLost(u)
           \/ \E n \in Node : External(n)
  BY <1>6, OthersKeep
<1>7. CASE UNCHANGED vars
  <2>1. /\ UNCHANGED <<store, timers, panicked, leftover, lockVars, opVars, now>>
        /\ dns' = dns /\ doubt' = doubt /\ stray' = stray
    BY <1>7, Zenon DEF vars, envVars
  <2>2. dns \subseteq Node
    BY DEF HandlerIInv, TypeOK
  <2>3. PICK rrs \in SUBSET Node : rrs = {}
    BY Zenon
  <2>4. /\ doubt' = doubt \cup rrs /\ dns' \subseteq Node /\ stray' \subseteq stray
        /\ \A n \in Node \ rrs : n \in dns' <=> n \in dns
    BY <2>1, <2>2, <2>3
  <2> QED BY <2>1, <2>4, DNSChangeKeeps
<1> QED BY <1>1, <1>2, <1>3, <1>4, <1>5, <1>6, <1>7 DEF Next

\* A step changes the store by one mutation of an operation whose UPDATE is confirmed, or
\* not at all.
LEMMA StoreSteps ==
  ASSUME HandlerIInv, [Next]_vars, store' # store
  PROVE  \E p \in Proc, m \in MutationType :
           /\ Applying(p) /\ Ready(p, m) /\ Consistent(store')
           /\ \E add \in SUBSET m.add, del \in SUBSET m.del :
                Effect(store, store', m, SignerOf(p), add, del)
<1>1. ASSUME NEW p \in Proc, Apply(p)
      PROVE  \E m \in MutationType :
               /\ Applying(p) /\ Ready(p, m) /\ Consistent(store')
               /\ \E add \in SUBSET m.add, del \in SUBSET m.del :
                    Effect(store, store', m, SignerOf(p), add, del)
  BY <1>1, MutationRuns, ApplyEffect DEF Apply
<1>2. ASSUME NEW p \in Proc, ApplyFails(p)
      PROVE  \E m \in MutationType :
               /\ Applying(p) /\ Ready(p, m) /\ Consistent(store')
               /\ \E add \in SUBSET m.add, del \in SUBSET m.del :
                    Effect(store, store', m, SignerOf(p), add, del)
  <2>1. PICK m : m = Head(mutations[p])
    OBVIOUS
  <2>2. Applying(p)
    BY <1>2 DEF ApplyFails
  <2>3. m \in MutationType /\ Ready(p, m)
    BY <2>1, <2>2, MutationRuns
  <2>4. Effect(store, store', m, SignerOf(p), {}, {}) /\ Consistent(store')
    BY <1>2, <2>1, FailedEffect
  <2> QED BY <2>2, <2>3, <2>4
<1>3. \E p \in Proc : Apply(p) \/ ApplyFails(p)
  <2>1. ~Tick /\ ~UNCHANGED vars
    BY Zenon DEF Tick, vars
  <2>2. \A p \in Slot, q \in Requests : ~Arrive(p, q)
    BY Zenon DEF Arrive
  <2>3. \A p \in Slot : ~RequestStep(p)
    BY Zenon DEF RequestStep, Lock, LockTimeout, Check, Refuse, LookupFails
  <2>4. \A p \in Proc : ~UpstreamStep(p)
    BY Zenon DEF UpstreamStep, Confirm, Reject, Unanswered, SendFails
  <2>5. \A k \in Key : ~ExpiryStep(k)
    BY Zenon DEF ExpiryStep, Fire, Expire, NothingDue, BackOff
  <2>6. (\A u : ~StrayApplied(u) /\ ~StrayLost(u)) /\ (\A n : ~External(n))
    BY Zenon DEF StrayApplied, StrayLost, External
  <2> QED BY <2>1, <2>2, <2>3, <2>4, <2>5, <2>6 DEF Next
<1> QED BY <1>1, <1>2, <1>3

LOCAL INSTANCE WellFoundedInduction

\* The instants at which leases end are naturals, of which any set has a first.
LEMMA HasEarliest == EarliestExists
<1> SUFFICES ASSUME NEW T \in SUBSET Nat, T # {}
             PROVE  \E t \in T : \A u \in T : t <= u
  BY DEF EarliestExists
<1>1. PICK t \in T : \A u \in T : ~(<<u, t>> \in OpToRel(<, Nat))
  BY NatLessThanWellFounded, WFMin, Zenon
<1>2. \A u \in T : ~(u < t)
  BY <1>1, Zenon DEF OpToRel
<1> QED BY <1>2, SMT

\* The inductive invariant holds in every run of the handler.
THEOREM HandlerInvariance == Spec => []HandlerIInv
<1>1. HandlerIInv /\ [Next]_vars => HandlerIInv'
  BY NextKeeps, HasEarliest
<1> QED BY <1>1, InitHandler, PTL DEF Spec

\* The types hold, no branch the code declares impossible is reached, and every owner of
\* a lease has a timer or an expiry run, for any requests in any number of slots (the
\* panics of opcode5_handle.go and opcode5_expire.go; expiryTimers).
THEOREM HandlerSound == Spec => []HandlerInv
<1>1. HandlerIInv => HandlerInv
  BY DEF HandlerIInv, HandlerInv
<1> QED BY <1>1, HandlerInvariance, PTL

\* The store and the DNS agree on every RR that is not in transit, in doubt or left over
\* (Handle: the store changes only after the confirmed UPDATE, under the same locks).
THEOREM StoreAgrees == Spec => []StoreMatchesDNS
<1>1. HandlerIInv => StoreMatchesDNS
  BY DEF HandlerIInv
<1> QED BY <1>1, HandlerInvariance, PTL

\* Nothing is remembered or forgotten before the server confirmed it (the deferred
\* mutations of Handle and expire, cascades included).
THEOREM StoreFollows == Spec => StoreFollowsUpstream
<1>1. ASSUME HandlerIInv, [Next]_vars, NEW n \in Node, Leased(store, n) # Leased(store', n)
      PROVE  \E p \in Proc : /\ Applying(p)
                             /\ n \in IF Leased(store, n) THEN update[p].del
                                                          ELSE update[p].add
  <2>2. PICK p \in Proc, m \in MutationType :
           /\ Applying(p) /\ Ready(p, m) /\ Consistent(store')
           /\ \E add \in SUBSET m.add, del \in SUBSET m.del :
                Effect(store, store', m, SignerOf(p), add, del)
    BY <1>1, StoreSteps
  <2>3. PICK add \in SUBSET m.add, del \in SUBSET m.del :
          Effect(store, store', m, SignerOf(p), add, del)
    BY <2>2
  <2>4. Consistent(store)
    BY <1>1 DEF HandlerIInv
  <2>5. /\ Leased(store', n) /\ ~Leased(store, n) => n \in update[p].add
        /\ Leased(store, n) /\ ~Leased(store', n) => n \in update[p].del
    BY <2>2, <2>4, LeasedAsSent
  <2>6. Leased(store, n) \in BOOLEAN /\ Leased(store', n) \in BOOLEAN
    BY DEF Leased, HasKey, HasRec
  <2>7. n \in IF Leased(store, n) THEN update[p].del ELSE update[p].add
    <3>1. CASE Leased(store, n)
      BY <1>1, <2>5, <2>6, <3>1
    <3>2. CASE ~Leased(store, n)
      BY <1>1, <2>5, <2>6, <3>2
    <3> QED BY <3>1, <3>2
  <2> QED BY <2>2, <2>7
<1>2. HandlerIInv /\ [Next]_vars =>
        [\A n \in Node : Leased(store, n) # Leased(store', n) =>
           \E p \in Proc : /\ Applying(p)
                           /\ n \in IF Leased(store, n) THEN update[p].del
                                                        ELSE update[p].add]_vars
  BY <1>1
<1> QED BY <1>2, HandlerInvariance, PTL DEF Spec, StoreFollowsUpstream

\* A KEY whose lease is running keeps its parent, whoever refreshes it and however
\* requests overlap (authorizeKeyRefresh, RegisterWithParent).
THEOREM ParentsKept == Spec => KeyKeepsParent
<1>1. ASSUME HandlerIInv, [Next]_vars, NEW k \in Key, Lookup(store, k, now), HasKey(store', k)
      PROVE  store'.leases[k].parent = store.leases[k].parent
  <2>2. CASE store' # store
    <3>1. PICK p \in Proc, m \in MutationType :
             /\ Applying(p) /\ Ready(p, m) /\ Consistent(store')
             /\ \E add \in SUBSET m.add, del \in SUBSET m.del :
                  Effect(store, store', m, SignerOf(p), add, del)
      BY <1>1, <2>2, StoreSteps
    <3>2. LeasesAfter(store, store', m, SignerOf(p)) /\ k \in DOMAIN store'.leases
      BY <1>1, <3>1 DEF Effect, HasKey
    <3>3. CASE k = m.key /\ m.how = "register"
      <4>1. store'.leases[k] = [parent |-> ParentFor(k, SignerOf(p)), expiresAt |-> now + m.lease]
        BY <3>2, <3>3 DEF LeasesAfter
      <4>2. store.leases[k].parent = ParentFor(k, SignerOf(p))
        BY <1>1, <3>1, <3>3 DEF Ready, RegisterReady
      <4> QED BY <4>1, <4>2, LeaseFields
    <3>4. CASE k = m.key /\ m.how = "renew"
      <4>1. store'.leases[k] = [parent |-> store.leases[k].parent, expiresAt |-> now + m.lease]
        BY <3>2, <3>4 DEF LeasesAfter
      <4> QED BY <4>1, LeaseFields
    <3>5. CASE k # m.key \/ m.how \in {"keep", "delete"}
      BY <3>2, <3>5, Zenon DEF LeasesAfter
    <3> QED BY <3>3, <3>4, <3>5, MutationFields
  <2> QED BY <2>2
<1>2. HandlerIInv /\ [Next]_vars =>
        [\A k \in Key : Lookup(store, k, now) /\ HasKey(store', k)
           => store'.leases[k].parent = store.leases[k].parent]_vars
  BY <1>1
<1> QED BY <1>2, HandlerInvariance, PTL DEF Spec, KeyKeepsParent

\* A node of the store changes only in a step of an operation that has it locked, be it
\* deleted in a cascade (requestLockSet, the subtree locks of expire).
ChangesLocked ==
  [][\A n \in Node : ~SameNode(store, store', n) =>
       \E p \in Proc : Applying(p) /\ n \in grant[p]]_vars

\* Every change of the store is made under the lock of the node it changes.
THEOREM LocksCoverChanges == Spec => ChangesLocked
<1>1. ASSUME HandlerIInv, [Next]_vars, NEW n \in Node, ~SameNode(store, store', n)
      PROVE  \E p \in Proc : Applying(p) /\ n \in grant[p]
  <2>2. PICK p \in Proc, m \in MutationType :
           /\ Applying(p) /\ Ready(p, m) /\ Consistent(store')
           /\ \E add \in SUBSET m.add, del \in SUBSET m.del :
                Effect(store, store', m, SignerOf(p), add, del)
    BY <1>1, StoreSteps DEF SameNode
  <2>3. PICK add \in SUBSET m.add, del \in SUBSET m.del :
          Effect(store, store', m, SignerOf(p), add, del)
    BY <2>2
  <2>4. Consistent(store) /\ RRsOf(update[p]) \subseteq grant[p]
    BY <1>1, <2>2 DEF HandlerIInv, Operation, Applying, Sent, Planned
  <2>5. PICK g \in SUBSET Node : g = Node \ grant[p]
    BY Zenon
  <2>6. Alike(store, store', g)
    BY <2>2, <2>3, <2>4, <2>5, OthersAlike
  <2> QED BY <1>1, <2>2, <2>5, <2>6 DEF Alike
<1>2. HandlerIInv /\ [Next]_vars =>
        [\A n \in Node : ~SameNode(store, store', n) =>
           \E p \in Proc : Applying(p) /\ n \in grant[p]]_vars
  BY <1>1
<1> QED BY <1>2, HandlerInvariance, PTL DEF Spec, ChangesLocked
==========================================================================
