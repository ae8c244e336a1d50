--------------------------- MODULE UpdateHandler ---------------------------
(***************************************************************************)
(* The RFC 9664 handler, handlers/opcode5_*.go: requests and lease         *)
(* expiries working on one lease store and one authoritative DNS server.   *)
(*                                                                         *)
(* A request takes its node locks, reads the store and the DNS, sends one  *)
(* UPDATE upstream and, only once that is confirmed, changes the store.    *)
(* An expiry does the same for a node whose timer fires.  Steps end where  *)
(* the code can be overtaken: waiting for locks, waiting for the upstream  *)
(* server, and between two mutations of one request.                       *)
(*                                                                         *)
(* Durations, names and record contents are abstract: a request is one of  *)
(* the cases of the LEASE / KEY-LEASE matrix (A: both, B: LEASE only, C:   *)
(* neither, D: KEY-LEASE only), with the KEYs and records it names.  The   *)
(* lock table is the abstract one that NodeLocks implements.               *)
(***************************************************************************)
EXTENDS LeaseTree, Sequences

CONSTANTS Slot,          \* concurrent requests
          Requests,      \* the requests clients may send
          Covers,        \* Covers[k]: the nodes named at or below k's name
          LeaseTime,     \* the granted LEASE
          KeyLeaseTime,  \* the granted KEY-LEASE
          AllowOnline,   \* AllowOnlineKeyRegistration
          Provisioned,   \* what other writers put in DNS before the proxy started
          NoTimer,       \* no entry in the timer table
          Spent,         \* an entry whose timer has fired
          MaxTime,       \* bounds: the clock,
          MaxEvents      \*   requests, UPDATEs that fail, and changes others make

ASSUME LeaseTimeAssumption ==
  /\ LeaseTime \in Nat \ {0} /\ KeyLeaseTime \in Nat /\ LeaseTime <= KeyLeaseTime
ASSUME HandlerAssumption ==
  /\ Slot \cap Node = {} /\ Covers \in [Key -> SUBSET Node]
  /\ AllowOnline \in BOOLEAN /\ Provisioned \subseteq Node
  /\ NoTimer \notin Nat /\ Spent \notin Nat /\ NoTimer # Spent
  /\ Requests \subseteq [signer : Key, case : {"A", "B", "C", "D"},
                         keys : Seq(Key), recs : SUBSET Rec, carried : BOOLEAN]

\* An operation is a request in its slot or the expiry run of a KEY's node.
Proc == Slot \cup Key

VARIABLES store,      \* the lease store
          now,        \* the clock
          dns,        \* the RRs the authoritative server publishes
          grant,      \* the node locks each operation holds
          holds,      \* the operations that hold a lock set
          pc,         \* where each operation is
          request,    \* the request in each slot, its signer's source added
          update,     \* the UPDATE each operation sends upstream
          mutations,  \* what it does to the store once that is confirmed
          timers,     \* the expiry timer of each node: when it is due
          stray,      \* UPDATEs sent without an answer, applied late or never
          panicked,   \* a panic of the code was reached
          doubt,      \* RRs a late UPDATE or another writer may have changed
          leftover,   \* RRs of requests that failed after their UPDATE
          budget      \* what is left of the bounds

lockVars == <<grant, holds>>
opVars == <<pc, request, update, mutations>>
envVars == <<now, stray, doubt, budget>>
vars == <<store, dns, timers, panicked, leftover, lockVars, opVars, envVars>>

Locks == INSTANCE LockTable WITH Id <- Node

NoUpdate == [add |-> {}, del |-> {}]
NoRequest == [source |-> "none"]

Init ==
  /\ store = EmptyStore
  /\ now = 0
  /\ dns = Provisioned
  /\ Locks!Init
  /\ pc = [p \in Proc |-> "idle"]
  /\ request = [p \in Slot |-> NoRequest]
  /\ update = [p \in Proc |-> NoUpdate]
  /\ mutations = [p \in Proc |-> <<>>]
  /\ timers = [k \in Key |-> NoTimer]
  /\ stray = {}
  /\ panicked = FALSE
  /\ doubt = Provisioned
  /\ leftover = {}
  /\ budget = MaxEvents

Leased(s, n) == HasKey(s, n) \/ HasRec(s, n)

RRsOf(u) == u.add \cup u.del

---------------------------------------------------------------------------
(* Timers (expiryTimers).                                                   *)

\* nextLeaseEvent: the earliest expiry of a node's KEY and of its own records.
NextLeaseEvent(s, k) ==
  LET times == {s.leases[x].expiresAt : x \in {k} \cap DOMAIN s.leases}
               \cup {s.nonKeyRecords[r].expiresAt : r \in RecordSet(s, k)}
  IN  IF times = {} THEN NoTimer
      ELSE CHOOSE t \in times : \A u \in times : t <= u

\* schedule: arm for the next lease event of the store s, or disarm.
Schedule(s, k) == timers' = [timers EXCEPT ![k] = NextLeaseEvent(s, k)]

\* finish(complete = false): arm for the retry.  The backoff is a delay of any
\* length, so the retry may fire at any later moment.
Retry(k) == timers' = [timers EXCEPT ![k] = now]

---------------------------------------------------------------------------
(* What a request's checks decide from the store, the DNS and the clock.    *)

SignerInUpdate(q) == \E i \in DOMAIN q.keys : q.keys[i] = q.signer

\* extractAndValidateSig0: the request's own KEYs, then the store, then the DNS.
SignerSource(q) ==
  IF q.carried \/ SignerInUpdate(q) THEN "request"
  ELSE IF Lookup(store, q.signer, now) THEN "store"
  ELSE IF q.signer \in dns THEN "authoritative" ELSE "none"

\* signerAuthorizedForNewRegistration
MayRegister(q) ==
  \/ Lookup(store, q.signer, now)
  \/ SignerInUpdate(q)
  \/ q.source = "authoritative" /\ AllowOnline

\* authorizeKeyRefresh: the KEY itself or the parent on record.
MayRefresh(q, k) == k = q.signer \/ store.leases[k].parent = q.signer

\* authoritativeHasKeyAtName: any KEY at the name will do.
KeyAtName(k) == \E x \in dns \cap Key : KeyName[x] = KeyName[k]

\* filterDuplicateRegistrations rejects the request.
Duplicate(owner, recs) ==
  \E r \in recs : IF HasRec(store, r) THEN OwnerOf(store, r) # owner ELSE r \in dns

\* The lease left of a KEY that has to be published again, at least 1.
Remaining(k) == IF store.leases[k].expiresAt > now
                  THEN store.leases[k].expiresAt - now ELSE 1

\* effectiveRefreshKeyLease
RefreshLease(k) == IF KeyAtName(k) THEN KeyLeaseTime ELSE Remaining(k)

\* All other records of a request belong to its signer.
Scoped(q, k) == IF k = q.signer THEN q.recs ELSE {}

\* The records of a request that the given KEY has.
Own(q, k) == {r \in Scoped(q, k) : HasRec(store, r) /\ OwnerOf(store, r) = k}

Keys(q) == {q.keys[i] : i \in DOMAIN q.keys}

\* A step of the store's change: what happens to the node key, then the records
\* it gets and loses, then whether its timer is scheduled.
Mutation(key, how, lease, add, del, sched) ==
  [key |-> key, how |-> how, lease |-> lease, add |-> add, del |-> del,
   sched |-> sched]

Register(k, add, del) == Mutation(k, "register", KeyLeaseTime, add, del, TRUE)
Renew(k, add, del) == Mutation(k, "renew", RefreshLease(k), add, del, TRUE)
Upsert(k, add) == Mutation(k, "keep", 0, add, {}, TRUE)

\* Cases A and D refresh a KEY the store knows and register any other.
KeyMutation(k, add, del) ==
  IF Lookup(store, k, now) THEN Renew(k, add, del) ELSE Register(k, add, del)

\* Case A: register or refresh the KEYs, with the records for the signer.  A
\* refresh is not checked for duplicates, and its KEY is sent only if no KEY is
\* published at its name.
AcceptsA(q) ==
  /\ q.keys # <<>> /\ q.recs # {}
  /\ MayRegister(q)
  /\ \A k \in Keys(q) :
       IF Lookup(store, k, now) THEN MayRefresh(q, k)
                                ELSE k \notin dns /\ ~Duplicate(k, Scoped(q, k))
  /\ SignerInUpdate(q) \/ ~Duplicate(q.signer, q.recs)

UpdateA(q) ==
  [add |-> q.recs \cup {k \in Keys(q) : Lookup(store, k, now) => ~KeyAtName(k)},
   del |-> {}]

\* Faulty variant: a refresh registers its KEY again, under its signer.
MutationsAReregister(q) ==
  [i \in DOMAIN q.keys |-> Register(q.keys[i], Scoped(q, q.keys[i]), {})]
  \o (IF SignerInUpdate(q) THEN <<>> ELSE <<Upsert(q.signer, q.recs)>>)

MutationsA(q) ==
  [i \in DOMAIN q.keys |-> KeyMutation(q.keys[i], Scoped(q, q.keys[i]), {})]
  \o (IF SignerInUpdate(q) THEN <<>> ELSE <<Upsert(q.signer, q.recs)>>)

\* Case B: the managed signer's records; its own KEY is put back if no KEY is
\* published at its name.
AcceptsB(q) ==
  /\ q.recs # {} /\ q.keys = <<>>
  /\ Lookup(store, q.signer, now)
  /\ ~Duplicate(q.signer, q.recs)

UpdateB(q) ==
  [add |-> q.recs \cup (IF KeyAtName(q.signer) THEN {} ELSE {q.signer}),
   del |-> {}]

MutationsB(q) ==
  (IF KeyAtName(q.signer) THEN <<>>
   ELSE <<Mutation(q.signer, "renew", Remaining(q.signer), {}, {}, FALSE)>>)
  \o <<Upsert(q.signer, q.recs)>>

\* Case C: delete what is found and owned: the named records of the signer, and
\* the named KEYs that are the signer or its children, with all below them.
DeletableKey(q, k) ==
  Lookup(store, k, now) /\ (k = q.signer \/ store.leases[k].parent = q.signer)

\* Faulty variant: any stored record may be deleted.
OwnRecordsAny(q) == {r \in q.recs : HasRec(store, r)}

OwnRecords(q) == {r \in q.recs : HasRec(store, r) /\ OwnerOf(store, r) = q.signer}

\* Faulty variant: the delete does not cascade upstream.
SubtreeLeasesOwn(k) == {n \in {k} : Leased(store, n)} \cup RecordSet(store, k)

SubtreeLeases(k) == {n \in Subtree(store, k) : Leased(store, n)}

AcceptsC(q) ==
  OwnRecords(q) # {} \/ \E k \in Keys(q) : DeletableKey(q, k)

UpdateC(q) ==
  [add |-> {},
   del |-> OwnRecords(q)
           \cup UNION {SubtreeLeases(k) : k \in {x \in Keys(q) : DeletableKey(q, x)}}]

MutationsC(q) ==
  <<Mutation(q.signer, "keep", 0, {}, OwnRecords(q), FALSE)>>
  \o [i \in DOMAIN q.keys |->
       Mutation(q.keys[i], IF DeletableKey(q, q.keys[i]) THEN "delete" ELSE "keep",
                0, {}, {}, FALSE)]

\* Case D: register or refresh the KEYs, deleting records of the signer if it is
\* one of them.
AcceptsD(q) ==
  /\ q.keys # <<>>
  /\ \A k \in Keys(q) :
       IF Lookup(store, k, now) THEN MayRefresh(q, k)
                                ELSE k \notin dns /\ MayRegister(q)

UpdateD(q) ==
  [add |-> Keys(q), del |-> UNION {Own(q, k) : k \in Keys(q)}]

MutationsD(q) ==
  [i \in DOMAIN q.keys |-> KeyMutation(q.keys[i], {}, Own(q, q.keys[i]))]

Accepts(q) == CASE q.case = "A" -> AcceptsA(q)
                [] q.case = "B" -> AcceptsB(q)
                [] q.case = "C" -> AcceptsC(q)
                [] q.case = "D" -> AcceptsD(q)

UpdateFor(q) == CASE q.case = "A" -> UpdateA(q)
                  [] q.case = "B" -> UpdateB(q)
                  [] q.case = "C" -> UpdateC(q)
                  [] q.case = "D" -> UpdateD(q)

MutationsFor(q) == CASE q.case = "A" -> MutationsA(q)
                     [] q.case = "B" -> MutationsB(q)
                     [] q.case = "C" -> MutationsC(q)
                     [] q.case = "D" -> MutationsD(q)

\* requestLockSet: a delete locks the whole subtree of each KEY it names, every
\* other case the signer's node, the only possible parent of what it adds.
RequestLockSet(q) ==
  q.recs \cup (IF q.case = "C"
                 THEN UNION {{k} \cup ListSubtreeKeys(store, k) : k \in Keys(q)}
                 ELSE {q.signer} \cup Keys(q))

---------------------------------------------------------------------------
(* Requests.                                                                *)

\* The operation ends: its deferred Release runs.
End(p) ==
  /\ Locks!Return(p)
  /\ pc' = [pc EXCEPT ![p] = "idle"]
  /\ request' = [q \in Slot |-> IF q = p THEN NoRequest ELSE request[q]]
  /\ update' = [update EXCEPT ![p] = NoUpdate]
  /\ mutations' = [mutations EXCEPT ![p] = <<>>]

\* A request arrives and passes the checks made before any lock is taken: the
\* signer's KEY is found and verified, every name is at or below the signer's.
Arrive(p, q) ==
  /\ pc[p] = "idle" /\ budget > 0
  /\ Keys(q) \cup q.recs \subseteq Covers[q.signer]
  /\ SignerSource(q) # "none"
  /\ pc' = [pc EXCEPT ![p] = "waiting"]
  /\ request' = [request EXCEPT ![p] =
       [signer |-> q.signer, case |-> q.case, keys |-> q.keys, recs |-> q.recs,
        source |-> SignerSource(q)]]
  /\ budget' = budget - 1
  /\ UNCHANGED <<store, dns, timers, panicked, leftover, lockVars, update,
                 mutations, now, stray, doubt>>

\* Acquire returns with the whole set, computed at that moment.
Lock(p) ==
  /\ pc[p] = "waiting"
  /\ Locks!Grant(p, RequestLockSet(request[p]))
  /\ pc' = [pc EXCEPT ![p] = "locked"]
  /\ UNCHANGED <<store, dns, timers, panicked, leftover, request, update,
                 mutations, envVars>>

\* Acquire gives up at its deadline: SERVFAIL.
LockTimeout(p) ==
  /\ pc[p] = "waiting"
  /\ \E q \in holds : grant[q] \cap RequestLockSet(request[p]) # {}
  /\ pc' = [pc EXCEPT ![p] = "idle"]
  /\ request' = [request EXCEPT ![p] = NoRequest]
  /\ UNCHANGED <<store, dns, timers, panicked, leftover, lockVars, update,
                 mutations, envVars>>

\* The checks pass: the UPDATE and the mutations that will follow it are fixed.
Check(p) ==
  /\ pc[p] = "locked"
  /\ Accepts(request[p])
  /\ update' = [update EXCEPT ![p] = UpdateFor(request[p])]
  /\ mutations' = [mutations EXCEPT ![p] = MutationsFor(request[p])]
  /\ pc' = [pc EXCEPT ![p] = "sending"]
  /\ UNCHANGED <<store, dns, timers, panicked, leftover, lockVars, request,
                 envVars>>

\* A check fails, or there is nothing of the signer's to delete (Case C answers
\* NOERROR with notes): nothing is sent.
Refuse(p) ==
  /\ pc[p] = "locked"
  /\ ~Accepts(request[p])
  /\ End(p)
  /\ UNCHANGED <<store, dns, timers, panicked, leftover, envVars>>

\* An authoritative lookup the checks need fails: SERVFAIL.
LookupFails(p) ==
  /\ pc[p] = "locked" /\ request[p].case # "C" /\ budget > 0
  /\ End(p)
  /\ budget' = budget - 1
  /\ UNCHANGED <<store, dns, timers, panicked, leftover, now, stray, doubt>>

---------------------------------------------------------------------------
(* The upstream round trip (upstreamTarget.send), of requests and expiries. *)

Applied(u) == (dns \cup u.add) \ u.del

\* The server applies the UPDATE and its NOERROR arrives.  When that answers the TCP
\* retry, the UDP copy sent before it may still be on its way.
Confirm(p) ==
  /\ pc[p] = "sending"
  /\ \/ UNCHANGED <<stray, budget>>
     \/ budget > 0 /\ budget' = budget - 1 /\ stray' = stray \cup {update[p]}
  /\ dns' = Applied(update[p])
  /\ pc' = [pc EXCEPT ![p] = "confirmed"]
  /\ doubt' = doubt \ RRsOf(update[p])
  /\ leftover' = leftover \ RRsOf(update[p])
  /\ UNCHANGED <<store, timers, panicked, lockVars, request, update, mutations, now>>

\* A failed send ends the operation, the store untouched: a request answers
\* SERVFAIL, an expiry is retried after the backoff.
SendFails(p) ==
  /\ pc[p] = "sending" /\ budget > 0
  /\ End(p)
  /\ IF p \in Key THEN Retry(p) ELSE UNCHANGED timers
  /\ budget' = budget - 1
  /\ UNCHANGED <<store, dns, panicked, leftover, now, doubt>>

\* The server refuses the UPDATE, or it was never sent.
Reject(p) == SendFails(p) /\ UNCHANGED stray

\* No answer arrives.  The UPDATE may still be applied, at any later time.
Unanswered(p) == SendFails(p) /\ stray' = stray \cup {update[p]}

StrayApplied(u) ==
  /\ dns' = Applied(u)
  /\ stray' = stray \ {u}
  /\ doubt' = doubt \cup RRsOf(u)
  /\ UNCHANGED <<store, timers, panicked, leftover, lockVars, opVars, now, budget>>

StrayLost(u) ==
  /\ stray' = stray \ {u}
  /\ UNCHANGED <<store, dns, timers, panicked, leftover, lockVars, opVars, now,
                 doubt, budget>>

\* Another writer, or a wiped or failed-over server, adds or removes an RR.
External(n) ==
  /\ budget > 0
  /\ dns' = IF n \in dns THEN dns \ {n} ELSE dns \cup {n}
  /\ doubt' = doubt \cup {n}
  /\ budget' = budget - 1
  /\ UNCHANGED <<store, timers, panicked, leftover, lockVars, opVars, now, stray>>

---------------------------------------------------------------------------
(* The deferred mutations.                                                  *)

\* What a mutation does to its node, before the node's records.
NodeChange(m, signer) ==
  CASE m.how = "register" -> RegisterWithParent(store, m.key, signer, now + m.lease)
    [] m.how = "renew" -> RenewLease(store, m.key, now + m.lease)
    [] m.how = "delete" -> DeleteSubtree(store, m.key)
    [] m.how = "keep" -> store

\* The mutation returns an error: the node to renew is gone, or a record it adds
\* has another owner.
MutationFails(m, s) ==
  \/ m.how = "renew" /\ ~HasKey(store, m.key)
  \/ UpsertFails(s, m.key, m.add)

\* The branches that the code calls impossible: a record to remove has another
\* owner, or a KEY that expired was refreshed during the delete of its subtree.
\* The second is read after the round trip, so an expiry that has not moved is in
\* the past by then.
MutationPanics(p, m, s) ==
  \/ \E r \in m.del : RemoveFails(s, m.key, r)
  \/ p \in Key /\ m.how = "delete" /\ HasKey(store, p) /\ now < store.leases[p].expiresAt

RecordChange(m, s) ==
  IF m.add # {} THEN UpsertNonKEYRecords(s, m.key, m.add, now + LeaseTime)
                ELSE RemoveSingleNonKEYRecords(s, m.key, m.del)

\* A delete disarms the subtree's timers; an expiry ends with finish(true).
TimerChange(m, s) ==
  timers' = [k \in Key |->
    IF m.how = "delete" /\ k \in Subtree(store, m.key) THEN NoTimer
    ELSE IF k = m.key /\ m.sched THEN NextLeaseEvent(s, k) ELSE timers[k]]

Applying(p) == pc[p] \in {"confirmed", "applying"}

\* The next mutation succeeds; after the last one the operation is over.
Apply(p) ==
  /\ Applying(p)
  /\ LET m == Head(mutations[p])
         s == NodeChange(m, IF p \in Slot THEN request[p].signer ELSE NoKey)
     IN  /\ ~MutationFails(m, s)
         /\ store' = RecordChange(m, s)
         /\ panicked' = (panicked \/ MutationPanics(p, m, s))
         /\ TimerChange(m, store')
  /\ IF Len(mutations[p]) = 1
       THEN End(p)
       ELSE /\ mutations' = [mutations EXCEPT ![p] = Tail(@)]
            /\ pc' = [pc EXCEPT ![p] = "applying"]
            /\ UNCHANGED <<lockVars, request, update>>
  /\ UNCHANGED <<dns, leftover, envVars>>

\* A mutation fails after the UPDATE was confirmed: SERVFAIL.  What it and its
\* predecessors already did stays.
ApplyFails(p) ==
  /\ Applying(p)
  /\ LET m == Head(mutations[p])
         s == NodeChange(m, IF p \in Slot THEN request[p].signer ELSE NoKey)
     IN  /\ MutationFails(m, s)
         /\ store' = s
  /\ leftover' = leftover \cup RRsOf(update[p])
  /\ End(p)
  /\ UNCHANGED <<dns, timers, panicked, envVars>>

---------------------------------------------------------------------------
(* Expiry (leaseExpirer.run and expire).                                    *)

\* A timer fires; its entry stays in the table.
Fire(k) ==
  /\ pc[k] = "idle"
  /\ timers[k] \notin {NoTimer, Spent} /\ timers[k] <= now
  /\ pc' = [pc EXCEPT ![k] = "fired"]
  /\ timers' = [timers EXCEPT ![k] = Spent]
  /\ UNCHANGED <<store, dns, panicked, leftover, lockVars, request, update,
                 mutations, envVars>>

\* Faulty variant: an expiry locks only its own node.
ExpiryLockSelf(k) == {k}

ExpiryLockSet(k) == {k} \cup ListSubtreeKeys(store, k)

Contended(ids) == \E q \in holds : grant[q] \cap ids # {}

KeyExpired(k) == HasKey(store, k) /\ store.leases[k].expiresAt <= now

\* What the event ends: the whole subtree of an expired KEY, else the node's own
\* records that are due.
Ending(k) ==
  IF KeyExpired(k) THEN SubtreeLeases(k)
  ELSE {r \in RecordSet(store, k) : store.nonKeyRecords[r].expiresAt <= now}

ExpiryMutation(k) ==
  IF KeyExpired(k) THEN Mutation(k, "delete", 0, {}, {}, TRUE)
                   ELSE Mutation(k, "keep", 0, {}, Ending(k), TRUE)

\* TryAcquire succeeds and something is due: its delete is sent.
Expire(k) ==
  /\ pc[k] = "fired"
  /\ Ending(k) # {}
  /\ Locks!Grant(k, ExpiryLockSet(k))
  /\ update' = [update EXCEPT ![k] = [add |-> {}, del |-> Ending(k)]]
  /\ mutations' = [mutations EXCEPT ![k] = <<ExpiryMutation(k)>>]
  /\ pc' = [pc EXCEPT ![k] = "sending"]
  /\ UNCHANGED <<store, dns, timers, panicked, leftover, request, envVars>>

\* TryAcquire succeeds and nothing is due (a raced refresh, or a node gone):
\* finish(true), and the locks are released again.
NothingDue(k) ==
  /\ pc[k] = "fired"
  /\ ~Contended(ExpiryLockSet(k))
  /\ Ending(k) = {}
  /\ Schedule(store, k)
  /\ pc' = [pc EXCEPT ![k] = "idle"]
  /\ UNCHANGED <<store, dns, panicked, leftover, lockVars, request, update,
                 mutations, envVars>>

\* Faulty variant: an expiry that finds its locks taken is not retried.
BackOffForGood(k) ==
  /\ pc[k] = "fired"
  /\ Contended(ExpiryLockSet(k))
  /\ timers' = [timers EXCEPT ![k] = NoTimer]
  /\ pc' = [pc EXCEPT ![k] = "idle"]
  /\ UNCHANGED <<store, dns, panicked, leftover, lockVars, request, update,
                 mutations, envVars>>

\* TryAcquire fails: finish(false).
BackOff(k) ==
  /\ pc[k] = "fired"
  /\ Contended(ExpiryLockSet(k))
  /\ Retry(k)
  /\ pc' = [pc EXCEPT ![k] = "idle"]
  /\ UNCHANGED <<store, dns, panicked, leftover, lockVars, request, update,
                 mutations, envVars>>

\* Time passes, but not between the mutations of one operation, which are calls in
\* memory one after the other.
CanTick == now < MaxTime /\ \A p \in Proc : pc[p] # "applying"

Tick ==
  /\ CanTick
  /\ now' = now + 1
  /\ UNCHANGED <<store, dns, timers, panicked, leftover, lockVars, opVars, stray,
                 doubt, budget>>

---------------------------------------------------------------------------
RequestStep(p) ==
  Lock(p) \/ LockTimeout(p) \/ Check(p) \/ Refuse(p) \/ LookupFails(p)

UpstreamStep(p) == Confirm(p) \/ Reject(p) \/ Unanswered(p)

ExpiryStep(k) == Fire(k) \/ Expire(k) \/ NothingDue(k) \/ BackOff(k)

Next ==
  \/ Tick
  \/ \E p \in Slot, q \in Requests : Arrive(p, q)
  \/ \E p \in Slot : RequestStep(p)
  \/ \E p \in Proc : UpstreamStep(p) \/ Apply(p) \/ ApplyFails(p)
  \/ \E k \in Key : ExpiryStep(k)
  \/ \E u \in stray : StrayApplied(u) \/ StrayLost(u)
  \/ \E n \in Node : External(n)

Spec == Init /\ [][Next]_vars

Ops == {"idle", "waiting", "locked", "fired", "sending", "confirmed", "applying"}

\* Every operation that can go on does, and time passes: goroutines are scheduled,
\* a timer that is due fires, a round trip ends by its own timeout.  This is weak
\* fairness of the steps, written with the state in which one of them is enabled:
\* no operation stays there for good, nor does the clock.  A waiting request is only sure to go on
\* while its locks are free; that its deadline would help is not assumed.
CanMove(p, step) ==
  /\ pc[p] = step
  /\ step = "idle" => timers[p] \notin {NoTimer, Spent} /\ timers[p] <= now
  /\ step = "waiting" => ~Contended(RequestLockSet(request[p]))

Fairness ==
  /\ []<>~CanTick
  /\ \A p \in Slot, step \in Ops \ {"idle", "fired"} : []<>~CanMove(p, step)
  /\ \A k \in Key, step \in Ops \ {"waiting", "locked"} : []<>~CanMove(k, step)

FairSpec == Spec /\ Fairness

---------------------------------------------------------------------------
\* Every variable has its type.
TypeOK ==
  /\ IsStore(store) /\ now \in Nat /\ dns \subseteq Node
  /\ grant \in [Proc -> SUBSET Node] /\ holds \subseteq Proc
  /\ pc \in [Proc -> Ops]
  /\ update \in [Proc -> [add : SUBSET Node, del : SUBSET Node]]
  /\ timers \in [Key -> Nat \cup {NoTimer, Spent}]
  /\ stray \subseteq [add : SUBSET Node, del : SUBSET Node]
  /\ panicked \in BOOLEAN /\ doubt \subseteq Node /\ leftover \subseteq Node

\* None of the branches the code declares impossible is ever reached: no expiry
\* finds its KEY refreshed behind its back, and no confirmed delete of a record
\* finds it owned by another node (the panics of Case C, Case D and expire).
NoPanic == ~panicked

\* RRs of an UPDATE that is confirmed and not yet applied to the store.
InTransit == UNION {RRsOf(update[p]) : p \in {q \in Proc : Applying(q)}}

Settled(n) == n \notin InTransit \cup doubt

\* The store and the DNS agree on every RR, apart from what is in transit, what an
\* unanswered UPDATE applied late or another writer left in doubt until the next
\* confirmed UPDATE of that RR, and what a request that failed after its UPDATE left
\* over.
StoreMatchesDNS ==
  \A n \in Node : Settled(n) /\ n \notin leftover => (Leased(store, n) <=> n \in dns)

\* Nothing is remembered or forgotten before the upstream server confirmed it: a
\* node enters or leaves the store only in a step of an operation whose confirmed
\* UPDATE added or deleted exactly that RR, cascades of a delete included.
StoreFollowsUpstream ==
  [][\A n \in Node : Leased(store, n) # Leased(store', n) =>
       \E p \in Proc : /\ Applying(p)
                       /\ n \in IF Leased(store, n) THEN update[p].del
                                                    ELSE update[p].add]_vars

\* Every owner of a lease has a timer that is due (a retry) or will be no later
\* than its next lease event, or an expiry run at work: no lease is forgotten,
\* without the help of the periodic reconciliation.
TimerCoverage ==
  \A k \in ListOwners(store) :
    \/ timers[k] = Spent /\ pc[k] # "idle"
    \/ /\ timers[k] \in Nat
       /\ timers[k] <= now \/ timers[k] <= NextLeaseEvent(store, k)

\* The handler's state is sound at every moment: it has its types, no branch declared
\* impossible was taken, and no lease is without its timer (Handle, leaseExpirer.run).
HandlerInv == TypeOK /\ NoPanic /\ TimerCoverage

\* A KEY whose lease is running keeps the parent it was registered under, whoever
\* refreshes it: ownership cannot be taken over (authorizeKeyRefresh).
KeyKeepsParent ==
  [][\A k \in Key : Lookup(store, k, now) /\ HasKey(store', k)
       => store'.leases[k].parent = store.leases[k].parent]_vars

\* A lease that has run out ends: it is deleted upstream and then forgotten, or it
\* is refreshed.
Expired(n) ==
  \/ HasKey(store, n) /\ store.leases[n].expiresAt <= now
  \/ HasRec(store, n) /\ store.nonKeyRecords[n].expiresAt <= now

ExpiredGoes == \A n \in Node : Expired(n) ~> ~Expired(n)

\* Every request is answered: no operations wait for each other's locks forever.
RequestsAnswered == \A p \in Slot : pc[p] # "idle" ~> pc[p] = "idle"

\* Nothing is left hanging: leases that have run out end, and requests are answered
\* (Handle, leaseExpirer.run), although expiries never wait for locks and requests do.
Progress == ExpiredGoes /\ RequestsAnswered
==========================================================================
