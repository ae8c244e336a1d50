---------------------------- MODULE SRPHandler ----------------------------
(***************************************************************************)
(* The SRP registrar (RFC 9665), handlers/srp_handler.go with the first    *)
(* come, first served rule of pkg/srp/fcfs.go: registrations and lease     *)
(* expiries working on one lease store and one authoritative DNS server,   *)
(* to which another registrar writes as well.                              *)
(*                                                                         *)
(* A registration names a host and service instances.  It locks their      *)
(* names, asks for each name who holds it, sends one UPDATE whose          *)
(* prerequisites make the server ask again, and, once that is confirmed,   *)
(* rewrites the nodes in the store.  The steps end where the code can be   *)
(* overtaken: waiting for locks, each question, the round trip.            *)
(*                                                                         *)
(* Messages have passed the checks of SRPMessage.  The enumeration that    *)
(* follows a registration is ServiceEnumeration.                           *)
(***************************************************************************)
EXTENDS LeaseTree, Sequences

CONSTANTS Slot,          \* concurrent registrations
          Requests,      \* the registrations clients may send
          Registrant,    \* the client (public key) behind each KEY
          RecName,       \* the owner name of each record
          Ptr,           \* the Service Discovery PTRs among the records
          Target,        \* the host name each SRV record points to
          RefuseForeign, \* srp.refuse_on_foreign_data
          NoTimer,       \* no entry in the timer table
          Spent,         \* an entry whose timer has fired
          MaxTime,       \* bounds: the clock,
          MaxEvents      \*   registrations, lost or failed exchanges, changes by others

ASSUME SRPAssumption ==
  /\ Ptr \subseteq Rec /\ RecName \in [Rec -> Name] /\ DOMAIN Target \subseteq Rec
  /\ DOMAIN Registrant = Key /\ RefuseForeign \in BOOLEAN
  /\ \A q \in Requests : \A i \in DOMAIN q.insts :
       Registrant[q.insts[i].key] = Registrant[q.host] /\ q.dels \cap q.insts[i].recs = {}

\* An operation is a registration in its slot or the expiry run of a KEY's node.
Proc == Slot \cup Key

VARIABLES store,     \* the lease store
          now,       \* the clock
          dns,       \* the RRs the authoritative server publishes
          grant,     \* the names each operation has locked
          holds,     \* the operations that hold a lock set
          pc,        \* where each operation is
          request,   \* the registration in each slot
          asked,     \* how many of its names have been checked
          answer,    \* the RCODE of the last reply, until a registration arrives
          update,    \* the UPDATE each operation sends
          ending,    \* what an expiry does to the store after its UPDATE
          timers,    \* the expiry timer of each node: when it is due
          stray,     \* UPDATEs sent without an answer, applied late or never
          panicked,  \* a panic of the code was reached
          found,     \* the KEYs a registration found published, and its own
          withdrawn, \* leased and not published: KEYs of removed instances, and PTRs
                     \*   that a registration deleted without naming their instance
          doubt,     \* RRs whose state upstream an unanswered UPDATE may have set
          foreign,   \* RRs another registrar wrote
          budget     \* what is left of the bounds

lockVars == <<grant, holds>>
opVars == <<pc, request, asked, found, answer, update, ending>>
envVars == <<now, stray, budget>>
vars == <<store, dns, timers, panicked, withdrawn, doubt, foreign, lockVars, opVars, envVars>>

Locks == INSTANCE LockTable WITH Id <- Name

NameOf(n) == IF n \in Key THEN KeyName[n] ELSE RecName[n]
AtNames(names) == {n \in Node : NameOf(n) \in names}

NoRequest == [insts |-> <<>>, dels |-> {}]
NoUpdate == [prereqs |-> {}, wipe |-> {}, add |-> {}, del |-> {}]
NoEnding == [subtree |-> FALSE, owner |-> [r \in {} |-> NoKey]]

Init ==
  /\ store = EmptyStore
  /\ now = 0
  /\ dns = {}
  /\ Locks!Init
  /\ pc = [p \in Proc |-> "idle"]
  /\ request = [p \in Slot |-> NoRequest]
  /\ asked = [p \in Slot |-> 0] /\ found = [p \in Slot |-> {}]
  /\ answer = "none"
  /\ update = [p \in Proc |-> NoUpdate]
  /\ ending = [k \in Key |-> NoEnding]
  /\ timers = [k \in Key |-> NoTimer]
  /\ stray = {}
  /\ panicked = FALSE
  /\ withdrawn = {} /\ doubt = {} /\ foreign = {}
  /\ budget = MaxEvents

---------------------------------------------------------------------------
(* The store, as this handler reads it.                                     *)

\* ListSubtreeKeys, level by level.
Below(s, k) ==
  LET down[i \in 0..3] == IF i = 0 THEN s.children[k]
                          ELSE down[i - 1] \cup UNION {s.children[x] : x \in down[i - 1] \cap Key}
  IN  down[3] \ {k}

\* lockNames: the names of the nodes and of the KEYs below them.
lockNames(keys) ==
  {KeyName[k] : k \in keys \cup {c \in UNION {Below(store, k) : k \in keys} : HasKey(store, c)}}

\* nextLeaseEvent: the earliest expiry of a node's KEY and of its own records.
NextLeaseEvent(s, k) ==
  LET times == {s.leases[x].expiresAt : x \in {k} \cap DOMAIN s.leases}
               \cup {s.nonKeyRecords[r].expiresAt : r \in RecordSet(s, k)}
  IN  IF times = {} THEN NoTimer
      ELSE CHOOSE t \in times : \A u \in times : t <= u

Schedule(s, keys) ==
  timers' = [k \in Key |-> IF k \in keys THEN NextLeaseEvent(s, k) ELSE timers[k]]

\* finish(complete = false): the retry may fire at any later moment.
Retry(k) == timers' = [timers EXCEPT ![k] = now]

---------------------------------------------------------------------------
(* A registration's names and its UPDATE.                                   *)

Live(inst) == inst.recs # {}
Insts(q) == {q.insts[i] : i \in DOMAIN q.insts}

\* Names: the host, then each instance, removal-shaped ones included.
Names(q) == <<q.host>> \o [i \in DOMAIN q.insts |-> q.insts[i].key]
Touched(q) == {q.host} \cup {inst.key : inst \in Insts(q)}

\* ptrDeleteDiff: the PTRs an instance has that this update does not name.
PtrDeleteDiff(q) ==
  UNION {(RecordSet(store, inst.key) \cap Ptr) \ inst.recs : inst \in Insts(q)}

\* Faulty variant: the PTRs of a removed instance are left to its Delete All.
ForwardWithoutDiff(q, prereqs) ==
  [prereqs |-> prereqs,
   wipe |-> {KeyName[k] : k \in Touched(q)},
   add |-> q.addrs \cup {q.host}
           \cup UNION {inst.recs \cup {inst.key} : inst \in {x \in Insts(q) : Live(x)}},
   del |-> q.dels]

\* The message: Delete All RRsets at the host and at each instance, the host's
\* addresses and KEY, the records of the live instances with their KEYs, those
\* the client left out included, the PTRs the client deletes, whoever's they are, and
\* those that go with this update.
ForwardRecords(q, prereqs) ==
  [prereqs |-> prereqs,
   wipe |-> {KeyName[k] : k \in Touched(q)},
   add |-> q.addrs \cup {q.host}
           \cup UNION {inst.recs \cup {inst.key} : inst \in {x \in Insts(q) : Live(x)}},
   del |-> q.dels \cup PtrDeleteDiff(q)]

---------------------------------------------------------------------------
(* First come, first served: Evaluate.                                      *)

Published(name) == {k \in dns \cap Key : KeyName[k] = name}
Vacant(name) == \A n \in dns : NameOf(n) # name

Proceed(prereqs) == [result |-> "proceed", prereqs |-> prereqs]
Stop(result) == [result |-> result, prereqs |-> {}]

\* Faulty variant: any KEY at the name is taken for the client's own.
EvaluateAnyKey(k) ==
  LET name == KeyName[k] IN
  IF Vacant(name) THEN Proceed({[name |-> name, what |-> IF RefuseForeign THEN "any" ELSE "key"]})
  ELSE IF Published(name) = {}
         THEN IF RefuseForeign THEN Stop("foreign") ELSE Proceed({[name |-> name, what |-> "key"]})
  ELSE Proceed({})

\* Without a lease at its name, the answer of the authoritative server decides, and
\* becomes a prerequisite unless the name already has the same KEY.
EvaluateLive(k) ==
  LET name == KeyName[k] IN
  IF Vacant(name) THEN Proceed({[name |-> name, what |-> IF RefuseForeign THEN "any" ELSE "key"]})
  ELSE IF Published(name) = {}
         THEN IF RefuseForeign THEN Stop("foreign") ELSE Proceed({[name |-> name, what |-> "key"]})
  ELSE IF k \in Published(name) THEN Proceed({}) ELSE Stop("conflict")

\* Faulty variant: the leases of this registrar are not looked at.
EvaluateNoStore(k) == {EvaluateLive(k)}

\* The lease store first: the KEY FindByName lists first holds the name.
Evaluate(k) ==
  LET held == FindByName(store, KeyName[k], now) IN
  IF held = {} THEN {EvaluateLive(k)}
  ELSE {IF x = k THEN Proceed({}) ELSE Stop("conflict") : x \in held}

---------------------------------------------------------------------------
(* Registrations.                                                           *)

\* The handler returns; its deferred Release runs.
End(p) ==
  /\ Locks!Return(p)
  /\ pc' = [pc EXCEPT ![p] = "idle"]
  /\ update' = [update EXCEPT ![p] = NoUpdate]

\* It answers with an RCODE.
Reply(p, rcode) ==
  /\ End(p)
  /\ answer' = rcode
  /\ request' = [request EXCEPT ![p] = NoRequest]
  /\ asked' = [asked EXCEPT ![p] = 0] /\ found' = [found EXCEPT ![p] = {}]
  /\ UNCHANGED ending

\* A registration has passed every check made before its names are locked.
Arrive(p, q) ==
  /\ pc[p] = "idle" /\ budget > 0
  /\ pc' = [pc EXCEPT ![p] = "waiting"]
  /\ request' = [request EXCEPT ![p] = q]
  /\ answer' = "none"
  /\ budget' = budget - 1
  /\ UNCHANGED <<store, dns, timers, panicked, withdrawn, doubt, foreign, lockVars,
                 asked, found, update, ending, now, stray>>

Lock(p) ==
  /\ pc[p] = "waiting"
  /\ Locks!Grant(p, lockNames(Touched(request[p])))
  /\ pc' = [pc EXCEPT ![p] = "checking"]
  /\ UNCHANGED <<store, dns, timers, panicked, withdrawn, doubt, foreign,
                 request, asked, found, answer, update, ending, envVars>>

\* Acquire gives up at its deadline.
LockTimeout(p) ==
  /\ pc[p] = "waiting"
  /\ \E q \in holds : grant[q] \cap lockNames(Touched(request[p])) # {}
  /\ pc' = [pc EXCEPT ![p] = "idle"]
  /\ request' = [request EXCEPT ![p] = NoRequest]
  /\ answer' = "servfail"
  /\ UNCHANGED <<store, dns, timers, panicked, withdrawn, doubt, foreign, lockVars,
                 asked, found, update, ending, envVars>>

\* The next name may be used; after the last one the UPDATE is built and sent.
Check(p) ==
  /\ pc[p] = "checking"
  /\ LET q == request[p]
         i == asked[p] + 1
     IN  \E e \in Evaluate(Names(q)[i]) :
           /\ e.result = "proceed"
           /\ asked' = [asked EXCEPT ![p] = i]
           /\ found' = [found EXCEPT ![p] = @ \cup ({Names(q)[i]} \cap dns)]
           /\ LET prereqs == update[p].prereqs \cup e.prereqs IN
              IF i = Len(Names(q))
                THEN /\ update' = [update EXCEPT ![p] = ForwardRecords(q, prereqs)]
                     /\ pc' = [pc EXCEPT ![p] = "sending"]
                ELSE /\ update' = [update EXCEPT ![p].prereqs = prereqs]
                     /\ UNCHANGED pc
  /\ UNCHANGED <<store, dns, timers, panicked, withdrawn, doubt, foreign, lockVars,
                 request, answer, ending, envVars>>

\* The name belongs to another KEY (YXDOMAIN) or holds foreign data (REFUSED).
Refuse(p) ==
  /\ pc[p] = "checking"
  /\ \E e \in Evaluate(Names(request[p])[asked[p] + 1]) :
       /\ e.result # "proceed"
       /\ Reply(p, e.result)
  /\ UNCHANGED <<store, dns, timers, panicked, withdrawn, doubt, foreign, envVars>>

\* The authoritative server does not answer the question: SERVFAIL.
LookupFails(p) ==
  /\ pc[p] = "checking" /\ budget > 0
  /\ FindByName(store, KeyName[Names(request[p])[asked[p] + 1]], now) = {}
  /\ Reply(p, "servfail")
  /\ budget' = budget - 1
  /\ UNCHANGED <<store, dns, timers, panicked, withdrawn, doubt, foreign, now, stray>>

---------------------------------------------------------------------------
(* The round trip, of registrations and expiries.                           *)

\* RFC 2136: the server evaluates the prerequisites and applies the UPDATE whole.
Satisfied(u, rrs) ==
  \A q \in u.prereqs : \A n \in rrs :
    NameOf(n) = q.name => q.what = "key" /\ n \notin Key

Applied(u) == ((dns \ AtNames(u.wipe)) \cup u.add) \ u.del

RRsOf(u) == AtNames(u.wipe) \cup u.add \cup u.del

\* The instances a registration removes.
Removed(p) == IF p \in Slot THEN {inst.key : inst \in {x \in Insts(request[p]) : ~Live(x)}}
                            ELSE {}

\* What a registration wipes at its names that is leased to another node.
Displaced(p) ==
  {n \in AtNames(update[p].wipe) :
     IF n \in Key THEN n \notin Touched(request[p])
     ELSE HasRec(store, n) /\ OwnerOf(store, n) \notin Touched(request[p])}

\* The PTRs a registration deletes without naming the instance they belong to.
Unlisted(p) ==
  IF p \in Slot
    THEN {r \in request[p].dels : HasRec(store, r) => OwnerOf(store, r) \notin Touched(request[p])}
    ELSE {}

\* The UPDATE is applied and its NOERROR arrives.  When that is the answer to SendUpdate's
\* second attempt, over TCP, the UDP copy of the first may still be under way.
Confirm(p) ==
  /\ pc[p] = "sending"
  /\ Satisfied(update[p], dns)
  /\ dns' = Applied(update[p])
  /\ pc' = [pc EXCEPT ![p] = "confirmed"]
  /\ doubt' = doubt \ (RRsOf(update[p]) \ Displaced(p))
  /\ foreign' = foreign \ RRsOf(update[p])
  /\ withdrawn' = (withdrawn \ (update[p].add \cup update[p].del)) \cup Removed(p) \cup Unlisted(p)
  /\ \/ UNCHANGED <<stray, budget>>
     \/ budget > 0 /\ budget' = budget - 1 /\ stray' = stray \cup {update[p]}
  /\ UNCHANGED <<store, timers, panicked, lockVars, request, asked, found, answer, update,
                 ending, now>>

\* An operation whose send failed: a registration answers, an expiry is retried.
Failed(p, rcode) ==
  \/ p \in Slot /\ Reply(p, rcode) /\ UNCHANGED timers
  \/ p \in Key /\ End(p) /\ Retry(p)
     /\ ending' = [ending EXCEPT ![p] = NoEnding]
     /\ UNCHANGED <<request, asked, found, answer>>

\* prerequisiteFailed: YXDOMAIN or YXRRSET, which only a prerequisite can cause.
PrerequisiteFails(p) ==
  /\ pc[p] = "sending"
  /\ ~Satisfied(update[p], dns)
  /\ Reply(p, "conflict")
  /\ UNCHANGED <<store, dns, timers, panicked, withdrawn, doubt, foreign, envVars>>

\* Faulty variant: every failed UPDATE is taken for a conflict.
RejectAsConflict(p) ==
  /\ pc[p] = "sending" /\ budget > 0
  /\ Failed(p, "conflict")
  /\ budget' = budget - 1
  /\ UNCHANGED <<store, dns, panicked, withdrawn, doubt, foreign, now, stray>>

\* The server refuses the UPDATE for another reason, or it was never sent.
Reject(p) ==
  /\ pc[p] = "sending" /\ budget > 0
  /\ Failed(p, "servfail")
  /\ budget' = budget - 1
  /\ UNCHANGED <<store, dns, panicked, withdrawn, doubt, foreign, now, stray>>

\* No answer arrives.  The UPDATE may still be applied, at any later time.
Unanswered(p) ==
  /\ pc[p] = "sending" /\ budget > 0
  /\ Failed(p, "servfail")
  /\ stray' = stray \cup {update[p]}
  /\ budget' = budget - 1
  /\ UNCHANGED <<store, dns, panicked, withdrawn, doubt, foreign, now>>

\* SendUpdate's UDP copy is applied, its answer is lost, and the server finds that
\* the TCP copy's prerequisites no longer hold.
Resend(p) ==
  /\ pc[p] = "sending" /\ budget > 0
  /\ Satisfied(update[p], dns) /\ ~Satisfied(update[p], Applied(update[p]))
  /\ dns' = Applied(update[p])
  /\ doubt' = doubt \cup RRsOf(update[p])
  /\ Reply(p, "conflict")
  /\ budget' = budget - 1
  /\ UNCHANGED <<store, timers, panicked, withdrawn, foreign, now, stray>>

StrayApplied(u) ==
  /\ Satisfied(u, dns)
  /\ dns' = Applied(u)
  /\ stray' = stray \ {u}
  /\ doubt' = doubt \cup RRsOf(u)
  /\ UNCHANGED <<store, timers, panicked, withdrawn, foreign, lockVars, opVars, now, budget>>

StrayLost(u) ==
  /\ stray' = stray \ {u}
  /\ UNCHANGED <<store, dns, timers, panicked, withdrawn, doubt, foreign, lockVars,
                 opVars, now, budget>>

\* Another registrar, which keeps to first come, first served, gives a free name to
\* a client; another writer adds data at a name; either takes its own away again.
OtherAdds(n) ==
  /\ budget > 0 /\ n \notin dns
  /\ n \in Key => Published(KeyName[n]) = {}
  /\ dns' = dns \cup {n} /\ foreign' = foreign \cup {n}
  /\ budget' = budget - 1
  /\ UNCHANGED <<store, timers, panicked, withdrawn, doubt, lockVars, opVars, now, stray>>

OtherRemoves(n) ==
  /\ budget > 0 /\ n \in foreign \cap dns
  /\ dns' = dns \ {n}
  /\ budget' = budget - 1
  /\ UNCHANGED <<store, timers, panicked, withdrawn, doubt, foreign, lockVars, opVars, now, stray>>

---------------------------------------------------------------------------
(* The store follows: applyLocalMutations.                                  *)

RegisterOrRenew(s, k, parent, expiresAt) ==
  IF Lookup(s, k, now) THEN RenewLease(s, k, expiresAt)
                       ELSE RegisterWithParent(s, k, parent, expiresAt)

\* Every record of the node goes and those of the update come; an error is only
\* logged.
Reinsert(s, k, recs, expiresAt) ==
  LET wiped == RemoveNonKEYRecords(s, k) IN
  IF UpsertFails(wiped, k, recs) THEN wiped ELSE UpsertNonKEYRecords(wiped, k, recs, expiresAt)

LocalMutations(q) ==
  LET node(s, k, parent, recs) ==
        Reinsert(RegisterOrRenew(s, k, parent, now + q.keyLease), k, recs, now + q.lease)
      after[i \in 0..Len(q.insts)] ==
        IF i = 0 THEN node(store, q.host, NoKey, q.addrs)
        ELSE node(after[i - 1], q.insts[i].key, q.host, q.insts[i].recs)
  IN  after[Len(q.insts)]

\* Steps 8 to 10: the store, the timers of every node touched, unlock, NOERROR.
Mutate(p) ==
  /\ p \in Slot /\ pc[p] = "confirmed"
  /\ store' = LocalMutations(request[p])
  /\ Schedule(store', Touched(request[p]))
  /\ Reply(p, "noerror")
  /\ UNCHANGED <<dns, panicked, withdrawn, doubt, foreign, envVars>>

---------------------------------------------------------------------------
(* Expiry: leaseExpirer with dataCascade.                                   *)

Fire(k) ==
  /\ pc[k] = "idle"
  /\ timers[k] \notin {NoTimer, Spent} /\ timers[k] <= now
  /\ pc' = [pc EXCEPT ![k] = "fired"]
  /\ timers' = [timers EXCEPT ![k] = Spent]
  /\ UNCHANGED <<store, dns, panicked, withdrawn, doubt, foreign, lockVars, request,
                 asked, found, answer, update, ending, envVars>>

KeyExpired(k) == HasKey(store, k) /\ store.leases[k].expiresAt <= now

Due(k) == {r \in RecordSet(store, k) : store.nonKeyRecords[r].expiresAt <= now}

\* dataCascade: the data of every KEY node below.
Cascade(k) == UNION {RecordSet(store, c) : c \in {x \in Below(store, k) : HasKey(store, x)}}

\* The whole subtree of an expired KEY, else the node's own records that are due
\* and, once there is one, the data below it.
Ending(k) ==
  IF KeyExpired(k) THEN {k} \cup {n \in Below(store, k) : HasKey(store, n) \/ HasRec(store, n)}
  ELSE IF Due(k) = {} THEN {} ELSE Due(k) \cup Cascade(k)

Contended(ids) == \E q \in holds : grant[q] \cap ids # {}

Expire(k) ==
  /\ pc[k] = "fired"
  /\ Ending(k) # {}
  /\ Locks!Grant(k, lockNames({k}))
  /\ update' = [update EXCEPT ![k] = [NoUpdate EXCEPT !.del = Ending(k)]]
  /\ ending' = [ending EXCEPT ![k] = [subtree |-> KeyExpired(k),
       owner |-> [r \in Ending(k) \cap Rec |-> OwnerOf(store, r)]]]
  /\ pc' = [pc EXCEPT ![k] = "sending"]
  /\ UNCHANGED <<store, dns, timers, panicked, withdrawn, doubt, foreign, request,
                 asked, found, answer, envVars>>

\* A raced refresh, or a node already gone.
NothingDue(k) ==
  /\ pc[k] = "fired"
  /\ ~Contended(lockNames({k}))
  /\ Ending(k) = {}
  /\ Schedule(store, {k})
  /\ pc' = [pc EXCEPT ![k] = "idle"]
  /\ UNCHANGED <<store, dns, panicked, withdrawn, doubt, foreign, lockVars, request,
                 asked, found, answer, update, ending, envVars>>

BackOff(k) ==
  /\ pc[k] = "fired"
  /\ Contended(lockNames({k}))
  /\ Retry(k)
  /\ pc' = [pc EXCEPT ![k] = "idle"]
  /\ UNCHANGED <<store, dns, panicked, withdrawn, doubt, foreign, lockVars, request,
                 asked, found, answer, update, ending, envVars>>

\* RemoveSingleNonKEYRecord of each record, from the node it was found at.
RemoveEach(s, owner) ==
  [s EXCEPT !.nonKeyRecords = [r \in DOMAIN @ \ DOMAIN owner |-> @[r]],
            !.children = [k \in Key |-> @[k] \ {r \in DOMAIN owner : owner[r] = k}]]

\* Faulty variant: an expired KEY is forgotten without what is below it.
ForgottenKeyOnly(k, e) ==
  IF e.subtree THEN [store EXCEPT !.leases = [x \in DOMAIN @ \ {k} |-> @[x]],
                                  !.nameIdx = [n \in Name |-> @[n] \ {k}]]
  ELSE RemoveEach(store, e.owner)

Forgotten(k, e) ==
  IF e.subtree THEN DeleteSubtree(store, k) ELSE RemoveEach(store, e.owner)

\* The confirmed expiry forgets, or panics: the KEY was refreshed meanwhile, or a
\* record has a new owner.
Forget(k) ==
  LET e == ending[k] IN
  /\ k \in Key /\ pc[k] = "confirmed"
  /\ store' = Forgotten(k, e)
  /\ panicked' = \/ panicked
                 \/ e.subtree /\ HasKey(store, k) /\ ~KeyExpired(k)
                 \/ ~e.subtree /\ \E r \in DOMAIN e.owner : RemoveFails(store, e.owner[r], r)
  /\ timers' = [x \in Key |-> IF x = k THEN NextLeaseEvent(store', k)
                              ELSE IF e.subtree /\ x \in Below(store, k) THEN NoTimer
                              ELSE timers[x]]
  /\ ending' = [ending EXCEPT ![k] = NoEnding]
  /\ End(k)
  /\ UNCHANGED <<dns, withdrawn, doubt, foreign, request, asked, found, answer, envVars>>

\* Time passes.
Tick ==
  /\ now < MaxTime
  /\ now' = now + 1
  /\ UNCHANGED <<store, dns, timers, panicked, withdrawn, doubt, foreign, lockVars,
                 opVars, stray, budget>>

---------------------------------------------------------------------------
Registration(p) ==
  Lock(p) \/ LockTimeout(p) \/ Check(p) \/ Refuse(p) \/ LookupFails(p)
  \/ PrerequisiteFails(p) \/ Resend(p) \/ Mutate(p)

Expiry(k) == Fire(k) \/ Expire(k) \/ NothingDue(k) \/ BackOff(k) \/ Forget(k)

RoundTrip(p) == Confirm(p) \/ Reject(p) \/ Unanswered(p)

Next ==
  \/ Tick
  \/ \E p \in Slot, q \in Requests : Arrive(p, q)
  \/ \E p \in Slot : Registration(p)
  \/ \E k \in Key : Expiry(k)
  \/ \E p \in Proc : RoundTrip(p)
  \/ \E u \in stray : StrayApplied(u) \/ StrayLost(u)
  \/ \E n \in Node : OtherAdds(n) \/ OtherRemoves(n)

Spec == Init /\ [][Next]_vars

Steps == {"idle", "waiting", "checking", "fired", "sending", "confirmed"}

---------------------------------------------------------------------------
(* Properties.                                                              *)

Leased(s, n) == HasKey(s, n) \/ HasRec(s, n)

IsUpdate(u) ==
  /\ u.prereqs \subseteq [name : Name, what : {"any", "key"}] /\ u.wipe \subseteq Name
  /\ u.add \subseteq Node /\ u.del \subseteq Node

\* The types, with both indices of the store exact (SRPHandler, InMemoryLeaseStore).
TypeOK ==
  /\ Consistent(store) /\ now \in Nat /\ dns \subseteq Node
  /\ grant \in [Proc -> SUBSET Name] /\ holds \subseteq Proc
  /\ pc \in [Proc -> Steps]
  /\ answer \in {"none", "noerror", "servfail", "conflict", "foreign"}
  /\ \A p \in Slot : request[p] # NoRequest => asked[p] \in 0..Len(Names(request[p]))
  /\ \A p \in Proc : IsUpdate(update[p])
  /\ timers \in [Key -> Nat \cup {NoTimer, Spent}]
  /\ found \in [Slot -> SUBSET Key]
  /\ withdrawn \subseteq Node /\ doubt \subseteq Node /\ foreign \subseteq Node

\* None of the branches the code declares impossible is reached: no expiry finds
\* its KEY refreshed, or a record with a new owner, behind its name locks (expire).
NoPanic == ~panicked

\* Two live leases never claim one name, whatever registrations and expiries run at
\* once (lockNames, Evaluate).
OneHolder == \A name \in Name, k, x \in Key :
  {k, x} \subseteq FindByName(store, name, now) => k = x

\* RRs of an UPDATE that is confirmed and not yet applied to the store, or that may
\* still be applied.
InTransit == UNION {RRsOf(update[p]) : p \in {q \in Proc : pc[q] = "confirmed"}}
Straying == UNION {RRsOf(u) : u \in stray}

\* The store and the DNS agree on every RR that is not in transit and that no late copy
\* of an UPDATE, no unanswered one and no other writer has touched.  Two kinds of RR keep
\* their lease and are not published: the KEY of a removed instance, and a PTR that an
\* update deleted without naming its instance, as nobody asks whose it is (Handle,
\* ptrDeleteDiff, applyLocalMutations).
StoreMatchesDNS ==
  \A n \in Node \ (InTransit \cup Straying \cup doubt \cup foreign) :
    /\ n \in dns => Leased(store, n)
    /\ Leased(store, n) => n \in dns \cup withdrawn

\* Every owner of a lease has a timer that is due, or will be no later than its next
\* lease event, or an expiry run at work.
TimerCoverage ==
  \A k \in ListOwners(store) :
    \/ timers[k] = Spent /\ pc[k] # "idle"
    \/ /\ timers[k] \in Nat
       /\ timers[k] <= now \/ timers[k] <= NextLeaseEvent(store, k)

\* The registrar's state is sound at every moment: the store is consistent, no branch
\* declared impossible was taken, names have one holder, and no lease is without its
\* timer (SRPHandler.Handle, leaseExpirer.run).
RegistrarInv == TypeOK /\ NoPanic /\ OneHolder /\ TimerCoverage

\* A registration takes another client's KEY k off its name.
Takes(p, k) ==
  /\ pc[p] = "sending" /\ pc'[p] = "confirmed" /\ k \in dns \ dns'
  /\ Registrant[k] # Registrant[request[p].host]

\* A registration never takes the KEY of another client off a name, whether this
\* registrar or another one gave it the name (Evaluate, ForwardPrerequisites).  Three
\* kinds of KEY are not safe: one that a late or unanswered UPDATE left behind; and one
\* that another registrar published where the client's own lease still runs here, which
\* is not looked up, or where the client's own KEY was found by the check and has made
\* way for it since, as the UPDATE then has no prerequisite at the name.
FirstComeFirstServed ==
  [][\A p \in Slot, k \in Key : Takes(p, k) =>
       \/ k \in doubt
       \/ k \in foreign /\ \E x \in Touched(request[p]) :
            KeyName[x] = KeyName[k] /\ (HasKey(store, x) \/ x \in found[p])]_vars


Replies(p, rcode) == pc[p] # "idle" /\ pc'[p] = "idle" /\ answer' = rcode

\* A client is told that its name is taken only when another client's KEY, or what
\* another writer or an UPDATE without an answer put there, is at one of its names
\* (prerequisiteFailed, Handle).
ConflictIsGenuine ==
  [][\A p \in Slot : Replies(p, "conflict") =>
       \E k \in Touched(request[p]), n \in Node :
         /\ NameOf(n) = KeyName[k]
         /\ n \in dns' \/ n \in FindByName(store', KeyName[k], now)
         /\ n \in foreign \cup doubt' \/ n \in Key \ Touched(request[p])]_vars

\* A registration that is answered NOERROR has every record it asked for leased to
\* its own node: the errors that applyLocalMutations only logs occur for no node but
\* one with a record whose delete for an earlier owner went without an answer.
ConfirmedIsLeased ==
  [][\A p \in Slot : Replies(p, "noerror") =>
       LET leased(k, recs) ==
             recs \cap doubt = {} => \A r \in recs : HasRec(store', r) /\ OwnerOf(store', r) = k
       IN  /\ leased(request[p].host, request[p].addrs)
           /\ \A inst \in Insts(request[p]) : leased(inst.key, inst.recs)]_vars

\* "When a hostname's LEASE expires, its A/AAAA and the SRV/TXT/PTR of every service
\* instance targeting it are removed together" (docs/siglease_rfc9665.md, section 6;
\* expire with dataCascade, registerOrRenew).
HostDataGoesTogether ==
  [][\A k \in Key, r \in DOMAIN Target :
       /\ pc[k] = "confirmed" /\ pc'[k] = "idle"
       /\ \E x \in DOMAIN ending[k].owner : ending[k].owner[x] = k
       /\ Target[r] = KeyName[k] /\ HasRec(store', r)
       => Registrant[OwnerOf(store', r)] # Registrant[k]]_vars
===========================================================================
