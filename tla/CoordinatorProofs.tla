------------------------ MODULE CoordinatorProofs -------------------------
(***************************************************************************)
(* Proofs about the lock table and about the upstream coordinator that     *)
(* uses it, for any number of callers, nodes, servers and calls.  First    *)
(* the table by itself: its inductive invariant IInv, what it implies, and *)
(* that it implements LockTable.  Then the coordinator: its callers use    *)
(* the table as NodeLocks has it, and because nodes stay locked for the    *)
(* round trip the zone holds the last confirmed UPDATE of each node that   *)
(* no unread copy changed last.  Last, the limit of UPDATEs in flight.     *)
(***************************************************************************)
EXTENDS Coordinator, FiniteSetTheorems, TLAPS
USE Zenon

---------------------------------------------------------------------------
(* The lock table.                                                          *)

\* An empty table with no caller satisfies the invariant.
LEMMA InitEstablishes == NodeLocksInit => IInv
  BY SMT DEF NodeLocksInit, IInv, TypeOK, Exclusive, TableExact, NoLostWakeup,
         HoldersOnly

\* Taking a whole free set, by TryAcquire or by a turn of Acquire's loop,
\* keeps the invariant.
LEMMA TakeAllPreserves ==
  ASSUME IInv, NEW p \in Proc, NEW ids \in SUBSET Id,
         lockPc[p] # "holding",
         TakeAll(p, ids),
         \/ channel' = channel /\ lockPc[p] = "idle"
         \/ channel' = [channel EXCEPT ![p] = "none"],
         expired' \subseteq expired
  PROVE  IInv'
<1> USE DEF IInv
<1>1. TypeOK'
  BY DEF TypeOK, TakeAll
<1>2. \A q \in Proc : sets[q] \subseteq held
  BY DEF TableExact
<1>3. Exclusive'
  BY <1>2 DEF TypeOK, Exclusive, TakeAll
<1>4. TableExact'
  <2>1. \A x : x \in held' => \E q \in Proc : x \in sets'[q]
    BY SMT DEF TypeOK, TableExact, HoldersOnly, TakeAll
  <2>2. \A x : \A q \in Proc : x \in sets'[q] => x \in held'
    BY <1>2 DEF TypeOK, TakeAll
  <2> QED BY <2>1, <2>2 DEF TableExact
<1>5. NoLostWakeup'
  BY DEF TypeOK, NoLostWakeup, TakeAll
<1>6. HoldersOnly'
  BY DEF TypeOK, HoldersOnly, TakeAll
<1> QED BY <1>1, <1>3, <1>4, <1>5, <1>6

\* Releasing a set keeps the invariant: only the holder's ids become free, and
\* every sleeper's channel is closed.
LEMMA ReleasePreserves ==
  ASSUME IInv, NEW p \in Proc, Release(p)
  PROVE  IInv'
<1> USE DEF IInv
<1>1. TypeOK'
  BY DEF TypeOK, Release
<1>2. Exclusive'
  BY DEF TypeOK, Exclusive, Release
<1>3. TableExact'
  <2>1. \A x : x \in held' => \E q \in Proc : x \in sets'[q]
    BY DEF TypeOK, TableExact, Release
  <2>2. \A x : \A q \in Proc : x \in sets'[q] => x \in held'
    BY DEF TypeOK, TableExact, Exclusive, Release
  <2> QED BY <2>1, <2>2 DEF TableExact
<1>4. NoLostWakeup'
  BY DEF TypeOK, NoLostWakeup, Release
<1>5. HoldersOnly'
  BY DEF TypeOK, HoldersOnly, Release
<1> QED BY <1>1, <1>2, <1>3, <1>4, <1>5

\* No step of any caller breaks the invariant.
LEMMA StepPreserves == IInv /\ [Next]_lockVars => IInv'
<1> SUFFICES ASSUME IInv, [Next]_lockVars PROVE IInv'
  OBVIOUS
<1>1. CASE UNCHANGED lockVars
  BY <1>1, SMT DEF lockVars, IInv, TypeOK, Exclusive, TableExact, NoLostWakeup,
              HoldersOnly
<1>2. ASSUME NEW p \in Proc, Step(p) PROVE IInv'
  <2>1. CASE Acquire(p)
    BY <2>1, SMT DEF Acquire, IInv, TypeOK, Exclusive, TableExact, NoLostWakeup,
                HoldersOnly
  <2>2. CASE Wake(p)
    BY <2>2, SMT DEF Wake, IInv, TypeOK, Exclusive, TableExact, NoLostWakeup,
                HoldersOnly
  <2>3. CASE GiveUp(p)
    BY <2>3, SMT DEF GiveUp, IInv, TypeOK, Exclusive, TableExact, NoLostWakeup,
                HoldersOnly
  <2>4. CASE ContextDone(p)
    BY <2>4, SMT DEF ContextDone, IInv, TypeOK, Exclusive, TableExact,
                NoLostWakeup, HoldersOnly
  <2>5. CASE Release(p)
    BY <2>5, ReleasePreserves
  <2>6. ASSUME NEW ids \in SUBSET Id, TryAcquire(p, ids) PROVE IInv'
    BY <2>6, TakeAllPreserves DEF TryAcquire
  <2>7. ASSUME NEW ids \in SUBSET Id, TryAcquireFails(p, ids) PROVE IInv'
    BY <2>7, SMT DEF TryAcquireFails, lockVars, IInv, TypeOK, Exclusive,
                TableExact, NoLostWakeup, HoldersOnly
  <2>8. ASSUME NEW ids \in SUBSET Id, AttemptSucceeds(p, ids) PROVE IInv'
    BY <2>8, TakeAllPreserves DEF AttemptSucceeds
  <2>9. ASSUME NEW ids \in SUBSET Id, AttemptFails(p, ids) PROVE IInv'
    BY <2>9, SMT DEF AttemptFails, TakeNone, IInv, TypeOK, Exclusive,
                TableExact, NoLostWakeup, HoldersOnly
  <2> QED
    BY <1>2, <2>1, <2>2, <2>3, <2>4, <2>5, <2>6, <2>7, <2>8, <2>9 DEF Step
<1> QED
  BY <1>1, <1>2 DEF Next

\* The invariant holds in every reachable state.
THEOREM Invariance == Spec => []IInv
  BY InitEstablishes, StepPreserves, PTL DEF Spec

\* The table's fields keep their types, for any number of callers and ids.
THEOREM TypeCorrect == Spec => []TypeOK
<1>1. IInv => TypeOK
  BY DEF IInv
<1> QED BY <1>1, Invariance, PTL

\* Two callers never hold one id, for any number of callers and ids.
THEOREM MutualExclusion == Spec => []Exclusive
<1>1. IInv => Exclusive
  BY DEF IInv
<1> QED BY <1>1, Invariance, PTL

\* A caller asleep on the installed channel is always still refused by a held
\* id: a release between its attempt and its sleep is never missed.
THEOREM WakeupsNotLost == Spec => []NoLostWakeup
<1>1. IInv => NoLostWakeup
  BY DEF IInv
<1> QED BY <1>1, Invariance, PTL

\* The table's entries are exactly the ids callers hold.
THEOREM NothingLeaks == Spec => []TableExact
<1>1. IInv => TableExact
  BY DEF IInv
<1> QED BY <1>1, Invariance, PTL

\* The lock table with its channel and its retries implements the abstract one.
THEOREM Refinement == Spec => ImplementsLockTable
<1> DEFINE Holders == {q \in Proc : lockPc[q] = "holding"}
<1>1. NodeLocksInit => Table!Init
  BY DEF NodeLocksInit, Table!Init
<1>2. IInv /\ [Next]_lockVars => [Table!Next]_(Table!vars)
  <2> SUFFICES ASSUME IInv, [Next]_lockVars
               PROVE  Table!Next \/ UNCHANGED Table!vars
    OBVIOUS
  <2>1. CASE UNCHANGED lockVars
    BY <2>1 DEF lockVars, Table!vars
  <2>2. ASSUME NEW p \in Proc, Step(p)
        PROVE  Table!Next \/ UNCHANGED Table!vars
    <3>1. CASE Acquire(p) \/ Wake(p) \/ GiveUp(p) \/ ContextDone(p)
      <4>1. Holders' = Holders
        BY <3>1 DEF Acquire, Wake, GiveUp, ContextDone, IInv, TypeOK
      <4>2. sets' = sets
        BY <3>1 DEF Acquire, Wake, GiveUp, ContextDone
      <4> QED BY <4>1, <4>2 DEF Table!vars
    <3>2. CASE Release(p)
      <4>1. Holders' = Holders \ {p}
        BY <3>2 DEF Release, IInv, TypeOK
      <4>2. Table!Return(p)
        BY <3>2, <4>1 DEF Release, Table!Return
      <4> QED BY <4>2 DEF Table!Next
    <3>3. ASSUME NEW ids \in SUBSET Id,
                 TryAcquireFails(p, ids) \/ AttemptFails(p, ids)
          PROVE  UNCHANGED Table!vars
      <4>1. Holders' = Holders
        BY <3>3 DEF TryAcquireFails, AttemptFails, lockVars, IInv, TypeOK
      <4>2. sets' = sets
        BY <3>3 DEF TryAcquireFails, AttemptFails, TakeNone, lockVars
      <4> QED BY <4>1, <4>2 DEF Table!vars
    <3>4. ASSUME NEW ids \in SUBSET Id,
                 TryAcquire(p, ids) \/ AttemptSucceeds(p, ids)
          PROVE  Table!Next
      <4>1. TakeAll(p, ids) /\ p \notin Holders
        BY <3>4 DEF TryAcquire, AttemptSucceeds
      <4>2. Holders' = Holders \cup {p}
        BY <4>1 DEF TakeAll, IInv, TypeOK
      <4>3. \A q \in Holders : sets[q] \cap ids = {}
        BY <4>1, SMT DEF TakeAll, IInv, TableExact
      <4>4. Table!Grant(p, ids)
        BY <4>1, <4>2, <4>3 DEF TakeAll, Table!Grant
      <4> QED BY <4>4 DEF Table!Next
    <3> QED BY <2>2, <3>1, <3>2, <3>3, <3>4 DEF Step
  <2> QED BY <2>1, <2>2 DEF Next
<1> QED
  BY <1>1, <1>2, Invariance, PTL DEF Spec, ImplementsLockTable, Table!Spec

---------------------------------------------------------------------------
(* The coordinator: its inductive invariant.                                *)

Sending == {"acquiring", "udp", "tcp"}

Copy == [call : Call, via : Via, at : {"wire", "work", "answered"},
         ok : BOOLEAN, to : Server, ids : SUBSET Id]

\* CallTypes without the copies.
CallerTypes ==
  /\ pc \in [Proc -> {"idle", "locking", "holding"} \cup Sending]
  /\ nodes \in [Proc -> SUBSET Id] /\ server \in [Proc -> Server \cup {None}]
  /\ call \in [Proc -> Call \cup {None}] /\ slots \in [Server -> SUBSET Proc]
  /\ zone \in [Id -> Call \cup {None}] /\ confirmed \in [Id -> Call \cup {None}]
  /\ strayed \subseteq Id /\ limit \in Limits /\ sent \in 0..MaxCalls

\* A caller's locks are its nodes, and its call has a number of its own.
Callers ==
  \A p \in Proc :
    /\ pc[p] = "idle" <=> lockPc[p] = "idle"
    /\ pc[p] \in {"holding"} \cup Sending <=> lockPc[p] = "holding"
    /\ lockPc[p] = "holding" => sets[p] = nodes[p]
    /\ IF pc[p] \in Sending THEN call[p] \in 1..sent /\ server[p] \in Server
                            ELSE call[p] = None
    /\ \A q \in Proc : call[q] = call[p] /\ call[p] # None => q = p

\* A call has at most one copy per transport, and they are of its caller's making.  An
\* answer is kept while somebody waits for it.
GoodCopy(m) ==
  /\ m.call \in 1..sent /\ m.via \in Via
  /\ \A n \in copies : n.call = m.call /\ n.via = m.via => n = m
  /\ \A p \in Proc : call[p] = m.call =>
       /\ m.ids = nodes[p] /\ m.to = server[p]
       /\ pc[p] = m.via \/ (pc[p] = "tcp" /\ m.via = "udp")
  /\ ~Awaited(m) => m.at # "answered"

CopiesOfCalls == \A m \in copies : GoodCopy(m)

\* Who sends has a slot of its server.
SlotsKept ==
  limit > 0 => \A p \in Proc : pc[p] \in Via => p \in slots[server[p]]

\* The server has applied p's UPDATE and its caller is yet to read so.
Unconfirmed(p) == \E m \in copies : m.call = call[p] /\ m.at = "answered" /\ m.ok

\* While p holds its nodes the zone has its UPDATE of them, or the last confirmed.
HeldNodes ==
  \A p \in Proc : lockPc[p] = "holding" =>
    \A i \in nodes[p] \ strayed :
      zone[i] = IF Unconfirmed(p) THEN call[p] ELSE confirmed[i]

\* The inductive invariant of the coordinator and its callers (SendUpdate, acquire).
CallIInv ==
  /\ IInv /\ CallerTypes /\ copies \subseteq Copy
  /\ Callers /\ CopiesOfCalls /\ SlotsKept
  /\ HeldNodes /\ LastConfirmedStands

---------------------------------------------------------------------------
(* The lock table among the callers.                                        *)

\* Callers use the lock table only through its operations.
LEMMA LockSteps == CallerTypes /\ [CoordinatorNext]_vars => [Next]_lockVars
<1> SUFFICES ASSUME CallerTypes, CoordinatorNext PROVE Next \/ UNCHANGED lockVars
  BY DEF vars
<1>1. ASSUME NEW p \in Proc, NEW ids \in SUBSET Id, Begin(p, ids)
      PROVE  Step(p)
  BY <1>1 DEF Begin, Step
<1>2. ASSUME NEW p \in Proc, Lock(p) PROVE Step(p)
  BY <1>2 DEF Lock, Step, CallerTypes
<1>3. ASSUME NEW p \in Proc, ContextEnds(p) \/ GiveUpLocking(p) PROVE Step(p)
  BY <1>3 DEF ContextEnds, GiveUpLocking, Step
<1>4. ASSUME NEW p \in Proc, NothingToSend(p) \/ SlotDeadline(p) \/ Answered(p) \/ TCPFails(p)
      PROVE  Release(p)
  BY <1>4 DEF NothingToSend, SlotDeadline, Answered, TCPFails, Return
<1>5. ASSUME NEW p \in Proc, Resolve(p) PROVE Release(p) \/ UNCHANGED lockVars
  BY <1>5 DEF Resolve, Return
<1>6. ASSUME NEW p \in Proc, TakeSlot(p) \/ UDPFails(p) PROVE UNCHANGED lockVars
  BY <1>6 DEF TakeSlot, UDPFails
<1>7. ASSUME NEW m \in copies, Arrive(m) \/ Serve(m) \/ Vanish(m)
      PROVE  UNCHANGED lockVars
  BY <1>7, Zenon DEF Arrive, Serve, Vanish
<1>8. \A p \in Proc : Release(p) => Step(p)
  BY DEF Step
<1> QED
  BY <1>1, <1>2, <1>3, <1>4, <1>5, <1>6, <1>7, <1>8
     DEF CoordinatorNext, CallStep, Deliver, Next

---------------------------------------------------------------------------
(* What the parts of a step do.                                             *)

\* Return ends the call and unlocks.
LEMMA ReturnEffect ==
  ASSUME NEW p \in Proc, Return(p)
  PROVE  /\ lockPc' = [lockPc EXCEPT ![p] = "idle"] /\ held' = held \ sets[p]
         /\ sets' = [sets EXCEPT ![p] = {}]
         /\ pc' = [pc EXCEPT ![p] = "idle"] /\ nodes' = [nodes EXCEPT ![p] = {}]
         /\ server' = [server EXCEPT ![p] = None] /\ call' = [call EXCEPT ![p] = None]
         /\ slots' = [s \in Server |-> slots[s] \ {p}]
  BY Zenon DEF Return, Goto, Release, FreeSlot

\* A caller that returns keeps the types, has no call, and gives its slot back and nobody
\* else's (the deferred release).
LEMMA ReturnKeepsCallers ==
  ASSUME CallIInv, NEW p \in Proc, Return(p), sent' \in {sent, sent + 1},
         sent' \in 0..MaxCalls,
         zone' = zone, confirmed' \in [Id -> Call \cup {None}], strayed' \subseteq Id,
         limit' = limit
  PROVE  CallerTypes' /\ Callers' /\ SlotsKept'
<1> USE CoordinatorAssumption DEF CallIInv
<1>1. CallerTypes'
  <2>1. slots' \in [Server -> SUBSET Proc]
    BY ReturnEffect, SMT DEF CallerTypes
  <2>2. pc' \in [Proc -> {"idle", "locking", "holding"} \cup Sending]
    BY ReturnEffect DEF CallerTypes
  <2>3. nodes' \in [Proc -> SUBSET Id] /\ server' \in [Proc -> Server \cup {None}]
    BY ReturnEffect DEF CallerTypes
  <2>4. call' \in [Proc -> Call \cup {None}]
    BY ReturnEffect DEF CallerTypes
  <2> QED BY <2>1, <2>2, <2>3, <2>4 DEF CallerTypes
<1>2. Callers'
  BY ReturnEffect, SMT DEF CallerTypes, Callers, IInv, TypeOK, Sending
<1>3. SlotsKept'
  <2> SUFFICES ASSUME limit > 0, NEW q \in Proc, pc'[q] \in Via
               PROVE  q \in slots'[server'[q]]
    BY DEF SlotsKept
  <2>1. q # p /\ pc[q] \in Via /\ server'[q] = server[q]
    BY ReturnEffect, SMT DEF CallerTypes, Via
  <2>2. server[q] \in Server /\ q \in slots[server[q]]
    BY <2>1 DEF Callers, SlotsKept, Sending, Via
  <2> QED BY <2>1, <2>2, ReturnEffect, SMT
<1> QED BY <1>1, <1>2, <1>3

\* A call that is not on its way yet has no copies.
LEMMA NoCopiesYet ==
  ASSUME CallIInv, NEW p \in Proc, pc[p] \notin Via
  PROVE  \A m \in copies : m.call # call[p]
<1> SUFFICES ASSUME NEW m \in copies, m.call = call[p] PROVE FALSE
  OBVIOUS
<1>1. GoodCopy(m) /\ pc[p] \in Sending
  BY CoordinatorAssumption DEF CallIInv, CallerTypes, Callers, CopiesOfCalls, GoodCopy
<1> QED BY <1>1 DEF GoodCopy, Via

\* A caller that returns leaves behind only copies that have no answer.
LEMMA ReturnKeepsCopies ==
  ASSUME CallIInv, NEW p \in Proc, Return(p), sent' \in {sent, sent + 1},
         copies' \subseteq copies, \A m \in copies' : m.call = call[p] => m.at # "answered"
  PROVE  CopiesOfCalls'
<1> USE CoordinatorAssumption DEF CallIInv
<1> SUFFICES ASSUME NEW m \in copies' PROVE GoodCopy(m)'
  BY DEF CopiesOfCalls
<1>1. GoodCopy(m) /\ m \in copies /\ m.call \in Nat
  BY SMT DEF CopiesOfCalls, GoodCopy, CallerTypes
<1>2. \A q \in Proc : call'[q] = m.call => q # p
  BY <1>1, ReturnEffect DEF CallerTypes
<1>3. m.call # call[p] => (Awaited(m)' <=> Awaited(m))
  BY <1>2, ReturnEffect, SMT DEF Awaited, CallerTypes
<1>4. m.call \in 1..sent'
  BY <1>1, SMT DEF GoodCopy, CallerTypes
<1>5. \A q \in Proc \ {p} : /\ call'[q] = call[q] /\ nodes'[q] = nodes[q]
                            /\ server'[q] = server[q] /\ pc'[q] = pc[q]
  BY ReturnEffect, SMT DEF CallerTypes
<1> QED BY <1>1, <1>2, <1>3, <1>4, <1>5, SMT DEF GoodCopy

\* A caller that returns leaves its nodes as they were last confirmed, and those of the
\* others alone.
LEMMA ReturnKeepsZone ==
  ASSUME CallIInv, NEW p \in Proc, Return(p), zone' = zone,
         copies' \subseteq copies, \A m \in copies \ copies' : m.call = call[p],
         strayed \subseteq strayed',
         \A i \in Id \ nodes[p] : confirmed'[i] = confirmed[i],
         \A i \in nodes[p] \ strayed' : confirmed'[i] = zone[i]
  PROVE  HeldNodes' /\ LastConfirmedStands'
<1> USE CoordinatorAssumption DEF CallIInv
<1>1. lockPc[p] = "holding" /\ sets[p] = nodes[p]
  BY DEF Return, Release, Callers
<1>2. ASSUME NEW q \in Proc, lockPc'[q] = "holding", NEW i \in nodes'[q] \ strayed'
      PROVE  zone'[i] = IF Unconfirmed(q)' THEN call'[q] ELSE confirmed'[i]
  <2>1. q # p /\ lockPc[q] = "holding" /\ nodes'[q] = nodes[q] /\ call'[q] = call[q]
    BY <1>2, ReturnEffect, SMT DEF CallerTypes, IInv, TypeOK
  <2>2. i \in Id /\ i \notin nodes[p]
    BY <1>1, <1>2, <2>1 DEF Callers, CallerTypes, IInv, Exclusive
  <2>3. \A m \in copies : m.call = call[q] => m.call # call[p]
    BY <2>1, SMT DEF Callers, CopiesOfCalls, GoodCopy, CallerTypes
  <2>4. Unconfirmed(q)' <=> Unconfirmed(q)
    BY <2>1, <2>3 DEF Unconfirmed
  <2> QED BY <1>2, <2>1, <2>2, <2>4 DEF HeldNodes
<1>3. ASSUME NEW i \in Id \ (strayed' \cup held') PROVE zone'[i] = confirmed'[i]
  <2>1. CASE i \in nodes[p]
    BY <1>3, <2>1
  <2>2. CASE i \notin nodes[p]
    BY <1>1, <1>3, <2>2, ReturnEffect DEF LastConfirmedStands
  <2> QED BY <2>1, <2>2
<1> QED BY <1>2, <1>3 DEF HeldNodes, LastConfirmedStands

\* Send puts a new copy on the wire and drops answers that were not waited for.
LEMMA SendEffect ==
  ASSUME CallIInv, NEW p \in Proc, pc[p] \in Sending, NEW via \in Via, Send(p, via)
  PROVE  \E c \in Copy :
           /\ c.call = call[p] /\ c.via = via /\ c.at = "wire"
           /\ c.to = server[p] /\ c.ids = nodes[p]
           /\ copies' = (copies \ Unread(p)) \cup {c}
<1> DEFINE c == [call |-> call[p], via |-> via, at |-> "wire", ok |-> FALSE,
                 to |-> server[p], ids |-> nodes[p]]
<1>1. call[p] \in Call /\ server[p] \in Server /\ nodes[p] \in SUBSET Id
  BY CoordinatorAssumption, SMT DEF CallIInv, CallerTypes, Callers
<1>2. c \in Copy
  BY <1>1 DEF Copy
<1>3. copies' = (copies \ Unread(p)) \cup {c}
  BY Zenon DEF Send
<1>4. /\ c.call = call[p] /\ c.via = via /\ c.at = "wire"
      /\ c.to = server[p] /\ c.ids = nodes[p]
  OBVIOUS
<1> HIDE DEF c
<1> QED BY <1>2, <1>3, <1>4

\* A copy sent over a transport that this call has not used before.
LEMMA SendKeepsCopies ==
  ASSUME CallIInv, NEW p \in Proc, pc[p] \in Sending, NEW via \in Via, Send(p, via),
         pc' = [pc EXCEPT ![p] = via],
         UNCHANGED <<nodes, server, call, sent>>,
         \A m \in copies : m.call = call[p] => m.via = "udp" /\ via = "tcp"
  PROVE  copies' \subseteq Copy /\ CopiesOfCalls'
<1> USE CoordinatorAssumption DEF CallIInv
<1>1. PICK c \in Copy : /\ c.call = call[p] /\ c.via = via /\ c.at = "wire"
                        /\ c.to = server[p] /\ c.ids = nodes[p]
                        /\ copies' = (copies \ Unread(p)) \cup {c}
  BY SendEffect, SMT
<1>2. call[p] \in 1..sent /\ \A q \in Proc : call[q] = call[p] => q = p
  BY SMT DEF Callers, CallerTypes
<1>3. pc'[p] = via /\ \A q \in Proc \ {p} : pc'[q] = pc[q]
  BY DEF CallerTypes
<1>4. ASSUME NEW m \in copies \ Unread(p), m.call # call[p] PROVE GoodCopy(m)'
  <2>1. GoodCopy(m)
    BY <1>4 DEF CopiesOfCalls
  <2>2. Awaited(m)' <=> Awaited(m)
    BY <1>3, <1>4 DEF Awaited
  <2>3. \A n \in copies' : n.call = m.call /\ n.via = m.via => n = m
    BY <1>1, <1>4, <2>1 DEF GoodCopy
  <2> QED BY <1>3, <1>4, <2>1, <2>2, <2>3, SMT DEF GoodCopy
<1>5. ASSUME NEW m \in copies \ Unread(p), m.call = call[p] PROVE GoodCopy(m)'
  <2>1. GoodCopy(m) /\ m.at # "answered" /\ m.via = "udp" /\ via = "tcp"
    BY <1>5 DEF CopiesOfCalls, Unread
  <2>2. \A n \in copies' : n.call = m.call /\ n.via = m.via => n = m
    BY <1>1, <1>5, <2>1 DEF GoodCopy
  <2> QED BY <1>2, <1>3, <1>5, <2>1, <2>2, SMT DEF GoodCopy
<1>6. GoodCopy(c)'
  <2>1. Awaited(c)'
    BY <1>1, <1>3 DEF Awaited
  <2>2. \A n \in copies' : n.call = c.call /\ n.via = c.via => n = c
    BY <1>1
  <2> QED BY <1>1, <1>2, <1>3, <2>1, <2>2 DEF GoodCopy
<1> QED BY <1>1, <1>4, <1>5, <1>6 DEF CopiesOfCalls

\* A step of p before its UPDATE: nothing is sent, and locks are taken for what is asked.
LockingStep(p) ==
  /\ pc[p] \in {"idle", "locking"} /\ pc'[p] \in {"idle", "locking", "holding"}
  /\ pc' \in [Proc -> {"idle", "locking", "holding"} \cup Sending]
  /\ nodes' \in [Proc -> SUBSET Id]
  /\ \A q \in Proc \ {p} : /\ pc'[q] = pc[q] /\ nodes'[q] = nodes[q]
                           /\ lockPc'[q] = lockPc[q] /\ sets'[q] = sets[q]
  /\ pc'[p] = "idle" <=> lockPc'[p] = "idle"
  /\ pc'[p] = "holding" <=> lockPc'[p] = "holding"
  /\ IF pc'[p] = "holding"
     THEN sets'[p] = nodes'[p] /\ held' = held \cup nodes'[p] /\ nodes'[p] \cap held = {}
     ELSE held' = held
  /\ UNCHANGED <<server, call, slots, copies, zone, confirmed, strayed, limit, sent>>

\* Such steps keep what is on its way and the zone.
LEMMA LockingKeeps ==
  ASSUME CallIInv, NEW p \in Proc, LockingStep(p)
  PROVE  /\ CallerTypes' /\ copies' \subseteq Copy /\ Callers' /\ CopiesOfCalls'
         /\ SlotsKept' /\ HeldNodes' /\ LastConfirmedStands'
<1> USE CoordinatorAssumption DEF CallIInv
<1>1. CallerTypes' /\ copies' \subseteq Copy
  BY DEF CallerTypes, LockingStep
<1>2. call[p] = None
  BY DEF Callers, LockingStep, Sending
<1>3. Callers'
  BY <1>2, SMT DEF Callers, LockingStep, Sending
<1>4. ASSUME NEW m \in copies PROVE GoodCopy(m)'
  <2>1. GoodCopy(m) /\ m.call # None
    BY SMT DEF CopiesOfCalls, GoodCopy, CallerTypes
  <2>2. \A q \in Proc : call[q] = m.call => pc'[q] = pc[q] /\ nodes'[q] = nodes[q]
    BY <1>2, <2>1 DEF LockingStep
  <2>3. UNCHANGED <<call, server, copies, strayed, sent>>
    BY DEF LockingStep
  <2>4. Awaited(m)' <=> Awaited(m)
    BY <2>2, <2>3 DEF Awaited
  <2> QED BY <2>1, <2>2, <2>3, <2>4 DEF GoodCopy
<1>5. CopiesOfCalls'
  BY <1>4 DEF CopiesOfCalls, LockingStep
<1>6. SlotsKept'
  BY DEF SlotsKept, LockingStep, Via
<1>7. ASSUME NEW q \in Proc, lockPc'[q] = "holding", NEW i \in nodes'[q] \ strayed
      PROVE  zone[i] = IF Unconfirmed(q) THEN call[q] ELSE confirmed[i]
  <2>1. CASE q # p
    BY <1>7, <2>1 DEF HeldNodes, LockingStep
  <2>2. CASE q = p
    <3>1. i \in Id \ (strayed \cup held)
      BY <1>7, <2>2 DEF LockingStep
    <3>2. ~Unconfirmed(q)
      BY <1>2, <2>2, SMT DEF Unconfirmed, CopiesOfCalls, GoodCopy, CallerTypes
    <3> QED BY <3>1, <3>2 DEF LastConfirmedStands
  <2> QED BY <2>1, <2>2
<1>8. HeldNodes'
  BY <1>7, SMT DEF HeldNodes, Unconfirmed, LockingStep
<1>9. LastConfirmedStands'
  BY DEF LastConfirmedStands, LockingStep
<1> QED BY <1>1, <1>3, <1>5, <1>6, <1>8, <1>9

\* A step of the network puts one copy in the place of another, or takes it away.
LEMMA DeliveryKeepsCopies ==
  ASSUME CallIInv, NEW m \in copies, NEW a \in Copy,
         a.call = m.call, a.via = m.via, a.to = m.to, a.ids = m.ids,
         a.at = "answered" => Awaited(m),
         copies' \in {copies \ {m}, (copies \ {m}) \cup {a}},
         UNCHANGED <<pc, nodes, server, call, sent>>
  PROVE  copies' \subseteq Copy /\ CopiesOfCalls'
<1> USE DEF CallIInv
<1>1. \A n : Awaited(n)' <=> Awaited(n)
  BY DEF Awaited
<1>2. Awaited(a) <=> Awaited(m)
  BY DEF Awaited
<1>3. GoodCopy(m)
  BY DEF CopiesOfCalls
<1>4. ASSUME NEW n \in copies \ {m} PROVE GoodCopy(n)'
  <2>1. GoodCopy(n)
    BY DEF CopiesOfCalls
  <2>2. ~(n.call = m.call /\ n.via = m.via)
    BY <1>3 DEF GoodCopy
  <2>3. \A o \in copies' : o.call = n.call /\ o.via = n.via => o = n
    BY <2>1, <2>2 DEF GoodCopy
  <2> QED BY <1>1, <2>1, <2>3 DEF GoodCopy
<1>5. GoodCopy(a)'
  <2>1. \A o \in copies' : o.call = a.call /\ o.via = a.via => o = a
    BY <1>3 DEF GoodCopy
  <2> QED BY <1>1, <1>2, <1>3, <2>1 DEF GoodCopy
<1> QED BY <1>4, <1>5 DEF CopiesOfCalls

\* A step that leaves all the invariant speaks of alone.
LEMMA StutterKeeps ==
  ASSUME CallIInv,
         UNCHANGED <<lockPc, sets, held, pc, nodes, server, call, slots, copies, zone,
                     confirmed, strayed, limit, sent>>
  PROVE  /\ CallerTypes' /\ copies' \subseteq Copy /\ Callers' /\ CopiesOfCalls'
         /\ SlotsKept' /\ HeldNodes' /\ LastConfirmedStands'
<1> USE DEF CallIInv
<1>1. CallerTypes' /\ copies' \subseteq Copy /\ Callers' /\ SlotsKept' /\ LastConfirmedStands'
  BY DEF CallerTypes, Callers, SlotsKept, LastConfirmedStands
<1>2. \A m : Awaited(m)' <=> Awaited(m)
  BY DEF Awaited
<1>3. CopiesOfCalls'
  BY <1>2, SMT DEF CopiesOfCalls, GoodCopy
<1>4. HeldNodes'
  BY SMT DEF HeldNodes, Unconfirmed
<1> QED BY <1>1, <1>3, <1>4

---------------------------------------------------------------------------
(* Invariance.                                                              *)

\* The proxy starts without callers and with nothing on the wire.
LEMMA CallInitEstablishes == Init => CallIInv
<1> SUFFICES ASSUME Init PROVE CallIInv
  OBVIOUS
<1>1. IInv
  BY InitEstablishes DEF Init
<1>2. SlotsKept
  BY DEF Init, SlotsKept, Via
<1>3. CallerTypes /\ copies \subseteq Copy
  BY CoordinatorAssumption, SMT DEF Init, CallerTypes
<1>4. Callers /\ CopiesOfCalls /\ HeldNodes /\ LastConfirmedStands
  BY DEF Init, NodeLocksInit, Callers, CopiesOfCalls, HeldNodes, LastConfirmedStands, Sending
<1> QED BY <1>1, <1>2, <1>3, <1>4 DEF CallIInv

---------------------------------------------------------------------------
(* The steps keep the inductive invariant.                                  *)

\* A step that sends nothing and takes locks for what is asked keeps it.
LEMMA LockingPreserves ==
  ASSUME CallIInv, IInv', NEW p \in Proc, LockingStep(p)
  PROVE  CallIInv'
  BY LockingKeeps DEF CallIInv

\* So does one that changes nothing but the lock table's wake-ups and the bounds.
LEMMA WaitingPreserves ==
  ASSUME CallIInv, IInv',
         UNCHANGED <<lockPc, sets, held, pc, nodes, server, call, slots, copies, zone,
                     confirmed, strayed, limit, sent>>
  PROVE  CallIInv'
  BY StutterKeeps DEF CallIInv

\* A request or an expiry run asks for its nodes (Acquire, TryAcquire).
LEMMA BeginPreserves ==
  ASSUME CallIInv, IInv', NEW p \in Proc, NEW ids \in SUBSET Id, Begin(p, ids)
  PROVE  CallIInv'
<1>1. CASE Acquire(p) /\ nodes' = [nodes EXCEPT ![p] = ids] /\ Goto(p, "locking")
  <2>1. LockingStep(p)
    BY <1>1, SMT DEF Begin, Acquire, Goto, LockingStep, CallIInv, CallerTypes, IInv, TypeOK
  <2> QED BY <2>1, LockingPreserves
<1>2. CASE TryAcquire(p, ids) /\ nodes' = [nodes EXCEPT ![p] = ids] /\ Goto(p, "holding")
  <2>1. LockingStep(p)
    BY <1>2, SMT
       DEF Begin, TryAcquire, TakeAll, Goto, LockingStep, CallIInv, CallerTypes, IInv, TypeOK
  <2> QED BY <2>1, LockingPreserves
<1>3. CASE TryAcquireFails(p, ids) /\ UNCHANGED <<nodes, pc>>
  BY <1>3, WaitingPreserves, Zenon DEF Begin, TryAcquireFails, lockVars
<1> QED BY <1>1, <1>2, <1>3, Zenon DEF Begin

\* A turn of Acquire's loop takes all of the nodes or none.
LEMMA LockPreserves ==
  ASSUME CallIInv, IInv', NEW p \in Proc, Lock(p)
  PROVE  CallIInv'
<1>1. CASE AttemptSucceeds(p, nodes[p]) /\ Goto(p, "holding") /\ UNCHANGED nodes
  <2>1. LockingStep(p)
    BY <1>1, SMT
       DEF Lock, AttemptSucceeds, TakeAll, Goto, LockingStep, CallIInv, CallerTypes, IInv,
           TypeOK
  <2> QED BY <2>1, LockingPreserves
<1>2. CASE (AttemptFails(p, nodes[p]) \/ Wake(p)) /\ UNCHANGED <<pc, nodes>>
  <2>1. LockingStep(p)
    BY <1>2
       DEF Lock, AttemptFails, TakeNone, Wake, LockingStep, CallIInv, CallerTypes, IInv, TypeOK
  <2> QED BY <2>1, LockingPreserves
<1> QED BY <1>1, <1>2, Zenon DEF Lock

\* A deadline ends the wait for locks, with nothing taken.
LEMMA GiveUpPreserves ==
  ASSUME CallIInv, IInv', NEW p \in Proc, ContextEnds(p) \/ GiveUpLocking(p)
  PROVE  CallIInv'
<1>1. CASE ContextEnds(p)
  BY <1>1, WaitingPreserves, Zenon DEF ContextEnds, ContextDone
<1>2. CASE GiveUpLocking(p)
  <2>1. LockingStep(p)
    BY <1>2, SMT
       DEF GiveUpLocking, GiveUp, Goto, LockingStep, CallIInv, CallerTypes, IInv, TypeOK
  <2> QED BY <2>1, LockingPreserves
<1> QED BY <1>1, <1>2

\* A call that ends before its UPDATE is sent leaves its nodes as last confirmed.
LEMMA UnsentPreserves ==
  ASSUME CallIInv, IInv', NEW p \in Proc, pc[p] \notin Via, Return(p),
         sent' \in {sent, sent + 1}, sent' \in 0..MaxCalls,
         UNCHANGED <<copies, zone, confirmed, strayed, limit>>
  PROVE  CallIInv'
<1>1. \A m \in copies : m.call # call[p]
  BY NoCopiesYet
<1>2. \A i \in nodes[p] \ strayed : zone[i] = confirmed[i]
  BY <1>1 DEF Return, Release, CallIInv, HeldNodes, Unconfirmed
<1>3. CallerTypes' /\ Callers' /\ SlotsKept'
  BY ReturnKeepsCallers DEF CallIInv, CallerTypes
<1>4. CopiesOfCalls'
  BY <1>1, ReturnKeepsCopies
<1>5. HeldNodes' /\ LastConfirmedStands'
  BY <1>1, <1>2, ReturnKeepsZone
<1> QED BY <1>3, <1>4, <1>5 DEF CallIInv

\* The caller's own checks, a failed lookup and the wait for a slot can end a call so.
LEMMA EarlyReturnPreserves ==
  ASSUME CallIInv, IInv', NEW p \in Proc, NothingToSend(p) \/ SlotDeadline(p)
  PROVE  CallIInv'
<1>1. /\ pc[p] \notin Via /\ Return(p) /\ sent' = sent /\ sent \in 0..MaxCalls
      /\ UNCHANGED <<copies, zone, confirmed, strayed, limit>>
  BY DEF NothingToSend, SlotDeadline, Via, CallIInv, CallerTypes
<1> QED BY <1>1, UnsentPreserves

\* The lookup of the server gives the call its number, or fails (ResolveSOAMasterServer).
LEMMA ResolvePreserves ==
  ASSUME CallIInv, IInv', NEW p \in Proc, Resolve(p)
  PROVE  CallIInv'
<1>1. /\ pc[p] = "holding" /\ sent' = sent + 1 /\ sent' \in 0..MaxCalls /\ sent + 1 \in Call
      /\ UNCHANGED <<copies, zone, confirmed, strayed, limit>>
  BY CoordinatorAssumption, SMT DEF Resolve, CallIInv, CallerTypes, Call
<1>2. CASE Return(p)
  BY <1>1, <1>2, UnsentPreserves DEF Via
<1>3. ASSUME NEW s \in Server, server' = [server EXCEPT ![p] = s],
             call' = [call EXCEPT ![p] = sent + 1], pc' = [pc EXCEPT ![p] = "acquiring"],
             UNCHANGED <<lockVars, nodes, slots>>
      PROVE  CallIInv'
  <2> USE CoordinatorAssumption DEF CallIInv
  <2>1. CallerTypes'
    BY <1>1, <1>3 DEF CallerTypes, Sending
  <2>2. Callers'
    BY <1>1, <1>3, SMT DEF CallerTypes, Callers, Sending, lockVars
  <2>3. \A m \in copies : m.call \in 1..sent /\ m.call # call[p]
    BY <1>1, NoCopiesYet DEF CopiesOfCalls, GoodCopy, Via
  <2>4. \A m \in copies, q \in Proc :
          /\ call'[q] = m.call <=> call[q] = m.call
          /\ call[q] = m.call => q # p
    BY <1>3, <2>3, SMT DEF CallerTypes
  <2>5. \A q \in Proc \ {p} : pc'[q] = pc[q] /\ server'[q] = server[q] /\ call'[q] = call[q]
    BY <1>3 DEF CallerTypes
  <2>6. \A m \in copies : Awaited(m)' <=> Awaited(m)
    BY <2>4, <2>5, SMTT(20) DEF Awaited
  <2>7. CopiesOfCalls'
    <3> SUFFICES ASSUME NEW m \in copies PROVE GoodCopy(m)'
      BY <1>1 DEF CopiesOfCalls
    <3>1. GoodCopy(m)
      BY DEF CopiesOfCalls
    <3>2. m.call \in 1..sent'
      BY <1>1, <2>3, SMT DEF CallerTypes
    <3>3. \A q \in Proc : call'[q] = m.call =>
            /\ m.ids = nodes'[q] /\ m.to = server'[q]
            /\ pc'[q] = m.via \/ (pc'[q] = "tcp" /\ m.via = "udp")
      BY <1>3, <2>4, <2>5, <3>1, SMT DEF GoodCopy
    <3> QED BY <1>1, <2>6, <3>1, <3>2, <3>3 DEF GoodCopy
  <2>8. SlotsKept'
    BY <1>1, <1>3, <2>5, SMT DEF SlotsKept, Via, CallerTypes
  <2>9. \A q \in Proc : /\ Unconfirmed(q)' <=> Unconfirmed(q)
                        /\ Unconfirmed(q) => q # p
    BY <1>1, <2>4 DEF Unconfirmed
  <2>10. HeldNodes' /\ LastConfirmedStands'
    BY <1>1, <1>3, <2>5, <2>9, SMT DEF HeldNodes, LastConfirmedStands, lockVars
  <2> QED BY <1>1, <2>1, <2>2, <2>7, <2>8, <2>10
<1> QED BY <1>2, <1>3, Zenon DEF Resolve, Goto

\* Sending leaves the zone alone; what an answer that went unread changed is noted.
LEMMA SendKeepsZone ==
  ASSUME CallIInv, NEW p \in Proc, pc[p] \in Sending, NEW via \in Via, Send(p, via),
         UNCHANGED <<lockPc, held, nodes, call, zone, confirmed>>, strayed \subseteq strayed',
         ~Unconfirmed(p) \/ nodes[p] \subseteq strayed'
  PROVE  HeldNodes' /\ LastConfirmedStands'
<1> USE CoordinatorAssumption DEF CallIInv
<1>1. PICK c \in Copy : /\ c.call = call[p] /\ c.at = "wire"
                        /\ copies' = (copies \ Unread(p)) \cup {c}
  BY SendEffect
<1>2. ASSUME NEW q \in Proc, q # p PROVE Unconfirmed(q)' <=> Unconfirmed(q)
  <2>1. call[q] # call[p]
    BY <1>2, SMT DEF Callers
  <2> QED BY <1>1, <2>1 DEF Unconfirmed, Unread
<1>3. ~Unconfirmed(p)'
  BY <1>1 DEF Unconfirmed, Unread
<1> QED BY <1>2, <1>3 DEF HeldNodes, LastConfirmedStands

\* acquire takes one of the server's slots.
LEMMA TakeSlotEffect ==
  ASSUME CallIInv, NEW p \in Proc, TakeSlot(p)
  PROVE  /\ pc' = [pc EXCEPT ![p] = "udp"] /\ server[p] \in Server
         /\ slots' \in [Server -> SUBSET Proc]
         /\ \A s \in Server : slots'[s] = IF s = server[p] /\ limit > 0
                                          THEN slots[s] \cup {p} ELSE slots[s]
<1> USE CoordinatorAssumption DEF CallIInv
<1>1. pc[p] = "acquiring" /\ pc' = [pc EXCEPT ![p] = "udp"]
  BY Zenon DEF TakeSlot, Goto
<1>2. server[p] \in Server
  BY <1>1 DEF Callers, Sending
<1>3. slots' = [slots EXCEPT ![server[p]] = IF limit = 0 THEN slots[server[p]]
                                            ELSE slots[server[p]] \cup {p}]
  BY Zenon DEF TakeSlot
<1>4. slots \in [Server -> SUBSET Proc] /\ limit \in Nat
  BY DEF CallerTypes
<1>5. \A s \in Server : slots'[s] = IF s = server[p] /\ limit > 0
                                    THEN slots[s] \cup {p} ELSE slots[s]
  BY <1>3, <1>4, SMT
<1>6. slots' \in [Server -> SUBSET Proc]
  BY <1>3, <1>4, Zenon
<1> QED BY <1>1, <1>2, <1>5, <1>6

\* The UDP exchange begins (SendUpdate).
LEMMA TakeSlotPreserves ==
  ASSUME CallIInv, IInv', NEW p \in Proc, TakeSlot(p)
  PROVE  CallIInv'
<1>1. /\ pc[p] = "acquiring" /\ Send(p, "udp") /\ pc' = [pc EXCEPT ![p] = "udp"]
      /\ UNCHANGED <<lockPc, sets, held, nodes, server, call, zone, confirmed, strayed, limit,
                     sent>>
  BY Zenon DEF TakeSlot, Goto, lockVars
<1>2. \A m \in copies : m.call # call[p]
  BY <1>1, NoCopiesYet DEF Via
<1>3. slots' \in [Server -> SUBSET Proc]
  BY TakeSlotEffect
<1>4. CallerTypes' /\ Callers'
  BY <1>1, <1>3 DEF CallIInv, CallerTypes, Callers, Sending
<1>5. copies' \subseteq Copy /\ CopiesOfCalls'
  BY <1>1, <1>2, SendKeepsCopies, Zenon DEF Via, Sending
<1>6. SlotsKept'
  <2> SUFFICES ASSUME limit > 0, NEW q \in Proc, pc'[q] \in Via
               PROVE  q \in slots'[server'[q]]
    BY <1>1 DEF SlotsKept
  <2>1. CASE q = p
    BY <1>1, <2>1, TakeSlotEffect, Zenon
  <2>2. CASE q # p
    <3>1. pc[q] \in Via /\ server'[q] = server[q]
      BY <1>1, <2>2 DEF CallIInv, CallerTypes
    <3>2. server[q] \in Server /\ q \in slots[server[q]]
      BY <3>1 DEF CallIInv, Callers, SlotsKept, Sending, Via
    <3>3. slots[server[q]] \subseteq slots'[server[q]]
      BY <3>2, TakeSlotEffect, Zenon
    <3> QED BY <3>1, <3>2, <3>3
  <2> QED BY <2>1, <2>2
<1>7. ~Unconfirmed(p)
  BY <1>2 DEF Unconfirmed
<1>8. HeldNodes' /\ LastConfirmedStands'
  BY <1>1, <1>7, SendKeepsZone DEF Via, Sending
<1> QED BY <1>4, <1>5, <1>6, <1>8 DEF CallIInv

\* When an exchange ends, the nodes of an UPDATE that is applied and unread are noted.
LEMMA UntoldAreNodes ==
  ASSUME CallIInv, NEW p \in Proc, strayed' = strayed \cup Untold(p)
  PROVE  /\ strayed' \subseteq Id /\ strayed \subseteq strayed'
         /\ ~Unconfirmed(p) \/ nodes[p] \subseteq strayed'
<1>1. Untold(p) \subseteq Id
  BY DEF CallIInv, CallerTypes, Untold
<1>2. Unconfirmed(p) => Untold(p) = nodes[p]
  BY DEF Unconfirmed, Untold, Unread
<1> QED BY <1>1, <1>2 DEF CallIInv, CallerTypes

\* The UDP exchange fails, and the same UPDATE goes out over TCP in the same slot.
LEMMA UDPFailsPreserves ==
  ASSUME CallIInv, IInv', NEW p \in Proc, UDPFails(p)
  PROVE  CallIInv'
<1>1. /\ pc[p] = "udp" /\ Send(p, "tcp") /\ pc' = [pc EXCEPT ![p] = "tcp"]
      /\ strayed' = strayed \cup Untold(p)
      /\ UNCHANGED <<lockPc, sets, held, nodes, server, call, slots, zone, confirmed, limit,
                     sent>>
  BY Zenon DEF UDPFails, Goto, lockVars
<1>2. \A m \in copies : m.call = call[p] => m.via = "udp"
  BY <1>1, SMTT(20) DEF CallIInv, CopiesOfCalls, GoodCopy
<1>3. /\ strayed' \subseteq Id /\ strayed \subseteq strayed'
      /\ ~Unconfirmed(p) \/ nodes[p] \subseteq strayed'
  BY <1>1, UntoldAreNodes
<1>4. CallerTypes' /\ Callers'
  BY <1>1, <1>3, ZenonT(20) DEF CallIInv, CallerTypes, Callers, Sending
<1>5. copies' \subseteq Copy /\ CopiesOfCalls'
  BY <1>1, <1>2, SendKeepsCopies, Zenon DEF Via, Sending
<1>6. SlotsKept'
  BY <1>1, SMTT(20) DEF CallIInv, CallerTypes, SlotsKept, Via
<1>7. HeldNodes' /\ LastConfirmedStands'
  BY <1>1, <1>3, SendKeepsZone, Zenon DEF Via, Sending
<1> QED BY <1>4, <1>5, <1>6, <1>7 DEF CallIInv

\* The TCP exchange fails too, and the caller unlocks nodes it may know nothing of.
LEMMA TCPFailsPreserves ==
  ASSUME CallIInv, IInv', NEW p \in Proc, TCPFails(p)
  PROVE  CallIInv'
<1>1. /\ pc[p] = "tcp" /\ strayed' = strayed \cup Untold(p) /\ copies' = copies \ Unread(p)
      /\ Return(p) /\ UNCHANGED <<zone, confirmed, limit, sent>>
  BY Zenon DEF TCPFails
<1>2. /\ sent \in 0..MaxCalls /\ strayed' \subseteq Id /\ strayed \subseteq strayed'
      /\ confirmed \in [Id -> Call \cup {None}]
      /\ ~Unconfirmed(p) \/ nodes[p] \subseteq strayed'
  BY <1>1, UntoldAreNodes DEF CallIInv, CallerTypes
<1>3. CallerTypes' /\ Callers' /\ SlotsKept'
  BY <1>1, <1>2, ReturnKeepsCallers
<1>4. \A m \in copies' : m.call = call[p] => m.at # "answered"
  BY <1>1 DEF Unread
<1>5. CopiesOfCalls' /\ copies' \subseteq copies
  BY <1>1, <1>4, ReturnKeepsCopies
<1>6. \A m \in copies \ copies' : m.call = call[p]
  BY <1>1 DEF Unread
<1>7. \A i \in nodes[p] \ strayed' : confirmed'[i] = zone[i]
  BY <1>1, <1>2 DEF Return, Release, CallIInv, HeldNodes
<1>8. HeldNodes' /\ LastConfirmedStands'
  BY <1>1, <1>2, <1>5, <1>6, <1>7, ReturnKeepsZone
<1> QED BY <1>3, <1>5, <1>8 DEF CallIInv

\* The answer reaches its caller: what it confirms is what the zone has, as nobody else
\* could change its nodes in the meantime.
LEMMA AnsweredPreserves ==
  ASSUME CallIInv, IInv', NEW p \in Proc, Answered(p)
  PROVE  CallIInv'
<1> USE CoordinatorAssumption
<1>1. PICK m \in copies :
        /\ m.call = call[p] /\ m.via = pc[p] /\ m.at = "answered" /\ copies' = copies \ {m}
        /\ confirmed' = [i \in Id |-> IF m.ok /\ i \in nodes[p] THEN call[p]
                                      ELSE confirmed[i]]
  BY Zenon DEF Answered
<1>2. pc[p] \in Via /\ Return(p) /\ UNCHANGED <<zone, strayed, limit, sent>>
  BY Zenon DEF Answered
<1>3. call[p] \in Call /\ \A q \in Proc : call[q] = call[p] => q = p
  BY <1>2, SMT DEF CallIInv, Callers, CallerTypes, Sending, Via
<1>4. /\ sent \in 0..MaxCalls /\ strayed \subseteq Id
      /\ confirmed' \in [Id -> Call \cup {None}]
  BY <1>1, <1>3 DEF CallIInv, CallerTypes
<1>5. CallerTypes' /\ Callers' /\ SlotsKept'
  BY <1>2, <1>4, ReturnKeepsCallers
<1>6. ASSUME NEW n \in copies, n # m, n.call = call[p]
      PROVE  n.at # "answered"
  <2>1. GoodCopy(n) /\ n.via # pc[p]
    BY <1>1, <1>6, SMT DEF CallIInv, CopiesOfCalls, GoodCopy
  <2>2. ~Awaited(n)
    BY <1>3, <1>6, <2>1 DEF Awaited
  <2> QED BY <2>1, <2>2 DEF GoodCopy
<1>7. CopiesOfCalls' /\ copies' \subseteq copies
  BY <1>1, <1>2, <1>6, ReturnKeepsCopies
<1>8. Unconfirmed(p) <=> m.ok
  BY <1>1, <1>6 DEF Unconfirmed
<1>9. lockPc[p] = "holding" /\ nodes[p] \subseteq Id
  BY <1>2, Zenon DEF Return, Release, CallIInv, CallerTypes
<1>10. \A i \in nodes[p] \ strayed : zone[i] = IF m.ok THEN call[p] ELSE confirmed[i]
  BY <1>8, <1>9, Zenon DEF CallIInv, HeldNodes
<1>11. HeldNodes' /\ LastConfirmedStands'
  <2>1. \A i \in Id \ nodes[p] : confirmed'[i] = confirmed[i]
    BY <1>1
  <2>2. \A i \in nodes[p] \ strayed' : confirmed'[i] = zone[i]
    BY <1>1, <1>2, <1>9, <1>10
  <2>3. \A n \in copies \ copies' : n.call = call[p]
    BY <1>1
  <2> QED BY <1>2, <1>7, <2>1, <2>2, <2>3, ReturnKeepsZone
<1> QED BY <1>5, <1>7, <1>11 DEF CallIInv

\* A copy reaches its server, or is lost on its way.
LEMMA NetworkPreserves ==
  ASSUME CallIInv, IInv', NEW m \in copies, Arrive(m) \/ Vanish(m)
  PROVE  CallIInv'
<1>1. PICK a \in Copy : /\ a.call = m.call /\ a.via = m.via /\ a.to = m.to /\ a.ids = m.ids
                        /\ a.at = "work"
                        /\ copies' \in {copies \ {m}, (copies \ {m}) \cup {a}}
  <2>1. m \in Copy
    BY DEF CallIInv
  <2>2. [m EXCEPT !.at = "work"] \in Copy
    BY <2>1 DEF Copy
  <2> DEFINE a == [m EXCEPT !.at = "work"]
  <2>3. /\ a.call = m.call /\ a.via = m.via /\ a.to = m.to /\ a.ids = m.ids
        /\ a.at = "work"
    BY <2>1 DEF Copy
  <2>4. copies' \in {copies \ {m}, (copies \ {m}) \cup {a}}
    BY Zenon DEF Arrive, Vanish
  <2> QED BY <2>2, <2>3, <2>4, Zenon
<1>2. m.at = "wire" /\ UNCHANGED <<lockPc, sets, held, pc, nodes, server, call, slots, zone,
                                   confirmed, strayed, limit, sent>>
  BY Zenon DEF Arrive, Vanish, lockVars
<1>3. copies' \subseteq Copy /\ CopiesOfCalls'
  BY <1>1, <1>2, DeliveryKeepsCopies
<1>4. CallerTypes' /\ Callers' /\ SlotsKept' /\ LastConfirmedStands'
  BY <1>2, Zenon DEF CallIInv, CallerTypes, Callers, SlotsKept, LastConfirmedStands
<1>5. \A q \in Proc : Unconfirmed(q)' <=> Unconfirmed(q)
  BY <1>1, <1>2, Zenon DEF Unconfirmed
<1>6. HeldNodes'
  BY <1>2, <1>5, Zenon DEF CallIInv, HeldNodes
<1> QED BY <1>3, <1>4, <1>6 DEF CallIInv

\* A server works on an UPDATE: of one that somebody waits for it changes nodes that
\* caller has locked, of any other nodes that are noted as changed unread.
LEMMA ServePreserves ==
  ASSUME CallIInv, IInv', NEW m \in copies, Serve(m)
  PROVE  CallIInv'
<1> USE CoordinatorAssumption DEF CallIInv
<1>1. PICK ok \in BOOLEAN, a \in Copy :
        /\ a.call = m.call /\ a.via = m.via /\ a.to = m.to /\ a.ids = m.ids
        /\ a.at = "answered" /\ a.ok = ok
        /\ zone' = [i \in Id |-> IF ok /\ i \in m.ids THEN m.call ELSE zone[i]]
        /\ copies' = (copies \ {m}) \cup (IF Awaited(m) THEN {a} ELSE {})
        /\ strayed' = IF ~ok THEN strayed ELSE IF Awaited(m) THEN strayed \ m.ids
                      ELSE strayed \cup m.ids
  <2>1. PICK ok \in BOOLEAN :
          /\ zone' = [i \in Id |-> IF ok /\ i \in m.ids THEN m.call ELSE zone[i]]
          /\ copies' = (copies \ {m}) \cup
                         {x \in {[m EXCEPT !.at = "answered", !.ok = ok]} : Awaited(m)}
          /\ strayed' = IF ~ok THEN strayed ELSE IF Awaited(m) THEN strayed \ m.ids
                        ELSE strayed \cup m.ids
    BY Zenon DEF Serve
  <2> DEFINE a == [m EXCEPT !.at = "answered", !.ok = ok]
  <2>2. m \in Copy
    OBVIOUS
  <2>3. a \in Copy
    BY <2>2, Zenon DEF Copy
  <2>4. /\ a.call = m.call /\ a.via = m.via /\ a.to = m.to /\ a.ids = m.ids
        /\ a.at = "answered" /\ a.ok = ok
    BY <2>2 DEF Copy
  <2> HIDE DEF a
  <2>5. copies' = (copies \ {m}) \cup (IF Awaited(m) THEN {a} ELSE {})
    BY <2>1 DEF a
  <2> QED BY <2>1, <2>3, <2>4, <2>5
<1>2. m.at = "work" /\ UNCHANGED <<lockPc, sets, held, pc, nodes, server, call, slots,
                                   confirmed, limit, sent>>
  BY Zenon DEF Serve, lockVars
<1>3. copies' \subseteq Copy /\ CopiesOfCalls'
  <2>1. copies' \in {copies \ {m}, (copies \ {m}) \cup {a}}
    BY <1>1
  <2>2. CASE Awaited(m)
    BY <1>1, <1>2, <2>1, <2>2, DeliveryKeepsCopies, Zenon
  <2>3. CASE ~Awaited(m)
    <3>1. copies' \in {copies \ {m}, (copies \ {m}) \cup {m}} /\ m \in Copy
      BY <1>1, <2>3
    <3> QED BY <1>2, <3>1, DeliveryKeepsCopies
  <2> QED BY <2>2, <2>3
<1>4. zone' \in [Id -> Call \cup {None}] /\ strayed' \subseteq Id
  <2>1. m.call \in Call
    BY SMT DEF CopiesOfCalls, GoodCopy, CallerTypes, Call
  <2>2. m.ids \subseteq Id
    BY DEF Copy
  <2> QED BY <1>1, <2>1, <2>2 DEF CallerTypes
<1>5. CallerTypes' /\ Callers' /\ SlotsKept'
  BY <1>2, <1>4, Zenon DEF CallerTypes, Callers, SlotsKept
<1>6. CASE ~Awaited(m)
  <2>1. strayed \subseteq strayed' /\ \A i \in Id \ strayed' : zone'[i] = zone[i]
    BY <1>1, <1>6
  <2>2. \A q \in Proc : Unconfirmed(q)' <=> Unconfirmed(q)
    BY <1>1, <1>2, <1>6 DEF Unconfirmed
  <2>3. HeldNodes' /\ LastConfirmedStands'
    BY <1>2, <2>1, <2>2 DEF HeldNodes, LastConfirmedStands, CallerTypes
  <2> QED BY <1>3, <1>5, <2>3
<1>7. CASE Awaited(m)
  <2>1. PICK p \in Proc : call[p] = m.call /\ pc[p] = m.via
    BY <1>7 DEF Awaited
  <2>2. m.ids = nodes[p] /\ lockPc[p] = "holding" /\ call[p] # None /\ nodes[p] \subseteq held
    <3>1. GoodCopy(m)
      BY DEF CopiesOfCalls
    <3>2. m.ids = nodes[p] /\ pc[p] \in Via /\ call[p] \in 1..sent
      BY <2>1, <3>1 DEF GoodCopy
    <3>3. lockPc[p] = "holding" /\ call[p] # None
      BY <3>2, SMT DEF Callers, CallerTypes, Via, Sending
    <3> QED BY <3>2, <3>3 DEF Callers, IInv, TableExact
  <2>3. strayed' = IF ok THEN strayed \ m.ids ELSE strayed
    BY <1>1, <1>7
  <2>4. LastConfirmedStands'
    BY <1>1, <1>2, <2>2, <2>3 DEF LastConfirmedStands
  <2>5. ASSUME NEW q \in Proc, lockPc[q] = "holding", NEW i \in nodes[q] \ strayed'
        PROVE  zone'[i] = IF Unconfirmed(q)' THEN call[q] ELSE confirmed[i]
    <3>1. i \in Id /\ (i \notin strayed =>
            zone[i] = IF Unconfirmed(q) THEN call[q] ELSE confirmed[i])
      BY <2>5 DEF HeldNodes, CallerTypes
    <3>2. CASE q = p
      <4>1. ~Unconfirmed(p)
        <5> SUFFICES ASSUME NEW n \in copies, n.call = call[p], n.at = "answered" PROVE FALSE
          BY DEF Unconfirmed
        <5>1. GoodCopy(n) /\ n # m
          BY <1>2 DEF CopiesOfCalls
        <5>2. Awaited(n)
          BY <5>1 DEF GoodCopy
        <5>3. n.via = pc[p]
          BY <2>1, <2>2, <5>2 DEF Awaited, Callers
        <5> QED BY <2>1, <5>1, <5>3 DEF GoodCopy
      <4>2. Unconfirmed(p)' <=> ok
        BY <1>1, <1>2, <1>7, <2>1, <4>1 DEF Unconfirmed
      <4> QED BY <1>1, <2>1, <2>2, <2>5, <2>3, <3>1, <3>2, <4>1, <4>2
    <3>3. CASE q # p
      <4>1. i \notin m.ids /\ call[q] # m.call
        BY <2>1, <2>2, <2>5, <3>3 DEF Callers, IInv, Exclusive
      <4>2. Unconfirmed(q)' <=> Unconfirmed(q)
        BY <1>1, <1>2, <4>1 DEF Unconfirmed
      <4>3. i \notin strayed
        BY <2>5, <2>3, <4>1
      <4> QED BY <1>1, <3>1, <4>1, <4>2, <4>3, Zenon
    <3> QED BY <3>2, <3>3
  <2>6. HeldNodes'
    BY <1>2, <2>5 DEF HeldNodes
  <2> QED BY <1>3, <1>5, <2>4, <2>6
<1> QED BY <1>6, <1>7

\* Every step of a caller, a server or the network keeps the inductive invariant.
LEMMA CallStepPreserves == CallIInv /\ [CoordinatorNext]_vars => CallIInv'
<1> SUFFICES ASSUME CallIInv, [CoordinatorNext]_vars PROVE CallIInv'
  OBVIOUS
<1>1. IInv'
  BY LockSteps, StepPreserves DEF CallIInv
<1>2. ASSUME NEW p \in Proc, CallStep(p) PROVE CallIInv'
  BY <1>1, <1>2, LockPreserves, EarlyReturnPreserves, ResolvePreserves, TakeSlotPreserves,
     AnsweredPreserves, UDPFailsPreserves, TCPFailsPreserves, Zenon DEF CallStep
<1>3. ASSUME NEW p \in Proc, ContextEnds(p) \/ GiveUpLocking(p) PROVE CallIInv'
  BY <1>1, <1>3, GiveUpPreserves
<1>4. ASSUME NEW p \in Proc, NEW ids \in SUBSET Id, Begin(p, ids) PROVE CallIInv'
  BY <1>1, <1>4, BeginPreserves
<1>5. ASSUME NEW m \in copies, Arrive(m) \/ Serve(m) \/ Vanish(m) PROVE CallIInv'
  BY <1>1, <1>5, NetworkPreserves, ServePreserves
<1>6. CASE UNCHANGED vars
  BY <1>1, <1>6, WaitingPreserves, Zenon DEF vars, lockVars
<1> QED BY <1>2, <1>3, <1>4, <1>5, <1>6, Zenon DEF CoordinatorNext, Deliver

---------------------------------------------------------------------------
(* Theorems.                                                                *)


\* The inductive invariant holds in every run of the coordinator.
THEOREM CallInvariance == CoordinatorSpec => []CallIInv
  BY CallInitEstablishes, CallStepPreserves, PTL DEF CoordinatorSpec

\* The zone holds the last confirmed UPDATE of every node nobody is changing, except where
\* the last change came from a copy whose answer nobody read (the callers keep their locks
\* for the round trip).
THEOREM ConfirmedStands == CoordinatorSpec => []LastConfirmedStands
<1>1. CallIInv => LastConfirmedStands
  BY DEF CallIInv
<1> QED BY <1>1, CallInvariance, PTL

\* The coordinator's callers, with all they do between lock and unlock, run the lock
\* table's own protocol.
LEMMA CallersUseTable == CoordinatorSpec => Spec
<1>1. Init => NodeLocksInit
  BY DEF Init
<1>2. CallIInv => CallerTypes
  BY DEF CallIInv
<1> QED BY <1>1, <1>2, LockSteps, CallInvariance, PTL DEF CoordinatorSpec, Spec

\* So the locks are exclusive and no wake-up is lost in the composed system ...
THEOREM LocksHoldForCallers == CoordinatorSpec => []IInv
  BY CallersUseTable, Invariance, PTL

\* ... and the composed system implements the abstract lock table.
THEOREM CallersRefineLockTable == CoordinatorSpec => ImplementsLockTable
  BY CallersUseTable, Refinement, PTL

---------------------------------------------------------------------------
(* The limit of UPDATEs in flight (inflight.go).                            *)

\* No server has more slots taken than the limit allows.
SlotsBounded ==
  limit > 0 =>
    \A s \in Server : IsFiniteSet(slots[s]) /\ Cardinality(slots[s]) <= limit

\* The limit is set once, when the coordinator is built.
LEMMA LimitIsFixed == [CoordinatorNext]_vars => limit' = limit
<1>1. ASSUME NEW p \in Proc, CallStep(p) PROVE limit' = limit
  BY <1>1, Zenon DEF CallStep, Lock, NothingToSend, Resolve, TakeSlot, SlotDeadline, Answered,
       UDPFails, TCPFails
<1>2. ASSUME NEW p \in Proc, NEW ids \in SUBSET Id,
             ContextEnds(p) \/ GiveUpLocking(p) \/ Begin(p, ids)
      PROVE  limit' = limit
  BY <1>2, Zenon DEF ContextEnds, GiveUpLocking, Begin
<1>3. ASSUME NEW m \in copies, Arrive(m) \/ Serve(m) \/ Vanish(m) PROVE limit' = limit
  BY <1>3, Zenon DEF Arrive, Serve, Vanish
<1>4. {} \in SUBSET Id
  OBVIOUS
<1> QED BY <1>1, <1>2, <1>3, <1>4, Zenon DEF CoordinatorNext, Deliver, vars

\* acquire takes a slot only where one is left, and release only gives back.
LEMMA SlotsStayBounded ==
  ASSUME CallIInv, SlotsBounded, [CoordinatorNext]_vars
  PROVE  SlotsBounded'
<1> USE CoordinatorAssumption
<1>1. limit' = limit /\ limit \in Nat
  BY LimitIsFixed DEF CallIInv, CallerTypes
<1> SUFFICES ASSUME limit > 0, NEW s \in Server
             PROVE  IsFiniteSet(slots'[s]) /\ Cardinality(slots'[s]) <= limit
  BY <1>1 DEF SlotsBounded
<1>2. IsFiniteSet(slots[s]) /\ Cardinality(slots[s]) <= limit
  BY DEF SlotsBounded
<1>3. Cardinality(slots[s]) \in Nat
  BY <1>2, FS_CardinalityType
<1>4. ASSUME NEW p \in Proc, TakeSlot(p)
      PROVE  IsFiniteSet(slots'[s]) /\ Cardinality(slots'[s]) <= limit
  <2>1. Cardinality(slots[server[p]]) < limit
    BY <1>4 DEF TakeSlot
  <2>2. /\ IsFiniteSet(slots[s] \cup {p})
        /\ \/ Cardinality(slots[s] \cup {p}) = Cardinality(slots[s])
           \/ Cardinality(slots[s] \cup {p}) = Cardinality(slots[s]) + 1
    BY <1>2, FS_AddElement
  <2>3. slots'[s] = IF s = server[p] THEN slots[s] \cup {p} ELSE slots[s]
    BY <1>4, TakeSlotEffect
  <2>4. CASE s = server[p]
    BY <1>3, <1>1, <2>1, <2>2, <2>3, <2>4, SMT
  <2>5. CASE s # server[p]
    BY <1>2, <2>3, <2>5
  <2> QED BY <2>4, <2>5
<1>5. ASSUME slots'[s] \subseteq slots[s]
      PROVE  IsFiniteSet(slots'[s]) /\ Cardinality(slots'[s]) <= limit
  <2>1. IsFiniteSet(slots'[s]) /\ Cardinality(slots'[s]) <= Cardinality(slots[s])
    BY <1>2, <1>5, FS_Subset
  <2>2. Cardinality(slots'[s]) \in Nat
    BY <2>1, FS_CardinalityType
  <2> QED BY <1>2, <1>3, <1>1, <2>1, <2>2, SMT
<1>6. CASE \E p \in Proc : Return(p)
  <2>1. slots'[s] \subseteq slots[s]
    BY <1>6, ReturnEffect
  <2> QED BY <1>5, <2>1
<1>7. CASE UNCHANGED slots
  BY <1>5, <1>7
<1>8. UNCHANGED slots \/ (\E p \in Proc : Return(p) \/ TakeSlot(p))
  <2>1. ASSUME NEW p \in Proc, CallStep(p)
        PROVE  UNCHANGED slots \/ Return(p) \/ TakeSlot(p)
    BY <2>1, Zenon
       DEF CallStep, Lock, NothingToSend, Resolve, SlotDeadline, Answered, UDPFails, TCPFails
  <2>2. ASSUME NEW p \in Proc, NEW ids \in SUBSET Id,
               ContextEnds(p) \/ GiveUpLocking(p) \/ Begin(p, ids)
        PROVE  UNCHANGED slots
    BY <2>2, Zenon DEF ContextEnds, GiveUpLocking, Begin
  <2>3. ASSUME NEW m \in copies, Arrive(m) \/ Serve(m) \/ Vanish(m) PROVE UNCHANGED slots
    BY <2>3, Zenon DEF Arrive, Serve, Vanish
  <2>4. CASE UNCHANGED vars
    BY <2>4, Zenon DEF vars
  <2>5. {} \in SUBSET Id
    OBVIOUS
  <2> QED BY <2>1, <2>2, <2>3, <2>4, <2>5, Zenon DEF CoordinatorNext, Deliver
<1> QED BY <1>4, <1>6, <1>7, <1>8

\* The slots of every server stay within the limit.
LEMMA BoundInvariance == CoordinatorSpec => []SlotsBounded
<1>1. Init => SlotsBounded
  BY CoordinatorAssumption, FS_EmptySet, SMT DEF Init, SlotsBounded
<1>2. CallIInv /\ SlotsBounded /\ [CoordinatorNext]_vars => SlotsBounded'
  BY SlotsStayBounded
<1> QED BY <1>1, <1>2, CallInvariance, PTL DEF CoordinatorSpec

\* No server works on more UPDATEs that this process waits for than the limit allows:
\* each of them is the one copy its caller waits for, and its caller has a slot.
LEMMA LimitFollows ==
  ASSUME CallIInv, SlotsBounded
  PROVE  AwaitedWithinLimit
<1> SUFFICES ASSUME limit > 0, NEW s \in Server
             PROVE  Cardinality({m \in AtWork(s) : Awaited(m)}) <= limit
  BY DEF AwaitedWithinLimit
<1> DEFINE W == {m \in AtWork(s) : Awaited(m)}
           Waits(m, p) == call[p] = m.call /\ pc[p] = m.via
           f == [m \in W |-> CHOOSE p \in Proc : Waits(m, p)]
<1>1. ASSUME NEW m \in W PROVE f[m] \in Proc /\ Waits(m, f[m])
  <2>1. \E p \in Proc : Waits(m, p)
    BY DEF Awaited
  <2> QED BY <2>1
<1>2. ASSUME NEW m \in W PROVE f[m] \in slots[s]
  <2>1. m \in copies /\ m.to = s
    BY DEF AtWork
  <2>2. m.via \in Via
    BY <2>1 DEF CallIInv, CopiesOfCalls, GoodCopy
  <2>3. server[f[m]] = s
    BY <1>1, <2>1, SMT DEF CallIInv, CopiesOfCalls, GoodCopy
  <2> QED BY <1>1, <2>2, <2>3 DEF CallIInv, SlotsKept
<1>3. ASSUME NEW m \in W, NEW n \in W, f[m] = f[n] PROVE m = n
  <2>1. m.call = n.call /\ m.via = n.via
    BY <1>1, <1>3
  <2> QED BY <2>1 DEF AtWork, CallIInv, CopiesOfCalls, GoodCopy
<1>4. f \in Injection(W, slots[s])
  BY <1>2, <1>3 DEF Injection, IsInjective
<1>5. IsFiniteSet(slots[s]) /\ Cardinality(slots[s]) <= limit
  BY DEF SlotsBounded
<1>6. IsFiniteSet(W) /\ Cardinality(W) <= Cardinality(slots[s])
  BY <1>4, <1>5, FS_Injection
<1>7. Cardinality(W) \in Nat /\ Cardinality(slots[s]) \in Nat /\ limit \in Nat
  BY <1>5, <1>6, FS_CardinalityType, CoordinatorAssumption DEF CallIInv, CallerTypes
<1> QED BY <1>5, <1>6, <1>7, CoordinatorAssumption, SMT

\* Calls are well formed and keep to the limit of each server, for any number of callers,
\* servers, calls and timeouts (SendUpdate, inflightLimiter.acquire).
THEOREM CallsWithinLimit == CoordinatorSpec => []CallInv
<1>1. CallIInv => CallTypes
  BY DEF CallIInv, CallerTypes, Callers, CallTypes, Copy, Sending
<1>2. CallIInv /\ SlotsBounded => CallInv
  BY <1>1, LimitFollows DEF CallInv
<1> QED BY <1>2, CallInvariance, BoundInvariance, PTL
===========================================================================
