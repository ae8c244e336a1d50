---------------------------- MODULE Coordinator ----------------------------
(***************************************************************************)
(* How one proxy's UPDATEs reach the authoritative servers: SendUpdate in  *)
(* pkg/updatecore/coordinator.go, the slots of pkg/updatecore/inflight.go, *)
(* and the callers, which take their nodes' locks (NodeLocks) around it.   *)
(*                                                                         *)
(* One UPDATE may be on the wire twice: the UDP copy whose answer did not  *)
(* come, and the TCP copy sent after it.  A copy nobody waits for any more *)
(* can still reach the server, at any later moment, or be lost.            *)
(*                                                                         *)
(* A zone is reduced to the call whose UPDATE last changed each node.      *)
(***************************************************************************)
EXTENDS NodeLocks, Naturals, FiniteSets

CONSTANTS Server,        \* authoritative servers
          Limits,        \* values of SetMaxInflightUpdates; 0 means no limit
          None,          \* no server, no call
          MaxCalls,      \* bounds: UPDATEs sent,
          MaxRefusals,   \*   UPDATEs a server refuses, or lookups that fail,
          MaxTimeouts    \*   exchanges and waits for a slot that end unanswered

ASSUME CoordinatorAssumption ==
  Limits \subseteq Nat /\ MaxCalls \in Nat /\ None \notin Server \cup Nat

Call == 1..MaxCalls
Via == {"udp", "tcp"}

VARIABLES pc,            \* where each caller is
          nodes,         \* the nodes its UPDATE changes
          server,        \* the server it was resolved to
          call,          \* the number of its UPDATE
          slots,         \* who has a slot of each server
          copies,        \* copies of UPDATEs: on the wire, at work, answered
          zone,          \* which call changed each node last
          confirmed,     \* the last call answered NOERROR to its caller
          strayed,       \* nodes changed last by a copy whose answer nobody reads
          limit,         \* the limit of UPDATEs in flight
          sent, budget   \* UPDATEs so far, and what is left of the bounds

vars == <<lockVars, pc, nodes, server, call, slots, copies, zone, confirmed,
          strayed, limit, sent, budget>>

Init ==
  /\ NodeLocksInit
  /\ pc = [p \in Proc |-> "idle"]
  /\ nodes = [p \in Proc |-> {}]
  /\ server = [p \in Proc |-> None]
  /\ call = [p \in Proc |-> None]
  /\ slots = [s \in Server |-> {}]
  /\ copies = {}
  /\ zone = [i \in Id |-> None]
  /\ confirmed = [i \in Id |-> None]
  /\ strayed = {}
  /\ limit \in Limits
  /\ sent = 0
  /\ budget \in [refusals : 0..MaxRefusals, timeouts : 0..MaxTimeouts]

Goto(p, place) == pc' = [pc EXCEPT ![p] = place]

---------------------------------------------------------------------------
(* The callers.                                                             *)

\* A request comes up and asks for its nodes; the enumeration's UPDATE needs none.
\* An expiry run tries once and is retried later by its timer.
Begin(p, ids) ==
  /\ pc[p] = "idle"
  /\ \/ /\ Acquire(p)
        /\ nodes' = [nodes EXCEPT ![p] = ids] /\ Goto(p, "locking")
     \/ /\ TryAcquire(p, ids)
        /\ nodes' = [nodes EXCEPT ![p] = ids] /\ Goto(p, "holding")
     \/ TryAcquireFails(p, ids) /\ UNCHANGED <<nodes, pc>>
  /\ UNCHANGED <<server, call, slots, copies, zone, confirmed, strayed, limit, sent, budget>>

\* The turns of Acquire's loop.
Lock(p) ==
  /\ pc[p] = "locking"
  /\ \/ AttemptSucceeds(p, nodes[p]) /\ Goto(p, "holding") /\ UNCHANGED nodes
     \/ (AttemptFails(p, nodes[p]) \/ Wake(p)) /\ UNCHANGED <<pc, nodes>>
  /\ UNCHANGED <<server, call, slots, copies, zone, confirmed, strayed, limit, sent, budget>>

\* The request's context ends ...
ContextEnds(p) ==
  /\ pc[p] = "locking"
  /\ ContextDone(p)
  /\ UNCHANGED <<pc, nodes, server, call, slots, copies, zone, confirmed, strayed, limit, sent, budget>>

\* ... and Acquire with it: the request is answered SERVFAIL.
GiveUpLocking(p) ==
  /\ pc[p] = "locking"
  /\ GiveUp(p) /\ Goto(p, "idle")
  /\ nodes' = [nodes EXCEPT ![p] = {}]
  /\ UNCHANGED <<server, call, slots, copies, zone, confirmed, strayed, limit, sent, budget>>

---------------------------------------------------------------------------
(* SendUpdate.                                                              *)

\* Faulty variant: a path that does not give its slot back.
KeepSlot(p) == UNCHANGED slots

\* The deferred release of acquire's slot.
FreeSlot(p) == slots' = [s \in Server |-> slots[s] \ {p}]

\* SendUpdate returns, and the caller unlocks.
Return(p) ==
  /\ FreeSlot(p)
  /\ Release(p)
  /\ Goto(p, "idle")
  /\ nodes' = [nodes EXCEPT ![p] = {}]
  /\ server' = [server EXCEPT ![p] = None]
  /\ call' = [call EXCEPT ![p] = None]

\* The caller's checks fail behind its locks: there is nothing to send.
NothingToSend(p) ==
  /\ pc[p] = "holding"
  /\ Return(p)
  /\ UNCHANGED <<copies, zone, confirmed, strayed, limit, sent, budget>>

\* ResolveSOAMasterServer names the server, or fails, and the UPDATE with it.
Resolve(p) ==
  /\ pc[p] = "holding" /\ sent < MaxCalls
  /\ sent' = sent + 1
  /\ \/ /\ \E s \in Server : server' = [server EXCEPT ![p] = s]
        /\ call' = [call EXCEPT ![p] = sent + 1]
        /\ Goto(p, "acquiring")
        /\ UNCHANGED <<lockVars, nodes, slots, budget>>
     \/ /\ budget.refusals > 0
        /\ budget' = [budget EXCEPT !.refusals = @ - 1]
        /\ Return(p)
  /\ UNCHANGED <<copies, zone, confirmed, strayed, limit>>

\* An answer that was not waited for is dropped.
Unread(p) == {m \in copies : m.call = call[p] /\ m.at = "answered"}

\* The nodes of p's UPDATE, if it is applied and its answer goes unread.
Untold(p) == IF \E m \in Unread(p) : m.ok THEN nodes[p] ELSE {}

Send(p, via) ==
  copies' = (copies \ Unread(p)) \cup {[call |-> call[p], via |-> via, at |-> "wire", ok |-> FALSE,
                          to |-> server[p], ids |-> nodes[p]]}

\* acquire takes one of the server's slots, if there is a limit, and the UDP
\* exchange begins.
TakeSlot(p) ==
  LET s == server[p] IN
  /\ pc[p] = "acquiring"
  /\ limit > 0 => Cardinality(slots[s]) < limit
  /\ slots' = [slots EXCEPT ![s] = IF limit = 0 THEN @ ELSE @ \cup {p}]
  /\ Send(p, "udp")
  /\ Goto(p, "udp")
  /\ UNCHANGED <<lockVars, nodes, server, call, zone, confirmed, strayed, limit, sent, budget>>

\* The context ends while the caller waits for a slot.
SlotDeadline(p) ==
  /\ pc[p] = "acquiring" /\ budget.timeouts > 0
  /\ budget' = [budget EXCEPT !.timeouts = @ - 1]
  /\ Return(p)
  /\ UNCHANGED <<copies, zone, confirmed, strayed, limit, sent>>

\* An exchange ends with the server's answer.
Answered(p) ==
  /\ pc[p] \in Via
  /\ \E m \in copies :
       /\ m.call = call[p] /\ m.via = pc[p] /\ m.at = "answered"
       /\ copies' = copies \ {m}
       /\ confirmed' = [i \in Id |-> IF m.ok /\ i \in nodes[p] THEN call[p]
                                     ELSE confirmed[i]]
  /\ Return(p)
  /\ UNCHANGED <<zone, strayed, limit, sent, budget>>

\* Faulty variant: the slot is given back before the second attempt.
RetryWithoutSlot(p) ==
  /\ pc[p] = "udp" /\ budget.timeouts > 0
  /\ budget' = [budget EXCEPT !.timeouts = @ - 1]
  /\ strayed' = strayed \cup Untold(p)
  /\ FreeSlot(p)
  /\ Send(p, "tcp") /\ Goto(p, "tcp")
  /\ UNCHANGED <<lockVars, nodes, server, call, zone, confirmed, limit, sent>>

\* The UDP exchange fails, by its timeout or the context: the same UPDATE goes
\* out over TCP, in the same slot.
UDPFails(p) ==
  /\ pc[p] = "udp" /\ budget.timeouts > 0
  /\ budget' = [budget EXCEPT !.timeouts = @ - 1]
  /\ strayed' = strayed \cup Untold(p)
  /\ Send(p, "tcp") /\ Goto(p, "tcp")
  /\ UNCHANGED <<lockVars, nodes, server, call, slots, zone, confirmed, limit, sent>>

\* The TCP exchange fails too: SendUpdate returns an error.
TCPFails(p) ==
  /\ pc[p] = "tcp" /\ budget.timeouts > 0
  /\ budget' = [budget EXCEPT !.timeouts = @ - 1]
  /\ strayed' = strayed \cup Untold(p)
  /\ copies' = copies \ Unread(p)
  /\ Return(p)
  /\ UNCHANGED <<zone, confirmed, limit, sent>>

---------------------------------------------------------------------------
(* The servers and the network.                                             *)

\* Somebody still waits for m's answer.
Awaited(m) == \E p \in Proc : call[p] = m.call /\ pc[p] = m.via

Arrive(m) ==
  /\ m.at = "wire"
  /\ copies' = (copies \ {m}) \cup {[m EXCEPT !.at = "work"]}
  /\ UNCHANGED <<lockVars, pc, nodes, server, call, slots, zone, confirmed, strayed, limit, sent, budget>>

\* The server applies the UPDATE whole, or refuses it.  Its answer reaches whoever
\* still waits for it.
Serve(m) ==
  /\ m.at = "work"
  /\ \E ok \in BOOLEAN :
       /\ ~ok => budget.refusals > 0
       /\ budget' = [budget EXCEPT !.refusals = IF ok THEN @ ELSE @ - 1]
       /\ zone' = [i \in Id |-> IF ok /\ i \in m.ids THEN m.call ELSE zone[i]]
       /\ strayed' = IF ~ok THEN strayed ELSE IF Awaited(m) THEN strayed \ m.ids
                     ELSE strayed \cup m.ids
       /\ copies' = (copies \ {m}) \cup
                      {x \in {[m EXCEPT !.at = "answered", !.ok = ok]} : Awaited(m)}
  /\ UNCHANGED <<lockVars, pc, nodes, server, call, slots, confirmed, limit, sent>>

\* A copy that nobody waits for is lost on its way.
Vanish(m) ==
  /\ ~Awaited(m) /\ m.at = "wire"
  /\ copies' = copies \ {m}
  /\ UNCHANGED <<lockVars, pc, nodes, server, call, slots, zone, confirmed, strayed, limit, sent, budget>>

Deliver == \E m \in copies : Arrive(m) \/ Serve(m)

\* What a caller does without the help of a deadline for its locks.
CallStep(p) ==
  \/ Lock(p) \/ NothingToSend(p) \/ Resolve(p) \/ TakeSlot(p) \/ SlotDeadline(p)
  \/ Answered(p) \/ UDPFails(p) \/ TCPFails(p)

CoordinatorNext ==
  \/ \E p \in Proc : CallStep(p) \/ ContextEnds(p) \/ GiveUpLocking(p)
                     \/ \E ids \in SUBSET Id : Begin(p, ids)
  \/ Deliver
  \/ \E m \in copies : Vanish(m)

(***************************************************************************)
(* Fairness.  A runnable goroutine runs, a caller with its locks goes on   *)
(* and releases them, as each defers Release, and servers answer what      *)
(* reaches them; a lost copy is an exchange that ends by its timeout.      *)
(* Deadlines of waiting requests are a condition of their own: a context   *)
(* ends, and when both cases of Acquire's select are ready Go picks one at *)
(* random, so that of the context, ready at every later sleep, is taken in *)
(* the end.                                                                *)
(***************************************************************************)
Fairness == WF_vars(Deliver) /\ \A p \in Proc : WF_vars(CallStep(p))

CoordinatorSpec == Init /\ [][CoordinatorNext]_vars /\ Fairness

Deadlines == \A p \in Proc : WF_vars(ContextEnds(p)) /\ SF_vars(GiveUpLocking(p))

---------------------------------------------------------------------------
(* Properties.                                                              *)

\* The types of the calls, the slots and the copies on their way; who sends has a
\* server, and its locks (Coordinator, inflightLimiter).
CallTypes ==
  /\ pc \in [Proc -> {"idle", "locking", "holding", "acquiring", "udp", "tcp"}]
  /\ \A p \in Proc : pc[p] \in {"holding", "acquiring", "udp", "tcp"} <=> lockPc[p] = "holding"
  /\ nodes \in [Proc -> SUBSET Id] /\ server \in [Proc -> Server \cup {None}]
  /\ call \in [Proc -> Call \cup {None}] /\ slots \in [Server -> SUBSET Proc]
  /\ copies \subseteq [call : Call, via : Via, at : {"wire", "work", "answered"},
                       ok : BOOLEAN, to : Server, ids : SUBSET Id]
  /\ zone \in [Id -> Call \cup {None}] /\ confirmed \in [Id -> Call \cup {None}]
  /\ strayed \subseteq Id /\ limit \in Limits /\ sent \in 0..MaxCalls

AtWork(s) == {m \in copies : m.to = s /\ m.at = "work"}

\* A server works on no more UPDATEs that somebody in this process waits for
\* than the limit allows, both attempts of SendUpdate included.
AwaitedWithinLimit ==
  limit > 0 =>
    \A s \in Server : Cardinality({m \in AtWork(s) : Awaited(m)}) <= limit

\* Calls are well formed, and those under way keep to the limit of each server
\* (SendUpdate, inflightLimiter.acquire).
CallInv == CallTypes /\ AwaitedWithinLimit

\* Because nodes stay locked for the whole round trip, the zone holds the last
\* confirmed UPDATE of every node nobody is changing.  Only where the last change came
\* from a copy whose answer nobody read can they differ, a late duplicate of an older
\* UPDATE included, and the next UPDATE that is applied while its caller waits for it
\* ends that (SendUpdate; opcode5_handle.go, opcode5_lease.go).
LastConfirmedStands ==
  \A i \in Id \ (strayed \cup held) : zone[i] = confirmed[i]

\* Who has its locks gives them back, even if no context ever ends: waiting for a
\* slot never meets waiting for a lock in a circle, and no path keeps a slot
\* (SendUpdate, acquire).
CallsReturn == \A p \in Proc : lockPc[p] = "holding" ~> lockPc[p] # "holding"

\* Every Acquire returns, with its set or with the contention error, however often
\* other callers take the ids it waits for first, if contexts have deadlines.
AcquiresReturn ==
  Deadlines => \A p \in Proc : lockPc[p] = "trying" ~> lockPc[p] \in {"holding", "idle"}

\* No wait for locks lasts forever: a release ends every sleep, deadlines or none, and
\* with deadlines every Acquire returns (NodeLocks.Acquire).
WaitsEnd == SleepEnds /\ AcquiresReturn
===========================================================================
