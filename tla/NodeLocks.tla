---------------------------- MODULE NodeLocks ----------------------------
(***************************************************************************)
(* The lease store's lock table, pkg/lease/nodelock.go.  A lock is an id   *)
(* in "held".  A caller asks for a set of ids, which it computes anew at   *)
(* every attempt (the lockSet callback, run under the table's mutex), and  *)
(* gets all of it or nothing.  TryAcquire gives up on contention; Acquire  *)
(* sleeps on the "released" channel it saw under the mutex and tries again *)
(* once that channel is closed, until its context is done.                 *)
(*                                                                         *)
(* Every critical section of the mutex is one action.  The channel of the  *)
(* code is never reopened: Release closes it and installs a new one.  So   *)
(* all that matters of the channel a sleeper captured is whether it is     *)
(* still the installed one ("open") or has been closed since.              *)
(***************************************************************************)
CONSTANTS Id,    \* lock ids
          Proc   \* callers: requests (Acquire) and expiry runs (TryAcquire)

VARIABLES held,     \* NodeLocks.held
          sets,     \* sets[p]: the ids of the NodeLockSet p has
          lockPc,   \* where p is in the lock protocol
          channel,  \* the state of the released channel p captured
          busy,     \* busy[p]: the held ids p was refused for while it waits
          expired   \* the callers that wait and whose context is done

lockVars == <<held, sets, lockPc, channel, busy, expired>>

NodeLocksInit ==
  /\ held = {}
  /\ sets = [p \in Proc |-> {}]
  /\ lockPc = [p \in Proc |-> "idle"]
  /\ channel = [p \in Proc |-> "none"]
  /\ busy = [p \in Proc |-> {}]
  /\ expired = {}

\* Faulty variant: the ids are taken without looking.
TakeAllUnchecked(p, ids) ==
  /\ held' = held \cup ids
  /\ sets' = [sets EXCEPT ![p] = ids]
  /\ lockPc' = [lockPc EXCEPT ![p] = "holding"]
  /\ busy' = [busy EXCEPT ![p] = {}]

\* tryLocked, the free case: none of ids is held, so all of them are taken.
TakeAll(p, ids) ==
  /\ ids \cap held = {}
  /\ held' = held \cup ids
  /\ sets' = [sets EXCEPT ![p] = ids]
  /\ lockPc' = [lockPc EXCEPT ![p] = "holding"]
  /\ busy' = [busy EXCEPT ![p] = {}]

\* tryLocked, the busy case: the held ones of ids are reported, none is taken.
TakeNone(p, ids) ==
  /\ ids \cap held # {}
  /\ busy' = [busy EXCEPT ![p] = ids \cap held]
  /\ UNCHANGED <<held, sets>>

\* TryAcquire takes ids ...
TryAcquire(p, ids) ==
  /\ lockPc[p] = "idle"
  /\ TakeAll(p, ids)
  /\ UNCHANGED <<channel, expired>>

\* ... or returns an error naming the busy ones, and nothing changes.
TryAcquireFails(p, ids) ==
  /\ lockPc[p] = "idle"
  /\ ids \cap held # {}
  /\ UNCHANGED lockVars

\* Acquire is called with a fresh context.
Acquire(p) ==
  /\ lockPc[p] = "idle"
  /\ lockPc' = [lockPc EXCEPT ![p] = "trying"]
  /\ UNCHANGED <<held, sets, channel, busy, expired>>

\* One turn of Acquire's loop takes the whole set ...
AttemptSucceeds(p, ids) ==
  /\ lockPc[p] = "trying"
  /\ TakeAll(p, ids)
  /\ channel' = [channel EXCEPT ![p] = "none"]
  /\ expired' = expired \ {p}

\* ... or captures the channel, in the same critical section, and sleeps.
AttemptFails(p, ids) ==
  /\ lockPc[p] = "trying"
  /\ TakeNone(p, ids)
  /\ channel' = [channel EXCEPT ![p] = "open"]
  /\ lockPc' = [lockPc EXCEPT ![p] = "waiting"]
  /\ UNCHANGED expired

\* The select's first case: the captured channel has been closed.
Wake(p) ==
  /\ lockPc[p] = "waiting"
  /\ channel[p] = "closed"
  /\ lockPc' = [lockPc EXCEPT ![p] = "trying"]
  /\ UNCHANGED <<held, sets, channel, busy, expired>>

\* Faulty variant: a select without the context's case.
GiveUpNever(p) == lockPc[p] = "none" /\ UNCHANGED lockVars

\* The select's second case: Acquire returns the contention error.
GiveUp(p) ==
  /\ lockPc[p] = "waiting"
  /\ p \in expired
  /\ lockPc' = [lockPc EXCEPT ![p] = "idle"]
  /\ channel' = [channel EXCEPT ![p] = "none"]
  /\ busy' = [busy EXCEPT ![p] = {}]
  /\ expired' = expired \ {p}
  /\ UNCHANGED <<held, sets>>

\* The caller's deadline passes, or its context is cancelled.
ContextDone(p) ==
  /\ lockPc[p] \in {"trying", "waiting"}
  /\ p \notin expired
  /\ expired' = expired \cup {p}
  /\ UNCHANGED <<held, sets, lockPc, channel, busy>>

\* Faulty variant: nobody is told.
ReleaseSilently(p) ==
  /\ lockPc[p] = "holding"
  /\ held' = held \ sets[p]
  /\ sets' = [sets EXCEPT ![p] = {}]
  /\ lockPc' = [lockPc EXCEPT ![p] = "idle"]
  /\ UNCHANGED <<channel, busy, expired>>

\* Release frees the set and wakes every sleeper.
Release(p) ==
  /\ lockPc[p] = "holding"
  /\ held' = held \ sets[p]
  /\ sets' = [sets EXCEPT ![p] = {}]
  /\ lockPc' = [lockPc EXCEPT ![p] = "idle"]
  /\ channel' = [q \in Proc |-> IF channel[q] = "open" THEN "closed"
                                                     ELSE channel[q]]
  /\ UNCHANGED <<busy, expired>>

\* One step of the lock protocol by caller p, whatever ids its callback returns.
Step(p) ==
  \/ Acquire(p) \/ Wake(p) \/ GiveUp(p) \/ ContextDone(p) \/ Release(p)
  \/ \E ids \in SUBSET Id : TryAcquire(p, ids) \/ TryAcquireFails(p, ids)
                         \/ AttemptSucceeds(p, ids) \/ AttemptFails(p, ids)

Next == \E p \in Proc : Step(p)

Spec == NodeLocksInit /\ [][Next]_lockVars

---------------------------------------------------------------------------
\* The variables have the types of their Go counterparts.
TypeOK ==
  /\ held \subseteq Id
  /\ sets \in [Proc -> SUBSET Id]
  /\ lockPc \in [Proc -> {"idle", "trying", "waiting", "holding"}]
  /\ channel \in [Proc -> {"none", "open", "closed"}]
  /\ busy \in [Proc -> SUBSET Id]
  /\ expired \subseteq Proc

\* No id is in two lock sets: two operations on one lease-store node never
\* overlap (nodelock.go:11-14).
Exclusive ==
  \A p, q \in Proc : p # q => sets[p] \cap sets[q] = {}

\* The table holds an id exactly while some caller's set has it: no id stays
\* held after its holder is gone, none is free under its holder.
TableExact == held = UNION {sets[p] : p \in Proc}

\* Nobody sleeps through a release: a caller asleep on the channel that is still
\* installed was refused because of ids that are all held at this very moment,
\* so a Release that will wake it is still to come.
NoLostWakeup ==
  \A p \in Proc : lockPc[p] = "waiting" /\ channel[p] = "open"
                  => busy[p] # {} /\ busy[p] \subseteq held

\* Holding nothing while waiting: what a caller has is empty unless it holds.
HoldersOnly == \A p \in Proc : lockPc[p] # "holding" => sets[p] = {}

\* The inductive invariant behind the properties above.
IInv ==
  /\ TypeOK
  /\ Exclusive
  /\ TableExact
  /\ NoLostWakeup
  /\ HoldersOnly

\* No sleep lasts forever: a sleeping Acquire is woken by a release, even if its
\* deadline never comes.
SleepEnds == \A p \in Proc : lockPc[p] = "waiting" ~> lockPc[p] # "waiting"

\* NodeLocks implements the abstract lock table.
Table == INSTANCE LockTable WITH
           grant <- sets,
           holds <- {p \in Proc : lockPc[p] = "holding"}

\* Every behaviour of the table, its channel and its retries grants whole sets
\* to one caller at a time.
ImplementsLockTable == Table!Spec
==========================================================================
