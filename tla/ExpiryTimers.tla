--------------------------- MODULE ExpiryTimers ---------------------------
(***************************************************************************)
(* The timer table both handlers keep, expiryTimers in                     *)
(* handlers/opcode5_lease.go, and the four kinds of goroutine that use it: *)
(* requests and expiry runs, which hold their node's lock, and the         *)
(* reconciliation pass and the runtime's timers, which hold none.          *)
(*                                                                         *)
(* The store is reduced to what schedule asks of it: the instant of each   *)
(* node's next lease event.  schedule reads it and arms afterwards, under  *)
(* another mutex, so the two are separate steps here.                      *)
(***************************************************************************)
EXTENDS Integers

CONSTANTS Owner,         \* lease owners
          Slot,          \* concurrent requests
          Runs,          \* expiry runs that may be under way at once
          Pass,          \* the goroutine of startLeaseReconciliation
          None,          \* no lease event, nobody, nothing
          Spent,         \* a table entry whose timer has fired
          MaxRetry,      \* maxExpiryRetryDelay
          Horizon,       \* bounds: the latest lease event,
          MaxTime,       \*   the clock,
          MaxFailures,   \*   failures counted in a row,
          MaxRequests,   \*   requests,
          MaxFaults,     \*   UPDATEs that fail,
          MaxRestarts    \*   restarts of the proxy

ASSUME TimerAssumption ==
  /\ MaxRetry \in Nat \ {0} /\ Horizon \in Nat /\ MaxTime \in Nat
  /\ None \notin Nat /\ Spent \notin Nat /\ None # Spent
  /\ Pass \notin Slot \cup Runs /\ None \notin Slot \cup Runs
  /\ MaxFailures \in Nat /\ MaxRetry <= 2 ^ (MaxFailures - 1)

Proc == Slot \cup Runs \cup {Pass}

VARIABLES event,     \* the store: when each node's next lease event is due
          now,       \* the clock
          timers,    \* the table: when each entry's timer is due
          failures,  \* failed attempts in a row
          lock,      \* which operation holds each node's lock
          pc,        \* where each goroutine is
          node,      \* the node it works on
          seen,      \* the lease event it read from the store
          todo,      \* the owners the pass has still to look at
          helped,    \* whether a restart or a pass that armed a timer has happened
          budget     \* what is left of the bounds

vars == <<event, now, timers, failures, lock, pc, node, seen, todo, helped, budget>>

Init ==
  /\ event = [k \in Owner |-> None]
  /\ now = 0
  /\ timers = [k \in Owner |-> None]
  /\ failures = [k \in Owner |-> 0]
  /\ lock = [k \in Owner |-> None]
  /\ pc = [p \in Proc |-> "idle"]
  /\ node = [p \in Proc |-> None]
  /\ seen = [p \in Proc |-> None]
  /\ todo = {}
  /\ helped = FALSE
  /\ budget = [requests |-> MaxRequests, faults |-> MaxFaults, restarts |-> MaxRestarts]

Later(a, b) == IF a > b THEN a ELSE b

---------------------------------------------------------------------------
(* The table.                                                               *)

\* Faulty variant: the loop's bound is the only cap.
UncappedRetryDelay(failed) ==
  LET delay[n \in Nat] == IF n <= 1 THEN 1 ELSE 2 * delay[n - 1]
  IN  delay[failed]

\* expiryRetryDelay: one second, doubled while below the maximum, then cut to it.
expiryRetryDelay(failed) ==
  LET delay[n \in Nat] ==
        IF n <= 1 THEN 1
        ELSE IF delay[n - 1] < MaxRetry THEN 2 * delay[n - 1] ELSE delay[n - 1]
      d == delay[failed]
  IN  IF d \in 1..MaxRetry THEN d ELSE MaxRetry

\* armLocked: replace the node's timer.  Stopping one that fired has no effect.
armLocked(k, due) == timers' = [timers EXCEPT ![k] = due]

\* disarm: stop and forget the timer and the failures.
disarm(k) ==
  /\ timers' = [timers EXCEPT ![k] = None]
  /\ failures' = [failures EXCEPT ![k] = 0]

\* The second half of schedule: arm for the event read before, at the earliest
\* now, or disarm.
ArmFor(k, at) ==
  IF at = None THEN disarm(k)
  ELSE armLocked(k, Later(at, now)) /\ UNCHANGED failures

\* A longer run of failures is like one of MaxFailures: the delay is at its cap.
Counted(n) == IF n < MaxFailures THEN n ELSE MaxFailures

\* Faulty variant: a failed attempt leaves its retry to reconciliation.
GiveUpRetry(k) ==
  /\ failures' = [failures EXCEPT ![k] = Counted(@ + 1)]
  /\ UNCHANGED timers

\* finish(complete = false): count the failure and arm for the retry.
FinishFailed(k) ==
  /\ failures' = [failures EXCEPT ![k] = Counted(@ + 1)]
  /\ armLocked(k, now + expiryRetryDelay(Counted(failures[k] + 1)))

armed(k) == timers[k] # None

Free(k) == lock[k] = None
Take(p, k) == lock' = [lock EXCEPT ![k] = p]
GiveBack(k) == lock' = [lock EXCEPT ![k] = None]
Goto(p, place) == pc' = [pc EXCEPT ![p] = place]

Done(p) ==
  /\ Goto(p, "idle")
  /\ node' = [node EXCEPT ![p] = None]
  /\ seen' = [seen EXCEPT ![p] = None]

---------------------------------------------------------------------------
(* A request: lock, change the node's leases, schedule, unlock.             *)

Request(p) ==
  /\ pc[p] = "idle" /\ budget.requests > 0
  /\ \E k \in Owner : /\ Free(k) /\ Take(p, k)
                      /\ node' = [node EXCEPT ![p] = k]
  /\ Goto(p, "changing")
  /\ budget' = [budget EXCEPT !.requests = @ - 1]
  /\ UNCHANGED <<event, now, timers, failures, seen, todo, helped>>

\* The confirmed change of the store, and the read schedule begins with.
Change(p) ==
  /\ pc[p] = "changing"
  /\ \E at \in (now + 1)..Horizon :
       /\ event' = [event EXCEPT ![node[p]] = at]
       /\ seen' = [seen EXCEPT ![p] = at]
  /\ Goto(p, "arming")
  /\ UNCHANGED <<now, timers, failures, lock, node, todo, budget, helped>>

\* Case C: the timer of a KEY to be deleted is disarmed first, then the KEY goes from the
\* store.
DeleteKey(p) ==
  /\ pc[p] = "changing"
  /\ disarm(node[p])
  /\ Goto(p, "deleting")
  /\ UNCHANGED <<event, now, lock, node, seen, todo, budget, helped>>

Deleted(p) ==
  /\ pc[p] = "deleting"
  /\ event' = [event EXCEPT ![node[p]] = None]
  /\ GiveBack(node[p])
  /\ Done(p)
  /\ UNCHANGED <<now, timers, failures, todo, budget, helped>>

\* Case C without a KEY: the records named go, and with them perhaps the node's next
\* event.  The timer is left as it is and finds nothing due when it fires.
DeleteRecords(p) ==
  LET k == node[p] IN
  /\ pc[p] = "changing" /\ event[k] # None
  /\ \E at \in {None} \cup event[k]..Horizon : event' = [event EXCEPT ![k] = at]
  /\ GiveBack(k)
  /\ Done(p)
  /\ UNCHANGED <<now, timers, failures, todo, budget, helped>>

\* A request that is refused, or fails upstream, changes nothing.
Refuse(p) ==
  /\ pc[p] = "changing"
  /\ GiveBack(node[p])
  /\ Done(p)
  /\ UNCHANGED <<event, now, timers, failures, todo, budget, helped>>

\* The other half of schedule; the deferred unlock follows.  Requests and
\* complete expiries end this way.
Arm(p) ==
  /\ pc[p] = "arming"
  /\ ArmFor(node[p], seen[p])
  /\ GiveBack(node[p])
  /\ Done(p)
  /\ UNCHANGED <<event, now, todo, budget, helped>>

---------------------------------------------------------------------------
(* An expiry run, leaseExpirer.run and expire.                              *)

\* A timer that is due fires.  When the clock has reached its bound, they all are.
Fire(p) ==
  /\ pc[p] = "idle"
  /\ \E k \in Owner :
       /\ timers[k] \in Nat /\ (timers[k] <= now \/ now = MaxTime)
       /\ timers' = [timers EXCEPT ![k] = Spent]
       /\ node' = [node EXCEPT ![p] = k]
  /\ Goto(p, "fired")
  /\ UNCHANGED <<event, now, failures, lock, seen, todo, budget, helped>>

\* TryAcquire, and the look at what is due.  Without the lock the run does not
\* wait; with nothing due it finishes.
TryAcquire(p) ==
  LET k == node[p] IN
  /\ pc[p] = "fired"
  /\ \/ Free(k) /\ Take(p, k)
        /\ Goto(p, IF event[k] \in Nat /\ event[k] <= now THEN "sending" ELSE "complete")
     \/ ~Free(k) /\ Goto(p, "contended") /\ UNCHANGED lock
  /\ UNCHANGED <<event, now, timers, failures, node, seen, todo, budget, helped>>

Contended(p) ==
  /\ pc[p] = "contended"
  /\ FinishFailed(node[p])
  /\ Done(p)
  /\ UNCHANGED <<event, now, lock, todo, budget, helped>>

\* The UPDATE is confirmed and the due leases are forgotten: the node has a
\* later event or none.
Confirmed(p) ==
  /\ pc[p] = "sending"
  /\ \E at \in {None} \cup (now + 1)..Horizon : event' = [event EXCEPT ![node[p]] = at]
  /\ Goto(p, "complete")
  /\ UNCHANGED <<now, timers, failures, lock, node, seen, todo, budget, helped>>

SendFails(p) ==
  /\ pc[p] = "sending" /\ budget.faults > 0
  /\ FinishFailed(node[p])
  /\ GiveBack(node[p])
  /\ Done(p)
  /\ budget' = [budget EXCEPT !.faults = @ - 1]
  /\ UNCHANGED <<event, now, todo, helped>>

\* finish(complete = true) up to the read of its schedule.
Complete(p) ==
  /\ pc[p] = "complete"
  /\ failures' = [failures EXCEPT ![node[p]] = 0]
  /\ seen' = [seen EXCEPT ![p] = event[node[p]]]
  /\ Goto(p, "arming")
  /\ UNCHANGED <<event, now, timers, lock, node, todo, budget, helped>>

---------------------------------------------------------------------------
(* reconcile: every 30 seconds, without any lock.                           *)

\* ListOwners
PassStart ==
  /\ pc[Pass] = "idle"
  /\ todo' = {k \in Owner : event[k] # None}
  /\ Goto(Pass, "looking")
  /\ UNCHANGED <<event, now, timers, failures, lock, node, seen, budget, helped>>

\* One owner: armed is read, then the lease event.
PassLook ==
  /\ pc[Pass] = "looking"
  /\ \E k \in todo :
       /\ todo' = todo \ {k}
       /\ IF armed(k) THEN UNCHANGED <<pc, node, seen>>
          ELSE /\ node' = [node EXCEPT ![Pass] = k]
               /\ seen' = [seen EXCEPT ![Pass] = event[k]]
               /\ Goto(Pass, "arming")
  /\ UNCHANGED <<event, now, timers, failures, lock, budget, helped>>

PassArm ==
  /\ pc[Pass] = "arming"
  /\ ArmFor(node[Pass], seen[Pass])
  /\ Goto(Pass, "looking")
  /\ seen' = [seen EXCEPT ![Pass] = None]
  /\ helped' = TRUE
  /\ UNCHANGED <<event, now, lock, node, todo, budget>>

PassEnd ==
  /\ pc[Pass] = "looking" /\ todo = {}
  /\ Done(Pass)
  /\ UNCHANGED <<event, now, timers, failures, lock, todo, budget, helped>>

---------------------------------------------------------------------------
(* The environment.                                                         *)

\* A read and the arming it leads to are calls in memory, which take no time:
\* that is why seen may hold an instant where the code has a delay.
Time ==
  /\ now < MaxTime /\ now' = now + 1
  /\ \A p \in Proc : pc[p] # "arming"
  /\ UNCHANGED <<event, timers, failures, lock, pc, node, seen, todo, budget, helped>>

\* The proxy restarts with the leases of its snapshot and no timers.
Restart ==
  /\ budget.restarts > 0
  /\ timers' = [k \in Owner |-> None]
  /\ failures' = [k \in Owner |-> 0]
  /\ lock' = [k \in Owner |-> None]
  /\ pc' = [p \in Proc |-> "idle"]
  /\ node' = [p \in Proc |-> None] /\ seen' = [p \in Proc |-> None]
  /\ todo' = {} /\ helped' = TRUE
  /\ budget' = [budget EXCEPT !.restarts = @ - 1]
  /\ UNCHANGED <<event, now>>

Step(p) ==
  \/ p \in Slot /\ (Request(p) \/ Change(p) \/ DeleteKey(p) \/ Deleted(p) \/ DeleteRecords(p)
                    \/ Refuse(p) \/ Arm(p))
  \/ p \in Runs /\ (Fire(p) \/ TryAcquire(p) \/ Contended(p) \/ Confirmed(p)
                    \/ SendFails(p) \/ Complete(p) \/ Arm(p))
  \/ p = Pass /\ (PassStart \/ PassLook \/ PassArm \/ PassEnd)

Next == Time \/ Restart \/ \E p \in Proc : Step(p)

Spec == Init /\ [][Next]_vars

---------------------------------------------------------------------------
(* Fairness: time passes, due timers fire, goroutines run, round trips end  *)
(* and the ticker ticks.  Requests need not arrive nor UPDATEs fail.        *)

Working(p) == (p \in Slot => pc[p] # "idle") /\ Step(p)

Fairness == WF_vars(Time) /\ \A p \in Proc : WF_vars(Working(p))

FairSpec == Spec /\ Fairness

---------------------------------------------------------------------------
(* Properties.                                                              *)

Instant == Nat \cup {None}

\* The types of the table, the locks and the goroutines (expiryTimers).
TypeOK ==
  /\ event \in [Owner -> Instant] /\ now \in 0..MaxTime
  /\ timers \in [Owner -> Instant \cup {Spent}]
  /\ failures \in [Owner -> Nat]
  /\ lock \in [Owner -> Slot \cup Runs \cup {None}]
  /\ pc \in [Proc -> {"idle", "changing", "deleting", "arming", "fired", "contended", "sending",
                       "complete", "looking"}]
  /\ node \in [Proc -> Owner \cup {None}]
  /\ seen \in [Proc -> Instant] /\ todo \subseteq Owner

\* No operation is between its lock and its unlock, or about to finish, on k.
Settled(k) ==
  /\ Free(k)
  /\ \A p \in Proc : pc[p] # "idle" => node[p] # k

\* A lease owner nobody is working on has a timer that will still fire, for its
\* next lease event or, when that has passed, for a retry at most the maximum
\* backoff away (schedule, finish, disarm).  So it is without the help of any
\* reconciliation pass; one that races a request may arm an older event.
Prompt ==
  ~helped => \A k \in Owner : event[k] # None /\ Settled(k) =>
    timers[k] \in Nat /\ timers[k] <= Later(event[k], now + MaxRetry)

\* The table has its types and forgets no lease owner (expiryTimers).
TimerInv == TypeOK /\ Prompt

Overdue(k) == event[k] \in Nat /\ event[k] <= now

\* Every lease event is worked off, after failed UPDATEs, contention with
\* requests, and restarts that forget all timers (run, finish, reconcile).
EventsEnd == \A k \in Owner : Overdue(k) ~> ~Overdue(k)
====
