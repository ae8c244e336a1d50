--------------------------- MODULE LeaseTimeProofs ---------------------------
(***************************************************************************)
(* Proofs about the times of leases.  First the lease policy, for any      *)
(* durations, policies and requests: what is granted stays in bounds.      *)
(* Then the expiry timers, for any number of lease owners, requests and    *)
(* expiry runs: without the help of the reconciliation pass no lease owner *)
(* is forgotten, and no retry is further away than the maximum backoff.    *)
(***************************************************************************)
EXTENDS LeasePolicy, ExpiryTimers, TLAPS

---------------------------------------------------------------------------
(* The lease policy.                                                        *)

\* A single cut stays within its bounds, and turns no duration into a delete.
LEMMA ClampLeaseWithin ==
  ASSUME NEW l \in Nat \ {0}, NEW min \in Nat, NEW max \in Nat,
         max > 0 => min <= max
  PROVE  /\ ClampLease(l, min, max) \in Nat \ {0}
         /\ Within(ClampLease(l, min, max), min, max)
  BY DEF ClampLease, Raise, Within

\* What clamp makes of an option with LEASE <= KEY-LEASE: validate's conditions
\* make its final check a no-op, so both values stay within their bounds.
LEMMA ClampKeepsOrder ==
  ASSUME NEW p \in Policy, Validate(p), NEW o \in Lease, WellFormed(o)
  PROVE  /\ Clamp(p, o) \in Lease
         /\ WellFormed(Clamp(p, o))
         /\ Within(Clamp(p, o).lease, p.minRR, p.maxRR)
         /\ Within(Clamp(p, o).keyLease, p.minKey, p.maxKey)
         /\ (Clamp(p, o).lease = 0) <=> (o.lease = 0)
         /\ (Clamp(p, o).keyLease = 0) <=> (o.keyLease = 0)
<1> DEFINE L == IF o.lease = 0 THEN 0 ELSE ClampLease(o.lease, p.minRR, p.maxRR)
           K == IF o.keyLease = 0 THEN 0 ELSE ClampLease(o.keyLease, p.minKey, p.maxKey)
<1>1. p.minRR \in Nat /\ p.maxRR \in Nat /\ p.minKey \in Nat /\ p.maxKey \in Nat
  BY DurationAssumption DEF Policy
<1>2. o.lease \in Nat /\ o.keyLease \in Nat
  BY DEF Lease
<1>3. L \in Nat /\ Within(L, p.minRR, p.maxRR) /\ (L = 0 <=> o.lease = 0)
  <2>1. CASE o.lease = 0
    BY <2>1 DEF Within
  <2>2. CASE o.lease # 0
    <3>1. p.maxRR > 0 => p.minRR <= p.maxRR
      BY DEF Validate
    <3>2. /\ ClampLease(o.lease, p.minRR, p.maxRR) \in Nat \ {0}
          /\ Within(ClampLease(o.lease, p.minRR, p.maxRR), p.minRR, p.maxRR)
      BY <1>1, <1>2, <2>2, <3>1, ClampLeaseWithin
    <3> QED BY <2>2, <3>2
  <2> QED BY <2>1, <2>2
<1>4. K \in Nat /\ Within(K, p.minKey, p.maxKey) /\ (K = 0 <=> o.keyLease = 0)
  <2>1. CASE o.keyLease = 0
    BY <2>1 DEF Within
  <2>2. CASE o.keyLease # 0
    <3>1. p.maxKey > 0 => p.minKey <= p.maxKey
      BY DEF Validate
    <3>2. /\ ClampLease(o.keyLease, p.minKey, p.maxKey) \in Nat \ {0}
          /\ Within(ClampLease(o.keyLease, p.minKey, p.maxKey), p.minKey, p.maxKey)
      BY <1>1, <1>2, <2>2, <3>1, ClampLeaseWithin
    <3> QED BY <2>2, <3>2
  <2> QED BY <2>1, <2>2
<1>5. L # 0 /\ K # 0 => L <= K
  <2>1. o.lease # 0 /\ o.keyLease # 0 => o.lease <= o.keyLease
    BY <1>2, ValueAssumption DEF WellFormed
  <2> QED BY <1>1, <1>2, <1>3, <1>4, <2>1 DEF ClampLease, Raise, Validate
<1>6. Clamp(p, o) = [lease |-> L, keyLease |-> K]
  BY <1>3, <1>4, <1>5 DEF Clamp
<1> HIDE DEF L, K
<1>7. Clamp(p, o).lease = L /\ Clamp(p, o).keyLease = K /\ Clamp(p, o) \in Lease
  BY <1>3, <1>4, <1>6 DEF Lease
<1> QED BY <1>3, <1>4, <1>5, <1>7 DEF WellFormed

\* A grant within the bounds, asked for again, passes parseLease and is granted as
\* it is.
LEMMA ClampIdempotent ==
  ASSUME NEW p \in Policy, NEW h \in Handler, NEW g \in Lease, WellFormed(g),
         Within(g.lease, p.minRR, p.maxRR), Within(g.keyLease, p.minKey, p.maxKey)
  PROVE  /\ ~ParseRefuses(p, h, g)
         /\ Parsed(g) = g
         /\ Clamp(p, g) = g
<1>1. p.minRR \in Nat /\ p.maxRR \in Nat /\ p.minKey \in Nat /\ p.maxKey \in Nat
  BY DurationAssumption DEF Policy
<1>2. g.lease \in Nat /\ g.keyLease \in Nat /\ g.keyLease # Absent
  BY ValueAssumption DEF Lease
<1>3. g = [lease |-> g.lease, keyLease |-> g.keyLease]
  BY DEF Lease
<1>4. Parsed(g) = g
  BY <1>2, <1>3 DEF Parsed
<1>5. ~ParseRefuses(p, h, g)
  BY <1>1, <1>2 DEF ParseRefuses, Below, Within
<1>6. g.lease # 0 => ClampLease(g.lease, p.minRR, p.maxRR) = g.lease
  BY <1>1, <1>2 DEF ClampLease, Raise, Within
<1>7. g.keyLease # 0 => ClampLease(g.keyLease, p.minKey, p.maxKey) = g.keyLease
  BY <1>1, <1>2 DEF ClampLease, Raise, Within
<1>8. g.lease # 0 /\ g.keyLease # 0 => ~(g.lease > g.keyLease)
  BY <1>2 DEF WellFormed
<1> QED BY <1>3, <1>4, <1>5, <1>6, <1>7, <1>8 DEF Clamp

\* Asking and refreshing keep the invariant, whatever the option.
LEMMA PolicyKept == PolicyInv /\ [PolicyNext]_policyVars => PolicyInv'
<1> SUFFICES ASSUME PolicyInv, [PolicyNext]_policyVars PROVE PolicyInv'
  OBVIOUS
<1> USE DEF PolicyInv
<1>1. ASSUME NEW o \in [lease : Nat, keyLease : Nat \cup {Absent}], Answer(o)
      PROVE  PolicyInv'
  <2> DEFINE g == Clamp(policy, Parsed(o))
  <2>1. policy' = policy /\ handler' = handler /\ asked' = o
    BY <1>1 DEF Answer
  <2>2. CASE ParseRefuses(policy, handler, o)
    BY <1>1, <2>1, <2>2
       DEF Answer, PolicyTypes, GrantsInBounds, ClientLearnsGrant, SameCase
  <2>3. CASE ~ParseRefuses(policy, handler, o)
    <3>1. Parsed(o) \in Lease /\ WellFormed(Parsed(o))
      BY <2>3, ValueAssumption DEF ParseRefuses, Parsed, Lease, WellFormed
    <3>2. /\ g \in Lease /\ WellFormed(g)
          /\ Within(g.lease, policy.minRR, policy.maxRR)
          /\ Within(g.keyLease, policy.minKey, policy.maxKey)
          /\ (g.lease = 0) <=> (Parsed(o).lease = 0)
          /\ (g.keyLease = 0) <=> (Parsed(o).keyLease = 0)
      BY <3>1, ClampKeepsOrder DEF PolicyTypes
    <3> HIDE DEF g
    <3>3. granted' = g /\ learned' = g
      BY <1>1, <2>3, <3>2 DEF Answer, Effective, g
    <3>4. g.lease # 0 /\ g.keyLease # 0 => g.lease <= g.keyLease
      BY <3>2, ValueAssumption DEF WellFormed, Lease
    <3>5. PolicyTypes'
      BY <2>1, <3>2, <3>3 DEF PolicyTypes
    <3>6. GrantsInBounds' /\ ClientLearnsGrant'
      BY <2>1, <3>2, <3>3, <3>4 DEF GrantsInBounds, ClientLearnsGrant
    <3>7. SameCase'
      BY <2>1, <3>2, <3>3 DEF SameCase
    <3> QED BY <2>1, <3>5, <3>6, <3>7
  <2> QED BY <2>2, <2>3
<1>2. ASSUME NEW o \in Option, Ask(o) PROVE PolicyInv'
  BY <1>1, <1>2, DurationAssumption DEF Ask, Option
<1>3. ASSUME Refresh PROVE PolicyInv'
  <2>1. learned \in [lease : Nat, keyLease : Nat \cup {Absent}]
    BY <1>3 DEF Refresh, PolicyTypes, Lease
  <2> QED BY <1>1, <1>3, <2>1 DEF Refresh
<1>4. CASE UNCHANGED policyVars
  BY <1>4 DEF policyVars, PolicyTypes, GrantsInBounds, ClientLearnsGrant, SameCase
<1> QED BY <1>2, <1>3, <1>4 DEF PolicyNext

\* The invariant holds in every reachable state.
THEOREM PolicyInvariance == PolicySpec => []PolicyInv
<1>1. PolicyInit => PolicyInv
  BY DEF PolicyInit, PolicyInv, PolicyTypes, GrantsInBounds, ClientLearnsGrant, SameCase
<1> QED BY <1>1, PolicyKept, PTL DEF PolicySpec

\* Requests and grants stay pairs of durations.
THEOREM PolicyTyped == PolicySpec => []PolicyTypes
<1>1. PolicyInv => PolicyTypes
  BY DEF PolicyInv
<1> QED BY <1>1, PolicyInvariance, PTL

\* Under a policy validate accepts, no grant of either handler leaves its bounds or
\* has LEASE above KEY-LEASE.
THEOREM PolicyConsistent == PolicySpec => []GrantsInBounds
<1>1. PolicyInv => GrantsInBounds
  BY DEF PolicyInv
<1> QED BY <1>1, PolicyInvariance, PTL

\* The client always counts on the leases that were applied.
THEOREM ClientKnows == PolicySpec => []ClientLearnsGrant
<1>1. PolicyInv => ClientLearnsGrant
  BY DEF PolicyInv
<1> QED BY <1>1, PolicyInvariance, PTL

\* Clamping never moves a request to another case of the matrix.
THEOREM CaseKept == PolicySpec => []SameCase
<1>1. PolicyInv => SameCase
  BY DEF PolicyInv
<1> QED BY <1>1, PolicyInvariance, PTL

\* A refresh with the granted leases is granted them again.
THEOREM RefreshStable == PolicySpec => RefreshKeepsGrant
<1>1. PolicyInv /\ [PolicyNext]_policyVars => [Refresh => granted' = granted]_policyVars
  <2> SUFFICES ASSUME PolicyInv, Refresh PROVE granted' = granted
    OBVIOUS
  <2>1. learned = granted /\ granted # Refused /\ granted \in Lease
    BY DEF PolicyInv, ClientLearnsGrant, Refresh, PolicyTypes
  <2>2. WellFormed(granted)
    BY <2>1 DEF PolicyInv, GrantsInBounds, WellFormed
  <2>3. /\ ~ParseRefuses(policy, handler, granted)
        /\ Clamp(policy, Parsed(granted)) = granted
    BY <2>1, <2>2, ClampIdempotent DEF PolicyInv, PolicyTypes, GrantsInBounds
  <2> QED BY <2>1, <2>3 DEF Refresh, Answer
<1> QED BY <1>1, PolicyInvariance, PTL DEF PolicySpec, RefreshKeepsGrant

---------------------------------------------------------------------------
(* The expiry timers.                                                       *)

Operation == Slot \cup Runs

\* An operation past its lock holds it, and what it read under it still stands.
LockHeld ==
  \A p \in Operation :
    /\ pc[p] # "idle" => node[p] \in Owner
    /\ pc[p] \in {"changing", "deleting", "sending", "complete", "arming"} => lock[node[p]] = p
    /\ pc[p] = "arming" => seen[p] = event[node[p]]

\* Operation p is to arm the timer of node k, or to end its leases, before it ends.
WillArm(p, k) ==
  /\ node[p] = k
  /\ pc[p] \in {"deleting", "fired", "contended", "sending", "complete", "arming"}

\* The timer of node k fires in time.
InTime(k) == timers[k] \in Nat /\ timers[k] <= Later(event[k], now + MaxRetry)

\* A lease owner has a timer that fires in time or an operation that will arm it.
Covered ==
  ~helped => \A k \in Owner : event[k] # None =>
    InTime(k) \/ \E p \in Operation : WillArm(p, k)

\* The pass arms only owners.
PassOnNode == pc[Pass] = "arming" => node[Pass] \in Owner

\* The inductive invariant of the table (expiryTimers, leaseExpirer).
IInv == TypeOK /\ LockHeld /\ Covered /\ PassOnNode
---------------------------------------------------------------------------
(* Proofs.                                                                  *)

\* A retry is never further away than the maximum backoff, however many attempts have
\* failed (expiryRetryDelay).
LEMMA RetryDelayBounded ==
  ASSUME NEW failed
  PROVE  expiryRetryDelay(failed) \in Nat /\ expiryRetryDelay(failed) <= MaxRetry
  BY TimerAssumption DEF expiryRetryDelay

\* The proxy starts without leases, timers and operations.
LEMMA InitEstablishes == Init => IInv
  BY TimerAssumption
     DEF Init, IInv, TypeOK, Instant, Operation, Proc, LockHeld, Covered, PassOnNode

\* Every step of a request, an expiry run, the reconciliation pass, the clock or a restart
\* keeps the inductive invariant.
LEMMA StepPreserves == IInv /\ [Next]_vars => IInv'
<1> SUFFICES ASSUME IInv, [Next]_vars PROVE IInv'
  OBVIOUS
<1> USE TimerAssumption DEF IInv, Operation
<1>1. ASSUME NEW p \in Slot, Request(p) PROVE IInv'
  <2>1. TypeOK'
    BY <1>1 DEF Request, Free, Take, Goto, TypeOK, Instant, Later, Proc,
       LockHeld, PassOnNode
  <2>2. LockHeld'
    BY <1>1 DEF Request, Free, Take, Goto, TypeOK, Instant, LockHeld, Proc
  <2>3. Covered'
    BY <1>1 DEF Request, Free, Take, Goto, TypeOK, Instant, LockHeld, Covered,
       InTime, WillArm, Later, Proc
  <2>4. PassOnNode'
    BY <1>1 DEF Request, Free, Take, Goto, TypeOK, PassOnNode, Proc
  <2> QED BY <2>1, <2>2, <2>3, <2>4
<1>2. ASSUME NEW p \in Slot, Change(p) PROVE IInv'
  <2>1. TypeOK'
    BY <1>2 DEF Change, Goto, TypeOK, Instant, Later, Proc, LockHeld,
       PassOnNode
  <2>2. LockHeld'
    BY <1>2 DEF Change, Goto, TypeOK, Instant, LockHeld, Proc
  <2>3. Covered'
    BY <1>2 DEF Change, Goto, TypeOK, Instant, LockHeld, Covered, InTime,
       WillArm, Later, Proc
  <2>4. PassOnNode'
    BY <1>2 DEF Change, Goto, TypeOK, PassOnNode, Proc
  <2> QED BY <2>1, <2>2, <2>3, <2>4
<1>3. ASSUME NEW p \in Slot, DeleteKey(p) PROVE IInv'
  <2>1. TypeOK'
    BY <1>3 DEF DeleteKey, disarm, Goto, TypeOK, Instant, Later, Proc, LockHeld,
       PassOnNode
  <2>2. LockHeld'
    BY <1>3 DEF DeleteKey, disarm, Goto, TypeOK, Instant, LockHeld, Proc
  <2>3. Covered'
    BY <1>3 DEF DeleteKey, disarm, Goto, TypeOK, Instant, LockHeld, Covered,
       InTime, WillArm, Later, Proc
  <2>4. PassOnNode'
    BY <1>3 DEF DeleteKey, disarm, Goto, TypeOK, PassOnNode, Proc
  <2> QED BY <2>1, <2>2, <2>3, <2>4
<1>20. ASSUME NEW p \in Slot, Deleted(p) PROVE IInv'
  <2>1. TypeOK'
    BY <1>20 DEF Deleted, GiveBack, Done, Goto, TypeOK, Instant, Later, Proc,
       LockHeld, PassOnNode
  <2>2. LockHeld'
    BY <1>20 DEF Deleted, GiveBack, Done, Goto, TypeOK, Instant, LockHeld, Proc
  <2>3. Covered'
    BY <1>20 DEF Deleted, GiveBack, Done, Goto, TypeOK, Instant, LockHeld,
       Covered, InTime, WillArm, Later, Proc
  <2>4. PassOnNode'
    BY <1>20 DEF Deleted, GiveBack, Done, Goto, TypeOK, PassOnNode, Proc
  <2> QED BY <2>1, <2>2, <2>3, <2>4
<1>4. ASSUME NEW p \in Slot, DeleteRecords(p) PROVE IInv'
  <2>1. TypeOK'
    BY <1>4 DEF DeleteRecords, GiveBack, Done, Goto, TypeOK, Instant, Later,
       Proc, LockHeld, PassOnNode
  <2>2. LockHeld'
    BY <1>4 DEF DeleteRecords, GiveBack, Done, Goto, TypeOK, Instant, LockHeld,
       Proc
  <2>3. Covered'
    BY <1>4 DEF DeleteRecords, GiveBack, Done, Goto, TypeOK, Instant, LockHeld,
       Covered, InTime, WillArm, Later, Proc
  <2>4. PassOnNode'
    BY <1>4 DEF DeleteRecords, GiveBack, Done, Goto, TypeOK, PassOnNode, Proc
  <2> QED BY <2>1, <2>2, <2>3, <2>4
<1>5. ASSUME NEW p \in Slot, Refuse(p) PROVE IInv'
  <2>1. TypeOK'
    BY <1>5 DEF Refuse, GiveBack, Done, Goto, TypeOK, Instant, Later, Proc,
       LockHeld, PassOnNode
  <2>2. LockHeld'
    BY <1>5 DEF Refuse, GiveBack, Done, Goto, TypeOK, Instant, LockHeld, Proc
  <2>3. Covered'
    BY <1>5 DEF Refuse, GiveBack, Done, Goto, TypeOK, Instant, LockHeld,
       Covered, InTime, WillArm, Later, Proc
  <2>4. PassOnNode'
    BY <1>5 DEF Refuse, GiveBack, Done, Goto, TypeOK, PassOnNode, Proc
  <2> QED BY <2>1, <2>2, <2>3, <2>4
<1>6. ASSUME NEW p \in Operation, Arm(p) PROVE IInv'
  <2>1. TypeOK'
    BY <1>6 DEF Arm, ArmFor, armLocked, disarm, GiveBack, Done, Goto, TypeOK,
       Instant, Later, Proc, LockHeld, PassOnNode
  <2>2. LockHeld'
    BY <1>6 DEF Arm, ArmFor, armLocked, disarm, GiveBack, Done, Goto, TypeOK,
       Instant, LockHeld, Proc
  <2>3. Covered'
    BY <1>6 DEF Arm, ArmFor, armLocked, disarm, GiveBack, Done, Goto, TypeOK,
       Instant, LockHeld, Covered, InTime, WillArm, Later, Proc
  <2>4. PassOnNode'
    BY <1>6 DEF Arm, ArmFor, armLocked, disarm, GiveBack, Done, Goto, TypeOK,
       PassOnNode, Proc
  <2> QED BY <2>1, <2>2, <2>3, <2>4
<1>7. ASSUME NEW p \in Runs, Fire(p) PROVE IInv'
  <2>1. TypeOK'
    BY <1>7 DEF Fire, Goto, TypeOK, Instant, Later, Proc, LockHeld, PassOnNode
  <2>2. LockHeld'
    BY <1>7 DEF Fire, Goto, TypeOK, Instant, LockHeld, Proc
  <2>3. Covered'
    BY <1>7 DEF Fire, Goto, TypeOK, Instant, LockHeld, Covered, InTime,
       WillArm, Later, Proc
  <2>4. PassOnNode'
    BY <1>7 DEF Fire, Goto, TypeOK, PassOnNode, Proc
  <2> QED BY <2>1, <2>2, <2>3, <2>4
<1>8. ASSUME NEW p \in Runs, TryAcquire(p) PROVE IInv'
  <2>1. TypeOK'
    BY <1>8 DEF TryAcquire, Free, Take, Goto, TypeOK, Instant, Later, Proc,
       LockHeld, PassOnNode
  <2>2. LockHeld'
    BY <1>8 DEF TryAcquire, Free, Take, Goto, TypeOK, Instant, LockHeld, Proc
  <2>3. Covered'
    BY <1>8 DEF TryAcquire, Free, Take, Goto, TypeOK, Instant, LockHeld,
       Covered, InTime, WillArm, Later, Proc
  <2>4. PassOnNode'
    BY <1>8 DEF TryAcquire, Free, Take, Goto, TypeOK, PassOnNode, Proc
  <2> QED BY <2>1, <2>2, <2>3, <2>4
<1>9. ASSUME NEW p \in Runs, Contended(p) PROVE IInv'
  <2>1. TypeOK'
    BY RetryDelayBounded, <1>9 DEF Contended, FinishFailed, armLocked, Counted,
       Done, Goto, TypeOK, Instant, Later, Proc, LockHeld, PassOnNode
  <2>2. LockHeld'
    BY <1>9 DEF Contended, FinishFailed, armLocked, Counted, Done, Goto,
       TypeOK, Instant, LockHeld, Proc
  <2>3. Covered'
    BY RetryDelayBounded, <1>9 DEF Contended, FinishFailed, armLocked, Counted,
       Done, Goto, TypeOK, Instant, LockHeld, Covered, InTime, WillArm, Later,
       Proc
  <2>4. PassOnNode'
    BY <1>9 DEF Contended, FinishFailed, armLocked, Counted, Done, Goto,
       TypeOK, PassOnNode, Proc
  <2> QED BY <2>1, <2>2, <2>3, <2>4
<1>10. ASSUME NEW p \in Runs, Confirmed(p) PROVE IInv'
  <2>1. TypeOK'
    BY <1>10 DEF Confirmed, Goto, TypeOK, Instant, Later, Proc, LockHeld,
       PassOnNode
  <2>2. LockHeld'
    BY <1>10 DEF Confirmed, Goto, TypeOK, Instant, LockHeld, Proc
  <2>3. Covered'
    BY <1>10 DEF Confirmed, Goto, TypeOK, Instant, LockHeld, Covered, InTime,
       WillArm, Later, Proc
  <2>4. PassOnNode'
    BY <1>10 DEF Confirmed, Goto, TypeOK, PassOnNode, Proc
  <2> QED BY <2>1, <2>2, <2>3, <2>4
<1>11. ASSUME NEW p \in Runs, SendFails(p) PROVE IInv'
  <2>1. TypeOK'
    BY RetryDelayBounded, <1>11 DEF SendFails, FinishFailed, armLocked,
       Counted, GiveBack, Done, Goto, TypeOK, Instant, Later, Proc, LockHeld,
       PassOnNode
  <2>2. LockHeld'
    BY <1>11 DEF SendFails, FinishFailed, armLocked, Counted, GiveBack, Done,
       Goto, TypeOK, Instant, LockHeld, Proc
  <2>3. Covered'
    BY RetryDelayBounded, <1>11 DEF SendFails, FinishFailed, armLocked,
       Counted, GiveBack, Done, Goto, TypeOK, Instant, LockHeld, Covered,
       InTime, WillArm, Later, Proc
  <2>4. PassOnNode'
    BY <1>11 DEF SendFails, FinishFailed, armLocked, Counted, GiveBack, Done,
       Goto, TypeOK, PassOnNode, Proc
  <2> QED BY <2>1, <2>2, <2>3, <2>4
<1>12. ASSUME NEW p \in Runs, Complete(p) PROVE IInv'
  <2>1. TypeOK'
    BY <1>12 DEF Complete, Goto, TypeOK, Instant, Later, Proc, LockHeld,
       PassOnNode
  <2>2. LockHeld'
    BY <1>12 DEF Complete, Goto, TypeOK, Instant, LockHeld, Proc
  <2>3. Covered'
    BY <1>12 DEF Complete, Goto, TypeOK, Instant, LockHeld, Covered, InTime,
       WillArm, Later, Proc
  <2>4. PassOnNode'
    BY <1>12 DEF Complete, Goto, TypeOK, PassOnNode, Proc
  <2> QED BY <2>1, <2>2, <2>3, <2>4
<1>13. ASSUME PassStart PROVE IInv'
  <2>1. TypeOK'
    BY <1>13 DEF PassStart, Goto, TypeOK, Instant, Later, Proc, LockHeld,
       PassOnNode
  <2>2. LockHeld'
    BY <1>13 DEF PassStart, Goto, TypeOK, Instant, LockHeld, Proc
  <2>3. Covered'
    BY <1>13 DEF PassStart, Goto, TypeOK, Instant, LockHeld, Covered, InTime,
       WillArm, Later, Proc
  <2>4. PassOnNode'
    BY <1>13 DEF PassStart, Goto, TypeOK, PassOnNode, Proc
  <2> QED BY <2>1, <2>2, <2>3, <2>4
<1>14. ASSUME PassLook PROVE IInv'
  <2>1. TypeOK'
    BY <1>14 DEF PassLook, Goto, TypeOK, Instant, Later, Proc, LockHeld,
       PassOnNode
  <2>2. LockHeld'
    BY <1>14 DEF PassLook, Goto, TypeOK, Instant, LockHeld, Proc
  <2>3. Covered'
    BY <1>14 DEF PassLook, Goto, TypeOK, Instant, LockHeld, Covered, InTime,
       WillArm, Later, Proc
  <2>4. PassOnNode'
    BY <1>14 DEF PassLook, Goto, TypeOK, PassOnNode, Proc
  <2> QED BY <2>1, <2>2, <2>3, <2>4
<1>15. ASSUME PassArm PROVE IInv'
  <2>1. TypeOK'
    BY <1>15 DEF PassArm, ArmFor, armLocked, disarm, Goto, TypeOK, Instant,
       Later, Proc, LockHeld, PassOnNode
  <2>2. LockHeld'
    BY <1>15 DEF PassArm, ArmFor, armLocked, disarm, Goto, TypeOK, Instant,
       LockHeld, Proc
  <2>3. Covered'
    BY <1>15 DEF PassArm, ArmFor, armLocked, disarm, Goto, TypeOK, Instant,
       LockHeld, Covered, InTime, WillArm, Later, Proc
  <2>4. PassOnNode'
    BY <1>15 DEF PassArm, ArmFor, armLocked, disarm, Goto, TypeOK, PassOnNode,
       Proc
  <2> QED BY <2>1, <2>2, <2>3, <2>4
<1>16. ASSUME PassEnd PROVE IInv'
  <2>1. TypeOK'
    BY <1>16 DEF PassEnd, Done, Goto, TypeOK, Instant, Later, Proc, LockHeld,
       PassOnNode
  <2>2. LockHeld'
    BY <1>16 DEF PassEnd, Done, Goto, TypeOK, Instant, LockHeld, Proc
  <2>3. Covered'
    BY <1>16 DEF PassEnd, Done, Goto, TypeOK, Instant, LockHeld, Covered,
       InTime, WillArm, Later, Proc
  <2>4. PassOnNode'
    BY <1>16 DEF PassEnd, Done, Goto, TypeOK, PassOnNode, Proc
  <2> QED BY <2>1, <2>2, <2>3, <2>4
<1>17. ASSUME Time PROVE IInv'
  <2>1. TypeOK'
    BY <1>17 DEF Time, TypeOK, Instant, Later, Proc, LockHeld, PassOnNode
  <2>2. LockHeld'
    BY <1>17 DEF Time, TypeOK, Instant, LockHeld, Proc
  <2>3. Covered'
    BY <1>17 DEF Time, TypeOK, Instant, LockHeld, Covered, InTime, WillArm,
       Later, Proc
  <2>4. PassOnNode'
    BY <1>17 DEF Time, TypeOK, PassOnNode, Proc
  <2> QED BY <2>1, <2>2, <2>3, <2>4
<1>18. ASSUME Restart PROVE IInv'
  <2>1. TypeOK'
    BY <1>18 DEF Restart, TypeOK, Instant, Later, Proc, LockHeld, PassOnNode
  <2>2. LockHeld'
    BY <1>18 DEF Restart, TypeOK, Instant, LockHeld, Proc
  <2>3. Covered'
    BY <1>18 DEF Restart, TypeOK, Instant, LockHeld, Covered, InTime, WillArm,
       Later, Proc
  <2>4. PassOnNode'
    BY <1>18 DEF Restart, TypeOK, PassOnNode, Proc
  <2> QED BY <2>1, <2>2, <2>3, <2>4
<1>19. CASE UNCHANGED vars
  BY <1>19 DEF vars, TypeOK, LockHeld, Covered, InTime, WillArm, PassOnNode
<1> QED BY <1>1, <1>2, <1>3, <1>4, <1>5, <1>6, <1>7, <1>8, <1>9, <1>10, <1>11,
   <1>12, <1>13, <1>14, <1>15, <1>16, <1>17, <1>18, <1>19, <1>20 DEF Next, Step

\* The inductive invariant holds in every run of the proxy, with any number of lease
\* owners, requests and expiry runs.
THEOREM Invariance == Spec => []IInv
  BY InitEstablishes, StepPreserves, PTL DEF Spec

\* No lease owner is left without a timer that fires for its next event or, at most the
\* maximum backoff away, for a retry (schedule, finish, disarm).
THEOREM OwnersKeepTimers == Spec => []TimerInv
<1>1. IInv => TimerInv
  <2> SUFFICES ASSUME IInv, ~helped, NEW k \in Owner, event[k] # None, Settled(k)
               PROVE  InTime(k)
    BY DEF TimerInv, Prompt, InTime, IInv
  <2>1. ~\E p \in Operation : WillArm(p, k)
    BY DEF Settled, WillArm, Operation, Proc
  <2> QED BY <2>1 DEF IInv, Covered
<1> QED BY <1>1, Invariance, PTL
==============================================================================
