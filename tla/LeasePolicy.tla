--------------------------- MODULE LeasePolicy ---------------------------
(***************************************************************************)
(* How LEASE and KEY-LEASE are negotiated: the Update Lease option of      *)
(* pkg/lease/lease.go, its checks in both handlers, the bounds of          *)
(* handlers/lease_policy.go, and what a client learns from the reply       *)
(* (client/lease_response.go).  A client asks, and may later refresh by    *)
(* asking for what it was granted.                                         *)
(***************************************************************************)
EXTENDS Naturals

CONSTANTS Duration,   \* lease durations in seconds, 32 bits wide in the code
          Absent,     \* the KEY-LEASE of the 4-byte option
          Refused     \* an option that is answered with an error

ASSUME DurationAssumption == Duration \subseteq Nat
ASSUME ValueAssumption == Absent \notin Nat

Policy == [minKey : Duration, maxKey : Duration, minRR : Duration, maxRR : Duration]
Option == [lease : Duration, keyLease : Duration \cup {Absent}]
Handler == {"update", "update4", "srp"}   \* "update4": with prefer_4byte_variant

\* Faulty variant: the bounds are compared per lease only.
ValidateSeparately(p) ==
  /\ p.maxKey > 0 => p.minKey <= p.maxKey
  /\ p.maxRR > 0 => p.minRR <= p.maxRR

\* LeasePolicy.validate; a bound of 0 is no bound.
Validate(p) ==
  /\ p.maxKey > 0 => p.minKey <= p.maxKey
  /\ p.maxRR > 0 => p.minRR <= p.maxRR
  /\ p.minRR <= p.minKey
  /\ p.maxKey > 0 => p.maxRR # 0 /\ p.maxRR <= p.maxKey

\* clampLease
Raise(lease, min) == IF lease < min THEN min ELSE lease
ClampLease(lease, min, max) ==
  IF max > 0 /\ Raise(lease, min) > max THEN max ELSE Raise(lease, min)

\* LeasePolicy.clamp: 0 means "delete" and stays 0.
Clamp(p, o) ==
  LET lease == IF o.lease = 0 THEN 0 ELSE ClampLease(o.lease, p.minRR, p.maxRR)
      keyLease == IF o.keyLease = 0 THEN 0
                  ELSE ClampLease(o.keyLease, p.minKey, p.maxKey)
  IN  [lease |-> IF lease # 0 /\ keyLease # 0 /\ lease > keyLease
                   THEN keyLease ELSE lease,
       keyLease |-> keyLease]

\* LeaseOption.Validate, part of every decode and encode.
WellFormed(o) ==
  o.keyLease # Absent /\ o.keyLease # 0 /\ o.lease # 0 => o.lease <= o.keyLease

\* Faulty variant: the minimum itself is too short.
BelowOrAt(lease, min) == lease # 0 /\ lease <= min

\* A duration that is asked for and below the policy's minimum.
Below(lease, min) == lease # 0 /\ lease < min

\* parseLease of either handler refuses the option.  The 4-byte form needs the RFC
\* 9664 handler's setting, and there even a LEASE of 0 has to reach the minimum.
\* SRP has no minimums here: clamp raises what is too short.
ParseRefuses(p, h, o) ==
  \/ ~WellFormed(o)
  \/ o.keyLease = Absent /\ (h # "update4" \/ o.lease < p.minRR)
  \/ /\ o.keyLease # Absent /\ h # "srp"
     /\ Below(o.lease, p.minRR) \/ Below(o.keyLease, p.minKey)

\* Both values after parsing: the 4-byte form has no KEY-LEASE.
Parsed(o) == [lease |-> o.lease,
              keyLease |-> IF o.keyLease = Absent THEN 0 ELSE o.keyLease]

VARIABLES policy,   \* of a handler that started
          handler,  \* which of the handlers
          asked,    \* the option of the last request
          granted,  \* what the handler applied
          learned   \* what the client reads from the reply

policyVars == <<policy, handler, asked, granted, learned>>

\* A handler whose policy validate rejects does not start (parseLeasePolicy).
PolicyInit ==
  /\ policy \in {p \in Policy : Validate(p)}
  /\ handler \in Handler
  /\ asked = Refused /\ granted = Refused /\ learned = Refused

\* EffectiveLeaseDuration: the reply's option if it could be encoded, else what was
\* asked for (leaseResponse sends no option when Encode fails).
Effective(g, o) == IF WellFormed(g) THEN g ELSE Parsed(o)

Answer(o) ==
  /\ asked' = o
  /\ IF ParseRefuses(policy, handler, o)
       THEN granted' = Refused /\ learned' = Refused
       ELSE LET g == Clamp(policy, Parsed(o))
            IN  granted' = g /\ learned' = Effective(g, o)
  /\ UNCHANGED <<policy, handler>>

Ask(o) == asked = Refused /\ Answer(o)

\* The client renews with what it learned.
Refresh == learned # Refused /\ Answer(learned)

PolicyNext == Refresh \/ \E o \in Option : Ask(o)

PolicySpec == PolicyInit /\ [][PolicyNext]_policyVars

---------------------------------------------------------------------------
Lease == [lease : Nat, keyLease : Nat]

\* Requests and grants are pairs of durations.
PolicyTypes ==
  /\ policy \in Policy /\ handler \in Handler
  /\ granted \in Lease \cup {Refused} /\ learned \in Lease \cup {Refused}

Within(lease, min, max) == lease # 0 => min <= lease /\ (max > 0 => lease <= max)

\* With a policy validate accepts, every grant respects all four bounds, and LEASE
\* never exceeds KEY-LEASE: clamp's two independent cuts do not contradict.
GrantsInBounds ==
  granted # Refused =>
    /\ Within(granted.lease, policy.minRR, policy.maxRR)
    /\ Within(granted.keyLease, policy.minKey, policy.maxKey)
    /\ granted.lease # 0 /\ granted.keyLease # 0 => granted.lease <= granted.keyLease

\* The client counts on the leases the handler applied: the reply could be encoded.
ClientLearnsGrant == learned = granted

\* Clamping changes no request's meaning: a delete stays a delete, and a lease that
\* was asked for is granted (the LEASE / KEY-LEASE matrix is read after clamping).
SameCase ==
  granted # Refused =>
    /\ (granted.lease = 0) <=> (Parsed(asked).lease = 0)
    /\ (granted.keyLease = 0) <=> (Parsed(asked).keyLease = 0)

\* The inductive invariant: the policy is one validate accepts, and what was
\* granted is what clamp makes of some request that was not refused.
PolicyInv ==
  /\ PolicyTypes /\ Validate(policy)
  /\ asked \in [lease : Nat, keyLease : Nat \cup {Absent}] \cup {Refused}
  /\ GrantsInBounds /\ ClientLearnsGrant /\ SameCase

\* A client that refreshes with what it was granted is granted the same again, not
\* refused and not cut further (parseLease's minimums against clamp's bounds).
RefreshKeepsGrant == [][Refresh => granted' = granted]_policyVars
==========================================================================
