------------------------ MODULE ServiceEnumeration ------------------------
(***************************************************************************)
(* The records by which a zone's services are found (RFC 6763, sections 9  *)
(* and 11): reconcileServiceEnumeration in handlers/srp_handler.go and the *)
(* diffs of pkg/dnssd/enumeration.go.                                      *)
(*                                                                         *)
(* A run is one call, from a registration, an expiry or the periodic pass. *)
(* It compares the service types in the lease store with those this        *)
(* process last wrote, asks the authoritative server about each type it no *)
(* longer has, and sends what differs.  Runs overlap, leases change under  *)
(* them, and other registrars write to the same zone.                      *)
(***************************************************************************)
EXTENDS Naturals, FiniteSets

CONSTANTS Run,          \* the calls that may be in progress at once
          Type,         \* service types
          Browse,       \* the prefixes b, db and lb
          Registering,  \* the prefixes r and dr
          Advertise,    \* srp_handler.advertise_registration_domain, TRUE or FALSE
          MaxEvents     \* a bound: registrations, expiries, restarts, questions and
                        \* UPDATEs that fail, answers lost, changes by other registrars

VARIABLES live,          \* the types with an unexpired instance in the lease store
          ours,          \* the types with a browsing PTR of this process upstream
          elsewhere,     \* the types with a browsing PTR of another registrar
          theirs,        \* the types that registrar last wrote, its serviceTypes
          listed,        \* the types and prefixes enumerated upstream
          serviceTypes,  \* the types this process last wrote, or keeps for a later check
          domainEnumPresent, \* the prefixes this process last wrote
          pc,            \* where each run is
          current,       \* the types the run read from the store
          previous,      \* the types and prefixes it read as last written
          todo,          \* the types it has still to ask about
          survivors,     \* the types it keeps because someone else has them
          steady,        \* the types others have published ever since it began
          disturbed,     \* what, since the start, may have made the view wrong
          events         \* what is left of MaxEvents

viewVars == <<serviceTypes, domainEnumPresent>>
zoneVars == <<live, ours, elsewhere, theirs, listed>>
runVars == <<pc, current, previous, todo, survivors>>
vars == <<viewVars, zoneVars, runVars, steady, disturbed, events>>

Init ==
  /\ live = {} /\ ours = {} /\ elsewhere = {} /\ theirs = {} /\ listed = {}
  /\ serviceTypes = {} /\ domainEnumPresent = {}
  /\ pc = [r \in Run |-> "idle"]
  /\ current = [r \in Run |-> {}]
  /\ previous = [r \in Run |-> {}]
  /\ todo = [r \in Run |-> {}]
  /\ survivors = [r \in Run |-> {}]
  /\ steady = [r \in Run |-> {}]
  /\ disturbed = {} /\ events = MaxEvents

Spend == events > 0 /\ events' = events - 1

\* Whether a run is between its first read and its return.
Running == \E r \in Run : pc[r] # "idle"

---------------------------------------------------------------------------
(* One run of reconcileServiceEnumeration.                                  *)

\* collectLiveServiceTypes reads the store.
Begin(r) ==
  /\ pc[r] = "idle"
  /\ current' = [current EXCEPT ![r] = live]
  /\ steady' = [steady EXCEPT ![r] = elsewhere]
  /\ pc' = [pc EXCEPT ![r] = "collected"]
  /\ disturbed' = IF Running THEN disturbed \cup {"overlap"} ELSE disturbed
  /\ UNCHANGED <<viewVars, zoneVars, previous, todo, survivors, events>>

\* What was last written is copied under serviceTypesMu.
Copy(r) ==
  /\ pc[r] = "collected"
  /\ previous' = [previous EXCEPT ![r] = serviceTypes \cup domainEnumPresent]
  /\ todo' = [todo EXCEPT ![r] = serviceTypes \ current[r]]
  /\ survivors' = [survivors EXCEPT ![r] = {}]
  /\ pc' = [pc EXCEPT ![r] = "asking"]
  /\ UNCHANGED <<viewVars, zoneVars, current, steady, disturbed, events>>

\* QueryPTRExists at the type's browsing name: a type that is still there is kept.
Ask(r, t) ==
  /\ pc[r] = "asking" /\ t \in todo[r]
  /\ todo' = [todo EXCEPT ![r] = @ \ {t}]
  /\ survivors' = [survivors EXCEPT ![r] = @ \cup ({t} \cap (ours \cup elsewhere))]
  /\ UNCHANGED <<viewVars, zoneVars, pc, current, previous, steady, disturbed, events>>

\* Faulty variant: a question without an answer counts as "no".
AskFailsOpen(r, t) ==
  /\ pc[r] = "asking" /\ t \in todo[r]
  /\ Spend
  /\ todo' = [todo EXCEPT ![r] = @ \ {t}]
  /\ UNCHANGED <<viewVars, zoneVars, pc, current, previous, survivors, steady, disturbed>>

\* The question fails, and the type is kept.
AskFails(r, t) ==
  /\ pc[r] = "asking" /\ t \in todo[r]
  /\ Spend
  /\ todo' = [todo EXCEPT ![r] = @ \ {t}]
  /\ survivors' = [survivors EXCEPT ![r] = @ \cup {t}]
  /\ UNCHANGED <<viewVars, zoneVars, pc, current, previous, steady, disturbed>>

\* The prefixes wanted: b, db and lb while a type is known to be live, r and dr
\* if they are configured.
Wanted(r) ==
  (IF current[r] \cup survivors[r] # {} THEN Browse ELSE {})
  \cup (IF Advertise THEN Registering ELSE {})

\* newState, newDomainEnumPresent.
NewTypes(r) == current[r] \cup survivors[r]

\* DiffEnumerationRecords, DiffSelfPointingDomainRecord.
Adds(r) == (current[r] \ previous[r]) \cup (Wanted(r) \ previous[r])
Deletes(r) == ((previous[r] \cap Type) \ NewTypes(r))
              \cup ((previous[r] \ Type) \ Wanted(r))

\* The call returns, and its variables are gone.
Return(r) ==
  /\ pc' = [pc EXCEPT ![r] = "idle"]
  /\ current' = [current EXCEPT ![r] = {}]
  /\ previous' = [previous EXCEPT ![r] = {}]
  /\ survivors' = [survivors EXCEPT ![r] = {}]
  /\ steady' = [steady EXCEPT ![r] = {}]
  /\ UNCHANGED todo

WriteView(r) ==
  /\ serviceTypes' = NewTypes(r)
  /\ domainEnumPresent' = Wanted(r)
  /\ Return(r)

\* Nothing to send.
NoChange(r) ==
  /\ pc[r] = "asking" /\ todo[r] = {}
  /\ Adds(r) = {} /\ Deletes(r) = {}
  /\ WriteView(r)
  /\ UNCHANGED <<zoneVars, disturbed, events>>

\* The UPDATE is sent and confirmed.
Send(r) ==
  /\ pc[r] = "asking" /\ todo[r] = {}
  /\ Adds(r) \cup Deletes(r) # {}
  /\ listed' = (listed \cup Adds(r)) \ Deletes(r)
  /\ pc' = [pc EXCEPT ![r] = "confirmed"]
  /\ UNCHANGED <<viewVars, live, ours, elsewhere, theirs, current, previous, todo, survivors,
                 steady, disturbed, events>>

\* Faulty variant: the view is written whether or not the UPDATE succeeded.
SendFailsUnnoticed(r) ==
  /\ pc[r] = "asking" /\ todo[r] = {}
  /\ Adds(r) \cup Deletes(r) # {}
  /\ Spend
  /\ WriteView(r)
  /\ UNCHANGED <<zoneVars, disturbed>>

\* The UPDATE is refused: the run returns without writing the view.
SendFails(r) ==
  /\ pc[r] = "asking" /\ todo[r] = {}
  /\ Adds(r) \cup Deletes(r) # {}
  /\ Spend
  /\ Return(r)
  /\ UNCHANGED <<viewVars, zoneVars, disturbed>>

\* The UPDATE is applied, but its answer is lost: the run returns as well.
SendUnanswered(r) ==
  /\ pc[r] = "asking" /\ todo[r] = {}
  /\ Adds(r) \cup Deletes(r) # {}
  /\ Spend /\ disturbed' = disturbed \cup {"lost"}
  /\ listed' = (listed \cup Adds(r)) \ Deletes(r)
  /\ Return(r)
  /\ UNCHANGED <<viewVars, live, ours, elsewhere, theirs>>

\* The view follows, under serviceTypesMu.
Confirmed(r) ==
  /\ pc[r] = "confirmed"
  /\ WriteView(r)
  /\ UNCHANGED <<zoneVars, disturbed, events>>

---------------------------------------------------------------------------
(* What changes around the runs.                                            *)

\* A registration: its UPDATE is confirmed, then the lease store follows.
Publish(t) ==
  /\ t \notin ours /\ Spend
  /\ ours' = ours \cup {t}
  /\ UNCHANGED <<viewVars, live, elsewhere, theirs, listed, runVars, steady, disturbed>>

Record(t) ==
  /\ t \in ours \ live
  /\ live' = live \cup {t}
  /\ UNCHANGED <<viewVars, ours, elsewhere, theirs, listed, runVars, steady, disturbed, events>>

\* The lease of the type's last instance runs out; later its records are deleted.
Lapse(t) ==
  /\ t \in live /\ Spend
  /\ live' = live \ {t}
  /\ UNCHANGED <<viewVars, ours, elsewhere, theirs, listed, runVars, steady, disturbed>>

Withdraw(t) ==
  /\ t \in ours \ live
  /\ ours' = ours \ {t}
  /\ UNCHANGED <<viewVars, live, elsewhere, theirs, listed, runVars, steady, disturbed, events>>

\* The process restarts, with the leases it saved or without: its view is empty.
Restart ==
  /\ Spend
  /\ live' \in {live, {}}
  /\ serviceTypes' = {} /\ domainEnumPresent' = {}
  /\ pc' = [r \in Run |-> "idle"]
  /\ current' = [r \in Run |-> {}] /\ previous' = current'
  /\ todo' = current' /\ survivors' = current' /\ steady' = current'
  /\ disturbed' = {}
  /\ UNCHANGED <<ours, elsewhere, theirs, listed>>

---------------------------------------------------------------------------
(* Another registrar, which runs the same code on a store of its own.  Its  *)
(* calls are one step each: they end before the next begins.                *)

\* It registers a type and adds what it has not written before.
OtherServes(t) ==
  /\ Spend
  /\ elsewhere' = elsewhere \cup {t}
  /\ theirs' = theirs \cup {t}
  /\ listed' = listed \cup ({t} \ theirs) \cup (IF theirs = {} THEN Browse ELSE {})
  /\ UNCHANGED <<viewVars, live, ours, runVars, steady, disturbed>>

\* The last of its instances of a type lapses and its records are deleted.
OtherStops(t) ==
  /\ t \in elsewhere /\ Spend
  /\ elsewhere' = elsewhere \ {t}
  /\ steady' = [r \in Run |-> steady[r] \ {t}]
  /\ UNCHANGED <<viewVars, live, ours, theirs, listed, runVars, disturbed>>

\* Its own reconciliation takes off the types nobody publishes any more and, when none of
\* the types it wrote is left, the prefixes, about which it asks nobody.  This process
\* notices neither.
OtherReconciles ==
  LET gone == theirs \ (elsewhere \cup ours)
      off == gone \cup (IF gone = theirs THEN Browse ELSE {}) IN
  /\ gone # {}
  /\ theirs' = theirs \ gone
  /\ listed' = listed \ off
  /\ disturbed' = IF Running \/ off \cap (serviceTypes \cup domainEnumPresent) # {}
                  THEN disturbed \cup {"other"} ELSE disturbed
  /\ UNCHANGED <<viewVars, live, ours, elsewhere, runVars, steady, events>>

Step(r) ==
  \/ Begin(r) \/ Copy(r) \/ NoChange(r) \/ Send(r) \/ SendFails(r)
  \/ SendUnanswered(r) \/ Confirmed(r)
  \/ \E t \in Type : Ask(r, t) \/ AskFails(r, t)

Next ==
  \/ \E r \in Run : Step(r)
  \/ \E t \in Type : Publish(t) \/ Record(t) \/ Lapse(t) \/ Withdraw(t)
                     \/ OtherServes(t) \/ OtherStops(t)
  \/ OtherReconciles
  \/ Restart

Spec == Init /\ [][Next]_vars

\* The periodic pass calls again and again, and every call comes to its end.
Fairness == \A r \in Run : WF_vars(Step(r))

FairSpec == Spec /\ Fairness

---------------------------------------------------------------------------
(* Properties.                                                              *)

\* A run never takes a type off the list that another registrar has published since
\* before the run began, whatever questions fail and however runs overlap: nothing is
\* deleted on the strength of this process's own view (reconcileServiceEnumeration).
OthersKeepTheirs ==
  [][\A r \in Run : pc[r] = "asking" /\ pc'[r] # pc[r] =>
       (listed \ listed') \cap steady[r] = {}]_vars

\* Everything this process should have on the list is there.
Complete ==
  /\ live \subseteq listed
  /\ live # {} => Browse \subseteq listed
  /\ Advertise => Registering \subseteq listed

\* The list heals: the periodic pass catches whatever a missed call, a failed UPDATE or
\* question or a restart left stale (startLeaseReconciliation).  Not so after runs that
\* overlapped, an answer that was lost, or another registrar's delete of what this process
\* wrote: then it may remember writing what is not there, until it restarts.
SelfHeals == <>[]Complete \/ <>[](disturbed # {})

\* What the documentation promises of the periodic pass, for writes of this process that
\* raced each other: the list heals after them too (reconcileServiceEnumeration).
RacedWritesHeal == <>[]Complete \/ <>[](disturbed \ {"overlap"} # {})
===========================================================================
