---------------------------- MODULE SRPMessage ----------------------------
(***************************************************************************)
(* The form of an SRP UPDATE (RFC 9665, sections 3.2 and 3.3): how a       *)
(* requester builds it (pkg/srp/update.go), how the registrar takes it     *)
(* apart (instruction.go, Classify) and checks it (validate.go), and what  *)
(* the handler then publishes and records.                                 *)
(*                                                                         *)
(* A message is read one RR at a time, as Classify does.  It is either one *)
(* that BuildUpdate made of a specification, or any RRs in any order.      *)
(* Phases "declined" and "unreconciled" are errors of Classify, at one RR  *)
(* and at the end: the message is not SRP and the next handler gets it.    *)
(* Phase "irrelevant" is a Zone Section that Handle does not take,         *)
(* "refused" an error of Validate, "failed" one of parseLease after it.    *)
(***************************************************************************)
EXTENDS Naturals, Sequences, SequencesExt

CONSTANTS Specs,       \* the specifications a requester may build from
          Alphabet,    \* the RRs an arbitrary message may add
          DeleteNames, \* the names it may delete
          BaseOf,      \* the base type of each subtype name
          ServiceOf,   \* what follows the first label of each instance name
          ServiceTypes,\* the well-formed service type names
          NoName,
          MaxRRs       \* bound: the RRs of an arbitrary message, deletions aside

RR(type, name, data, ttl) == [type |-> type, name |-> name, data |-> data, ttl |-> ttl]
Adds(rrs) == {rr \in rrs : rr.type \in {"KEY", "A", "SRV", "TXT", "PTR"}}

---------------------------------------------------------------------------
(* BuildUpdate.                                                             *)

\* The arguments it refuses.
BuildFails(spec) == spec.ttl = 0 \/ spec.lease > spec.keyLease

\* Faulty variant: the PTRs of the subtypes come first.
InstanceRRsSubtypesFirst(spec, inst) ==
  <<RR("ANY", inst.name, NoName, 0)>> \o
  IF inst.remove THEN <<>>
  ELSE <<RR("SRV", inst.name, spec.host, spec.ttl), RR("TXT", inst.name, inst.txt, spec.ttl)>>
       \o [i \in DOMAIN inst.subtypes |-> RR("PTR", inst.subtypes[i], inst.name, spec.ttl)]
       \o <<RR("PTR", inst.type, inst.name, spec.ttl)>>

\* An instance: Delete All RRsets, and unless it is removed its SRV, TXT, its own KEY
\* if it has one, and the PTRs of its type and subtypes.
InstanceRRs(spec, inst) ==
  <<RR("ANY", inst.name, NoName, 0)>> \o
  IF inst.remove THEN <<>>
  ELSE <<RR("SRV", inst.name, spec.host, spec.ttl), RR("TXT", inst.name, inst.txt, spec.ttl)>>
       \o (IF inst.ownKey THEN <<RR("KEY", inst.name, spec.key, spec.ttl)>> ELSE <<>>)
       \o <<RR("PTR", inst.type, inst.name, spec.ttl)>>
       \o [i \in DOMAIN inst.subtypes |-> RR("PTR", inst.subtypes[i], inst.name, spec.ttl)]

BuildUpdate(spec) ==
  <<RR("ANY", spec.host, NoName, 0)>>
  \o [i \in DOMAIN spec.addrs |-> RR("A", spec.host, spec.addrs[i], spec.ttl)]
  \o <<RR("KEY", spec.host, spec.key, spec.ttl)>>
  \o FlattenSeq([i \in DOMAIN spec.insts |-> InstanceRRs(spec, spec.insts[i])])

---------------------------------------------------------------------------
(* The registrar.                                                           *)

VARIABLES phase,   \* how far the message has come
          spec,    \* what it was built from, if it was built
          rest,    \* the RRs of a built message still to be read
          length,  \* the RRs that an arbitrary message may still add
          seen,    \* the RRs read so far, deletions aside
          again,   \* those of them read more than once
          st       \* classifyState

messageVars == <<phase, spec, rest, length, seen, again, st>>

NoSpec == [host |-> NoName]
NoInst == [srv |-> NoName, txt |-> {}, removal |-> FALSE]

EmptyState == [deletes |-> {}, consumed |-> {}, host |-> NoName, addresses |-> {},
               instances |-> [n \in {} |-> NoInst], discovery |-> {}, keyAdds |-> <<>>]

MessageInit ==
  /\ phase = "collect" /\ seen = {} /\ again = {} /\ st = EmptyState
  /\ \/ \E s \in Specs : spec = s /\ ~BuildFails(s) /\ rest = BuildUpdate(s) /\ length = 0
     \/ spec = NoSpec /\ rest = <<>> /\ length = MaxRRs

\* First pass: the Delete All RRsets, at most one for a name.
Collect(names) ==
  /\ phase = "collect"
  /\ phase' = IF IsInjective(names) THEN "scan" ELSE "declined"
  /\ st' = [st EXCEPT !.deletes = ToSet(names)]
  /\ UNCHANGED <<spec, rest, length, seen, again>>

CollectBuilt ==
  spec # NoSpec /\ Collect(LET isDelete(rr) == rr.type = "ANY" IN
                           [i \in DOMAIN SelectSeq(rest, isDelete) |-> SelectSeq(rest, isDelete)[i].name])

CollectAny ==
  spec = NoSpec /\ \E names \in SUBSET DeleteNames, twice \in SUBSET DeleteNames :
    Collect(SetToSeq(names) \o SetToSeq(twice \cap names))

\* addHostAddress: at a name that is deleted, and the same one for all addresses.
HostAddressFits(rr) == rr.name \in st.deletes /\ st.host \in {NoName, rr.name}

\* addPTR: the PTR of a subtype follows one of its base type with the same target.
PTRFits(rr) ==
  rr.name \in DOMAIN BaseOf =>
    \E d \in st.discovery : d.type = "PTR" /\ d.name = BaseOf[rr.name] /\ d.data = rr.data

\* instanceFor: a known instance, or a name that is deleted.
InstanceFits(rr) == rr.name \in DOMAIN st.instances \cup st.deletes

InstanceAt(name) == IF name \in DOMAIN st.instances THEN st.instances[name] ELSE NoInst

WithInstance(name, inst) ==
  [st EXCEPT !.instances = [n \in DOMAIN @ \cup {name} |-> IF n = name THEN inst ELSE @[n]],
             !.consumed = @ \cup {name}]

\* Second pass: one RR.
Fits(rr) ==
  CASE rr.type = "A" -> HostAddressFits(rr)
    [] rr.type = "SRV" -> InstanceFits(rr) /\ InstanceAt(rr.name).srv = NoName
    [] rr.type = "TXT" -> InstanceFits(rr)
    [] rr.type = "PTR" -> PTRFits(rr)
    [] rr.type \in {"KEY", "PTRDEL"} -> TRUE
    [] OTHER -> FALSE

ScanAfter(rr) ==
  CASE rr.type = "A" -> [st EXCEPT !.host = rr.name, !.addresses = @ \cup {rr},
                                   !.consumed = @ \cup {rr.name}]
    [] rr.type = "SRV" -> WithInstance(rr.name, [InstanceAt(rr.name) EXCEPT !.srv = rr.data])
    [] rr.type = "TXT" -> WithInstance(rr.name, [InstanceAt(rr.name) EXCEPT !.txt = @ \cup {rr}])
    [] rr.type \in {"PTR", "PTRDEL"} -> [st EXCEPT !.discovery = @ \cup {rr}]
    [] rr.type = "KEY" -> [st EXCEPT !.keyAdds = Append(@, rr)]

Scan(rr) ==
  IF rr.type = "ANY" THEN UNCHANGED <<phase, seen, again, st>>
  ELSE /\ seen' = seen \cup {rr}
       /\ again' = again \cup ({rr} \cap seen)
       /\ phase' = IF Fits(rr) THEN phase ELSE "declined"
       /\ st' = IF Fits(rr) THEN ScanAfter(rr) ELSE st

ScanBuilt ==
  /\ phase = "scan" /\ rest # <<>>
  /\ Scan(Head(rest))
  /\ rest' = Tail(rest)
  /\ UNCHANGED <<spec, length>>

ScanAny(rr) ==
  /\ phase = "scan" /\ spec = NoSpec /\ length > 0
  /\ Scan(rr)
  /\ length' = length - 1
  /\ UNCHANGED <<spec, rest>>

\* reconcile: without an address the first KEY at a deleted name that nothing else
\* claims makes the host.
HostOf(s) ==
  LET free == {i \in DOMAIN s.keyAdds : s.keyAdds[i].name \in s.deletes \ s.consumed} IN
  IF s.host # NoName \/ free = {} THEN s.host
  ELSE s.keyAdds[CHOOSE i \in free : \A j \in free : i <= j].name

LiveInstances(s) == {n \in DOMAIN s.instances : s.instances[n].srv # NoName}

\* The unclaimed deletions are instances to be removed.
Unclaimed(s) == s.deletes \ (s.consumed \cup {HostOf(s)})

\* Faulty variant: nobody asks whether an instance can be found.
CrossReferencedOneWay(s) ==
  /\ \A d \in s.discovery : d.type = "PTR" => d.data \in LiveInstances(s)
  /\ \A n \in LiveInstances(s) : s.instances[n].txt # {} /\ s.instances[n].srv = HostOf(s)

\* Every PTR added points to a live instance, and every live instance has a TXT,
\* points to the host and is pointed to.
CrossReferenced(s) ==
  /\ \A d \in s.discovery : d.type = "PTR" => d.data \in LiveInstances(s)
  /\ \A n \in LiveInstances(s) :
       /\ s.instances[n].txt # {} /\ s.instances[n].srv = HostOf(s)
       /\ \E d \in s.discovery : d.type = "PTR" /\ d.data = n

\* Every KEY belongs to the host or to an instance, one to each; the host has one.
KeysOwned(s) ==
  LET names == [i \in DOMAIN s.keyAdds |-> s.keyAdds[i].name] IN
  /\ IsInjective(names)
  /\ ToSet(names) \subseteq {HostOf(s)} \cup DOMAIN s.instances \cup Unclaimed(s)
  /\ HostOf(s) \in ToSet(names)

Reconcile ==
  /\ phase = "scan" /\ rest = <<>>
  /\ LET ok == HostOf(st) # NoName /\ CrossReferenced(st) /\ KeysOwned(st) IN
     /\ phase' = IF ok THEN "classified" ELSE "unreconciled"
     /\ st' = IF ok THEN [st EXCEPT !.host = HostOf(st),
                           !.instances = [n \in DOMAIN @ \cup Unclaimed(st) |->
                              IF n \in DOMAIN @ THEN @[n] ELSE [NoInst EXCEPT !.removal = TRUE]],
                           !.consumed = @ \cup st.deletes]
              ELSE st
  /\ UNCHANGED <<spec, rest, length, seen, again>>

KeyAt(name) == {st.keyAdds[i].data : i \in {j \in DOMAIN st.keyAdds : st.keyAdds[j].name = name}}

\* validateTTLConsistency, validateKeys, validateServiceNames.
TTLsConsistent ==
  \A x, y \in Adds(seen) : x.name = y.name /\ x.type = y.type => x.ttl = y.ttl

KeysIdentical == \A i, j \in DOMAIN st.keyAdds : st.keyAdds[i].data = st.keyAdds[j].data

ServiceNamesFit ==
  \A d \in st.discovery : d.type = "PTR" =>
    LET base == IF d.name \in DOMAIN BaseOf THEN BaseOf[d.name] ELSE d.name IN
    base \in ServiceTypes /\ ServiceOf[d.data] = base

\* One entry in the Zone Section, no prerequisites, an Update Lease option with LEASE
\* at most KEY-LEASE, and the checks above.  The option's short form, without KEY-LEASE,
\* passes them and is an error only when parseLease reads it.
Validate(zones, prerequisites, option) ==
  /\ phase = "classified"
  /\ spec # NoSpec => zones = 1 /\ prerequisites = 0 /\ option = "good"
  /\ LET ok == /\ prerequisites = 0 /\ option \in {"good", "short"}
               /\ TTLsConsistent /\ KeysIdentical /\ ServiceNamesFit
     IN  phase' = CASE zones # 1                  -> "irrelevant"
                    [] zones = 1 /\ ~ok            -> "refused"
                    [] zones = 1 /\ ok /\ option = "short" -> "failed"
                    [] zones = 1 /\ ok /\ option = "good"  -> "valid"
  /\ UNCHANGED <<spec, rest, length, seen, again, st>>

MessageNext ==
  \/ CollectBuilt \/ CollectAny \/ ScanBuilt
  \/ \E rr \in Alphabet : ScanAny(rr)
  \/ Reconcile
  \/ \E zones \in 0..2, prerequisites \in 0..1, option \in {"good", "short", "bad", "missing"} :
       Validate(zones, prerequisites, option)

MessageSpec == MessageInit /\ [][MessageNext]_messageVars

---------------------------------------------------------------------------
(* What the handler makes of a valid update.                                *)

\* synthesizeOmittedInstanceKeys, with KeyFor: a KEY for every live instance without one.
OmittedKeys ==
  {RR("KEY", n, data, 1) : n \in {x \in LiveInstances(st) : KeyAt(x) = {}},
                           data \in KeyAt(st.host)}

\* What the UPDATE sent upstream adds.
Forwarded == Adds(seen) \cup OmittedKeys

\* UpdateNames: the nodes the update touches.
UpdateNames == {st.host} \cup DOMAIN st.instances

\* Faulty variant: PTRs are recorded with the type's name, which is no node.
RecordedAtOwnName(n) == {rr \in Adds(seen) : rr.name = n}

\* applyLocalMutations: the records each node has afterwards.  An instance at the
\* host's own name is written after the host, in its place.
Recorded(n) ==
  IF n \notin DOMAIN st.instances THEN st.addresses
  ELSE IF st.instances[n].srv = NoName THEN {}
  ELSE {rr \in Adds(seen) : rr.type \in {"SRV", "TXT"} /\ rr.name = n}
       \cup {rr \in st.discovery : rr.type = "PTR" /\ rr.data = n}

---------------------------------------------------------------------------
(* Properties.                                                              *)

Classified == {"classified", "irrelevant", "refused", "failed", "valid"}

\* The classifier's books: only deleted names are claimed, host and instances are
\* among them, and after reconcile nothing is left unclaimed.
MessageTypes ==
  /\ phase \in {"collect", "scan", "declined", "unreconciled"} \cup Classified
  /\ length \in 0..MaxRRs
  /\ st.consumed \subseteq st.deletes
  /\ (DOMAIN st.instances \cup ({st.host} \ {NoName})) \subseteq st.deletes
  /\ phase \in Classified => st.consumed = st.deletes

\* What a requester builds is what the registrar understands: the update passes every
\* check, and means the host, addresses, instances, PTRs and removals asked for
\* (BuildUpdate, Classify, Validate).
BuiltRoundTrips ==
  spec # NoSpec =>
    /\ phase \notin {"declined", "unreconciled", "irrelevant", "refused", "failed"}
    /\ phase = "valid" =>
         /\ st.host = spec.host
         /\ {rr.data : rr \in st.addresses} = ToSet(spec.addrs)
         /\ DOMAIN st.instances = {inst.name : inst \in ToSet(spec.insts)}
         /\ \A inst \in ToSet(spec.insts) :
              LET found == st.instances[inst.name] IN
              /\ found.removal <=> inst.remove
              /\ ~inst.remove =>
                   {d.name : d \in {x \in st.discovery : x.data = inst.name}}
                     = {inst.type} \cup ToSet(inst.subtypes)

\* What can be said of the RRs read so far: only known types, addresses, SRV and TXT
\* only at deleted names, addresses at one name only, one SRV at a name, and the PTR
\* of a subtype with that of its base type.
OfType(type) == {rr \in seen : rr.type = type}
NamesOf(rrs) == {rr.name : rr \in rrs}

WellFormedSoFar ==
  /\ OfType("OTHER") = {}
  /\ NamesOf(OfType("A") \cup OfType("SRV") \cup OfType("TXT")) \subseteq st.deletes
  /\ \A x, y \in OfType("A") : x.name = y.name
  /\ \A x, y \in OfType("SRV") : x.name = y.name => x = y /\ x \notin again
  /\ \A x \in OfType("PTR") : x.name \in DOMAIN BaseOf =>
       \E y \in OfType("PTR") : y.name = BaseOf[x.name] /\ y.data = x.data

\* What can be said of all of them, with h the host: every KEY at a deleted name, one
\* at each, one of them the host's; SRVs point to the host, have a TXT beside them and
\* a PTR to them; and PTRs point to SRVs.
WellFormedAround(h) ==
  /\ NamesOf(OfType("A")) \subseteq {h}
  /\ h \in NamesOf(OfType("KEY")) /\ NamesOf(OfType("KEY")) \subseteq st.deletes
  /\ \A x, y \in OfType("KEY") : x.name = y.name => x = y /\ x \notin again
  /\ \A x \in OfType("SRV") : x.data = h /\ x.name \in NamesOf(OfType("TXT"))
  /\ NamesOf(OfType("SRV")) = {x.data : x \in OfType("PTR")}

\* Without an address, the host is where the first KEY is that has the name to itself.
WellFormed ==
  WellFormedSoFar /\ \E h \in st.deletes :
    /\ WellFormedAround(h)
    /\ OfType("A") = {} =>
         LET alone(i) == st.keyAdds[i].name \notin NamesOf(OfType("SRV") \cup OfType("TXT")) IN
         \E i \in DOMAIN st.keyAdds : alone(i) /\ st.keyAdds[i].name = h /\ \A j \in 1..(i - 1) : ~alone(j)

\* Classify accepts exactly the updates of the form the documentation's table gives
\* (docs/siglease_rfc9665.md, section 4), with two differences: a subtype's PTR must
\* follow its base type's, where otherwise any order will do, and a PTR delete may have
\* any target (DeletesAreDescribed).  What is declined at one RR nothing after it could
\* have mended.
ClassifyIsExact ==
  /\ phase = "declined" /\ seen # {} => ~WellFormedSoFar
  /\ phase = "unreconciled" => ~WellFormed
  /\ phase \in Classified => WellFormed

\* "PTRs are authorized transitively: each targets a service instance with a Service
\* Description in the same update" (docs/siglease_rfc9665.md, section 5, and the table of
\* section 4 for adds and deletes alike): a PTR delete in a valid update is for one of
\* the instances the update describes (addPTR, reconcile).
DeletesAreDescribed ==
  phase = "valid" =>
    \A d \in st.discovery : d.type = "PTRDEL" => d.data \in DOMAIN st.instances

\* Every live instance ends up with the host's KEY upstream, whether the requester sent
\* it or left it out (synthesizeOmittedInstanceKeys, RFC 9665 section 3.3.3).
InstancesHaveKeys ==
  phase = "valid" => \A n \in LiveInstances(st) :
    {rr.data : rr \in {x \in Forwarded : x.type = "KEY" /\ x.name = n}} = KeyAt(st.host)

\* Every record published has its lease: "SRV/TXT for the instance: NonKEYRecord, parent =
\* service node", and likewise for addresses and PTRs (docs/siglease_rfc9665.md, section
\* 6; applyLocalMutations).  Two kinds have none, and no requester of this repository
\* sends them: a TXT at a name without SRV, and the addresses of a host that is an
\* instance as well.
AddsAreLeased ==
  phase = "valid" => \A rr \in {x \in Forwarded : x.type # "KEY"} :
    \/ \E n \in UpdateNames : rr \in Recorded(n)
    \/ rr.type = "TXT" /\ rr.name \notin LiveInstances(st) /\ spec = NoSpec
    \/ rr.type = "A" /\ rr.name \in DOMAIN st.instances /\ spec = NoSpec

\* What the registrar makes of a valid message is complete: every instance is keyed and
\* every record leased (synthesizeOmittedInstanceKeys, applyLocalMutations).
MessageInv == MessageTypes /\ InstancesHaveKeys /\ AddsAreLeased
===========================================================================
