------------------------ MODULE RegistrarDiscovery ------------------------
(***************************************************************************)
(* How an SRP client finds its registrar (client/srp/discovery.go): the    *)
(* apex of the zone that encloses its domain by SOA queries, the SRV       *)
(* records at the names between the domain and the apex, the best of them, *)
(* and an address of its target.  Every query goes to the resolvers in     *)
(* turn, over UDP.                                                         *)
(*                                                                         *)
(* A name is a sequence of labels, the root is empty.  The DNS does not    *)
(* change while the client searches.                                       *)
(***************************************************************************)
EXTENDS Naturals, Sequences, SequencesExt

CONSTANTS Domain,      \* the registration domain
          Elsewhere,   \* a name that does not enclose it
          SRVSets,     \* the sets of SRV records there may be at a name
          NoSRV,
          Resolvers,   \* how many resolvers there are
          MaxFaults,   \* bound: queries a resolver fails to answer
          MaxTruncated \* bound: answers that do not fit a UDP message

Root == <<>>
Parent(name) == Tail(name)
Enclosing == {SubSeq(Domain, i, Len(Domain)) : i \in 1..(Len(Domain) + 1)}

VARIABLES dns,    \* the zones, the SRV records and addresses there are, and whether
                  \* answers leave out the authority section
          mode,   \* DiscoveryMode, or that the registrar is configured
          pc,     \* the query under way, or the outcome
          name,   \* the name it is about
          turn,   \* the resolver that is asked
          names,  \* registrarSearchNames, those still to be asked
          asked,  \* the names that were asked for SRV records
          best,   \* the SRV record chosen
          faults, truncated

vars == <<dns, mode, pc, name, turn, names, asked, best, faults, truncated>>

Init ==
  /\ mode \in {"closest", "apexOnly", "configured"}
  /\ dns \in [zones : {z \cup {Root} : z \in SUBSET (Enclosing \ {Root})},
              srvs : IF mode = "configured" THEN {[n \in Enclosing \ {Root} |-> {}]}
                     ELSE [Enclosing \ {Root} -> SRVSets],
              addresses : IF mode = "configured" THEN {{}} ELSE SUBSET {"A", "AAAA"},
              terse : BOOLEAN]
  /\ pc = "start" /\ name = Domain /\ turn = 1
  /\ names = <<>> /\ asked = {} /\ best = NoSRV
  /\ faults = MaxFaults /\ truncated = MaxTruncated

\* The zone that holds a name.
ZoneOf(n) ==
  CHOOSE z \in dns.zones : IsSuffix(z, n) /\ \A y \in dns.zones : IsSuffix(y, n) => Len(y) <= Len(z)

Outcome(result) ==
  pc' = result /\ turn' = 1 /\ UNCHANGED <<dns, mode, name, names, asked, best, faults, truncated>>

\* registrarAddr: a configured address is taken, otherwise Discover is called.
RegistrarAddr == pc = "start" /\ Outcome(IF mode = "configured" THEN "configured" ELSE "SOA")

\* LiveDNSQuery: a resolver that does not answer, or answers SERVFAIL, passes the query
\* on to the next.
ResolverFails ==
  /\ pc \in {"SOA", "SRV", "A", "AAAA"} /\ faults > 0 /\ turn < Resolvers
  /\ turn' = turn + 1 /\ faults' = faults - 1
  /\ UNCHANGED <<dns, mode, pc, name, names, asked, best, truncated>>

\* A query that all resolvers failed to answer ends the search.
QueryFails ==
  /\ pc \in {"SOA", "SRV", "A", "AAAA"} /\ faults > 0 /\ turn = Resolvers
  /\ pc' = "failed" /\ faults' = faults - 1
  /\ UNCHANGED <<dns, mode, name, turn, names, asked, best, truncated>>

\* registrarSearchNames.
registrarSearchNames(apex) ==
  LET upTo == Len(Domain) - Len(apex) + 1 IN
  IF mode = "apexOnly" THEN <<apex>>
  ELSE [i \in 1..upTo |-> SubSeq(Domain, i, Len(Domain))]

\* zoneApex finds an SOA: in the answer if the name is an apex, in the authority section
\* otherwise; then the SRV search begins.
ApexFound ==
  /\ pc = "SOA" /\ ZoneOf(name) # Root
  /\ dns.terse => name \in dns.zones
  /\ names' = registrarSearchNames(ZoneOf(name)) /\ name' = registrarSearchNames(ZoneOf(name))[1]
  /\ pc' = "SRV" /\ turn' = 1
  /\ UNCHANGED <<dns, mode, asked, best, faults, truncated>>

\* The root's SOA: there is no such top-level domain.
RootFound == pc = "SOA" /\ ZoneOf(name) = Root /\ ~dns.terse /\ Outcome("failed")

\* The SOA of another place, where an alias leads: registrarSearchNames refuses it.
ApexElsewhere ==
  /\ pc = "SOA" /\ faults > 0 /\ ~IsSuffix(Elsewhere, Domain)
  /\ pc' = "failed" /\ faults' = faults - 1
  /\ UNCHANGED <<dns, mode, name, turn, names, asked, best, truncated>>

\* An answer cut short, the records left out.
Cut == truncated > 0 /\ truncated' = truncated - 1

\* No SOA at all: the parent is asked, short of the top-level domain.
NoSOA ==
  /\ pc = "SOA"
  /\ \/ dns.terse /\ name \notin dns.zones /\ UNCHANGED truncated
     \/ Cut
  /\ IF Len(name) > 2 THEN name' = Parent(name) /\ UNCHANGED pc
                      ELSE pc' = "failed" /\ UNCHANGED name
  /\ turn' = 1
  /\ UNCHANGED <<dns, mode, names, asked, best, faults>>

\* Lowest priority, then highest weight.
Preferred(s, t) == s.priority < t.priority \/ (s.priority = t.priority /\ s.weight >= t.weight)

\* The SRV records at a name, the best of which is taken.
SRVFound(s) ==
  /\ pc = "SRV" /\ s \in dns.srvs[name]
  /\ \A t \in dns.srvs[name] : Preferred(s, t)
  /\ best' = s /\ pc' = "A" /\ turn' = 1 /\ asked' = asked \cup {name}
  /\ UNCHANGED <<dns, mode, name, names, faults, truncated>>

\* No SRV in the answer: the next name, if there is one.
NoSRVHere ==
  /\ asked' = asked \cup {name} /\ turn' = 1 /\ names' = Tail(names)
  /\ IF Len(names) > 1 THEN name' = names[2] /\ UNCHANGED pc
                       ELSE pc' = "none" /\ UNCHANGED name
  /\ UNCHANGED <<dns, mode, best, faults>>

SRVMissing == pc = "SRV" /\ dns.srvs[name] = {} /\ NoSRVHere /\ UNCHANGED truncated

SRVTruncated == pc = "SRV" /\ dns.srvs[name] # {} /\ Cut /\ NoSRVHere

\* targetAddress: the target's first A record, or its first AAAA record.
TargetA == pc = "A" /\ Outcome(IF "A" \in dns.addresses THEN "foundA" ELSE "AAAA")
TargetAAAA == pc = "AAAA" /\ Outcome(IF "AAAA" \in dns.addresses THEN "foundAAAA" ELSE "failed")

AddressTruncated ==
  /\ pc \in {"A", "AAAA"} /\ pc \in dns.addresses /\ Cut
  /\ pc' = (IF pc = "A" THEN "AAAA" ELSE "failed") /\ turn' = 1
  /\ UNCHANGED <<dns, mode, name, names, asked, best, faults>>

Next ==
  \/ RegistrarAddr \/ ResolverFails \/ QueryFails
  \/ ApexFound \/ RootFound \/ ApexElsewhere \/ NoSOA
  \/ \E s \in UNION SRVSets : SRVFound(s)
  \/ SRVMissing \/ SRVTruncated \/ TargetA \/ TargetAAAA \/ AddressTruncated

Spec == Init /\ [][Next]_vars

---------------------------------------------------------------------------
\* The states Discover can be in; the names left to ask are those above the one asked.
TypeOK ==
  /\ pc \in {"start", "SOA", "SRV", "A", "AAAA", "configured", "foundA", "foundAAAA", "none", "failed"}
  /\ turn \in 1..Resolvers /\ name \in Enclosing /\ asked \subseteq Enclosing
  /\ pc = "SRV" => names # <<>> /\ name = Head(names)

\* The names that may tell of a registrar for the domain: from the domain to the apex of
\* the zone that holds it.
Eligible ==
  IF mode = "apexOnly" THEN {ZoneOf(Domain)}
  ELSE {n \in Enclosing : IsSuffix(ZoneOf(Domain), n)}

\* "A failed query ends the search with its error instead of moving on to the next name,
\* since the name it could not ask about may hold the answer" (Discover): a registrar
\* that is found is the preferred one at the closest name that has any, and none is
\* reported only if there is none.  Not so after an answer that was cut short, which
\* reads like one without records.
FoundIsClosest ==
  truncated = MaxTruncated =>
    /\ best # NoSRV =>
         \E n \in Eligible :
           /\ best \in dns.srvs[n]
           /\ \A s \in dns.srvs[n] : s.priority > best.priority
                                     \/ (s.priority = best.priority /\ s.weight <= best.weight)
           /\ \A m \in Eligible : Len(m) > Len(n) => dns.srvs[m] = {}
    /\ pc = "none" => \A n \in Eligible : dns.srvs[n] = {}

\* "It never looks above the apex: a zone cut separates authority" (Discover), unless the
\* answer with the zone's own SOA was cut short.
NeverAboveCut == truncated = MaxTruncated => asked \subseteq Eligible

\* A search finds the right registrar, and looks only where it may (Discover).
DiscoveryInv == TypeOK /\ FoundIsClosest /\ NeverAboveCut
===========================================================================
