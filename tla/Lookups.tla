------------------------------ MODULE Lookups ------------------------------
(***************************************************************************)
(* A client and the proxy look up the same name, one after the other: the  *)
(* client finds its registrar (RegistrarDiscovery), which then finds the   *)
(* zone it writes to, asks what is there and takes the key that signs      *)
(* (UpstreamLookups).  Both see the same zones through resolvers that fail *)
(* alike.                                                                  *)
(***************************************************************************)
CONSTANTS Name, Keys, Elsewhere, NoZone, Resolvers, UDPSize, MaxFaults,
          SRVSets, NoSRV, MaxTruncated

VARIABLES dns, static, store, op, step, turn, zone, result, unread, faults,
          clientDNS, mode, clientStep, clientName, clientTurn, names, asked, best, truncated

proxyVars == <<dns, static, store, op, step, turn, zone, result, unread>>
clientVars == <<clientDNS, mode, clientStep, clientName, clientTurn, names, asked, best, truncated>>
lookupVars == <<proxyVars, clientVars, faults>>

Proxy == INSTANCE UpstreamLookups WITH pc <- step

Client == INSTANCE RegistrarDiscovery
  WITH Domain <- Name, dns <- clientDNS, pc <- clientStep, name <- clientName, turn <- clientTurn

\* What else the DNS holds, and what the proxy asks, is varied for a client that knows
\* its registrar.
LookupsInit ==
  /\ Client!Init
  /\ LET zones == {clientDNS.zones \ {Proxy!Root}} IN
     IF mode = "configured" THEN Proxy!Called(Proxy!Operations, zones, Proxy!Contents)
     ELSE Proxy!Called({"ResolveAuthoritativeZone"}, zones,
                       {[keys |-> {}, ptrs |-> 0, others |-> FALSE]})

Served == clientStep \in {"configured", "foundA", "foundAAAA"}

LookupsNext ==
  \/ Client!Next /\ UNCHANGED proxyVars
  \/ Served /\ Proxy!Next /\ UNCHANGED clientVars

LookupsSpec == LookupsInit /\ [][LookupsNext]_lookupVars

---------------------------------------------------------------------------
\* What a lookup finds is right, whatever a resolver answered on the way: the proxy's the
\* zone, the records and the key (discoverZone, queryAuthoritative,
\* FindAuthorizedProxyKey), and the client's the preferred registrar at the closest name
\* that has any, with no question above the apex of its zone (Discover).
LookupsAreRight == Proxy!LookupInv /\ Client!DiscoveryInv
===========================================================================
