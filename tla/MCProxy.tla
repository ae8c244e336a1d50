------------------------------ MODULE MCProxy ------------------------------
(***************************************************************************)
(* Instances of Router and Lookups for TLC, side by side: which of the two *)
(* a behaviour is of is chosen at the start.  The router has an opcode     *)
(* without handlers, and one with a module that is not registered and both *)
(* handlers; the name looked up has three labels.                          *)
(***************************************************************************)
EXTENDS Router, Lookups

VARIABLE part

MCChains == {<<>>, <<"missing", "srp_handler", "update_handler">>}

MCName == <<"a", "b", "c">>
MCElsewhere == <<"x">>

SRV(target, priority, weight) == [target |-> target, priority |-> priority, weight |-> weight]
MCSRVSets == {{}, {SRV("t1", 1, 1), SRV("t2", 0, 0)}, {SRV("t1", 0, 1), SRV("t2", 0, 0)}}

---------------------------------------------------------------------------
\* The router runs beside the lookups of one DNS, which it does not change.
ProxyInit ==
  /\ part \in {"router", "lookups"} /\ Init /\ LookupsInit
  /\ part = "router" => /\ mode = "configured" /\ op = "ResolveAuthoritativeZone"
                        /\ dns = [zones |-> {}, keys |-> {}, ptrs |-> 0, others |-> FALSE]
                        /\ static = NoZone /\ ~clientDNS.terse

ProxyNext ==
  \/ part = "router" /\ Next /\ UNCHANGED <<part, lookupVars>>
  \/ part = "lookups" /\ LookupsNext /\ UNCHANGED <<part, vars>>

ProxySpec == ProxyInit /\ [][ProxyNext]_<<part, vars, lookupVars>> /\ Fairness
===========================================================================
