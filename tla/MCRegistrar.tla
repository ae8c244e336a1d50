---------------------------- MODULE MCRegistrar ----------------------------
(***************************************************************************)
(* Instances of SRPHandler and SRPMessage for TLC, side by side: which of  *)
(* them a behaviour is of is chosen at the start.                          *)
(*                                                                         *)
(* The handler has two clients that want the same host and instance names, *)
(* and A may have another host.  Addresses, SRV with TXT, and PTR are one  *)
(* record each, the same for both clients.  The messages have a host       *)
(* h, instances i and j of type t with subtype s, and a name x that is     *)
(* nothing.                                                                *)
(***************************************************************************)
EXTENDS SRPHandler, SRPMessage, TLC

CONSTANTS hA, iA, gA, hB, iB,        \* KEYs of clients A and B
          host, host2, inst, type,   \* names: two hosts, an instance, a service type
          addr, addr2, srv, srv2, ptr,
          Parts                      \* what is run: "handler", "host", "message"

VARIABLE part

---------------------------------------------------------------------------
(* Registrations.                                                           *)

MCKeyName ==
  Restrict(hA :> host @@ hB :> host @@ gA :> host2 @@ iA :> inst @@ iB :> inst, Key)
MCRegistrant == [k \in Key |-> IF k \in {hB, iB} THEN "B" ELSE "A"]
MCRecName ==
  Restrict(addr :> host @@ addr2 :> host2 @@ srv :> inst @@ srv2 :> inst @@ ptr :> type, Rec)
MCTarget == Restrict(srv :> host @@ srv2 :> host2, Rec \cap {srv, srv2})

Reg(key, addrs, insts, dels, lease, keyLease) ==
  [host |-> key, addrs |-> addrs, insts |-> insts, dels |-> dels, lease |-> lease,
   keyLease |-> keyLease]
Inst(key, recs) == [key |-> key, recs |-> recs]

Full(h, i, lease) == Reg(h, {addr}, <<Inst(i, {srv, ptr})>>, {}, lease, 2)
HostOnly(h, dels, lease) == Reg(h, {addr}, <<>>, dels, lease, 2)
RemoveInstance(h, i) == Reg(h, {addr}, <<Inst(i, {})>>, {}, 1, 2)
Deregister(h, i) == Reg(h, {}, <<Inst(i, {})>>, {}, 0, 0)
MoveTo(g, i, lease) == Reg(g, {addr2}, <<Inst(i, {srv2, ptr})>>, {}, lease, 2)
OtherHost(g, lease) == Reg(g, {addr2}, <<>>, {}, lease, 2)

\* A registers, refreshes only its host, the second time with a delete of the PTR of the
\* instance it does not name, removes its instance and deregisters; B wants the names as
\* well.
MCRequests == {Full(hA, iA, 2), HostOnly(hA, {}, 1), HostOnly(hA, {ptr}, 1),
               RemoveInstance(hA, iA), Deregister(hA, iA), Full(hB, iB, 1)}

\* A and B want the host name.
HostRequests == {HostOnly(hA, {}, 1), HostOnly(hB, {}, 1)}

\* A's instance moves to A's other host, whose addresses then get a shorter lease.
MoveRequests == {Full(hA, iA, 2), MoveTo(gA, iA, 2), OtherHost(gA, 1)}

SlotSymmetry == Permutations(Slot)

---------------------------------------------------------------------------
(* Messages.                                                                *)

MCBaseOf == "s" :> "t"
MCServiceOf == "h" :> "zone" @@ "i" :> "t" @@ "j" :> "t" @@ "x" :> "zone"

InstSpecs(n) == [name : {n}, type : {"t"}, subtypes : {<<>>, <<"s">>}, txt : {"txt"},
                 ownKey : BOOLEAN, remove : BOOLEAN]

MCSpecs == [host : {"h"}, addrs : {<<>>, <<"a1">>, <<"a1", "a2">>}, key : {"K"},
            insts : {<<>>} \cup {<<a>> : a \in InstSpecs("i")}
                           \cup {<<a, b>> : a \in InstSpecs("i"), b \in InstSpecs("j")},
            lease : {1, 2}, keyLease : {1}, ttl : {0, 1}]

MCAlphabet ==
  {RR("KEY", "h", "K", 1), RR("KEY", "i", "K", 1), RR("KEY", "i", "L", 1), RR("KEY", "x", "K", 1),
   RR("A", "h", "a1", 1), RR("A", "h", "a2", 2), RR("A", "i", "a1", 1),
   RR("SRV", "i", "h", 1), RR("SRV", "i", "i", 1), RR("SRV", "h", "h", 1),
   RR("TXT", "i", "txt", 1), RR("TXT", "j", "txt", 1),
   RR("PTR", "t", "i", 1), RR("PTR", "s", "i", 1), RR("PTR", "x", "i", 1), RR("PTR", "t", "h", 1),
   RR("PTRDEL", "t", "j", 0), RR("OTHER", "h", "o", 1)}

---------------------------------------------------------------------------
RegistrarInit == /\ part \in Parts /\ Init /\ MessageInit
                 /\ part # "message" => spec = NoSpec

\* Two registrations at a time and one event less than the bound, or one at a time and
\* for hosts only.
Reserve == budget' > 0
OneHostAtATime ==
  /\ \A p \in Slot : request'[p] \in HostRequests \cup {NoRequest}
  /\ \A p, q \in Slot : p # q => "idle" \in {pc'[p], pc'[q]}

RegistrarNext ==
  \/ part = "handler" /\ Next /\ Reserve /\ UNCHANGED <<part, messageVars>>
  \/ part = "host" /\ Next /\ OneHostAtATime /\ UNCHANGED <<part, messageVars>>
  \/ part = "message" /\ MessageNext /\ UNCHANGED <<part, vars>>

RegistrarSpec == RegistrarInit /\ [][RegistrarNext]_<<part, vars, messageVars>>
===========================================================================
