-------------------------- MODULE SRPClientProofs --------------------------
(***************************************************************************)
(* Proofs about the SRP requester, for any number of clients that want the *)
(* same name, any leases a registrar may grant and any backoff: a client   *)
(* that sleeps until its refresh has the name it believes to have, one     *)
(* that deregistered has none, and without failures a registration never   *)
(* lapses.                                                                 *)
(***************************************************************************)
EXTENDS SRPClient, TLAPS
USE Zenon

(* The inductive invariant.                                                 *)

Mail == [kind : {"none", "register", "remove", "conflict", "failure"}]
        \cup [kind : {"success"}, lease : Grants \cup {NoOption}]

Ended == {"stopped", "leaving", "gone", "kept"}

Phases == Sleeping \cup {"registering", "sent"} \cup Ended

\* The types, those of what is on its way and of what is left included.
ClientTypes ==
  /\ pc \in [Client -> Phases] /\ suffix \in [Client -> Suffix]
  /\ attempt \in [Client -> 0..MaxRenames] /\ sleep \in [Client -> Nat]
  /\ backoff \in [Client -> MinBackoff..MaxBackoff]
  /\ mail \in [Client -> Mail] /\ wait \in [Client -> 0..Timeout]

RegistrarTypes ==
  /\ grant \in Grants /\ holder \in [Suffix -> Client \cup {Nobody}]
  /\ left \in [Suffix -> 0..KeyLease] /\ keyLeft \in [Suffix -> 0..KeyLease]

EventTypes ==
  cancelled \subseteq Client /\ anew \subseteq Client /\ spent \in [faults : Nat, stops : Nat]

Types == ClientTypes /\ RegistrarTypes /\ EventTypes

\* A name is not given away before its LEASE ends, and a stranger's never.
NamesKept ==
  \A n \in Suffix : left[n] <= keyLeft[n] /\ (n \in Taken => holder[n] = Nobody)

\* The client's name at the registrar.
Held(c) == holder[suffix[c]] = c

\* Only a client that waits for a response has one on its way, to what it sent; only a
\* client whose Run has ended is started anew.
MailExpected(c) ==
  /\ mail[c].kind # "none" => pc[c] \in {"sent", "leaving"}
  /\ pc[c] = "sent" => mail[c].kind # "remove"
  /\ pc[c] = "leaving" => mail[c].kind # "register"
  /\ c \in anew => pc[c] \in Ended

\* Renaming leaves no name behind: what a client has is under its current suffix.
OneName(c) == c \notin anew => \A n \in Suffix : holder[n] = c => n = suffix[c]

\* A response on its way is still true when it is read, and what the client did with
\* it rests on that: of a granted lease no more than the round trip's time is gone.
RepliesStand(c) ==
  /\ mail[c].kind = "conflict" => ~Held(c)
  /\ pc[c] = "leaving" /\ mail[c].kind = "success" => ~Held(c)
  /\ pc[c] = "gone" => ~Held(c)
  /\ pc[c] = "sent" /\ mail[c].kind = "success" =>
       Held(c) /\ Granted(mail[c]) = grant /\ grant + wait[c] <= left[suffix[c]] + Timeout
  /\ pc[c] = "refresh" => Held(c) /\ sleep[c] + Timeout < left[suffix[c]]

\* Without failures every cycle but the first begins with time for one round trip.
RefreshInTime(c) ==
  spent.faults = 0 =>
    /\ pc[c] \in {"initial", "backoff"} => ~Held(c)
    /\ pc[c] = "registering" /\ Held(c) => Timeout < left[suffix[c]]
    /\ pc[c] = "sent" => mail[c].kind \in {"register", "success", "conflict"}
    /\ pc[c] = "sent" /\ mail[c].kind = "register" /\ Held(c) => wait[c] < left[suffix[c]]

ClientOK(c) == MailExpected(c) /\ OneName(c) /\ RepliesStand(c) /\ RefreshInTime(c)

\* The inductive invariant of the requester (Client.Run, Client.Deregister).
ClientIInv == Types /\ NamesKept /\ \A c \in Client : ClientOK(c)
---------------------------------------------------------------------------
(* What the steps of the proof have in common.                              *)

\* The refresh is due after at least one unit, and two round trips before the lease ends
\* (refreshDelay).
LEMMA DelayFits ==
  ASSUME NEW g \in Grants, NEW d \in refreshDelay(g)
  PROVE  d \in Nat /\ d + 2 * Timeout < g
<1>1. g \in Nat
  BY ClientAssumption
<1>2. PICK e \in (80 * g) \div 100 .. (85 * g) \div 100 : d = IF e < 1 THEN 1 ELSE e
  BY DEF refreshDelay
<1>3. d \in Nat /\ (85 * g) \div 100 \in Nat /\ (d = 1 \/ d <= (85 * g) \div 100)
  BY <1>1, <1>2, SMT
<1>4. Timeout \in Nat /\ 1 + 2 * Timeout < g /\ (85 * g) \div 100 + 2 * Timeout < g
  BY ClientAssumption, RoundTripsFit
<1> HIDE DEF refreshDelay
<1> QED BY <1>1, <1>3, <1>4, SMT

\* What is known of a request or response by its kind (sendCycle's switch on the RCODE).
LEMMA MailKinds ==
  /\ NoMail \in Mail /\ NoMail.kind = "none"
  /\ \A k \in {"register", "remove", "conflict", "failure"} :
       [kind |-> k] \in Mail /\ [kind |-> k].kind = k
  /\ \A l \in Grants \cup {NoOption} :
       LET m == [kind |-> "success", lease |-> l]
       IN  m \in Mail /\ m.kind = "success" /\ m.lease = l
  /\ \A m \in Mail :
       /\ m.kind \in {"none", "register", "remove", "conflict", "failure", "success"}
       /\ m.kind = "none" <=> m = NoMail
       /\ m.kind = "success" => m.lease \in Grants \cup {NoOption}
  BY SMT DEF Mail, NoMail

\* The types are those the run checks (Client).
LEMMA TypesHold == Types => TypeOK
  BY ClientAssumption, SMT
     DEF Types, ClientTypes, RegistrarTypes, EventTypes, TypeOK, Phases, Ended

\* Client d takes no part in a step.
Aside(d) ==
  /\ pc'[d] = pc[d] /\ mail'[d] = mail[d] /\ wait'[d] = wait[d] /\ sleep'[d] = sleep[d]
  /\ suffix'[d] = suffix[d] /\ (d \in anew' <=> d \in anew)
  /\ spent'.faults = 0 => spent.faults = 0

\* A client that takes no part in a step keeps what holds of it, as long as its name is
\* not touched.
LEMMA OthersKeep ==
  ASSUME Types, NEW d \in Client, ClientOK(d), Aside(d), grant' = grant,
         \A n \in Suffix : /\ holder'[n] = d => holder[n] = d
                           /\ holder[n] = d => holder'[n] = d /\ left'[n] = left[n]
  PROVE  ClientOK(d)'
<1>1. suffix[d] \in Suffix
  BY DEF Types, ClientTypes
<1>2. Held(d)' <=> Held(d)
  BY <1>1 DEF Held, Aside
<1>3. Held(d) => left'[suffix'[d]] = left[suffix[d]]
  BY <1>1, SMT DEF Held, Aside
<1>4. MailExpected(d)'
  BY DEF ClientOK, MailExpected, Aside
<1>5. OneName(d)'
  BY DEF ClientOK, OneName, Suffix, Aside
<1>6. RepliesStand(d)'
  BY <1>2, <1>3 DEF ClientOK, RepliesStand, Granted, Aside
<1>7. RefreshInTime(d)'
  BY <1>2, <1>3 DEF ClientOK, RefreshInTime, Aside
<1> QED BY <1>4, <1>5, <1>6, <1>7 DEF ClientOK

\* A step of one client that leaves the registrar alone need only be looked at for that
\* client.
LEMMA ClientStep ==
  ASSUME ClientIInv, UNCHANGED registrarVars, NEW c \in Client,
         \A d \in Client \ {c} : Aside(d),
         ClientTypes', EventTypes', ClientOK(c)'
  PROVE  ClientIInv'
<1>1. Types' /\ NamesKept'
  BY DEF ClientIInv, Types, RegistrarTypes, NamesKept, registrarVars
<1>2. ASSUME NEW d \in Client \ {c} PROVE ClientOK(d)'
  BY OthersKeep DEF ClientIInv, registrarVars
<1> QED BY <1>1, <1>2 DEF ClientIInv

\* The clients start unregistered and with nothing on its way.
LEMMA InitEstablishes == Init => ClientIInv
<1> SUFFICES ASSUME Init PROVE ClientIInv
  OBVIOUS
<1> USE ClientAssumption DEF Init
<1>1. Types
  BY MailKinds, SMT DEF Types, ClientTypes, RegistrarTypes, EventTypes, Phases, Suffix, Sleeping
<1>2. NamesKept
  BY SMT DEF NamesKept
<1>3. ASSUME NEW c \in Client PROVE ClientOK(c)
  <2>1. mail[c].kind = "none" /\ pc[c] = "initial" /\ ~Held(c) /\ c \notin anew
    BY MailKinds, SMT DEF Held, Suffix
  <2>2. OneName(c)
    BY DEF OneName
  <2> QED BY <2>1, <2>2 DEF ClientOK, MailExpected, RepliesStand, RefreshInTime
<1> QED BY <1>1, <1>2, <1>3 DEF ClientIInv

\* The registrar's failure is a fault, after which only the other claims are made (ServeFails).
LEMMA ServeFailsPreserves ==
  ASSUME ClientIInv, NEW c \in Client, ServeFails(c)
  PROVE  ClientIInv'
<1> USE ClientAssumption
<1>1. Types /\ ClientOK(c)
  BY DEF ClientIInv
<1>2. ClientTypes' /\ EventTypes'
  BY <1>1, MailKinds, SMT DEF ServeFails, Spend, Types, ClientTypes, EventTypes, Suffix, Phases,
     Ended, Sleeping
<1>3. \A d \in Client \ {c} : Aside(d)
  BY <1>1, SMT DEF ServeFails, Spend, Aside, Types, ClientTypes, EventTypes
<1>4. ClientOK(c)'
  <2>1. MailExpected(c)'
    BY <1>1, MailKinds DEF ServeFails, Spend, Types, ClientTypes, ClientOK, MailExpected,
       Ended
  <2>2. OneName(c)'
    BY <1>1 DEF ServeFails, Spend, registrarVars, Types, ClientTypes, ClientOK, OneName
  <2>3. RepliesStand(c)'
    BY <1>1, MailKinds DEF ServeFails, Spend, registrarVars, Types, ClientTypes, ClientOK,
       MailExpected, RepliesStand, Held
  <2>4. RefreshInTime(c)'
    BY <1>1, MailKinds, SMT DEF ServeFails, Spend, registrarVars, Types, ClientTypes, EventTypes,
       ClientOK, MailExpected, RepliesStand, RefreshInTime, Held
  <2> QED BY <2>1, <2>2, <2>3, <2>4 DEF ClientOK
<1> QED BY <1>2, <1>3, <1>4, ClientStep DEF ServeFails

\* A lost message is a fault; it leaves the client waiting for nothing (Lose).
LEMMA LosePreserves ==
  ASSUME ClientIInv, NEW c \in Client, Lose(c)
  PROVE  ClientIInv'
<1> USE ClientAssumption
<1>1. Types /\ ClientOK(c)
  BY DEF ClientIInv
<1>2. ClientTypes' /\ EventTypes'
  BY <1>1, MailKinds, SMT DEF Lose, Spend, Types, ClientTypes, EventTypes, Suffix, Phases, Ended,
     Sleeping
<1>3. \A d \in Client \ {c} : Aside(d)
  BY <1>1, SMT DEF Lose, Spend, Aside, Types, ClientTypes, EventTypes
<1>4. ClientOK(c)'
  <2>1. MailExpected(c)'
    BY <1>1, MailKinds DEF Lose, Spend, Types, ClientTypes, ClientOK, MailExpected, Ended
  <2>2. OneName(c)'
    BY <1>1 DEF Lose, Spend, registrarVars, Types, ClientTypes, ClientOK, OneName
  <2>3. RepliesStand(c)'
    BY <1>1, MailKinds DEF Lose, Spend, registrarVars, Types, ClientTypes, ClientOK,
       MailExpected, RepliesStand, Held
  <2>4. RefreshInTime(c)'
    BY <1>1, MailKinds, SMT DEF Lose, Spend, registrarVars, Types, ClientTypes, EventTypes,
       ClientOK, MailExpected, RepliesStand, RefreshInTime, Held
  <2> QED BY <2>1, <2>2, <2>3, <2>4 DEF ClientOK
<1> QED BY <1>2, <1>3, <1>4, ClientStep DEF Lose

\* A client begins its round trip with time left for it, if it has the name (Register).
LEMMA RegisterPreserves ==
  ASSUME ClientIInv, NEW c \in Client, Register(c)
  PROVE  ClientIInv'
<1> USE ClientAssumption
<1>1. Types /\ ClientOK(c)
  BY DEF ClientIInv
<1>2. ClientTypes' /\ EventTypes'
  BY <1>1, MailKinds, SMT DEF Register, Types, ClientTypes, EventTypes, Suffix, Phases, Ended,
     Sleeping
<1>3. \A d \in Client \ {c} : Aside(d)
  BY <1>1 DEF Register, Aside, Types, ClientTypes, EventTypes
<1>4. ClientOK(c)'
  <2>1. MailExpected(c)'
    BY <1>1, MailKinds, SMT DEF Register, Types, ClientTypes, ClientOK, MailExpected, Ended
  <2>2. OneName(c)'
    BY <1>1 DEF Register, registrarVars, Types, ClientTypes, ClientOK, OneName
  <2>3. RepliesStand(c)'
    BY <1>1, MailKinds, SMT DEF Register, registrarVars, Types, ClientTypes, ClientOK,
       MailExpected, RepliesStand, Held
  <2>4. RefreshInTime(c)'
    BY <1>1, MailKinds, SMT DEF Register, registrarVars, Types, ClientTypes, EventTypes, ClientOK,
       MailExpected, RepliesStand, RefreshInTime, Held
  <2> QED BY <2>1, <2>2, <2>3, <2>4 DEF ClientOK
<1> QED BY <1>2, <1>3, <1>4, ClientStep DEF Register

\* A failed discovery is a fault (DiscoveryFails).
LEMMA DiscoveryFailsPreserves ==
  ASSUME ClientIInv, NEW c \in Client, DiscoveryFails(c)
  PROVE  ClientIInv'
<1> USE ClientAssumption
<1>1. Types /\ ClientOK(c)
  BY DEF ClientIInv
<1>2. ClientTypes' /\ EventTypes'
  BY <1>1, MailKinds, SMT DEF DiscoveryFails, Rest, CycleFails, Min2, Spend, Types, ClientTypes,
     EventTypes, Suffix, Phases, Ended, Sleeping
<1>3. \A d \in Client \ {c} : Aside(d)
  BY <1>1, SMT DEF DiscoveryFails, Rest, CycleFails, Spend, Aside, Types, ClientTypes, EventTypes
<1>4. ClientOK(c)'
  <2>1. MailExpected(c)'
    BY <1>1, MailKinds DEF DiscoveryFails, Rest, CycleFails, Spend, Types, ClientTypes,
       ClientOK, MailExpected, Ended
  <2>2. OneName(c)'
    BY <1>1 DEF DiscoveryFails, Rest, CycleFails, Spend, registrarVars, Types, ClientTypes,
       ClientOK, OneName
  <2>3. RepliesStand(c)'
    BY <1>1, MailKinds DEF DiscoveryFails, Rest, CycleFails, Spend, registrarVars, Types,
       ClientTypes, ClientOK, MailExpected, RepliesStand, Held
  <2>4. RefreshInTime(c)'
    BY <1>1, MailKinds, SMT DEF DiscoveryFails, Rest, CycleFails, Spend, registrarVars, Types,
       ClientTypes, EventTypes, ClientOK, MailExpected, RepliesStand, RefreshInTime, Held
  <2> QED BY <2>1, <2>2, <2>3, <2>4 DEF ClientOK
<1> QED BY <1>2, <1>3, <1>4, ClientStep DEF DiscoveryFails

\* The response that is read still holds, and leaves time until the refresh and for it
\* (Registered).
LEMMA RegisteredPreserves ==
  ASSUME ClientIInv, NEW c \in Client, Registered(c)
  PROVE  ClientIInv'
<1> USE ClientAssumption
<1>1. Types /\ ClientOK(c) /\ pc[c] = "sent" /\ mail[c].kind = "success"
  BY DEF ClientIInv, Registered
<1>2. PICK d \in refreshDelay(Granted(mail[c])) : Rest(c, "refresh", d)
  BY DEF Registered
<1>3. Granted(mail[c]) = grant /\ grant \in Grants
  BY <1>1 DEF ClientOK, RepliesStand, Types, RegistrarTypes
<1>4. d \in Nat /\ d + 2 * Timeout < grant
  BY <1>2, <1>3, DelayFits
<1>5. ClientTypes' /\ EventTypes'
  BY <1>1, <1>2, <1>4, MailKinds, SMT DEF Registered, Rest, Read, Types, ClientTypes, EventTypes,
     Suffix, Phases, Ended, Sleeping
<1>6. \A e \in Client \ {c} : Aside(e)
  BY <1>1, <1>2, SMT DEF Registered, Rest, Read, Aside, Types, ClientTypes, EventTypes
<1>7. ClientOK(c)'
  <2>1. pc'[c] = "refresh" /\ sleep'[c] = d /\ mail'[c] = NoMail /\ suffix' = suffix
        /\ anew' = anew /\ UNCHANGED registrarVars
    BY <1>1, <1>2 DEF Registered, Rest, Read, Types, ClientTypes
  <2>2. MailExpected(c)' /\ OneName(c)' /\ RefreshInTime(c)'
    BY <1>1, <2>1, MailKinds DEF registrarVars, ClientOK, MailExpected, OneName,
       RefreshInTime, Ended
  <2>3. Held(c)' /\ d + Timeout < left[suffix[c]]
    BY <1>1, <1>4, <2>1, SMT DEF registrarVars, ClientOK, RepliesStand, Held, Types, ClientTypes,
       RegistrarTypes
  <2>4. RepliesStand(c)'
    BY <2>1, <2>3, MailKinds DEF registrarVars, RepliesStand
  <2> QED BY <2>2, <2>4 DEF ClientOK
<1> QED BY <1>5, <1>6, <1>7, ClientStep DEF Registered

\* A client that learns of a conflict has no name, and asks for one it never had
\* (Conflict).
LEMMA ConflictPreserves ==
  ASSUME ClientIInv, NEW c \in Client, Conflict(c)
  PROVE  ClientIInv'
<1> USE ClientAssumption
<1>1. Types /\ ClientOK(c) /\ pc[c] = "sent" /\ mail[c].kind = "conflict"
  BY DEF ClientIInv, Conflict
<1>2. /\ pc' \in [Client -> Phases] /\ attempt' \in [Client -> 0..MaxRenames]
      /\ sleep' \in [Client -> Nat] /\ backoff' \in [Client -> MinBackoff..MaxBackoff]
      /\ pc'[c] \in {"registering", "backoff"}
      /\ \A e \in Client \ {c} : pc'[e] = pc[e] /\ sleep'[e] = sleep[e]
  <2>1. CASE attempt[c] < MaxRenames
    BY <1>1, <2>1, SMT DEF Conflict, Types, ClientTypes, Phases
  <2>2. CASE ~(attempt[c] < MaxRenames)
    BY <1>1, <2>2, SMT DEF Conflict, CycleFails, Rest, Min2, Types, ClientTypes, Phases, Sleeping
  <2> QED BY <2>1, <2>2
<1>3. /\ suffix' = [suffix EXCEPT ![c] = suffix[c] + 1] /\ suffix[c] + 1 \in Suffix
      /\ mail' = [mail EXCEPT ![c] = NoMail] /\ wait' = [wait EXCEPT ![c] = 0]
  BY <1>1, SMT DEF Conflict, Read, Types, ClientTypes, Suffix
<1>4. ClientTypes' /\ EventTypes'
  BY <1>1, <1>2, <1>3, MailKinds, SMT DEF Conflict, Types, ClientTypes, EventTypes
<1>5. \A e \in Client \ {c} : Aside(e)
  BY <1>1, <1>2, <1>3, SMT DEF Conflict, Aside, Types, ClientTypes, EventTypes
<1>6. ClientOK(c)'
  <2>1. c \notin anew /\ \A n \in Suffix : holder[n] # c
    BY <1>1 DEF ClientOK, MailExpected, OneName, RepliesStand, Held, Ended
  <2>2. /\ mail'[c] = NoMail /\ holder' = holder /\ anew' = anew
        /\ suffix'[c] \in Suffix
    BY <1>1, <1>3 DEF Conflict, registrarVars, Types, ClientTypes
  <2>3. OneName(c)' /\ ~Held(c)'
    BY <2>1, <2>2 DEF OneName, Held
  <2> QED BY <1>2, <2>1, <2>2, <2>3, MailKinds DEF ClientOK, MailExpected, RepliesStand,
             RefreshInTime
<1> QED BY <1>4, <1>5, <1>6, ClientStep DEF Conflict

\* A failure is only read after a fault (Refused).
LEMMA RefusedPreserves ==
  ASSUME ClientIInv, NEW c \in Client, Refused(c)
  PROVE  ClientIInv'
<1> USE ClientAssumption
<1>1. Types /\ ClientOK(c)
  BY DEF ClientIInv
<1>2. ClientTypes' /\ EventTypes'
  BY <1>1, MailKinds, SMT DEF Refused, Rest, Read, CycleFails, TimedOut, Min2, Types, ClientTypes,
     EventTypes, Suffix, Phases, Ended, Sleeping
<1>3. \A d \in Client \ {c} : Aside(d)
  BY <1>1 DEF Refused, Rest, Read, CycleFails, TimedOut, Aside, Types, ClientTypes, EventTypes
<1>4. ClientOK(c)'
  <2>1. MailExpected(c)'
    BY <1>1, MailKinds, SMT DEF Refused, Rest, Read, CycleFails, TimedOut, Types, ClientTypes,
       ClientOK, MailExpected, Ended
  <2>2. OneName(c)'
    BY <1>1 DEF Refused, Rest, Read, CycleFails, TimedOut, registrarVars, Types, ClientTypes,
       ClientOK, OneName
  <2>3. RepliesStand(c)'
    BY <1>1, MailKinds, SMT DEF Refused, Rest, Read, CycleFails, TimedOut, registrarVars, Types,
       ClientTypes, ClientOK, MailExpected, RepliesStand, Held
  <2>4. RefreshInTime(c)'
    BY <1>1, MailKinds DEF Refused, Rest, Read, CycleFails, TimedOut, registrarVars, Types,
       ClientTypes, EventTypes, ClientOK, MailExpected, RepliesStand, RefreshInTime, Held
  <2> QED BY <2>1, <2>2, <2>3, <2>4 DEF ClientOK
<1> QED BY <1>2, <1>3, <1>4, ClientStep DEF Refused

\* The refresh begins with time left for its round trip (Wake).
LEMMA WakePreserves ==
  ASSUME ClientIInv, NEW c \in Client, Wake(c)
  PROVE  ClientIInv'
<1> USE ClientAssumption
<1>1. Types /\ ClientOK(c)
  BY DEF ClientIInv
<1>2. ClientTypes' /\ EventTypes'
  BY <1>1, MailKinds DEF Wake, Sleeping, Types, ClientTypes, EventTypes, Suffix, Phases,
     Ended, Sleeping
<1>3. \A d \in Client \ {c} : Aside(d)
  BY <1>1 DEF Wake, Sleeping, Aside, Types, ClientTypes, EventTypes
<1>4. ClientOK(c)'
  <2>1. MailExpected(c)'
    BY <1>1, MailKinds DEF Wake, Sleeping, Types, ClientTypes, ClientOK, MailExpected, Ended
  <2>2. OneName(c)'
    BY <1>1 DEF Wake, Sleeping, registrarVars, Types, ClientTypes, ClientOK, OneName
  <2>3. RepliesStand(c)'
    BY <1>1, MailKinds DEF Wake, Sleeping, registrarVars, Types, ClientTypes, ClientOK,
       MailExpected, RepliesStand, Held
  <2>4. RefreshInTime(c)'
    BY <1>1, MailKinds, SMT DEF Wake, Sleeping, registrarVars, Types, ClientTypes, EventTypes,
       ClientOK, MailExpected, RepliesStand, RefreshInTime, Held
  <2> QED BY <2>1, <2>2, <2>3, <2>4 DEF ClientOK
<1> QED BY <1>2, <1>3, <1>4, ClientStep DEF Wake

\* A stopped client makes no claim (Stopped).
LEMMA StoppedPreserves ==
  ASSUME ClientIInv, NEW c \in Client, Stopped(c)
  PROVE  ClientIInv'
<1> USE ClientAssumption
<1>1. Types /\ ClientOK(c)
  BY DEF ClientIInv
<1>2. ClientTypes' /\ EventTypes'
  BY <1>1, MailKinds, SMT DEF Stopped, Rest, ctxSleepEnds, Sleeping, Types, ClientTypes,
     EventTypes, Suffix, Phases, Ended, Sleeping
<1>3. \A d \in Client \ {c} : Aside(d)
  BY <1>1 DEF Stopped, Rest, ctxSleepEnds, Sleeping, Aside, Types, ClientTypes, EventTypes
<1>4. ClientOK(c)'
  <2>1. MailExpected(c)'
    BY <1>1, MailKinds DEF Stopped, Rest, ctxSleepEnds, Sleeping, Types, ClientTypes,
       ClientOK, MailExpected, Ended
  <2>2. OneName(c)'
    BY <1>1 DEF Stopped, Rest, ctxSleepEnds, Sleeping, registrarVars, Types, ClientTypes,
       ClientOK, OneName
  <2>3. RepliesStand(c)'
    BY <1>1, MailKinds DEF Stopped, Rest, ctxSleepEnds, Sleeping, registrarVars, Types,
       ClientTypes, ClientOK, MailExpected, RepliesStand, Held
  <2>4. RefreshInTime(c)'
    BY <1>1, MailKinds, SMT DEF Stopped, Rest, ctxSleepEnds, Sleeping, registrarVars, Types,
       ClientTypes, EventTypes, ClientOK, MailExpected, RepliesStand, RefreshInTime, Held
  <2> QED BY <2>1, <2>2, <2>3, <2>4 DEF ClientOK
<1> QED BY <1>2, <1>3, <1>4, ClientStep DEF Stopped

\* A client is gone only after a removal that left it without a name (Deregistered).
LEMMA DeregisteredPreserves ==
  ASSUME ClientIInv, NEW c \in Client, Deregistered(c)
  PROVE  ClientIInv'
<1> USE ClientAssumption
<1>1. Types /\ ClientOK(c)
  BY DEF ClientIInv
<1>2. ClientTypes' /\ EventTypes'
  BY <1>1, MailKinds, SMT DEF Deregistered, Read, TimedOut, Types, ClientTypes, EventTypes, Suffix,
     Phases, Ended, Sleeping
<1>3. \A d \in Client \ {c} : Aside(d)
  BY <1>1 DEF Deregistered, Read, TimedOut, Aside, Types, ClientTypes, EventTypes
<1>4. ClientOK(c)'
  <2>1. MailExpected(c)'
    BY <1>1, MailKinds, SMT DEF Deregistered, Read, TimedOut, Types, ClientTypes, ClientOK,
       MailExpected, Ended
  <2>2. OneName(c)'
    BY <1>1 DEF Deregistered, Read, TimedOut, registrarVars, Types, ClientTypes, ClientOK,
       OneName
  <2>3. RepliesStand(c)'
    BY <1>1, MailKinds, SMT DEF Deregistered, Read, TimedOut, registrarVars, Types, ClientTypes,
       ClientOK, MailExpected, RepliesStand, Held
  <2>4. RefreshInTime(c)'
    BY <1>1, MailKinds, SMT DEF Deregistered, Read, TimedOut, registrarVars, Types, ClientTypes,
       EventTypes, ClientOK, MailExpected, RepliesStand, RefreshInTime, Held
  <2> QED BY <2>1, <2>2, <2>3, <2>4 DEF ClientOK
<1> QED BY <1>2, <1>3, <1>4, ClientStep DEF Deregistered

\* Cancelling a context changes nothing else (Cancel).
LEMMA CancelPreserves ==
  ASSUME ClientIInv, NEW c \in Client, Cancel(c)
  PROVE  ClientIInv'
<1> USE ClientAssumption
<1>1. Types /\ ClientOK(c)
  BY DEF ClientIInv
<1>2. ClientTypes' /\ EventTypes'
  BY <1>1, MailKinds, SMT DEF Cancel, Spend, Types, ClientTypes, EventTypes, Suffix, Phases, Ended,
     Sleeping
<1>3. \A d \in Client \ {c} : Aside(d)
  BY <1>1 DEF Cancel, Spend, Aside, Types, ClientTypes, EventTypes
<1>4. ClientOK(c)'
  <2>1. MailExpected(c)'
    BY <1>1, MailKinds DEF Cancel, Spend, Types, ClientTypes, ClientOK, MailExpected, Ended
  <2>2. OneName(c)'
    BY <1>1 DEF Cancel, Spend, registrarVars, Types, ClientTypes, ClientOK, OneName
  <2>3. RepliesStand(c)'
    BY <1>1, MailKinds DEF Cancel, Spend, registrarVars, Types, ClientTypes, ClientOK,
       MailExpected, RepliesStand, Held
  <2>4. RefreshInTime(c)'
    BY <1>1, MailKinds DEF Cancel, Spend, registrarVars, Types, ClientTypes, EventTypes,
       ClientOK, MailExpected, RepliesStand, RefreshInTime, Held
  <2> QED BY <2>1, <2>2, <2>3, <2>4 DEF ClientOK
<1> QED BY <1>2, <1>3, <1>4, ClientStep DEF Cancel

\* A removal is sent when nothing else is on its way (Deregister).
LEMMA DeregisterPreserves ==
  ASSUME ClientIInv, NEW c \in Client, Deregister(c)
  PROVE  ClientIInv'
<1> USE ClientAssumption
<1>1. Types /\ ClientOK(c)
  BY DEF ClientIInv
<1>2. ClientTypes' /\ EventTypes'
  BY <1>1, MailKinds, SMT DEF Deregister, Types, ClientTypes, EventTypes, Suffix, Phases, Ended,
     Sleeping
<1>3. \A d \in Client \ {c} : Aside(d)
  BY <1>1 DEF Deregister, Aside, Types, ClientTypes, EventTypes
<1>4. ClientOK(c)'
  <2>1. MailExpected(c)'
    BY <1>1, MailKinds, SMT DEF Deregister, Types, ClientTypes, ClientOK, MailExpected, Ended
  <2>2. OneName(c)'
    BY <1>1 DEF Deregister, registrarVars, Types, ClientTypes, ClientOK, OneName
  <2>3. RepliesStand(c)'
    BY <1>1, MailKinds, SMT DEF Deregister, registrarVars, Types, ClientTypes, ClientOK,
       MailExpected, RepliesStand, Held
  <2>4. RefreshInTime(c)'
    BY <1>1, MailKinds, SMT DEF Deregister, registrarVars, Types, ClientTypes, EventTypes,
       ClientOK, MailExpected, RepliesStand, RefreshInTime, Held
  <2> QED BY <2>1, <2>2, <2>3, <2>4 DEF ClientOK
<1> QED BY <1>2, <1>3, <1>4, ClientStep DEF Deregister

\* A new process makes no claim on the old names (Restart).
LEMMA RestartPreserves ==
  ASSUME ClientIInv, NEW c \in Client, Restart(c)
  PROVE  ClientIInv'
<1> USE ClientAssumption
<1>1. Types /\ ClientOK(c)
  BY DEF ClientIInv
<1>2. ClientTypes' /\ EventTypes'
  BY <1>1, MailKinds, SMT DEF Restart, Types, ClientTypes, EventTypes, Suffix, Phases, Ended,
     Sleeping
<1>3. \A d \in Client \ {c} : Aside(d)
  BY <1>1 DEF Restart, Aside, Types, ClientTypes, EventTypes
<1>4. ClientOK(c)'
  <2>1. MailExpected(c)'
    BY <1>1, MailKinds DEF Restart, Types, ClientTypes, ClientOK, MailExpected, Ended
  <2>2. OneName(c)'
    BY <1>1 DEF Restart, registrarVars, Types, ClientTypes, ClientOK, OneName
  <2>3. RepliesStand(c)'
    BY <1>1, MailKinds DEF Restart, registrarVars, Types, ClientTypes, ClientOK, MailExpected,
       RepliesStand, Held
  <2>4. RefreshInTime(c)'
    BY <1>1, MailKinds DEF Restart, registrarVars, Types, ClientTypes, EventTypes, ClientOK,
       MailExpected, RepliesStand, RefreshInTime, Held
  <2> QED BY <2>1, <2>2, <2>3, <2>4 DEF ClientOK
<1> QED BY <1>2, <1>3, <1>4, ClientStep DEF Restart

\* A client that is denied a name does not have it (Deny).
LEMMA DenyPreserves ==
  ASSUME ClientIInv, NEW c \in Client, Deny(c), mail[c].kind \in {"register", "remove"},
         UNCHANGED <<pc, suffix, attempt, sleep, backoff, wait, cancelled, anew, spent>>
  PROVE  ClientIInv'
<1> USE ClientAssumption
<1>1. Types /\ ClientOK(c) /\ NamesKept
  BY DEF ClientIInv
<1>2. mail' = [mail EXCEPT ![c] = [kind |-> "conflict"]] /\ UNCHANGED registrarVars
  BY DEF Deny
<1>3. ClientTypes' /\ EventTypes'
  BY <1>1, <1>2, MailKinds DEF Types, ClientTypes, EventTypes
<1>4. \A d \in Client \ {c} : Aside(d)
  BY <1>1, <1>2 DEF Aside, Types, ClientTypes
<1>5. ClientOK(c)'
  <2>1. mail'[c].kind = "conflict"
    BY <1>1, <1>2, MailKinds DEF Types, ClientTypes
  <2>2. ~Held(c)'
    BY <1>1, <1>2 DEF Deny, Held, NamesKept, Types, ClientTypes, registrarVars
  <2>3. pc[c] \in {"sent", "leaving"}
    BY <1>1 DEF ClientOK, MailExpected
  <2>4. MailExpected(c)' /\ OneName(c)'
    BY <1>1, <1>2, <2>1, <2>3 DEF ClientOK, MailExpected, OneName, registrarVars
  <2> QED BY <2>1, <2>2, <2>3, <2>4 DEF ClientOK, RepliesStand, RefreshInTime
<1> QED BY <1>2, <1>3, <1>4, <1>5, ClientStep

\* A name that is granted was nobody's or the client's own, and its LEASE begins when the
\* response leaves (Serve).
LEMMA ServePreserves ==
  ASSUME ClientIInv, NEW c \in Client, Serve(c)
  PROVE  ClientIInv'
<1> USE ClientAssumption
<1> DEFINE n == suffix[c]
<1>1. Types /\ ClientOK(c) /\ NamesKept /\ n \in Suffix /\ n \in Nat
  BY SMT DEF ClientIInv, Types, ClientTypes, Suffix
<1>2. /\ mail[c].kind = "register"
      /\ UNCHANGED <<pc, suffix, attempt, sleep, backoff, wait, cancelled, anew, spent>>
  BY DEF Serve
<1>3. CASE Deny(c)
  BY <1>2, <1>3, DenyPreserves
<1>4. CASE ~Deny(c)
  <2>1. /\ n \notin Taken /\ holder[n] \in {c, Nobody} /\ grant' = grant
        /\ holder' = [holder EXCEPT ![n] = c] /\ left' = [left EXCEPT ![n] = grant]
        /\ keyLeft' = [keyLeft EXCEPT ![n] = KeyLease]
    BY <1>4 DEF Serve
  <2>2. PICK option \in {grant} \cup (IF grant = RequestedLease THEN {NoOption} ELSE {}) :
          mail' = [mail EXCEPT ![c] = [kind |-> "success", lease |-> option]]
    BY <1>4 DEF Serve
  <2>3. grant \in Grants /\ grant \in 0..KeyLease /\ option \in Grants \cup {NoOption}
    BY <1>1, <2>2, SMT DEF Types, RegistrarTypes
  <2>4. Types'
    <3>1. mail' \in [Client -> Mail]
      BY <1>1, <2>2, <2>3, MailKinds DEF Types, ClientTypes
    <3>2. ClientTypes' /\ EventTypes'
      BY <1>1, <1>2, <3>1 DEF Types, ClientTypes, EventTypes
    <3>3. RegistrarTypes'
      BY <1>1, <2>1, <2>3, SMT DEF Types, RegistrarTypes
    <3> QED BY <3>2, <3>3 DEF Types
  <2>5. NamesKept'
    BY <1>1, <2>1, <2>3 DEF NamesKept, Types, RegistrarTypes, Suffix
  <2>6. ASSUME NEW d \in Client \ {c} PROVE ClientOK(d)'
    <3>1. Aside(d) /\ ClientOK(d)
      BY <1>1, <1>2, <2>2 DEF Aside, ClientIInv, Types, ClientTypes
    <3>2. \A m \in Suffix : /\ holder'[m] = d => holder[m] = d
                            /\ holder[m] = d => holder'[m] = d /\ left'[m] = left[m]
      BY <1>1, <2>1 DEF Types, RegistrarTypes
    <3> QED BY <1>1, <2>1, <3>1, <3>2, OthersKeep
  <2>7. ClientOK(c)'
    <3>1. pc[c] = "sent" /\ c \notin anew
      BY <1>1, <1>2 DEF ClientOK, MailExpected, Ended
    <3>2. mail'[c].kind = "success" /\ Granted(mail'[c]) = grant
      BY <1>1, <2>2, <2>3, MailKinds, SMT DEF Granted, Types, ClientTypes
    <3>3. holder'[suffix'[c]] = c /\ left'[suffix'[c]] = grant
      BY <1>1, <1>2, <2>1 DEF Types, RegistrarTypes
    <3>4. MailExpected(c)' /\ RefreshInTime(c)'
      BY <1>2, <3>1, <3>2 DEF MailExpected, RefreshInTime
    <3>5. OneName(c)'
      BY <1>1, <1>2, <2>1, <3>1 DEF ClientOK, OneName, Types, RegistrarTypes
    <3>6. RepliesStand(c)'
      BY <1>1, <1>2, <2>1, <2>3, <3>1, <3>2, <3>3, SMT DEF RepliesStand, Held, Types, ClientTypes
    <3> QED BY <3>4, <3>5, <3>6 DEF ClientOK
  <2> QED BY <2>4, <2>5, <2>6, <2>7 DEF ClientIInv
<1> QED BY <1>3, <1>4

\* A removal that succeeds leaves the client without the name, and no other client's
\* name is touched (ServeRemoval).
LEMMA ServeRemovalPreserves ==
  ASSUME ClientIInv, NEW c \in Client, ServeRemoval(c)
  PROVE  ClientIInv'
<1> USE ClientAssumption
<1> DEFINE n == suffix[c]
<1>1. Types /\ ClientOK(c) /\ NamesKept /\ n \in Suffix /\ n \in Nat
  BY SMT DEF ClientIInv, Types, ClientTypes, Suffix
<1>2. /\ mail[c].kind = "remove"
      /\ UNCHANGED <<pc, suffix, attempt, sleep, backoff, wait, cancelled, anew, spent>>
  BY DEF ServeRemoval
<1>3. CASE Deny(c)
  BY <1>2, <1>3, DenyPreserves
<1>4. CASE ~Deny(c)
  <2>1. /\ n \notin Taken /\ holder[n] \in {c, Nobody} /\ grant' = grant
        /\ holder' = [holder EXCEPT ![n] = Nobody] /\ left' = [left EXCEPT ![n] = 0]
        /\ keyLeft' = [keyLeft EXCEPT ![n] = 0]
        /\ mail' = [mail EXCEPT ![c] = [kind |-> "success", lease |-> NoOption]]
    BY <1>4 DEF ServeRemoval
  <2>2. Types'
    <3>1. mail' \in [Client -> Mail]
      BY <1>1, <2>1, MailKinds DEF Types, ClientTypes
    <3>2. ClientTypes' /\ EventTypes'
      BY <1>1, <1>2, <3>1 DEF Types, ClientTypes, EventTypes
    <3>3. RegistrarTypes'
      BY <1>1, <2>1, SMT DEF Types, RegistrarTypes
    <3> QED BY <3>2, <3>3 DEF Types
  <2>3. NamesKept'
    BY <1>1, <2>1, SMT DEF NamesKept, Types, RegistrarTypes, Suffix
  <2>4. ASSUME NEW d \in Client \ {c} PROVE ClientOK(d)'
    <3>1. Aside(d) /\ ClientOK(d)
      BY <1>1, <1>2, <2>1 DEF Aside, ClientIInv, Types, ClientTypes
    <3>2. \A m \in Suffix : /\ holder'[m] = d => holder[m] = d
                            /\ holder[m] = d => holder'[m] = d /\ left'[m] = left[m]
      BY <1>1, <2>1 DEF Types, RegistrarTypes
    <3> QED BY <1>1, <2>1, <3>1, <3>2, OthersKeep
  <2>5. ClientOK(c)'
    <3>1. pc[c] = "leaving"
      BY <1>1, <1>2 DEF ClientOK, MailExpected
    <3>2. mail'[c].kind = "success"
      BY <1>1, <2>1, MailKinds, SMT DEF Types, ClientTypes
    <3>3. ~Held(c)'
      BY <1>1, <1>2, <2>1 DEF Held, Types, RegistrarTypes
    <3>4. MailExpected(c)' /\ RefreshInTime(c)'
      BY <1>2, <3>1, <3>2 DEF MailExpected, RefreshInTime, Ended
    <3>5. OneName(c)'
      BY <1>1, <1>2, <2>1 DEF ClientOK, OneName, Types, RegistrarTypes
    <3>6. RepliesStand(c)'
      BY <1>2, <3>1, <3>2, <3>3 DEF RepliesStand
    <3> QED BY <3>4, <3>5, <3>6 DEF ClientOK
  <2> QED BY <2>2, <2>3, <2>4, <2>5 DEF ClientIInv
<1> QED BY <1>3, <1>4

\* Every LEASE that is granted outlives two round trips (refreshDelay's floor).
LEMMA GrantPositive ==
  ASSUME ClientIInv
  PROVE  grant \in Nat /\ 2 * Timeout < grant
<1>1. grant \in Grants /\ grant \in Nat
  BY ClientAssumption DEF ClientIInv, Types, RegistrarTypes
<1>2. (80 * grant) \div 100 \in (80 * grant) \div 100 .. (85 * grant) \div 100
  BY <1>1, SMT
<1>3. PICK d \in refreshDelay(grant) : TRUE
  BY <1>2, SMT DEF refreshDelay
<1>4. d \in Nat /\ d + 2 * Timeout < grant
  BY <1>1, <1>3, DelayFits
<1> QED BY <1>1, <1>4, ClientAssumption, SMT

\* What is left after one unit of time (ctxSleep, the leases).
LEMMA LessIsOneLess ==
  ASSUME NEW S, NEW f \in [S -> Nat]
  PROVE  /\ Less(f) \in [S -> Nat]
         /\ \A x \in S : /\ Less(f)[x] <= f[x]
                         /\ f[x] # 0 => Less(f)[x] = f[x] - 1
                         /\ f[x] = 0 => Less(f)[x] = 0
  BY SMT DEF Less

\* While a response is on its way, the wait for it and the lease it grants go down alike,
\* and the lease is not over (Tick).
LEMMA RoundTripLeft ==
  \A g, w, l \in Nat : w # 0 /\ g + w <= l + Timeout /\ 2 * Timeout < g =>
    l # 0 /\ l - 1 # 0 /\ g + (w - 1) <= (l - 1) + Timeout
  BY ClientAssumption, SMT

\* A lease that outlasts a wait that is not over, or a sleep and a round trip, has more
\* than one unit of time left, and is not over one unit later (Tick).
LEMMA TimeLeft ==
  \A l \in Nat :
    /\ l # 0 /\ l - 1 # 0 => 1 < l
    /\ \A w \in Nat : w # 0 /\ w < l => 1 < l
    /\ \A s \in Nat : s # 0 /\ s + Timeout < l => 1 < l
    /\ \A k \in Nat : 1 < l /\ l <= k =>
         /\ l # 0 /\ l - 1 > 0
         /\ k # 0 /\ k - 1 # 0
  BY ClientAssumption, SMT

\* One unit of time takes one off every count that is not yet zero: the sleeps, the waits
\* for a response and what is left of the leases (Tick).
LEMMA TickCounts ==
  ASSUME ClientIInv, Tick
  PROVE  /\ sleep \in [Client -> Nat] /\ wait \in [Client -> Nat]
         /\ left \in [Suffix -> Nat] /\ keyLeft \in [Suffix -> Nat]
         /\ \A c \in Client : /\ sleep'[c] \in Nat /\ wait'[c] \in Nat /\ wait'[c] <= wait[c]
                              /\ sleep[c] # 0 => sleep'[c] = sleep[c] - 1
                              /\ wait[c] # 0 => wait'[c] = wait[c] - 1
         /\ \A n \in Suffix : /\ left'[n] \in Nat /\ keyLeft'[n] \in Nat
                              /\ left'[n] <= left[n] /\ keyLeft'[n] <= keyLeft[n]
                              /\ left[n] # 0 => left'[n] = left[n] - 1
                              /\ left[n] = 0 => left'[n] = 0
                              /\ keyLeft[n] # 0 => keyLeft'[n] = keyLeft[n] - 1
<1>1. /\ sleep \in [Client -> Nat] /\ wait \in [Client -> Nat]
      /\ left \in [Suffix -> Nat] /\ keyLeft \in [Suffix -> Nat]
  BY ClientAssumption, SMT DEF ClientIInv, Types, ClientTypes, RegistrarTypes
<1>2. /\ sleep' = Less(sleep) /\ wait' = Less(wait)
      /\ left' = Less(left) /\ keyLeft' = Less(keyLeft)
  BY DEF Tick
<1>3. \A c \in Client : /\ sleep'[c] \in Nat /\ wait'[c] \in Nat /\ wait'[c] <= wait[c]
                        /\ sleep[c] # 0 => sleep'[c] = sleep[c] - 1
                        /\ wait[c] # 0 => wait'[c] = wait[c] - 1
  BY <1>1, <1>2, LessIsOneLess, SMT
<1>4. \A n \in Suffix : /\ left'[n] \in Nat /\ keyLeft'[n] \in Nat
                        /\ left'[n] <= left[n] /\ keyLeft'[n] <= keyLeft[n]
                        /\ left[n] # 0 => left'[n] = left[n] - 1
                        /\ left[n] = 0 => left'[n] = 0
                        /\ keyLeft[n] # 0 => keyLeft'[n] = keyLeft[n] - 1
  BY <1>1, <1>2, LessIsOneLess, SMT
<1> QED BY <1>1, <1>3, <1>4

\* Time passes for the clients and the leases alike: a sleep that is longer than nothing
\* brings the refresh no nearer to the end of the lease (Tick).
LEMMA TickPreserves ==
  ASSUME ClientIInv, Tick
  PROVE  ClientIInv'
<1> USE ClientAssumption
<1>1. Types /\ NamesKept
  BY DEF ClientIInv
<1>2. /\ sleep \in [Client -> Nat] /\ wait \in [Client -> Nat]
      /\ left \in [Suffix -> Nat] /\ keyLeft \in [Suffix -> Nat]
  BY TickCounts
<1>3. /\ sleep' = Less(sleep) /\ wait' = Less(wait)
      /\ left' = Less(left) /\ keyLeft' = Less(keyLeft)
      /\ holder' = [n \in Suffix |-> IF keyLeft'[n] = 0 THEN Nobody ELSE holder[n]]
      /\ UNCHANGED <<pc, suffix, attempt, backoff, mail, cancelled, grant, anew, spent>>
  BY DEF Tick
<1>4. \A c \in Client : /\ sleep'[c] \in Nat /\ wait'[c] \in Nat /\ wait'[c] <= wait[c]
                        /\ sleep[c] # 0 => sleep'[c] = sleep[c] - 1
                        /\ wait[c] # 0 => wait'[c] = wait[c] - 1
  BY TickCounts
<1>5. \A n \in Suffix : /\ left'[n] \in Nat /\ keyLeft'[n] \in Nat
                        /\ left'[n] <= left[n] /\ keyLeft'[n] <= keyLeft[n]
                        /\ left[n] # 0 => left'[n] = left[n] - 1
                        /\ left[n] = 0 => left'[n] = 0
                        /\ keyLeft[n] # 0 => keyLeft'[n] = keyLeft[n] - 1
  BY TickCounts
<1>6. Types'
  <2>1. sleep' \in [Client -> Nat] /\ wait' \in [Client -> 0..Timeout]
    BY <1>1, <1>2, <1>3, <1>4, LessIsOneLess, SMT DEF Types, ClientTypes
  <2>2. left' \in [Suffix -> 0..KeyLease] /\ keyLeft' \in [Suffix -> 0..KeyLease]
    BY <1>1, <1>2, <1>3, <1>5, LessIsOneLess, SMT DEF Types, RegistrarTypes
  <2>3. ClientTypes' /\ EventTypes'
    BY <1>1, <1>3, <2>1 DEF Types, ClientTypes, EventTypes
  <2>4. RegistrarTypes'
    BY <1>1, <1>3, <2>2 DEF Types, RegistrarTypes
  <2> QED BY <2>3, <2>4 DEF Types
<1>7. NamesKept'
  BY <1>1, <1>2, <1>3, <1>5, SMT DEF NamesKept
<1>8. ASSUME NEW c \in Client PROVE ClientOK(c)'
  <2>1. ClientOK(c) /\ suffix[c] \in Suffix /\ suffix'[c] = suffix[c] /\ ~Urgent(c)
    BY <1>1, <1>3 DEF ClientIInv, Types, ClientTypes, Tick
  <2>2. \A n \in Suffix : holder'[n] = c => holder[n] = c
    BY <1>3
  <2>3. Held(c)' => Held(c)
    BY <2>1, <2>2 DEF Held
  <2>4. Held(c) /\ left'[suffix[c]] # 0 => Held(c)'
    BY <1>2, <1>3, <1>5, <1>7, <2>1, SMT DEF Held, NamesKept
  <2>5. MailExpected(c)' /\ OneName(c)'
    BY <1>3, <2>1, <2>2 DEF ClientOK, MailExpected, OneName
  <2>6. /\ sleep[c] \in Nat /\ wait[c] \in Nat /\ left[suffix[c]] \in Nat
        /\ grant \in Nat /\ 2 * Timeout < grant
    BY <1>2, <2>1, GrantPositive
  <2>7. RepliesStand(c)'
    <3>1. CASE pc[c] = "refresh"
      <4>1. Held(c) /\ sleep[c] + Timeout < left[suffix[c]] /\ sleep[c] # 0
        BY <2>1, <3>1 DEF ClientOK, RepliesStand, Urgent, Sleeping
      <4>2. Held(c)' /\ sleep'[c] + Timeout < left'[suffix'[c]]
        BY <1>4, <1>5, <2>1, <2>4, <2>6, <4>1, SMT
      <4>3. mail'[c].kind # "conflict"
        BY <1>3, <2>1, <3>1 DEF ClientOK, MailExpected
      <4> QED BY <1>3, <3>1, <4>2, <4>3 DEF RepliesStand
    <3>2. CASE pc[c] = "sent"
      <4>1. wait[c] # 0 /\ pc' = pc /\ mail' = mail /\ grant' = grant
        BY <1>3, <2>1, <3>2 DEF Urgent
      <4>2. mail[c].kind = "conflict" => ~Held(c)'
        BY <2>1, <2>3 DEF ClientOK, RepliesStand
      <4>3. ASSUME mail[c].kind = "success"
            PROVE  /\ Held(c)' /\ Granted(mail[c]) = grant
                   /\ grant + wait'[c] <= left'[suffix[c]] + Timeout
        <5>1. /\ Held(c) /\ Granted(mail[c]) = grant
              /\ grant + wait[c] <= left[suffix[c]] + Timeout
          BY <2>1, <3>2, <4>3 DEF ClientOK, RepliesStand
        <5>2. /\ left[suffix[c]] # 0 /\ left[suffix[c]] - 1 # 0
              /\ grant + (wait[c] - 1) <= (left[suffix[c]] - 1) + Timeout
          BY <2>6, <4>1, <5>1, RoundTripLeft
        <5>3. wait'[c] = wait[c] - 1 /\ left'[suffix[c]] = left[suffix[c]] - 1
          BY <1>4, <1>5, <2>1, <4>1, <5>2
        <5> QED BY <2>4, <5>1, <5>2, <5>3
      <4> QED BY <2>1, <3>2, <4>1, <4>2, <4>3 DEF RepliesStand, Granted
    <3>3. CASE pc[c] \notin {"refresh", "sent"}
      BY <1>3, <2>1, <2>3, <3>3 DEF ClientOK, RepliesStand
    <3> QED BY <3>1, <3>2, <3>3
  <2>8. RefreshInTime(c)'
    BY <1>3, <1>4, <1>5, <2>1, <2>3, <2>6, SMT DEF ClientOK, RefreshInTime, Urgent
  <2> QED BY <2>5, <2>7, <2>8 DEF ClientOK
<1> QED BY <1>6, <1>7, <1>8 DEF ClientIInv

---------------------------------------------------------------------------
(* Results.                                                                 *)

\* Every step of a client, the registrar, the network or the clock keeps the inductive
\* invariant (Client.Run, Client.Deregister).
LEMMA StepPreserves == ClientIInv /\ [Next]_vars => ClientIInv'
<1> SUFFICES ASSUME ClientIInv, [Next]_vars PROVE ClientIInv'
  OBVIOUS
<1>1. CASE Tick
  BY <1>1, TickPreserves
<1>2. ASSUME NEW c \in Client, Answer(c) PROVE ClientIInv'
  BY <1>2, ServePreserves, ServeRemovalPreserves, ServeFailsPreserves, LosePreserves DEF
     Answer
<1>3. ASSUME NEW c \in Client, Go(c) PROVE ClientIInv'
  BY <1>3, RegisterPreserves, DiscoveryFailsPreserves, RegisteredPreserves, ConflictPreserves,
     RefusedPreserves, WakePreserves, StoppedPreserves, DeregisteredPreserves DEF Go
<1>4. ASSUME NEW c \in Client, Cancel(c) \/ Deregister(c) \/ Restart(c) PROVE ClientIInv'
  BY <1>4, CancelPreserves, DeregisterPreserves, RestartPreserves
<1>5. CASE UNCHANGED vars
  <2>1. UNCHANGED registrarVars /\ \A d \in Client : Aside(d)
    BY <1>5 DEF vars, clientVars, registrarVars, Aside
  <2>2. Types' /\ NamesKept'
    BY <1>5 DEF ClientIInv, vars, clientVars, registrarVars, Types, ClientTypes,
       RegistrarTypes, EventTypes, NamesKept
  <2>3. ASSUME NEW d \in Client PROVE ClientOK(d)'
    BY <2>1, OthersKeep DEF ClientIInv, registrarVars
  <2> QED BY <2>2, <2>3 DEF ClientIInv
<1> QED BY <1>1, <1>2, <1>3, <1>4, <1>5 DEF Next

\* The inductive invariant holds of every reachable state (Client.Run, Client.Deregister).
THEOREM Invariance == Spec => []ClientIInv
  BY InitEstablishes, StepPreserves, PTL DEF Spec

\* What a client believes is true: it has the name it sleeps on until the refresh, and
\* after it deregistered it has none, however the clients' rounds, conflicts, failures
\* and cancelled contexts interleave (Client.Run, Client.Deregister).
THEOREM ClientsAreRight == Spec => []ClientInv
<1>1. ClientIInv => ClientInv
  <2> SUFFICES ASSUME ClientIInv PROVE ClientInv
    OBVIOUS
  <2>1. TypeOK
    BY TypesHold DEF ClientIInv
  <2>2. BeliefIsTrue
    BY ClientAssumption, SMT DEF ClientIInv, ClientOK, RepliesStand, BeliefIsTrue, Holds, Held,
       Types, ClientTypes, RegistrarTypes
  <2>3. DeregisterWithdraws
    BY DEF ClientIInv, ClientOK, RepliesStand, OneName, Held, DeregisterWithdraws
  <2> QED BY <2>1, <2>2, <2>3 DEF ClientInv
<1> QED BY <1>1, Invariance, PTL

\* Without failures no step of any client, the registrar or the clock takes a client's
\* registration away while its Run goes on (Client.Run, refreshDelay).
LEMMA StepKeeps ==
  ASSUME ClientIInv, Next, NEW c \in Client, spent.faults = 0,
         pc[c] \in {"refresh", "registering", "sent"}, Holds(c)
  PROVE  Holds(c)'
<1> USE ClientAssumption
<1>1. Types /\ NamesKept /\ ClientOK(c) /\ Held(c) /\ suffix[c] \in Suffix
  BY DEF ClientIInv, Types, ClientTypes, Holds, Held
<1>2. c \notin anew /\ mail[c].kind # "conflict" /\ (pc[c] = "sent" => mail[c].kind # "remove")
  BY <1>1 DEF ClientOK, MailExpected, RepliesStand, Ended
<1>3. ASSUME UNCHANGED registrarVars, suffix'[c] = suffix[c] PROVE Holds(c)'
  BY <1>3 DEF Holds, registrarVars
<1>4. CASE Tick
  <2>1. left[suffix[c]] \in Nat /\ keyLeft[suffix[c]] \in Nat
        /\ left[suffix[c]] <= keyLeft[suffix[c]] /\ wait[c] \in Nat /\ sleep[c] \in Nat
    BY <1>1, <1>4, TickCounts DEF NamesKept
  <2>2. 1 < left[suffix[c]]
    <3>1. CASE pc[c] = "refresh"
      <4>1. sleep[c] # 0 /\ sleep[c] + Timeout < left[suffix[c]]
        BY <1>1, <1>4, <3>1 DEF Tick, Urgent, Sleeping, ClientOK, RepliesStand
      <4> QED BY <2>1, <4>1, TimeLeft
    <3>2. CASE pc[c] = "sent" /\ mail[c].kind = "register"
      <4>1. wait[c] # 0 /\ wait[c] < left[suffix[c]]
        BY <1>1, <1>4, <3>2 DEF Tick, Urgent, ClientOK, RefreshInTime
      <4> QED BY <2>1, <4>1, TimeLeft
    <3>3. CASE pc[c] = "sent" /\ mail[c].kind = "success"
      <4>1. wait[c] # 0 /\ grant + wait[c] <= left[suffix[c]] + Timeout
        BY <1>1, <1>4, <3>3 DEF Tick, Urgent, ClientOK, RepliesStand
      <4>2. left[suffix[c]] # 0 /\ left[suffix[c]] - 1 # 0
        BY <2>1, <4>1, GrantPositive, RoundTripLeft
      <4> QED BY <2>1, <4>2, TimeLeft
    <3> QED BY <1>1, <1>2, <1>4, <3>1, <3>2, <3>3 DEF Tick, Urgent, ClientOK, RefreshInTime
  <2>3. /\ suffix'[c] = suffix[c] /\ left'[suffix[c]] = left[suffix[c]] - 1
        /\ keyLeft'[suffix[c]] = keyLeft[suffix[c]] - 1
    <3>1. left[suffix[c]] # 0 /\ keyLeft[suffix[c]] # 0
      BY <2>1, <2>2, TimeLeft
    <3> QED BY <1>1, <1>4, <3>1, TickCounts DEF Tick
  <2>4. left'[suffix[c]] > 0 /\ keyLeft'[suffix[c]] # 0
    BY <2>1, <2>2, <2>3, TimeLeft
  <2>5. holder'[suffix[c]] = holder[suffix[c]]
    BY <1>1, <1>4, <2>4 DEF Tick
  <2> QED BY <1>1, <2>3, <2>4, <2>5 DEF Holds, Held
<1>5. ASSUME NEW e \in Client, Serve(e) PROVE Holds(c)'
  <2>1. CASE Deny(e)
    BY <1>3, <1>5, <2>1 DEF Serve, Deny
  <2>2. CASE ~Deny(e)
    <3>1. /\ holder[suffix[e]] \in {e, Nobody} /\ suffix' = suffix
          /\ holder' = [holder EXCEPT ![suffix[e]] = e]
          /\ left' = [left EXCEPT ![suffix[e]] = grant]
      BY <1>5, <2>2 DEF Serve
    <3>2. CASE e = c
      BY <1>1, <3>1, <3>2, GrantPositive, SMT DEF Holds, Types, RegistrarTypes
    <3>3. CASE e # c
      BY <1>1, <3>1, <3>3 DEF Holds, Held, Types, RegistrarTypes
    <3> QED BY <3>2, <3>3
  <2> QED BY <2>1, <2>2
<1>6. ASSUME NEW e \in Client, ServeRemoval(e) PROVE Holds(c)'
  <2>1. CASE Deny(e)
    BY <1>3, <1>6, <2>1 DEF ServeRemoval, Deny
  <2>2. CASE ~Deny(e)
    <3>1. /\ holder[suffix[e]] \in {e, Nobody} /\ suffix' = suffix
          /\ holder' = [holder EXCEPT ![suffix[e]] = Nobody]
          /\ left' = [left EXCEPT ![suffix[e]] = 0] /\ mail[e].kind = "remove"
      BY <1>6, <2>2 DEF ServeRemoval
    <3>2. e # c
      BY <1>1, <3>1 DEF ClientOK, MailExpected
    <3> QED BY <1>1, <3>1, <3>2 DEF Holds, Held, Types, RegistrarTypes
  <2> QED BY <2>1, <2>2
<1>7. ASSUME NEW e \in Client, ServeFails(e) \/ Lose(e) PROVE Holds(c)'
  BY <1>3, <1>7 DEF ServeFails, Lose
<1>8. ASSUME NEW e \in Client, Conflict(e) PROVE Holds(c)'
  <2>1. e # c
    BY <1>2, <1>8 DEF Conflict
  <2> QED BY <1>1, <1>3, <1>8, <2>1 DEF Conflict, Types, ClientTypes
<1>9. ASSUME NEW e \in Client, Go(e), ~Conflict(e) PROVE Holds(c)'
  BY <1>3, <1>9 DEF Go, Register, DiscoveryFails, Registered, Refused, Wake, Stopped,
     Deregistered
<1>10. ASSUME NEW e \in Client, Cancel(e) \/ Deregister(e) PROVE Holds(c)'
  BY <1>3, <1>10 DEF Cancel, Deregister
<1>11. ASSUME NEW e \in Client, Restart(e) PROVE Holds(c)'
  <2>1. e # c
    BY <1>11 DEF Restart
  <2> QED BY <1>1, <1>3, <1>11, <2>1 DEF Restart, Types, ClientTypes
<1> QED BY <1>4, <1>5, <1>6, <1>7, <1>8, <1>9, <1>10, <1>11 DEF Next, Answer

\* Without failures a client that is registered stays registered through every refresh,
\* as long as two round trips fit into what refreshDelay leaves of the lease (Client.Run).
THEOREM RegistrationNeverLapses == Spec => KeptAlive
<1> DEFINE Kept == \A c \in Client :
      spent.faults = 0 /\ pc[c] \in {"refresh", "registering", "sent"}
        /\ Holds(c) /\ pc'[c] # "stopped" => Holds(c)'
<1>1. ClientIInv /\ [Next]_vars => [Kept]_vars
  BY StepKeeps
<1> QED BY <1>1, Invariance, PTL DEF Spec, KeptAlive

============================================================================
