-------------------------- MODULE UpstreamLookups --------------------------
(***************************************************************************)
(* What the proxy asks before it writes (pkg/updatecore/coordinator.go):   *)
(* which zone holds a name and which server is its primary (discoverZone), *)
(* which records the server has there (queryAuthoritative and the typed    *)
(* queries on top of it), and which of the proxy's own keys signs for the  *)
(* zone (FindAuthorizedProxyKey).                                          *)
(*                                                                         *)
(* One lookup, for any state of the DNS and of the key store.  A name is a *)
(* sequence of labels, the root is empty; a server is named by its zone.   *)
(***************************************************************************)
EXTENDS Naturals, Sequences, SequencesExt, FiniteSets

CONSTANTS Name,      \* the longest name asked about
          Keys,      \* the KEYs there may be at it
          Elsewhere, \* a zone that does not enclose it
          NoZone,
          Resolvers, \* how many bootstrap resolvers there are
          UDPSize,   \* the records that fit an answer over UDP
          MaxFaults  \* bound: questions that get no answer, or a wrong one

Root == <<>>
Suffix(i) == SubSeq(Name, i, Len(Name))
Enclosing == {Suffix(i) : i \in 1..Len(Name)}

VARIABLES dns,      \* the zones, and the KEYs, PTRs and other records at the name
          static,   \* the zone of the static upstream, or NoZone
          store,    \* the number of the proxy's keys for each zone
          op,       \* the operation called
          pc,       \* what it does, or how it ended
          turn,     \* the resolver that is asked
          zone,     \* the zone found, which stands for its primary server
          result,   \* what is returned
          unread,   \* the zones whose keys could not be listed
          faults

vars == <<dns, static, store, op, pc, turn, zone, result, unread, faults>>

Queries == {"QueryKeyAtName", "QueryPTRExists", "QueryRRs"}

\* The zone that holds a name.
ZoneOf(n) ==
  LET zones == {z \in dns.zones \cup {Root} : IsSuffix(z, n)} IN
  CHOOSE z \in zones : \A y \in zones : Len(y) <= Len(z)

\* A call of one of the operations, in a DNS with one of the sets of zones and contents;
\* only what the operation looks at is varied.
Called(ops, zones, contents) ==
  /\ op \in ops
  /\ IF op = "FindAuthorizedProxyKey"
       THEN store \in [Enclosing -> 0..2] /\ dns = [zones |-> {}, keys |-> {}, ptrs |-> 0, others |-> FALSE]
       ELSE /\ store = [z \in Enclosing |-> 0]
            /\ \E z \in zones, c \in contents :
                 dns = [zones |-> z, keys |-> c.keys, ptrs |-> c.ptrs, others |-> c.others]
  \* "no zone cut lies below Zone": what configuring an upstream asserts
  /\ static \in {NoZone, Elsewhere} \cup ({ZoneOf(Name)} \ {Root})
  /\ pc = "called" /\ turn = 1 /\ zone = NoZone /\ result = "nothing"
  /\ unread = {} /\ faults = MaxFaults

Operations == Queries \cup {"ResolveAuthoritativeZone", "FindAuthorizedProxyKey"}
Contents == [keys : SUBSET Keys, ptrs : 0..2, others : BOOLEAN]

Init == Called(Operations, SUBSET Enclosing, Contents)

Fault == faults > 0 /\ faults' = faults - 1

End(how, value) ==
  pc' = how /\ result' = value /\ UNCHANGED <<dns, static, store, op, turn, unread>>

\* Where the zone is known: the query follows, if the operation is one.
Found(z) ==
  /\ zone' = z
  /\ pc' = IF op \in Queries THEN "udp" ELSE "done"
  /\ UNCHANGED <<dns, static, store, op, turn, result, unread, faults>>

\* covers: a static upstream is for its zone and the names below.
covers == static # NoZone /\ IsSuffix(static, Name)

\* ResolveSOAMasterServer, ResolveAuthoritativeZone: a static upstream needs no question.
Resolve ==
  /\ pc = "called" /\ op # "FindAuthorizedProxyKey"
  /\ IF covers THEN Found(static)
     ELSE pc' = "discover" /\ UNCHANGED <<dns, static, store, op, turn, zone, result, unread, faults>>

NextResolver ==
  /\ turn' = IF turn < Resolvers THEN turn + 1 ELSE turn
  /\ pc' = IF turn < Resolvers THEN pc ELSE "failed"
  /\ UNCHANGED <<dns, static, store, op, zone, result, unread>>

\* discoverZone takes an SOA whose owner is not the root and encloses the name.
Fits(apex) == apex # Root /\ IsSuffix(apex, Name)

\* The resolver answers with the zone's SOA, from the answer or the authority section.
Discovered ==
  /\ pc = "discover" /\ Fits(ZoneOf(Name))
  /\ Found(ZoneOf(Name))

NoSuchZone == pc = "discover" /\ ~Fits(ZoneOf(Name)) /\ NextResolver /\ UNCHANGED faults

\* It does not answer, answers SERVFAIL, or without an SOA.
ResolverFails == pc = "discover" /\ Fault /\ NextResolver

\* It answers with the SOA of another place, to which an alias leads.
SOAElsewhere ==
  /\ pc = "discover" /\ Fault
  /\ ~Fits(Elsewhere) /\ NextResolver

---------------------------------------------------------------------------
(* queryAuthoritative: over UDP, and over TCP if that fails or is truncated.*)

Exists == dns.keys # {} \/ dns.ptrs > 0 \/ dns.others

\* The number of records of the type asked for.
Answers == IF op = "QueryPTRExists" THEN dns.ptrs ELSE Cardinality(dns.keys)

\* Faulty variant: what came over UDP is taken as it is.
TruncatedNever == FALSE

\* The TC bit of the answer over UDP.
Truncated == Answers > UDPSize

\* The records in an answer; a truncated one has none.
AnswerKeys == IF Answers > UDPSize /\ pc = "udp" THEN {} ELSE dns.keys
AnswerPTRs == IF Answers > UDPSize /\ pc = "udp" THEN 0 ELSE dns.ptrs

\* How each query reads an answer: no such name, no such record, or the records.
Read ==
  CASE op = "QueryKeyAtName" /\ ~Exists -> <<"AuthNXDomain", {}>>
    [] op = "QueryKeyAtName" /\ Exists ->
         <<IF AnswerKeys = {} THEN "AuthNoKey" ELSE "AuthKeyPresent", AnswerKeys>>
    [] op = "QueryPTRExists" -> AnswerPTRs > 0
    [] op = "QueryRRs" -> AnswerKeys

UDPAnswers ==
  /\ pc = "udp" /\ ~Truncated
  /\ End("done", Read) /\ UNCHANGED <<zone, faults>>

UDPTruncated ==
  /\ pc = "udp" /\ Truncated
  /\ pc' = "tcp" /\ UNCHANGED <<dns, static, store, op, turn, zone, result, unread, faults>>

UDPFails ==
  /\ pc = "udp" /\ Fault
  /\ pc' = "tcp" /\ UNCHANGED <<dns, static, store, op, turn, zone, result, unread>>

TCPAnswers ==
  /\ pc = "tcp"
  /\ End("done", Read) /\ UNCHANGED <<zone, faults>>

TCPFails == pc = "tcp" /\ Fault /\ End("failed", "nothing") /\ UNCHANGED zone

\* Another rcode is an error, whichever way it came.
RcodeUnexpected == pc \in {"udp", "tcp"} /\ Fault /\ End("failed", "nothing") /\ UNCHANGED zone

---------------------------------------------------------------------------
(* FindAuthorizedProxyKey: from the zone to its parents.                    *)

KeySearch ==
  /\ pc = "called" /\ op = "FindAuthorizedProxyKey"
  /\ pc' = "keys" /\ zone' = Name
  /\ UNCHANGED <<dns, static, store, op, turn, result, unread, faults>>

parentZone(z) == Tail(z)

NoKeyHere ==
  /\ pc = "keys" /\ zone # Root /\ store[zone] = 0
  /\ zone' = parentZone(zone)
  /\ UNCHANGED <<dns, static, store, op, pc, turn, result, unread, faults>>

\* FindKeysByZone fails: its error is not looked at, and the parent's keys come next.
KeysUnread ==
  /\ pc = "keys" /\ zone # Root /\ Fault
  /\ zone' = parentZone(zone) /\ unread' = unread \cup {zone}
  /\ UNCHANGED <<dns, static, store, op, pc, turn, result>>

KeyHere == pc = "keys" /\ zone # Root /\ store[zone] = 1 /\ End("done", "key") /\ UNCHANGED <<zone, faults>>

\* More than one key, one that cannot be loaded, or none up to the root.
TooManyKeys == pc = "keys" /\ zone # Root /\ store[zone] > 1 /\ End("failed", "many") /\ UNCHANGED <<zone, faults>>
LoadFails == pc = "keys" /\ zone # Root /\ store[zone] = 1 /\ Fault /\ End("failed", "unreadable") /\ UNCHANGED zone
NoKey == pc = "keys" /\ zone = Root /\ End("failed", "none") /\ UNCHANGED <<zone, faults>>

Next ==
  \/ Resolve \/ Discovered \/ NoSuchZone \/ ResolverFails \/ SOAElsewhere
  \/ UDPAnswers \/ UDPTruncated \/ UDPFails \/ TCPAnswers \/ TCPFails \/ RcodeUnexpected
  \/ KeySearch \/ NoKeyHere \/ KeysUnread \/ KeyHere \/ TooManyKeys \/ LoadFails \/ NoKey

Spec == Init /\ [][Next]_vars

---------------------------------------------------------------------------
\* The states a lookup can be in; only one that searches keys reaches the root.
TypeOK ==
  /\ pc \in {"called", "discover", "udp", "tcp", "keys", "done", "failed"}
  /\ turn \in 1..Resolvers
  /\ zone \in Enclosing \cup {NoZone, Root, Elsewhere}
  /\ zone = Root => op = "FindAuthorizedProxyKey"

\* A zone that is found is the one that holds the name, whatever a resolver answered
\* on the way and with or without a static upstream (discoverZone, covers).
ZoneIsClosest ==
  op # "FindAuthorizedProxyKey" /\ zone # NoZone => zone = ZoneOf(Name)

\* "A truncated UDP answer must not be trusted as-is" (queryAuthoritative): a query that
\* succeeds tells what the server has, and in particular never calls a name free, or
\* without a KEY, that is not.
AnswersAreTrue ==
  pc = "done" =>
    /\ op = "QueryKeyAtName" =>
         result = <<IF dns.keys # {} THEN "AuthKeyPresent"
                    ELSE IF Exists THEN "AuthNoKey" ELSE "AuthNXDomain", dns.keys>>
    /\ op = "QueryPTRExists" => (result <=> dns.ptrs > 0)
    /\ op = "QueryRRs" => result = dns.keys

\* The key that signs is that of the closest zone that has one, a zone whose keys could
\* not be listed aside, and two keys for that zone are an error rather than a choice
\* (FindAuthorizedProxyKey).
KeyIsClosest ==
  op = "FindAuthorizedProxyKey" /\ pc \in {"done", "failed"} =>
    /\ \A z \in Enclosing \ unread : Len(z) > Len(zone) => store[z] = 0
    /\ pc = "done" => store[zone] = 1
    /\ result = "none" => \A z \in Enclosing \ unread : store[z] = 0

\* Whatever the proxy's lookups find is right: the zone, the records and the key
\* (discoverZone, queryAuthoritative, FindAuthorizedProxyKey).
LookupInv == TypeOK /\ ZoneIsClosest /\ AnswersAreTrue /\ KeyIsClosest
===========================================================================
