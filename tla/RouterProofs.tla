--------------------------- MODULE RouterProofs ---------------------------
(***************************************************************************)
(* Proofs about the way of a request through the proxy and about its       *)
(* shutdown, for any number of requests, listeners, handlers and           *)
(* upstreams: requests are answered in time, an error hides no upstream's  *)
(* answer, no goroutine waits for room in the channel, and no handler is   *)
(* stopped while a request may need it.                                    *)
(***************************************************************************)
EXTENDS Router, FiniteSetTheorems, TLAPS

(* The inductive invariant.                                                 *)

\* The types, those of what Query keeps for a request included.
ServerTypes ==
  /\ now \in Nat /\ serving \in {"serving", "cancelled", "handlers", "stopped"}
  /\ listener \in [Networks -> {"starting", "up", "draining", "down"}]
  /\ stopped \subseteq Registered

RequestTypes ==
  /\ pc \in [Requests -> {"idle", "handling", "forward", "query", "answered"}]
  /\ network \in [Requests -> Networks \cup {None}] /\ chain \in [Requests -> Seq(Modules)]
  /\ deadline \in [Requests -> Nat] /\ arrived \in [Requests -> Nat]
  /\ answer \in [Requests -> {"none", "own", "upstream", "SERVFAIL", "timeout"}]

ResolverTypes ==
  /\ exchange \in [Requests -> [Upstreams -> {"none", "asking", "ok", "failed", "done"}]]
  /\ results \in [Requests -> Seq({"ok", "failed"})] /\ received \in [Requests -> Nat]

Types == ServerTypes /\ RequestTypes /\ ResolverTypes

\* The deadline of each stage is kept, and the stages add up: the handlers have the
\* request's deadline between them, the query its own after it.
InTime(r) ==
  /\ pc[r] = "handling" =>
       chain[r] # <<>> /\ now <= deadline[r] /\ deadline[r] = arrived[r] + RequestTimeout
  /\ pc[r] = "forward" => now <= arrived[r] + RequestTimeout
  /\ pc[r] = "query" =>
       now <= deadline[r] /\ deadline[r] <= arrived[r] + RequestTimeout + ResolverTimeout

RunningSet(r) == {u \in Upstreams : Running(r, u)}

\* Every result is under way, in the channel or received, and no upstream has two; nothing
\* is asked before Query, and everyone once it runs.
Accounted(r) ==
  /\ Len(results[r]) + received[r] + Cardinality(RunningSet(r)) <= Cardinality(Upstreams)
  /\ pc[r] \in {"idle", "handling", "forward"} =>
       results[r] = <<>> /\ received[r] = 0 /\ \A u \in Upstreams : exchange[r][u] = "none"
  /\ pc[r] = "query" => \A u \in Upstreams : exchange[r][u] # "none"

\* After SERVFAIL nothing is left that could bring an answer.
AllFailed(r) ==
  answer[r] = "SERVFAIL" =>
    pc[r] = "answered" /\ results[r] = <<>> /\ \A u \in Upstreams : exchange[r][u] = "done"

\* The listener a request came by waits for it.
Awaited(r) ==
  InFlight(r) => network[r] \in Networks /\ listener[network[r]] \in {"up", "draining"}

\* Handlers are stopped only when every listener is down.
StopsInOrder ==
  /\ stopped # {} => serving \in {"handlers", "stopped"}
  /\ serving \in {"handlers", "stopped"} => \A n \in Networks : listener[n] = "down"

\* The inductive invariant of the server (Route, Query, Serve).
RouterIInv ==
  /\ Types /\ StopsInOrder
  /\ \A r \in Requests : InTime(r) /\ Accounted(r) /\ AllFailed(r) /\ Awaited(r)
---------------------------------------------------------------------------
(* What the steps of the proof have in common.                              *)

RequestOK(r) == InTime(r) /\ Accounted(r) /\ AllFailed(r) /\ Awaited(r)

\* A step that does not concern request d.
Untouched(d) ==
  /\ pc'[d] = pc[d] /\ network'[d] = network[d] /\ chain'[d] = chain[d]
  /\ deadline'[d] = deadline[d] /\ arrived'[d] = arrived[d] /\ answer'[d] = answer[d]
  /\ exchange'[d] = exchange[d] /\ results'[d] = results[d] /\ received'[d] = received[d]

\* A list of more than one handler has one left after the first (Route).
LEMMA OneLess == ASSUME NEW n \in Nat, n > 1 PROVE n - 1 # 0
OBVIOUS

\* When all but one of n results were received, the one in the channel is the last (Query).
LEMMA LastResult ==
  ASSUME NEW queued \in Nat, NEW taken \in Nat, NEW running \in Nat, NEW n \in Nat,
         queued # 0, taken + 1 = n, queued + taken + running <= n
  PROVE  queued - 1 = 0 /\ running = 0
OBVIOUS

\* A request that a step does not concern keeps what holds of it.
LEMMA UntouchedKeeps ==
  ASSUME NEW d \in Requests, RequestOK(d), Untouched(d), now' = now, listener' = listener
  PROVE  RequestOK(d)'
<1>1. InTime(d)'
  BY DEF RequestOK, InTime, Untouched
<1>2. Accounted(d)'
  <2>1. RunningSet(d)' = RunningSet(d)
    BY DEF RunningSet, Running, Untouched
  <2> QED BY <2>1 DEF RequestOK, Accounted, Untouched
<1>3. AllFailed(d)' /\ Awaited(d)'
  BY DEF RequestOK, AllFailed, Awaited, InFlight, Untouched
<1> QED BY <1>1, <1>2, <1>3 DEF RequestOK

\* A step of one request need only be looked at for that request.
LEMMA OneRequest ==
  ASSUME RouterIInv, UNCHANGED <<now, server>>, NEW r \in Requests,
         \A d \in Requests \ {r} : Untouched(d),
         RequestTypes', ResolverTypes', RequestOK(r)'
  PROVE  RouterIInv'
<1>1. Types' /\ StopsInOrder'
  BY DEF RouterIInv, Types, ServerTypes, StopsInOrder, server
<1>2. ASSUME NEW d \in Requests \ {r} PROVE RequestOK(d)'
  BY UntouchedKeeps DEF RouterIInv, RequestOK, server
<1> QED BY <1>1, <1>2 DEF RouterIInv, RequestOK

\* A step of the server leaves every request as it is; the listeners change only for
\* requests that are not under way.
LEMMA ServerStep ==
  ASSUME RouterIInv, UNCHANGED <<now, pc, request, resolver>>, ServerTypes', StopsInOrder',
         \A r \in Requests : Awaited(r)'
  PROVE  RouterIInv'
<1>1. Types'
  BY DEF RouterIInv, Types, RequestTypes, ResolverTypes, request, resolver
<1>2. ASSUME NEW r \in Requests PROVE InTime(r)' /\ Accounted(r)' /\ AllFailed(r)'
  <2>1. RunningSet(r)' = RunningSet(r)
    BY DEF RunningSet, Running, resolver
  <2> QED BY <2>1 DEF RouterIInv, InTime, Accounted, AllFailed, request, resolver
<1> QED BY <1>1, <1>2 DEF RouterIInv

---------------------------------------------------------------------------
(* Route.                                                                   *)

\* A request that is answered without the resolver's result is no longer awaited (Route).
LEMMA AnswerKeeps ==
  ASSUME RouterIInv, NEW r \in Requests, NEW what \in {"none", "own", "timeout"},
         Answer(r, what), UNCHANGED <<now, resolver, server>>
  PROVE  RouterIInv'
<1>1. Types /\ RequestOK(r)
  BY DEF RouterIInv, RequestOK
<1>2. RequestTypes' /\ ResolverTypes'
  BY <1>1 DEF Answer, Goto, Types, RequestTypes, ResolverTypes, resolver
<1>3. \A d \in Requests \ {r} : Untouched(d)
  BY <1>1 DEF Answer, Goto, Types, RequestTypes, resolver, Untouched
<1>4. pc'[r] = "answered" /\ answer'[r] = what
  BY <1>1 DEF Answer, Goto, Types, RequestTypes
<1>5. RunningSet(r)' = RunningSet(r)
  BY DEF RunningSet, Running, resolver
<1>6. RequestOK(r)'
  BY <1>1, <1>4, <1>5
     DEF RequestOK, InTime, Accounted, AllFailed, Awaited, InFlight, resolver
<1> QED BY <1>2, <1>3, <1>6, OneRequest

\* A request gets one deadline, counted from its arrival (Route).
LEMMA RouteKeeps ==
  ASSUME RouterIInv, NEW r \in Requests, NEW n \in Networks, NEW c \in Chains, Route(r, n, c)
  PROVE  RouterIInv'
<1> USE TimeoutPositive, ConfigAssumption
<1>1. Types /\ RequestOK(r) /\ pc[r] = "idle" /\ listener[n] = "up"
  BY DEF RouterIInv, RequestOK, Route, Comes
<1>2. RequestTypes' /\ ResolverTypes'
  BY <1>1 DEF Route, Goto, Types, ServerTypes, RequestTypes, ResolverTypes, resolver
<1>3. \A d \in Requests \ {r} : Untouched(d)
  BY <1>1 DEF Route, Goto, Types, RequestTypes, resolver, Untouched
<1>4. /\ pc'[r] = IF c = <<>> THEN "forward" ELSE "handling"
      /\ network'[r] = n /\ chain'[r] = c /\ answer'[r] = answer[r]
      /\ deadline'[r] = now + RequestTimeout /\ arrived'[r] = now
      /\ now' = now /\ listener' = listener /\ UNCHANGED resolver
  BY <1>1 DEF Route, Goto, Types, RequestTypes, server
<1>5. InTime(r)'
  BY <1>1, <1>4 DEF InTime, Types, ServerTypes
<1>6. Accounted(r)'
  <2>1. RunningSet(r)' = RunningSet(r)
    BY <1>4 DEF RunningSet, Running, resolver
  <2> QED BY <1>1, <1>4, <2>1 DEF RequestOK, Accounted, resolver
<1>7. AllFailed(r)' /\ Awaited(r)'
  BY <1>1, <1>4 DEF RequestOK, AllFailed, Awaited
<1> QED BY <1>2, <1>3, <1>5, <1>6, <1>7, OneRequest DEF RequestOK, Route

\* The next handler has what is left of the deadline, and so has the query (Route).
LEMMA TryNextKeeps ==
  ASSUME RouterIInv, NEW r \in Requests, pc[r] = "handling", TryNext(r),
         UNCHANGED <<now, network, arrived, answer, resolver, server>>
  PROVE  RouterIInv'
<1> USE TimeoutPositive
<1>1. Types /\ RequestOK(r)
  BY DEF RouterIInv, RequestOK
<1>2. chain[r] \in Seq(Modules) /\ chain[r] # <<>>
  BY <1>1 DEF Types, RequestTypes, RequestOK, InTime
<1>3. /\ Tail(chain[r]) \in Seq(Modules)
      /\ Len(chain[r]) > 1 => Tail(chain[r]) # <<>>
  <2>1. Tail(chain[r]) \in Seq(Modules) /\ Len(Tail(chain[r])) = Len(chain[r]) - 1
    BY <1>2
  <2>2. ASSUME Len(chain[r]) > 1 PROVE Tail(chain[r]) # <<>>
    <3>1. Len(chain[r]) - 1 # 0
      <4>1. Len(chain[r]) \in Nat
        BY <1>2
      <4> QED BY <2>2, <4>1, OneLess
    <3>2. Len(<<>>) = 0
      OBVIOUS
    <3> QED BY <2>1, <3>1, <3>2
  <2> QED BY <2>1, <2>2
<1>4. RequestTypes' /\ ResolverTypes'
  BY <1>1, <1>3 DEF TryNext, Goto, Types, RequestTypes, ResolverTypes, resolver
<1>5. \A d \in Requests \ {r} : Untouched(d)
  BY <1>1 DEF TryNext, Goto, Types, RequestTypes, resolver, Untouched
<1>6. /\ pc'[r] = IF Len(chain[r]) > 1 THEN "handling" ELSE "forward"
      /\ chain'[r] = Tail(chain[r]) /\ deadline' = deadline
  BY <1>1 DEF TryNext, Goto, Types, RequestTypes
<1>7. InTime(r)'
  BY <1>1, <1>3, <1>6 DEF RequestOK, InTime
<1>8. Accounted(r)'
  <2>1. RunningSet(r)' = RunningSet(r)
    BY DEF RunningSet, Running, resolver
  <2> QED BY <1>1, <1>6, <2>1 DEF RequestOK, Accounted, resolver
<1>9. AllFailed(r)' /\ Awaited(r)'
  BY <1>1, <1>6 DEF RequestOK, AllFailed, Awaited, InFlight, server
<1> QED BY <1>4, <1>5, <1>7, <1>8, <1>9, OneRequest DEF RequestOK

---------------------------------------------------------------------------
(* Serve and its end, and time.                                             *)

\* Listeners start, fail, close and end; one ends when no request is left that came by
\* it (Serve).
LEMMA ListenersKeep ==
  ASSUME RouterIInv, NEW n \in Networks,
         ListenerStarts(n) \/ ListenerFails(n) \/ ListenerCloses(n) \/ ListenerDrained(n)
  PROVE  RouterIInv'
<1>1. Types /\ StopsInOrder /\ \A r \in Requests : Awaited(r)
  BY DEF RouterIInv
<1>2. /\ UNCHANGED <<now, pc, request, resolver, stopped>>
      /\ \E s \in {"up", "draining", "down"} : listener' = [listener EXCEPT ![n] = s]
      /\ serving' \in {serving, "cancelled"} /\ (serving' # serving => serving = "serving")
  BY DEF ListenerStarts, ListenerFails, ListenerCloses, ListenerDrained, SetListener
<1>3. ServerTypes'
  BY <1>1, <1>2 DEF Types, ServerTypes
<1>4. listener[n] # "down"
  BY DEF ListenerStarts, ListenerFails, ListenerCloses, ListenerDrained
<1>5. StopsInOrder'
  BY <1>1, <1>2, <1>4 DEF StopsInOrder
<1>6. ASSUME NEW r \in Requests PROVE Awaited(r)'
  <2> SUFFICES ASSUME InFlight(r)
               PROVE  network[r] \in Networks /\ listener'[network[r]] \in {"up", "draining"}
    BY <1>2 DEF Awaited, InFlight, request
  <2>1. network[r] \in Networks /\ listener[network[r]] \in {"up", "draining"}
    BY <1>1 DEF Awaited
  <2>2. CASE network[r] # n
    BY <1>1, <1>2, <2>1, <2>2 DEF Types, ServerTypes
  <2>3. CASE network[r] = n
    <3>1. ListenerCloses(n)
      BY <2>1, <2>3 DEF ListenerStarts, ListenerFails, ListenerDrained
    <3> QED BY <1>1, <2>1, <2>3, <3>1 DEF ListenerCloses, SetListener, Types, ServerTypes
  <2> QED BY <2>2, <2>3
<1> QED BY <1>2, <1>3, <1>5, <1>6, ServerStep

\* The handlers and the resolver stop after the listeners (Serve, shutdown).
LEMMA ShutdownKeeps ==
  ASSUME RouterIInv,
         Signal \/ Shutdown \/ ResolverStops \/ \E h \in Registered : HandlerStops(h)
  PROVE  RouterIInv'
<1>1. Types /\ StopsInOrder /\ \A r \in Requests : Awaited(r)
  BY DEF RouterIInv
<1>2. UNCHANGED <<now, listener, pc, request, resolver>>
  BY DEF Signal, Shutdown, ResolverStops, HandlerStops
<1>3. ServerTypes' /\ StopsInOrder'
  <2>1. CASE Signal \/ Shutdown \/ ResolverStops
    BY <1>1, <2>1
       DEF Signal, Shutdown, ResolverStops, Types, ServerTypes, StopsInOrder
  <2>2. CASE \E h \in Registered : HandlerStops(h)
    BY <1>1, <2>2 DEF HandlerStops, Types, ServerTypes, StopsInOrder
  <2> QED BY <2>1, <2>2
<1>4. ASSUME NEW r \in Requests PROVE Awaited(r)'
  BY <1>1, <1>2 DEF Awaited, InFlight, request
<1> QED BY <1>2, <1>3, <1>4, ServerStep

\* Time passes only while no deadline is due (Route, Query).
LEMMA TickKeeps ==
  ASSUME RouterIInv, Tick
  PROVE  RouterIInv'
<1>1. Types /\ StopsInOrder
  BY DEF RouterIInv
<1>2. now' = now + 1 /\ UNCHANGED <<pc, request, resolver, server>>
  BY DEF Tick
<1>3. Types' /\ StopsInOrder'
  BY <1>1, <1>2
     DEF Types, ServerTypes, RequestTypes, ResolverTypes, StopsInOrder, request, resolver,
         server
<1>4. ASSUME NEW r \in Requests PROVE RequestOK(r)'
  <2>1. RequestOK(r) /\ now \in Nat /\ deadline[r] \in Nat
    BY <1>1 DEF RouterIInv, RequestOK, Types, ServerTypes, RequestTypes
  <2>2. InTime(r)'
    BY <1>2, <2>1 DEF RequestOK, InTime, Tick, request
  <2>3. Accounted(r)'
    <3>1. RunningSet(r)' = RunningSet(r)
      BY <1>2 DEF RunningSet, Running, resolver
    <3> QED BY <1>2, <2>1, <3>1 DEF RequestOK, Accounted, resolver
  <2>4. AllFailed(r)' /\ Awaited(r)'
    BY <1>2, <2>1 DEF RequestOK, AllFailed, Awaited, InFlight, request, resolver, server
  <2> QED BY <2>2, <2>3, <2>4 DEF RequestOK
<1> QED BY <1>3, <1>4 DEF RouterIInv, RequestOK

---------------------------------------------------------------------------
(* Query.                                                                   *)

\* An exchange that ends is still to be reported (exchangeWithContext).
LEMMA ExchangeEndsKeeps ==
  ASSUME RouterIInv, NEW r \in Requests, NEW u \in Upstreams, NEW result \in {"ok", "failed"},
         ExchangeEnds(r, u, result)
  PROVE  RouterIInv'
<1>1. Types /\ RequestOK(r) /\ exchange[r][u] = "asking"
  BY DEF RouterIInv, RequestOK, ExchangeEnds
<1>2. /\ exchange' = [exchange EXCEPT ![r][u] = result]
      /\ UNCHANGED <<now, pc, request, results, received, server>>
  BY DEF ExchangeEnds
<1>3. RequestTypes' /\ ResolverTypes'
  BY <1>1, <1>2 DEF Types, RequestTypes, ResolverTypes, request
<1>4. \A d \in Requests \ {r} : Untouched(d)
  BY <1>1, <1>2 DEF Types, ResolverTypes, Untouched, request
<1>5. \A v \in Upstreams : exchange'[r][v] = IF v = u THEN result ELSE exchange[r][v]
  BY <1>1, <1>2 DEF Types, ResolverTypes
<1>6. Accounted(r)'
  <2>1. RunningSet(r)' = RunningSet(r)
    BY <1>1, <1>5 DEF RunningSet, Running
  <2> QED BY <1>1, <1>2, <1>5, <2>1 DEF RequestOK, Accounted, request
<1>7. InTime(r)' /\ AllFailed(r)' /\ Awaited(r)'
  BY <1>1, <1>2 DEF RequestOK, InTime, AllFailed, Awaited, InFlight, request, server
<1> QED BY <1>2, <1>3, <1>4, <1>6, <1>7, OneRequest DEF RequestOK

LOCAL INSTANCE SequenceTheorems

\* There are no more exchanges of a request under way than upstreams (Query).
LEMMA RunningFinite ==
  ASSUME NEW r
  PROVE  /\ IsFiniteSet(RunningSet(r)) /\ Cardinality(RunningSet(r)) \in Nat
         /\ Cardinality(Upstreams) \in Nat
<1>1. IsFiniteSet(Upstreams) /\ RunningSet(r) \in SUBSET Upstreams
  BY ConfigAssumption DEF RunningSet
<1>2. IsFiniteSet(RunningSet(r))
  BY <1>1, FS_Subset
<1> QED BY <1>1, <1>2, FS_CardinalityType

\* Query asks every upstream once, within the request's and its own deadline (Query).
LEMMA QueryKeeps ==
  ASSUME RouterIInv, NEW r \in Requests, Query(r)
  PROVE  RouterIInv'
<1> USE TimeoutPositive
<1>1. Types /\ RequestOK(r) /\ pc[r] = "forward"
  BY DEF RouterIInv, RequestOK, Query
<1>2. RequestTypes' /\ ResolverTypes'
  BY <1>1 DEF Query, Goto, Types, ServerTypes, RequestTypes, ResolverTypes
<1>3. \A d \in Requests \ {r} : Untouched(d)
  BY <1>1 DEF Query, Goto, Types, RequestTypes, ResolverTypes, Untouched
<1>4. /\ pc'[r] = "query" /\ deadline'[r] = now + ResolverTimeout
      /\ exchange'[r] = [u \in Upstreams |-> "asking"]
      /\ UNCHANGED <<now, network, arrived, answer, results, received, server>>
  BY <1>1 DEF Query, Goto, Types, RequestTypes, ResolverTypes
<1>5. InTime(r)'
  BY <1>1, <1>4 DEF RequestOK, InTime, Types, ServerTypes, RequestTypes
<1>6. Accounted(r)'
  <2>1. RunningSet(r)' = Upstreams
    BY <1>4 DEF RunningSet, Running
  <2>2. results'[r] = <<>> /\ received'[r] = 0 /\ Len(<<>>) = 0
    BY <1>1, <1>4 DEF RequestOK, Accounted
  <2> QED BY <1>4, <2>1, <2>2, RunningFinite DEF Accounted
<1>7. AllFailed(r)' /\ Awaited(r)'
  BY <1>1, <1>4 DEF RequestOK, AllFailed, Awaited, InFlight, server
<1> QED BY <1>2, <1>3, <1>4, <1>5, <1>6, <1>7, OneRequest DEF RequestOK

\* A result that is reported was under way and is now in the channel (Query).
LEMMA ReportKeeps ==
  ASSUME RouterIInv, NEW r \in Requests, NEW u \in Upstreams, Report(r, u)
  PROVE  RouterIInv'
<1>1. Types /\ RequestOK(r) /\ exchange[r][u] \in {"ok", "failed"}
  BY DEF RouterIInv, RequestOK, Report
<1>2. /\ exchange' = [exchange EXCEPT ![r][u] = "done"]
      /\ results' = [results EXCEPT ![r] = Append(results[r], exchange[r][u])]
      /\ UNCHANGED <<now, pc, request, received, server>>
  BY DEF Report
<1>3. results[r] \in Seq({"ok", "failed"}) /\ received[r] \in Nat
  BY <1>1 DEF Types, ResolverTypes
<1>4. /\ results'[r] \in Seq({"ok", "failed"}) /\ Len(results[r]) \in Nat
      /\ Len(results'[r]) = Len(results[r]) + 1
  BY <1>1, <1>2, <1>3 DEF Types, ResolverTypes
<1>5. RequestTypes' /\ ResolverTypes'
  BY <1>1, <1>2, <1>4 DEF Types, RequestTypes, ResolverTypes, request
<1>6. \A d \in Requests \ {r} : Untouched(d)
  BY <1>1, <1>2 DEF Types, ResolverTypes, Untouched, request
<1>7. \A v \in Upstreams : exchange'[r][v] = IF v = u THEN "done" ELSE exchange[r][v]
  BY <1>1, <1>2 DEF Types, ResolverTypes
<1>8. Accounted(r)'
  <2>1. RunningSet(r)' = RunningSet(r) \ {u} /\ u \in RunningSet(r)
    BY <1>1, <1>7 DEF RunningSet, Running
  <2>2. Cardinality(RunningSet(r)') = Cardinality(RunningSet(r)) - 1
    BY <2>1, RunningFinite, FS_RemoveElement
  <2>3. pc[r] \notin {"idle", "handling", "forward"}
    BY <1>1 DEF RequestOK, Accounted
  <2>4. Len(results[r]) + received[r] + Cardinality(RunningSet(r)) <= Cardinality(Upstreams)
    BY <1>1 DEF RequestOK, Accounted
  <2>5. Len(results'[r]) + received[r] + Cardinality(RunningSet(r)') <= Cardinality(Upstreams)
    BY <1>3, <1>4, <2>2, <2>4, RunningFinite
  <2>6. pc[r] = "query" => \A v \in Upstreams : exchange'[r][v] # "none"
    BY <1>1, <1>7 DEF RequestOK, Accounted
  <2> QED BY <1>2, <2>3, <2>5, <2>6 DEF Accounted
<1>9. AllFailed(r)'
  BY <1>1, <1>2 DEF RequestOK, AllFailed, request
<1>10. InTime(r)' /\ Awaited(r)'
  BY <1>1, <1>2 DEF RequestOK, InTime, Awaited, InFlight, request, server
<1> QED BY <1>2, <1>5, <1>6, <1>8, <1>9, <1>10, OneRequest DEF RequestOK

\* The loop ends with a response, or with the last of the results (Query).
LEMMA ReceiveKeeps ==
  ASSUME RouterIInv, NEW r \in Requests, Receive(r)
  PROVE  RouterIInv'
<1>1. Types /\ RequestOK(r) /\ pc[r] = "query" /\ results[r] # <<>>
  BY DEF RouterIInv, RequestOK, Receive
<1>2. results[r] \in Seq({"ok", "failed"}) /\ received[r] \in Nat
  BY <1>1 DEF Types, ResolverTypes
<1>3. /\ results' = [results EXCEPT ![r] = Tail(results[r])]
      /\ received' = [received EXCEPT ![r] = received[r] + 1]
      /\ UNCHANGED <<now, exchange, server>>
  BY DEF Receive
<1>4. /\ Tail(results[r]) \in Seq({"ok", "failed"}) /\ Len(results[r]) \in Nat
      /\ Len(results[r]) # 0 /\ Len(Tail(results[r])) = Len(results[r]) - 1
  BY <1>1, <1>2
<1>5. ResolverTypes'
  BY <1>1, <1>3, <1>4 DEF Types, ResolverTypes
<1>6. RunningSet(r)' = RunningSet(r)
  BY <1>3 DEF RunningSet, Running
<1>7. results'[r] = Tail(results[r]) /\ received'[r] = received[r] + 1
  BY <1>1, <1>3 DEF Types, ResolverTypes
<1>8. Len(results'[r]) + received'[r] + Cardinality(RunningSet(r)') <= Cardinality(Upstreams)
  BY <1>1, <1>2, <1>4, <1>6, <1>7, RunningFinite DEF RequestOK, Accounted
<1>9. CASE ~Settled(r)
  <2>1. UNCHANGED <<pc, answer, network, chain, deadline, arrived>>
    BY <1>9 DEF Receive
  <2>2. RequestTypes'
    BY <1>1, <2>1 DEF Types, RequestTypes
  <2>3. \A d \in Requests \ {r} : Untouched(d)
    BY <1>1, <1>3, <2>1 DEF Types, ResolverTypes, Untouched
  <2>4. Accounted(r)'
    BY <1>1, <1>3, <1>8, <2>1 DEF RequestOK, Accounted
  <2>5. InTime(r)' /\ AllFailed(r)' /\ Awaited(r)'
    BY <1>1, <1>3, <2>1 DEF RequestOK, InTime, AllFailed, Awaited, InFlight, server
  <2> QED BY <1>3, <1>5, <2>2, <2>3, <2>4, <2>5, OneRequest DEF RequestOK
<1>10. CASE Settled(r)
  <2> DEFINE what == IF Head(results[r]) = "ok" THEN "upstream" ELSE "SERVFAIL"
  <2>1. Answer(r, what)
    BY <1>10 DEF Receive
  <2>2. RequestTypes'
    BY <1>1, <2>1 DEF Answer, Goto, Types, RequestTypes
  <2>3. \A d \in Requests \ {r} : Untouched(d)
    BY <1>1, <1>3, <2>1 DEF Answer, Goto, Types, RequestTypes, ResolverTypes, Untouched
  <2>4. pc'[r] = "answered" /\ answer'[r] = what
    BY <1>1, <2>1 DEF Answer, Goto, Types, RequestTypes
  <2>5. AllFailed(r)'
    <3> SUFFICES ASSUME what = "SERVFAIL"
                 PROVE  results'[r] = <<>> /\ \A u \in Upstreams : exchange[r][u] = "done"
      BY <1>3, <2>4 DEF AllFailed
    <3>1. received[r] + 1 = Cardinality(Upstreams)
      BY <1>10 DEF Settled
    <3>2. Len(results'[r]) = 0 /\ Cardinality(RunningSet(r)) = 0
      <4>1. Len(results[r]) + received[r] + Cardinality(RunningSet(r)) <= Cardinality(Upstreams)
        BY <1>1 DEF RequestOK, Accounted
      <4>2. Len(results[r]) - 1 = 0 /\ Cardinality(RunningSet(r)) = 0
        BY <1>2, <1>4, <3>1, <4>1, RunningFinite, LastResult
      <4> QED BY <1>4, <1>7, <4>2
    <3>3. RunningSet(r) = {}
      BY <3>2, RunningFinite, FS_EmptySet
    <3>4. ASSUME NEW u \in Upstreams PROVE exchange[r][u] = "done"
      <4>1. exchange[r][u] \in {"none", "asking", "ok", "failed", "done"}
        BY <1>1 DEF Types, ResolverTypes
      <4> QED BY <1>1, <3>3, <4>1 DEF RunningSet, Running, RequestOK, Accounted
    <3>5. results'[r] = <<>>
      BY <1>4, <1>7, <3>2, EmptySeq
    <3> QED BY <3>4, <3>5
  <2>6. InTime(r)' /\ Accounted(r)' /\ Awaited(r)'
    BY <1>8, <2>4 DEF InTime, Accounted, Awaited, InFlight
  <2> QED BY <1>3, <1>5, <2>2, <2>3, <2>5, <2>6, OneRequest DEF RequestOK
<1> QED BY <1>9, <1>10

---------------------------------------------------------------------------
(* The theorems.                                                            *)

\* The server starts with no request and nothing asked (Serve).
LEMMA InitEstablishes == Init => RouterIInv
<1> SUFFICES ASSUME Init PROVE RouterIInv
  OBVIOUS
<1>1. Types /\ StopsInOrder
  BY DEF Init, Types, ServerTypes, RequestTypes, ResolverTypes, StopsInOrder
<1>2. ASSUME NEW r \in Requests PROVE RequestOK(r)
  <2>1. RunningSet(r) = {}
    BY DEF Init, RunningSet, Running
  <2>2. Accounted(r)
    BY <2>1, FS_EmptySet, RunningFinite DEF Init, Accounted
  <2>3. InTime(r) /\ AllFailed(r) /\ Awaited(r)
    BY DEF Init, InTime, AllFailed, Awaited, InFlight
  <2> QED BY <2>2, <2>3 DEF RequestOK
<1> QED BY <1>1, <1>2 DEF RouterIInv, RequestOK

\* A step of Route or of Query for one request.
LEMMA RequestStepKeeps ==
  ASSUME RouterIInv, NEW r \in Requests, RequestStep(r)
  PROVE  RouterIInv'
<1>1. CASE HandlerMissing(r) \/ Declined(r)
  BY <1>1, TryNextKeeps DEF HandlerMissing, Declined, Handles
<1>2. CASE Claimed(r) \/ QueryTimeout(r)
  BY <1>2, AnswerKeeps DEF Claimed, QueryTimeout
<1>3. CASE Query(r)
  BY <1>3, QueryKeeps
<1>4. CASE Receive(r)
  BY <1>4, ReceiveKeeps
<1> QED BY <1>1, <1>2, <1>3, <1>4 DEF RequestStep

\* Every step of the server keeps the inductive invariant (Route, Query, Serve).
LEMMA StepPreserves == RouterIInv /\ [Next]_vars => RouterIInv'
<1> SUFFICES ASSUME RouterIInv, [Next]_vars PROVE RouterIInv'
  OBVIOUS
<1>1. CASE UNCHANGED vars
  <2>1. UNCHANGED <<now, pc, request, resolver, server>>
    BY <1>1 DEF vars, request, resolver, server
  <2>2. ServerTypes' /\ StopsInOrder' /\ \A r \in Requests : Awaited(r)'
    BY <2>1 DEF RouterIInv, Types, ServerTypes, StopsInOrder, Awaited, InFlight, request, server
  <2> QED BY <2>1, <2>2, ServerStep
<1>2. ASSUME NEW r \in Requests, NEW n \in Networks,
             Drop(r, n) \/ DumpQuery(r, n) \/ \E c \in Chains : Route(r, n, c)
      PROVE  RouterIInv'
  <2>1. CASE Drop(r, n) \/ DumpQuery(r, n)
    BY <2>1, AnswerKeeps DEF Drop, DumpQuery
  <2>2. CASE \E c \in Chains : Route(r, n, c)
    BY <2>2, RouteKeeps
  <2> QED BY <1>2, <2>1, <2>2
<1>3. ASSUME NEW r \in Requests, RequestStep(r) PROVE RouterIInv'
  BY <1>3, RequestStepKeeps
<1>4. ASSUME NEW r \in Requests, NEW u \in Upstreams, ExchangeStep(r, u) PROVE RouterIInv'
  BY <1>4, ExchangeEndsKeeps, ReportKeeps DEF ExchangeStep
<1>5. CASE Signal \/ ServeStep
  BY <1>5, ListenersKeep, ShutdownKeeps DEF ServeStep
<1>6. CASE Tick
  BY <1>6, TickKeeps
<1> QED BY <1>1, <1>2, <1>3, <1>4, <1>5, <1>6 DEF Next

\* The inductive invariant holds whatever arrives, whatever the upstreams answer and
\* whenever the server is stopped (Route, Query, Serve).
THEOREM Invariance == Spec => []RouterIInv
  BY InitEstablishes, StepPreserves, PTL DEF Spec

\* Requests are answered within request_timeout and one query's timeout, are refused only
\* when every upstream failed, and never meet a handler that was stopped (Route, Query,
\* Serve).
THEOREM RequestsAreServed == Spec => []RouterInv
<1>1. RouterIInv => RouterInv
  <2> SUFFICES ASSUME RouterIInv PROVE RouterInv
    OBVIOUS
  <2>1. Types /\ StopsInOrder
    BY DEF RouterIInv
  <2>2. TypeOK
    BY <2>1
       DEF RouterIInv, InTime, Accounted, RunningSet, TypeOK, Types, ServerTypes, RequestTypes
  <2>3. AnsweredInTime
    <3> SUFFICES ASSUME NEW r \in Requests, InFlight(r)
                 PROVE  now <= arrived[r] + RequestTimeout + ResolverTimeout
      BY DEF AnsweredInTime
    <3>1. /\ now \in Nat /\ arrived[r] \in Nat /\ deadline[r] \in Nat
          /\ InTime(r) /\ RequestTimeout \in Nat /\ ResolverTimeout \in Nat
      BY <2>1, TimeoutPositive DEF RouterIInv, Types, ServerTypes, RequestTypes
    <3> QED BY <3>1 DEF InFlight, InTime
  <2>4. FailsOnlyIfAllFail
    BY DEF RouterIInv, AllFailed, FailsOnlyIfAllFail
  <2>5. NoHandlerStoppedInUse
    <3> SUFFICES ASSUME stopped # {}, NEW r \in Requests, InFlight(r) PROVE FALSE
      BY DEF NoHandlerStoppedInUse
    <3>1. \A n \in Networks : listener[n] = "down"
      BY <2>1 DEF StopsInOrder
    <3> QED BY <3>1 DEF RouterIInv, Awaited
  <2> QED BY <2>2, <2>3, <2>4, <2>5 DEF RouterInv
<1> QED BY <1>1, Invariance, PTL

\* A goroutine that has a result always finds room in the channel, so none is left behind
\* when Query has returned (Query: the buffer is as large as the list of servers).
THEOREM ReportsNeverBlock ==
  Spec => [](\A r \in Requests : \A u \in Upstreams : Running(r, u) => HasRoom(r))
<1>1. RouterIInv => \A r \in Requests : \A u \in Upstreams : Running(r, u) => HasRoom(r)
  <2> SUFFICES ASSUME RouterIInv, NEW r \in Requests, NEW u \in Upstreams, Running(r, u)
               PROVE  HasRoom(r)
    OBVIOUS
  <2>1. Accounted(r) /\ received[r] \in Nat /\ results[r] \in Seq({"ok", "failed"})
    BY DEF RouterIInv, Types, ResolverTypes
  <2>2. Len(results[r]) \in Nat
    BY <2>1
  <2>3. Cardinality(RunningSet(r)) # 0
    <3>1. u \in RunningSet(r)
      BY DEF RunningSet
    <3> QED BY <3>1, RunningFinite, FS_EmptySet
  <2>4. Len(results[r]) + received[r] + Cardinality(RunningSet(r)) <= Cardinality(Upstreams)
    BY <2>1 DEF Accounted
  <2>5. Len(results[r]) < Cardinality(Upstreams)
    BY <2>1, <2>2, <2>3, <2>4, RunningFinite
  <2> QED BY <2>5 DEF HasRoom
<1> QED BY <1>1, Invariance, PTL
===========================================================================
