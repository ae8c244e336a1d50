------------------------------ MODULE Router ------------------------------
(***************************************************************************)
(* From the listeners to the answer, and down again: server/server.go      *)
(* starts the listeners and stops everything in order, server/router.go    *)
(* hands a request to the handlers of its opcode in turn, and              *)
(* forward/forward.go asks all resolvers at once and takes the first       *)
(* answer.                                                                 *)
(*                                                                         *)
(* A handler is what it returns and when: before the request's deadline,   *)
(* which bounds its waiting and its round trips.  Each request that is     *)
(* forwarded has one exchange per upstream, a goroutine that reports on a  *)
(* buffered channel.                                                       *)
(***************************************************************************)
EXTENDS Naturals, Sequences, FiniteSets

CONSTANTS Requests, Networks, Upstreams,
          Modules,         \* the names a configuration may list
          Chains,          \* the handler lists that opcodes may have
          Registered,      \* the handlers there are
          None,            \* no listener
          RequestTimeout,  \* server.request_timeout
          ResolverTimeout, \* the timeout of the first upstream
          MaxTime          \* bound: the last moment at which a request arrives

ASSUME TimeoutPositive == RequestTimeout \in Nat \ {0} /\ ResolverTimeout \in Nat \ {0}
ASSUME ConfigAssumption == Chains \subseteq Seq(Modules) /\ IsFiniteSet(Upstreams)

VARIABLES now,
          serving,   \* Serve: "serving", then cancelled, then each stage of shutdown
          listener,  \* the state of each listener
          pc,        \* where each request is
          network,   \* the listener it came by
          chain,     \* the handlers it still has to pass
          deadline,  \* the context's deadline
          arrived,   \* when it came
          answer,    \* whose answer it got: the proxy's own, an upstream's, or an error
          exchange,  \* the state of each exchange made for it
          results,   \* resultCh
          received,  \* the results taken from it
          stopped    \* the handlers that were shut down

vars == <<now, serving, listener, pc, network, chain, deadline, arrived, answer,
          exchange, results, received, stopped>>

request == <<network, chain, deadline, arrived, answer>>
resolver == <<exchange, results, received>>
server == <<serving, listener, stopped>>

Init ==
  /\ now = 0 /\ serving = "serving" /\ stopped = {}
  /\ listener = [n \in Networks |-> "starting"]
  /\ pc = [r \in Requests |-> "idle"]
  /\ network = [r \in Requests |-> None]
  /\ chain = [r \in Requests |-> <<>>] /\ deadline = [r \in Requests |-> 0]
  /\ arrived = [r \in Requests |-> 0]
  /\ answer = [r \in Requests |-> "none"]
  /\ exchange = [r \in Requests |-> [u \in Upstreams |-> "none"]]
  /\ results = [r \in Requests |-> <<>>] /\ received = [r \in Requests |-> 0]

Goto(r, where) == pc' = [pc EXCEPT ![r] = where]

\* The response is written, and what Route kept for the request is gone.
Answer(r, what) ==
  /\ Goto(r, "answered") /\ answer' = [answer EXCEPT ![r] = what]
  /\ chain' = [chain EXCEPT ![r] = <<>>] /\ network' = [network EXCEPT ![r] = None]
  /\ deadline' = [deadline EXCEPT ![r] = 0] /\ arrived' = [arrived EXCEPT ![r] = 0]

---------------------------------------------------------------------------
(* Route.                                                                   *)

\* A listener hands over a request.
Comes(r, n) == pc[r] = "idle" /\ listener[n] = "up" /\ now <= MaxTime

InFlight(r) == pc[r] \in {"handling", "forward", "query"}

\* acceptMsg, fullUnpackHandler: a message that is ignored, rejected or malformed.
Drop(r, n) ==
  /\ Comes(r, n)
  /\ Answer(r, "none")
  /\ UNCHANGED <<now, resolver, server>>

\* A dump query is answered before the opcode is looked at.
DumpQuery(r, n) ==
  /\ Comes(r, n)
  /\ Answer(r, "own")
  /\ UNCHANGED <<now, resolver, server>>

\* An opcode without handlers is forwarded; otherwise the request gets its deadline.
Route(r, n, modules) ==
  /\ Comes(r, n)
  /\ network' = [network EXCEPT ![r] = n]
  /\ Goto(r, IF modules = <<>> THEN "forward" ELSE "handling")
  /\ chain' = [chain EXCEPT ![r] = modules]
  /\ deadline' = [deadline EXCEPT ![r] = now + RequestTimeout]
  /\ arrived' = [arrived EXCEPT ![r] = now]
  /\ UNCHANGED <<now, answer, resolver, server>>

\* The next handler, or the default upstream routing.
TryNext(r) ==
  /\ chain' = [chain EXCEPT ![r] = Tail(@)]
  /\ Goto(r, IF Len(chain[r]) > 1 THEN "handling" ELSE "forward")
  /\ UNCHANGED deadline

\* A module that is configured and not registered.
HandlerMissing(r) ==
  /\ pc[r] = "handling" /\ Head(chain[r]) \notin Registered
  /\ TryNext(r)
  /\ UNCHANGED <<now, network, arrived, answer, resolver, server>>

Handles(r) == pc[r] = "handling" /\ Head(chain[r]) \in Registered

\* StatusProcessed, and StatusError with or without a message: this is the answer.
Claimed(r) ==
  /\ Handles(r)
  /\ Answer(r, "own")
  /\ UNCHANGED <<now, resolver, server>>

\* StatusNotRelevant, no result, or a status that is none of these.
Declined(r) ==
  /\ Handles(r)
  /\ TryNext(r)
  /\ UNCHANGED <<now, network, arrived, answer, resolver, server>>

---------------------------------------------------------------------------
(* Query.                                                                   *)

\* Every upstream is asked by a goroutine of its own.
Query(r) ==
  /\ pc[r] = "forward"
  /\ Goto(r, "query")
  /\ exchange' = [exchange EXCEPT ![r] = [u \in Upstreams |-> "asking"]]
  /\ deadline' = [deadline EXCEPT ![r] = now + ResolverTimeout]
  /\ UNCHANGED <<now, network, chain, arrived, answer, results, received, server>>

\* exchangeWithContext: an answer, an error, the timeout, or the context, which Query
\* cancels when it returns.
ExchangeEnds(r, u, result) ==
  /\ exchange[r][u] = "asking"
  /\ pc[r] # "query" => result = "failed"
  /\ exchange' = [exchange EXCEPT ![r][u] = result]
  /\ UNCHANGED <<now, pc, request, results, received, server>>

\* Faulty variant: the channel has no buffer.
HasRoomUnbuffered(r) == pc[r] = "query"

\* The channel's buffer is as large as the list of servers.
HasRoom(r) == Len(results[r]) < Cardinality(Upstreams)

\* The result goes into the channel, and the goroutine is done.
Report(r, u) ==
  /\ exchange[r][u] \in {"ok", "failed"} /\ HasRoom(r)
  /\ results' = [results EXCEPT ![r] = Append(@, exchange[r][u])]
  /\ exchange' = [exchange EXCEPT ![r][u] = "done"]
  /\ UNCHANGED <<now, pc, request, received, server>>

\* Faulty variant: the first result is returned, whatever it is.
SettledByFirst(r) == TRUE

\* The loop ends with the first response, or when as many results came as there are servers.
Settled(r) == Head(results[r]) = "ok" \/ received[r] + 1 = Cardinality(Upstreams)

Receive(r) ==
  /\ pc[r] = "query" /\ results[r] # <<>>
  /\ results' = [results EXCEPT ![r] = Tail(@)]
  /\ received' = [received EXCEPT ![r] = @ + 1]
  /\ IF Settled(r)
       THEN Answer(r, IF Head(results[r]) = "ok" THEN "upstream" ELSE "SERVFAIL")
       ELSE UNCHANGED <<pc, answer, network, chain, deadline, arrived>>
  /\ UNCHANGED <<now, exchange, server>>

QueryTimeout(r) ==
  /\ pc[r] = "query" /\ now >= deadline[r]
  /\ Answer(r, "timeout")
  /\ UNCHANGED <<now, resolver, server>>

---------------------------------------------------------------------------
(* Serve and its end.                                                       *)

SetListener(n, state) == listener' = [listener EXCEPT ![n] = state]

ListenerStarts(n) ==
  /\ listener[n] = "starting" /\ SetListener(n, "up")
  /\ UNCHANGED <<now, serving, pc, request, resolver, stopped>>

\* A listener that fails to start cancels the others' context.
ListenerFails(n) ==
  /\ listener[n] = "starting" /\ SetListener(n, "down")
  /\ serving' = IF serving = "serving" THEN "cancelled" ELSE serving
  /\ UNCHANGED <<now, pc, request, resolver, stopped>>

\* SIGINT or SIGTERM.
Signal ==
  /\ serving = "serving" /\ serving' = "cancelled"
  /\ UNCHANGED <<now, listener, pc, request, resolver, stopped>>

\* srv.Shutdown: no new requests; it returns when those in flight are answered.
ListenerCloses(n) ==
  /\ serving = "cancelled" /\ listener[n] = "up" /\ SetListener(n, "draining")
  /\ UNCHANGED <<now, serving, pc, request, resolver, stopped>>

ListenerDrained(n) ==
  /\ listener[n] = "draining" /\ \A r \in Requests : network[r] = n => ~InFlight(r)
  /\ SetListener(n, "down")
  /\ UNCHANGED <<now, serving, pc, request, resolver, stopped>>

\* g.Wait returns when every listener has; then shutdown begins.
Shutdown ==
  /\ serving = "cancelled" /\ \A n \in Networks : listener[n] = "down"
  /\ serving' = "handlers"
  /\ UNCHANGED <<now, listener, pc, request, resolver, stopped>>

\* Router.Shutdown, one handler after the other.
HandlerStops(h) ==
  /\ serving = "handlers" /\ h \in Registered \ stopped
  /\ stopped' = stopped \cup {h}
  /\ UNCHANGED <<now, serving, listener, pc, request, resolver>>

Running(r, u) == exchange[r][u] \in {"asking", "ok", "failed"}

\* Resolver.Shutdown waits for every exchange.
ResolverStops ==
  /\ serving = "handlers" /\ stopped = Registered
  /\ \A r \in Requests, u \in Upstreams : ~Running(r, u)
  /\ serving' = "stopped"
  /\ UNCHANGED <<now, listener, pc, request, resolver, stopped>>

\* Time passes, unless a deadline is reached that ends something.
Tick ==
  /\ \A r \in Requests : pc[r] \in {"handling", "query"} => now < deadline[r]
  /\ \A r \in Requests : pc[r] # "forward"
  /\ now <= MaxTime \/ \E r \in Requests : InFlight(r)
  /\ now' = now + 1
  /\ UNCHANGED <<pc, request, resolver, server>>

---------------------------------------------------------------------------
RequestStep(r) ==
  \/ HandlerMissing(r) \/ Claimed(r) \/ Declined(r) \/ Query(r) \/ Receive(r) \/ QueryTimeout(r)
ExchangeStep(r, u) == (\E result \in {"ok", "failed"} : ExchangeEnds(r, u, result)) \/ Report(r, u)
ServeStep ==
  \/ \E n \in Networks : ListenerStarts(n) \/ ListenerFails(n) \/ ListenerCloses(n) \/ ListenerDrained(n)
  \/ Shutdown \/ ResolverStops \/ \E h \in Registered : HandlerStops(h)

Next ==
  \/ \E r \in Requests, n \in Networks :
       Drop(r, n) \/ DumpQuery(r, n) \/ \E c \in Chains : Route(r, n, c)
  \/ \E r \in Requests : RequestStep(r) \/ \E u \in Upstreams : ExchangeStep(r, u)
  \/ Signal \/ ServeStep \/ Tick

Spec == Init /\ [][Next]_vars

\* Goroutines run, handlers return before their deadline, and time passes.
Fairness ==
  /\ WF_vars(Tick) /\ WF_vars(ServeStep)
  /\ \A r \in Requests : WF_vars(RequestStep(r)) /\ \A u \in Upstreams : WF_vars(ExchangeStep(r, u))

FairSpec == Spec /\ Fairness

---------------------------------------------------------------------------
\* The states there are; the channel never holds more than its buffer.
TypeOK ==
  /\ serving \in {"serving", "cancelled", "handlers", "stopped"}
  /\ \A n \in Networks : listener[n] \in {"starting", "up", "draining", "down"}
  /\ \A r \in Requests :
       /\ pc[r] \in {"idle", "handling", "forward", "query", "answered"}
       /\ pc[r] = "handling" => chain[r] # <<>>
       /\ Len(results[r]) + received[r] + Cardinality({u \in Upstreams : Running(r, u)})
            <= Cardinality(Upstreams)

\* "One deadline for the request, whichever handlers it passes through" (Route): no
\* request is in the proxy for longer than request_timeout and one query's timeout.
AnsweredInTime ==
  \A r \in Requests : InFlight(r) => now <= arrived[r] + RequestTimeout + ResolverTimeout

\* A forwarded request gets an error only if every upstream failed, or at the timeout
\* (Query): one upstream that fails does not hide another's answer.
FailsOnlyIfAllFail ==
  \A r \in Requests : answer[r] = "SERVFAIL" =>
    /\ \A u \in Upstreams : exchange[r][u] = "done"
    /\ \A i \in 1 .. Len(results[r]) : results[r][i] # "ok"

\* "Shutdown releases any resources this handler owns" (Handler): no handler is shut down
\* while a request is with a handler or on its way to one.
NoHandlerStoppedInUse == stopped # {} => \A r \in Requests : ~InFlight(r)

\* Requests are answered in time, fail only if they must, and never meet a handler that
\* was stopped (Route, Query, Serve).
RouterInv == TypeOK /\ AnsweredInTime /\ FailsOnlyIfAllFail /\ NoHandlerStoppedInUse

\* Shutdown comes to its end (Serve): once cancelled, the listeners drain, the handlers
\* stop, and no exchange is left that the resolver waits for.
ShutdownCompletes == serving = "cancelled" ~> serving = "stopped"
===========================================================================
