----------------------------- MODULE SRPClient -----------------------------
(***************************************************************************)
(* The SRP requester, client/srp/client.go and timing.go: clients that     *)
(* want the same host name keep themselves registered with one registrar.  *)
(*                                                                         *)
(* Run registers, renames itself on a conflict, sleeps until the refresh   *)
(* is due, and retries with a growing delay after a failure.  A name is    *)
(* the suffix that rename appends; 0 is the name asked for.  Time is kept  *)
(* as what remains of every sleep and of every lease, so that clients can  *)
(* run for ever.  The registrar is the promise of SRPHandler: a name       *)
(* belongs to the first who asks, until the KEY lease ends.                *)
(***************************************************************************)
EXTENDS Integers, FiniteSets

CONSTANTS Client,
          Taken,             \* suffixes under which a stranger has the name for good
          RequestedLease, Grants, \* the LEASE asked for, and those a registrar may grant
          KeyLease,          \* the KEY-LEASE granted
          MaxRenames,        \* renames in one cycle
          MinBackoff, MaxBackoff, \* minRegisterRetryBackoff, maxRegisterRetryBackoff
          InitialDelay,      \* the longest first delay
          Timeout,           \* the transport's timeout
          NoOption,          \* a response without the Update Lease option
          Nobody,
          MaxSuffix,         \* bounds: renames,
          MaxEvents          \*   failures and cancelled contexts

ASSUME ClientAssumption ==
  /\ MinBackoff \in Nat \ {0} /\ MaxBackoff \in Nat /\ MinBackoff <= MaxBackoff
  /\ RequestedLease \in Grants /\ Grants \subseteq Nat /\ NoOption \notin Grants
  /\ KeyLease \in Nat /\ \A g \in Grants : g <= KeyLease
  /\ MaxSuffix \in Nat /\ Taken \subseteq 0..MaxSuffix /\ Nobody \notin Client
  /\ MaxRenames \in Nat /\ InitialDelay \in Nat /\ Timeout \in Nat

VARIABLES pc,        \* where each client is
          suffix,    \* renameSuffix
          attempt,   \* the attempts of this cycle
          sleep,     \* what is left of its sleep
          backoff,   \* the delay after the next failure
          mail,      \* the request or response on its way
          wait,      \* what is left of the transport's timeout
          cancelled, \* the clients whose context is cancelled
          grant,     \* the registrar: the LEASE its policy grants,
          holder,    \*   who has each name,
          left,      \*   what is left of its LEASE,
          keyLeft,   \*   and of its KEY-LEASE
          anew,      \* the clients whose process was started anew
          spent      \* the events so far, by kind

registrarVars == <<grant, holder, left, keyLeft>>
clientVars == <<pc, suffix, attempt, sleep, backoff, mail, wait, cancelled>>
vars == <<clientVars, registrarVars, anew, spent>>

Suffix == 0..MaxSuffix
NoMail == [kind |-> "none"]
Sleeping == {"initial", "refresh", "backoff"}

Init ==
  /\ pc = [c \in Client |-> "initial"]
  /\ suffix = [c \in Client |-> 0]
  /\ attempt = [c \in Client |-> 0]
  /\ sleep \in [Client -> 0..InitialDelay]
  /\ backoff = [c \in Client |-> MinBackoff]
  /\ mail = [c \in Client |-> NoMail]
  /\ wait = [c \in Client |-> 0]
  /\ cancelled = {}
  /\ grant \in Grants
  /\ holder = [n \in Suffix |-> Nobody]
  /\ left = [n \in Suffix |-> 0]
  /\ keyLeft = [n \in Suffix |-> 0]
  /\ anew = {}
  /\ spent = [faults |-> 0, stops |-> 0]

Spend(what) ==
  /\ spent.faults + spent.stops < MaxEvents
  /\ spent' = [spent EXCEPT ![what] = @ + 1]

---------------------------------------------------------------------------
(* The registrar (external to client/srp), and the network.                 *)

\* Another's name is denied, whatever is asked of it.
Deny(c) ==
  /\ suffix[c] \in Taken \/ holder[suffix[c]] \notin {c, Nobody}
  /\ mail' = [mail EXCEPT ![c] = [kind |-> "conflict"]]
  /\ UNCHANGED registrarVars

\* A registration is granted unless the name is another's; the response carries the
\* granted LEASE, or none when it is the requested one.
Serve(c) ==
  LET n == suffix[c] IN
  /\ mail[c].kind = "register"
  /\ \/ /\ n \notin Taken /\ holder[n] \in {c, Nobody}
        /\ holder' = [holder EXCEPT ![n] = c]
        /\ left' = [left EXCEPT ![n] = grant]
        /\ keyLeft' = [keyLeft EXCEPT ![n] = KeyLease]
        /\ \E option \in {grant} \cup (IF grant = RequestedLease THEN {NoOption} ELSE {}) :
             mail' = [mail EXCEPT ![c] = [kind |-> "success", lease |-> option]]
        /\ UNCHANGED grant
     \/ Deny(c)
  /\ UNCHANGED <<pc, suffix, attempt, sleep, backoff, wait, cancelled, anew, spent>>

\* A removal ends the leases of the name, if it is the client's.
ServeRemoval(c) ==
  LET n == suffix[c] IN
  /\ mail[c].kind = "remove"
  /\ \/ /\ n \notin Taken /\ holder[n] \in {c, Nobody}
        /\ holder' = [holder EXCEPT ![n] = Nobody]
        /\ left' = [left EXCEPT ![n] = 0]
        /\ keyLeft' = [keyLeft EXCEPT ![n] = 0]
        /\ mail' = [mail EXCEPT ![c] = [kind |-> "success", lease |-> NoOption]]
        /\ UNCHANGED grant
     \/ Deny(c)
  /\ UNCHANGED <<pc, suffix, attempt, sleep, backoff, wait, cancelled, anew, spent>>

\* The registrar answers REFUSED or SERVFAIL.
ServeFails(c) ==
  /\ mail[c].kind \in {"register", "remove"} /\ Spend("faults")
  /\ mail' = [mail EXCEPT ![c] = [kind |-> "failure"]]
  /\ UNCHANGED <<pc, suffix, attempt, sleep, backoff, wait, cancelled, registrarVars, anew>>

\* The request or the response is lost.
Lose(c) ==
  /\ mail[c] # NoMail /\ Spend("faults")
  /\ mail' = [mail EXCEPT ![c] = NoMail]
  /\ UNCHANGED <<pc, suffix, attempt, sleep, backoff, wait, cancelled, registrarVars, anew>>

---------------------------------------------------------------------------
(* Run.                                                                     *)

\* Faulty variant: the refresh is due when the lease ends.
RefreshLate(lease) == {lease}

\* refreshDelay: 80% of the lease and up to 5% more, in whole units, at least
\* minRefreshDelay.
refreshDelay(lease) ==
  {IF d < 1 THEN 1 ELSE d : d \in (80 * lease) \div 100 .. (85 * lease) \div 100}

\* Two round trips, the one that brought the lease and the one that refreshes it, fit
\* into what refreshDelay leaves of it: 20 s each against 9 minutes of the default LEASE.
ASSUME RoundTripsFit ==
  \A g \in Grants : 1 + 2 * Timeout < g /\ (85 * g) \div 100 + 2 * Timeout < g

\* Faulty variant: the client counts on the LEASE it asked for.
GrantedAsRequested(resp) == RequestedLease

\* GrantedLease, or the requested one if the response does not say.
Granted(resp) == IF resp.lease = NoOption THEN RequestedLease ELSE resp.lease

Min2(a, b) == IF a < b THEN a ELSE b

\* A cycle ends, and the client rests.
Rest(c, where, delay) ==
  /\ pc' = [pc EXCEPT ![c] = where]
  /\ sleep' = [sleep EXCEPT ![c] = delay]
  /\ attempt' = [attempt EXCEPT ![c] = 0]

\* Faulty variant: the first failure ends Run.
CycleFailsForGood(c) == Rest(c, "stopped", 0) /\ UNCHANGED backoff

\* The cycle failed: Run sleeps and doubles the backoff.
CycleFails(c) ==
  /\ Rest(c, "backoff", backoff[c])
  /\ backoff' = [backoff EXCEPT ![c] = Min2(2 * @, MaxBackoff)]

\* Register finds the registrar, builds, signs and sends.
Register(c) ==
  /\ pc[c] = "registering"
  /\ mail' = [mail EXCEPT ![c] = [kind |-> "register"]]
  /\ wait' = [wait EXCEPT ![c] = Timeout]
  /\ pc' = [pc EXCEPT ![c] = "sent"]
  /\ UNCHANGED <<suffix, attempt, sleep, backoff, cancelled, registrarVars, anew, spent>>

\* Discovery fails: nothing is sent.
DiscoveryFails(c) ==
  /\ pc[c] = "registering" /\ Spend("faults")
  /\ CycleFails(c)
  /\ UNCHANGED <<suffix, mail, wait, cancelled, registrarVars, anew>>

Read(c) == mail' = [mail EXCEPT ![c] = NoMail] /\ wait' = [wait EXCEPT ![c] = 0]

TimedOut(c) == mail[c] = NoMail /\ wait[c] = 0

\* NOERROR: the backoff is reset, and the client sleeps until its refresh.
Registered(c) ==
  /\ pc[c] = "sent" /\ mail[c].kind = "success"
  /\ \E d \in refreshDelay(Granted(mail[c])) : Rest(c, "refresh", d)
  /\ backoff' = [backoff EXCEPT ![c] = MinBackoff]
  /\ Read(c)
  /\ UNCHANGED <<suffix, cancelled, registrarVars, anew, spent>>

\* YXDOMAIN: rename, and register again while attempts are left.
Conflict(c) ==
  /\ pc[c] = "sent" /\ mail[c].kind = "conflict" /\ suffix[c] < MaxSuffix
  /\ suffix' = [suffix EXCEPT ![c] = @ + 1]
  /\ IF attempt[c] < MaxRenames
       THEN /\ pc' = [pc EXCEPT ![c] = "registering"]
            /\ attempt' = [attempt EXCEPT ![c] = @ + 1]
            /\ UNCHANGED <<sleep, backoff>>
       ELSE CycleFails(c)
  /\ Read(c)
  /\ UNCHANGED <<cancelled, registrarVars, anew, spent>>

\* Another RCODE, or the transport's timeout.
Refused(c) ==
  /\ pc[c] = "sent"
  /\ mail[c].kind = "failure" \/ TimedOut(c)
  /\ CycleFails(c)
  /\ Read(c)
  /\ UNCHANGED <<suffix, cancelled, registrarVars, anew, spent>>

\* A sleep ends, and the next cycle begins.
Wake(c) ==
  /\ pc[c] \in Sleeping /\ sleep[c] = 0
  /\ pc' = [pc EXCEPT ![c] = "registering"]
  /\ UNCHANGED <<suffix, attempt, sleep, backoff, mail, wait, cancelled, registrarVars, anew, spent>>

\* ctxSleep: every sleep ends early when the context is cancelled.
ctxSleepEnds(c) == pc[c] \in Sleeping /\ c \in cancelled

\* Sleep returns the context's error, and Run returns it.
Stopped(c) ==
  /\ ctxSleepEnds(c)
  /\ Rest(c, "stopped", 0)
  /\ backoff' = [backoff EXCEPT ![c] = MinBackoff]
  /\ UNCHANGED <<suffix, mail, wait, cancelled, registrarVars, anew, spent>>

---------------------------------------------------------------------------
(* The program around Run.                                                  *)

Cancel(c) ==
  /\ c \notin cancelled /\ Spend("stops")
  /\ cancelled' = cancelled \cup {c}
  /\ UNCHANGED <<pc, suffix, attempt, sleep, backoff, mail, wait, registrarVars, anew>>

\* Deregister: one UPDATE that removes everything under the current names.
Deregister(c) ==
  /\ pc[c] = "stopped" /\ mail[c] = NoMail
  /\ mail' = [mail EXCEPT ![c] = [kind |-> "remove"]]
  /\ wait' = [wait EXCEPT ![c] = Timeout]
  /\ pc' = [pc EXCEPT ![c] = "leaving"]
  /\ UNCHANGED <<suffix, attempt, sleep, backoff, cancelled, registrarVars, anew, spent>>

\* It reports the outcome; there is no retry.
Deregistered(c) ==
  /\ pc[c] = "leaving"
  /\ mail[c].kind \in {"success", "conflict", "failure"} \/ TimedOut(c)
  /\ pc' = [pc EXCEPT ![c] = IF mail[c].kind = "success" THEN "gone" ELSE "kept"]
  /\ Read(c)
  /\ UNCHANGED <<suffix, attempt, sleep, backoff, cancelled, registrarVars, anew, spent>>

\* A new process of a stopped client, with the same key, knows nothing of its names.
\* A second one would know no less.
Restart(c) ==
  /\ pc[c] = "stopped" /\ c \notin anew
  /\ suffix' = [suffix EXCEPT ![c] = 0]
  /\ anew' = anew \cup {c}
  /\ UNCHANGED <<pc, attempt, sleep, backoff, mail, wait, cancelled, registrarVars, spent>>

\* What has to happen before time may pass.
Urgent(c) ==
  \/ pc[c] = "registering"
  \/ pc[c] \in Sleeping /\ sleep[c] = 0
  \/ pc[c] \in {"sent", "leaving"} /\ wait[c] = 0
  \/ ctxSleepEnds(c)

Less(f) == [x \in DOMAIN f |-> IF f[x] = 0 THEN 0 ELSE f[x] - 1]

Tick ==
  /\ \A c \in Client : ~Urgent(c)
  /\ sleep' = Less(sleep) /\ wait' = Less(wait)
  /\ left' = Less(left) /\ keyLeft' = Less(keyLeft)
  /\ holder' = [n \in Suffix |-> IF keyLeft'[n] = 0 THEN Nobody ELSE holder[n]]
  /\ UNCHANGED <<pc, suffix, attempt, backoff, mail, cancelled, grant, anew, spent>>

Answer(c) == Serve(c) \/ ServeRemoval(c) \/ ServeFails(c) \/ Lose(c)

Go(c) ==
  \/ Register(c) \/ DiscoveryFails(c) \/ Registered(c) \/ Conflict(c) \/ Refused(c)
  \/ Wake(c) \/ Stopped(c) \/ Deregistered(c)

Next ==
  \/ Tick
  \/ \E c \in Client : Go(c) \/ Answer(c) \/ Cancel(c) \/ Deregister(c) \/ Restart(c)

Spec == Init /\ [][Next]_vars

\* Time passes, a client that can go on does, and a request is answered or lost.
FairSpec ==
  /\ Spec /\ WF_vars(Tick)
  /\ \A c \in Client : WF_vars(Go(c)) /\ WF_vars(Answer(c))

---------------------------------------------------------------------------
(* Properties.                                                              *)

\* The types, with the backoff between its two limits (Client, Run).
TypeOK ==
  /\ pc \in [Client -> Sleeping \cup {"registering", "sent", "stopped", "leaving", "gone", "kept"}]
  /\ suffix \in [Client -> Suffix]
  /\ \A c \in Client : attempt[c] \in 0..MaxRenames /\ sleep[c] >= 0
  /\ backoff \in [Client -> MinBackoff..MaxBackoff]
  /\ cancelled \subseteq Client
  /\ grant \in Grants
  /\ holder \in [Suffix -> Client \cup {Nobody}]
  /\ left \in [Suffix -> 0..KeyLease] /\ keyLeft \in [Suffix -> 0..KeyLease]

Holds(c) == holder[suffix[c]] = c /\ left[suffix[c]] > 0

\* While a client sleeps until its refresh, it has the name it believes to have: the
\* refresh is due before the granted LEASE ends (refreshDelay, GrantedLease), so no
\* other client can be using the name.
BeliefIsTrue == \A c \in Client : pc[c] = "refresh" => Holds(c)

\* Without failures a client that is registered stays registered, through every
\* refresh, as long as the round trip takes less than the rest of the lease (Run).
KeptAlive ==
  [][\A c \in Client :
       spent.faults = 0 /\ pc[c] \in {"refresh", "registering", "sent"}
         /\ Holds(c) /\ pc'[c] # "stopped" => Holds(c)']_vars

\* A Deregister that succeeded has withdrawn the whole registration: the client has
\* no name left, however often it was renamed (Deregister).  A process started anew for
\* it knows only the names first asked for.
DeregisterWithdraws ==
  \A c \in Client \ anew, n \in Suffix : pc[c] = "gone" => holder[n] # c

\* What a client believes is true: the name it refreshes is its own, and after it
\* deregistered it has none (Client.Run, Client.Deregister).
ClientInv == TypeOK /\ BeliefIsTrue /\ DeregisterWithdraws

\* No failure stops Run, and nothing but a cancelled context: once failures end, every
\* client that is not told to stop is registered and stays so, under its own name or
\* another, and every client that is told to has stopped, wherever it was (Run).
Recovers ==
  \A c \in Client :
    <>[](IF c \in cancelled THEN pc[c] \in {"stopped", "leaving", "gone", "kept"} ELSE Holds(c))

===========================================================================
