-------------------------- MODULE FileLeaseStore --------------------------
(***************************************************************************)
(* The file-backed lease store, pkg/lease/file_store.go, and its atomic    *)
(* write, writeFileAtomic in pkg/lease/state.go: what survives a crash, a  *)
(* power loss or a shutdown, next to what the DNS publishes.               *)
(*                                                                         *)
(* A lease is one item with its expiry; that a snapshot holds the whole    *)
(* store is shown in LeaseStore.  An operation of a handler writes the DNS *)
(* first and the store second; requests are drained before the handlers    *)
(* are shut down, expiries are not.                                        *)
(***************************************************************************)
EXTENDS Integers, FiniteSets

CONSTANTS Item,        \* leases
          None,        \* no lease
          Torn,        \* the content of a file that was written in part
          Saver,       \* the goroutines that save: the ticker's and Stop's caller
          Ticker,      \*   the first of them
          Stopper,     \*   and the second
          MaxTime,     \* bounds: the clock,
          MaxCrashes,  \*   crashes,
          MaxErrors    \*   failed writes

ASSUME FileAssumption ==
  /\ None \notin Nat \cup Item
  /\ Saver = {Ticker, Stopper} /\ Ticker # Stopper
  /\ Torn \notin [Item -> Nat \cup {None}]
  /\ MaxTime \in Nat

VARIABLES flushes,  \* whether the handler's Shutdown stops its store
          mem,      \* the leases in memory
          dns,      \* the items the DNS publishes
          now,      \* the clock
          phase,    \* of the process: down, up, stopping, stopped
          working,  \* the item an operation has changed in the DNS and not yet here
          pc,       \* where each save is
          copy,     \* the snapshot each save exported
          synced,   \* whether what each save wrote to its temporary file is on disk
          visible,  \* what the path names
          durable,  \* what it may name after a power loss: a set of contents
          fresh,    \* leases changed since the last completed save exported
          newer,    \* leases changed since the save in progress exported
          ended,    \* how the process last ended
          astray,   \* leases a crash left different from the DNS
          budget    \* what is left of the bounds

vars == <<flushes, mem, dns, now, phase, working, pc, copy, synced, visible, durable, fresh, newer,
          ended, astray, budget>>
opVars == <<mem, dns, working, fresh, newer, astray>>
fileVars == <<pc, copy, synced, visible, durable>>

Empty == [i \in Item |-> None]
Content == [Item -> Nat \cup {None}]
Nothing == [by |-> None, item |-> None, until |-> None]

Init ==
  /\ flushes \in BOOLEAN
  /\ mem = Empty /\ dns = {} /\ now = 0
  /\ phase = "down" /\ working = Nothing
  /\ pc = [g \in Saver |-> "idle"] /\ copy = [g \in Saver |-> Empty]
  /\ synced = [g \in Saver |-> FALSE]
  /\ visible = Empty /\ durable = {Empty}
  /\ fresh = {} /\ newer = {} /\ ended = "new" /\ astray = {}
  /\ budget = [crashes |-> MaxCrashes, errors |-> MaxErrors]

---------------------------------------------------------------------------
(* The handler's operations: confirmed upstream, then applied to the store. *)

\* A registration or refresh until t, a client's delete (t = None).
Request ==
  /\ phase = "up" /\ working = Nothing
  /\ \E i \in Item, t \in {None} \cup (now + 1)..MaxTime :
       /\ t = None => mem[i] # None
       /\ dns' = IF t = None THEN dns \ {i} ELSE dns \cup {i}
       /\ working' = [by |-> "request", item |-> i, until |-> t]
  /\ UNCHANGED <<mem, now, phase, fileVars, fresh, newer, ended, astray, budget>>

\* A timer's run, which goes on while the process does.
Expire ==
  /\ phase \in {"up", "stopping", "stopped"} /\ working = Nothing
  /\ \E i \in Item : /\ mem[i] \in Nat /\ mem[i] <= now
                     /\ dns' = dns \ {i}
                     /\ working' = [by |-> "expiry", item |-> i, until |-> None]
  /\ UNCHANGED <<mem, now, phase, fileVars, fresh, newer, ended, astray, budget>>

Apply ==
  /\ working # Nothing
  /\ mem' = [mem EXCEPT ![working.item] = working.until]
  /\ fresh' = fresh \cup {working.item} /\ newer' = newer \cup {working.item}
  /\ astray' = astray \ {working.item}
  /\ working' = Nothing
  /\ UNCHANGED <<dns, now, phase, fileVars, ended, budget>>

---------------------------------------------------------------------------
(* SaveSnapshot and writeFileAtomic.                                        *)

\* save: one at a time (saveMu).  ExportSnapshot is atomic (the store's mutex).
Export(g) ==
  /\ \A h \in Saver : pc[h] \in {"idle", "done"}
  /\ pc' = [pc EXCEPT ![g] = "exported"]
  /\ copy' = [copy EXCEPT ![g] = mem]
  /\ newer' = {}
  /\ UNCHANGED <<mem, dns, now, phase, working, synced, visible, durable, fresh, ended, astray,
                 budget>>

\* The ticker's goroutine saves until it ends.  When it is told to stop, its select
\* may still find a tick.
TickerSaves ==
  /\ phase # "down" /\ pc[Ticker] = "idle"
  /\ Export(Ticker)

\* CreateTemp and Write: all of the snapshot is in the temporary file, and what of it is
\* on disk is anyone's guess.
WriteTemp(g) ==
  /\ pc[g] = "exported"
  /\ pc' = [pc EXCEPT ![g] = "written"]
  /\ synced' = [synced EXCEPT ![g] = FALSE]
  /\ UNCHANGED <<opVars, now, phase, copy, visible, durable, ended, budget>>

\* Faulty variant: the temporary file is closed without a sync.
CloseTemp(g) ==
  /\ pc[g] = "written"
  /\ pc' = [pc EXCEPT ![g] = "synced"]
  /\ UNCHANGED <<opVars, now, phase, copy, synced, visible, durable, ended, budget>>

\* Sync, then Close.
SyncTemp(g) ==
  /\ pc[g] = "written"
  /\ pc' = [pc EXCEPT ![g] = "synced"]
  /\ synced' = [synced EXCEPT ![g] = TRUE]
  /\ UNCHANGED <<opVars, now, phase, copy, visible, durable, ended, budget>>

\* What a power loss leaves of the file a save wrote.
OnDisk(g) == IF synced[g] THEN copy[g] ELSE Torn

\* Faulty variant: the save is over with the rename.
RenameOnly(g) ==
  /\ pc[g] = "synced"
  /\ visible' = copy[g]
  /\ durable' = durable \cup {OnDisk(g)}
  /\ fresh' = newer
  /\ pc' = [pc EXCEPT ![g] = IF g = Stopper THEN "done" ELSE "idle"]
  /\ UNCHANGED <<mem, dns, working, newer, astray, now, phase, copy, synced, ended, budget>>

\* The path names the new file, though after a power loss the directory may still say
\* otherwise; whichever file it says, what was not synced is lost.
Rename(g) ==
  /\ pc[g] = "synced"
  /\ visible' = copy[g]
  /\ durable' = durable \cup {OnDisk(g)}
  /\ pc' = [pc EXCEPT ![g] = "renamed"]
  /\ UNCHANGED <<opVars, now, phase, copy, synced, ended, budget>>

\* The ticker's goroutine waits for its next tick; Stop has nothing left to do.
After(g) == IF g = Stopper THEN "done" ELSE "idle"

\* syncDir: the save has succeeded.
SyncDir(g) ==
  /\ pc[g] = "renamed"
  /\ durable' = {OnDisk(g)}
  /\ fresh' = newer
  /\ pc' = [pc EXCEPT ![g] = After(g)]
  /\ copy' = [copy EXCEPT ![g] = Empty]
  /\ synced' = [synced EXCEPT ![g] = FALSE]
  /\ UNCHANGED <<mem, dns, working, newer, astray, now, phase, visible, ended, budget>>

\* A step of the save fails: the error is reported and the temporary file removed.
SaveFails(g) ==
  /\ pc[g] \in {"exported", "written", "synced", "renamed"} /\ budget.errors > 0
  /\ pc' = [pc EXCEPT ![g] = IF g = Stopper THEN "failed" ELSE After(g)]
  /\ budget' = [budget EXCEPT !.errors = @ - 1]
  /\ copy' = [copy EXCEPT ![g] = Empty]
  /\ synced' = [synced EXCEPT ![g] = FALSE]
  /\ UNCHANGED <<opVars, now, phase, visible, durable, ended>>

Save(g) ==
  WriteTemp(g) \/ SyncTemp(g) \/ Rename(g) \/ SyncDir(g) \/ SaveFails(g)

---------------------------------------------------------------------------
(* Start, shutdown and crash.                                               *)

\* NewFileLeaseStore: load what the path names and probe that it can be written.
\* A torn file, or a failed probe, keeps the process from starting.
Start ==
  /\ phase = "down" /\ visible # Torn
  /\ mem' = visible
  /\ phase' = "up" /\ ended' = "running"
  /\ durable' = {visible}
  /\ pc' = [g \in Saver |-> "idle"]
  /\ astray' = IF flushes /\ ended = "clean" THEN astray
               ELSE {i \in Item : (i \in dns) # (visible[i] # None)}
  /\ UNCHANGED <<dns, now, working, visible, fresh, newer, copy, synced, budget>>

\* Faulty variant: the handlers are shut down with requests under way.
ShutdownUndrained ==
  /\ phase = "up"
  /\ phase' = IF flushes THEN "stopping" ELSE "stopped"
  /\ UNCHANGED <<opVars, now, fileVars, ended, budget>>

\* Serve returns when the listeners have drained, and the router shuts the
\* handlers down.  UpdateHandler.Shutdown calls Stop; a handler with
\* BaseHandler's Shutdown leaves its store alone.
Shutdown ==
  /\ phase = "up"
  /\ working.by # "request"
  /\ phase' = IF flushes THEN "stopping" ELSE "stopped"
  /\ UNCHANGED <<opVars, now, fileVars, ended, budget>>

\* Stop waits for the ticker's goroutine to end before the final save.
TickerEnds ==
  /\ phase = "stopping" /\ pc[Ticker] = "idle"
  /\ pc' = [pc EXCEPT ![Ticker] = "done"]
  /\ UNCHANGED <<opVars, now, phase, copy, synced, visible, durable, ended, budget>>

FinalSave ==
  /\ phase = "stopping" /\ pc[Ticker] = "done" /\ pc[Stopper] = "idle"
  /\ Export(Stopper)

StopReturns ==
  /\ phase = "stopping" /\ pc[Stopper] \in {"done", "failed"}
  /\ phase' = "stopped"
  /\ UNCHANGED <<opVars, now, fileVars, ended, budget>>

\* The process is gone, and with it what it was doing.
Gone(how) ==
  /\ phase' = "down" /\ ended' = how
  /\ working' = Nothing
  /\ pc' = [g \in Saver |-> "idle"] /\ copy' = [g \in Saver |-> Empty]
  /\ synced' = [g \in Saver |-> FALSE]
  /\ mem' = Empty /\ fresh' = {} /\ newer' = {}
  /\ UNCHANGED <<dns, now, astray>>

\* main returns.  What the path names stays.
Exit ==
  /\ phase = "stopped"
  /\ Gone(IF pc[Stopper] = "failed" THEN "unsaved" ELSE "clean")
  /\ durable' = {visible}
  /\ UNCHANGED <<visible, budget>>

\* A crash of the process, or of the machine: then a rename may be undone, and of a file
\* only what was synced is left.
Crash ==
  /\ phase # "down" /\ budget.crashes > 0
  /\ Gone("crash")
  /\ visible' \in {visible} \cup durable /\ durable' = {visible'}
  /\ budget' = [budget EXCEPT !.crashes = @ - 1]

Time ==
  /\ now < MaxTime /\ now' = now + 1
  /\ UNCHANGED <<opVars, phase, fileVars, ended, budget>>

Next ==
  /\ \/ Request \/ Expire \/ Apply \/ TickerSaves \/ FinalSave
     \/ \E g \in Saver : Save(g)
     \/ Start \/ Shutdown \/ TickerEnds \/ StopReturns \/ Exit \/ Crash \/ Time
  /\ UNCHANGED flushes

Spec == Init /\ [][Next]_vars

---------------------------------------------------------------------------
(* Properties.                                                              *)

\* The types of the store, the file, the savers and the histories (FileLeaseStore).
TypeOK ==
  /\ mem \in Content /\ dns \subseteq Item /\ now \in 0..MaxTime
  /\ phase \in {"down", "up", "stopping", "stopped"}
  /\ working = Nothing \/ working.item \in Item
  /\ pc \in [Saver -> {"idle", "exported", "written", "synced", "renamed", "done", "failed"}]
  /\ copy \in [Saver -> Content]
  /\ synced \in [Saver -> BOOLEAN]
  /\ fresh \subseteq Item /\ newer \subseteq Item /\ astray \subseteq Item
  /\ ended \in {"new", "running", "clean", "unsaved", "crash"}

\* Whatever step of a save a crash or a power loss interrupts, the path names a whole
\* snapshot, so the proxy can start again: a part of a snapshot, and a whole one that is
\* not yet on disk, are only ever in a temporary file (writeFileAtomic, LoadSnapshot).
NeverTorn == TypeOK /\ visible # Torn /\ Torn \notin durable

\* A crash or a power loss costs only the changes made after the snapshot that the
\* last successful save exported, and so does the end of a process that could not or
\* did not save: a save that returned nil is on disk, and no other save, however far it
\* got, puts an older state in its place (writeFileAtomic, SaveSnapshot).
LossBounded ==
  [][Crash \/ Exit => \A i \in Item \ fresh : visible'[i] = mem[i]]_vars

\* A shutdown that stops the store loses nothing, leases that an earlier crash set astray
\* aside: every record published is leased again after the restart, and a lease that is
\* no longer published is one that has run out (Stop's final save, with requests drained
\* and expiries still running).
CleanShutdownKeepsLeases ==
  flushes /\ phase = "down" /\ ended = "clean" =>
    \A i \in Item \ astray :
      /\ i \in dns => visible[i] # None
      /\ visible[i] # None /\ i \notin dns => visible[i] <= now
====
