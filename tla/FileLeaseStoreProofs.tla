----------------------- MODULE FileLeaseStoreProofs -----------------------
(***************************************************************************)
(* Proofs about the file-backed lease store, for any set of leases, any    *)
(* clock and any number of crashes and failed writes: the file is whole, a *)
(* crash costs only what changed since the last successful save, and a     *)
(* clean shutdown that stops the store loses nothing.                      *)
(***************************************************************************)
EXTENDS FileLeaseStore, TLAPS

(* The inductive invariant.                                                 *)

Active(g) == pc[g] \in {"exported", "written", "synced", "renamed"}

\* The content c tells of lease i what the DNS does, or that it has run out.
Agrees(c, i) ==
  /\ i \in dns => c[i] # None
  /\ c[i] # None /\ i \notin dns => c[i] <= now

\* The operation under way has changed the DNS and not yet the store.
UnderWay ==
  \/ working = Nothing
  \/ /\ working \in [by : {"request", "expiry"}, item : Item, until : Nat \cup {None}]
     /\ phase # "down"
     /\ working.item \in dns <=> working.until # None
     /\ working.by = "request" => phase = "up"
     /\ working.by = "expiry" => /\ working.until = None
                                 /\ mem[working.item] \in Nat
                                 /\ mem[working.item] <= now

\* One save at a time; its copy is the store but for what changed since, and is on disk
\* before the path names it.
SavesInTurn ==
  /\ newer \subseteq fresh
  /\ \A g \in Saver : Active(g) =>
       /\ \A h \in Saver : Active(h) => h = g
       /\ phase # "down"
       /\ \A i \in Item \ newer : copy[g][i] = mem[i]
       /\ pc[g] \in {"synced", "renamed"} => synced[g]
       /\ pc[g] = "renamed" => visible = copy[g]

\* Both what the path names and what it may name after a power loss are the store, but
\* for what changed since the last successful save.
Saved == phase # "down" =>
           \A c \in {visible} \cup durable, i \in Item \ fresh : c[i] = mem[i]

\* Stop waits for the ticker's goroutine, saves, and returns.
StopOrder ==
  /\ phase = "stopping" => flushes
  /\ pc[Stopper] # "idle" =>
       flushes /\ phase \in {"stopping", "stopped"} /\ pc[Ticker] = "done"
  /\ phase = "stopped" /\ flushes => pc[Stopper] \in {"done", "failed"}

\* The store agrees with the DNS but for the operation under way.
InMemory == phase # "down" =>
  \A i \in Item \ astray : working = Nothing \/ working.item # i => Agrees(mem, i)

\* The final save's content agrees with the DNS, and from there a lease only ends.
FinalContent == IF pc[Stopper] = "done" THEN visible ELSE copy[Stopper]

LastSave == Active(Stopper) \/ pc[Stopper] = "done" =>
  /\ \A i \in Item : FinalContent[i] = mem[i] \/ mem[i] = None
  /\ \A i \in Item \ astray : Agrees(FinalContent, i)

\* The inductive invariant of the file store (FileLeaseStore, writeFileAtomic).
IInv ==
  /\ TypeOK /\ visible \in Content /\ durable \subseteq Content
  /\ UnderWay /\ SavesInTurn /\ Saved
  /\ StopOrder /\ InMemory /\ LastSave /\ CleanShutdownKeepsLeases

---------------------------------------------------------------------------
(* Proofs.                                                                  *)

\* The proxy starts with nothing published, nothing leased and an empty file.
LEMMA InitEstablishes == Init => IInv
  BY FileAssumption
     DEF Init, IInv, TypeOK, Content, Empty, Nothing, UnderWay, SavesInTurn, Active,
         Saved, StopOrder, InMemory, LastSave, CleanShutdownKeepsLeases

\* Every step of a request, an expiry, a save, the start, the shutdown or a crash keeps
\* the inductive invariant.
LEMMA StepPreserves == IInv /\ [Next]_vars => IInv'
<1> SUFFICES ASSUME IInv, [Next]_vars PROVE IInv'
  OBVIOUS
<1> USE FileAssumption DEF IInv, opVars, fileVars
<1>1. ASSUME Request, UNCHANGED flushes PROVE IInv'
  <2>1. UnderWay'
    BY <1>1 DEF Request, TypeOK, UnderWay, Nothing, Content
  <2>2. InMemory'
    BY <1>1 DEF Request, TypeOK, InMemory, Agrees, Content, Nothing
  <2>3. TypeOK' /\ visible' \in Content /\ durable' \subseteq Content /\ SavesInTurn'
     /\ Saved' /\ StopOrder' /\ LastSave' /\ CleanShutdownKeepsLeases'
    BY <1>1 DEF Request, TypeOK, Content, Nothing, Empty, SavesInTurn, Active,
       UnderWay, Saved, StopOrder, LastSave, FinalContent, Agrees, InMemory,
       CleanShutdownKeepsLeases
  <2> QED BY <2>1, <2>2, <2>3
<1>2. ASSUME Expire, UNCHANGED flushes PROVE IInv'
  <2>1. UnderWay'
    BY <1>2 DEF Expire, TypeOK, UnderWay, Nothing, Content
  <2>2. InMemory'
    BY <1>2 DEF Expire, TypeOK, InMemory, Agrees, UnderWay, Content, Nothing
  <2>3. LastSave'
    BY <1>2 DEF Expire, TypeOK, LastSave, FinalContent, Agrees, UnderWay,
       Content, SavesInTurn, Active, StopOrder, InMemory
  <2>4. TypeOK' /\ visible' \in Content /\ durable' \subseteq Content /\ SavesInTurn'
     /\ Saved' /\ StopOrder' /\ CleanShutdownKeepsLeases'
    BY <1>2 DEF Expire, TypeOK, Content, Nothing, Empty, SavesInTurn, Active,
       UnderWay, Saved, StopOrder, CleanShutdownKeepsLeases, LastSave,
       FinalContent, Agrees
  <2> QED BY <2>1, <2>2, <2>3, <2>4
<1>3. ASSUME Apply, UNCHANGED flushes PROVE IInv'
  <2>1. TypeOK'
    BY <1>3 DEF Apply, TypeOK, Content, UnderWay
  <2>2. SavesInTurn'
    BY <1>3 DEF Apply, TypeOK, SavesInTurn, Active, UnderWay
  <2>3. Saved'
    BY <1>3 DEF Apply, TypeOK, Saved, SavesInTurn, Active, UnderWay
  <2>4. InMemory'
    BY <1>3 DEF Apply, TypeOK, InMemory, Agrees, UnderWay, Content, Nothing
  <2>5. LastSave'
    BY <1>3 DEF Apply, TypeOK, LastSave, FinalContent, Agrees, UnderWay,
       Content, SavesInTurn, Active, StopOrder, InMemory
  <2>6. visible' \in Content /\ durable' \subseteq Content /\ UnderWay' /\ StopOrder'
     /\ CleanShutdownKeepsLeases'
    BY <1>3 DEF Apply, TypeOK, Content, SavesInTurn, Active, UnderWay, Nothing,
       StopOrder, CleanShutdownKeepsLeases, LastSave, FinalContent, Agrees
  <2> QED BY <2>1, <2>2, <2>3, <2>4, <2>5, <2>6
<1>4. ASSUME TickerSaves, UNCHANGED flushes PROVE IInv'
  <2>1. SavesInTurn'
    BY <1>4 DEF TickerSaves, Export, TypeOK, SavesInTurn, Active, UnderWay
  <2>2. TypeOK' /\ visible' \in Content /\ durable' \subseteq Content /\ UnderWay' /\
     Saved' /\ StopOrder' /\ InMemory' /\ LastSave' /\
     CleanShutdownKeepsLeases'
    BY <1>4 DEF TickerSaves, Export, TypeOK, Content, Nothing, Empty,
       SavesInTurn, Active, UnderWay, Saved, StopOrder, InMemory, Agrees,
       LastSave, FinalContent, CleanShutdownKeepsLeases
  <2> QED BY <2>1, <2>2
<1>5. ASSUME FinalSave, UNCHANGED flushes PROVE IInv'
  <2>1. SavesInTurn'
    BY <1>5 DEF FinalSave, Export, TypeOK, SavesInTurn, Active, UnderWay
  <2>2. LastSave'
    BY <1>5 DEF FinalSave, Export, TypeOK, LastSave, FinalContent, Agrees,
       UnderWay, Content, SavesInTurn, Active, StopOrder, InMemory
  <2>3. TypeOK' /\ visible' \in Content /\ durable' \subseteq Content /\ UnderWay' /\
     Saved' /\ StopOrder' /\ InMemory' /\ CleanShutdownKeepsLeases'
    BY <1>5 DEF FinalSave, Export, TypeOK, Content, Nothing, Empty,
       SavesInTurn, Active, UnderWay, Saved, StopOrder, InMemory, Agrees,
       CleanShutdownKeepsLeases, LastSave, FinalContent
  <2> QED BY <2>1, <2>2, <2>3
<1>6. ASSUME NEW g \in Saver, WriteTemp(g), UNCHANGED flushes PROVE IInv'
  <2>1. SavesInTurn'
    BY <1>6 DEF WriteTemp, TypeOK, SavesInTurn, Active, UnderWay
  <2>2. TypeOK' /\ visible' \in Content /\ durable' \subseteq Content /\ UnderWay' /\
     Saved' /\ StopOrder' /\ InMemory' /\ LastSave' /\
     CleanShutdownKeepsLeases'
    BY <1>6 DEF WriteTemp, TypeOK, Content, Nothing, Empty, SavesInTurn,
       Active, UnderWay, Saved, StopOrder, InMemory, Agrees, LastSave,
       FinalContent, CleanShutdownKeepsLeases
  <2> QED BY <2>1, <2>2
<1>7. ASSUME NEW g \in Saver, SyncTemp(g), UNCHANGED flushes PROVE IInv'
  <2>1. SavesInTurn'
    BY <1>7 DEF SyncTemp, TypeOK, SavesInTurn, Active, UnderWay
  <2>2. TypeOK' /\ visible' \in Content /\ durable' \subseteq Content /\ UnderWay' /\
     Saved' /\ StopOrder' /\ InMemory' /\ LastSave' /\
     CleanShutdownKeepsLeases'
    BY <1>7 DEF SyncTemp, TypeOK, Content, Nothing, Empty, SavesInTurn,
       Active, UnderWay, Saved, StopOrder, InMemory, Agrees, LastSave,
       FinalContent, CleanShutdownKeepsLeases
  <2> QED BY <2>1, <2>2
<1>8. ASSUME NEW g \in Saver, Rename(g), UNCHANGED flushes PROVE IInv'
  <2>1. visible' \in Content /\ durable' \subseteq Content
    BY <1>8 DEF Rename, OnDisk, TypeOK, Content, SavesInTurn, Active
  <2>2. SavesInTurn'
    BY <1>8 DEF Rename, OnDisk, TypeOK, SavesInTurn, Active, UnderWay
  <2>3. Saved'
    BY <1>8 DEF Rename, OnDisk, TypeOK, Saved, SavesInTurn, Active, UnderWay
  <2>4. LastSave'
    BY <1>8 DEF Rename, OnDisk, TypeOK, LastSave, FinalContent, Agrees, UnderWay,
       Content, SavesInTurn, Active, StopOrder, InMemory
  <2>5. CleanShutdownKeepsLeases'
    BY <1>8 DEF Rename, OnDisk, CleanShutdownKeepsLeases, SavesInTurn, Active
  <2>6. TypeOK' /\ UnderWay' /\ StopOrder' /\ InMemory'
    BY <1>8 DEF Rename, OnDisk, TypeOK, Content, Nothing, Empty, UnderWay, StopOrder,
       Active, SavesInTurn, InMemory, Agrees
  <2> QED BY <2>1, <2>2, <2>3, <2>4, <2>5, <2>6
<1>9. ASSUME NEW g \in Saver, SyncDir(g), UNCHANGED flushes PROVE IInv'
  <2>1. visible' \in Content /\ durable' \subseteq Content
    BY <1>9 DEF SyncDir, OnDisk, After, TypeOK, Content, SavesInTurn, Active
  <2>2. SavesInTurn'
    BY <1>9 DEF SyncDir, OnDisk, After, TypeOK, SavesInTurn, Active, UnderWay
  <2>3. Saved'
    BY <1>9 DEF SyncDir, OnDisk, After, TypeOK, Saved, SavesInTurn, Active, UnderWay
  <2>4. LastSave'
    BY <1>9 DEF SyncDir, OnDisk, After, TypeOK, LastSave, FinalContent, Agrees,
       UnderWay, Content, SavesInTurn, Active, StopOrder, InMemory
  <2>5. TypeOK' /\ UnderWay' /\ StopOrder' /\ InMemory' /\
     CleanShutdownKeepsLeases'
    BY <1>9 DEF SyncDir, OnDisk, After, TypeOK, Content, Nothing, Empty, UnderWay,
       StopOrder, Active, SavesInTurn, InMemory, Agrees,
       CleanShutdownKeepsLeases, LastSave, FinalContent
  <2> QED BY <2>1, <2>2, <2>3, <2>4, <2>5
<1>10. ASSUME NEW g \in Saver, SaveFails(g), UNCHANGED flushes PROVE IInv'
  <2>1. SavesInTurn'
    BY <1>10 DEF SaveFails, After, TypeOK, SavesInTurn, Active, UnderWay
  <2>2. StopOrder'
    BY <1>10 DEF SaveFails, After, TypeOK, StopOrder, Active, UnderWay,
       SavesInTurn
  <2>3. TypeOK' /\ visible' \in Content /\ durable' \subseteq Content /\ UnderWay' /\
     Saved' /\ InMemory' /\ LastSave' /\ CleanShutdownKeepsLeases'
    BY <1>10 DEF SaveFails, After, TypeOK, Content, Nothing, Empty, SavesInTurn,
       Active, UnderWay, Saved, InMemory, Agrees, LastSave, FinalContent,
       StopOrder, CleanShutdownKeepsLeases
  <2> QED BY <2>1, <2>2, <2>3
<1>11. ASSUME Start, UNCHANGED flushes PROVE IInv'
  <2>1. Saved'
    BY <1>11 DEF Start, TypeOK, Saved, SavesInTurn, Active, UnderWay
  <2>2. InMemory'
    BY <1>11 DEF Start, TypeOK, InMemory, Agrees, CleanShutdownKeepsLeases,
       Content, UnderWay
  <2>3. TypeOK' /\ visible' \in Content /\ durable' \subseteq Content /\ UnderWay' /\
     SavesInTurn' /\ StopOrder' /\ LastSave' /\ CleanShutdownKeepsLeases'
    BY <1>11 DEF Start, TypeOK, Content, Nothing, Empty, SavesInTurn, Active,
       UnderWay, StopOrder, LastSave, FinalContent, Agrees, InMemory,
       CleanShutdownKeepsLeases
  <2> QED BY <2>1, <2>2, <2>3
<1>12. ASSUME Shutdown, UNCHANGED flushes PROVE IInv'
  <2>1. UnderWay'
    BY <1>12 DEF Shutdown, TypeOK, UnderWay, Nothing, Content
  <2>2. StopOrder'
    BY <1>12 DEF Shutdown, TypeOK, StopOrder, Active, UnderWay, SavesInTurn
  <2>3. TypeOK' /\ visible' \in Content /\ durable' \subseteq Content /\ SavesInTurn'
     /\ Saved' /\ InMemory' /\ LastSave' /\ CleanShutdownKeepsLeases'
    BY <1>12 DEF Shutdown, TypeOK, Content, Nothing, Empty, SavesInTurn,
       Active, UnderWay, Saved, InMemory, Agrees, LastSave, FinalContent,
       StopOrder, CleanShutdownKeepsLeases
  <2> QED BY <2>1, <2>2, <2>3
<1>13. ASSUME TickerEnds, UNCHANGED flushes PROVE IInv'
  <2>1. SavesInTurn'
    BY <1>13 DEF TickerEnds, TypeOK, SavesInTurn, Active, UnderWay
  <2>2. StopOrder'
    BY <1>13 DEF TickerEnds, TypeOK, StopOrder, Active, UnderWay, SavesInTurn
  <2>3. TypeOK' /\ visible' \in Content /\ durable' \subseteq Content /\ UnderWay' /\
     Saved' /\ InMemory' /\ LastSave' /\ CleanShutdownKeepsLeases'
    BY <1>13 DEF TickerEnds, TypeOK, Content, Nothing, Empty, SavesInTurn,
       Active, UnderWay, Saved, InMemory, Agrees, LastSave, FinalContent,
       StopOrder, CleanShutdownKeepsLeases
  <2> QED BY <2>1, <2>2, <2>3
<1>14. ASSUME StopReturns, UNCHANGED flushes PROVE IInv'
  <2>1. StopOrder'
    BY <1>14 DEF StopReturns, TypeOK, StopOrder, Active, UnderWay, SavesInTurn
  <2>2. TypeOK' /\ visible' \in Content /\ durable' \subseteq Content /\ UnderWay' /\
     SavesInTurn' /\ Saved' /\ InMemory' /\ LastSave' /\
     CleanShutdownKeepsLeases'
    BY <1>14 DEF StopReturns, TypeOK, Content, Nothing, Empty, SavesInTurn,
       Active, UnderWay, Saved, InMemory, Agrees, LastSave, FinalContent,
       StopOrder, CleanShutdownKeepsLeases
  <2> QED BY <2>1, <2>2
<1>15. ASSUME Exit, UNCHANGED flushes PROVE IInv'
  <2>1. CleanShutdownKeepsLeases'
    BY <1>15 DEF Exit, Gone, TypeOK, CleanShutdownKeepsLeases, StopOrder,
       LastSave, FinalContent, Agrees, UnderWay
  <2>2. TypeOK' /\ visible' \in Content /\ durable' \subseteq Content /\ UnderWay' /\
     SavesInTurn' /\ Saved' /\ StopOrder' /\ InMemory' /\ LastSave'
    BY <1>15 DEF Exit, Gone, TypeOK, Content, Nothing, Empty, SavesInTurn,
       Active, UnderWay, Saved, StopOrder, InMemory, Agrees, LastSave,
       FinalContent
  <2> QED BY <2>1, <2>2
<1>16. ASSUME Crash, UNCHANGED flushes PROVE IInv'
  <2>1. TypeOK' /\ visible' \in Content /\ durable' \subseteq Content /\ UnderWay' /\
     SavesInTurn' /\ Saved' /\ StopOrder' /\ InMemory' /\ LastSave' /\
     CleanShutdownKeepsLeases'
    BY <1>16 DEF Crash, Gone, TypeOK, Content, Nothing, Empty, SavesInTurn,
       Active, UnderWay, Saved, StopOrder, InMemory, Agrees, LastSave,
       FinalContent, CleanShutdownKeepsLeases
  <2> QED BY <2>1
<1>17. ASSUME Time, UNCHANGED flushes PROVE IInv'
  <2>1. InMemory'
    BY <1>17 DEF Time, TypeOK, InMemory, Agrees, UnderWay, Content, Nothing
  <2>2. LastSave'
    BY <1>17 DEF Time, TypeOK, LastSave, FinalContent, Agrees, UnderWay,
       Content, SavesInTurn, Active, StopOrder, InMemory
  <2>3. CleanShutdownKeepsLeases'
    BY <1>17 DEF Time, TypeOK, CleanShutdownKeepsLeases, Content
  <2>4. TypeOK' /\ visible' \in Content /\ durable' \subseteq Content /\ UnderWay' /\
     SavesInTurn' /\ Saved' /\ StopOrder'
    BY <1>17 DEF Time, TypeOK, Content, Nothing, Empty, SavesInTurn, Active,
       UnderWay, Saved, StopOrder
  <2> QED BY <2>1, <2>2, <2>3, <2>4
<1>18. CASE UNCHANGED vars
  BY <1>18 DEF vars, TypeOK, UnderWay, SavesInTurn, Active, Saved, StopOrder,
     InMemory, LastSave, FinalContent, Agrees, CleanShutdownKeepsLeases
<1> QED BY <1>1, <1>2, <1>3, <1>4, <1>5, <1>6, <1>7, <1>8, <1>9, <1>10, <1>11, <1>12,
   <1>13, <1>14, <1>15, <1>16, <1>17, <1>18 DEF Next, Save

\* The inductive invariant holds in every run of the proxy, with any number of leases,
\* crashes and failed writes.
THEOREM Invariance == Spec => []IInv
  BY InitEstablishes, StepPreserves, PTL DEF Spec

\* Wherever a crash or a power loss strikes, a whole snapshot is left to load
\* (writeFileAtomic, LoadSnapshot).
THEOREM FileIsWhole == Spec => []NeverTorn
<1>1. IInv => NeverTorn
  BY FileAssumption DEF IInv, NeverTorn, Content
<1> QED BY <1>1, Invariance, PTL

\* After a clean shutdown that stopped the store, the snapshot holds all that is
\* published (FileLeaseStore.Stop).
THEOREM ShutdownLosesNothing == Spec => []CleanShutdownKeepsLeases
  BY Invariance, PTL DEF IInv

\* A crash, a power loss or an exit costs only the changes made since the snapshot that
\* the last successful save exported (writeFileAtomic, SaveSnapshot).
THEOREM LossIsBounded == Spec => LossBounded
<1>1. IInv /\ [Next]_vars =>
        [Crash \/ Exit => \A i \in Item \ fresh : visible'[i] = mem[i]]_vars
  <2> SUFFICES ASSUME IInv, Crash \/ Exit, NEW i \in Item \ fresh
               PROVE  visible'[i] = mem[i]
    OBVIOUS
  <2>1. phase # "down" /\ visible' \in {visible} \cup durable
    BY DEF Crash, Exit
  <2> QED BY <2>1 DEF IInv, Saved
<1> QED BY <1>1, Invariance, PTL DEF Spec, LossBounded
====
