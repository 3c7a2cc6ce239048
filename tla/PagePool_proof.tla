---------------------------- MODULE PagePool_proof ----------------------------
(***************************************************************************)
(* Proofs about PagePool, for any number of callers, sessions, tabs and    *)
(* reconnects.                                                             *)
(***************************************************************************)
EXTENDS PagePool, TLAPS

\* A call in progress has a session name.
NameHeld ==
  \A x \in Getters \cup Closers :
    pc[x] \notin {"idle"} \cup Finished => name[x] \in Names

\* An adopter past adoptExistingPage has a page, and its entry has it too.
AdoptedPage ==
  \A g \in Getters :
    /\ pc[g] \in {"adoptGen", "adoptLife"} => got[g] # None
    /\ pc[g] = "adoptInsert" => mp[g].page # None /\ ~mp[g].err

\* An entry in the map was put there by a creator that is still at work, under
\* the creator's name, or that has succeeded.
MappedByCreator ==
  \A g \in Getters : \A n \in Names : pages[n] = g =>
    /\ pc[g] \in {"create", "patch", "finish", "ok", "adoptFinish", "adopted"}
    /\ pc[g] \in {"create", "patch", "finish"} => n = name[g]
    /\ pc[g] \in {"finish", "ok", "adoptFinish", "adopted"} => mp[g].page # None
    /\ ~mp[g].err

\* Until it succeeds or fails, a creator keeps its placeholder unready.
PlaceholderUnready ==
  \A g \in Getters : pc[g] \in {"create", "patch", "finish"} =>
    ~mp[g].ready /\ ~mp[g].err

Made == {"create", "patch", "finish", "discard", "discarded", "stale",
         "adoptFinish", "ok", "adopted", "failed"}

\* The entry a call found was put into the map, so its creator never makes it
\* blank again: a page seen in it stays.
FoundPage ==
  \A g \in Getters :
    /\ pc[g] \in {"wait", "probe", "touch", "replace", "finish", "adoptFinish",
                  "adoptClose", "adoptWait", "ok", "adopted"} =>
         found[g] \in Getters /\ pc[found[g]] \in Made
    /\ pc[g] \in {"touch", "finish", "adoptFinish", "ok", "adopted"} =>
         mp[found[g]].page # None

Typed == TypeOK /\ NameHeld
IInv == AdoptedPage /\ MappedByCreator /\ PlaceholderUnready /\ FoundPage
-----------------------------------------------------------------------------
(* Types.                                                                  *)

\* What the actions write into an entry keeps it a ManagedPage.
LEMMA EntryUpdates ==
  ASSUME NEW f \in [Getters -> ManagedPage], NEW p
  PROVE  /\ [f EXCEPT ![p].life = None] \in [Getters -> ManagedPage]
         /\ [f EXCEPT ![p].ready = TRUE] \in [Getters -> ManagedPage]
         /\ [f EXCEPT ![p].err = TRUE] \in [Getters -> ManagedPage]
         /\ \A v \in BOOLEAN : [f EXCEPT ![p].idle = v] \in [Getters -> ManagedPage]
         /\ \A v \in BOOLEAN : [f EXCEPT ![p].detached = v] \in [Getters -> ManagedPage]
         /\ \A h \in Handle \cup {None} : [f EXCEPT ![p].page = h] \in [Getters -> ManagedPage]
         /\ [f EXCEPT ![p].life = None, ![p].ready = TRUE] \in [Getters -> ManagedPage]
         /\ [f EXCEPT ![p].life = None, ![p].err = TRUE, ![p].ready = TRUE]
              \in [Getters -> ManagedPage]
<1>1. [f EXCEPT ![p].life = None] \in [Getters -> ManagedPage]
  BY DEF ManagedPage
<1>2. [f EXCEPT ![p].ready = TRUE] \in [Getters -> ManagedPage]
  BY DEF ManagedPage
<1>3. [f EXCEPT ![p].err = TRUE] \in [Getters -> ManagedPage]
  BY DEF ManagedPage
<1>4. \A v \in BOOLEAN : [f EXCEPT ![p].idle = v] \in [Getters -> ManagedPage]
  BY DEF ManagedPage
<1>5. \A v \in BOOLEAN : [f EXCEPT ![p].detached = v] \in [Getters -> ManagedPage]
  BY DEF ManagedPage
<1>6. \A h \in Handle \cup {None} : [f EXCEPT ![p].page = h] \in [Getters -> ManagedPage]
  BY DEF ManagedPage
<1>7. [f EXCEPT ![p].life = None, ![p].ready = TRUE] \in [Getters -> ManagedPage]
  BY DEF ManagedPage
<1>8. [f EXCEPT ![p].life = None, ![p].err = TRUE, ![p].ready = TRUE]
        \in [Getters -> ManagedPage]
  BY ZenonT(30) DEF ManagedPage
<1> QED
  BY <1>1, <1>2, <1>3, <1>4, <1>5, <1>6, <1>7, <1>8

\* A fresh placeholder, and the entry of an adopted tab.
LEMMA BlankEntry ==
  ASSUME NEW f \in [Getters -> ManagedPage], NEW g, NEW n \in Nat, NEW l \in Nat
  PROVE  /\ [f EXCEPT ![g] = [Blank EXCEPT !.gen = n, !.life = l]] \in [Getters -> ManagedPage]
         /\ \A h \in Handle \cup {None} :
              [f EXCEPT ![g] = [Blank EXCEPT !.page = h, !.gen = n, !.life = l, !.ready = TRUE]]
                \in [Getters -> ManagedPage]
<1>1. [Blank EXCEPT !.gen = n, !.life = l] \in ManagedPage
  BY DEF Blank, ManagedPage
<1>2. \A h \in Handle \cup {None} :
        [Blank EXCEPT !.page = h, !.gen = n, !.life = l, !.ready = TRUE] \in ManagedPage
  BY DEF Blank, ManagedPage
<1> QED
  BY <1>1, <1>2

\* The empty pool is well typed.
LEMMA InitTyped == Init => Typed
<1> SUFFICES ASSUME Init PROVE Typed
  OBVIOUS
<1>1. mp \in [Getters -> ManagedPage]
  BY DEF Init, Blank, ManagedPage
<1>2. TypeOK
  BY <1>1 DEF Init, TypeOK, Tabs, GetterPC, CloserPC, OperatorPC
<1>3. NameHeld
  BY DEF Init, NameHeld
<1> QED
  BY <1>2, <1>3 DEF Typed

\* The steps of getOrCreatePage.
LEMMA GetterTyped ==
  ASSUME Typed, NEW g \in Getters, LookupMiss(g) \/ LookupHit(g) \/ GetterStep(g)
  PROVE  Typed'
<1> USE BoundAssumption, ActorsAssumption
<1> USE DEF Typed, TypeOK, NameHeld, Finished, Goto, locals, update, chrome, reaper,
            GetterPC, CloserPC, OperatorPC, Names, Handle, Tabs
<1>1. CASE LookupMiss(g)
  BY <1>1 DEF LookupMiss, MayAsk, Proceed
<1>2. CASE LookupHit(g)
  BY <1>2 DEF LookupHit, MayAsk
<1>3. CASE Wait(g)
  <2>1. CASE Return(g, "failed")
    BY <1>3, <2>1 DEF Wait, Return
  <2>2. CASE Goto(g, "probe") /\ UNCHANGED locals
    BY <1>3, <2>2 DEF Wait
  <2> QED BY <1>3, <2>1, <2>2 DEF Wait
<1>4. CASE ProbeOK(g)
  BY <1>4 DEF ProbeOK
<1>5. CASE ProbeFails(g)
  BY <1>5 DEF ProbeFails
<1>6. CASE Touch(g)
  <2>1. mp' \in [Getters -> ManagedPage]
    BY <1>6, EntryUpdates DEF Touch
  <2> QED BY <1>6, <2>1 DEF Touch, Return
<1>7. CASE Replace(g)
  <2>1. mp' \in [Getters -> ManagedPage]
    BY <1>7, EntryUpdates DEF Replace
  <2>2. pages' \in [Names -> Getters \cup {None}]
    BY <1>7 DEF Replace, Dropped
  <2>3. name[g] \in Names
    BY <1>7 DEF Replace
  <2>4. DedupNames(Dropped(g), name[g][1], g) \subseteq Names
    BY <2>3 DEF DedupNames, FirstFree
  <2>5. PICK n \in Names : name' = [name EXCEPT ![g] = n]
    BY <1>7, <2>4 DEF Replace
  <2>6. /\ pc' \in {[pc EXCEPT ![g] = "adopt"], [pc EXCEPT ![g] = "reserve"]}
        /\ mu' \in {mu, g} /\ snap' \in {snap, [snap EXCEPT ![g] = gen]}
    BY <1>7 DEF Replace, Proceed
  <2> QED BY <1>7, <2>1, <2>2, <2>5, <2>6 DEF Replace
<1>8. CASE Reserve(g)
  <2>1. mp' \in [Getters -> ManagedPage]
    BY <1>8, BlankEntry DEF Reserve
  <2> QED BY <1>8, <2>1 DEF Reserve
<1>9. CASE CreateOK(g)
  BY <1>9 DEF CreateOK
<1>10. CASE CreateFails(g)
  BY <1>10 DEF CreateFails
<1>11. CASE PatchDiscarded(g)
  BY <1>11 DEF PatchDiscarded
<1>12. CASE RecordDiscard(g)
  <2>1. mp' \in [Getters -> ManagedPage]
    BY <1>12, EntryUpdates DEF RecordDiscard
  <2> QED BY <1>12, <2>1 DEF RecordDiscard, Return
<1>13. CASE PatchFailed(g)
  <2>1. mp' \in [Getters -> ManagedPage]
    BY <1>13, EntryUpdates DEF PatchFailed, FailPlaceholder
  <2> QED BY <1>13, <2>1 DEF PatchFailed, FailPlaceholder, DeletePlaceholder, Return
<1>14. CASE PatchStale(g)
  <2>1. mp' \in [Getters -> ManagedPage]
    BY <1>14, EntryUpdates DEF PatchStale
  <2> QED BY <1>14, <2>1 DEF PatchStale, DeletePlaceholder
<1>15. CASE PatchOK(g)
  <2>1. mp' \in [Getters -> ManagedPage]
    BY <1>15, EntryUpdates DEF PatchOK, Patch
  <2> QED BY <1>15, <2>1 DEF PatchOK, Patch
<1>16. CASE Finish(g)
  <2>1. mp' \in [Getters -> ManagedPage]
    BY <1>16, EntryUpdates DEF Finish
  <2> QED BY <1>16, <2>1 DEF Finish, Return
<1>17. CASE Adopt(g)
  BY <1>17 DEF Adopt
<1>18. CASE AdoptFails(g)
  BY <1>18 DEF AdoptFails
<1>19. CASE Relock(g)
  BY <1>19 DEF Relock
<1>20. CASE AdoptGen(g)
  BY <1>20 DEF AdoptGen
<1>21. CASE AdoptLife(g)
  <2>1. mp' \in [Getters -> ManagedPage]
    BY <1>21, BlankEntry DEF AdoptLife
  <2> QED BY <1>21, <2>1 DEF AdoptLife
<1>22. CASE AdoptInsert(g)
  BY <1>22 DEF AdoptInsert
<1>23. CASE AdoptLoses(g)
  <2>1. mp' \in [Getters -> ManagedPage]
    BY <1>23, EntryUpdates DEF AdoptLoses
  <2> QED BY <1>23, <2>1 DEF AdoptLoses
<1>24. CASE AdoptWait(g)
  BY <1>24 DEF AdoptWait, Return
<1>25. CASE Discard(g)
  <2>1. mp' \in [Getters -> ManagedPage]
    BY <1>25, EntryUpdates DEF Discard
  <2> QED BY <1>25, <2>1 DEF Discard, ClosePageTab, Gone
<1>26. CASE CloseStale(g)
  <2>1. mp' \in [Getters -> ManagedPage]
    BY <1>26, EntryUpdates DEF CloseStale, FailPlaceholder
  <2> QED BY <1>26, <2>1 DEF CloseStale, FailPlaceholder, Return, ClosePageTab, Gone
<1>27. CASE AdoptFinish(g)
  BY <1>27 DEF AdoptFinish, Return
<1>28. CASE AdoptClose(g)
  BY <1>28 DEF AdoptClose, ClosePageTab, Gone
<1> QED
  BY <1>1, <1>2, <1>3, <1>4, <1>5, <1>6, <1>7, <1>8, <1>9, <1>10, <1>11, <1>12, <1>13, <1>14, <1>15, <1>16, <1>17, <1>18, <1>19, <1>20, <1>21, <1>22, <1>23, <1>24, <1>25, <1>26, <1>27, <1>28 DEF GetterStep

\* The steps of ClosePage and DetachSession.
LEMMA CloserTyped ==
  ASSUME Typed, NEW c \in Closers, CloseFind(c) \/ CloseTake(c) \/ CloseTab(c)
  PROVE  Typed'
<1> USE BoundAssumption, ActorsAssumption
<1> USE DEF Typed, TypeOK, NameHeld, Finished, Goto, locals, update, chrome, reaper,
            GetterPC, CloserPC, OperatorPC, Names, Handle, Tabs
<1>1. CASE CloseFind(c)
  BY <1>1 DEF CloseFind
<1>2. CASE CloseTake(c)
  <2> DEFINE p == pages[name[c]]
  <2>1. CASE Return(c, "done") /\ UNCHANGED <<pages, mp>>
    <3>1. UNCHANGED <<update, mu, chrome, reaper>> BY <1>2 DEF CloseTake
    <3> QED BY <1>2, <2>1, <3>1 DEF Return
  <2>2. CASE p # None
    <3>1. name[c] \in Names /\ p \in Getters
      BY <1>2, <2>2 DEF CloseTake
    <3>2. mp[p].page \in Handle \cup {None}
      BY <3>1 DEF ManagedPage
    <3>3. mp' \in [Getters -> ManagedPage]
      <4>1. mp' = [mp EXCEPT ![p].life = None]
        BY <1>2, <2>2 DEF CloseTake
      <4> QED BY <4>1, EntryUpdates
    <3>4. pages' \in [Names -> Getters \cup {None}]
      BY <1>2, <2>2 DEF CloseTake
    <3>5. got' \in [Getters \cup Closers -> Handle \cup {None}]
      BY <1>2, <2>2, <3>2 DEF CloseTake
    <3>6. pc' = [pc EXCEPT ![c] = "close"] /\ UNCHANGED <<name, found, snap>>
      BY <1>2, <2>2 DEF CloseTake
    <3>7. UNCHANGED <<update, mu, chrome, reaper>>
      BY <1>2 DEF CloseTake
    <3>8. pc[c] = "wait"
      BY <1>2 DEF CloseTake
    <3> QED BY <3>3, <3>4, <3>5, <3>6, <3>7, <3>8
  <2> QED BY <1>2, <2>1, <2>2 DEF CloseTake
<1>3. CASE CloseTab(c)
  <2>1. Gone(got[c].tab) \/ UNCHANGED chrome BY <1>3 DEF CloseTab, ClosePageTab
  <2>2. (got[c] # None /\ got[c].tab \in tabs) \/ UNCHANGED chrome
    BY <1>3 DEF CloseTab, ClosePageTab
  <2>3. tabs' \subseteq tabs /\ destroyed' \in SUBSET Tabs
    BY <2>1, <2>2 DEF Gone
  <2> QED BY <1>3, <2>3 DEF CloseTab, Return
<1> QED
  BY <1>1, <1>2, <1>3

\* The steps of DetachSession, which write only the detached mark of an entry.
LEMMA OperatorTyped ==
  ASSUME Typed, NEW o \in Operators, FindManagedPage(o) \/ SetDetached(o)
  PROVE  Typed'
<1> USE BoundAssumption, ActorsAssumption
<1> USE DEF Typed, TypeOK, NameHeld, Finished, Goto, locals, update, chrome, reaper,
            GetterPC, CloserPC, OperatorPC, Names, Handle, Tabs
<1>1. CASE FindManagedPage(o)
  BY <1>1 DEF FindManagedPage
<1>2. CASE SetDetached(o)
  <2>1. mp' \in [Getters -> ManagedPage]
    <3>1. PICK d \in BOOLEAN : mp' = [mp EXCEPT ![found[o]].detached = d]
      BY <1>2 DEF SetDetached
    <3> QED BY <3>1, EntryUpdates
  <2> QED BY <1>2, <2>1 DEF SetDetached
<1> QED
  BY <1>1, <1>2

\* The steps of the reaper, of UpdateBrowser and of Chrome.
PoolStep ==
  \/ Reap \/ Reconnect \/ UpdateBrowser
  \/ \E p \in Getters : Expire(p)
  \/ \E t \in Tabs : TabDies(t) \/ OnDestroyed(t)

\* The steps of the reaper, UpdateBrowser, the destruction watcher and Chrome.
LEMMA PoolTyped == Typed /\ PoolStep => Typed'
<1> SUFFICES ASSUME Typed, PoolStep PROVE Typed'
  OBVIOUS
<1> USE DEF Typed, TypeOK, NameHeld, Finished, locals, update, chrome, reaper
<1>1. CASE ReapStart
  BY <1>1 DEF ReapStart
<1>2. CASE ReapScan
  BY <1>2 DEF ReapScan, AfterVictims
<1>4. ASSUME NEW p \in Getters, ReapClose(p) PROVE Typed'
  <2>1. mp' \in [Getters -> ManagedPage]
    BY <1>4, EntryUpdates DEF ReapClose
  <2> QED BY <1>4, <2>1 DEF ReapClose, AfterVictims, ClosePageTab, Gone
<1>5. ASSUME NEW p \in Getters, Expire(p) PROVE Typed'
  <2>1. mp' \in [Getters -> ManagedPage]
    BY <1>5, EntryUpdates DEF Expire
  <2> QED BY <1>5, <2>1 DEF Expire
<1>6. CASE Reconnect
  BY <1>6 DEF Reconnect
<1>7. CASE RotateGeneration
  BY <1>7 DEF RotateGeneration
<1>8. CASE StoreBrowser
  BY <1>8 DEF StoreBrowser
<1>9. CASE ClearPages
  BY <1>9 DEF ClearPages
<1>10. ASSUME NEW t \in Tabs, TabDies(t) PROVE Typed'
  BY <1>10 DEF TabDies, Gone
<1>11. ASSUME NEW t \in Tabs, OnDestroyed(t) PROVE Typed'
  <2>1. mp' \in [Getters -> ManagedPage]
    <3>1. CASE UNCHANGED mp
      BY <3>1
    <3>2. CASE \E n \in Names : mp' = [mp EXCEPT ![pages[n]].life = None]
      <4>1. PICK n \in Names : mp' = [mp EXCEPT ![pages[n]].life = None]
        BY <3>2
      <4> QED BY <4>1, EntryUpdates
    <3> QED BY <1>11, <3>1, <3>2 DEF OnDestroyed
  <2> QED BY <1>11, <2>1 DEF OnDestroyed
<1> QED
  BY <1>1, <1>2, <1>4, <1>5, <1>6, <1>7, <1>8, <1>9, <1>10, <1>11
  DEF PoolStep, Reap, UpdateBrowser

\* The types and the names are inductive.
LEMMA TypedStep == Typed /\ [Next]_vars => Typed'
<1> SUFFICES ASSUME Typed, [Next]_vars PROVE Typed'
  OBVIOUS
<1>1. CASE UNCHANGED vars
  BY <1>1 DEF vars, Typed, TypeOK, NameHeld
<1>2. CASE Next
  <2>1. ASSUME NEW g \in Getters, LookupMiss(g) \/ LookupHit(g) \/ GetterStep(g)
        PROVE  Typed'
    BY <2>1, GetterTyped
  <2>2. ASSUME NEW c \in Closers, CloseFind(c) \/ CloseTake(c) \/ CloseTab(c)
        PROVE  Typed'
    BY <2>2, CloserTyped
  <2>3. ASSUME NEW o \in Operators, FindManagedPage(o) \/ SetDetached(o)
        PROVE  Typed'
    BY <2>3, OperatorTyped
  <2>4. CASE PoolStep
    BY <2>4, PoolTyped
  <2> QED
    BY <1>2, <2>1, <2>2, <2>3, <2>4 DEF Next, PoolStep
<1> QED
  BY <1>1, <1>2

\* Type correctness, for every number of callers, sessions and reconnects.
THEOREM TypeCorrect == Spec => []TypeOK
<1>1. Init => Typed
  BY InitTyped
<1>2. Typed /\ [Next]_vars => Typed'
  BY TypedStep
<1>3. Typed => TypeOK
  BY DEF Typed
<1> QED
  BY <1>1, <1>2, <1>3, PTL DEF Spec

-----------------------------------------------------------------------------
(* The steps of anything but getOrCreatePage.                              *)

\* The reaper holds entries only while it closes them.
VictimsHeld == rpc # "close" => victims = {}

OtherStep ==
  \/ \E c \in Closers : CloseFind(c) \/ CloseTake(c) \/ CloseTab(c)
  \/ \E o \in Operators : FindManagedPage(o) \/ SetDetached(o)
  \/ PoolStep

\* Other steps unmap entries and cancel them: they map none, give no page and
\* leave the locals of getOrCreatePage alone.
LEMMA OthersOnlyUnmap ==
  ASSUME Typed, OtherStep
  PROVE  /\ \A n \in Names : pages'[n] \in {pages[n], None}
         /\ \A h \in Getters :
              /\ mp'[h].page = mp[h].page /\ mp'[h].gen = mp[h].gen
              /\ mp'[h].life \in {mp[h].life, None}
              /\ mp'[h].ready = mp[h].ready /\ mp'[h].err = mp[h].err
              /\ pc'[h] = pc[h] /\ name'[h] = name[h]
              /\ found'[h] = found[h] /\ got'[h] = got[h] /\ snap'[h] = snap[h]
         /\ VictimsHeld => VictimsHeld'
         /\ conn <= MaxGen => conn' <= MaxGen
<1> DEFINE Unmaps == \A n \in Names : pages'[n] \in {pages[n], None}
<1> DEFINE Keeps == \A h \in Getters :
             /\ mp'[h].page = mp[h].page /\ mp'[h].gen = mp[h].gen
             /\ mp'[h].life \in {mp[h].life, None}
             /\ mp'[h].ready = mp[h].ready /\ mp'[h].err = mp[h].err
<1> DEFINE Leaves == \A h \in Getters : /\ pc'[h] = pc[h] /\ name'[h] = name[h]
                                        /\ found'[h] = found[h] /\ got'[h] = got[h]
                                        /\ snap'[h] = snap[h]
<1> DEFINE Bounds == (VictimsHeld => VictimsHeld') /\ (conn <= MaxGen => conn' <= MaxGen)
<1> SUFFICES Unmaps /\ Keeps /\ Leaves /\ Bounds
  OBVIOUS
<1> USE ActorsAssumption, BoundAssumption
<1> USE DEF Typed, TypeOK, Goto, locals, update, chrome, reaper, VictimsHeld
<1>1. ASSUME NEW c \in Closers, CloseFind(c) PROVE Unmaps /\ Keeps /\ Leaves /\ Bounds
  BY <1>1 DEF CloseFind
<1>2. ASSUME NEW c \in Closers, CloseTake(c) PROVE Unmaps /\ Keeps /\ Leaves /\ Bounds
  <2>1. CASE UNCHANGED <<pages, mp>>
    BY <1>2, <2>1 DEF CloseTake, Return
  <2>2. CASE /\ pages' = [pages EXCEPT ![name[c]] = None]
             /\ mp' = [mp EXCEPT ![pages[name[c]]].life = None]
    <3>1. Keeps BY <2>2 DEF ManagedPage
    <3>2. Unmaps BY <2>2
    <3>3. Leaves /\ Bounds BY <1>2, <2>2 DEF CloseTake, Return
    <3> QED BY <3>1, <3>2, <3>3
  <2> QED BY <1>2, <2>1, <2>2 DEF CloseTake
<1>3. ASSUME NEW c \in Closers, CloseTab(c) PROVE Unmaps /\ Keeps /\ Leaves /\ Bounds
  BY <1>3 DEF CloseTab, Return
<1>4. ASSUME NEW o \in Operators, FindManagedPage(o) PROVE Unmaps /\ Keeps /\ Leaves /\ Bounds
  BY <1>4 DEF FindManagedPage
<1>5. ASSUME NEW o \in Operators, SetDetached(o) PROVE Unmaps /\ Keeps /\ Leaves /\ Bounds
  <2>1. Keeps BY <1>5 DEF SetDetached, ManagedPage
  <2>2. Unmaps /\ Leaves /\ Bounds BY <1>5 DEF SetDetached
  <2> QED BY <2>1, <2>2
<1>6. CASE ReapStart
  BY <1>6 DEF ReapStart
<1>7. CASE ReapScan
  BY <1>7 DEF ReapScan, AfterVictims
<1>9. ASSUME NEW p \in Getters, ReapClose(p) PROVE Unmaps /\ Keeps /\ Leaves /\ Bounds
  BY <1>9 DEF ReapClose, AfterVictims, ManagedPage
<1>10. ASSUME NEW p \in Getters, Expire(p) PROVE Unmaps /\ Keeps /\ Leaves /\ Bounds
  BY <1>10 DEF Expire, ManagedPage
<1>11. CASE Reconnect
  BY <1>11 DEF Reconnect
<1>12. CASE RotateGeneration
  BY <1>12 DEF RotateGeneration
<1>13. CASE StoreBrowser
  BY <1>13 DEF StoreBrowser
<1>14. CASE ClearPages
  BY <1>14 DEF ClearPages
<1>15. ASSUME NEW t \in Tabs, TabDies(t) PROVE Unmaps /\ Keeps /\ Leaves /\ Bounds
  BY <1>15 DEF TabDies
<1>16. ASSUME NEW t \in Tabs, OnDestroyed(t) PROVE Unmaps /\ Keeps /\ Leaves /\ Bounds
  <2>1. CASE UNCHANGED <<pages, mp>>
    BY <1>16, <2>1 DEF OnDestroyed
  <2>2. ASSUME NEW n \in Names, pages' = [pages EXCEPT ![n] = None],
               mp' = [mp EXCEPT ![pages[n]].life = None]
        PROVE  Unmaps /\ Keeps /\ Leaves /\ Bounds
    <3>1. Keeps
      BY <2>2 DEF ManagedPage
    <3>2. Unmaps /\ Leaves /\ Bounds
      BY <1>16, <2>2 DEF OnDestroyed
    <3> QED BY <3>1, <3>2
  <2> QED BY <1>16, <2>1, <2>2 DEF OnDestroyed
<1> QED
  <2> HIDE DEF Unmaps, Keeps, Leaves, Bounds
  <2> QED
    BY <1>1, <1>2, <1>3, <1>4, <1>5, <1>6, <1>7, <1>9, <1>10, <1>11, <1>12, <1>13, <1>14, <1>15, <1>16
    DEF OtherStep, PoolStep, Reap, UpdateBrowser

-----------------------------------------------------------------------------
(* Ready entries.                                                          *)

\* The steps of getOrCreatePage: the only ones that map an entry, make it
\* ready or record an error in it.
LEMMA GetterEntries ==
  ASSUME Typed, IInv, NEW g \in Getters, LookupMiss(g) \/ LookupHit(g) \/ GetterStep(g)
  PROVE  (AdoptedPage /\ MappedByCreator /\ PlaceholderUnready)'
<1> USE NoneAssumption
<1> USE DEF Typed, TypeOK, NameHeld, IInv, AdoptedPage, MappedByCreator, PlaceholderUnready,
            Finished, Goto, locals
<1>1. CASE LookupMiss(g)
  BY <1>1 DEF LookupMiss, Proceed
<1>2. CASE LookupHit(g)
  BY <1>2 DEF LookupHit
<1>3. CASE Wait(g)
  BY <1>3 DEF Wait, Return
<1>4. CASE ProbeOK(g)
  BY <1>4 DEF ProbeOK
<1>5. CASE ProbeFails(g)
  BY <1>5 DEF ProbeFails
<1>6. CASE Touch(g)
  BY <1>6 DEF Touch, Return, ManagedPage
<1>7. CASE Replace(g)
  BY <1>7 DEF Replace, Dropped, Proceed, ManagedPage
<1>8. CASE Reserve(g)
  BY <1>8 DEF Reserve, Blank, ManagedPage
<1>9. CASE CreateOK(g)
  BY <1>9 DEF CreateOK
<1>10. CASE CreateFails(g)
  BY <1>10 DEF CreateFails
<1>11. CASE PatchDiscarded(g)
  BY <1>11 DEF PatchDiscarded
<1>12. CASE RecordDiscard(g)
  BY <1>12 DEF RecordDiscard, Return, ManagedPage
<1>13. CASE PatchFailed(g)
  BY <1>13 DEF PatchFailed, FailPlaceholder, DeletePlaceholder, Return, ManagedPage
<1>14. CASE PatchStale(g)
  BY <1>14 DEF PatchStale, DeletePlaceholder, ManagedPage
<1>15. CASE PatchOK(g)
  <2> DEFINE q == pages[name[g]]
  <2>1. pc[g] = "patch" /\ name[g] \in Names /\ q \in Getters /\ got[g] # None
    BY <1>15 DEF PatchOK, Patch
  <2>2. mp' = [mp EXCEPT ![q].page = got[g]]
    BY <1>15 DEF PatchOK, Patch
  <2>3. \A h \in Getters :
          /\ mp'[h].err = mp[h].err /\ mp'[h].ready = mp[h].ready
          /\ mp'[h].page = IF h = q THEN got[g] ELSE mp[h].page
    BY <2>1, <2>2 DEF ManagedPage
  <2>4. pc' = [pc EXCEPT ![g] = "finish"] /\ UNCHANGED <<pages, name, got>>
    BY <1>15 DEF PatchOK, Patch
  <2>5. AdoptedPage'
    BY <2>1, <2>3, <2>4
  <2>6. MappedByCreator'
    BY <2>1, <2>3, <2>4
  <2>7. PlaceholderUnready'
    BY <2>1, <2>3, <2>4
  <2> QED BY <2>5, <2>6, <2>7
<1>16. CASE Finish(g)
  BY <1>16 DEF Finish, Return, ManagedPage
<1>17. CASE Adopt(g)
  <2>1. PICK t \in tabs : got' = [got EXCEPT ![g] = [tab |-> t, conn |-> conn]]
    BY <1>17 DEF Adopt
  <2>2. [tab |-> t, conn |-> conn] # None
    BY DEF Handle
  <2> QED BY <1>17, <2>1, <2>2 DEF Adopt
<1>18. CASE AdoptFails(g)
  BY <1>18 DEF AdoptFails
<1>19. CASE Relock(g)
  BY <1>19 DEF Relock
<1>20. CASE AdoptGen(g)
  BY <1>20 DEF AdoptGen
<1>21. CASE AdoptLife(g)
  BY <1>21 DEF AdoptLife, Blank, ManagedPage
<1>22. CASE AdoptInsert(g)
  BY <1>22 DEF AdoptInsert
<1>23. CASE AdoptLoses(g)
  BY <1>23 DEF AdoptLoses, ManagedPage
<1>24. CASE AdoptWait(g)
  BY <1>24 DEF AdoptWait, Return
<1>25. CASE Discard(g)
  BY <1>25 DEF Discard, ManagedPage
<1>26. CASE CloseStale(g)
  BY <1>26 DEF CloseStale, FailPlaceholder, Return, ManagedPage
<1>27. CASE AdoptFinish(g)
  BY <1>27 DEF AdoptFinish, Return
<1>28. CASE AdoptClose(g)
  BY <1>28 DEF AdoptClose
<1> QED
  BY <1>1, <1>2, <1>3, <1>4, <1>5, <1>6, <1>7, <1>8, <1>9, <1>10, <1>11, <1>12, <1>13, <1>14, <1>15, <1>16, <1>17, <1>18, <1>19, <1>20, <1>21, <1>22, <1>23, <1>24, <1>25, <1>26, <1>27, <1>28 DEF GetterStep

\* The steps of getOrCreatePage that map an entry no call has found yet, give a
\* page, or return an entry.
LEMMA GetterFound ==
  ASSUME Typed, IInv, NEW g \in Getters, LookupMiss(g) \/ LookupHit(g) \/ GetterStep(g)
  PROVE  FoundPage'
<1> USE NoneAssumption
<1> USE DEF Typed, TypeOK, NameHeld, IInv, FoundPage, Made, Finished, Goto, locals
<1>1. CASE LookupMiss(g)
  BY <1>1 DEF LookupMiss, Proceed
<1>2. CASE LookupHit(g)
  <2>1. PICK s \in Sessions : /\ pages[<<s, 1>>] # None
                             /\ found' = [found EXCEPT ![g] = pages[<<s, 1>>]]
    BY <1>2 DEF LookupHit
  <2>2. <<s, 1>> \in Names
    BY BoundAssumption DEF Names
  <2>3. pages[<<s, 1>>] \in Getters /\ pc[pages[<<s, 1>>]] \in Made
    BY <2>1, <2>2 DEF MappedByCreator
  <2>4. pc[g] = "idle" /\ pc' = [pc EXCEPT ![g] = "wait"] /\ UNCHANGED mp
    BY <1>2 DEF LookupHit
  <2> QED BY <2>1, <2>3, <2>4
<1>3. CASE Wait(g)
  BY <1>3 DEF Wait, Return
<1>4. CASE ProbeOK(g)
  BY <1>4 DEF ProbeOK, ProbeAlive
<1>5. CASE ProbeFails(g)
  BY <1>5 DEF ProbeFails
<1>6. CASE Touch(g)
  BY <1>6 DEF Touch, Return, ManagedPage
<1>7. CASE Replace(g)
  BY <1>7 DEF Replace, Proceed, ManagedPage
<1>8. CASE Reserve(g)
  BY <1>8 DEF Reserve
<1>9. CASE CreateOK(g)
  BY <1>9 DEF CreateOK
<1>10. CASE CreateFails(g)
  BY <1>10 DEF CreateFails
<1>11. CASE PatchDiscarded(g)
  BY <1>11 DEF PatchDiscarded
<1>12. CASE RecordDiscard(g)
  BY <1>12 DEF RecordDiscard, Return, ManagedPage
<1>13. CASE PatchFailed(g)
  BY <1>13 DEF PatchFailed, FailPlaceholder, Return, ManagedPage
<1>14. CASE PatchStale(g)
  BY <1>14 DEF PatchStale, ManagedPage
<1>15. CASE PatchOK(g)
  BY <1>15 DEF PatchOK, Patch, MappedByCreator, ManagedPage
<1>16. CASE Finish(g)
  BY <1>16 DEF Finish, Return, ManagedPage
<1>17. CASE Adopt(g)
  BY <1>17 DEF Adopt
<1>18. CASE AdoptFails(g)
  BY <1>18 DEF AdoptFails
<1>19. CASE Relock(g)
  BY <1>19 DEF Relock
<1>20. CASE AdoptGen(g)
  BY <1>20 DEF AdoptGen
<1>21. CASE AdoptLife(g)
  BY <1>21 DEF AdoptLife
<1>22. CASE AdoptInsert(g)
  BY <1>22 DEF AdoptInsert, AdoptedPage
<1>23. CASE AdoptLoses(g)
  BY <1>23 DEF AdoptLoses, MappedByCreator, ManagedPage
<1>24. CASE AdoptWait(g)
  BY <1>24 DEF AdoptWait, Return
<1>25. CASE Discard(g)
  BY <1>25 DEF Discard, ManagedPage
<1>26. CASE CloseStale(g)
  BY <1>26 DEF CloseStale, FailPlaceholder, Return, ManagedPage
<1>27. CASE AdoptFinish(g)
  BY <1>27 DEF AdoptFinish, Return
<1>28. CASE AdoptClose(g)
  BY <1>28 DEF AdoptClose
<1> QED
  BY <1>1, <1>2, <1>3, <1>4, <1>5, <1>6, <1>7, <1>8, <1>9, <1>10, <1>11, <1>12, <1>13, <1>14, <1>15, <1>16, <1>17, <1>18, <1>19, <1>20, <1>21, <1>22, <1>23, <1>24, <1>25, <1>26, <1>27, <1>28 DEF GetterStep

\* The other steps change nothing that is said of entries but the map.
LEMMA OtherEntries ==
  ASSUME Typed, IInv, OtherStep
  PROVE  IInv'
<1>1. AdoptedPage'
  BY OthersOnlyUnmap DEF IInv, AdoptedPage
<1>2. MappedByCreator'
  BY OthersOnlyUnmap, NoneAssumption DEF IInv, MappedByCreator
<1>3. PlaceholderUnready'
  BY OthersOnlyUnmap DEF IInv, PlaceholderUnready
<1>4. FoundPage'
  BY OthersOnlyUnmap DEF IInv, FoundPage
<1> QED BY <1>1, <1>2, <1>3, <1>4 DEF IInv

\* An empty map has no entry to be wrong about.
LEMMA InitEntries == Init => IInv
  BY NoneAssumption
  DEF Init, IInv, AdoptedPage, MappedByCreator, PlaceholderUnready, FoundPage

\* What is known of the entries is inductive, relative to the types.
LEMMA EntriesStep == Typed /\ IInv /\ [Next]_vars => IInv'
<1> SUFFICES ASSUME Typed, IInv, [Next]_vars PROVE IInv'
  OBVIOUS
<1>1. CASE UNCHANGED vars
  BY <1>1 DEF vars, IInv, AdoptedPage, MappedByCreator, PlaceholderUnready, FoundPage
<1>2. CASE Next
  <2>1. ASSUME NEW g \in Getters, LookupMiss(g) \/ LookupHit(g) \/ GetterStep(g)
        PROVE  IInv'
    BY <2>1, GetterEntries, GetterFound DEF IInv
  <2>2. CASE OtherStep
    BY <2>2, OtherEntries
  <2> QED
    BY <1>2, <2>1, <2>2 DEF Next, OtherStep, PoolStep
<1> QED
  BY <1>1, <1>2

\* Whoever finds a ready entry in the map finds a page and no error, for every
\* number of concurrent creators, closers, reconnects and reap passes.
THEOREM ReadyEntriesAlwaysUsable == Spec => []ReadyEntriesUsable
<1>1. Init => Typed /\ IInv
  BY InitTyped, InitEntries
<1>2. Typed /\ IInv /\ [Next]_vars => (Typed /\ IInv)'
  BY TypedStep, EntriesStep
<1>3. Typed /\ IInv => ReadyEntriesUsable
  <2> SUFFICES ASSUME Typed, IInv, NEW n \in Names, pages[n] # None, mp[pages[n]].ready
               PROVE  mp[pages[n]].page # None /\ ~mp[pages[n]].err
    BY DEF ReadyEntriesUsable
  <2>1. pages[n] \in Getters
    BY DEF Typed, TypeOK
  <2>2. pc[pages[n]] \in {"create", "patch", "finish", "ok", "adoptFinish", "adopted"}
    BY <2>1 DEF IInv, MappedByCreator
  <2>3. pc[pages[n]] \in {"ok", "adoptFinish", "adopted"}
    BY <2>1, <2>2 DEF IInv, PlaceholderUnready
  <2> QED
    BY <2>1, <2>3 DEF IInv, MappedByCreator
<1> QED
  BY <1>1, <1>2, <1>3, PTL DEF Spec

\* A call of getOrCreatePage that reports success returns an entry with a page,
\* for every number of callers of one session that wait for each other, overwrite
\* each other's placeholders, adopt and fail, and whatever closes, reaps or
\* reconnects meanwhile; losers of an adoption ("joined") excepted.
THEOREM SuccessAlwaysHasPage == Spec => []SuccessHasPage
<1>1. Init => Typed /\ IInv
  BY InitTyped, InitEntries
<1>2. Typed /\ IInv /\ [Next]_vars => (Typed /\ IInv)'
  BY TypedStep, EntriesStep
<1>3. IInv => SuccessHasPage
  BY DEF IInv, FoundPage, SuccessHasPage
<1> QED
  BY <1>1, <1>2, <1>3, PTL DEF Spec

-----------------------------------------------------------------------------
(* Generations.                                                            *)

\* The generation, the connection and the pool's browser between reconnects and
\* inside UpdateBrowser.
UpdateOrder ==
  /\ upc \in {"idle", "clear"} => gen = conn /\ browser = conn
  /\ upc = "rotate" => conn = gen + 1 /\ browser = gen
  /\ upc = "store" => conn = gen /\ gen = browser + 1

BeforeCreation ==
  {"idle", "wait", "probe", "touch", "replace", "reserve", "adopt", "relock"}

\* A caller's tab does not exist before its call of createPage.
OwnTabUnmade ==
  \A g \in Getters :
    /\ pc[g] \in BeforeCreation => g \notin tabs
    /\ pc[g] \in BeforeCreation \cup {"create"} => got[g] = None

\* So the tab it adopts is another's.
AdoptedTab ==
  \A g \in Getters :
    /\ pc[g] \in {"adoptGen", "adoptLife"} => got[g].tab # g
    /\ pc[g] = "adoptInsert" => mp[g].page.tab # g

\* A stamp is loaded before the lifecycle context is derived.
Stamped ==
  \A g \in Getters :
    /\ snap[g] <= gen /\ mp[g].gen <= gen
    /\ mp[g].life # None => mp[g].gen <= mp[g].life /\ mp[g].life <= gen

\* A page is created after its entry was stamped, so a stamp that is still the
\* current generation in phase 4 is that of the page's connection.
CreatedAfterStamp ==
  \A g \in Getters : pc[g] = "patch" /\ got[g] # None =>
    /\ got[g].tab = g
    /\ mp[g].gen <= got[g].conn /\ got[g].conn <= gen

\* A placeholder is stamped and mapped under one lock, so it is current or
\* UpdateBrowser has yet to empty the map; an adopted tab's entry is not.
StampedUnderLock ==
  /\ \A g \in Getters : pc[g] = "reserve" =>
       mu = g /\ (snap[g] = gen \/ upc \in {"store", "clear"})
  /\ \A n \in Names : pages[n] # None =>
       \/ Adopted(pages[n]) \/ mp[pages[n]].gen = gen
       \/ upc \in {"store", "clear"}

\* Only the default context adopts.
AdoptsByDefault ==
  \A g \in Getters :
    pc[g] \in {"adopt", "adoptGen", "adoptLife", "adoptInsert", "adoptFinish", "adopted"} =>
      IsDefault

GenInv ==
  /\ UpdateOrder /\ OwnTabUnmade /\ AdoptedTab /\ Stamped /\ CreatedAfterStamp
  /\ OneGeneration /\ StampedUnderLock /\ AdoptsByDefault

\* Entries that are unmapped or cancelled, tabs that end and calls that fail
\* keep what is known of generations.
LEMMA UnmappingKeepsGenerations ==
  ASSUME Typed, IInv, GenInv, UNCHANGED <<gen, conn, browser, upc, mu>>, tabs' \subseteq tabs,
         \A n \in Names : pages'[n] \in {pages[n], None},
         \A h \in Getters :
           /\ mp'[h].page = mp[h].page /\ mp'[h].gen = mp[h].gen
           /\ mp'[h].life \in {mp[h].life, None}
           /\ snap'[h] = snap[h]
           /\ \/ pc'[h] = pc[h] /\ got'[h] = got[h]
              \/ pc[h] \notin {"adoptFinish", "adopted"}
                 /\ pc'[h] \in {"failed", "discard", "discarded", "stale"}
  PROVE  GenInv'
<1>1. UpdateOrder'
  BY DEF GenInv, UpdateOrder
<1>2. OwnTabUnmade' /\ AdoptedTab'
  BY DEF GenInv, OwnTabUnmade, AdoptedTab, BeforeCreation
<1>3. Stamped'
  BY NoneAssumption DEF GenInv, Stamped
<1>4. CreatedAfterStamp'
  BY DEF GenInv, CreatedAfterStamp
<1>5. OneGeneration'
  BY DEF GenInv, OneGeneration, Created
<1>6. StampedUnderLock'
  <2>1. \A n \in Names : pages'[n] # None => pages'[n] = pages[n] /\ pages[n] \in Getters
    BY DEF Typed, TypeOK
  <2> QED BY <2>1 DEF GenInv, StampedUnderLock, Adopted
<1>7. AdoptsByDefault'
  BY DEF GenInv, AdoptsByDefault
<1> QED BY <1>1, <1>2, <1>3, <1>4, <1>5, <1>6, <1>7 DEF GenInv

\* Only reconnect and UpdateBrowser move the generation and the connection.
LEMMA OthersKeepGeneration ==
  ASSUME OtherStep, ~Reconnect, ~UpdateBrowser
  PROVE  UNCHANGED <<gen, conn, browser, upc, mu>> /\ tabs' \subseteq tabs
<1> DEFINE Keeps == UNCHANGED <<gen, conn, browser, upc, mu>> /\ tabs' \subseteq tabs
<1> USE DEF update, chrome
<1>1. ASSUME NEW c \in Closers, CloseFind(c) \/ CloseTake(c) \/ CloseTab(c) PROVE Keeps
  BY <1>1 DEF CloseFind, CloseTake, CloseTab, ClosePageTab, Gone
<1>2. ASSUME NEW o \in Operators, FindManagedPage(o) \/ SetDetached(o) PROVE Keeps
  BY <1>2 DEF FindManagedPage, SetDetached
<1>3. ASSUME ReapStart \/ ReapScan \/ \E p \in Getters : ReapClose(p) PROVE Keeps
  BY <1>3 DEF ReapStart, ReapScan, ReapClose, ClosePageTab, Gone
<1>4. ASSUME NEW p \in Getters, Expire(p) PROVE Keeps
  BY <1>4 DEF Expire
<1>5. ASSUME NEW t \in Tabs, TabDies(t) \/ OnDestroyed(t) PROVE Keeps
  BY <1>5 DEF TabDies, OnDestroyed, Gone
<1> QED BY <1>1, <1>2, <1>3, <1>4, <1>5 DEF OtherStep, PoolStep, Reap

\* The steps of getOrCreatePage keep what is known of generations.
LEMMA GetterGenerations ==
  ASSUME Typed, IInv, GenInv, NEW g \in Getters,
         LookupMiss(g) \/ LookupHit(g) \/ GetterStep(g)
  PROVE  GenInv'
<1> USE NoneAssumption, NewAssumption
<1> USE DEF Typed, TypeOK, NameHeld, Finished, Goto, locals, update, chrome,
            GenInv, UpdateOrder, BeforeCreation, OwnTabUnmade, AdoptedTab, Stamped,
            CreatedAfterStamp, OneGeneration, StampedUnderLock, AdoptsByDefault, Adopted,
            Created
<1>1. CASE LookupMiss(g)
  <2>1. CASE IsDefault /\ Empty(pages)
    BY <1>1, <2>1 DEF LookupMiss, Proceed
  <2>2. CASE ~(IsDefault /\ Empty(pages))
    BY <1>1, <2>2 DEF LookupMiss, Proceed
  <2> QED BY <2>1, <2>2
<1>2. CASE LookupHit(g)
  BY <1>2 DEF LookupHit
<1>3. CASE Wait(g)
  BY <1>3 DEF Wait, Return
<1>4. CASE ProbeOK(g)
  BY <1>4 DEF ProbeOK
<1>5. CASE ProbeFails(g)
  BY <1>5 DEF ProbeFails
<1>6. CASE Touch(g)
  BY <1>6 DEF Touch, Return, ManagedPage
<1>7. CASE Replace(g)
  <2>1. /\ pc[g] = "replace" /\ mu = None /\ pages' = Dropped(g)
        /\ mp' = [mp EXCEPT ![found[g]].life = None]
        /\ UNCHANGED <<gen, conn, browser, upc, tabs, got>>
    BY <1>7 DEF Replace
  <2>2. \A n \in Names : pages'[n] \in {pages[n], None}
    BY <2>1 DEF Dropped
  <2>3. \A h \in Getters : /\ mp'[h].page = mp[h].page /\ mp'[h].gen = mp[h].gen
                           /\ mp'[h].life \in {mp[h].life, None}
    BY <2>1 DEF ManagedPage
  <2>4. \/ IsDefault /\ pc' = [pc EXCEPT ![g] = "adopt"] /\ UNCHANGED <<mu, snap>>
        \/ pc' = [pc EXCEPT ![g] = "reserve"] /\ mu' = g /\ snap' = [snap EXCEPT ![g] = gen]
    BY <1>7 DEF Replace, Proceed
  <2>5. UpdateOrder' /\ OwnTabUnmade' /\ AdoptedTab' /\ AdoptsByDefault'
    BY <2>1, <2>4
  <2>6. Stamped' /\ CreatedAfterStamp' /\ OneGeneration'
    BY <2>1, <2>3, <2>4
  <2>7. StampedUnderLock'
    BY <2>1, <2>2, <2>3, <2>4
  <2> QED BY <2>5, <2>6, <2>7
<1>8. CASE Reserve(g)
  BY <1>8 DEF Reserve, Blank, ManagedPage
<1>9. CASE CreateOK(g)
  BY <1>9 DEF CreateOK, Handle, Tabs
<1>10. CASE CreateFails(g)
  BY <1>10 DEF CreateFails
<1>11. CASE PatchDiscarded(g)
  <2>1. /\ UNCHANGED <<gen, conn, browser, upc, mu, snap>> /\ tabs' \subseteq tabs
        /\ \A n \in Names : pages'[n] \in {pages[n], None}
    BY <1>11 DEF PatchDiscarded
  <2>2. \A h \in Getters : /\ mp'[h].page = mp[h].page /\ mp'[h].gen = mp[h].gen
                           /\ mp'[h].life \in {mp[h].life, None}
    BY <1>11 DEF PatchDiscarded
  <2>3. \A h \in Getters : \/ pc'[h] = pc[h] /\ got'[h] = got[h]
                           \/ /\ pc[h] \notin {"adoptFinish", "adopted"}
                              /\ pc'[h] \in {"failed", "discard", "discarded", "stale"}
    BY <1>11 DEF PatchDiscarded
  <2> HIDE DEF GenInv
  <2> QED BY <2>1, <2>2, <2>3, UnmappingKeepsGenerations
<1>12. CASE RecordDiscard(g)
  <2>1. /\ UNCHANGED <<gen, conn, browser, upc, mu, snap>> /\ tabs' \subseteq tabs
        /\ \A n \in Names : pages'[n] \in {pages[n], None}
    BY <1>12 DEF RecordDiscard, Return
  <2>2. \A h \in Getters : /\ mp'[h].page = mp[h].page /\ mp'[h].gen = mp[h].gen
                           /\ mp'[h].life \in {mp[h].life, None}
    BY <1>12 DEF RecordDiscard, ManagedPage
  <2>3. \A h \in Getters : \/ pc'[h] = pc[h] /\ got'[h] = got[h]
                           \/ /\ pc[h] \notin {"adoptFinish", "adopted"}
                              /\ pc'[h] \in {"failed", "discard", "discarded", "stale"}
    BY <1>12 DEF RecordDiscard, Return
  <2> HIDE DEF GenInv
  <2> QED BY <2>1, <2>2, <2>3, UnmappingKeepsGenerations
<1>13. CASE PatchFailed(g)
  <2>1. /\ UNCHANGED <<gen, conn, browser, upc, mu, snap>> /\ tabs' \subseteq tabs
        /\ \A n \in Names : pages'[n] \in {pages[n], None}
    BY <1>13 DEF PatchFailed, FailPlaceholder, DeletePlaceholder, Return
  <2>2. \A h \in Getters : /\ mp'[h].page = mp[h].page /\ mp'[h].gen = mp[h].gen
                           /\ mp'[h].life \in {mp[h].life, None}
    BY <1>13 DEF PatchFailed, FailPlaceholder, ManagedPage
  <2>3. \A h \in Getters : \/ pc'[h] = pc[h] /\ got'[h] = got[h]
                           \/ /\ pc[h] \notin {"adoptFinish", "adopted"}
                              /\ pc'[h] \in {"failed", "discard", "discarded", "stale"}
    BY <1>13 DEF PatchFailed, FailPlaceholder, Return
  <2> HIDE DEF GenInv
  <2> QED BY <2>1, <2>2, <2>3, UnmappingKeepsGenerations
<1>14. CASE PatchStale(g)
  <2>1. /\ UNCHANGED <<gen, conn, browser, upc, mu, snap>> /\ tabs' \subseteq tabs
        /\ \A n \in Names : pages'[n] \in {pages[n], None}
    BY <1>14 DEF PatchStale, DeletePlaceholder
  <2>2. \A h \in Getters : /\ mp'[h].page = mp[h].page /\ mp'[h].gen = mp[h].gen
                           /\ mp'[h].life \in {mp[h].life, None}
    BY <1>14 DEF PatchStale, ManagedPage
  <2>3. \A h \in Getters : \/ pc'[h] = pc[h] /\ got'[h] = got[h]
                           \/ /\ pc[h] \notin {"adoptFinish", "adopted"}
                              /\ pc'[h] \in {"failed", "discard", "discarded", "stale"}
    BY <1>14 DEF PatchStale
  <2> HIDE DEF GenInv
  <2> QED BY <2>1, <2>2, <2>3, UnmappingKeepsGenerations
<1>25. CASE Discard(g)
  <2>1. /\ UNCHANGED <<gen, conn, browser, upc, mu, snap>> /\ tabs' \subseteq tabs
        /\ \A n \in Names : pages'[n] \in {pages[n], None}
    BY <1>25 DEF Discard, ClosePageTab, Gone
  <2>2. \A h \in Getters : /\ mp'[h].page = mp[h].page /\ mp'[h].gen = mp[h].gen
                           /\ mp'[h].life \in {mp[h].life, None}
    BY <1>25 DEF Discard, ManagedPage
  <2>3. \A h \in Getters : \/ pc'[h] = pc[h] /\ got'[h] = got[h]
                           \/ /\ pc[h] \notin {"adoptFinish", "adopted"}
                              /\ pc'[h] \in {"failed", "discard", "discarded", "stale"}
    BY <1>25 DEF Discard
  <2> HIDE DEF GenInv
  <2> QED BY <2>1, <2>2, <2>3, UnmappingKeepsGenerations
<1>26. CASE CloseStale(g)
  <2>1. /\ UNCHANGED <<gen, conn, browser, upc, mu, snap>> /\ tabs' \subseteq tabs
        /\ \A n \in Names : pages'[n] \in {pages[n], None}
    BY <1>26 DEF CloseStale, FailPlaceholder, Return, ClosePageTab, Gone
  <2>2. \A h \in Getters : /\ mp'[h].page = mp[h].page /\ mp'[h].gen = mp[h].gen
                           /\ mp'[h].life \in {mp[h].life, None}
    BY <1>26 DEF CloseStale, FailPlaceholder, ManagedPage
  <2>3. \A h \in Getters : \/ pc'[h] = pc[h] /\ got'[h] = got[h]
                           \/ /\ pc[h] \notin {"adoptFinish", "adopted"}
                              /\ pc'[h] \in {"failed", "discard", "discarded", "stale"}
    BY <1>26 DEF CloseStale, FailPlaceholder, Return
  <2> HIDE DEF GenInv
  <2> QED BY <2>1, <2>2, <2>3, UnmappingKeepsGenerations
<1>15. CASE PatchOK(g)
  <2> DEFINE q == pages[name[g]]
  <2>1. /\ pc[g] = "patch" /\ name[g] \in Names /\ q \in Getters /\ got[g] # None
        /\ got[g] \in Handle /\ mp[q].gen = gen /\ mp' = [mp EXCEPT ![q].page = got[g]]
        /\ pc' = [pc EXCEPT ![g] = "finish"]
        /\ UNCHANGED <<gen, conn, browser, upc, pages, tabs, got, snap>>
    BY <1>15 DEF PatchOK, Patch
  <2>2. got[g].tab = g /\ mp[g].gen <= got[g].conn /\ got[g].conn <= gen
    BY <2>1
  <2>3. \A h \in Getters :
          /\ mp'[h].gen = mp[h].gen /\ mp'[h].life = mp[h].life
          /\ mp'[h].page = IF h = q THEN got[g] ELSE mp[h].page
    BY <2>1 DEF ManagedPage
  <2>4. UpdateOrder' /\ OwnTabUnmade' /\ Stamped'
    BY <2>1, <2>3
  <2>5. AdoptedTab'
    BY <2>1, <2>2, <2>3 DEF IInv, MappedByCreator
  <2>6. CreatedAfterStamp'
    BY <2>1, <2>3
  <2>7. q = g => mp[g].gen = got[g].conn
    <3>1. gen \in Nat /\ got[g].conn \in Nat
      BY <2>1 DEF Handle
    <3> QED BY <2>1, <2>2, <3>1
  <2>8. OneGeneration'
    <3> SUFFICES ASSUME NEW h \in Getters, Created(h)'
                 PROVE  mp'[h].page.conn = mp'[h].gen /\ mp'[h].life \in {mp'[h].gen, None}
      BY DEF OneGeneration
    <3>1. CASE h # q
      BY <2>3, <3>1
    <3>2. CASE h = q
      <4>1. h = g /\ mp[g].gen = gen
        BY <2>1, <2>2, <2>3, <3>2
      <4>2. mp[g].life # None => mp[g].life = gen
        <5>1. mp[g].life \in Nat \cup {None}
          BY DEF ManagedPage
        <5> QED BY <4>1, <5>1
      <4> QED BY <2>2, <2>3, <2>7, <3>2, <4>1, <4>2
    <3> QED BY <3>1, <3>2
  <2>9. StampedUnderLock' /\ AdoptsByDefault'
    BY <1>15, <2>1, <2>2, <2>3 DEF PatchOK, Patch
  <2> QED BY <2>4, <2>5, <2>6, <2>8, <2>9
<1>16. CASE Finish(g)
  BY <1>16 DEF Finish, Return, ManagedPage
<1>17. CASE Adopt(g)
  BY <1>17 DEF Adopt, Handle
<1>18. CASE AdoptFails(g)
  BY <1>18 DEF AdoptFails
<1>19. CASE Relock(g)
  BY <1>19 DEF Relock
<1>20. CASE AdoptGen(g)
  BY <1>20 DEF AdoptGen
<1>21. CASE AdoptLife(g)
  <2>1. /\ pc[g] = "adoptLife" /\ pc' = [pc EXCEPT ![g] = "adoptInsert"]
        /\ mp' = [mp EXCEPT ![g] = [Blank EXCEPT !.page = got[g], !.gen = snap[g],
                                                !.life = gen, !.ready = TRUE]]
        /\ snap' = [snap EXCEPT ![g] = 0]
        /\ UNCHANGED <<gen, conn, browser, upc, tabs, pages, mu, got>>
    BY <1>21 DEF AdoptLife
  <2>2. \A h \in Getters : h # g => mp'[h] = mp[h]
    BY <2>1
  <2>3. mp'[g].page = got[g] /\ mp'[g].gen = snap[g] /\ mp'[g].life = gen
    BY <2>1 DEF Blank
  <2>4. \A n \in Names : pages[n] # g
    BY <2>1 DEF IInv, MappedByCreator
  <2>5. UpdateOrder' /\ OwnTabUnmade' /\ AdoptedTab' /\ AdoptsByDefault'
    BY <2>1, <2>2, <2>3
  <2>6. Stamped' /\ CreatedAfterStamp' /\ OneGeneration'
    BY <2>1, <2>2, <2>3
  <2>7. StampedUnderLock'
    BY <2>1, <2>2, <2>4
  <2> QED BY <2>5, <2>6, <2>7
<1>22. CASE AdoptInsert(g)
  BY <1>22 DEF AdoptInsert
<1>23. CASE AdoptLoses(g)
  BY <1>23 DEF AdoptLoses, ManagedPage
<1>24. CASE AdoptWait(g)
  BY <1>24 DEF AdoptWait, Return
<1>27. CASE AdoptFinish(g)
  BY <1>27 DEF AdoptFinish, Return
<1>28. CASE AdoptClose(g)
  BY <1>28 DEF AdoptClose, ClosePageTab, Gone
<1> QED
  <2> HIDE DEF GenInv
  <2> QED
    BY <1>1, <1>2, <1>3, <1>4, <1>5, <1>6, <1>7, <1>8, <1>9, <1>10, <1>11, <1>12, <1>13, <1>14, <1>15, <1>16, <1>17, <1>18, <1>19, <1>20, <1>21, <1>22, <1>23, <1>24, <1>25, <1>26, <1>27, <1>28 DEF GetterStep

\* The other steps keep what is known of generations; UpdateBrowser moves the
\* generation, and empties the map before it returns.
LEMMA OtherGenerations ==
  ASSUME Typed, IInv, GenInv, OtherStep
  PROVE  GenInv'
<1>1. CASE Reconnect
  <2>1. /\ upc = "idle" /\ upc' = "rotate" /\ conn' = conn + 1 /\ tabs' \subseteq tabs
        /\ UNCHANGED <<gen, browser, pages, mu, mp, pc, got, snap>>
    BY <1>1 DEF Reconnect, locals
  <2> QED
    BY <2>1
    DEF GenInv, UpdateOrder, OwnTabUnmade, AdoptedTab, Stamped, CreatedAfterStamp,
        OneGeneration, StampedUnderLock, AdoptsByDefault, Adopted, Created
<1>2. CASE RotateGeneration
  <2>1. gen \in Nat /\ gen' = gen + 1 /\ upc = "rotate" /\ upc' = "store"
        /\ UNCHANGED <<conn, browser, pages, mu, mp, tabs, pc, got, snap>>
    BY <1>2 DEF RotateGeneration, Typed, TypeOK, locals, chrome
  <2>2. UpdateOrder' /\ OwnTabUnmade' /\ AdoptedTab' /\ StampedUnderLock' /\ AdoptsByDefault'
    BY <2>1 DEF GenInv, UpdateOrder, OwnTabUnmade, AdoptedTab, StampedUnderLock, AdoptsByDefault
  <2>3. \A h \in Getters : snap[h] \in Nat /\ mp[h].gen \in Nat /\ mp[h].life \in Nat \cup {None}
    BY DEF Typed, TypeOK, ManagedPage
  <2>4. Stamped'
    BY <2>1, <2>3, NoneAssumption DEF GenInv, Stamped
  <2>5. \A h \in Getters : got[h] # None => got[h].conn \in Nat
    BY DEF Typed, TypeOK, Handle
  <2>6. CreatedAfterStamp'
    BY <2>1, <2>3, <2>5 DEF GenInv, CreatedAfterStamp
  <2>7. OneGeneration'
    BY <2>1 DEF GenInv, OneGeneration, Created
  <2> QED BY <2>2, <2>4, <2>6, <2>7 DEF GenInv
<1>3. CASE StoreBrowser
  <2>1. upc = "store" /\ upc' = "clear" /\ browser' = conn
        /\ UNCHANGED <<gen, conn, pages, mu, mp, tabs, pc, got, snap>>
    BY <1>3 DEF StoreBrowser, locals, chrome
  <2> QED
    BY <2>1
    DEF GenInv, UpdateOrder, OwnTabUnmade, AdoptedTab, Stamped, CreatedAfterStamp,
        OneGeneration, StampedUnderLock, AdoptsByDefault, Adopted, Created
<1>4. CASE ClearPages
  <2>1. upc = "clear" /\ upc' = "idle" /\ mu = None /\ \A n \in Names : pages'[n] = None
    BY <1>4 DEF ClearPages
  <2>2. UNCHANGED <<gen, conn, browser, mu, mp, tabs, pc, got, snap>>
    BY <1>4 DEF ClearPages, locals, chrome
  <2> QED
    BY <2>1, <2>2, NoneAssumption
    DEF GenInv, UpdateOrder, OwnTabUnmade, AdoptedTab, Stamped, CreatedAfterStamp,
        OneGeneration, StampedUnderLock, AdoptsByDefault, Adopted, Created
<1>5. CASE ~Reconnect /\ ~UpdateBrowser
  BY <1>5, OthersOnlyUnmap, OthersKeepGeneration, UnmappingKeepsGenerations
<1> QED BY <1>1, <1>2, <1>3, <1>4, <1>5 DEF UpdateBrowser

\* Before the first reconnect there is one generation.
LEMMA InitGenerations == Init => GenInv
  BY NoneAssumption, NewAssumption
  DEF Init, Blank, GenInv, UpdateOrder, OwnTabUnmade, AdoptedTab, Stamped,
      CreatedAfterStamp, OneGeneration, StampedUnderLock, AdoptsByDefault, Created

\* What is known of generations is inductive, relative to types and entries.
LEMMA GenerationsStep == Typed /\ IInv /\ GenInv /\ [Next]_vars => GenInv'
<1> SUFFICES ASSUME Typed, IInv, GenInv, [Next]_vars PROVE GenInv'
  OBVIOUS
<1>1. CASE UNCHANGED vars
  BY <1>1 DEF vars, GenInv, UpdateOrder, OwnTabUnmade, AdoptedTab, Stamped,
              CreatedAfterStamp, OneGeneration, StampedUnderLock, AdoptsByDefault,
              Adopted, Created
<1>2. ASSUME NEW g \in Getters, LookupMiss(g) \/ LookupHit(g) \/ GetterStep(g)
      PROVE  GenInv'
  BY <1>2, GetterGenerations
<1>3. CASE OtherStep
  BY <1>3, OtherGenerations
<1> QED
  BY <1>1, <1>2, <1>3 DEF Next, OtherStep, PoolStep

\* What every reachable state satisfies.
LEMMA GenerationsHold == Spec => [](Typed /\ IInv /\ GenInv)
<1>1. Init => Typed /\ IInv /\ GenInv
  BY InitTyped, InitEntries, InitGenerations
<1>2. Typed /\ IInv /\ GenInv /\ [Next]_vars => (Typed /\ IInv /\ GenInv)'
  BY TypedStep, EntriesStep, GenerationsStep
<1> QED
  BY <1>1, <1>2, PTL DEF Spec

\* Once UpdateBrowser has returned, an entry of an older generation is in the map
\* only by adoption, for every number of calls that were in CDP meanwhile.
THEOREM OnlyAdoptedStale == Spec => []StaleOnlyByAdoption
<1>1. GenInv => StaleOnlyByAdoption
  BY DEF GenInv, StampedUnderLock, StaleOnlyByAdoption
<1> QED
  BY <1>1, GenerationsHold, PTL

\* So what UpdateBrowser promises holds, of every entry, in the contexts that do
\* not adopt: ephemeral, proxied and named ones.
THEOREM NoneStaleAfterReconnect ==
  ASSUME ~IsDefault
  PROVE  Spec => []NoStaleAfterReconnect
<1>1. Typed /\ GenInv => NoStaleAfterReconnect
  BY DEF GenInv, StampedUnderLock, AdoptsByDefault, Adopted, NoStaleAfterReconnect,
         Typed, TypeOK
<1> QED
  BY <1>1, GenerationsHold, PTL

\* The connection, the stamp and the lifecycle context of a page the pool made
\* are of one generation, whether or not the callers of a session take turns.
THEOREM PagesOfOneGeneration == Spec => []OneGeneration
<1>1. GenInv => OneGeneration
  BY DEF GenInv
<1> QED
  BY <1>1, GenerationsHold, PTL

-----------------------------------------------------------------------------
(* Callers that take turns: proofs for callers of a session of which one   *)
(* works at a time (Serial, the assumption of these theorems): what they   *)
(* are returned, what their removals cancel, and that the sessions are the *)
(* slots of SessionSlots.  Closers, operators, the reaper, dying tabs and  *)
(* reconnects interleave with them freely.                                 *)

\* Calls in progress are for different sessions.
TakeTurns ==
  \A g, h \in Getters : Busy(g) /\ Busy(h) /\ g # h => name[g][1] # name[h][1]

\* A name with an ephemeral suffix is only ever its caller's.
OwnSuffix ==
  \A g \in Getters :
    /\ Busy(g) => name[g][2] \in (1 .. MaxSuffix) \cup {g}
    /\ \A s \in Sessions : pages[<<s, g>>] \in {None, g}

\* So nobody maps anything under the name of a creator, from its lookup to its
\* return, and it never loses the race for an adopted tab.
OwnSlot ==
  \A g \in Getters :
    /\ pc[g] \in {"reserve", "adopt", "relock", "adoptGen", "adoptLife", "adoptInsert"} =>
         pages[name[g]] = None
    /\ pc[g] \in {"create", "patch", "finish"} => pages[name[g]] \in {None, g}
    /\ pc[g] \notin {"adoptClose", "adoptWait"}

\* A creator's placeholder has no page until the creator patches it.
OwnPage ==
  \A g \in Getters :
    /\ pc[g] \in {"create", "patch"} => mp[g].page = None
    /\ pc[g] = "finish" =>
         /\ found[g] = g /\ got[g] # None
         /\ got[g].conn = mp[g].gen /\ mp[g].page # None

\* Handles are of connections there have been.
ConnBounded ==
  /\ conn <= MaxGen
  /\ \A g \in Getters : /\ got[g] # None => got[g].conn <= MaxGen
                        /\ mp[g].page # None => mp[g].page.conn <= MaxGen

TurnInv ==
  /\ TakeTurns /\ OwnSuffix /\ OwnSlot /\ OwnPage
  /\ VictimsHeld /\ ConnBounded
-----------------------------------------------------------------------------
(* The invariant.                                                          *)

\* The steps of getOrCreatePage.
LEMMA GetterTurns ==
  ASSUME Serial, Typed, IInv, GenInv, TurnInv, NEW g \in Getters,
         LookupMiss(g) \/ LookupHit(g) \/ GetterStep(g)
  PROVE  TurnInv'
<1> USE NoneAssumption, NewAssumption, BoundAssumption
<1> USE DEF Typed, TypeOK, NameHeld, IInv, MappedByCreator, Finished, Goto, locals, update, chrome,
            reaper, TurnInv, TakeTurns, OwnSuffix, OwnSlot, OwnPage, VictimsHeld,
            ConnBounded, Busy
<1>1. CASE LookupMiss(g)
  BY SMTT(30), <1>1 DEF LookupMiss, MayAsk, Proceed
<1>2. CASE LookupHit(g)
  <2>1. PICK s \in Sessions : /\ MayAsk(g, s) /\ pages[<<s, 1>>] # None
                             /\ name' = [name EXCEPT ![g] = <<s, 1>>]
                             /\ found' = [found EXCEPT ![g] = pages[<<s, 1>>]]
    BY <1>2 DEF LookupHit
  <2>2. /\ pc[g] = "idle" /\ pc' = [pc EXCEPT ![g] = "wait"]
        /\ UNCHANGED <<pages, mp, got, conn, rpc, victims>>
    BY <1>2 DEF LookupHit
  <2>5. TakeTurns' /\ OwnSuffix'
    BY <2>1, <2>2 DEF MayAsk
  <2>6. OwnSlot' /\ OwnPage' /\ VictimsHeld' /\ ConnBounded'
    BY <2>1, <2>2
  <2> QED BY <2>5, <2>6
<1>3. CASE Wait(g)
  <2>1. CASE Return(g, "failed")
    BY <1>3, <2>1 DEF Wait, Return
  <2>2. CASE Goto(g, "probe") /\ UNCHANGED locals
    BY <1>3, <2>2 DEF Wait
  <2> QED BY <1>3, <2>1, <2>2 DEF Wait
<1>4. CASE ProbeOK(g)
  BY <1>4 DEF ProbeOK, ProbeAlive
<1>5. CASE ProbeFails(g)
  BY <1>5 DEF ProbeFails
<1>6. CASE Touch(g)
  BY <1>6 DEF Touch, Return, ManagedPage
<1>7. CASE Replace(g)
  <2>1. PICK n \in DedupNames(Dropped(g), name[g][1], g) : name' = [name EXCEPT ![g] = n]
    BY <1>7 DEF Replace
  <2>2. /\ pc[g] = "replace" /\ pages' = Dropped(g) /\ mp' = [mp EXCEPT ![found[g]].life = None]
        /\ pc' \in {[pc EXCEPT ![g] = "adopt"], [pc EXCEPT ![g] = "reserve"]}
        /\ UNCHANGED <<got, found, conn, rpc, victims>>
    BY <1>7 DEF Replace, Proceed
  <2>3. \A m \in Names : pages'[m] \in {pages[m], None}
    BY <2>2 DEF Dropped
  <2>4. \A h \in Getters : mp'[h].page = mp[h].page /\ mp'[h].gen = mp[h].gen
    BY <2>2 DEF ManagedPage
  <2>5. name[g] \in Names /\ name[g][1] \in Sessions
    BY <2>2 DEF Names
  <2>6. /\ n \in Names /\ n[1] = name[g][1] /\ n[2] \in (1 .. MaxSuffix) \cup {g}
        /\ pages'[n] = None
    <3>1. CASE n \in FirstFree(Dropped(g), name[g][1])
      BY <2>2, <2>5, <3>1 DEF FirstFree, Names
    <3>2. CASE n = <<name[g][1], g>>
      <4>1. n \in Names /\ n[1] = name[g][1] /\ n[2] = g
        BY <2>5, <3>2 DEF Names
      <4>2. pages[n] \in {None, g}
        BY <2>5, <3>2
      <4>3. pages[n] # g
        BY <2>2, <4>1
      <4> QED BY <2>3, <4>1, <4>2, <4>3
    <3> QED BY <2>1, <3>1, <3>2 DEF DedupNames
  <2>7. TakeTurns'
    BY <2>1, <2>2, <2>6
  <2>8. OwnSuffix'
    <3>1. \A s \in Sessions, h \in Getters : <<s, h>> \in Names
      BY DEF Names
    <3> QED BY <2>1, <2>2, <2>3, <2>6, <3>1
  <2>9. OwnSlot'
    BY SMTT(30), <2>1, <2>2, <2>3, <2>6
  <2>10. OwnPage' /\ VictimsHeld' /\ ConnBounded'
    BY SMTT(30), <2>2, <2>4
  <2> QED BY <2>7, <2>8, <2>9, <2>10
<1>8. CASE Reserve(g)
  <2>1. /\ pc[g] = "reserve" /\ name[g] \in Names
        /\ mp' = [mp EXCEPT ![g] = [Blank EXCEPT !.gen = snap[g], !.life = gen]]
        /\ pages' = [pages EXCEPT ![name[g]] = g] /\ pc' = [pc EXCEPT ![g] = "create"]
        /\ UNCHANGED <<name, found, got, conn, rpc, victims>>
    BY <1>8 DEF Reserve
  <2>2. \A h \in Getters : h # g => mp'[h] = mp[h]
    BY <2>1
  <2>3. mp'[g].page = None
    BY <2>1 DEF Blank
  <2>4. \A h \in Getters : Busy(h) /\ h # g => name[h] # name[g]
    BY <2>1
  <2>5. TakeTurns' /\ VictimsHeld'
    BY <2>1
  <2>6. OwnSuffix'
    <3>1. \A s \in Sessions, h \in Getters : <<s, h>> \in Names /\ <<s, h>>[2] = h
      BY DEF Names
    <3>2. \A s \in Sessions, h \in Getters : name[g] = <<s, h>> => h = g
      BY <2>1, <3>1
    <3>3. ASSUME NEW s \in Sessions, NEW h \in Getters PROVE pages'[<<s, h>>] \in {None, h}
      <4>1. CASE <<s, h>> = name[g]
        BY <2>1, <3>2, <4>1
      <4>2. CASE <<s, h>> # name[g]
        BY <2>1, <3>1, <4>2
      <4> QED BY <4>1, <4>2
    <3> QED BY <2>1, <3>3
  <2>7. OwnSlot'
    BY <2>1, <2>4
  <2>8. OwnPage' /\ ConnBounded'
    BY <2>1, <2>2, <2>3
  <2> QED BY <2>5, <2>6, <2>7, <2>8
<1>9. CASE CreateOK(g)
  BY <1>9 DEF CreateOK, Handle
<1>10. CASE CreateFails(g)
  BY <1>10 DEF CreateFails
<1>11. CASE PatchDiscarded(g)
  BY <1>11 DEF PatchDiscarded
<1>12. CASE RecordDiscard(g)
  BY <1>12 DEF RecordDiscard, Return, ManagedPage
<1>13. CASE PatchFailed(g)
  BY <1>13 DEF PatchFailed, FailPlaceholder, DeletePlaceholder, Return, ManagedPage
<1>14. CASE PatchStale(g)
  BY <1>14 DEF PatchStale, DeletePlaceholder, ManagedPage
<1>15. CASE PatchOK(g)
  <2>1. /\ pc[g] = "patch" /\ name[g] \in Names /\ pages[name[g]] = g /\ got[g] # None
        /\ got[g] \in Handle /\ mp[g].gen = gen /\ mp' = [mp EXCEPT ![g].page = got[g]]
        /\ found' = [found EXCEPT ![g] = g] /\ pc' = [pc EXCEPT ![g] = "finish"]
        /\ UNCHANGED <<conn, pages, name, got, rpc, victims>>
    <3>1. pages[name[g]] = g
      BY <1>15 DEF PatchOK, Patch
    <3> QED BY <1>15, <3>1 DEF PatchOK, Patch
  <2>2. \A h \in Getters : /\ mp'[h].gen = mp[h].gen
                           /\ mp'[h].page = IF h = g THEN got[g] ELSE mp[h].page
    BY <2>1 DEF ManagedPage
  <2>3. got[g].conn = mp[g].gen
    <3>1. mp[g].gen <= got[g].conn /\ got[g].conn <= gen
      BY <2>1 DEF GenInv, CreatedAfterStamp
    <3>2. got[g].conn \in Nat
      BY <2>1 DEF Handle
    <3>3. gen \in Nat /\ mp[g].gen = gen
      BY <2>1
    <3> HIDE DEF Typed, TypeOK
    <3> QED BY <3>1, <3>2, <3>3
  <2>4. TakeTurns' /\ OwnSuffix' /\ OwnSlot' /\ VictimsHeld'
    BY <2>1
  <2>5. OwnPage' /\ ConnBounded'
    BY <2>1, <2>2, <2>3
  <2> QED BY <2>4, <2>5
<1>16. CASE Finish(g)
  BY <1>16 DEF Finish, Return, ManagedPage
<1>17. CASE Adopt(g)
  BY <1>17 DEF Adopt, Handle
<1>18. CASE AdoptFails(g)
  BY <1>18 DEF AdoptFails
<1>19. CASE Relock(g)
  BY <1>19 DEF Relock
<1>20. CASE AdoptGen(g)
  BY <1>20 DEF AdoptGen
<1>21. CASE AdoptLife(g)
  BY <1>21 DEF AdoptLife, Blank, ManagedPage
<1>22. CASE AdoptInsert(g)
  <2>1. /\ pc[g] = "adoptInsert" /\ name[g] \in Names
        /\ pages' = [pages EXCEPT ![name[g]] = g] /\ pc' = [pc EXCEPT ![g] = "adoptFinish"]
        /\ found' = [found EXCEPT ![g] = g]
        /\ UNCHANGED <<name, mp, got, conn, rpc, victims>>
    BY <1>22 DEF AdoptInsert
  <2>2. \A h \in Getters : Busy(h) /\ h # g => name[h] # name[g]
    BY <2>1
  <2>3. TakeTurns' /\ VictimsHeld' /\ OwnPage' /\ ConnBounded'
    <3>1. \A h \in Getters : Busy(h)' <=> Busy(h)
      BY <2>1
    <3>2. TakeTurns'
      BY <2>1, <3>1
    <3>3. VictimsHeld' /\ OwnPage'
      BY <2>1
    <3>4. ConnBounded'
      BY <2>1
    <3> QED BY <3>2, <3>3, <3>4
  <2>4. OwnSuffix'
    <3>1. \A s \in Sessions, h \in Getters : <<s, h>> \in Names /\ <<s, h>>[2] = h
      BY DEF Names
    <3>2. \A s \in Sessions, h \in Getters : name[g] = <<s, h>> => h = g
      BY <2>1, <3>1
    <3>3. ASSUME NEW s \in Sessions, NEW h \in Getters PROVE pages'[<<s, h>>] \in {None, h}
      <4>1. CASE <<s, h>> = name[g]
        BY <2>1, <3>2, <4>1
      <4>2. CASE <<s, h>> # name[g]
        BY <2>1, <3>1, <4>2
      <4> QED BY <4>1, <4>2
    <3> QED BY <2>1, <3>3
  <2>5. OwnSlot'
    BY <2>1, <2>2
  <2> QED BY <2>3, <2>4, <2>5
<1>23. CASE AdoptLoses(g)
  BY <1>23 DEF AdoptLoses
<1>24. CASE AdoptWait(g)
  BY <1>24 DEF AdoptWait
<1>25. CASE Discard(g)
  BY <1>25 DEF Discard, ManagedPage
<1>26. CASE CloseStale(g)
  BY <1>26 DEF CloseStale, FailPlaceholder, Return, ManagedPage
<1>27. CASE AdoptFinish(g)
  BY <1>27 DEF AdoptFinish, Return
<1>28. CASE AdoptClose(g)
  BY <1>28 DEF AdoptClose
<1> QED
  <2> HIDE DEF TurnInv
  <2> QED
    BY <1>1, <1>2, <1>3, <1>4, <1>5, <1>6, <1>7, <1>8, <1>9, <1>10, <1>11, <1>12, <1>13, <1>14, <1>15, <1>16, <1>17, <1>18, <1>19, <1>20, <1>21, <1>22, <1>23, <1>24, <1>25, <1>26, <1>27, <1>28 DEF GetterStep

\* The other steps keep the invariant of taking turns.
LEMMA OtherTurns ==
  ASSUME Typed, TurnInv, OtherStep
  PROVE  TurnInv'
<1> USE DEF TurnInv
<1>1. TakeTurns'
  BY OthersOnlyUnmap DEF TakeTurns, Busy
<1>2. OwnSuffix'
  <2>1. \A s \in Sessions, g \in Getters : <<s, g>> \in Names
    BY DEF Names
  <2> QED BY <2>1, OthersOnlyUnmap DEF OwnSuffix, Busy
<1>3. OwnSlot'
  <2>1. \A g \in Getters : Busy(g) => name[g] \in Names
    BY DEF Typed, NameHeld, Busy
  <2> QED BY <2>1, OthersOnlyUnmap DEF OwnSlot, Busy, Finished
<1>4. OwnPage'
  BY OthersOnlyUnmap DEF OwnPage
<1>5. VictimsHeld'
  BY OthersOnlyUnmap
<1>6. ConnBounded'
  BY OthersOnlyUnmap DEF ConnBounded
<1> QED
  BY <1>1, <1>2, <1>3, <1>4, <1>5, <1>6

\* Nobody is in a call yet.
LEMMA InitTurns == Init => TurnInv
  BY NoneAssumption, BoundAssumption
  DEF Init, Blank, TurnInv, TakeTurns, OwnSuffix, OwnSlot, OwnPage,
      VictimsHeld, ConnBounded, Busy, Names

\* Taking turns is inductive, relative to what PagePool_proof shows.
LEMMA TurnsStep ==
  ASSUME Serial
  PROVE  Typed /\ IInv /\ GenInv /\ TurnInv /\ [Next]_vars => TurnInv'
<1> SUFFICES ASSUME Typed, IInv, GenInv, TurnInv, [Next]_vars PROVE TurnInv'
  OBVIOUS
<1>1. CASE UNCHANGED vars
  BY <1>1 DEF vars, TurnInv, TakeTurns, OwnSuffix, OwnSlot, OwnPage,
              VictimsHeld, ConnBounded, Busy
<1>2. ASSUME NEW g \in Getters, LookupMiss(g) \/ LookupHit(g) \/ GetterStep(g)
      PROVE  TurnInv'
  BY <1>2, GetterTurns
<1>3. CASE OtherStep
  BY <1>3, OtherTurns
<1> QED
  BY <1>1, <1>2, <1>3 DEF Next, OtherStep, PoolStep

\* What every reachable state satisfies when the callers of a session take turns.
LEMMA TurnsHold ==
  ASSUME Serial
  PROVE  Spec => [](Typed /\ IInv /\ GenInv /\ TurnInv)
<1>1. Init => TurnInv
  BY InitTurns
<1>2. Typed /\ IInv /\ GenInv /\ TurnInv /\ [Next]_vars => TurnInv'
  BY TurnsStep
<1> QED
  BY <1>1, <1>2, GenerationsHold, PTL DEF Spec

\* A page is published only under the generation of its connection: a reconnect
\* while it was made discards it.  (Without turns it may be published in another
\* creator's entry, as the foreign run shows.)
THEOREM PublishedUnderItsGeneration ==
  ASSUME Serial
  PROVE  Spec => []PatchMatchesGeneration
<1>1. TurnInv => PatchMatchesGeneration
  BY DEF TurnInv, OwnPage, PatchMatchesGeneration
<1> QED
  BY <1>1, TurnsHold, PTL

-----------------------------------------------------------------------------
(* What removals cancel.                                                   *)

Cancels(p) ==
  /\ Published(p) /\ Mapped(p) /\ ~Mapped(p)' => Dead(p)' \/ p \in victims'
  /\ p \in victims /\ p \notin victims' => Dead(p)'

\* getOrCreatePage unmaps the dead entry it replaces and its own placeholder.
LEMMA GetterCancels ==
  ASSUME Typed, Typed', TurnInv, NEW g \in Getters, NEW p \in Getters,
         LookupMiss(g) \/ LookupHit(g) \/ GetterStep(g)
  PROVE  Cancels(p)
<1> USE NoneAssumption
<1> USE DEF Typed, TypeOK, NameHeld, Finished, Cancels, Mapped
<1>1. CASE UNCHANGED <<pages, victims>>
  BY <1>1
<1>2. CASE Replace(g)
  <2>1. /\ \A n \in Names : pages'[n] # pages[n] => pages[n] = found[g]
        /\ mp' = [mp EXCEPT ![found[g]].life = None] /\ UNCHANGED victims
    BY <1>2 DEF Replace, Dropped, reaper
  <2>2. p = found[g] => mp'[p].life = None
    BY <2>1 DEF ManagedPage
  <2> QED BY <2>1, <2>2 DEF Dead
<1>3. CASE Reserve(g)
  <2>1. pages[name[g]] = None /\ pages' = [pages EXCEPT ![name[g]] = g] /\ UNCHANGED victims
    BY <1>3 DEF Reserve, reaper, TurnInv, OwnSlot
  <2> QED BY <2>1
<1>4. CASE PatchFailed(g) \/ PatchStale(g)
  <2>1. /\ pages[name[g]] \in {None, g} /\ pages' = [pages EXCEPT ![name[g]] = None]
        /\ UNCHANGED victims
        /\ \/ mp' = [mp EXCEPT ![g].life = None, ![g].err = TRUE, ![g].ready = TRUE]
           \/ mp' = [mp EXCEPT ![g].life = None]
    BY <1>4 DEF PatchFailed, PatchStale, FailPlaceholder, DeletePlaceholder, reaper,
                TurnInv, OwnSlot
  <2>2. p = g => mp'[p].life = None
    BY <2>1 DEF ManagedPage
  <2> QED BY <2>1, <2>2 DEF Dead
<1>5. CASE AdoptInsert(g)
  <2>1. pages[name[g]] = None /\ pages' = [pages EXCEPT ![name[g]] = g] /\ UNCHANGED victims
    BY <1>5 DEF AdoptInsert, reaper
  <2> QED BY <2>1
<1> QED
  <2> HIDE DEF Cancels
  <2> QED BY <1>1, <1>2, <1>3, <1>4, <1>5
    DEF GetterStep, reaper, LookupMiss, LookupHit, Wait, ProbeOK, ProbeFails, Touch, CreateOK,
        CreateFails, PatchDiscarded, Discard, RecordDiscard, CloseStale, PatchOK, Patch,
        Finish, Adopt, AdoptFails, Relock, AdoptGen, AdoptLife, AdoptFinish, AdoptLoses,
        AdoptClose, AdoptWait

\* Every other step that unmaps an entry cancels it, or gives it to the reaper
\* that will; UpdateBrowser cancels with the generation.
LEMMA OtherCancels ==
  ASSUME Typed, Typed', TurnInv, OtherStep, upc' = upc, NEW p \in Getters
  PROVE  Cancels(p)
<1> USE NoneAssumption
<1> USE DEF Typed, TypeOK, NameHeld, Finished, Cancels, Mapped, reaper
<1>1. CASE UNCHANGED <<pages, victims>>
  BY <1>1
<1>2. ASSUME NEW c \in Closers, CloseTake(c) PROVE Cancels(p)
  <2>1. CASE UNCHANGED <<pages, mp>>
    BY <1>2, <2>1 DEF CloseTake
  <2>2. CASE pages' = [pages EXCEPT ![name[c]] = None]
             /\ mp' = [mp EXCEPT ![pages[name[c]]].life = None]
    <3>1. p = pages[name[c]] => mp'[p].life = None
      BY <2>2 DEF ManagedPage
    <3>2. UNCHANGED victims
      BY <1>2 DEF CloseTake
    <3> QED BY <2>2, <3>1, <3>2 DEF Dead
  <2> QED BY <1>2, <2>1, <2>2 DEF CloseTake
<1>3. CASE ReapScan
  BY <1>3 DEF ReapScan, TurnInv, VictimsHeld
<1>4. ASSUME NEW q \in Getters, ReapClose(q) PROVE Cancels(p)
  <2>1. UNCHANGED pages /\ victims' = victims \ {q} /\ mp' = [mp EXCEPT ![q].life = None]
    BY <1>4 DEF ReapClose
  <2>2. p = q => mp'[p].life = None
    BY <2>1 DEF ManagedPage
  <2> QED BY <2>1, <2>2 DEF Dead
<1>5. CASE ClearPages
  BY <1>5 DEF ClearPages
<1>6. ASSUME NEW t \in Tabs, OnDestroyed(t) PROVE Cancels(p)
  <2>1. CASE UNCHANGED <<pages, mp>>
    BY <1>6, <2>1 DEF OnDestroyed
  <2>2. ASSUME NEW n \in Names, pages' = [pages EXCEPT ![n] = None],
               mp' = [mp EXCEPT ![pages[n]].life = None]
        PROVE  Cancels(p)
    <3>1. p = pages[n] => mp'[p].life = None
      BY <2>2 DEF ManagedPage
    <3>2. UNCHANGED victims
      BY <1>6 DEF OnDestroyed
    <3> QED BY <2>2, <3>1, <3>2 DEF Dead
  <2> QED BY <1>6, <2>1, <2>2 DEF OnDestroyed
<1> QED
  <2> HIDE DEF Cancels
  <2> QED BY <1>1, <1>2, <1>3, <1>4, <1>5, <1>6
    DEF OtherStep, PoolStep, Reap, UpdateBrowser, CloseFind, CloseTab, FindManagedPage,
        SetDetached, ReapStart, Reconnect, RotateGeneration, StoreBrowser, TabDies, Expire

\* No removal leaves the lifecycle of a published page alive, so no call on that
\* page hangs: by a close, a reap, a dead tab, a replacement or a failed creation.
THEOREM RemovalsCancel ==
  ASSUME Serial
  PROVE  Spec => CancelOnRemoval
<1> DEFINE Inv == Typed /\ IInv /\ GenInv /\ TurnInv
<1>1. Inv /\ Inv' /\ [Next]_vars =>
        [upc' = upc =>
           \A p \in Getters :
             /\ Published(p) /\ Mapped(p) /\ ~Mapped(p)' => Dead(p)' \/ p \in victims'
             /\ p \in victims /\ p \notin victims' => Dead(p)']_vars
  <2> SUFFICES ASSUME Inv, Inv', Next, upc' = upc, NEW p \in Getters
               PROVE  Cancels(p)
    BY DEF Cancels
  <2>1. ASSUME NEW g \in Getters, LookupMiss(g) \/ LookupHit(g) \/ GetterStep(g)
        PROVE  Cancels(p)
    BY <2>1, GetterCancels
  <2>2. CASE OtherStep
    BY <2>2, OtherCancels
  <2> QED
    BY <2>1, <2>2 DEF Next, OtherStep, PoolStep
<1> QED
  BY <1>1, TurnsHold, PTL DEF Spec, CancelOnRemoval

-----------------------------------------------------------------------------
(* The refinement.                                                         *)

\* A slot is free where nothing is mapped, and reserved where the entry has no
\* page.
LEMMA SlotStates ==
  ASSUME Typed, NEW n \in Names
  PROVE  /\ SlotMap[n] = None <=> pages[n] = None
         /\ pages[n] # None => /\ SlotMap[n].who = pages[n]
                               /\ SlotMap[n].page = mp[pages[n]].page
<1>1. CASE pages[n] = None
  BY <1>1 DEF SlotMap
<1>2. CASE pages[n] # None
  <2> DEFINE r == [who |-> pages[n], page |-> mp[pages[n]].page]
  <2>1. pages[n] \in Getters
    BY <1>2 DEF Typed, TypeOK
  <2>2. mp[pages[n]].page \in Handle \cup {None}
    BY <2>1 DEF Typed, TypeOK, ManagedPage
  <2>3. r \in Slot
    BY <2>1, <2>2 DEF Slot
  <2>4. SlotMap[n] = r
    BY <1>2 DEF SlotMap
  <2> QED BY <1>2, <2>3, <2>4, NoneAssumption
<1> QED
  BY <1>1, <1>2

\* A step that maps nothing and gives no mapped entry a page releases slots, or
\* changes none.
LEMMA UnmappingReleases ==
  ASSUME Typed, Typed',
         \A n \in Names : pages'[n] \in {pages[n], None},
         \A n \in Names : pages[n] # None => mp'[pages[n]].page = mp[pages[n]].page
  PROVE  SlotMap' = SlotMap \/ Slots!Next
<1> DEFINE S == {n \in Names : pages[n] # None /\ pages'[n] = None}
<1>1. SlotMap' = [n \in Names |-> IF n \in S THEN None ELSE SlotMap[n]]
  <2>1. SlotMap' = [n \in Names |-> IF pages'[n] = None THEN None
                                    ELSE [who |-> pages'[n], page |-> mp'[pages'[n]].page]]
    BY DEF SlotMap
  <2>2. ASSUME NEW n \in Names
        PROVE  (IF pages'[n] = None THEN None
                ELSE [who |-> pages'[n], page |-> mp'[pages'[n]].page])
               = IF n \in S THEN None ELSE SlotMap[n]
    BY <2>2 DEF SlotMap
  <2> QED BY <2>1, <2>2
<1>2. CASE S = {}
  <2>1. SlotMap' = [n \in Names |-> SlotMap[n]]
    BY <1>1, <1>2
  <2> QED BY <2>1 DEF SlotMap
<1>3. CASE S # {}
  <2>1. S \in SUBSET (Names \ Slots!Free)
    BY SlotStates DEF Slots!Free
  <2>2. PICK n \in S : TRUE
    BY <1>3
  <2>3. SlotMap'[n] = None /\ SlotMap[n] # None
    BY <1>1, <2>2, SlotStates
  <2>4. Slots!Release(S)
    BY <1>1, <1>3 DEF Slots!Release
  <2> QED BY <2>1, <2>3, <2>4 DEF Slots!Next
<1> QED
  BY <1>2, <1>3

\* The steps of getOrCreatePage reserve, open, adopt and release slots, or change
\* none.
LEMMA GetterSlots ==
  ASSUME Typed, Typed', IInv, GenInv, TurnInv, NEW g \in Getters,
         LookupMiss(g) \/ LookupHit(g) \/ GetterStep(g)
  PROVE  SlotMap' = SlotMap \/ Slots!Next
<1> USE DEF Typed, TypeOK, NameHeld, Finished
<1> DEFINE Unmaps == /\ \A n \in Names : pages'[n] \in {pages[n], None}
                     /\ \A n \in Names : pages[n] # None => mp'[pages[n]].page = mp[pages[n]].page
<1>1. Unmaps => SlotMap' = SlotMap \/ Slots!Next
  <2> HIDE DEF Typed, TypeOK
  <2> QED BY UnmappingReleases
<1>2. CASE Reserve(g)
  <2>1. /\ name[g] \in Names /\ pages[name[g]] = None /\ pages' = [pages EXCEPT ![name[g]] = g]
        /\ mp' = [mp EXCEPT ![g] = [Blank EXCEPT !.gen = snap[g], !.life = gen]]
        /\ pc[g] = "reserve"
    BY <1>2 DEF Reserve, TurnInv, OwnSlot
  <2>2. \A n \in Names : pages[n] # g
    BY <2>1 DEF IInv, MappedByCreator
  <2>3. SlotMap' = [SlotMap EXCEPT ![name[g]] = [who |-> g, page |-> None]]
    BY <2>1, <2>2, NoneAssumption DEF SlotMap, Blank
  <2>4. Slots!Reserve(name[g], g)
    BY <2>1, <2>2, <2>3, SlotStates DEF Slots!Reserve, Slots!Free, Slots!Unused
  <2>5. SlotMap' # SlotMap
    <3>1. SlotMap[name[g]] = None
      BY <2>1, SlotStates
    <3>2. SlotMap'[name[g]] = [who |-> g, page |-> None]
      BY <2>1, <2>3 DEF SlotMap
    <3>3. [who |-> g, page |-> None] \in Slot
      BY DEF Slot
    <3> QED BY <3>1, <3>2, <3>3, NoneAssumption
  <2> QED BY <2>1, <2>4, <2>5 DEF Slots!Next
<1>3. CASE PatchOK(g)
  <2>1. /\ name[g] \in Names /\ pages[name[g]] = g /\ UNCHANGED pages
        /\ pc[g] = "patch" /\ got[g] # None /\ got[g] \in Handle
    BY <1>3 DEF PatchOK, Patch, TurnInv, OwnSlot
  <2>2. mp' = [mp EXCEPT ![g].page = got[g]]
    BY <1>3, <2>1 DEF PatchOK, Patch
  <2>3. \A n \in Names : pages[n] = g => n = name[g]
    BY <2>1 DEF IInv, MappedByCreator
  <2>4. SlotMap' = [SlotMap EXCEPT ![name[g]].page = got[g]]
    <3> DEFINE After == [SlotMap EXCEPT ![name[g]].page = got[g]]
    <3>1. \A h \in Getters : mp'[h].page = IF h = g THEN got[g] ELSE mp[h].page
      BY <2>2 DEF ManagedPage
    <3>2. SlotMap[name[g]] = [who |-> g, page |-> mp[g].page]
      BY <2>1, NoneAssumption DEF SlotMap
    <3>3. SlotMap'[name[g]] = [who |-> g, page |-> got[g]]
      BY <2>1, <3>1, NoneAssumption DEF SlotMap
    <3>4. After[name[g]] = [who |-> g, page |-> got[g]]
      BY <2>1, <3>2 DEF SlotMap
    <3>5. \A n \in Names : n # name[g] => SlotMap'[n] = SlotMap[n] /\ After[n] = SlotMap[n]
      BY <2>1, <2>3, <3>1 DEF SlotMap
    <3>6. SlotMap' = [n \in Names |-> SlotMap'[n]] /\ After = [n \in Names |-> After[n]]
      BY DEF SlotMap
    <3> HIDE DEF After
    <3>7. \A n \in Names : SlotMap'[n] = After[n]
      BY <3>3, <3>4, <3>5
    <3>8. SlotMap' = After
      BY <3>6, <3>7
    <3> QED BY <3>8 DEF After
  <2>5. got[g] \in [tab : Tabs, conn : 0 .. MaxGen]
    BY <2>1, BoundAssumption DEF Handle, TurnInv, ConnBounded
  <2>6. mp[g].page = None
    BY <2>1 DEF TurnInv, OwnPage
  <2>7. Slots!Open(name[g], got[g])
    <3>1. SlotMap[name[g]] # None /\ SlotMap[name[g]].page = None
      BY <2>1, <2>6, NoneAssumption, SlotStates
    <3>2. name[g] \in Slots!Reserved
      BY <2>1, <3>1 DEF Slots!Reserved, Slots!Free
    <3> QED BY <2>4, <3>2 DEF Slots!Open
  <2>8. SlotMap' # SlotMap
    <3>1. SlotMap[name[g]].page = None
      BY <2>1, <2>6, NoneAssumption, SlotStates
    <3>2. SlotMap'[name[g]].page = got[g]
      BY <2>1, <2>2, NoneAssumption DEF SlotMap, ManagedPage
    <3> QED BY <2>1, <3>1, <3>2
  <2> QED BY <2>1, <2>5, <2>7, <2>8 DEF Slots!Next
<1>4. CASE AdoptInsert(g)
  <2>1. /\ name[g] \in Names /\ pages[name[g]] = None /\ pages' = [pages EXCEPT ![name[g]] = g]
        /\ UNCHANGED mp /\ pc[g] = "adoptInsert"
    BY <1>4 DEF AdoptInsert
  <2>2. \A n \in Names : pages[n] # g
    BY <2>1 DEF IInv, MappedByCreator
  <2> DEFINE h == mp[g].page
  <2>3. SlotMap' = [SlotMap EXCEPT ![name[g]] = [who |-> g, page |-> h]]
    BY <2>1, <2>2, NoneAssumption DEF SlotMap
  <2>4. h \in [tab : Tabs, conn : 0 .. MaxGen]
    BY <2>1, BoundAssumption DEF Handle, ManagedPage, IInv, AdoptedPage, TurnInv, ConnBounded
  <2>5. Slots!Adopt(name[g], g, h)
    BY <2>1, <2>2, <2>3, SlotStates DEF Slots!Adopt, Slots!Free, Slots!Unused
  <2>6. SlotMap' # SlotMap
    <3>1. SlotMap[name[g]] = None
      BY <2>1, SlotStates
    <3>2. SlotMap'[name[g]] = [who |-> g, page |-> h]
      BY <2>1, <2>3 DEF SlotMap
    <3>3. [who |-> g, page |-> h] \in Slot
      BY <2>1 DEF Slot, ManagedPage
    <3> QED BY <3>1, <3>2, <3>3, NoneAssumption
  <2> QED BY <2>1, <2>4, <2>5, <2>6 DEF Slots!Next
<1>5. CASE Replace(g)
  <2>1. \A n \in Names : pages'[n] \in {pages[n], None}
    BY <1>5 DEF Replace, Dropped
  <2>2. mp' = [mp EXCEPT ![found[g]].life = None]
    BY <1>5 DEF Replace
  <2>3. \A h \in Getters : mp'[h].page = mp[h].page
    BY <2>2 DEF ManagedPage
  <2> QED BY <1>1, <2>1, <2>3
<1>6. CASE PatchFailed(g) \/ PatchStale(g) \/ CloseStale(g)
  <2>1. \A n \in Names : pages'[n] \in {pages[n], None}
    BY <1>6 DEF PatchFailed, PatchStale, CloseStale, DeletePlaceholder
  <2>2. \/ mp' = [mp EXCEPT ![g].life = None, ![g].err = TRUE, ![g].ready = TRUE]
        \/ mp' = [mp EXCEPT ![g].life = None]
    BY <1>6 DEF PatchFailed, PatchStale, CloseStale, FailPlaceholder
  <2>3. \A h \in Getters : mp'[h].page = mp[h].page
    <3>1. CASE mp' = [mp EXCEPT ![g].life = None, ![g].err = TRUE, ![g].ready = TRUE]
      BY <3>1 DEF ManagedPage
    <3>2. CASE mp' = [mp EXCEPT ![g].life = None]
      BY <3>2 DEF ManagedPage
    <3> QED BY <2>2, <3>1, <3>2
  <2> QED BY <1>1, <2>1, <2>3
<1>7. CASE AdoptLife(g)
  <2>1. /\ UNCHANGED pages /\ \A h \in Getters : h # g => mp'[h] = mp[h]
        /\ pc[g] = "adoptLife"
    BY <1>7 DEF AdoptLife
  <2>2. \A n \in Names : pages[n] # g
    BY <2>1 DEF IInv, MappedByCreator
  <2> QED BY <1>1, <2>1, <2>2
<1>8. CASE UNCHANGED pages /\ \A h \in Getters : mp'[h].page = mp[h].page
  BY <1>1, <1>8
<1>9. CASE Touch(g) \/ Discard(g) \/ RecordDiscard(g) \/ Finish(g) \/ AdoptLoses(g)
  <2>1. UNCHANGED pages
    BY <1>9 DEF Touch, Discard, RecordDiscard, Finish, AdoptLoses
  <2>2. \/ mp' = [mp EXCEPT ![found[g]].idle = FALSE]
        \/ mp' = [mp EXCEPT ![g].life = None, ![g].ready = TRUE]
        \/ mp' = [mp EXCEPT ![g].err = TRUE]
        \/ mp' = [mp EXCEPT ![g].ready = TRUE]
        \/ mp' = [mp EXCEPT ![g].life = None]
    BY <1>9 DEF Touch, Discard, RecordDiscard, Finish, AdoptLoses
  <2>3. \A h \in Getters : mp'[h].page = mp[h].page
    <3>1. CASE mp' = [mp EXCEPT ![found[g]].idle = FALSE]
      BY <3>1 DEF ManagedPage
    <3>2. CASE mp' = [mp EXCEPT ![g].life = None, ![g].ready = TRUE]
      BY <3>2 DEF ManagedPage
    <3>3. CASE mp' = [mp EXCEPT ![g].err = TRUE]
      BY <3>3 DEF ManagedPage
    <3>4. CASE mp' = [mp EXCEPT ![g].ready = TRUE]
      BY <3>4 DEF ManagedPage
    <3>5. CASE mp' = [mp EXCEPT ![g].life = None]
      BY <3>5 DEF ManagedPage
    <3> QED BY <2>2, <3>1, <3>2, <3>3, <3>4, <3>5
  <2> QED BY <1>8, <2>1, <2>3
<1>10. CASE UNCHANGED <<pages, mp>>
  BY <1>8, <1>10
<1> QED
  <2> HIDE DEF Typed, TypeOK
  <2> QED BY <1>2, <1>3, <1>4, <1>5, <1>6, <1>7, <1>9, <1>10
    DEF GetterStep, LookupMiss, LookupHit, Wait, ProbeOK, ProbeFails, CreateOK,
        CreateFails, PatchDiscarded, Adopt, AdoptFails, Relock, AdoptGen, AdoptFinish,
        AdoptClose, AdoptWait

\* The pool implements the slots: a session is reserved, opened with one page,
\* and keeps that page until it is free again.
THEOREM SessionsImplementSlots ==
  ASSUME Serial
  PROVE  Spec => SessionsAreSlots
<1> DEFINE Inv == Typed /\ IInv /\ GenInv /\ TurnInv
<1>1. Init => Slots!Init
  BY DEF Init, Slots!Init, SlotMap
<1>2. Inv /\ Inv' /\ [Next]_vars => [Slots!Next]_SlotMap
  <2> SUFFICES ASSUME Inv, Inv', [Next]_vars PROVE SlotMap' = SlotMap \/ Slots!Next
    OBVIOUS
  <2>1. CASE UNCHANGED vars
    BY <2>1 DEF vars, SlotMap
  <2>2. ASSUME NEW g \in Getters, LookupMiss(g) \/ LookupHit(g) \/ GetterStep(g)
        PROVE  SlotMap' = SlotMap \/ Slots!Next
    BY <2>2, GetterSlots
  <2>3. CASE OtherStep
    <3>1. \A n \in Names : pages[n] \in Getters \cup {None}
      BY DEF Typed, TypeOK
    <3> QED BY <2>3, <3>1, OthersOnlyUnmap, UnmappingReleases
  <2> QED
    BY <2>1, <2>2, <2>3 DEF Next, OtherStep, PoolStep
<1> QED
  BY <1>1, <1>2, TurnsHold, PTL DEF Spec, SessionsAreSlots, Slots!Spec
=============================================================================
