------------------------------ MODULE PagePool ------------------------------
(***************************************************************************)
(* The sessions of ONE ManagedContext of the ContextPool                   *)
(* (src/context_pool.go, src/context_pool_internal.go): callers of         *)
(* getOrCreatePage, callers of ClosePage, operators that detach a session, *)
(* the reaper, UpdateBrowser after a reconnect, and Chrome itself, which   *)
(* destroys tabs on its own.                                               *)
(*                                                                         *)
(* A ManagedPage is named by the caller that allocated it (a caller        *)
(* allocates at most one), and so is the tab that caller creates.  A       *)
(* *rod.Page is a handle: a tab and the CDP connection it is bound to.     *)
(* Critical sections of ManagedContext.Mu that end before the next CDP     *)
(* call are one action; mu is kept for the one that is not atomic with     *)
(* respect to UpdateBrowser's genMu section (generation.Load and           *)
(* newPageLifecycle under mc.Mu).                                          *)
(***************************************************************************)
EXTENDS Naturals, FiniteSets

CONSTANTS
  Getters,    \* calls of getOrCreatePage, one request each
  Closers,    \* calls of ClosePage
  Operators,  \* calls of DetachSession and AttachSession
  Sessions,   \* session names as the callers give them
  OldTabs,    \* tabs Chrome had before the pool (adoptable)
  Asks,       \* Asks[g]: the sessions a caller may name
  IsDefault,  \* key == "default": the adopt path, and recovery after reconnect
  Serial,     \* callers issue one request at a time per session
  MaxSuffix,  \* deduplicateSession's loop bound (99 in the code)
  MaxGen,     \* bound on the number of reconnects explored
  None

ASSUME ActorsAssumption ==
  /\ Getters \cap Closers = {}
  /\ (Getters \cup Closers) \cap Operators = {}
\* The tabs the calls create are new, and what generateEphemeralID returns is
\* none of the numbers deduplicateSession appends.
ASSUME NewAssumption ==
  /\ OldTabs \cap Getters = {}
  /\ (1 .. MaxSuffix) \cap Getters = {}
ASSUME BooleanAssumption == IsDefault \in BOOLEAN /\ Serial \in BOOLEAN
ASSUME BoundAssumption == MaxSuffix \in Nat \ {0} /\ MaxGen \in Nat
ASSUME AsksAssumption == Asks \in [Getters \cup Closers -> SUBSET Sessions]

Tabs == Getters \cup OldTabs
Names == Sessions \X ((1 .. MaxSuffix) \cup Getters)
Handle == [tab : Tabs, conn : Nat]
Slot == [who : Getters, page : Handle \cup {None}]
ASSUME NoneAssumption ==
  None \notin Nat \cup Getters \cup Tabs \cup Names \cup Handle \cup Slot

VARIABLES
  gen,        \* ContextPool.generation; genCtx is the context of generation gen
  conn,       \* the CDP connection that is up
  browser,    \* ContextPool.browser: the connection it was made on
  upc,        \* control point of reconnect/UpdateBrowser
  pages,      \* ManagedContext.Pages: session name -> ManagedPage or None
  mu,         \* the caller inside the reserving critical section, or None
  mp,         \* the ManagedPage each caller allocated
  tabs,       \* tabs that exist in Chrome
  destroyed,  \* targetDestroyed events not yet handled
  pc, name, found, snap, got,   \* locals of the calls
  rpc, rgen, victims            \* locals of the reaper

vars == <<gen, conn, browser, upc, pages, mu, mp, tabs, destroyed,
          pc, name, found, snap, got, rpc, rgen, victims>>

chrome == <<tabs, destroyed>>
update == <<gen, conn, browser, upc>>
locals == <<name, found, snap, got>>
reaper == <<rpc, rgen, victims>>

ManagedPage == [page : Handle \cup {None}, gen : Nat, life : Nat \cup {None},
                ready : BOOLEAN, err : BOOLEAN, idle : BOOLEAN, detached : BOOLEAN]

GetterPC == {"idle", "wait", "probe", "touch", "replace", "reserve", "create",
             "patch", "finish", "discard", "discarded", "stale", "adopt",
             "adoptGen", "adoptLife", "adoptInsert", "adoptFinish", "adoptClose",
             "adoptWait", "relock", "ok", "adopted", "joined", "failed"}
CloserPC == {"idle", "wait", "close", "done"}
OperatorPC == {"idle", "set", "done"}
\* A call ends with a page it made or looked up ("ok"), with a tab it adopted, or,
\* "joined", as the loser of an adoption with the winner's entry.
Finished == {"ok", "adopted", "joined", "failed", "done"}

TypeOK ==
  /\ gen \in Nat /\ conn \in Nat /\ browser \in Nat
  /\ upc \in {"idle", "rotate", "store", "clear"}
  /\ pages \in [Names -> Getters \cup {None}]
  /\ mu \in Getters \cup {None}
  /\ mp \in [Getters -> ManagedPage]
  /\ tabs \in SUBSET Tabs /\ destroyed \in SUBSET Tabs
  /\ pc \in [Getters \cup Closers \cup Operators ->
               GetterPC \cup CloserPC \cup OperatorPC]
  /\ name \in [Getters \cup Closers -> Names \cup {None}]
  /\ found \in [Getters \cup Closers \cup Operators -> Getters \cup {None}]
  /\ snap \in [Getters -> Nat]
  /\ got \in [Getters \cup Closers -> Handle \cup {None}]
  /\ rpc \in {"idle", "scan", "close"}
  /\ rgen \in Nat /\ victims \in SUBSET Getters

Blank == [page |-> None, gen |-> 0, life |-> None, ready |-> FALSE,
          err |-> FALSE, idle |-> FALSE, detached |-> FALSE]

Init ==
  /\ gen = 0 /\ conn = 0 /\ browser = 0 /\ upc = "idle"
  /\ pages = [n \in Names |-> None]
  /\ mu = None
  /\ mp = [g \in Getters |-> Blank]
  /\ tabs = OldTabs /\ destroyed = {}
  /\ pc = [x \in Getters \cup Closers \cup Operators |-> "idle"]
  /\ name = [x \in Getters \cup Closers |-> None]
  /\ found = [x \in Getters \cup Closers \cup Operators |-> None]
  /\ snap = [g \in Getters |-> 0]
  /\ got = [x \in Getters \cup Closers |-> None]
  /\ rpc = "idle" /\ rgen = 0 /\ victims = {}

-----------------------------------------------------------------------------
(* Chrome and the lifecycle contexts.                                      *)

\* A lifecycle context is a child of the genCtx of its generation.
Dead(p) == mp[p].life # gen

\* The tab t goes away; its targetDestroyed event may be lost, and is lost
\* while no watcher is subscribed (from the loss of the connection to the end
\* of UpdateBrowser).
Gone(t) ==
  /\ tabs' = tabs \ {t}
  /\ \/ destroyed' = destroyed
     \/ upc = "idle" /\ destroyed' = destroyed \cup {t}

\* page.Close(): reaches Chrome only over the connection that is up, and may
\* give up on a stuck target.
ClosePageTab(h) ==
  \/ UNCHANGED chrome
  \/ h # None /\ h.conn = conn /\ h.tab \in tabs /\ Gone(h.tab)

\* TargetGetTargetInfo on the pool's current browser, under the page's life.
ProbeAlive(p) ==
  /\ mp[p].page # None
  /\ ~Dead(p)
  /\ browser = conn
  /\ mp[p].page.tab \in tabs

-----------------------------------------------------------------------------
(* getOrCreatePage.                                                        *)

Goto(x, l) == pc' = [pc EXCEPT ![x] = l]
\* A call returns: its locals are gone, found stays as the result of a success.
Return(x, l) ==
  /\ Goto(x, l)
  /\ name' = [name EXCEPT ![x] = None]
  /\ got' = [got EXCEPT ![x] = None]
  /\ IF l \in {"failed", "done"} THEN found' = [found EXCEPT ![x] = None]
                                ELSE UNCHANGED found
  /\ UNCHANGED snap
Busy(g) == pc[g] \notin {"idle"} \cup Finished
Empty(pgs) == \A n \in Names : pgs[n] = None

\* deduplicateSession: the first free of base, base-2, ..., or a fresh
\* ephemeral suffix when all are taken.
FirstFree(pgs, s) ==
  {n \in {s} \X (1 .. MaxSuffix) :
     pgs[n] = None /\ \A j \in 1 .. (n[2] - 1) : pgs[<<s, j>>] # None}
DedupNames(pgs, s, g) ==
  IF FirstFree(pgs, s) # {} THEN FirstFree(pgs, s) ELSE {<<s, g>>}

\* Under mc.Mu with no usable entry: the default context with no page at all
\* drops the lock and looks for a tab to adopt; otherwise the generation is
\* loaded and the lock is kept until the placeholder is in the map.
Proceed(g, pgs) ==
  IF IsDefault /\ Empty(pgs)
  THEN Goto(g, "adopt") /\ UNCHANGED <<mu, snap>>
  ELSE Goto(g, "reserve") /\ mu' = g /\ snap' = [snap EXCEPT ![g] = gen]

MayAsk(g, s) ==
  /\ s \in Asks[g]
  /\ Serial => \A h \in Getters : Busy(h) => name[h][1] # s

\* Phase 2, no entry for the session (deduplicateSession then keeps the name).
LookupMiss(g) ==
  /\ pc[g] = "idle" /\ mu = None
  /\ \E s \in Sessions :
       /\ MayAsk(g, s)
       /\ pages[<<s, 1>>] = None
       /\ name' = [name EXCEPT ![g] = <<s, 1>>]
  /\ Proceed(g, pages)
  /\ UNCHANGED <<update, pages, mp, chrome, found, got, reaper>>

\* Phase 2, an entry: unlock and wait for its creation to finish.
LookupHit(g) ==
  /\ pc[g] = "idle" /\ mu = None
  /\ \E s \in Sessions :
       /\ MayAsk(g, s)
       /\ pages[<<s, 1>>] # None
       /\ name' = [name EXCEPT ![g] = <<s, 1>>]
       /\ found' = [found EXCEPT ![g] = pages[<<s, 1>>]]
  /\ Goto(g, "wait")
  /\ UNCHANGED <<update, pages, mu, mp, chrome, snap, got, reaper>>

\* Mutant of Wait: no probe when the entry is handed out.
WaitTrusting(g) ==
  /\ pc[g] = "wait" /\ mp[found[g]].ready
  /\ \/ mp[found[g]].err /\ Return(g, "failed")
     \/ ~mp[found[g]].err /\ Goto(g, "touch") /\ UNCHANGED locals
  /\ UNCHANGED <<update, pages, mu, mp, chrome, reaper>>

\* <-mp.ready, then mp.readyErr.
Wait(g) ==
  /\ pc[g] = "wait" /\ mp[found[g]].ready
  /\ \/ mp[found[g]].err /\ Return(g, "failed")
     \/ ~mp[found[g]].err /\ Goto(g, "probe") /\ UNCHANGED locals
  /\ UNCHANGED <<update, pages, mu, mp, chrome, reaper>>

\* pageAlive; the probe has a deadline, so it may fail on a live tab.
ProbeOK(g) ==
  /\ pc[g] = "probe" /\ ProbeAlive(found[g])
  /\ Goto(g, "touch")
  /\ UNCHANGED <<update, pages, mu, mp, chrome, locals, reaper>>

ProbeFails(g) ==
  /\ pc[g] = "probe"
  /\ Goto(g, "replace")
  /\ UNCHANGED <<update, pages, mu, mp, chrome, locals, reaper>>

\* Refresh LastUsed and hand the entry out.
Touch(g) ==
  /\ pc[g] = "touch"
  /\ mp' = [mp EXCEPT ![found[g]].idle = FALSE]
  /\ Return(g, "ok")
  /\ UNCHANGED <<update, pages, mu, chrome, reaper>>

\* The probed entry is dead: drop it if it is still the one in the map,
\* cancel it, and go on to a fresh page under a free name.
Dropped(g) ==
  [n \in Names |-> IF n = name[g] /\ pages[n] = found[g] THEN None ELSE pages[n]]

\* Mutant of Replace: the new page takes the dead entry's place.
ReplaceInPlace(g) ==
  /\ pc[g] = "replace" /\ mu = None
  /\ mp' = [mp EXCEPT ![found[g]].life = None]
  /\ Proceed(g, pages)
  /\ UNCHANGED <<update, pages, chrome, name, found, got, reaper>>

Replace(g) ==
  /\ pc[g] = "replace" /\ mu = None
  /\ pages' = Dropped(g)
  /\ mp' = [mp EXCEPT ![found[g]].life = None]
  /\ \E n \in DedupNames(Dropped(g), name[g][1], g) :
       name' = [name EXCEPT ![g] = n]
  /\ Proceed(g, Dropped(g))
  /\ UNCHANGED <<update, chrome, found, got, reaper>>

\* Phase 3: the placeholder enters the map and the lock is released.
Reserve(g) ==
  /\ pc[g] = "reserve"
  /\ mp' = [mp EXCEPT ![g] = [Blank EXCEPT !.gen = snap[g], !.life = gen]]
  /\ pages' = [pages EXCEPT ![name[g]] = g]
  /\ mu' = None
  /\ snap' = [snap EXCEPT ![g] = 0]
  /\ Goto(g, "create")
  /\ UNCHANGED <<update, chrome, name, found, got, reaper>>

\* createPageWithStaleRecovery returns a page.  A private or proxy context
\* died with the connection it was created on (DisposeOnDetach) and only the
\* default context recovers from the stale ID.
CreateOK(g) ==
  /\ pc[g] = "create" /\ browser = conn
  /\ IsDefault \/ conn = 0
  /\ tabs' = tabs \cup {g}
  /\ got' = [got EXCEPT ![g] = [tab |-> g, conn |-> conn]]
  /\ Goto(g, "patch")
  /\ UNCHANGED <<update, pages, mu, mp, destroyed, name, found, snap, reaper>>

\* Mutant of CreateFails: the caller is handed a half-made page.
CreateFailsWithPage(g) ==
  /\ pc[g] = "create"
  /\ got' = [got EXCEPT ![g] = [tab |-> None, conn |-> conn]]
  /\ Goto(g, "patch")
  /\ UNCHANGED <<update, pages, mu, mp, chrome, name, found, snap, reaper>>

\* An error or pageCreationTimeout; Chrome may have made the tab all the same.
CreateFails(g) ==
  /\ pc[g] = "create"
  /\ \/ tabs' = tabs
     \/ browser = conn /\ (IsDefault \/ conn = 0) /\ tabs' = tabs \cup {g}
  /\ Goto(g, "patch")
  /\ UNCHANGED <<update, pages, mu, mp, destroyed, locals, reaper>>

\* Phase 4, first branch: nothing is mapped under the name any more.
PatchDiscarded(g) ==
  /\ pc[g] = "patch" /\ mu = None
  /\ pages[name[g]] = None
  /\ Goto(g, "discard")
  /\ UNCHANGED <<update, pages, mu, mp, chrome, locals, reaper>>

\* The page is closed, then the waiters are released before the error is
\* recorded.
Discard(g) ==
  /\ pc[g] = "discard"
  /\ ClosePageTab(got[g])
  /\ mp' = [mp EXCEPT ![g].life = None, ![g].ready = TRUE]
  /\ Goto(g, "discarded")
  /\ UNCHANGED <<update, pages, mu, locals, reaper>>

RecordDiscard(g) ==
  /\ pc[g] = "discarded"
  /\ mp' = [mp EXCEPT ![g].err = TRUE]
  /\ Return(g, "failed")
  /\ UNCHANGED <<update, pages, mu, chrome, reaper>>

\* Mutant of DeletePlaceholder: the failed entry stays in the map.
KeepPlaceholder(g) == UNCHANGED pages

\* The two failing branches of phase 4 delete whatever is mapped under the name.
DeletePlaceholder(g) == pages' = [pages EXCEPT ![name[g]] = None]

\* Mutant of FailPlaceholder: its waiters are not released.
FailPlaceholderUnsignalled(g) ==
  /\ mp' = [mp EXCEPT ![g].life = None, ![g].err = TRUE]
  /\ Return(g, "failed")

\* The caller's own placeholder is cancelled and failed, and its waiters are
\* released.
FailPlaceholder(g) ==
  /\ mp' = [mp EXCEPT ![g].life = None, ![g].err = TRUE, ![g].ready = TRUE]
  /\ Return(g, "failed")

PatchFailed(g) ==
  /\ pc[g] = "patch" /\ mu = None
  /\ pages[name[g]] # None /\ got[g] = None
  /\ DeletePlaceholder(g)
  /\ FailPlaceholder(g)
  /\ UNCHANGED <<update, mu, chrome, reaper>>

PatchStale(g) ==
  /\ pc[g] = "patch" /\ mu = None
  /\ pages[name[g]] # None /\ got[g] # None
  /\ mp[pages[name[g]]].gen # gen
  /\ DeletePlaceholder(g)
  /\ mp' = [mp EXCEPT ![g].life = None]
  /\ Goto(g, "stale")
  /\ UNCHANGED <<update, mu, chrome, locals, reaper>>

\* The page of the old generation is closed before the waiters are released.
CloseStale(g) ==
  /\ pc[g] = "stale"
  /\ ClosePageTab(got[g])
  /\ FailPlaceholder(g)
  /\ UNCHANGED <<update, pages, mu, reaper>>

\* Phase 4, success: the entry found under the name gets the page, if there
\* is one and that entry is of the current generation.
Patch(g) ==
  /\ pc[g] = "patch" /\ mu = None /\ pages[name[g]] # None
  /\ mp' = [mp EXCEPT ![pages[name[g]]].page = got[g]]
  /\ found' = [found EXCEPT ![g] = pages[name[g]]]
  /\ Goto(g, "finish")
  /\ UNCHANGED <<update, pages, mu, chrome, name, snap, got, reaper>>

\* Mutants of PatchOK: without the generation check; with a check of the
\* entry's lifecycle context instead.
PatchOKAnyGeneration(g) == Patch(g) /\ got[g] # None
PatchOKAliveContext(g) == Patch(g) /\ got[g] # None /\ ~Dead(pages[name[g]])

PatchOK(g) == Patch(g) /\ got[g] # None /\ mp[pages[name[g]]].gen = gen

\* After stealth and the log subscription, the caller's own placeholder
\* becomes ready and the patched entry is returned.
Finish(g) ==
  /\ pc[g] = "finish"
  /\ mp' = [mp EXCEPT ![g].ready = TRUE]
  /\ Return(g, "ok")
  /\ UNCHANGED <<update, pages, mu, chrome, reaper>>

\* adoptExistingPage: any page target of the context.
Adopt(g) ==
  /\ pc[g] = "adopt" /\ browser = conn
  /\ \E t \in tabs : got' = [got EXCEPT ![g] = [tab |-> t, conn |-> conn]]
  /\ Goto(g, "adoptGen")
  /\ UNCHANGED <<update, pages, mu, mp, chrome, name, found, snap, reaper>>

AdoptFails(g) ==
  /\ pc[g] = "adopt"
  /\ Goto(g, "relock")
  /\ UNCHANGED <<update, pages, mu, mp, chrome, locals, reaper>>

\* Back under mc.Mu after a failed adoption, without a second lookup.
Relock(g) ==
  /\ pc[g] = "relock" /\ mu = None
  /\ mu' = g
  /\ snap' = [snap EXCEPT ![g] = gen]
  /\ Goto(g, "reserve")
  /\ UNCHANGED <<update, pages, mp, chrome, name, found, got, reaper>>

AdoptGen(g) ==
  /\ pc[g] = "adoptGen"
  /\ snap' = [snap EXCEPT ![g] = gen]
  /\ Goto(g, "adoptLife")
  /\ UNCHANGED <<update, pages, mu, mp, chrome, name, found, got, reaper>>

AdoptLife(g) ==
  /\ pc[g] = "adoptLife"
  /\ mp' = [mp EXCEPT ![g] =
              [Blank EXCEPT !.page = got[g], !.gen = snap[g],
                            !.life = gen, !.ready = TRUE]]
  /\ snap' = [snap EXCEPT ![g] = 0]
  /\ Goto(g, "adoptInsert")
  /\ UNCHANGED <<update, pages, mu, chrome, name, found, got, reaper>>

\* The entry is ready from the start; the generation is not looked at again.
AdoptInsert(g) ==
  /\ pc[g] = "adoptInsert" /\ mu = None
  /\ pages[name[g]] = None
  /\ pages' = [pages EXCEPT ![name[g]] = g]
  /\ found' = [found EXCEPT ![g] = g]
  /\ Goto(g, "adoptFinish")
  /\ UNCHANGED <<update, mu, mp, chrome, name, snap, got, reaper>>

\* Stealth and the log subscription of the adopted page.
AdoptFinish(g) ==
  /\ pc[g] = "adoptFinish"
  /\ Return(g, "adopted")
  /\ UNCHANGED <<update, pages, mu, mp, chrome, reaper>>

\* Another caller mapped the name meanwhile: close the adopted tab and wait
\* for that entry instead.
AdoptLoses(g) ==
  /\ pc[g] = "adoptInsert" /\ mu = None
  /\ pages[name[g]] # None
  /\ mp' = [mp EXCEPT ![g].life = None]
  /\ found' = [found EXCEPT ![g] = pages[name[g]]]
  /\ Goto(g, "adoptClose")
  /\ UNCHANGED <<update, pages, mu, chrome, name, snap, got, reaper>>

AdoptClose(g) ==
  /\ pc[g] = "adoptClose"
  /\ ClosePageTab(got[g])
  /\ Goto(g, "adoptWait")
  /\ UNCHANGED <<update, pages, mu, mp, locals, reaper>>

\* No probe follows this wait, as one follows Wait.
AdoptWait(g) ==
  /\ pc[g] = "adoptWait" /\ mp[found[g]].ready
  /\ Return(g, IF mp[found[g]].err THEN "failed" ELSE "joined")
  /\ UNCHANGED <<update, pages, mu, mp, chrome, reaper>>

GetterStep(g) ==
  \/ Wait(g) \/ ProbeOK(g) \/ ProbeFails(g) \/ Touch(g) \/ Replace(g)
  \/ Reserve(g) \/ CreateOK(g) \/ CreateFails(g)
  \/ PatchDiscarded(g) \/ Discard(g) \/ RecordDiscard(g) \/ PatchFailed(g)
  \/ PatchStale(g) \/ CloseStale(g) \/ PatchOK(g) \/ Finish(g)
  \/ Adopt(g) \/ AdoptFails(g) \/ Relock(g) \/ AdoptGen(g) \/ AdoptLife(g)
  \/ AdoptInsert(g) \/ AdoptFinish(g) \/ AdoptLoses(g) \/ AdoptClose(g) \/ AdoptWait(g)

\* The CDP calls of getOrCreatePage that nothing bounds: the search for a tab
\* to adopt, page.Close of a page that is given up, and stealth with the log
\* subscription.  The probe and the creation have a timeout.
Unanswered(g) ==
  \/ pc[g] \in {"adopt", "adoptClose", "adoptFinish", "stale", "finish"}
  \/ pc[g] = "discard" /\ got[g] # None

-----------------------------------------------------------------------------
(* ClosePage, DetachSession, AttachSession.                                *)

CloseFind(c) ==
  /\ pc[c] = "idle" /\ mu = None
  /\ \E n \in Names :
       /\ n[1] \in Asks[c] /\ pages[n] # None
       /\ name' = [name EXCEPT ![c] = n]
       /\ found' = [found EXCEPT ![c] = pages[n]]
  /\ Goto(c, "wait")
  /\ UNCHANGED <<update, pages, mu, mp, chrome, snap, got, reaper>>

\* The wait for ready and phase 3: whatever is mapped under the name by then
\* is cancelled, removed and taken for closing.
CloseTake(c) ==
  /\ pc[c] = "wait" /\ mp[found[c]].ready /\ mu = None
  /\ LET p == pages[name[c]] IN
       \/ /\ p = None
          /\ Return(c, "done") /\ UNCHANGED <<pages, mp>>
       \/ /\ p # None
          /\ pages' = [pages EXCEPT ![name[c]] = None]
          /\ mp' = [mp EXCEPT ![p].life = None]
          /\ got' = [got EXCEPT ![c] = mp[p].page]
          /\ Goto(c, "close")
          /\ UNCHANGED <<name, found, snap>>
  /\ UNCHANGED <<update, mu, chrome, reaper>>

CloseTab(c) ==
  /\ pc[c] = "close"
  /\ ClosePageTab(got[c])
  /\ Return(c, "done")
  /\ UNCHANGED <<update, pages, mu, mp, reaper>>

\* FindManagedPage, then the write of DetachedAt under the page's own mutex.
FindManagedPage(o) ==
  /\ pc[o] = "idle" /\ mu = None
  /\ \E n \in Names : pages[n] # None /\ found' = [found EXCEPT ![o] = pages[n]]
  /\ Goto(o, "set")
  /\ UNCHANGED <<update, pages, mu, mp, chrome, name, snap, got, reaper>>

SetDetached(o) ==
  /\ pc[o] = "set"
  /\ \E d \in BOOLEAN : mp' = [mp EXCEPT ![found[o]].detached = d]
  /\ Goto(o, "done")
  /\ UNCHANGED <<update, pages, mu, chrome, locals, reaper>>

-----------------------------------------------------------------------------
(* The reaper, the destruction watcher, UpdateBrowser, Chrome.             *)

ReapStart ==
  /\ rpc = "idle"
  /\ rgen' = gen /\ rpc' = "scan"
  /\ UNCHANGED <<update, pages, mu, mp, chrome, pc, locals, victims>>

Reapable(p) ==
  /\ ~mp[p].detached
  /\ mp[p].page # None
  /\ mp[p].gen # rgen \/ mp[p].idle

\* The pages taken out of the map are closed one by one after the lock.
AfterVictims == IF victims' = {} THEN "idle" ELSE "close"

ReapScan ==
  /\ rpc = "scan" /\ mu = None
  /\ victims' = {p \in Getters : Reapable(p) /\ \E n \in Names : pages[n] = p}
  /\ pages' = [n \in Names |-> IF pages[n] \in victims' THEN None ELSE pages[n]]
  /\ rpc' = AfterVictims /\ rgen' = 0
  /\ UNCHANGED <<update, mu, mp, chrome, pc, locals>>

\* Mutant of ReapClose: the lifecycle of the evicted page is not cancelled.
ReapCloseUncancelled(p) ==
  /\ rpc = "close" /\ p \in victims
  /\ victims' = victims \ {p} /\ rpc' = AfterVictims
  /\ ClosePageTab(mp[p].page)
  /\ UNCHANGED <<update, pages, mu, mp, pc, locals, rgen>>

ReapClose(p) ==
  /\ rpc = "close" /\ p \in victims
  /\ victims' = victims \ {p} /\ rpc' = AfterVictims
  /\ mp' = [mp EXCEPT ![p].life = None]
  /\ ClosePageTab(mp[p].page)
  /\ UNCHANGED <<update, pages, mu, pc, locals, rgen>>

Reap == ReapStart \/ ReapScan \/ \E p \in Getters : ReapClose(p)

\* watchTargetDestroyed: the first entry on that target is cancelled and
\* removed; the order of a map range is arbitrary.
OnDestroyed(t) ==
  /\ t \in destroyed /\ mu = None
  /\ destroyed' = destroyed \ {t}
  /\ LET On == {n \in Names : /\ pages[n] # None
                              /\ mp[pages[n]].page # None
                              /\ mp[pages[n]].page.tab = t} IN
       \/ On = {} /\ UNCHANGED <<pages, mp>>
       \/ \E n \in On : /\ pages' = [pages EXCEPT ![n] = None]
                        /\ mp' = [mp EXCEPT ![pages[n]].life = None]
  /\ UNCHANGED <<update, mu, tabs, pc, locals, reaper>>

\* reconnect: the old connection is closed, a new one is up.  Tabs may
\* survive in the default context of a remote Chrome.
Reconnect ==
  /\ upc = "idle" /\ conn < MaxGen
  /\ conn' = conn + 1 /\ upc' = "rotate"
  /\ \E left \in SUBSET tabs : (left # {} => IsDefault) /\ tabs' = left
  /\ destroyed' = {}
  /\ UNCHANGED <<gen, browser, pages, mu, mp, pc, locals, reaper>>

\* UpdateBrowser, step by step: genCancel and the new generation, the new
\* browser, the emptied maps (and the new watcher).
RotateGeneration ==
  /\ upc = "rotate"
  /\ gen' = gen + 1 /\ upc' = "store"
  /\ UNCHANGED <<conn, browser, pages, mu, mp, chrome, pc, locals, reaper>>

StoreBrowser ==
  /\ upc = "store"
  /\ browser' = conn /\ upc' = "clear"
  /\ UNCHANGED <<gen, conn, pages, mu, mp, chrome, pc, locals, reaper>>

\* Mutant of ClearPages: the maps are not emptied.
KeepPages ==
  /\ upc = "clear" /\ mu = None
  /\ upc' = "idle"
  /\ UNCHANGED <<gen, conn, browser, pages, mu, mp, chrome, pc, locals, reaper>>

ClearPages ==
  /\ upc = "clear" /\ mu = None
  /\ pages' = [n \in Names |-> None]
  /\ upc' = "idle"
  /\ UNCHANGED <<gen, conn, browser, mu, mp, chrome, pc, locals, reaper>>

UpdateBrowser == RotateGeneration \/ StoreBrowser \/ ClearPages

\* A tab is closed by the user, by script or by a renderer crash.
TabDies(t) ==
  /\ t \in tabs /\ Gone(t)
  /\ UNCHANGED <<update, pages, mu, mp, pc, locals, reaper>>

\* The TTL of a page in the map elapses (Reap looks at no other).
Expire(p) ==
  /\ mp[p].page # None /\ ~mp[p].idle
  /\ \E n \in Names : pages[n] = p
  /\ mp' = [mp EXCEPT ![p].idle = TRUE]
  /\ UNCHANGED <<update, pages, mu, chrome, pc, locals, reaper>>

Next ==
  \/ \E g \in Getters : LookupMiss(g) \/ LookupHit(g) \/ GetterStep(g) \/ Expire(g)
  \/ \E c \in Closers : CloseFind(c) \/ CloseTake(c) \/ CloseTab(c)
  \/ \E o \in Operators : FindManagedPage(o) \/ SetDetached(o)
  \/ Reap
  \/ Reconnect \/ UpdateBrowser
  \/ \E t \in Tabs : TabDies(t) \/ OnDestroyed(t)

\* The goroutines that run the calls, the reaper's ticker and UpdateBrowser
\* are scheduled; nothing obliges Chrome, users or callers to act, nor Chrome
\* to answer a call that has no timeout.
Fairness ==
  /\ \A g \in Getters : WF_vars(~Unanswered(g) /\ GetterStep(g))
  /\ \A c \in Closers : WF_vars(CloseTake(c) \/ CloseTab(c))

Spec == Init /\ [][Next]_vars
FairSpec == Spec /\ Fairness

-----------------------------------------------------------------------------
(* What the pool promises.                                                 *)

Mapped(p) == \E n \in Names : pages[n] = p
Published(p) == mp[p].page # None /\ mp[p].ready
Created(p) == mp[p].page # None /\ mp[p].page.tab = p
Adopted(p) == pc[p] \in {"adoptFinish", "adopted"}

\* Whoever finds an entry whose ready channel is closed finds a page and no
\* error: the waiters of getOrCreatePage and ClosePage rely on it, whatever
\* reconnects, reaps, closes and other creators of the session do meanwhile.
ReadyEntriesUsable ==
  \A n \in Names : pages[n] # None /\ mp[pages[n]].ready =>
    mp[pages[n]].page # None /\ ~mp[pages[n]].err

\* Every call that has started returns, or is itself in a call to Chrome that
\* nothing bounds, or waits on an entry whose creator is: a placeholder may be
\* reaped, closed, overwritten or cleared by UpdateBrowser while its creator is
\* in CDP, and its waiters, in getOrCreatePage and in ClosePage, are woken all
\* the same.
HeldUp(x) ==
  \/ x \in Getters /\ Unanswered(x)
  \/ pc[x] \in {"wait", "adoptWait"} /\ Unanswered(found[x])

EveryCallReturns ==
  []<>(\A x \in Getters \cup Closers : pc[x] \in {"idle"} \cup Finished \/ HeldUp(x))

\* Once UpdateBrowser has returned, no entry of an older generation is in the
\* map.  The code does not keep this of a tab that is adopted while the
\* browser reconnects: AdoptInsert does not look at the generation again.
NoStaleAfterReconnect ==
  upc = "idle" =>
    \A n \in Names : pages[n] # None => mp[pages[n]].gen = gen

\* Once UpdateBrowser has returned, an entry of an older generation is in the
\* map only by adoption: neither a placeholder nor a page that was being made
\* during the reconnect is left behind or comes back.
StaleOnlyByAdoption ==
  upc = "idle" =>
    \A n \in Names : pages[n] # None /\ mp[pages[n]].gen # gen => Adopted(pages[n])

\* A page the pool created is bound to the connection of the generation it
\* is stamped with, and its lifecycle context is that generation's: IsValid
\* and cancel-on-reconnect then speak of the same thing.
OneGeneration ==
  \A p \in Getters : Created(p) =>
    /\ mp[p].page.conn = mp[p].gen
    /\ mp[p].life \in {mp[p].gen, None}

\* When the page of a creator is published, its connection is the one of the
\* generation its entry is stamped with: a reconnect during creation discards
\* the page.  Holds when the callers of a session take turns; otherwise the
\* entry found under the name in phase 4 may be another creator's.
PatchMatchesGeneration ==
  \A g \in Getters : pc[g] = "finish" => got[g].conn = mp[found[g]].gen

\* A published page that leaves the map through a close, a reap, a destroyed
\* target, a replacement or a failed creation has its lifecycle cancelled, at
\* once or by the reap pass that took it, so no call on it hangs.
CancelOnRemoval ==
  [][upc' = upc =>
       \A p \in Getters :
         /\ Published(p) /\ Mapped(p) /\ ~Mapped(p)' => Dead(p)' \/ p \in victims'
         /\ p \in victims /\ p \notin victims' => Dead(p)']_vars

\* A call that reports success returns an entry that has a page, whichever
\* other calls of the session create, wait, fail or adopt meanwhile.  Not said
\* of the loser of an adoption, which waits for the winner's placeholder and
\* takes it unprobed: Discard releases it before the error is recorded.
SuccessHasPage ==
  \A g \in Getters : pc[g] \in {"ok", "adopted"} => mp[found[g]].page # None

\* The sessions are slots that get one page and keep it until they are free
\* (SessionSlots), for callers of a session that take turns, whatever closes,
\* reaps, dying tabs and reconnects do while a page is made.  Other callers
\* overwrite each other's placeholders (Relock) and pages (PatchOK).
SlotMap ==
  [n \in Names |-> IF pages[n] = None THEN None
                   ELSE [who |-> pages[n], page |-> mp[pages[n]].page]]

Slots ==
  INSTANCE SessionSlots WITH
    Makers <- Getters, Pages <- [tab : Tabs, conn : 0 .. MaxGen], slot <- SlotMap

SessionsAreSlots == Slots!Spec
=============================================================================
