--------------------------- MODULE ContextRegistry ---------------------------
(***************************************************************************)
(* The contexts map of the ContextPool and the BrowserContexts behind it   *)
(* (src/context_pool_internal.go, src/context_pool.go): creation and       *)
(* publication of contexts, discovery of the persistent default context,   *)
(* recovery from a stale default ID, disposal of empty contexts, loss of   *)
(* the connection, and the contexts that ChromeManager.NewContext makes    *)
(* beside the pool (src/chrome_context.go).                                *)
(*                                                                         *)
(* Each caller of getOrCreatePage uses a session of its own; how callers   *)
(* share a session is in PagePool.  A ManagedContext, and the              *)
(* BrowserContext created for it, are named by the caller that allocated   *)
(* it; the default BrowserContext has a new number each time Chrome        *)
(* recreates it.                                                           *)
(***************************************************************************)
EXTENDS Naturals, FiniteSets, SessionRouting

CONSTANTS
  Getters,      \* calls of getOrCreatePage
  Asks,         \* the requests they may be made for
  UserTabs,     \* tabs the operator of the browser opens in the default context
  Renderers,    \* callers of ChromeManager.NewContext (Render, SolveCF)
  MaxRecreate,  \* bound on how often Chrome recreates the default context
  MaxReconnect, \* bound on reconnects
  None

ASSUME BoundAssumption == MaxRecreate \in Nat /\ MaxReconnect \in Nat

Keys == {Default} \cup ({KeyOf(q) : q \in Asks} \ {Invalid})
DefaultIDs == 0 .. MaxRecreate
IDs == Getters \cup Renderers \cup DefaultIDs
Tabs == Getters \cup UserTabs \cup Renderers
ASSUME NoneAssumption == None \notin Nat \cup Asks \cup Keys \cup IDs \cup Tabs
ASSUME DistinctAssumption ==
  /\ Getters \cap Renderers = {} /\ (Getters \cup Renderers) \cap UserTabs = {}
  /\ (Getters \cup Renderers) \cap DefaultIDs = {}

VARIABLES
  incognito,  \* BrowserContexts made by TargetCreateBrowserContext and alive
  def,        \* the default BrowserContext of Chrome
  tab,        \* the BrowserContext of each live page target, or None
  reconnects,
  contexts,   \* ContextPool.contexts: key -> ManagedContext or None
  disposing,  \* the key whose context is being disposed under contextsMu
  id,         \* ManagedContext.ID ("" is None)
  pages,      \* ManagedContext.Pages: the callers whose session is mapped
  own,        \* the tab of each caller's published session, or None
  pc, ask, mc, seen, goal, sent, retried  \* locals of the calls

pool == <<contexts, disposing, id, pages, own>>
chrome == <<incognito, def, tab, reconnects>>
locals == <<ask, mc, seen, goal, sent, retried>>
vars == <<chrome, pool, pc, locals>>

Init ==
  /\ incognito = {} /\ def = 0 /\ reconnects = 0
  /\ tab = [t \in Tabs |-> IF t \in UserTabs THEN 0 ELSE None]
  /\ contexts = [k \in Keys |-> None] /\ disposing = None
  /\ id = [g \in Getters |-> None]
  /\ pages = [g \in Getters |-> {}]
  /\ own = [g \in Getters |-> None]
  /\ pc = [x \in Getters \cup Renderers |-> "idle"]
  /\ ask = [g \in Getters |-> None] /\ mc = [g \in Getters |-> None]
  /\ seen = [g \in Getters |-> {}] /\ goal = [g \in Getters |-> None]
  /\ sent = [g \in Getters |-> None] /\ retried = [g \in Getters |-> FALSE]

Goto(x, l) == pc' = [pc EXCEPT ![x] = l]
Key(g) == IF ask[g] = None THEN None ELSE KeyOf(ask[g])

\* A call returns; its session stays known by ask and mc.
Return(g, l) ==
  /\ Goto(g, l)
  /\ goal' = [goal EXCEPT ![g] = None]
  /\ sent' = [sent EXCEPT ![g] = None]
  /\ retried' = [retried EXCEPT ![g] = FALSE]
  /\ UNCHANGED <<ask, mc, seen>>

\* BrowserContexts that go away take their page targets with them.
Dispose(ids) ==
  /\ incognito' = incognito \ ids
  /\ tab' = [t \in Tabs |-> IF tab[t] \in ids THEN None ELSE tab[t]]

\* Page.close may be given up on, and does not get through on a dead connection.
CloseTab(t) == tab' = tab \/ tab' = [tab EXCEPT ![t] = None]

-----------------------------------------------------------------------------
(* getOrCreateContextSafe.                                                 *)

\* Read lock: the context exists.
FindContext(g) ==
  /\ pc[g] = "idle" /\ disposing = None
  /\ \E q \in Asks : /\ KeyOf(q) # Invalid /\ contexts[KeyOf(q)] # None
                     /\ ask' = [ask EXCEPT ![g] = q]
                     /\ mc' = [mc EXCEPT ![g] = contexts[KeyOf(q)]]
  /\ Goto(g, "reserve")
  /\ UNCHANGED <<chrome, pool, seen, goal, sent, retried>>

\* It does not: the default context is discovered, any other is created.
MissContext(g) ==
  /\ pc[g] = "idle" /\ disposing = None
  /\ \E q \in Asks :
       /\ KeyOf(q) # Invalid /\ contexts[KeyOf(q)] = None
       /\ ask' = [ask EXCEPT ![g] = q]
       /\ Goto(g, IF KeyOf(q) = Default THEN "read" ELSE "createContext")
  /\ mc' = [mc EXCEPT ![g] = g]
  /\ goal' = [goal EXCEPT ![g] = "new"]
  /\ UNCHANGED <<chrome, pool, seen, sent, retried>>

\* contextKey has no context for the request, or its context is not there yet
\* and parseProxy refuses the proxy.
Refused(g) ==
  /\ pc[g] = "idle" /\ disposing = None
  /\ \E q \in Asks :
       KeyOf(q) # Invalid => q.proxy # "" /\ contexts[KeyOf(q)] = None
  /\ Goto(g, "failed")
  /\ UNCHANGED <<chrome, pool, locals>>

CreateContext(g) ==
  /\ pc[g] = "createContext"
  /\ \/ /\ incognito' = incognito \cup {g}
        /\ id' = [id EXCEPT ![g] = g]
        /\ Goto(g, "publish") /\ UNCHANGED locals
     \/ Return(g, "failed") /\ UNCHANGED <<incognito, id>>
  /\ UNCHANGED <<def, tab, reconnects, contexts, disposing, pages, own>>

\* discoverPersistentDefaultCtxID: the page targets are read first, ...
ReadTargets(g) ==
  /\ pc[g] = "read"
  /\ seen' = [seen EXCEPT ![g] = {tab[t] : t \in Tabs} \ {None}]
  /\ Goto(g, "pick")
  /\ UNCHANGED <<chrome, pool, ask, mc, goal, sent, retried>>

\* Mutant of KnownIncognito: contexts without pages are passed over.
KnownIncognitoInUse ==
  {id[contexts[k]] : k \in {j \in Keys \ {Default} :
                              contexts[j] # None /\ pages[contexts[j]] # {}}}

\* ... then knownIncognitoCtxIDs; the first page target outside that set
\* decides (the order of targets is arbitrary).
KnownIncognito == {id[contexts[k]] : k \in {j \in Keys \ {Default} : contexts[j] # None}}

Discovered(g) ==
  IF seen[g] \subseteq KnownIncognito THEN {None} ELSE seen[g] \ KnownIncognito

\* The discovered ID goes where the caller of the discovery puts it: into the
\* new ManagedContext, or (adoptExistingPage, rediscoverDefaultContext) into
\* the published one.  Recovery gives up when nothing changed, adoption when
\* nothing was found.
PickDefault(g) ==
  /\ pc[g] = "pick" /\ disposing = None
  /\ \E i \in Discovered(g) :
       LET same == i = id[mc[g]] IN
       \/ /\ goal[g] = "new"
          /\ id' = [id EXCEPT ![g] = i] /\ Goto(g, "publish")
       \/ /\ goal[g] = "recover"
          /\ id' = [id EXCEPT ![mc[g]] = i]
          /\ Goto(g, IF same THEN "patch" ELSE "create")
       \/ /\ goal[g] = "adopt" /\ i # None
          /\ id' = [id EXCEPT ![mc[g]] = i] /\ Goto(g, "readopt")
       \/ /\ goal[g] = "adopt" /\ i = None
          /\ UNCHANGED id /\ Goto(g, "placeholder")
  /\ seen' = [seen EXCEPT ![g] = {}]
  /\ UNCHANGED <<chrome, contexts, disposing, pages, own, ask, mc, goal, sent, retried>>

\* Write lock, double check: the first caller publishes its context; a later
\* one uses that and disposes the BrowserContext it created itself.
Publish(g) ==
  /\ pc[g] = "publish" /\ disposing = None
  /\ contexts[Key(g)] = None
  /\ contexts' = [contexts EXCEPT ![Key(g)] = g]
  /\ Goto(g, "reserve")
  /\ UNCHANGED <<chrome, disposing, id, pages, own, locals>>

\* Mutant of PublishLost: the loser keeps the BrowserContext it created.
PublishLostKept(g) ==
  /\ pc[g] = "publish" /\ disposing = None
  /\ contexts[Key(g)] # None
  /\ mc' = [mc EXCEPT ![g] = contexts[Key(g)]]
  /\ Goto(g, "reserve")
  /\ UNCHANGED <<chrome, pool, ask, seen, goal, sent, retried>>

PublishLost(g) ==
  /\ pc[g] = "publish" /\ disposing = None
  /\ contexts[Key(g)] # None
  /\ mc' = [mc EXCEPT ![g] = contexts[Key(g)]]
  /\ IF Key(g) # Default THEN Dispose({id[g]}) ELSE UNCHANGED <<incognito, tab>>
  /\ Goto(g, "reserve")
  /\ UNCHANGED <<def, reconnects, pool, ask, seen, goal, sent, retried>>

-----------------------------------------------------------------------------
(* getOrCreatePage.                                                        *)

\* Phase 2: the empty default context looks for a tab to adopt, everything
\* else reserves a placeholder.
TryAdopt(g) ==
  /\ pc[g] = "reserve" /\ Key(g) = Default /\ pages[mc[g]] = {}
  /\ Goto(g, "adopt")
  /\ UNCHANGED <<chrome, pool, locals>>

Reserve(g) ==
  /\ \/ pc[g] = "reserve" /\ ~(Key(g) = Default /\ pages[mc[g]] = {})
     \/ pc[g] = "placeholder"
  /\ pages' = [pages EXCEPT ![mc[g]] = @ \cup {g}]
  /\ Goto(g, "create")
  /\ UNCHANGED <<chrome, contexts, disposing, id, own, locals>>

\* adoptExistingPage: a page target of the context as the pool knows it.
AdoptPage(g) ==
  /\ pc[g] \in {"adopt", "readopt"}
  /\ id[mc[g]] # None
  /\ \E t \in Tabs : /\ tab[t] = id[mc[g]]
                     /\ own' = [own EXCEPT ![g] = t]
  /\ pages' = [pages EXCEPT ![mc[g]] = @ \cup {g}]
  /\ Return(g, "ok")
  /\ UNCHANGED <<chrome, contexts, disposing, id>>

\* No target has the ID: the default context is discovered again.  (The code
\* discovers it twice, first to compare the IDs; that the first answer may differ
\* from the second is kept by leaving open whether this or AdoptFails follows.)
AdoptRediscover(g) ==
  /\ pc[g] = "adopt"
  /\ goal' = [goal EXCEPT ![g] = "adopt"]
  /\ Goto(g, "read")
  /\ UNCHANGED <<chrome, pool, ask, mc, seen, sent, retried>>

AdoptFails(g) ==
  /\ pc[g] \in {"adopt", "readopt"}
  /\ Goto(g, "placeholder")
  /\ UNCHANGED <<chrome, pool, locals>>

\* newPageInContext: mc.ID is copied under mc.Mu, then TargetCreateTarget.
CopyID(g) ==
  /\ pc[g] = "create"
  /\ sent' = [sent EXCEPT ![g] = id[mc[g]]]
  /\ Goto(g, "target")
  /\ UNCHANGED <<chrome, pool, ask, mc, seen, goal, retried>>

Alive(i) == i \in incognito \/ i = def

CreateTarget(g) ==
  /\ pc[g] = "target"
  /\ \/ sent[g] = None /\ tab' = [tab EXCEPT ![g] = def]
     \/ sent[g] # None /\ Alive(sent[g]) /\ tab' = [tab EXCEPT ![g] = sent[g]]
  /\ Goto(g, "patch")
  /\ UNCHANGED <<incognito, def, reconnects, pool, locals>>

\* Mutant of CreateStale: recovery in every context.
CreateStaleAnyContext(g) ==
  /\ pc[g] = "target"
  /\ sent[g] # None /\ ~Alive(sent[g]) /\ ~retried[g]
  /\ Goto(g, "read")
  /\ goal' = [goal EXCEPT ![g] = "recover"]
  /\ retried' = [retried EXCEPT ![g] = TRUE]
  /\ UNCHANGED <<chrome, pool, ask, mc, seen, sent>>

\* createPageWithStaleRecovery: "Failed to find browser context" is retried
\* once, after a new discovery, in the default context only.
CreateStale(g) ==
  /\ pc[g] = "target"
  /\ sent[g] # None /\ ~Alive(sent[g])
  /\ IF Key(g) = Default /\ ~retried[g]
     THEN /\ Goto(g, "read")
          /\ goal' = [goal EXCEPT ![g] = "recover"]
          /\ retried' = [retried EXCEPT ![g] = TRUE]
     ELSE Goto(g, "patch") /\ UNCHANGED <<goal, retried>>
  /\ UNCHANGED <<chrome, pool, ask, mc, seen, sent>>

\* Any other CDP error, or pageCreationTimeout.
CreateError(g) ==
  /\ pc[g] = "target"
  /\ Goto(g, "patch")
  /\ UNCHANGED <<chrome, pool, locals>>

\* Phase 4: publish, give up, or discard when the placeholder is gone.
PatchOK(g) ==
  /\ pc[g] = "patch" /\ g \in pages[mc[g]] /\ tab[g] # None
  /\ own' = [own EXCEPT ![g] = g]
  /\ Return(g, "ok")
  /\ UNCHANGED <<chrome, contexts, disposing, id, pages>>

PatchFails(g) ==
  /\ pc[g] = "patch"
  /\ g \notin pages[mc[g]] \/ tab[g] = None
  /\ CloseTab(g)
  /\ pages' = [pages EXCEPT ![mc[g]] = @ \ {g}]
  /\ Return(g, "failed")
  /\ UNCHANGED <<incognito, def, reconnects, contexts, disposing, id, own>>

Call(g) ==
  \/ CreateContext(g) \/ ReadTargets(g) \/ PickDefault(g) \/ Publish(g)
  \/ PublishLost(g) \/ TryAdopt(g) \/ Reserve(g) \/ AdoptPage(g)
  \/ AdoptRediscover(g) \/ AdoptFails(g) \/ CopyID(g) \/ CreateTarget(g)
  \/ CreateStale(g) \/ CreateError(g) \/ PatchOK(g) \/ PatchFails(g)

-----------------------------------------------------------------------------
(* ClosePage and Reap; Chrome and its other users.                         *)

\* ClosePage phase 3, an eviction by Reap or a destroyed target: the session
\* leaves the map and its tab goes.
EndSession(g) ==
  /\ own[g] # None /\ g \in pages[mc[g]]
  /\ pages' = [pages EXCEPT ![mc[g]] = @ \ {g}]
  /\ own' = [own EXCEPT ![g] = None]
  /\ CloseTab(own[g])
  /\ UNCHANGED <<incognito, def, reconnects, contexts, disposing, id, pc, locals>>

\* The last part of ClosePage and of Reap: under contextsMu, an empty context
\* other than the default one is disposed and removed.  Its Mu is released
\* after the emptiness check.
DisposeStart(k) ==
  /\ disposing = None /\ k # Default
  /\ contexts[k] # None /\ pages[contexts[k]] = {}
  /\ disposing' = k
  /\ UNCHANGED <<chrome, contexts, id, pages, own, pc, locals>>

DisposeEnd ==
  /\ disposing # None
  /\ Dispose({id[contexts[disposing]]})
  /\ contexts' = [contexts EXCEPT ![disposing] = None]
  /\ disposing' = None
  /\ UNCHANGED <<def, reconnects, id, pages, own, pc, locals>>

\* Reconnect and UpdateBrowser: contexts created with DisposeOnDetach died
\* with the old connection; the maps of pages are emptied, the contexts and
\* their IDs stay.
Reconnect ==
  /\ reconnects < MaxReconnect /\ disposing = None
  /\ reconnects' = reconnects + 1
  /\ Dispose(incognito)
  /\ pages' = [g \in Getters |-> {}]
  /\ own' = [g \in Getters |-> None]
  /\ UNCHANGED <<def, contexts, disposing, id, pc, locals>>

\* Chrome disposes and recreates its default context.
DefaultRecreated ==
  /\ def < MaxRecreate
  /\ def' = def + 1
  /\ tab' = [t \in Tabs |-> IF tab[t] = def THEN None ELSE tab[t]]
  /\ UNCHANGED <<incognito, reconnects, pool, pc, locals>>

UserOpens(u) ==
  /\ tab[u] = None /\ tab' = [tab EXCEPT ![u] = def]
  /\ UNCHANGED <<incognito, def, reconnects, pool, pc, locals>>

UserCloses(u) ==
  /\ tab[u] # None /\ tab' = [tab EXCEPT ![u] = None]
  /\ UNCHANGED <<incognito, def, reconnects, pool, pc, locals>>

\* ChromeManager.NewContext, the page of its caller, and the disposal.
NewContext(r) ==
  /\ pc[r] = "idle"
  /\ incognito' = incognito \cup {r}
  /\ tab' = [tab EXCEPT ![r] = r]
  /\ Goto(r, "rendering")
  /\ UNCHANGED <<def, reconnects, pool, locals>>

EndRender(r) ==
  /\ pc[r] = "rendering"
  /\ Dispose({r})
  /\ Goto(r, "done")
  /\ UNCHANGED <<def, reconnects, pool, locals>>

Next ==
  \/ \E g \in Getters : FindContext(g) \/ MissContext(g) \/ Refused(g) \/ Call(g) \/ EndSession(g)
  \/ \E k \in Keys : DisposeStart(k)
  \/ DisposeEnd \/ Reconnect \/ DefaultRecreated
  \/ \E u \in UserTabs : UserOpens(u) \/ UserCloses(u)
  \/ \E r \in Renderers : NewContext(r) \/ EndRender(r)

\* Calls are scheduled, and the reaper passes every 30 s.
Fairness ==
  /\ \A g \in Getters : WF_vars(Call(g))
  /\ \A k \in Keys : WF_vars(DisposeStart(k))
  /\ WF_vars(DisposeEnd)

Spec == Init /\ [][Next]_vars
FairSpec == Spec /\ Fairness

-----------------------------------------------------------------------------
TypeOK ==
  /\ incognito \subseteq Getters \cup Renderers /\ def \in DefaultIDs
  /\ tab \in [Tabs -> IDs \cup {None}] /\ reconnects \in 0 .. MaxReconnect
  /\ contexts \in [Keys -> Getters \cup {None}]
  /\ disposing \in Keys \cup {None}
  /\ id \in [Getters -> IDs \cup {None}]
  /\ pages \in [Getters -> SUBSET Getters]
  /\ own \in [Getters -> Tabs \cup {None}]
  /\ ask \in [Getters -> Asks \cup {None}] /\ mc \in [Getters -> Getters \cup {None}]
  /\ seen \in [Getters -> SUBSET IDs] /\ sent \in [Getters -> IDs \cup {None}]
  /\ goal \in [Getters -> {"new", "adopt", "recover", None}]
  /\ retried \in [Getters -> BOOLEAN]

\* The default context is never bound to a live BrowserContext of the pool's
\* own private and proxy contexts, and no page asked for in default mode lives
\* in one, although GetTargets shows their pages too and other callers create
\* and dispose them meanwhile (the ORDER MATTERS argument of
\* discoverPersistentDefaultCtxID).
DefaultJarIsolated ==
  LET jars == incognito \cap Getters IN
    /\ contexts[Default] # None => id[contexts[Default]] \notin jars
    /\ \A g \in Getters : Key(g) = Default /\ own[g] # None => tab[own[g]] \notin jars

\* A page's traffic leaves through the proxy that was asked for and no other,
\* although its BrowserContext may be one that another request made: with a
\* proxy the page lives in a BrowserContext made with that proxy, without one
\* never in a proxied context of the pool (issue #97).  And nothing asked for as
\* private ever shares its jar with what was asked for to continue.
ToContinue(q) ==
  \/ q.mode \in {"default", "proxy"}
  \/ q.mode = "" /\ (q.session \/ q.useProfile \/ q.reusePage)

JarAsAsked ==
  LET open == {g \in Getters : own[g] # None /\ tab[own[g]] # None}
      jar(g) == tab[own[g]]
  IN /\ \A g \in open :
          LET made == jar(g) \in Getters IN
            /\ ask[g].proxy # "" => made
            /\ made => ask[jar(g)].proxy = ask[g].proxy
     /\ \A g, h \in open :
          ask[g].mode = "private" /\ ToContinue(ask[h]) => jar(g) # jar(h)

\* The stronger claim of the same comment: "Excluding the pool's own incognito
\* contexts guarantees the discovered ID is the persistent default".
DiscoveredIsPersistent ==
  contexts[Default] # None => id[contexts[Default]] \in DefaultIDs \cup {None}

\* A page asked for in a private or proxy context lives in the BrowserContext
\* that was created for that context, whatever was disposed, recreated or
\* rediscovered meanwhile (the isolation gate of createPageWithStaleRecovery).
PrivateStaysPrivate ==
  \A g \in Getters : Key(g) # None /\ Key(g) # Default /\ tab[g] # None => tab[g] = mc[g]

\* Every live BrowserContext of the pool is reachable from the contexts map,
\* or its creator is about to publish or dispose it: none is left behind when
\* callers race to create the same key.
NoContextLeaked ==
  \A g \in incognito \cap Getters :
    pc[g] = "publish" \/ \E k \in Keys : contexts[k] = g /\ id[g] = g

\* A private or proxy context whose BrowserContext died (reconnect) does not
\* stay in the map: it is retired, after which the key works again.
DeadContextsRetired ==
  \A k \in Keys \ {Default} :
    contexts[k] # None /\ id[contexts[k]] \notin incognito ~>
      contexts[k] = None \/ id[contexts[k]] \in incognito
=============================================================================
