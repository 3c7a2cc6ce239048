------------------------ MODULE ContextRegistry_proof ------------------------
(***************************************************************************)
(* Proofs about SessionRouting, for every mode and every proxy: which      *)
(* requests may share a context; and about ContextRegistry, which hands    *)
(* contexts out by these keys, for any requests and any number of          *)
(* callers, renderers, user tabs, reconnects and recreations of Chrome's   *)
(* default context: the BrowserContexts of the pool's own contexts never   *)
(* serve the default context, are never left behind, and serve only what   *)
(* was asked for.                                                          *)
(***************************************************************************)
EXTENDS ContextRegistry, TLAPS

-----------------------------------------------------------------------------
(* Keys.                                                                   *)

\* The key of a context says the mode it is for and the proxy.
LEMMA KeySays ==
  ASSUME NEW mode, NEW proxy, contextKey(mode, proxy) # Invalid
  PROVE  \/ /\ mode = "default" /\ proxy = ""
            /\ contextKey(mode, proxy) = <<"default", proxy>>
         \/ /\ mode \in {"private", ""}
            /\ contextKey(mode, proxy) \in {<<"private", proxy>>, <<"private-proxy", proxy>>}
         \/ /\ mode = "proxy" /\ proxy # ""
            /\ contextKey(mode, proxy) = <<"proxy", proxy>>
  <1>1. CASE mode = "default"
    <2>1. CASE proxy = "" BY <1>1, <2>1 DEF contextKey, Default
    <2>2. CASE proxy # "" BY <1>1, <2>2 DEF contextKey, Default
    <2> QED BY <2>1, <2>2
  <1>2. CASE mode \in {"private", ""}
    <2>1. CASE proxy = "" BY <1>2, <2>1 DEF contextKey
    <2>2. CASE proxy # "" BY <1>2, <2>2 DEF contextKey
    <2> QED BY <2>1, <2>2
  <1>3. CASE mode = "proxy" BY <1>3 DEF contextKey
  <1>4. CASE mode \notin {"default", "private", "", "proxy"} BY <1>4 DEF contextKey
  <1> QED BY <1>1, <1>2, <1>3, <1>4

\* The same of the key of a request.
LEMMA RequestKeySays ==
  ASSUME NEW q, KeyOf(q) # Invalid
  PROVE  /\ KeyOf(q)[2] = q.proxy
         /\ resolveSessionParams(q) = "private" =>
              KeyOf(q)[1] \in {"private", "private-proxy"}
         /\ resolveSessionParams(q) \in {"default", "proxy"} =>
              KeyOf(q)[1] \in {"default", "proxy"}
  <1> DEFINE mode == resolveSessionParams(q)
  <1> DEFINE key == contextKey(mode, q.proxy)
  <1>1. KeyOf(q) = key /\ resolveSessionParams(q) = mode BY DEF KeyOf
  <1>2. \/ mode = "default" /\ key = <<"default", q.proxy>>
        \/ mode \in {"private", ""} /\ key \in {<<"private", q.proxy>>, <<"private-proxy", q.proxy>>}
        \/ mode = "proxy" /\ key = <<"proxy", q.proxy>>
    <2>1. contextKey(mode, q.proxy) # Invalid BY <1>1
    <2> HIDE DEF mode
    <2> QED BY <2>1, KeySays
  <1> HIDE DEF mode, key
  <1>3. CASE mode = "default" /\ key = <<"default", q.proxy>> BY <1>1, <1>3
  <1>4. CASE mode \in {"private", ""} /\ key = <<"private", q.proxy>>
    <2>1. mode \notin {"default", "proxy"} BY <1>4
    <2>2. KeyOf(q) = <<"private", q.proxy>> BY <1>1, <1>4
    <2>3. KeyOf(q)[1] = "private" /\ KeyOf(q)[2] = q.proxy BY <2>2
    <2>4. resolveSessionParams(q) \notin {"default", "proxy"} BY <1>1, <2>1
    <2> QED BY <2>3, <2>4
  <1>5. CASE mode \in {"private", ""} /\ key = <<"private-proxy", q.proxy>>
    <2>1. mode \notin {"default", "proxy"} BY <1>5
    <2>2. KeyOf(q) = <<"private-proxy", q.proxy>> BY <1>1, <1>5
    <2>3. KeyOf(q)[1] = "private-proxy" /\ KeyOf(q)[2] = q.proxy BY <2>2
    <2>4. resolveSessionParams(q) \notin {"default", "proxy"} BY <1>1, <2>1
    <2> QED BY <2>3, <2>4
  <1>6. CASE mode = "proxy" /\ key = <<"proxy", q.proxy>> BY <1>1, <1>6
  <1> QED BY <1>2, <1>3, <1>4, <1>5, <1>6

\* Requests share a context only if they ask for the same proxy, or for none: a
\* proxy is never dropped and never somebody else's (issue #97).
THEOREM SharedKeySharedProxy ==
  ASSUME NEW q, NEW r, KeyOf(q) # Invalid, KeyOf(q) = KeyOf(r)
  PROVE  q.proxy = r.proxy
  <1>1. KeyOf(q)[2] = q.proxy BY RequestKeySays
  <1>2. KeyOf(r)[2] = r.proxy BY RequestKeySays
  <1> QED BY <1>1, <1>2

\* A request for private work never shares a context with one that is to
\* continue a session, whatever their proxies.
THEOREM PrivateWorkApart ==
  ASSUME NEW q, NEW r, q.mode = "private", KeyOf(q) # Invalid,
         resolveSessionParams(r) \in {"default", "proxy"}
  PROVE  KeyOf(q) # KeyOf(r)
  <1>1. resolveSessionParams(q) = "private" BY DEF resolveSessionParams
  <1>2. KeyOf(q)[1] \in {"private", "private-proxy"} BY <1>1, RequestKeySays
  <1>3. SUFFICES ASSUME KeyOf(q) = KeyOf(r) PROVE FALSE OBVIOUS
  <1>4. KeyOf(r)[1] \in {"default", "proxy"} BY <1>3, RequestKeySays
  <1> QED BY <1>2, <1>3, <1>4


-----------------------------------------------------------------------------
(* Types.                                                                  *)

Steps == {"idle", "createContext", "read", "pick", "publish", "reserve", "adopt",
          "readopt", "placeholder", "create", "target", "patch", "ok", "failed",
          "rendering", "done"}

Typed == TypeOK /\ pc \in [Getters \cup Renderers -> Steps]

\* What a call knows of its request and of the context it works on.
Asked ==
  \A g \in Getters :
    /\ ask[g] # None => KeyOf(ask[g]) # Invalid /\ mc[g] \in Getters
    /\ ask[g] = None => id[g] = None /\ sent[g] = None
    /\ pc[g] = "idle" => ask[g] = None
    /\ pc[g] \notin {"idle", "failed"} => ask[g] # None

\* Discovery and adoption are for the default context only, and a caller that
\* makes a context works on its own.
DefaultOnly ==
  \A g \in Getters :
    /\ pc[g] = "createContext" => Key(g) # Default
    /\ pc[g] \in {"read", "pick", "adopt", "readopt", "placeholder"} => Key(g) = Default
    /\ pc[g] \in {"createContext", "publish"} => mc[g] = g
    /\ pc[g] \in {"read", "pick"} /\ goal[g] = "new" => mc[g] = g

\* A caller and the creator of its context asked for the same key.
SameKey ==
  \A g \in Getters : ask[g] # None => ask[mc[g]] # None /\ Key(mc[g]) = Key(g)

\* A caller that has not put a context into the map.
Unpublished(g) ==
  \/ pc[g] \in {"idle", "createContext", "publish"}
  \/ pc[g] \in {"read", "pick"} /\ goal[g] = "new"

\* The map holds published contexts under their own keys, and a context of the
\* pool's own is bound to the BrowserContext that was created for it.
MapSays ==
  \A k \in Keys : contexts[k] # None =>
    /\ Key(contexts[k]) = k /\ ~Unpublished(contexts[k])
    /\ k # Default => id[contexts[k]] = contexts[k]

\* A caller past getOrCreateContextSafe works on a published context, that may
\* have been disposed since.
Settled(g) ==
  \/ pc[g] \in {"reserve", "adopt", "readopt", "placeholder", "create", "target", "patch", "ok"}
  \/ pc[g] \in {"read", "pick"} /\ goal[g] # "new"

SettledIn ==
  \A g \in Getters : Settled(g) =>
    /\ ~Unpublished(mc[g])
    /\ Key(g) # Default => id[mc[g]] = mc[g]

\* Only the default context is ever bound to a BrowserContext it did not create.
OwnID ==
  \A g \in Getters : ask[g] # None /\ Key(g) # Default =>
    /\ id[g] \in {None, g} /\ (pc[g] = "publish" => id[g] = g)
    /\ pc[g] = "target" => sent[g] = mc[g]

DisposingMapped == disposing # None => disposing # Default /\ contexts[disposing] # None

CallInv ==
  Asked /\ DefaultOnly /\ SameKey /\ MapSays /\ SettledIn /\ OwnID /\ DisposingMapped

\* A call in progress has a request, a key and a context.
LEMMA CallKnows ==
  ASSUME Typed, CallInv, NEW g \in Getters, pc[g] \notin {"idle", "failed"}
  PROVE  ask[g] \in Asks /\ Key(g) \in Keys /\ mc[g] \in Getters
  BY DEF Typed, TypeOK, CallInv, Asked, Key, Keys

\* Every step keeps the types.
LEMMA TypedStep ==
  ASSUME Typed, CallInv, Next
  PROVE  Typed'
<1> USE NoneAssumption, DistinctAssumption, BoundAssumption
<1> USE DEF Typed, TypeOK, Steps, chrome, pool, locals, Goto, IDs, Tabs, DefaultIDs
<1>1. ASSUME NEW g \in Getters, FindContext(g) PROVE Typed'
  BY <1>1 DEF FindContext, Keys
<1>2. ASSUME NEW g \in Getters, MissContext(g) PROVE Typed'
  BY <1>2 DEF MissContext
<1>3. ASSUME NEW g \in Getters, Refused(g) PROVE Typed'
  BY <1>3 DEF Refused
<1>4. ASSUME NEW g \in Getters, CreateContext(g) PROVE Typed'
  <2>1. CASE Return(g, "failed") /\ UNCHANGED <<incognito, id>>
    BY <1>4, <2>1 DEF CreateContext, Return
  <2>2. CASE incognito' = incognito \cup {g} /\ id' = [id EXCEPT ![g] = g]
             /\ Goto(g, "publish") /\ UNCHANGED locals
    BY <1>4, <2>2 DEF CreateContext
  <2> QED BY <1>4, <2>1, <2>2 DEF CreateContext
<1>5. ASSUME NEW g \in Getters, ReadTargets(g) PROVE Typed'
  BY <1>5 DEF ReadTargets
<1>6. ASSUME NEW g \in Getters, PickDefault(g) PROVE Typed'
  <2>1. ask[g] \in Asks /\ Key(g) \in Keys /\ mc[g] \in Getters
    BY <1>6, CallKnows DEF PickDefault
  <2> QED BY <1>6, <2>1 DEF PickDefault, Discovered, KnownIncognito
<1>7. ASSUME NEW g \in Getters, Publish(g) PROVE Typed'
  <2>1. ask[g] \in Asks /\ Key(g) \in Keys /\ mc[g] \in Getters
    BY <1>7, CallKnows DEF Publish
  <2> QED BY <1>7, <2>1 DEF Publish
<1>8. ASSUME NEW g \in Getters, PublishLost(g) PROVE Typed'
  <2>1. ask[g] \in Asks /\ Key(g) \in Keys /\ mc[g] \in Getters
    BY <1>8, CallKnows DEF PublishLost
  <2> QED BY <1>8, <2>1 DEF PublishLost, Dispose
<1>9. ASSUME NEW g \in Getters, TryAdopt(g) PROVE Typed'
  BY <1>9 DEF TryAdopt
<1>10. ASSUME NEW g \in Getters, Reserve(g) PROVE Typed'
  <2>1. ask[g] \in Asks /\ Key(g) \in Keys /\ mc[g] \in Getters
    BY <1>10, CallKnows DEF Reserve
  <2> QED BY <1>10, <2>1 DEF Reserve
<1>11. ASSUME NEW g \in Getters, AdoptPage(g) PROVE Typed'
  <2>1. ask[g] \in Asks /\ Key(g) \in Keys /\ mc[g] \in Getters
    BY <1>11, CallKnows DEF AdoptPage
  <2> QED BY <1>11, <2>1 DEF AdoptPage, Return
<1>12. ASSUME NEW g \in Getters, AdoptRediscover(g) PROVE Typed'
  BY <1>12 DEF AdoptRediscover
<1>13. ASSUME NEW g \in Getters, AdoptFails(g) PROVE Typed'
  BY <1>13 DEF AdoptFails
<1>14. ASSUME NEW g \in Getters, CopyID(g) PROVE Typed'
  <2>1. ask[g] \in Asks /\ Key(g) \in Keys /\ mc[g] \in Getters
    BY <1>14, CallKnows DEF CopyID
  <2> QED BY <1>14, <2>1 DEF CopyID
<1>15. ASSUME NEW g \in Getters, CreateTarget(g) PROVE Typed'
  BY <1>15 DEF CreateTarget
<1>16. ASSUME NEW g \in Getters, CreateStale(g) PROVE Typed'
  <2>1. UNCHANGED <<chrome, pool, ask, mc, seen, sent>>
    BY <1>16 DEF CreateStale
  <2>2. CASE /\ pc' = [pc EXCEPT ![g] = "read"] /\ goal' = [goal EXCEPT ![g] = "recover"]
             /\ retried' = [retried EXCEPT ![g] = TRUE]
    BY <2>1, <2>2
  <2>3. CASE pc' = [pc EXCEPT ![g] = "patch"] /\ UNCHANGED <<goal, retried>>
    BY <2>1, <2>3
  <2> QED BY <1>16, <2>2, <2>3 DEF CreateStale
<1>17. ASSUME NEW g \in Getters, CreateError(g) PROVE Typed'
  BY <1>17 DEF CreateError
<1>18. ASSUME NEW g \in Getters, PatchOK(g) PROVE Typed'
  BY <1>18 DEF PatchOK, Return
<1>19. ASSUME NEW g \in Getters, PatchFails(g) PROVE Typed'
  <2>1. ask[g] \in Asks /\ Key(g) \in Keys /\ mc[g] \in Getters
    BY <1>19, CallKnows DEF PatchFails
  <2> QED BY <1>19, <2>1 DEF PatchFails, Return, CloseTab
<1>20. ASSUME NEW g \in Getters, EndSession(g) PROVE Typed'
  <2>1. pages' \in [Getters -> SUBSET Getters] BY <1>20 DEF EndSession
  <2>2. own' \in [Getters -> Tabs \cup {None}] BY <1>20 DEF EndSession
  <2>3. tab' \in [Tabs -> IDs \cup {None}] BY <1>20 DEF EndSession, CloseTab
  <2>4. UNCHANGED <<incognito, def, reconnects, contexts, disposing, id, pc, locals>>
    BY <1>20 DEF EndSession
  <2> QED BY <2>1, <2>2, <2>3, <2>4
<1>21. ASSUME NEW k \in Keys, DisposeStart(k) PROVE Typed'
  BY <1>21 DEF DisposeStart
<1>22. CASE DisposeEnd
  BY <1>22 DEF DisposeEnd, Dispose
<1>23. CASE Reconnect
  BY <1>23 DEF Reconnect, Dispose
<1>24. CASE DefaultRecreated
  BY <1>24 DEF DefaultRecreated
<1>25. ASSUME NEW u \in UserTabs, UserOpens(u) PROVE Typed'
  BY <1>25 DEF UserOpens
<1>26. ASSUME NEW u \in UserTabs, UserCloses(u) PROVE Typed'
  BY <1>26 DEF UserCloses
<1>27. ASSUME NEW r \in Renderers, NewContext(r) PROVE Typed'
  BY <1>27 DEF NewContext
<1>28. ASSUME NEW r \in Renderers, EndRender(r) PROVE Typed'
  BY <1>28 DEF EndRender, Dispose
<1> QED
  <2> HIDE DEF Typed
  <2> QED
    BY <1>1, <1>2, <1>3, <1>4, <1>5, <1>6, <1>7, <1>8, <1>9, <1>10, <1>11, <1>12, <1>13,
       <1>14, <1>15, <1>16, <1>17, <1>18, <1>19, <1>20, <1>21, <1>22, <1>23, <1>24, <1>25,
       <1>26, <1>27, <1>28 DEF Next, Call

\* Every step keeps what calls know.
LEMMA CallsStep ==
  ASSUME Typed, CallInv, Next
  PROVE  CallInv'
<1> USE NoneAssumption, DistinctAssumption, BoundAssumption
<1> USE DEF Typed, TypeOK, chrome, pool, locals, Goto, CallInv, Asked, DefaultOnly,
            SameKey, MapSays, Unpublished,
            Settled, SettledIn, OwnID, DisposingMapped, Key
<1>1. ASSUME NEW g \in Getters, FindContext(g) PROVE CallInv'
  <2>1. PICK q \in Asks :
          /\ KeyOf(q) # Invalid /\ contexts[KeyOf(q)] # None
          /\ ask' = [ask EXCEPT ![g] = q] /\ mc' = [mc EXCEPT ![g] = contexts[KeyOf(q)]]
    BY <1>1 DEF FindContext
  <2>2. /\ pc[g] = "idle" /\ pc' = [pc EXCEPT ![g] = "reserve"]
        /\ UNCHANGED <<contexts, disposing, id, seen, goal, sent>>
    BY <1>1 DEF FindContext
  <2>3. KeyOf(q) \in Keys /\ contexts[KeyOf(q)] \in Getters /\ q # None
    BY <2>1 DEF Keys
  <2>4. Asked'
    BY <2>1, <2>2, <2>3
  <2>5. DefaultOnly'
    BY <2>1, <2>2, <2>3
  <2>6. SameKey'
    BY <2>1, <2>2, <2>3
  <2>7. MapSays'
    BY <2>1, <2>2, <2>3
  <2>8. SettledIn'
    BY <2>1, <2>2, <2>3
  <2>9. OwnID'
    BY <2>1, <2>2, <2>3
  <2>10. DisposingMapped'
    BY <2>1, <2>2, <2>3
  <2> QED BY <2>4, <2>5, <2>6, <2>7, <2>8, <2>9, <2>10
<1>2. ASSUME NEW g \in Getters, MissContext(g) PROVE CallInv'
  BY <1>2 DEF MissContext
<1>3. ASSUME NEW g \in Getters, Refused(g) PROVE CallInv'
  <2>1. /\ pc[g] = "idle" /\ pc' = [pc EXCEPT ![g] = "failed"]
        /\ UNCHANGED <<ask, mc, contexts, disposing, id, seen, goal, sent>>
    BY <1>3 DEF Refused
  <2>2. Asked' /\ DefaultOnly' /\ SameKey' /\ MapSays'
    BY <2>1
  <2>3. SettledIn' /\ OwnID' /\ DisposingMapped'
    BY <2>1
  <2> QED BY <2>2, <2>3
<1>4. ASSUME NEW g \in Getters, CreateContext(g) PROVE CallInv'
  BY <1>4 DEF CreateContext, Return
<1>5. ASSUME NEW g \in Getters, ReadTargets(g) PROVE CallInv'
  BY <1>5 DEF ReadTargets
<1>6. ASSUME NEW g \in Getters, PickDefault(g) PROVE CallInv'
  <2>1. PICK i : \/ /\ goal[g] = "new" /\ id' = [id EXCEPT ![g] = i]
                    /\ pc' = [pc EXCEPT ![g] = "publish"]
                 \/ /\ goal[g] = "recover" /\ id' = [id EXCEPT ![mc[g]] = i]
                    /\ pc' \in {[pc EXCEPT ![g] = "patch"], [pc EXCEPT ![g] = "create"]}
                 \/ /\ goal[g] = "adopt" /\ id' = [id EXCEPT ![mc[g]] = i]
                    /\ pc' = [pc EXCEPT ![g] = "readopt"]
                 \/ /\ goal[g] = "adopt" /\ id' = id
                    /\ pc' = [pc EXCEPT ![g] = "placeholder"]
    BY <1>6 DEF PickDefault
  <2>2. pc[g] = "pick" /\ UNCHANGED <<ask, mc, contexts, disposing, goal, sent>>
    BY <1>6 DEF PickDefault
  <2>3. /\ Key(g) = Default /\ ask[g] # None /\ mc[g] \in Getters
        /\ ask[mc[g]] # None /\ Key(mc[g]) = Default
    BY <2>2
  <2>4. \A x \in Getters : Key(x) # Default => id'[x] = id[x]
    BY <2>1, <2>2, <2>3
  <2>5. \A x \in Getters : ~Unpublished(x) => ~Unpublished(x)'
    BY <2>1, <2>2
  <2>6. Asked'
    BY <2>1, <2>2, <2>3, <2>4, <2>5
  <2>7. DefaultOnly'
    BY <2>1, <2>2, <2>3, <2>4, <2>5
  <2>8. SameKey'
    BY <2>1, <2>2, <2>3, <2>4, <2>5
  <2>9. MapSays'
    BY <2>1, <2>2, <2>3, <2>4, <2>5
  <2>10. SettledIn'
    BY <2>1, <2>2, <2>3, <2>4, <2>5
  <2>11. OwnID'
    BY <2>1, <2>2, <2>3, <2>4, <2>5
  <2>12. DisposingMapped'
    BY <2>1, <2>2, <2>3, <2>4, <2>5
  <2> QED BY <2>6, <2>7, <2>8, <2>9, <2>10, <2>11, <2>12
<1>7. ASSUME NEW g \in Getters, Publish(g) PROVE CallInv'
  BY <1>7 DEF Publish
<1>8. ASSUME NEW g \in Getters, PublishLost(g) PROVE CallInv'
  <2>1. /\ pc[g] = "publish" /\ contexts[Key(g)] # None
        /\ mc' = [mc EXCEPT ![g] = contexts[Key(g)]] /\ pc' = [pc EXCEPT ![g] = "reserve"]
        /\ UNCHANGED <<ask, contexts, disposing, id, goal, sent>>
    BY <1>8 DEF PublishLost
  <2>2. ask[g] # None /\ Key(g) \in Keys /\ contexts[Key(g)] \in Getters
    BY <2>1, CallKnows
  <2>3. Asked'
    BY <2>1, <2>2
  <2>4. DefaultOnly'
    BY <2>1, <2>2
  <2>5. SameKey'
    BY <2>1, <2>2
  <2>6. MapSays'
    BY <2>1, <2>2
  <2>7. SettledIn'
    BY <2>1, <2>2
  <2>8. OwnID'
    BY <2>1, <2>2
  <2>9. DisposingMapped'
    BY <2>1, <2>2
  <2> QED BY <2>3, <2>4, <2>5, <2>6, <2>7, <2>8, <2>9
<1>9. ASSUME NEW g \in Getters, TryAdopt(g) PROVE CallInv'
  BY <1>9 DEF TryAdopt
<1>10. ASSUME NEW g \in Getters, Reserve(g) PROVE CallInv'
  BY <1>10 DEF Reserve
<1>11. ASSUME NEW g \in Getters, AdoptPage(g) PROVE CallInv'
  BY <1>11 DEF AdoptPage, Return
<1>12. ASSUME NEW g \in Getters, AdoptRediscover(g) PROVE CallInv'
  BY <1>12 DEF AdoptRediscover
<1>13. ASSUME NEW g \in Getters, AdoptFails(g) PROVE CallInv'
  BY <1>13 DEF AdoptFails
<1>14. ASSUME NEW g \in Getters, CopyID(g) PROVE CallInv'
  BY <1>14 DEF CopyID
<1>15. ASSUME NEW g \in Getters, CreateTarget(g) PROVE CallInv'
  BY <1>15 DEF CreateTarget
<1>16. ASSUME NEW g \in Getters, CreateStale(g) PROVE CallInv'
  BY <1>16 DEF CreateStale
<1>17. ASSUME NEW g \in Getters, CreateError(g) PROVE CallInv'
  BY <1>17 DEF CreateError
<1>18. ASSUME NEW g \in Getters, PatchOK(g) PROVE CallInv'
  BY <1>18 DEF PatchOK, Return
<1>19. ASSUME NEW g \in Getters, PatchFails(g) PROVE CallInv'
  BY <1>19 DEF PatchFails, Return, CloseTab
<1>20. ASSUME NEW g \in Getters, EndSession(g) PROVE CallInv'
  BY <1>20 DEF EndSession, CloseTab
<1>21. ASSUME NEW k \in Keys, DisposeStart(k) PROVE CallInv'
  BY <1>21 DEF DisposeStart
<1>22. CASE DisposeEnd
  BY <1>22 DEF DisposeEnd, Dispose
<1>23. CASE Reconnect
  BY <1>23 DEF Reconnect, Dispose
<1>24. CASE DefaultRecreated
  BY <1>24 DEF DefaultRecreated
<1>25. ASSUME NEW u \in UserTabs, UserOpens(u) PROVE CallInv'
  BY <1>25 DEF UserOpens
<1>26. ASSUME NEW u \in UserTabs, UserCloses(u) PROVE CallInv'
  BY <1>26 DEF UserCloses
<1>27. ASSUME NEW r \in Renderers, NewContext(r) PROVE CallInv'
  BY <1>27 DEF NewContext
<1>28. ASSUME NEW r \in Renderers, EndRender(r) PROVE CallInv'
  BY <1>28 DEF EndRender, Dispose
<1> QED
  <2> HIDE DEF CallInv
  <2> QED
    BY <1>1, <1>2, <1>3, <1>4, <1>5, <1>6, <1>7, <1>8, <1>9, <1>10, <1>11, <1>12, <1>13,
       <1>14, <1>15, <1>16, <1>17, <1>18, <1>19, <1>20, <1>21, <1>22, <1>23, <1>24, <1>25,
       <1>26, <1>27, <1>28 DEF Next, Call

-----------------------------------------------------------------------------
(* Which BrowserContext an ID stands for.                                  *)

\* An ID is not that of a live BrowserContext of the pool's own, and cannot
\* become one: its creator is past the creation.
WasMade(i) ==
  i \in Getters => i \notin incognito /\ pc[i] \notin {"idle", "createContext"}

\* The default context is bound to no BrowserContext of the pool's own, and no
\* page of the default context is requested in one.
DefaultID ==
  \A g \in Getters : Key(g) = Default => WasMade(id[g]) /\ WasMade(sent[g])

\* A discovery under way has seen only BrowserContexts that knownIncognitoCtxIDs
\* will exclude, or that are dead by then (ORDER MATTERS: the targets are read
\* before the map).
SeenMade ==
  \A g \in Getters : \A i \in seen[g] \cap Getters :
    /\ pc[i] \notin {"idle", "createContext"}
    /\ i \in incognito => \E k \in Keys \ {Default} : contexts[k] = i

IncognitoAsked ==
  \A g \in incognito \cap Getters : ask[g] # None /\ Key(g) # Default

\* A page target in a BrowserContext of the pool's own is in a live one, and
\* that is in the map.
TabPublished ==
  \A t \in Tabs : tab[t] \in Getters =>
    tab[t] \in incognito /\ \E k \in Keys \ {Default} : contexts[k] = tab[t]

JarInv == DefaultID /\ SeenMade /\ IncognitoAsked /\ TabPublished /\ NoContextLeaked

\* Every step keeps what IDs stand for.
LEMMA JarsStep ==
  ASSUME Typed, CallInv, JarInv, Next
  PROVE  JarInv'
<1> USE NoneAssumption, DistinctAssumption, BoundAssumption
<1> USE DEF Typed, TypeOK, chrome, pool, locals, Goto, IDs, Tabs, DefaultIDs, JarInv,
            WasMade, DefaultID, SeenMade,
            IncognitoAsked, TabPublished, NoContextLeaked, Key
<1>1. ASSUME NEW g \in Getters, FindContext(g) PROVE JarInv'
  BY <1>1 DEF FindContext, CallInv, Asked, DefaultOnly, SameKey, MapSays, Unpublished,
              Settled, SettledIn, OwnID, DisposingMapped
<1>2. ASSUME NEW g \in Getters, MissContext(g) PROVE JarInv'
  BY <1>2 DEF MissContext, CallInv, Asked, DefaultOnly, SameKey, MapSays, Unpublished,
              Settled, SettledIn, OwnID, DisposingMapped
<1>3. ASSUME NEW g \in Getters, Refused(g) PROVE JarInv'
  <2>1. pc[g] = "idle" /\ pc' = [pc EXCEPT ![g] = "failed"] /\ UNCHANGED <<chrome, pool, locals>>
    BY <1>3 DEF Refused
  <2> QED BY <2>1
<1>4. ASSUME NEW g \in Getters, CreateContext(g) PROVE JarInv'
  <2>1. Key(g) # Default /\ Key(g) # None /\ pc[g] = "createContext"
    BY <1>4 DEF CreateContext, CallInv, Asked, DefaultOnly, Keys
  <2>2. \/ /\ incognito' = incognito \cup {g} /\ id' = [id EXCEPT ![g] = g]
           /\ pc' = [pc EXCEPT ![g] = "publish"] /\ UNCHANGED sent
        \/ /\ pc' = [pc EXCEPT ![g] = "failed"] /\ UNCHANGED <<incognito, id>>
           /\ sent' = [sent EXCEPT ![g] = None]
    BY <1>4 DEF CreateContext, Return
  <2>3. UNCHANGED <<ask, seen, tab, contexts>>
    BY <1>4 DEF CreateContext, Return
  <2>4. ask[g] # None
    BY <1>4 DEF CreateContext, CallInv, Asked
  <2>5. \A k \in Keys : contexts[k] # g
    BY <2>1 DEF CallInv, MapSays, Unpublished
  <2>6. DefaultID'
    BY <2>1, <2>2, <2>3, <2>4, <2>5
  <2>7. SeenMade'
    BY <2>1, <2>2, <2>3, <2>4, <2>5
  <2>8. IncognitoAsked'
    BY <2>1, <2>2, <2>3, <2>4, <2>5
  <2>9. TabPublished'
    BY <2>1, <2>2, <2>3, <2>4, <2>5
  <2>10. NoContextLeaked'
    BY <2>1, <2>2, <2>3, <2>4, <2>5
  <2> QED BY <2>6, <2>7, <2>8, <2>9, <2>10
<1>5. ASSUME NEW g \in Getters, ReadTargets(g) PROVE JarInv'
  BY <1>5 DEF ReadTargets, CallInv, Asked, DefaultOnly, SameKey, MapSays, Unpublished,
              Settled, SettledIn, OwnID, DisposingMapped
<1>6. ASSUME NEW g \in Getters, PickDefault(g) PROVE JarInv'
  <2>1. PICK i \in Discovered(g) :
          /\ id' \in {[id EXCEPT ![g] = i], [id EXCEPT ![mc[g]] = i], id}
          /\ \E l \in {"publish", "patch", "create", "readopt", "placeholder"} :
               pc' = [pc EXCEPT ![g] = l]
    BY <1>6 DEF PickDefault
  <2>2. /\ pc[g] = "pick" /\ seen' = [seen EXCEPT ![g] = {}]
        /\ UNCHANGED <<incognito, tab, ask, mc, contexts, sent>>
    BY <1>6 DEF PickDefault
  <2>3. /\ Key(g) = Default /\ mc[g] \in Getters /\ Key(mc[g]) = Default
    BY <2>2 DEF CallInv, Asked, DefaultOnly, SameKey
  <2>4. i \in Getters => i \in seen[g] /\ i \notin incognito
    <3>1. ASSUME i \in Getters PROVE i \in seen[g] /\ i \notin KnownIncognito
      BY <2>1, <3>1 DEF Discovered
    <3>2. ASSUME NEW k \in Keys \ {Default}, contexts[k] = i, i \in Getters
          PROVE i \in KnownIncognito
      <4>1. id[contexts[k]] = i BY <3>2 DEF CallInv, MapSays
      <4> QED BY <3>2, <4>1 DEF KnownIncognito
    <3> QED BY <3>1, <3>2
  <2>5. WasMade(i)
    BY <2>4
  <2>6. \A x \in Getters : Key(x) # Default => id'[x] = id[x]
    BY <2>1, <2>2, <2>3
  <2>7. \A x \in Getters : id'[x] \in {id[x], i}
    BY <2>1
  <2>8. \A x \in Getters : pc'[x] \in {"idle", "createContext"} => pc'[x] = pc[x]
    BY <2>1
  <2>9. \A x \in Getters : pc[x] = "publish" => pc'[x] = "publish"
    BY <2>1, <2>2
  <2>10. \A j : WasMade(j) => WasMade(j)'
    BY <2>2, <2>8
  <2>11. DefaultID'
    BY <2>2, <2>3, <2>5, <2>6, <2>7, <2>8, <2>9, <2>10
  <2>12. SeenMade'
    BY <2>2, <2>3, <2>5, <2>6, <2>7, <2>8, <2>9, <2>10
  <2>13. IncognitoAsked'
    BY <2>2, <2>3, <2>5, <2>6, <2>7, <2>8, <2>9, <2>10
  <2>14. TabPublished'
    BY <2>2, <2>3, <2>5, <2>6, <2>7, <2>8, <2>9, <2>10
  <2>15. NoContextLeaked'
    BY <2>2, <2>3, <2>5, <2>6, <2>7, <2>8, <2>9, <2>10
  <2> QED BY <2>11, <2>12, <2>13, <2>14, <2>15
<1>7. ASSUME NEW g \in Getters, Publish(g) PROVE JarInv'
  <2>1. /\ pc[g] = "publish" /\ contexts[Key(g)] = None /\ Key(g) \in Keys
        /\ pc' = [pc EXCEPT ![g] = "reserve"] /\ contexts' = [contexts EXCEPT ![Key(g)] = g]
        /\ UNCHANGED <<incognito, tab, id, ask, seen, sent>>
    BY <1>7, CallKnows DEF Publish
  <2>2. Key(g) # Default => id[g] = g
    BY <2>1 DEF CallInv, OwnID, Asked
  <2>3. \A k \in Keys : contexts[k] # None => contexts'[k] = contexts[k]
    BY <2>1
  <2>4. DefaultID'
    BY <2>1, <2>2, <2>3
  <2>5. SeenMade'
    BY <2>1, <2>2, <2>3
  <2>6. IncognitoAsked'
    BY <2>1, <2>2, <2>3
  <2>7. TabPublished'
    BY <2>1, <2>2, <2>3
  <2>8. NoContextLeaked'
    BY <2>1, <2>2, <2>3
  <2> QED BY <2>4, <2>5, <2>6, <2>7, <2>8
<1>8. ASSUME NEW g \in Getters, PublishLost(g) PROVE JarInv'
  BY <1>8 DEF PublishLost, Dispose, CallInv, Asked, DefaultOnly, SameKey, MapSays,
              Unpublished, Settled, SettledIn, OwnID, DisposingMapped
<1>9. ASSUME NEW g \in Getters, TryAdopt(g) PROVE JarInv'
  BY <1>9 DEF TryAdopt
<1>10. ASSUME NEW g \in Getters, Reserve(g) PROVE JarInv'
  BY <1>10 DEF Reserve
<1>11. ASSUME NEW g \in Getters, AdoptPage(g) PROVE JarInv'
  BY <1>11 DEF AdoptPage, Return
<1>12. ASSUME NEW g \in Getters, AdoptRediscover(g) PROVE JarInv'
  BY <1>12 DEF AdoptRediscover
<1>13. ASSUME NEW g \in Getters, AdoptFails(g) PROVE JarInv'
  BY <1>13 DEF AdoptFails
<1>14. ASSUME NEW g \in Getters, CopyID(g) PROVE JarInv'
  BY <1>14 DEF CopyID, CallInv, Asked, DefaultOnly, SameKey, MapSays, Unpublished,
               Settled, SettledIn, OwnID, DisposingMapped
<1>15. ASSUME NEW g \in Getters, CreateTarget(g) PROVE JarInv'
  <2>1. /\ pc[g] = "target" /\ pc' = [pc EXCEPT ![g] = "patch"]
        /\ UNCHANGED <<incognito, id, ask, seen, sent, contexts>>
    BY <1>15 DEF CreateTarget
  <2>2. PICK i : /\ tab' = [tab EXCEPT ![g] = i]
                 /\ i = def \/ (i = sent[g] /\ i \in incognito)
    BY <1>15 DEF CreateTarget, Alive
  <2>3. i \in Getters => i \in incognito /\ \E k \in Keys \ {Default} : contexts[k] = i
    <3>1. SUFFICES ASSUME i \in Getters
                   PROVE  i \in incognito /\ \E k \in Keys \ {Default} : contexts[k] = i
      OBVIOUS
    <3>2. i = sent[g] /\ i \in incognito /\ Key(g) # Default
      BY <2>2, <3>1
    <3>3. ask[g] # None /\ i = mc[g] /\ ~Unpublished(i) /\ Key(i) = Key(g)
      BY <2>1, <3>2 DEF CallInv, Asked, OwnID, Settled, SettledIn, SameKey
    <3>4. PICK k \in Keys : contexts[k] = i
      BY <3>1, <3>2, <3>3 DEF Unpublished
    <3>5. k # Default
      BY <3>1, <3>2, <3>3, <3>4 DEF CallInv, MapSays
    <3> QED BY <3>2, <3>4, <3>5
  <2>4. DefaultID' /\ SeenMade' /\ IncognitoAsked'
    BY <2>1, <2>2, <2>3
  <2>5. TabPublished'
    BY <2>1, <2>2, <2>3
  <2>6. NoContextLeaked'
    BY <2>1, <2>2, <2>3
  <2> QED BY <2>4, <2>5, <2>6
<1>16. ASSUME NEW g \in Getters, CreateStale(g) PROVE JarInv'
  BY <1>16 DEF CreateStale
<1>17. ASSUME NEW g \in Getters, CreateError(g) PROVE JarInv'
  BY <1>17 DEF CreateError
<1>18. ASSUME NEW g \in Getters, PatchOK(g) PROVE JarInv'
  BY <1>18 DEF PatchOK, Return
<1>19. ASSUME NEW g \in Getters, PatchFails(g) PROVE JarInv'
  BY <1>19 DEF PatchFails, Return, CloseTab
<1>20. ASSUME NEW g \in Getters, EndSession(g) PROVE JarInv'
  BY <1>20 DEF EndSession, CloseTab
<1>21. ASSUME NEW k \in Keys, DisposeStart(k) PROVE JarInv'
  BY <1>21 DEF DisposeStart
<1>22. CASE DisposeEnd
  <2>1. PICK x \in Getters :
          /\ x = contexts[disposing] /\ id[x] = x
          /\ incognito' = incognito \ {x}
          /\ tab' = [t \in Tabs |-> IF tab[t] = x THEN None ELSE tab[t]]
          /\ contexts' = [contexts EXCEPT ![disposing] = None]
    BY <1>22 DEF DisposeEnd, Dispose, CallInv, DisposingMapped, MapSays
  <2>2. UNCHANGED <<id, pc, ask, seen, sent>> /\ disposing \in Keys
    BY <1>22 DEF DisposeEnd
  <2>3. DefaultID'
    BY <2>1, <2>2
  <2>4. SeenMade'
    BY <2>1, <2>2
  <2>5. IncognitoAsked'
    BY <2>1, <2>2
  <2>6. TabPublished'
    BY <2>1, <2>2
  <2>7. NoContextLeaked'
    BY <2>1, <2>2
  <2> QED BY <2>3, <2>4, <2>5, <2>6, <2>7
<1>23. CASE Reconnect
  BY <1>23 DEF Reconnect, Dispose
<1>24. CASE DefaultRecreated
  BY <1>24 DEF DefaultRecreated
<1>25. ASSUME NEW u \in UserTabs, UserOpens(u) PROVE JarInv'
  BY SMTT(30), <1>25 DEF UserOpens
<1>26. ASSUME NEW u \in UserTabs, UserCloses(u) PROVE JarInv'
  BY <1>26 DEF UserCloses
<1>27. ASSUME NEW r \in Renderers, NewContext(r) PROVE JarInv'
  BY <1>27 DEF NewContext
<1>28. ASSUME NEW r \in Renderers, EndRender(r) PROVE JarInv'
  BY <1>28 DEF EndRender, Dispose
<1> QED
  <2> HIDE DEF JarInv
  <2> QED
    BY <1>1, <1>2, <1>3, <1>4, <1>5, <1>6, <1>7, <1>8, <1>9, <1>10, <1>11, <1>12, <1>13,
       <1>14, <1>15, <1>16, <1>17, <1>18, <1>19, <1>20, <1>21, <1>22, <1>23, <1>24, <1>25,
       <1>26, <1>27, <1>28 DEF Next, Call

-----------------------------------------------------------------------------
(* Where the pages live.                                                   *)

Patched == {"patch", "ok", "failed"}

\* A caller has a tab of its own only once it has created one.
TabMade == \A g \in Getters : tab[g] # None => pc[g] \in Patched

\* A published session of a context of the pool's own has its caller's tab, one
\* of the default context may have adopted another.
OwnMade ==
  \A g \in Getters : own[g] # None =>
    /\ ask[g] # None
    /\ own[g] \in Getters => pc[own[g]] \in Patched
    /\ Key(g) # Default => own[g] = g

\* No page of the default context lives in a BrowserContext of the pool's own.
DefaultOwn ==
  \A g \in Getters : Key(g) = Default =>
    /\ tab[g] \notin Getters
    /\ own[g] # None => tab[own[g]] \notin Getters

PageInv == TabMade /\ OwnMade /\ DefaultOwn /\ PrivateStaysPrivate

\* Every step keeps where the pages live.
LEMMA PagesStep ==
  ASSUME Typed, CallInv, JarInv, PageInv, Next
  PROVE  PageInv'
<1> USE NoneAssumption, DistinctAssumption, BoundAssumption
<1> USE DEF Typed, TypeOK, chrome, pool, locals, Goto, IDs, Tabs, DefaultIDs, PageInv,
            Patched, TabMade, OwnMade,
            DefaultOwn, PrivateStaysPrivate, Key
<1>1. ASSUME NEW g \in Getters, FindContext(g) PROVE PageInv'
  BY SMTT(30), <1>1 DEF FindContext, CallInv, Asked, DefaultOnly, SameKey, MapSays, Unpublished,
              Settled, SettledIn, OwnID, DisposingMapped
<1>2. ASSUME NEW g \in Getters, MissContext(g) PROVE PageInv'
  BY <1>2 DEF MissContext, CallInv, Asked, DefaultOnly, SameKey, MapSays, Unpublished,
              Settled, SettledIn, OwnID, DisposingMapped
<1>3. ASSUME NEW g \in Getters, Refused(g) PROVE PageInv'
  BY <1>3 DEF Refused, CallInv, Asked, DefaultOnly, SameKey, MapSays, Unpublished,
              Settled, SettledIn, OwnID, DisposingMapped
<1>4. ASSUME NEW g \in Getters, CreateContext(g) PROVE PageInv'
  BY <1>4 DEF CreateContext, Return
<1>5. ASSUME NEW g \in Getters, ReadTargets(g) PROVE PageInv'
  BY <1>5 DEF ReadTargets
<1>6. ASSUME NEW g \in Getters, PickDefault(g) PROVE PageInv'
  BY <1>6 DEF PickDefault
<1>7. ASSUME NEW g \in Getters, Publish(g) PROVE PageInv'
  BY <1>7 DEF Publish
<1>8. ASSUME NEW g \in Getters, PublishLost(g) PROVE PageInv'
  <2>1. /\ pc[g] = "publish" /\ ask[g] # None /\ pc' = [pc EXCEPT ![g] = "reserve"]
        /\ mc' = [mc EXCEPT ![g] = contexts[Key(g)]] /\ UNCHANGED <<ask, own>>
    BY <1>8 DEF PublishLost, CallInv, Asked
  <2>2. \A t \in Tabs : tab'[t] \in {tab[t], None}
    BY <1>8 DEF PublishLost, Dispose
  <2>3. TabMade'
    BY <2>1, <2>2
  <2>4. OwnMade'
    BY <2>1, <2>2
  <2>5. DefaultOwn'
    BY <2>1, <2>2
  <2>6. PrivateStaysPrivate'
    BY <2>1, <2>2
  <2> QED BY <2>3, <2>4, <2>5, <2>6
<1>9. ASSUME NEW g \in Getters, TryAdopt(g) PROVE PageInv'
  BY <1>9 DEF TryAdopt
<1>10. ASSUME NEW g \in Getters, Reserve(g) PROVE PageInv'
  BY <1>10 DEF Reserve
<1>11. ASSUME NEW g \in Getters, AdoptPage(g) PROVE PageInv'
  <2>1. PICK t \in Tabs : tab[t] = id[mc[g]] /\ own' = [own EXCEPT ![g] = t]
    BY <1>11 DEF AdoptPage
  <2>2. /\ pc[g] \in {"adopt", "readopt"} /\ pc' = [pc EXCEPT ![g] = "ok"]
        /\ id[mc[g]] # None /\ UNCHANGED <<tab, ask, mc>>
    BY <1>11 DEF AdoptPage, Return
  <2>3. /\ Key(g) = Default /\ ask[g] # None /\ mc[g] \in Getters /\ Key(mc[g]) = Default
    BY <2>2 DEF CallInv, Asked, DefaultOnly, SameKey
  <2>4. tab[t] \notin Getters
    BY <2>1, <2>3 DEF JarInv, DefaultID, WasMade, TabPublished
  <2>5. TabMade'
    BY <2>1, <2>2, <2>3, <2>4
  <2>6. OwnMade'
    BY <2>1, <2>2, <2>3, <2>4
  <2>7. DefaultOwn'
    BY <2>1, <2>2, <2>3, <2>4
  <2>8. PrivateStaysPrivate'
    BY <2>1, <2>2, <2>3, <2>4
  <2> QED BY <2>5, <2>6, <2>7, <2>8
<1>12. ASSUME NEW g \in Getters, AdoptRediscover(g) PROVE PageInv'
  BY <1>12 DEF AdoptRediscover
<1>13. ASSUME NEW g \in Getters, AdoptFails(g) PROVE PageInv'
  BY <1>13 DEF AdoptFails
<1>14. ASSUME NEW g \in Getters, CopyID(g) PROVE PageInv'
  BY <1>14 DEF CopyID
<1>15. ASSUME NEW g \in Getters, CreateTarget(g) PROVE PageInv'
  <2>1. /\ pc[g] = "target" /\ ask[g] # None /\ pc' = [pc EXCEPT ![g] = "patch"]
        /\ UNCHANGED <<own, ask, mc>>
    BY <1>15 DEF CreateTarget, CallInv, Asked
  <2>2. PICK i : /\ tab' = [tab EXCEPT ![g] = i]
                 /\ \/ sent[g] = None /\ i = def
                    \/ sent[g] # None /\ i = sent[g] /\ (i \in incognito \/ i = def)
    BY <1>15 DEF CreateTarget, Alive
  <2>3. Key(g) # Default => i = mc[g]
    BY <2>1, <2>2 DEF CallInv, Asked, OwnID
  <2>4. Key(g) = Default => i \notin Getters
    BY <2>2 DEF JarInv, DefaultID, WasMade
  <2>5. \A h \in Getters : own[h] # g
    BY <2>1
  <2>6. TabMade'
    BY <2>1, <2>2, <2>3, <2>4, <2>5
  <2>7. OwnMade'
    BY <2>1, <2>2, <2>3, <2>4, <2>5
  <2>8. DefaultOwn'
    BY <2>1, <2>2, <2>3, <2>4, <2>5
  <2>9. PrivateStaysPrivate'
    BY <2>1, <2>2, <2>3, <2>4, <2>5
  <2> QED BY <2>6, <2>7, <2>8, <2>9
<1>16. ASSUME NEW g \in Getters, CreateStale(g) PROVE PageInv'
  BY SMTT(30), <1>16 DEF CreateStale
<1>17. ASSUME NEW g \in Getters, CreateError(g) PROVE PageInv'
  BY <1>17 DEF CreateError
<1>18. ASSUME NEW g \in Getters, PatchOK(g) PROVE PageInv'
  <2>1. /\ pc[g] = "patch" /\ ask[g] # None /\ pc' = [pc EXCEPT ![g] = "ok"]
        /\ own' = [own EXCEPT ![g] = g] /\ UNCHANGED <<tab, ask, mc>>
    BY <1>18 DEF PatchOK, Return, CallInv, Asked
  <2>2. TabMade'
    BY <2>1
  <2>3. OwnMade'
    BY <2>1
  <2>4. DefaultOwn'
    BY <2>1
  <2>5. PrivateStaysPrivate'
    BY <2>1
  <2> QED BY <2>2, <2>3, <2>4, <2>5
<1>19. ASSUME NEW g \in Getters, PatchFails(g) PROVE PageInv'
  BY <1>19 DEF PatchFails, Return, CloseTab
<1>20. ASSUME NEW g \in Getters, EndSession(g) PROVE PageInv'
  BY <1>20 DEF EndSession, CloseTab
<1>21. ASSUME NEW k \in Keys, DisposeStart(k) PROVE PageInv'
  BY <1>21 DEF DisposeStart
<1>22. CASE DisposeEnd
  BY <1>22 DEF DisposeEnd, Dispose
<1>23. CASE Reconnect
  BY <1>23 DEF Reconnect, Dispose
<1>24. CASE DefaultRecreated
  BY <1>24 DEF DefaultRecreated
<1>25. ASSUME NEW u \in UserTabs, UserOpens(u) PROVE PageInv'
  BY SMTT(30), <1>25 DEF UserOpens
<1>26. ASSUME NEW u \in UserTabs, UserCloses(u) PROVE PageInv'
  BY <1>26 DEF UserCloses
<1>27. ASSUME NEW r \in Renderers, NewContext(r) PROVE PageInv'
  BY <1>27 DEF NewContext
<1>28. ASSUME NEW r \in Renderers, EndRender(r) PROVE PageInv'
  BY <1>28 DEF EndRender, Dispose
<1> QED
  <2> HIDE DEF PageInv
  <2> QED
    BY <1>1, <1>2, <1>3, <1>4, <1>5, <1>6, <1>7, <1>8, <1>9, <1>10, <1>11, <1>12, <1>13,
       <1>14, <1>15, <1>16, <1>17, <1>18, <1>19, <1>20, <1>21, <1>22, <1>23, <1>24, <1>25,
       <1>26, <1>27, <1>28 DEF Next, Call

-----------------------------------------------------------------------------
(* The theorems.                                                           *)

RegistryInv == Typed /\ CallInv /\ JarInv /\ PageInv

LEMMA InitRegistry ==
  ASSUME Init
  PROVE  RegistryInv
<1> USE NoneAssumption, DistinctAssumption, BoundAssumption
<1> USE DEF Init, DefaultIDs, IDs, Tabs, Key
<1>1. Typed BY DEF Typed, TypeOK, Steps, Keys
<1>2. CallInv
  BY DEF CallInv, Asked, DefaultOnly, SameKey, MapSays, SettledIn, Settled, OwnID,
         DisposingMapped
<1>3. JarInv
  BY DEF JarInv, DefaultID, WasMade, SeenMade, IncognitoAsked, TabPublished, NoContextLeaked
<1>4. PageInv BY DEF PageInv, TabMade, OwnMade, DefaultOwn, PrivateStaysPrivate
<1> QED BY <1>1, <1>2, <1>3, <1>4 DEF RegistryInv

LEMMA RegistryStep ==
  ASSUME RegistryInv, [Next]_vars
  PROVE  RegistryInv'
<1> USE DEF RegistryInv
<1>1. CASE Next
  BY <1>1, TypedStep, CallsStep, JarsStep, PagesStep
<1>2. CASE UNCHANGED vars
  <2> USE <1>2 DEF vars, pool, chrome, locals, Key
  <2>1. Typed' BY DEF Typed, TypeOK
  <2>2. CallInv'
    BY DEF CallInv, Asked, DefaultOnly, SameKey, MapSays, Unpublished, SettledIn, Settled,
           OwnID, DisposingMapped
  <2>3. JarInv'
    BY DEF JarInv, DefaultID, WasMade, SeenMade, IncognitoAsked, TabPublished,
           NoContextLeaked
  <2>4. PageInv' BY DEF PageInv, TabMade, OwnMade, DefaultOwn, PrivateStaysPrivate
  <2> QED BY <2>1, <2>2, <2>3, <2>4
<1> QED BY <1>1, <1>2

\* The inductive invariant of the registry.
LEMMA RegistryHolds == Spec => []RegistryInv
  BY InitRegistry, RegistryStep, PTL DEF Spec

\* TypeOK always holds.
THEOREM RegistryTypes == Spec => []TypeOK
<1>1. RegistryInv => TypeOK BY DEF RegistryInv, Typed
<1> QED BY <1>1, RegistryHolds, PTL

\* discoverPersistentDefaultCtxID never binds the default context to a
\* BrowserContext of the pool's own, and no page asked for in default mode lives
\* in one.
THEOREM DefaultContextIsolated == Spec => []DefaultJarIsolated
<1>1. RegistryInv => DefaultJarIsolated
  <2> SUFFICES ASSUME RegistryInv PROVE DefaultJarIsolated OBVIOUS
  <2>1. contexts[Default] # None => id[contexts[Default]] \notin incognito \cap Getters
    <3>1. SUFFICES ASSUME contexts[Default] # None
                   PROVE  id[contexts[Default]] \notin incognito \cap Getters
      OBVIOUS
    <3>2. contexts[Default] \in Getters /\ Key(contexts[Default]) = Default
      BY <3>1 DEF RegistryInv, Typed, TypeOK, Keys, CallInv, MapSays
    <3> QED BY <3>2 DEF RegistryInv, JarInv, DefaultID, WasMade
  <2>2. \A g \in Getters :
          Key(g) = Default /\ own[g] # None => tab[own[g]] \notin incognito \cap Getters
    BY DEF RegistryInv, PageInv, DefaultOwn
  <2> QED BY <2>1, <2>2 DEF DefaultJarIsolated
<1> QED BY <1>1, RegistryHolds, PTL

\* A page of a private or proxy context lives in the BrowserContext created for it.
THEOREM PrivatePagesStayPrivate == Spec => []PrivateStaysPrivate
<1>1. RegistryInv => PrivateStaysPrivate BY DEF RegistryInv, PageInv
<1> QED BY <1>1, RegistryHolds, PTL

\* Callers that race to create a context leave no BrowserContext behind.
THEOREM NoneLeaked == Spec => []NoContextLeaked
<1>1. RegistryInv => NoContextLeaked BY DEF RegistryInv, JarInv
<1> QED BY <1>1, RegistryHolds, PTL

\* Where a page of a context of the pool's own lives.
LEMMA OwnJar ==
  ASSUME RegistryInv, NEW g \in Getters, own[g] # None, tab[own[g]] # None
  PROVE  /\ ask[g] # None /\ KeyOf(ask[g]) # Invalid
         /\ Key(g) = Default => tab[own[g]] \notin Getters
         /\ Key(g) # Default =>
              /\ tab[own[g]] \in Getters /\ ask[tab[own[g]]] # None
              /\ KeyOf(ask[tab[own[g]]]) = KeyOf(ask[g])
<1>1. ask[g] # None /\ KeyOf(ask[g]) # Invalid /\ mc[g] \in Getters
  BY DEF RegistryInv, CallInv, Asked, PageInv, OwnMade
<1>2. Key(g) = Default => tab[own[g]] \notin Getters
  BY DEF RegistryInv, PageInv, DefaultOwn
<1>3. ASSUME Key(g) # Default PROVE tab[own[g]] = mc[g]
  <2>1. own[g] = g BY <1>3 DEF RegistryInv, PageInv, OwnMade
  <2>2. Key(g) # None BY <1>1, NoneAssumption DEF Key, RegistryInv, Typed, TypeOK, Keys
  <2> QED BY <2>1, <2>2, <1>3 DEF RegistryInv, PageInv, PrivateStaysPrivate
<1>4. ask[mc[g]] # None /\ KeyOf(ask[mc[g]]) = KeyOf(ask[g])
  BY <1>1 DEF RegistryInv, CallInv, SameKey, Key
<1> QED BY <1>1, <1>2, <1>3, <1>4

\* A page's jar and proxy are those of its request: with a proxy it lives in a
\* BrowserContext made for that proxy, without one in none of a proxy, and never
\* with private work when it continues a session.
THEOREM PagesWhereAsked == Spec => []JarAsAsked
<1>1. RegistryInv => JarAsAsked
  <2> SUFFICES ASSUME RegistryInv PROVE JarAsAsked OBVIOUS
  <2> DEFINE open == {g \in Getters : own[g] # None /\ tab[own[g]] # None}
             jar(g) == tab[own[g]]
  <2>1. ASSUME NEW g \in open, ask[g].proxy # "" PROVE jar(g) \in Getters
    <3>1. KeyOf(ask[g])[2] = ask[g].proxy BY OwnJar, RequestKeySays
    <3>2. Key(g) # Default
      <4>1. ask[g] # None BY OwnJar
      <4>2. Default[2] = "" BY DEF Default
      <4> QED BY <3>1, <2>1, <4>1, <4>2 DEF Key
    <3> QED BY <3>2, OwnJar
  <2>2. ASSUME NEW g \in open, jar(g) \in Getters PROVE ask[jar(g)].proxy = ask[g].proxy
    <3>1. KeyOf(ask[g]) # Invalid /\ KeyOf(ask[jar(g)]) = KeyOf(ask[g]) BY <2>2, OwnJar
    <3> QED BY <3>1, SharedKeySharedProxy
  <2>3. ASSUME NEW g \in open, NEW h \in open, ask[g].mode = "private", ToContinue(ask[h])
        PROVE  jar(g) # jar(h)
    <3>1. resolveSessionParams(ask[h]) \in {"default", "proxy"}
      BY <2>3 DEF ToContinue, resolveSessionParams, Continuing
    <3>2. KeyOf(ask[g]) # Invalid BY OwnJar
    <3>3. KeyOf(ask[g]) # KeyOf(ask[h]) BY <2>3, <3>1, <3>2, PrivateWorkApart
    <3>4. Key(g) # Default
      <4>1. resolveSessionParams(ask[g]) = "private" BY <2>3 DEF resolveSessionParams
      <4>2. KeyOf(ask[g])[1] \in {"private", "private-proxy"} BY <3>2, <4>1, RequestKeySays
      <4>3. ask[g] # None BY OwnJar
      <4>4. Default[1] = "default" BY DEF Default
      <4> QED BY <4>2, <4>3, <4>4 DEF Key
    <3>5. jar(g) \in Getters /\ KeyOf(ask[jar(g)]) = KeyOf(ask[g]) BY <3>4, OwnJar
    <3>6. CASE Key(h) = Default BY <3>5, <3>6, OwnJar
    <3>7. CASE Key(h) # Default
      <4>1. KeyOf(ask[jar(h)]) = KeyOf(ask[h]) BY <3>7, OwnJar
      <4> QED BY <3>3, <3>5, <4>1
    <3> QED BY <3>6, <3>7
  <2> HIDE DEF jar
  <2> QED BY <2>1, <2>2, <2>3 DEF JarAsAsked, jar
<1> QED BY <1>1, RegistryHolds, PTL
=============================================================================
