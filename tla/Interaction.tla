---------------------------- MODULE Interaction ----------------------------
(***************************************************************************)
(* RunInteract (src/interact.go): requests run chains of actions on the    *)
(* page of one session, which other requests, the operator, the reaper and *)
(* Chrome use, detach and close meanwhile.  The pool is reduced to the     *)
(* session's entry (PagePool has its protocol); the log collector of the   *)
(* newest page is LogCollector, whose subscriptions end with the contexts  *)
(* kept here.  Chrome need not answer a call: it ends with its context, if *)
(* it has one.                                                             *)
(*                                                                         *)
(* Pages are numbered in the order they are opened.                        *)
(***************************************************************************)
EXTENDS LogCollector

CONSTANTS
  Requests,
  Destroying,  \* those with a destroy_session action in the chain
  MaxPages,    \* bound on the number of pages
  MaxActions   \* bound on the length of a chain

Pages == 1 .. MaxPages
ASSUME RequestAssumption == Requests \subseteq Loops \ {Page} /\ None \notin Nat
ASSUME BoundAssumption == MaxPages \in Nat /\ MaxActions \in Nat

VARIABLES
  page,       \* the newest page, 0 before the first
  entry,      \* the page mapped under the session, None
  open,       \* pages whose lifecycle context is not cancelled
  detached,   \* mp.DetachedAt of the entry is set
  ephemeral,  \* the session was generated for one request
  reaper,     \* Reap between its scan and the end of its disposals
  pc,
  mp,         \* the page a request works on
  ended,      \* the request's own context has ended
  left,       \* actions that may still be run
  failed      \* actionErr is set

session == <<page, entry, open, detached, ephemeral, reaper>>
chain == <<left, failed>>
request == <<pc, mp, ended, chain>>
vars == <<collector, session, request>>

TypeOK ==
  /\ LogTypeOK
  /\ page \in 0 .. MaxPages /\ entry \in Pages \cup {None} /\ open \subseteq Pages
  /\ detached \in BOOLEAN /\ ephemeral \in BOOLEAN
  /\ reaper \in {"idle", "dispose", "disposing"}
  /\ pc \in [Requests -> {"idle", "adopt", "adopted", "prepare", "cancel", "subscribe",
                          "next", "acting", "call", "close", "dispose", "disposing",
                          "snapshot", "done"}]
  /\ mp \in [Requests -> Pages \cup {None}] /\ ended \in [Requests -> BOOLEAN]
  /\ left \in [Requests -> 0 .. MaxActions] /\ failed \in [Requests -> BOOLEAN]

Init ==
  /\ LogInit
  /\ page = 0 /\ entry = None /\ open = {} /\ detached = FALSE
  /\ ephemeral \in BOOLEAN /\ reaper = "idle"
  /\ pc = [r \in Requests |-> "idle"] /\ mp = [r \in Requests |-> None]
  /\ ended = [r \in Requests |-> FALSE]
  /\ left = [r \in Requests |-> MaxActions] /\ failed = [r \in Requests |-> FALSE]

Goto(r, l) == pc' = [pc EXCEPT ![r] = l]
Running(r) == pc[r] \notin {"idle", "done"}

\* RunInteract returns; its deferred calls end the context.
Return(r) ==
  /\ Goto(r, "done")
  /\ mp' = [mp EXCEPT ![r] = None] /\ ended' = [ended EXCEPT ![r] = TRUE]
  /\ left' = [left EXCEPT ![r] = 0] /\ failed' = [failed EXCEPT ![r] = FALSE]

\* Mutant of CtxEnded: the calls are bound to the page's context alone.
CtxEndedByPage(r) == mp[r] \notin open

\* The merged context: it ends with the request, or with the page
\* (context.AfterFunc on the page's lifecycle context).
CtxEnded(r) == ended[r] \/ mp[r] \notin open

\* Subscriptions whose context has not ended: that of SubscribeCDP is the
\* page's, that of Resubscribe the merged context of its request.
Live ==
  {l \in Loops : /\ page \in open
                 /\ l \in Requests => Running(l) /\ mp[l] = page /\ ~ended[l]}

\* A disposal, by a request or by the reaper, holds contextsMu while Chrome is
\* called: nobody finds, makes, closes, reaps or detaches a page meanwhile.
PoolLocked == reaper = "disposing" \/ \E r \in Requests : pc[r] = "disposing"

-----------------------------------------------------------------------------
(* Before the chain.                                                       *)

\* getOrCreatePage finds the entry; mp.DetachedAt is tested at once.
Reuse(r) ==
  /\ pc[r] = "idle" /\ ~PoolLocked /\ entry # None /\ ~ephemeral
  /\ \/ detached /\ Return(r)
     \/ /\ ~detached /\ mp' = [mp EXCEPT ![r] = entry] /\ Goto(r, "prepare")
        /\ UNCHANGED <<ended, chain>>
  /\ UNCHANGED <<collector, session>>

\* A new entry in the map, for a page that is created or a tab that is adopted.
NewEntry(r) ==
  /\ pc[r] = "idle" /\ ~PoolLocked /\ entry = None /\ page < MaxPages
  /\ ephemeral => \A q \in Requests : pc[q] = "idle"
  /\ page' = page + 1 /\ entry' = page + 1 /\ open' = open \cup {page + 1}
  /\ detached' = FALSE /\ mp' = [mp EXCEPT ![r] = page + 1]
  /\ UNCHANGED <<ephemeral, reaper, ended, chain>>

\* The waiters of a page that is created see it after SubscribeCDP, ...
Create(r) == NewEntry(r) /\ LogNewPage("on") /\ Goto(r, "prepare")

\* ... others find an adopted tab before.
Adopt(r) == NewEntry(r) /\ LogNewPage("off") /\ Goto(r, "adopt")

\* SubscribeCDP, on the page's own context, of the page this request adopted.
AdoptSubscribe(r) ==
  /\ UNCHANGED <<session, mp, ended, chain>>
  /\ \/ /\ pc[r] = "adopt" /\ Goto(r, "adopted")
        /\ IF mp[r] = page THEN CancelOld(Page) ELSE UNCHANGED collector
     \/ /\ pc[r] = "adopted" /\ Goto(r, "prepare")
        /\ IF mp[r] = page THEN Subscribe(Page) ELSE UNCHANGED collector

Refused(r) ==
  /\ pc[r] = "idle" /\ Return(r)
  /\ UNCHANGED <<collector, session>>

\* The page's information; proxy credentials and stealth on a new page; the
\* pre-actions; the navigation.
Prepare(r) ==
  /\ pc[r] = "prepare" /\ ~CtxEnded(r)
  /\ Goto(r, "cancel")
  /\ UNCHANGED <<collector, session, mp, ended, chain>>

\* Any error of these answers the request at once.
ReturnEarly(r) ==
  /\ pc[r] = "prepare" /\ Return(r)
  /\ UNCHANGED <<collector, session>>

\* Resubscribe: errors of the enable calls in between are only logged.  The
\* collector of a page that is not the newest is not modelled any more.
ResubscribeCancel(r) ==
  /\ pc[r] = "cancel" /\ Goto(r, "subscribe")
  /\ IF mp[r] = page THEN CancelOld(r) ELSE UNCHANGED collector
  /\ UNCHANGED <<session, mp, ended, chain>>

Resubscribe(r) ==
  /\ pc[r] = "subscribe" /\ Goto(r, "next")
  /\ IF mp[r] = page THEN Subscribe(r) ELSE UNCHANGED collector
  /\ UNCHANGED <<session, mp, ended, chain>>

-----------------------------------------------------------------------------
(* The chain.                                                              *)

\* An action of the chain (module Actions has what happens inside).  Those that
\* move the mouse, press keys or wait for a navigation (page.Info) wait in a
\* call on the pooled page or on the browser, which no context of r ends.
StartAction(r) ==
  /\ pc[r] = "next" /\ left[r] > 0 /\ ~failed[r]
  /\ left' = [left EXCEPT ![r] = left[r] - 1]
  /\ \E l \in {"acting", "call"} : Goto(r, l)
  /\ UNCHANGED <<collector, session, mp, ended, failed>>

EndAction(r) ==
  /\ pc[r] \in {"acting", "call"} /\ Goto(r, "next")
  /\ UNCHANGED <<collector, session, mp, ended, left>>

ActionOK(r) ==
  EndAction(r) /\ (pc[r] = "acting" => ~CtxEnded(r)) /\ UNCHANGED failed

\* Chrome's error, the end of the context, or the action's time limit; the
\* chain goes on after it when the action has skip_on_error.
ActionFails(r, skip) == EndAction(r) /\ failed' = [failed EXCEPT ![r] = ~skip]

\* The final URL is asked for under a context of its own that ends after 2 s.
\* Any action of the chain, run or not, may be the destroy_session.
Final(r) ==
  /\ pc[r] = "next" /\ (r \in Destroying => failed[r] \/ left[r] < MaxActions)
  /\ Goto(r, IF ephemeral \/ r \in Destroying THEN "close" ELSE "snapshot")
  /\ UNCHANGED <<collector, session, mp, ended, chain>>

\* Mutant of CloseEntry: the entry is removed, its page stays.
ForgetEntry ==
  entry # None /\ entry' = None /\ detached' = FALSE /\ UNCHANGED open

CloseEntry ==
  entry # None /\ entry' = None /\ detached' = FALSE /\ open' = open \ {entry}

\* ClosePage(session): whatever page has the name by then; when that is the
\* page of another request, it is waited for until it is made (<-readyCh).
CloseSession(r) ==
  /\ pc[r] = "close" /\ ~PoolLocked
  /\ \/ CloseEntry /\ Goto(r, "dispose")
     \/ entry = None /\ UNCHANGED <<entry, open, detached>> /\ Goto(r, "snapshot")
  /\ UNCHANGED <<collector, page, ephemeral, reaper, mp, ended, chain>>

\* An empty context that is not the default one is disposed.
Dispose(r) ==
  /\ pc[r] = "dispose" /\ ~PoolLocked
  /\ Goto(r, "snapshot") \/ (entry = None /\ Goto(r, "disposing"))
  /\ UNCHANGED <<collector, session, mp, ended, chain>>

Disposed(r) ==
  /\ pc[r] = "disposing" /\ Goto(r, "snapshot")
  /\ UNCHANGED <<collector, session, mp, ended, chain>>

\* The response, with a failure snapshot when an action failed.
Respond(r) ==
  /\ pc[r] = "snapshot" /\ Return(r)
  /\ UNCHANGED <<collector, session>>

-----------------------------------------------------------------------------
(* What happens meanwhile.                                                 *)

\* The timeout of the request, or the client is gone.  (When the page is gone
\* already it makes no difference.)
Expire(r) ==
  /\ Running(r) /\ ~CtxEnded(r) /\ ended' = [ended EXCEPT ![r] = TRUE]
  /\ UNCHANGED <<collector, session, pc, mp, chain>>

\* The tab dies and watchTargetDestroyed removes its entry; or a reconnect drops
\* the map and ends the lifecycle contexts of its generation.
OnDestroyed ==
  /\ ~PoolLocked /\ CloseEntry
  /\ UNCHANGED <<collector, page, ephemeral, reaper, request>>

\* Reap: the entry has been idle for the TTL, counted from the last checkout
\* or the last response, so also in the middle of a long chain.
Reap ==
  /\ reaper = "idle" /\ ~PoolLocked /\ ~detached /\ CloseEntry
  /\ reaper' = "dispose"
  /\ UNCHANGED <<collector, page, ephemeral, request>>

\* It then disposes of the contexts that are empty, unless this one is the
\* default context or in use again.
ReapDisposes ==
  /\ reaper = "dispose" /\ ~PoolLocked
  /\ reaper' = "idle" \/ (entry = None /\ reaper' = "disposing")
  /\ UNCHANGED <<collector, page, entry, open, detached, ephemeral, request>>

ReapDisposed ==
  /\ reaper = "disposing" /\ reaper' = "idle"
  /\ UNCHANGED <<collector, page, entry, open, detached, ephemeral, request>>

SetDetached ==
  /\ ~PoolLocked /\ entry # None /\ detached' = ~detached
  /\ UNCHANGED <<collector, page, entry, open, ephemeral, reaper, request>>

TabSends ==
  /\ page \in open /\ Send(Live)
  /\ UNCHANGED <<session, request>>

RunLoop(l) ==
  /\ Dispatch(l) \/ LoopEnds(l, Live)
  /\ UNCHANGED <<session, request>>

-----------------------------------------------------------------------------
RunInteract(r) ==
  \/ Reuse(r) \/ Refused(r) \/ Create(r) \/ Adopt(r) \/ AdoptSubscribe(r)
  \/ Prepare(r) \/ ReturnEarly(r) \/ ResubscribeCancel(r) \/ Resubscribe(r)
  \/ StartAction(r) \/ ActionOK(r) \/ \E skip \in BOOLEAN : ActionFails(r, skip)
  \/ Final(r) \/ CloseSession(r) \/ Dispose(r) \/ Disposed(r) \/ Respond(r)

Next ==
  \/ \E r \in Requests : RunInteract(r) \/ Expire(r)
  \/ OnDestroyed \/ Reap \/ ReapDisposes \/ ReapDisposed \/ SetDetached \/ TabSends
  \/ \E l \in Loops : RunLoop(l)

\* Where a request may stay although its context has ended: in a call that is
\* bound to nothing (of the mouse, the keyboard or page.Info, of the failure
\* snapshot, of a disposal), in the wait of ClosePage for a page that another
\* request makes, or at contextsMu.
HeldUp(r) ==
  \/ pc[r] \in {"call", "disposing"} \/ (pc[r] = "snapshot" /\ failed[r])
  \/ pc[r] = "close" /\ entry \notin {None, mp[r]}
  \/ pc[r] \in {"close", "dispose"} /\ PoolLocked

\* Steps of a request that end by themselves or with a context.  Those of
\* "prepare", "subscribe" and "acting" are calls that Chrome may leave without
\* an answer; the calls of an adopter's SubscribeCDP end with the page alone.
Scheduled(r) ==
  /\ Running(r) /\ ~HeldUp(r)
  /\ pc[r] \in {"prepare", "subscribe", "acting"} => CtxEnded(r)
  /\ pc[r] = "adopted" => mp[r] \notin open
  /\ RunInteract(r)

\* Requests are scheduled and their timeouts fire; the reaper runs every 30 s,
\* once its last disposal has been answered.
Fairness ==
  /\ \A r \in Requests : WF_vars(Scheduled(r) \/ Expire(r))
  /\ WF_vars(Reap) /\ WF_vars(ReapDisposes)

Spec == Init /\ [][Next]_vars
FairSpec == Spec /\ Fairness

-----------------------------------------------------------------------------
\* While a request runs its chain and its context lives, the events of the page
\* are collected, whoever subscribed last (RunInteract resubscribes for that
\* reason) - but for one case, stated here because it is real: another request
\* has resubscribed since and has ended, and its subscription with it; then
\* nobody listens until the next request.
ListenerWhileActing ==
  \A r \in Requests :
    pc[r] \in {"next", "acting", "call"} /\ mp[r] = page /\ ~CtxEnded(r) /\ subMu = None
    => \/ sub \in Live /\ loop[sub] = "on"
       \/ sub \in Requests \ {r} /\ sub \notin Live

\* Chrome may die or stop answering at any call: the merged context brings
\* every request to its response, or to one of the places where a call or a
\* wait is bound to nothing.  Otherwise only an adopter's subscription waits
\* longer, and with it, for subMu, the other requests of the page: until the
\* reaper takes the page, which it does not as long as the session is detached.
EveryRequestFinishes ==
  []<>(\/ \A r \in Requests : ~Running(r) \/ HeldUp(r)
       \/ (detached \/ PoolLocked) /\ \E q \in Requests : pc[q] = "adopted")

\* The page of an ephemeral session is closed in the end unless it is detached,
\* also when its request returned early without closing it: the reaper is the
\* only one left that knows of it, and no disposal keeps it from its rounds.
EphemeralReclaimed == []<>(ephemeral => open = {} \/ detached \/ PoolLocked)
=============================================================================
