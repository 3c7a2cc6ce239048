---------------------------- MODULE ChromeManager ----------------------------
(***************************************************************************)
(* The connection of a ChromeManager (src/chrome.go,                       *)
(* src/chrome_lifecycle.go, src/chrome_context.go): callers of newContext, *)
(* which reconnect when Chrome refuses them a context, the disconnect      *)
(* watchers (one more with each reconnect), and Close.                     *)
(*                                                                         *)
(* Connections are numbered in the order they are made; the *rod.Browser   *)
(* and the egress guard on a connection, the LostConnection channel made   *)
(* with it and the watcher started for it have its number.                 *)
(***************************************************************************)
EXTENDS Naturals, FiniteSets

CONSTANTS
  Users,    \* calls of NewContext
  Closers,  \* calls of Close
  MaxConn,  \* bound on the number of connections made after the first
  None

Conns == 0 .. MaxConn
ASSUME BoundAssumption == MaxConn \in Nat
ASSUME NoneAssumption == None \notin Nat \cup Users \cup Closers

VARIABLES
  open,         \* connections that are up
  made,         \* the newest connection
  browser,      \* m.browser: a connection, or None (nil)
  guard,        \* m.guard
  lost,         \* m.LostConnection
  fired,        \* the LostConnection channels that are closed
  closing,      \* closingGracefully is closed
  reconnectMu,  \* the holder of m.reconnectMu, or None
  pool,         \* ContextPool.browser
  crashed,      \* close of a closed channel: the process is gone
  closed,       \* connections that were up when Close took them down
  pc, b, fresh, \* locals of the calls
  wpc, probed   \* locals of the watchers

net == <<open, made, closed>>
manager == <<browser, guard, lost, fired, closing, reconnectMu, pool, crashed>>
calls == <<pc, b, fresh>>
watch == <<wpc, probed>>
vars == <<net, manager, calls, watch>>

TypeOK ==
  /\ open \subseteq Conns /\ made \in Conns /\ closed \subseteq Conns
  /\ browser \in Conns \cup {None} /\ guard \in Conns \cup {None}
  /\ lost \in Conns /\ fired \subseteq Conns /\ closing \in BOOLEAN
  /\ reconnectMu \in Users \cup {None} /\ pool \in Conns /\ crashed \in BOOLEAN
  /\ pc \in [Users \cup Closers ->
               {"idle", "create", "lock", "closeOld", "connect", "guard", "swap",
                "update", "again", "retry", "signal", "nil", "close", "ok", "failed"}]
  /\ b \in [Users \cup Closers -> Conns \cup {None}]
  /\ fresh \in [Users -> Conns \cup {None}]
  /\ wpc \in [Conns -> {"none", "start", "wait", "probe", "lost", "fire", "done"}]
  /\ probed \in [Conns -> Conns \cup {None}]

\* NewChromeManager has returned.
Init ==
  /\ open = {0} /\ made = 0 /\ closed = {}
  /\ browser = 0 /\ guard = 0 /\ lost = 0 /\ fired = {} /\ closing = FALSE
  /\ reconnectMu = None /\ pool = 0 /\ crashed = FALSE
  /\ pc = [x \in Users \cup Closers |-> "idle"]
  /\ b = [x \in Users \cup Closers |-> None]
  /\ fresh = [u \in Users |-> None]
  /\ wpc = [w \in Conns |-> IF w = 0 THEN "start" ELSE "none"]
  /\ probed = [w \in Conns |-> None]

Goto(x, l) == pc' = [pc EXCEPT ![x] = l]
\* The browser a call holds is not used any more.
Forget(x, l) == Goto(x, l) /\ b' = [b EXCEPT ![x] = None]

-----------------------------------------------------------------------------
(* newContext and reconnect.                                               *)

\* getBrowser, at the start of the call and after a reconnect; nil is an error.
GetBrowser(u) ==
  /\ pc[u] \in {"idle", "again"}
  /\ Goto(u, IF browser = None THEN "failed"
             ELSE IF pc[u] = "idle" THEN "create" ELSE "retry")
  /\ b' = [b EXCEPT ![u] = browser]
  /\ UNCHANGED <<net, manager, fresh, watch>>

\* TargetCreateBrowserContext on the browser read before.
CreateOK(u) ==
  /\ pc[u] \in {"create", "retry"} /\ b[u] \in open
  /\ Forget(u, "ok")
  /\ UNCHANGED <<net, manager, fresh, watch>>

\* Any error makes the caller reconnect, once; Chrome may refuse a context on
\* a connection that is up.
CreateFails(u) ==
  /\ pc[u] \in {"create", "retry"}
  /\ Forget(u, IF pc[u] = "create" THEN "lock" ELSE "failed")
  /\ UNCHANGED <<net, manager, fresh, watch>>

\* Mutant of LockReconnect: reconnects are not serialized.
LockReconnectAnyway(u) ==
  /\ pc[u] = "lock"
  /\ reconnectMu' = u
  /\ b' = [b EXCEPT ![u] = browser]
  /\ Goto(u, "closeOld")
  /\ UNCHANGED <<net, browser, guard, lost, fired, closing, pool, crashed, fresh, watch>>

\* reconnectMu, and the snapshot of the old browser.
LockReconnect(u) ==
  /\ pc[u] = "lock" /\ reconnectMu = None
  /\ reconnectMu' = u
  /\ b' = [b EXCEPT ![u] = browser]
  /\ Goto(u, "closeOld")
  /\ UNCHANGED <<net, browser, guard, lost, fired, closing, pool, crashed, fresh, watch>>

CloseOld(u) ==
  /\ pc[u] = "closeOld"
  /\ open' = open \ {b[u]}
  /\ Forget(u, "connect")
  /\ UNCHANGED <<made, closed, manager, fresh, watch>>

GiveUp(u) ==
  /\ Goto(u, "failed")
  /\ reconnectMu' = None
  /\ fresh' = [fresh EXCEPT ![u] = None]
  /\ UNCHANGED <<made, closed, browser, guard, lost, fired, closing, pool, crashed, b, watch>>

\* discoverWSURL and Connect.
ConnectOK(u) ==
  /\ pc[u] = "connect" /\ made < MaxConn
  /\ made' = made + 1 /\ open' = open \cup {made + 1}
  /\ fresh' = [fresh EXCEPT ![u] = made + 1]
  /\ Goto(u, "guard")
  /\ UNCHANGED <<closed, manager, b, watch>>

ConnectFails(u) ==
  /\ pc[u] = "connect"
  /\ GiveUp(u)
  /\ UNCHANGED open

\* installEgressGuard; without it the connection is given back.
InstallGuard(u) ==
  /\ pc[u] = "guard" /\ fresh[u] \in open
  /\ Goto(u, "swap")
  /\ UNCHANGED <<net, manager, b, fresh, watch>>

\* Mutant of GuardFails: the unguarded connection is left open.
GuardFailsOpen(u) ==
  /\ pc[u] = "guard"
  /\ GiveUp(u)
  /\ UNCHANGED open

GuardFails(u) ==
  /\ pc[u] = "guard"
  /\ open' = open \ {fresh[u]}
  /\ GiveUp(u)

\* Under mu: browser, guard and a new LostConnection.
Swap(u) ==
  /\ pc[u] = "swap"
  /\ browser' = fresh[u] /\ guard' = fresh[u] /\ lost' = fresh[u]
  /\ Goto(u, "update")
  /\ UNCHANGED <<net, fired, closing, reconnectMu, pool, crashed, b, fresh, watch>>

\* Mutant of UpdatePool: no watcher for the new connection.
UpdatePoolUnwatched(u) ==
  /\ pc[u] = "update"
  /\ pool' = fresh[u]
  /\ fresh' = [fresh EXCEPT ![u] = None]
  /\ reconnectMu' = None
  /\ Goto(u, "again")
  /\ UNCHANGED <<net, browser, guard, lost, fired, closing, crashed, b, watch>>

\* pool.UpdateBrowser, the next watcher, and the end of reconnect.
UpdatePool(u) ==
  /\ pc[u] = "update"
  /\ pool' = fresh[u]
  /\ wpc' = [wpc EXCEPT ![fresh[u]] = "start"]
  /\ fresh' = [fresh EXCEPT ![u] = None]
  /\ reconnectMu' = None
  /\ Goto(u, "again")
  /\ UNCHANGED <<net, browser, guard, lost, fired, closing, crashed, b, probed>>

NewContext(u) ==
  /\ ~crashed
  /\ \/ GetBrowser(u) \/ CreateOK(u) \/ CreateFails(u) \/ LockReconnect(u)
     \/ CloseOld(u) \/ ConnectOK(u) \/ ConnectFails(u) \/ InstallGuard(u)
     \/ GuardFails(u) \/ Swap(u) \/ UpdatePool(u)

-----------------------------------------------------------------------------
(* Close.                                                                  *)

\* closingGracefully is closed unless it was; the test and the close are two
\* steps.
TestClosing(c) ==
  /\ pc[c] = "idle"
  /\ Goto(c, IF closing THEN "nil" ELSE "signal")
  /\ UNCHANGED <<net, manager, b, fresh, watch>>

SignalClosing(c) ==
  /\ pc[c] = "signal"
  /\ closing' = TRUE /\ crashed' = closing
  /\ Goto(c, "nil")
  /\ UNCHANGED <<net, browser, guard, lost, fired, reconnectMu, pool, b, fresh, watch>>

\* Mutant of TakeBrowser: taken before the watchers are told.
TakeBrowserFirst(c) ==
  /\ pc[c] \in {"idle", "nil"}
  /\ b' = [b EXCEPT ![c] = browser]
  /\ browser' = None /\ guard' = None
  /\ Goto(c, "close")
  /\ UNCHANGED <<net, lost, fired, closing, reconnectMu, pool, crashed, fresh, watch>>

TakeBrowser(c) ==
  /\ pc[c] = "nil"
  /\ b' = [b EXCEPT ![c] = browser]
  /\ browser' = None /\ guard' = None
  /\ Goto(c, "close")
  /\ UNCHANGED <<net, lost, fired, closing, reconnectMu, pool, crashed, fresh, watch>>

CloseBrowser(c) ==
  /\ pc[c] = "close"
  /\ open' = open \ {b[c]} /\ closed' = closed \cup ({b[c]} \cap open)
  /\ Forget(c, "ok")
  /\ UNCHANGED <<made, manager, fresh, watch>>

Close(c) ==
  ~crashed /\ (TestClosing(c) \/ SignalClosing(c) \/ TakeBrowser(c) \/ CloseBrowser(c))

-----------------------------------------------------------------------------
(* startDisconnectWatcher.  Every watcher looks at the browser and at the  *)
(* LostConnection of the moment, whichever connection it was started for.  *)

WatcherAt(w, l) == wpc[w] = l /\ UNCHANGED <<net, calls>>
WatcherTo(w, l) == wpc' = [wpc EXCEPT ![w] = l]

WatcherStart(w) ==
  /\ WatcherAt(w, "start")
  /\ WatcherTo(w, IF browser = None THEN "done" ELSE "wait")
  /\ UNCHANGED <<manager, probed>>

\* closingGracefully, in the loop or after a failed probe.
WatcherStops(w) ==
  /\ closing /\ (WatcherAt(w, "wait") \/ WatcherAt(w, "lost"))
  /\ WatcherTo(w, "done")
  /\ UNCHANGED <<manager, probed>>

\* Connected, then the browser that is shown (one that is gone in between
\* only costs the watcher a tick).
Tick(w) ==
  /\ WatcherAt(w, "wait")
  /\ WatcherTo(w, IF browser = None THEN "lost" ELSE "probe")
  /\ probed' = [probed EXCEPT ![w] = browser]
  /\ UNCHANGED manager

\* BrowserGetVersion on that browser.
Probe(w) ==
  /\ WatcherAt(w, "probe")
  /\ WatcherTo(w, IF probed[w] \in open THEN "wait" ELSE "lost")
  /\ probed' = [probed EXCEPT ![w] = None]
  /\ UNCHANGED manager

\* closingGracefully and the channel are tested, then the channel is closed;
\* m.LostConnection is read for the test and again for the close.
TestLost(w) ==
  /\ WatcherAt(w, "lost") /\ ~closing
  /\ WatcherTo(w, IF lost \in fired THEN "done" ELSE "fire")
  /\ UNCHANGED <<manager, probed>>

FireLost(w) ==
  /\ WatcherAt(w, "fire")
  /\ fired' = fired \cup {lost} /\ crashed' = (lost \in fired)
  /\ WatcherTo(w, "done")
  /\ UNCHANGED <<browser, guard, lost, closing, reconnectMu, pool, probed>>

Watcher(w) ==
  /\ ~crashed
  /\ \/ WatcherStart(w) \/ WatcherStops(w) \/ Tick(w) \/ Probe(w)
     \/ TestLost(w) \/ FireLost(w)

-----------------------------------------------------------------------------
\* Chrome crashes or the network drops a connection.
Drop(k) ==
  /\ ~crashed /\ k \in open
  /\ open' = open \ {k}
  /\ UNCHANGED <<made, closed, manager, calls, watch>>

Next ==
  \/ \E u \in Users : NewContext(u)
  \/ \E c \in Closers : Close(c)
  \/ \E k \in Conns : Watcher(k) \/ Drop(k)

\* The watchers' tickers and the goroutines of the calls are scheduled.  A call
\* has finitely many steps: that some call goes on means that all of them end.
Fairness ==
  /\ WF_vars(\E u \in Users : pc[u] # "idle" /\ NewContext(u))
  /\ \A w \in Conns : WF_vars(Watcher(w))

Spec == Init /\ [][Next]_vars
FairSpec == Spec /\ Fairness

-----------------------------------------------------------------------------
(* What the manager promises.                                              *)

\* Every connection that is up is the one m.browser shows or is in the hands
\* of a reconnect or a Close that still has to install or close it: failed
\* reconnects, and reconnects racing each other or Close, leave none behind.
NoConnectionLeaked ==
  \A k \in open :
    \/ browser = k
    \/ \E u \in Users : fresh[u] = k \/ (pc[u] = "closeOld" /\ b[u] = k)
    \/ \E c \in Closers : pc[c] = "close" /\ b[c] = k

\* When no reconnect is under way, the pool works on the connection that the
\* manager shows, guarded by that connection's guard.
PoolOnCurrentConnection ==
  browser # None /\ reconnectMu = None => pool = browser /\ guard = browser

\* LostConnection is not closed because of a Close: unless some connection was
\* dropped, or taken down by a reconnect, no watcher fires, however its probes
\* interleave with the steps of Close.
IntentionalCloseSilent ==
  fired # {} => \E k \in 0 .. made : k \notin open \cup closed

\* A dead connection that m.browser still shows, dropped by Chrome or left by
\* a failed reconnect, is announced on its LostConnection, unless it is
\* replaced or the manager is closed first (or the process dies of a double
\* close).
LossAnnounced ==
  \A k \in Conns : browser = k /\ k \notin open ~>
    k \in fired \/ closing \/ crashed \/ browser # k

\* What the comment on the field says: "LostConnection is closed when the CDP
\* connection drops unexpectedly".
LostMeansDropped == lost \in fired => lost \notin open
=============================================================================
