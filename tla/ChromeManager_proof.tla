------------------------- MODULE ChromeManager_proof -------------------------
(***************************************************************************)
(* Proofs about ChromeManager, for any number of callers, closers and      *)
(* connections: reconnects and Close leave no connection behind, the pool  *)
(* works on the connection that is shown, and a Close is not announced as  *)
(* a loss.                                                                 *)
(***************************************************************************)
EXTENDS ChromeManager, TLAPS

-----------------------------------------------------------------------------
(* Connections.                                                            *)

\* A reconnect holds a connection from Connect to its end, and a watcher one that
\* it probes.
Fresh ==
  /\ \A u \in Users : fresh[u] # None <=> pc[u] \in {"guard", "swap", "update"}
  /\ \A w \in Conns : wpc[w] = "probe" => probed[w] # None

Typed == TypeOK /\ Fresh

\* The connections anybody holds have been made.
Numbered ==
  /\ open \subseteq 0 .. made
  /\ browser # None => browser <= made
  /\ \A u \in Users : fresh[u] # None => fresh[u] <= made
  /\ \A w \in Conns : probed[w] # None => probed[w] <= made

\* m.reconnectMu is with the call that is inside reconnect.
InReconnect(u) == pc[u] \in {"closeOld", "connect", "guard", "swap", "update"}
Serialized == \A u \in Users : reconnectMu = u <=> InReconnect(u)

\* What m.browser shows during a reconnect is closed by it first, and is gone by
\* the time it is replaced.
OldClosed ==
  \A u \in Users :
    /\ pc[u] = "closeOld" => browser \in {None, b[u]}
    /\ pc[u] \in {"connect", "guard", "swap"} => browser \notin open

\* The pool follows the browser, and the guard is never another connection's.
CurrentPool ==
  browser # None =>
    /\ guard = browser
    /\ browser = pool \/ \E u \in Users : pc[u] = "update" /\ fresh[u] = browser

\* A new connection that was installed is shown until a Close takes it.
Installed ==
  \A u \in Users : pc[u] = "update" =>
    /\ browser \in {None, fresh[u]}
    /\ fresh[u] \in open =>
         browser = fresh[u] \/ \E c \in Closers : pc[c] = "close" /\ b[c] = fresh[u]

ConnInv ==
  Numbered /\ Serialized /\ OldClosed /\ CurrentPool /\ Installed /\ NoConnectionLeaked

-----------------------------------------------------------------------------
(* Losses.                                                                 *)

\* Some connection went down otherwise than by a Close; this stays so.
Lost == \E k \in 0 .. made : k \notin open \cup closed

\* A Close signals before it takes anything.
ClosersClose ==
  /\ \A c \in Closers : pc[c] \in {"nil", "close"} => closing
  /\ browser = None \/ closed # {} => closing

\* A watcher that missed an answer saw a loss, or a Close it has yet to test for.
LossSeen ==
  /\ \A w \in Conns : wpc[w] = "lost" => Lost \/ closing
  /\ \A w \in Conns : wpc[w] = "fire" => Lost
  /\ fired # {} => Lost

LossInv == ClosersClose /\ LossSeen

-----------------------------------------------------------------------------
(* Steps.                                                                  *)

\* The absent connection is not open.
LEMMA NoneNotOpen ==
  ASSUME Typed
  PROVE  None \notin open
<1>1. open \subseteq Nat BY BoundAssumption DEF Typed, TypeOK, Conns
<1> QED BY <1>1, NoneAssumption

\* Closing and forgetting connections keeps them numbered in the order they were made.
LEMMA NumberedKept ==
  ASSUME Numbered, open' \subseteq open, UNCHANGED <<made, browser, probed>>,
         \A u \in Users : fresh'[u] \in {fresh[u], None}
  PROVE  Numbered'
<1>1. open' \subseteq 0 .. made' BY DEF Numbered
<1>2. \A u \in Users : fresh'[u] # None => fresh'[u] <= made' BY DEF Numbered
<1> QED BY <1>1, <1>2 DEF Numbered

\* Every step keeps the types.
LEMMA TypesStep ==
  ASSUME Typed, Next
  PROVE  Typed'
<1> USE NoneAssumption, BoundAssumption
<1> USE DEF Typed, TypeOK, Fresh, Conns, net, manager, calls, watch, Goto
<1>1. ASSUME NEW u \in Users, NewContext(u) PROVE Typed'
  <2>1. CASE GetBrowser(u) BY <2>1 DEF GetBrowser
  <2>2. CASE CreateOK(u) BY <2>2 DEF CreateOK, Forget
  <2>3. CASE CreateFails(u) BY <2>3 DEF CreateFails, Forget
  <2>4. CASE LockReconnect(u) BY <2>4 DEF LockReconnect
  <2>5. CASE CloseOld(u) BY <2>5 DEF CloseOld, Forget
  <2>6. CASE ConnectOK(u) BY <2>6 DEF ConnectOK
  <2>7. CASE ConnectFails(u) BY <2>7 DEF ConnectFails, GiveUp
  <2>8. CASE InstallGuard(u) BY <2>8 DEF InstallGuard
  <2>9. CASE GuardFails(u) BY <2>9 DEF GuardFails, GiveUp
  <2>10. CASE Swap(u) BY <2>10 DEF Swap
  <2>11. CASE UpdatePool(u) BY <2>11 DEF UpdatePool
  <2> HIDE DEF Typed
  <2> QED BY <1>1, <2>1, <2>2, <2>3, <2>4, <2>5, <2>6, <2>7, <2>8, <2>9, <2>10,
            <2>11 DEF NewContext
<1>2. ASSUME NEW c \in Closers, Close(c) PROVE Typed'
  <2>1. CASE TestClosing(c) BY <2>1 DEF TestClosing
  <2>2. CASE SignalClosing(c) BY <2>2 DEF SignalClosing
  <2>3. CASE TakeBrowser(c) BY <2>3 DEF TakeBrowser
  <2>4. CASE CloseBrowser(c) BY <2>4 DEF CloseBrowser, Forget
  <2> HIDE DEF Typed
  <2> QED BY <1>2, <2>1, <2>2, <2>3, <2>4 DEF Close
<1>3. ASSUME NEW w \in Conns, Watcher(w) PROVE Typed'
  <2>1. CASE WatcherStart(w) BY <2>1 DEF WatcherStart, WatcherAt, WatcherTo
  <2>2. CASE WatcherStops(w)
    <3>1. /\ wpc' = [wpc EXCEPT ![w] = "done"] /\ UNCHANGED <<net, manager, calls, probed>>
      BY <2>2 DEF WatcherStops, WatcherAt, WatcherTo
    <3> QED BY <3>1
  <2>3. CASE Tick(w) BY <2>3 DEF Tick, WatcherAt, WatcherTo
  <2>4. CASE Probe(w) BY <2>4 DEF Probe, WatcherAt, WatcherTo
  <2>5. CASE TestLost(w) BY <2>5 DEF TestLost, WatcherAt, WatcherTo
  <2>6. CASE FireLost(w) BY <2>6 DEF FireLost, WatcherAt, WatcherTo
  <2> HIDE DEF Typed
  <2> QED BY <1>3, <2>1, <2>2, <2>3, <2>4, <2>5, <2>6 DEF Watcher
<1>4. ASSUME NEW k \in Conns, Drop(k) PROVE Typed' BY <1>4 DEF Drop
<1> QED
  <2> HIDE DEF Typed
  <2> QED BY <1>1, <1>2, <1>3, <1>4 DEF Next

\* Every step keeps where the connections are.
LEMMA ConnectionsStep ==
  ASSUME Typed, ConnInv, Next
  PROVE  ConnInv'
<1> USE NoneAssumption, BoundAssumption
<1> USE DEF Typed, TypeOK, Fresh, Conns, ConnInv, Numbered, Serialized, OldClosed,
            CurrentPool,
            Installed, NoConnectionLeaked, InReconnect, net, manager, calls, watch, Goto
<1>1. ASSUME NEW u \in Users, NewContext(u) PROVE ConnInv'
  <2>1. CASE GetBrowser(u) BY <2>1 DEF GetBrowser
  <2>2. CASE CreateOK(u) BY <2>2 DEF CreateOK, Forget
  <2>3. CASE CreateFails(u) BY <2>3 DEF CreateFails, Forget
  <2>4. CASE LockReconnect(u) BY <2>4 DEF LockReconnect
  <2>5. CASE CloseOld(u)
    <3>1. /\ pc[u] = "closeOld" /\ open' = open \ {b[u]}
          /\ pc' = [pc EXCEPT ![u] = "connect"]
          /\ b' = [b EXCEPT ![u] = None] /\ UNCHANGED <<made, manager, fresh, watch>>
      BY <2>5 DEF CloseOld, Forget
    <3>2. \A v \in Users : InReconnect(v) => v = u
      BY <3>1
    <3>3. Numbered' BY <3>1, <3>2
    <3>4. Serialized' BY <3>1, <3>2
    <3>5. OldClosed' BY <3>1, <3>2
    <3>6. CurrentPool' BY <3>1, <3>2
    <3>7. Installed' BY <3>1, <3>2
    <3>8. NoConnectionLeaked' BY <3>1, <3>2
    <3> QED BY <3>3, <3>4, <3>5, <3>6, <3>7, <3>8
  <2>6. CASE ConnectOK(u)
    <3>1. /\ pc[u] = "connect" /\ made' = made + 1 /\ open' = open \cup {made + 1}
          /\ fresh' = [fresh EXCEPT ![u] = made + 1] /\ pc' = [pc EXCEPT ![u] = "guard"]
          /\ UNCHANGED <<manager, b, watch>>
      BY <2>6 DEF ConnectOK
    <3>2. \A v \in Users : InReconnect(v) => v = u
      BY <3>1
    <3>3. fresh[u] = None /\ browser # made + 1
      BY <3>1
    <3>4. Numbered' BY <3>1, <3>2, <3>3
    <3>5. Serialized' BY <3>1, <3>2, <3>3
    <3>6. OldClosed' BY <3>1, <3>2, <3>3
    <3>7. CurrentPool' BY <3>1, <3>2, <3>3
    <3>8. Installed' BY <3>1, <3>2, <3>3
    <3>9. NoConnectionLeaked' BY <3>1, <3>2, <3>3
    <3> QED BY <3>4, <3>5, <3>6, <3>7, <3>8, <3>9
  <2>7. CASE ConnectFails(u)
    <3>1. /\ pc[u] = "connect" /\ pc' = [pc EXCEPT ![u] = "failed"]
          /\ fresh' = [fresh EXCEPT ![u] = None] /\ reconnectMu' = None
          /\ UNCHANGED <<open, made, browser, guard, pool, b, probed>>
      BY <2>7 DEF ConnectFails, GiveUp
    <3>2. \A v \in Users : InReconnect(v) => v = u
      BY <3>1
    <3>3. Numbered' BY <3>1, <3>2
    <3>4. Serialized' BY <3>1, <3>2
    <3>5. OldClosed' BY <3>1, <3>2
    <3>6. CurrentPool' BY <3>1, <3>2
    <3>7. Installed' BY <3>1, <3>2
    <3>8. NoConnectionLeaked' BY <3>1, <3>2
    <3> QED BY <3>3, <3>4, <3>5, <3>6, <3>7, <3>8
  <2>8. CASE InstallGuard(u)
    <3>1. /\ pc[u] = "guard" /\ pc' = [pc EXCEPT ![u] = "swap"]
          /\ UNCHANGED <<net, manager, b, fresh, watch>>
      BY <2>8 DEF InstallGuard
    <3>2. Numbered' BY <3>1
    <3>3. Serialized' BY <3>1
    <3>4. OldClosed' BY <3>1
    <3>5. CurrentPool' BY <3>1
    <3>6. Installed' BY <3>1
    <3>7. NoConnectionLeaked' BY <3>1
    <3> QED BY <3>2, <3>3, <3>4, <3>5, <3>6, <3>7
  <2>9. CASE GuardFails(u)
    <3>1. /\ pc[u] = "guard" /\ open' = open \ {fresh[u]}
          /\ pc' = [pc EXCEPT ![u] = "failed"]
          /\ fresh' = [fresh EXCEPT ![u] = None] /\ reconnectMu' = None
          /\ UNCHANGED <<made, browser, guard, pool, b, probed>>
      BY <2>9 DEF GuardFails, GiveUp
    <3>2. \A v \in Users : InReconnect(v) => v = u
      BY <3>1
    <3>3. open' \subseteq open /\ \A v \in Users : fresh'[v] \in {fresh[v], None}
      BY <3>1
    <3>4. Numbered'
      BY <3>1, <3>3, NumberedKept
    <3>5. Serialized' BY <3>1, <3>2
    <3>6. OldClosed' BY <3>1, <3>2
    <3>7. CurrentPool' BY <3>1, <3>2
    <3>8. Installed' BY <3>1, <3>2
    <3>9. NoConnectionLeaked' BY <3>1, <3>2
    <3> QED BY <3>4, <3>5, <3>6, <3>7, <3>8, <3>9
  <2>10. CASE Swap(u)
    <3>1. /\ pc[u] = "swap" /\ browser' = fresh[u] /\ guard' = fresh[u]
          /\ pc' = [pc EXCEPT ![u] = "update"]
          /\ UNCHANGED <<open, made, reconnectMu, pool, b, fresh, probed>>
      BY <2>10 DEF Swap
    <3>2. \A v \in Users : InReconnect(v) => v = u
      BY <3>1
    <3>3. fresh[u] \in Conns /\ browser \notin open
      BY <3>1
    <3>4. Numbered' BY <3>1, <3>2, <3>3
    <3>5. Serialized' BY <3>1, <3>2, <3>3
    <3>6. OldClosed' BY <3>1, <3>2, <3>3
    <3>7. CurrentPool' BY <3>1, <3>2, <3>3
    <3>8. Installed' BY <3>1, <3>2, <3>3
    <3>9. NoConnectionLeaked' BY <3>1, <3>2, <3>3
    <3> QED BY <3>4, <3>5, <3>6, <3>7, <3>8, <3>9
  <2>11. CASE UpdatePool(u)
    <3>1. /\ pc[u] = "update" /\ pool' = fresh[u] /\ reconnectMu' = None
          /\ fresh' = [fresh EXCEPT ![u] = None] /\ pc' = [pc EXCEPT ![u] = "again"]
          /\ UNCHANGED <<open, made, browser, guard, b, probed>>
      BY <2>11 DEF UpdatePool
    <3>2. \A v \in Users : InReconnect(v) => v = u
      BY <3>1
    <3>3. Numbered' BY <3>1, <3>2
    <3>4. Serialized' BY <3>1, <3>2
    <3>5. OldClosed' BY <3>1, <3>2
    <3>6. CurrentPool' BY <3>1, <3>2
    <3>7. Installed' BY <3>1, <3>2
    <3>8. NoConnectionLeaked' BY <3>1, <3>2
    <3> QED BY <3>3, <3>4, <3>5, <3>6, <3>7, <3>8
  <2> HIDE DEF ConnInv
  <2> QED BY <1>1, <2>1, <2>2, <2>3, <2>4, <2>5, <2>6, <2>7, <2>8, <2>9, <2>10,
            <2>11 DEF NewContext
<1>2. ASSUME NEW c \in Closers, Close(c) PROVE ConnInv'
  <2>1. CASE TestClosing(c) BY <2>1 DEF TestClosing
  <2>2. CASE SignalClosing(c) BY SMTT(30), <2>2 DEF SignalClosing
  <2>3. CASE TakeBrowser(c)
    <3>1. /\ pc[c] = "nil" /\ b' = [b EXCEPT ![c] = browser] /\ browser' = None
          /\ guard' = None
          /\ pc' = [pc EXCEPT ![c] = "close"]
          /\ UNCHANGED <<open, made, reconnectMu, pool, fresh, probed>>
      BY <2>3 DEF TakeBrowser
    <3>2. None \notin open
      BY NoneNotOpen
    <3>3. Numbered' BY <3>1, <3>2
    <3>4. Serialized' BY <3>1, <3>2
    <3>5. OldClosed' BY <3>1, <3>2
    <3>6. CurrentPool' BY <3>1, <3>2
    <3>7. Installed' BY <3>1, <3>2
    <3>8. NoConnectionLeaked' BY <3>1, <3>2
    <3> QED BY <3>3, <3>4, <3>5, <3>6, <3>7, <3>8
  <2>4. CASE CloseBrowser(c)
    <3>1. /\ pc[c] = "close" /\ open' = open \ {b[c]} /\ pc' = [pc EXCEPT ![c] = "ok"]
          /\ b' = [b EXCEPT ![c] = None] /\ UNCHANGED <<made, manager, fresh, watch>>
      BY <2>4 DEF CloseBrowser, Forget
    <3>2. Numbered' BY <3>1
    <3>3. Serialized' BY <3>1
    <3>4. OldClosed' BY <3>1
    <3>5. CurrentPool' BY <3>1
    <3>6. Installed' BY <3>1
    <3>7. NoConnectionLeaked' BY <3>1
    <3> QED BY <3>2, <3>3, <3>4, <3>5, <3>6, <3>7
  <2> HIDE DEF ConnInv
  <2> QED BY <1>2, <2>1, <2>2, <2>3, <2>4 DEF Close
<1>3. ASSUME NEW w \in Conns, Watcher(w) PROVE ConnInv'
  <2>1. CASE WatcherStart(w) BY <2>1 DEF WatcherStart, WatcherAt, WatcherTo
  <2>2. CASE WatcherStops(w)
    <3>1. UNCHANGED <<net, manager, calls, probed>>
      BY <2>2 DEF WatcherStops, WatcherAt
    <3>2. Numbered' BY <3>1
    <3>3. Serialized' BY <3>1
    <3>4. OldClosed' BY <3>1
    <3>5. CurrentPool' BY <3>1
    <3>6. Installed' BY <3>1
    <3>7. NoConnectionLeaked' BY <3>1
    <3> QED BY <3>2, <3>3, <3>4, <3>5, <3>6, <3>7
  <2>3. CASE Tick(w) BY <2>3 DEF Tick, WatcherAt, WatcherTo
  <2>4. CASE Probe(w) BY <2>4 DEF Probe, WatcherAt, WatcherTo
  <2>5. CASE TestLost(w) BY <2>5 DEF TestLost, WatcherAt, WatcherTo
  <2>6. CASE FireLost(w) BY <2>6 DEF FireLost, WatcherAt, WatcherTo
  <2> HIDE DEF ConnInv
  <2> QED BY <1>3, <2>1, <2>2, <2>3, <2>4, <2>5, <2>6 DEF Watcher
<1>4. ASSUME NEW k \in Conns, Drop(k) PROVE ConnInv' BY <1>4 DEF Drop
<1> QED
  <2> HIDE DEF ConnInv
  <2> QED BY <1>1, <1>2, <1>3, <1>4 DEF Next

\* Every step keeps what watchers know of a loss.
LEMMA WatchersStep ==
  ASSUME Typed, ConnInv, LossInv, Next
  PROVE  LossInv'
<1> USE NoneAssumption, BoundAssumption
<1> USE DEF Typed, TypeOK, Fresh, Conns, ConnInv, Numbered, LossInv, ClosersClose,
            LossSeen, Lost, net, manager, calls, watch, Goto
<1>1. ASSUME NEW u \in Users, NewContext(u) PROVE LossInv'
  <2>1. CASE GetBrowser(u) BY <2>1 DEF GetBrowser
  <2>2. CASE CreateOK(u) BY <2>2 DEF CreateOK, Forget
  <2>3. CASE CreateFails(u) BY <2>3 DEF CreateFails, Forget
  <2>4. CASE LockReconnect(u) BY <2>4 DEF LockReconnect
  <2>5. CASE CloseOld(u) BY <2>5 DEF CloseOld, Forget
  <2>6. CASE ConnectOK(u) BY <2>6 DEF ConnectOK
  <2>7. CASE ConnectFails(u) BY <2>7 DEF ConnectFails, GiveUp
  <2>8. CASE InstallGuard(u) BY <2>8 DEF InstallGuard
  <2>9. CASE GuardFails(u) BY <2>9 DEF GuardFails, GiveUp
  <2>10. CASE Swap(u) BY <2>10 DEF Swap
  <2>11. CASE UpdatePool(u) BY <2>11 DEF UpdatePool
  <2> HIDE DEF LossInv
  <2> QED BY <1>1, <2>1, <2>2, <2>3, <2>4, <2>5, <2>6, <2>7, <2>8, <2>9, <2>10,
            <2>11 DEF NewContext
<1>2. ASSUME NEW c \in Closers, Close(c) PROVE LossInv'
  <2>1. CASE TestClosing(c) BY <2>1 DEF TestClosing
  <2>2. CASE SignalClosing(c) BY <2>2 DEF SignalClosing
  <2>3. CASE TakeBrowser(c) BY <2>3 DEF TakeBrowser
  <2>4. CASE CloseBrowser(c) BY <2>4 DEF CloseBrowser, Forget
  <2> HIDE DEF LossInv
  <2> QED BY <1>2, <2>1, <2>2, <2>3, <2>4 DEF Close
<1>3. ASSUME NEW w \in Conns, Watcher(w) PROVE LossInv'
  <2>1. CASE WatcherStart(w) BY <2>1 DEF WatcherStart, WatcherAt, WatcherTo
  <2>2. CASE WatcherStops(w) BY <2>2 DEF WatcherStops, WatcherAt, WatcherTo
  <2>3. CASE Tick(w) BY <2>3 DEF Tick, WatcherAt, WatcherTo
  <2>4. CASE Probe(w) BY <2>4 DEF Probe, WatcherAt, WatcherTo
  <2>5. CASE TestLost(w) BY <2>5 DEF TestLost, WatcherAt, WatcherTo
  <2>6. CASE FireLost(w) BY <2>6 DEF FireLost, WatcherAt, WatcherTo
  <2> HIDE DEF LossInv
  <2> QED BY <1>3, <2>1, <2>2, <2>3, <2>4, <2>5, <2>6 DEF Watcher
<1>4. ASSUME NEW k \in Conns, Drop(k) PROVE LossInv' BY <1>4 DEF Drop
<1> QED
  <2> HIDE DEF LossInv
  <2> QED BY <1>1, <1>2, <1>3, <1>4 DEF Next

-----------------------------------------------------------------------------
(* The theorems.                                                           *)

ManagerInv == Typed /\ ConnInv /\ LossInv

LEMMA InitManager ==
  ASSUME Init
  PROVE  ManagerInv
<1> USE NoneAssumption, BoundAssumption DEF Init
<1>1. 0 \in Conns BY DEF Conns
<1>2. Typed BY <1>1 DEF Typed, TypeOK, Fresh
<1>3. ConnInv
  BY <1>1 DEF ConnInv, Numbered, Serialized, OldClosed, CurrentPool, Installed,
              NoConnectionLeaked, InReconnect
<1>4. LossInv BY <1>1 DEF LossInv, ClosersClose, LossSeen, Lost
<1> QED BY <1>2, <1>3, <1>4 DEF ManagerInv

LEMMA ManagerStep ==
  ASSUME ManagerInv, [Next]_vars
  PROVE  ManagerInv'
<1>1. CASE Next
  BY <1>1, TypesStep, ConnectionsStep, WatchersStep DEF ManagerInv
<1>2. CASE UNCHANGED vars
  <2> USE <1>2 DEF vars, net, manager, calls, watch, ManagerInv
  <2>1. Typed' BY DEF Typed, TypeOK, Fresh
  <2>2. ConnInv'
    BY DEF ConnInv, Numbered, Serialized, OldClosed, CurrentPool, Installed,
           NoConnectionLeaked, InReconnect
  <2>3. LossInv' BY DEF LossInv, ClosersClose, LossSeen, Lost
  <2> QED BY <2>1, <2>2, <2>3
<1> QED BY <1>1, <1>2

\* The inductive invariant of the manager.
LEMMA ManagerHolds == Spec => []ManagerInv
  BY InitManager, ManagerStep, PTL DEF Spec

\* TypeOK always holds.
THEOREM ManagerTypes == Spec => []TypeOK
<1>1. ManagerInv => TypeOK BY DEF ManagerInv, Typed
<1> QED BY <1>1, ManagerHolds, PTL

\* Failed reconnects, and reconnects racing each other or Close, leave no
\* connection open that nobody will close.
THEOREM NoConnectionLeft == Spec => []NoConnectionLeaked
<1>1. ManagerInv => NoConnectionLeaked BY DEF ManagerInv, ConnInv
<1> QED BY <1>1, ManagerHolds, PTL

\* Between reconnects the pool and the guard are those of the connection shown.
THEOREM PoolFollowsBrowser == Spec => []PoolOnCurrentConnection
<1>1. ManagerInv => PoolOnCurrentConnection
  BY NoneAssumption
  DEF ManagerInv, ConnInv, CurrentPool, Serialized, InReconnect, PoolOnCurrentConnection
<1> QED BY <1>1, ManagerHolds, PTL

\* No watcher announces a Close as the loss of the connection.
THEOREM CloseIsSilent == Spec => []IntentionalCloseSilent
<1>1. ManagerInv => IntentionalCloseSilent
  BY DEF ManagerInv, LossInv, LossSeen, Lost, IntentionalCloseSilent
<1> QED BY <1>1, ManagerHolds, PTL
=============================================================================
