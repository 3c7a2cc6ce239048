-------------------------- MODULE Interaction_proof --------------------------
(***************************************************************************)
(* Proofs about LogCollector and about Interaction, which composes it with *)
(* the requests that use a page: what the buffers show and what is lost,   *)
(* and that a chain at work is listened to; for any number of requests,    *)
(* pages, actions and events, and any limit of the buffer.                 *)
(***************************************************************************)
EXTENDS Interaction, TLAPS

-----------------------------------------------------------------------------
(* The collector.                                                          *)

\* The subscription that receives events is the one c.subCancel cancels, and
\* there is none while another one is started.
OnlySub == \A l \in Loops : loop[l] = "on" => sub = l /\ subMu = None

InboxesApart ==
  \A l, m \in Loops : \A i \in 1 .. Len(inbox[l]) : \A j \in 1 .. Len(inbox[m]) :
    inbox[l][i] = inbox[m][j] => l = m /\ i = j

RecordedOnly ==
  \A l \in Loops : \A i \in 1 .. Len(inbox[l]) : \A j \in 1 .. Len(history) :
    inbox[l][i] # history[j]

\* An event is in one place: not sent yet, in one inbox, once, or recorded, once.
InOnePlace ==
  /\ \A l \in Loops : \A i \in 1 .. Len(inbox[l]) : inbox[l][i] <= sent
  /\ \A j \in 1 .. Len(history) : history[j] <= sent
  /\ InboxesApart
  /\ RecordedOnly
  /\ \A i, j \in 1 .. Len(history) : history[i] = history[j] => i = j

LogInv == LogTypeOK /\ OnlySub /\ InOnePlace /\ WindowOfHistory

\* A new page starts with nothing.
LEMMA NewPageKeeps ==
  ASSUME NEW state \in {"on", "off"}, LogNewPage(state)
  PROVE  LogInv'
<1> USE LoopAssumption, LimitAssumption DEF LogNewPage
<1>1. LogTypeOK' BY DEF LogTypeOK, Sent
<1>2. OnlySub' BY DEF OnlySub
<1>3. InOnePlace' BY DEF InOnePlace, InboxesApart, RecordedOnly
<1>4. WindowOfHistory' BY DEF WindowOfHistory
<1> QED BY <1>1, <1>2, <1>3, <1>4 DEF LogInv

\* An event goes to one inbox at most.
LEMMA SendKeeps ==
  ASSUME LogInv, NEW live, Send(live)
  PROVE  LogInv'
<1> USE LoopAssumption, LimitAssumption DEF LogInv
<1>1. sent' = sent + 1 /\ sent \in Nat /\ sent < MaxSent /\ sent + 1 \in Sent
  BY DEF Send, LogTypeOK, Sent
<1>2. UNCHANGED <<loop, sub, subMu, network, dropped, history>> BY DEF Send, buffer
<1>3. \A l \in Loops : inbox[l] \in Seq(Sent) BY DEF LogTypeOK
<1>4. \A l \in Loops :
        inbox'[l] = inbox[l] \/ (l = sub /\ inbox'[l] = Append(inbox[l], sent + 1))
  BY DEF Send, OnlySub, LogTypeOK
<1>5. \A l \in Loops : \A i \in 1 .. Len(inbox'[l]) :
        \/ i \in 1 .. Len(inbox[l]) /\ inbox'[l][i] = inbox[l][i]
        \/ l = sub /\ i = Len(inbox[l]) + 1 /\ inbox'[l][i] = sent + 1
  <2> HIDE DEF LogInv
  <2> SUFFICES ASSUME NEW l \in Loops, NEW i \in 1 .. Len(inbox'[l])
               PROVE  \/ i \in 1 .. Len(inbox[l]) /\ inbox'[l][i] = inbox[l][i]
                      \/ l = sub /\ i = Len(inbox[l]) + 1 /\ inbox'[l][i] = sent + 1
    OBVIOUS
  <2>1. CASE inbox'[l] = inbox[l]
    BY <2>1
  <2>2. CASE l = sub /\ inbox'[l] = Append(inbox[l], sent + 1)
    <3>1. inbox[l] \in Seq(Sent) BY <1>3
    <3> QED BY <1>1, <2>2, <3>1
  <2> QED BY <1>4, <2>1, <2>2
<1>6. LogTypeOK'
  <2>1. inbox' \in [Loops -> Seq(Sent)] BY <1>1, <1>3 DEF Send
  <2> QED BY <1>1, <1>2, <2>1 DEF LogTypeOK
<1>7. OnlySub' BY <1>2 DEF OnlySub
<1>8. InOnePlace'
  <2>1. \A l \in Loops : \A i \in 1 .. Len(inbox[l]) : inbox[l][i] <= sent /\ inbox[l][i] \in Nat
    BY <1>3 DEF InOnePlace, Sent
  <2>2. \A j \in 1 .. Len(history) : history[j] <= sent /\ history[j] \in Nat
    BY DEF InOnePlace, LogTypeOK, Sent
  <2>3. \A l \in Loops : \A i \in 1 .. Len(inbox'[l]) : inbox'[l][i] <= sent'
    BY <1>1, <1>5, <2>1
  <2>4. \A j \in 1 .. Len(history') : history'[j] <= sent'
    BY <1>1, <1>2, <2>2
  <2>5. ASSUME NEW l \in Loops, NEW m \in Loops, NEW i \in 1 .. Len(inbox'[l]),
               NEW j \in 1 .. Len(inbox'[m]), inbox'[l][i] = inbox'[m][j]
        PROVE  l = m /\ i = j
    <3>1. CASE i \in 1 .. Len(inbox[l]) /\ inbox'[l][i] = inbox[l][i]
      <4>1. inbox'[m][j] # sent + 1 BY <1>1, <2>1, <2>5, <3>1
      <4>2. j \in 1 .. Len(inbox[m]) /\ inbox'[m][j] = inbox[m][j] BY <1>5, <4>1
      <4>3. InboxesApart BY DEF InOnePlace
      <4>4. inbox[l][i] = inbox[m][j] BY <2>5, <3>1, <4>2
      <4> HIDE DEF LogInv
      <4> QED BY <3>1, <4>2, <4>3, <4>4 DEF InboxesApart
    <3>2. CASE l = sub /\ i = Len(inbox[l]) + 1 /\ inbox'[l][i] = sent + 1
      <4>1. ~(j \in 1 .. Len(inbox[m]) /\ inbox'[m][j] = inbox[m][j])
        BY <1>1, <2>1, <2>5, <3>2
      <4>2. m = sub /\ j = Len(inbox[m]) + 1 BY <1>5, <4>1
      <4> QED BY <3>2, <4>2
    <3> QED BY <1>5, <3>1, <3>2
  <2>6. ASSUME NEW l \in Loops, NEW i \in 1 .. Len(inbox'[l]), NEW j \in 1 .. Len(history)
        PROVE  inbox'[l][i] # history[j]
    <3>1. CASE i \in 1 .. Len(inbox[l]) /\ inbox'[l][i] = inbox[l][i]
      BY <3>1 DEF InOnePlace, RecordedOnly
    <3>2. CASE inbox'[l][i] = sent + 1 BY <1>1, <2>2, <3>2
    <3> QED BY <1>5, <3>1, <3>2
  <2>7. \A i, j \in 1 .. Len(history) : history[i] = history[j] => i = j BY DEF InOnePlace
  <2> QED BY <1>2, <2>3, <2>4, <2>5, <2>6, <2>7 DEF InOnePlace, InboxesApart, RecordedOnly
<1>9. WindowOfHistory' BY <1>2 DEF WindowOfHistory
<1> QED BY <1>6, <1>7, <1>8, <1>9

\* startSubscription, up to the cancellation of the old subscription.
LEMMA CancelKeeps ==
  ASSUME LogInv, NEW l \in Loops, CancelOld(l)
  PROVE  LogInv'
<1> USE LoopAssumption, LimitAssumption DEF LogInv, CancelOld
<1>1. UNCHANGED <<sent, inbox, sub, network, dropped, history>> BY DEF buffer
<1>2. LogTypeOK' BY <1>1 DEF LogTypeOK
<1>3. \A m \in Loops : loop'[m] # "on" BY DEF OnlySub, LogTypeOK
<1>4. OnlySub' BY <1>3 DEF OnlySub
<1>5. InOnePlace'
  <2>1. InOnePlace OBVIOUS
  <2> HIDE DEF LogInv, CancelOld
  <2> QED BY <1>1, <2>1 DEF InOnePlace, InboxesApart, RecordedOnly
<1>6. WindowOfHistory' BY <1>1 DEF WindowOfHistory
<1> QED BY <1>2, <1>4, <1>5, <1>6

\* ... and the new one.
LEMMA SubscribeKeeps ==
  ASSUME LogInv, NEW l \in Loops, Subscribe(l)
  PROVE  LogInv'
<1> USE LoopAssumption, LimitAssumption DEF LogInv, Subscribe
<1>1. UNCHANGED <<sent, inbox, network, dropped, history>> BY DEF buffer
<1>2. LogTypeOK' BY <1>1 DEF LogTypeOK
<1>3. OnlySub' BY DEF OnlySub, LogTypeOK
<1>4. InOnePlace' BY <1>1 DEF InOnePlace, InboxesApart, RecordedOnly
<1>5. WindowOfHistory' BY <1>1 DEF WindowOfHistory
<1> QED BY <1>2, <1>3, <1>4, <1>5

\* A subscription ends, and what it has not received is lost.
LEMMA LoopEndsKeeps ==
  ASSUME LogInv, NEW l \in Loops, NEW live, LoopEnds(l, live)
  PROVE  LogInv'
<1> USE LoopAssumption, LimitAssumption DEF LogInv, LoopEnds
<1>1. UNCHANGED <<sent, sub, subMu, network, dropped, history>> BY DEF buffer
<1>2. LogTypeOK' BY <1>1 DEF LogTypeOK
<1>3. OnlySub' BY <1>1 DEF OnlySub, LogTypeOK
<1>4. \A m \in Loops : inbox'[m] \in {inbox[m], <<>>} BY DEF LogTypeOK
<1>5. InOnePlace'
  <2>1. \A m \in Loops : \A i \in 1 .. Len(inbox'[m]) :
          i \in 1 .. Len(inbox[m]) /\ inbox'[m][i] = inbox[m][i]
    BY <1>4
  <2> QED BY <1>1, <2>1 DEF InOnePlace, InboxesApart, RecordedOnly
<1>6. WindowOfHistory' BY <1>1 DEF WindowOfHistory
<1> QED BY <1>2, <1>3, <1>5, <1>6

\* AddNetwork keeps the buffer a window of the history.
LEMMA AddKeepsWindow ==
  ASSUME LogTypeOK, WindowOfHistory, NEW e \in Sent, AddNetwork(e)
  PROVE  /\ WindowOfHistory'
         /\ network' \in Seq(Sent) /\ Len(network') <= Limit
         /\ dropped' \in Nat /\ history' \in Seq(Sent)
<1> USE LimitAssumption DEF LogTypeOK, WindowOfHistory
<1>0. /\ Len(network) + dropped = Len(history)
      /\ Len(network) \in Nat /\ dropped \in Nat /\ Len(history) \in Nat
  OBVIOUS
<1>1. /\ history' \in Seq(Sent) /\ Len(history') = Len(history) + 1
      /\ \A j \in 1 .. Len(history) : history'[j] = history[j]
      /\ history'[Len(history) + 1] = e
  BY DEF AddNetwork
<1>2. CASE Len(network) < Limit
  <2>1. /\ network' = Append(network, e) /\ dropped' = dropped
    BY <1>2 DEF AddNetwork
  <2>2. /\ network' \in Seq(Sent) /\ Len(network') = Len(network) + 1
        /\ \A k \in 1 .. Len(network) : network'[k] = network[k]
        /\ network'[Len(network) + 1] = e
    BY <2>1
  <2>3. ASSUME NEW k \in 1 .. Len(network) + 1 PROVE network'[k] = history'[dropped' + k]
    <3>1. CASE k \in 1 .. Len(network)
      <4>1. network[k] = history[dropped + k]
        <5>1. DOMAIN network = 1 .. Len(network) BY DEF LogTypeOK
        <5>2. \A i \in DOMAIN network : network[i] = history[dropped + i] BY DEF WindowOfHistory
        <5> HIDE DEF LogTypeOK, WindowOfHistory
        <5> QED BY <3>1, <5>1, <5>2
      <4>2. dropped + k \in 1 .. Len(history)
        <5> HIDE DEF LogTypeOK, WindowOfHistory
        <5> QED BY <1>0, <3>1
      <4> QED BY <1>1, <2>1, <2>2, <3>1, <4>1, <4>2
    <3>2. CASE k = Len(network) + 1
      <4>1. dropped + k = Len(history) + 1
        <5> HIDE DEF LogTypeOK, WindowOfHistory
        <5> QED BY <1>0, <3>2
      <4> QED BY <1>1, <2>1, <2>2, <3>2, <4>1
    <3> QED BY <3>1, <3>2
  <2> QED BY <1>1, <1>2, <2>1, <2>2, <2>3
<1>3. CASE Len(network) >= Limit
  <2>1. network' = Append(Tail(network), e) /\ dropped' = dropped + 1 /\ Len(network) = Limit
    BY <1>3 DEF AddNetwork
  <2>2. /\ Tail(network) \in Seq(Sent) /\ Len(Tail(network)) = Len(network) - 1
        /\ \A k \in 1 .. Len(network) - 1 : Tail(network)[k] = network[k + 1]
    BY <2>1
  <2>3. /\ network' \in Seq(Sent) /\ Len(network') = Len(network)
        /\ \A k \in 1 .. Len(network) - 1 : network'[k] = network[k + 1]
        /\ network'[Len(network)] = e
    BY <2>1, <2>2
  <2>4. ASSUME NEW k \in 1 .. Len(network) PROVE network'[k] = history'[dropped' + k]
    <3>1. CASE k \in 1 .. Len(network) - 1
      <4>1. k + 1 \in DOMAIN network BY <3>1
      <4>2. network[k + 1] = history[dropped + (k + 1)] BY <4>1
      <4>3. dropped + (k + 1) = dropped' + k /\ dropped' + k \in 1 .. Len(history)
        BY <2>1, <3>1
      <4> QED BY <1>1, <2>3, <3>1, <4>2, <4>3
    <3>2. CASE k = Len(network)
      <4>1. dropped' + k = Len(history) + 1
        <5> HIDE DEF LogTypeOK, WindowOfHistory
        <5> QED BY <1>0, <2>1, <3>2
      <4> QED BY <1>1, <2>3, <3>2, <4>1
    <3> QED BY <3>1, <3>2
  <2>5. /\ Len(network') + dropped' = Len(history') /\ Len(network') = Limit
        /\ DOMAIN network' = 1 .. Len(network)
    <3>1. Len(network') = Limit /\ DOMAIN network' = 1 .. Len(network) BY <2>1, <2>3
    <3>2. Len(network) + (dropped + 1) = Len(history) + 1
      <4> HIDE DEF LogTypeOK, WindowOfHistory
      <4> QED BY <1>0
    <3> QED BY <1>1, <2>1, <2>3, <3>1, <3>2
  <2>6. WindowOfHistory'
    <3> HIDE DEF LogTypeOK
    <3> QED BY <2>4, <2>5
  <2> QED BY SMTT(30), <1>0, <1>1, <2>1, <2>3, <2>5, <2>6
<1> QED BY <1>2, <1>3

\* An event is moved from its inbox to the buffer.
LEMMA DispatchKeeps ==
  ASSUME LogInv, NEW l \in Loops, Dispatch(l)
  PROVE  LogInv'
<1> DEFINE e == Head(inbox[l])
<1> USE LoopAssumption, LimitAssumption DEF LogInv
<1>1. /\ inbox[l] \in Seq(Sent) /\ inbox[l] # <<>> /\ e \in Sent
      /\ e = inbox[l][1] /\ 1 \in 1 .. Len(inbox[l])
  BY DEF Dispatch, LogTypeOK
<1>2. AddNetwork(e) BY DEF Dispatch
<1>3. UNCHANGED <<sent, loop, sub, subMu>> BY DEF Dispatch
<1>4. /\ WindowOfHistory'
      /\ network' \in Seq(Sent) /\ Len(network') <= Limit
      /\ dropped' \in Nat /\ history' \in Seq(Sent)
  BY <1>1, <1>2, AddKeepsWindow
<1>5. inbox' = [inbox EXCEPT ![l] = Tail(inbox[l])] /\ Tail(inbox[l]) \in Seq(Sent)
  BY <1>1 DEF Dispatch
<1>6. LogTypeOK' BY <1>3, <1>4, <1>5 DEF LogTypeOK
<1>7. OnlySub' BY <1>3 DEF OnlySub
<1>8. \A m \in Loops : \A i \in 1 .. Len(inbox'[m]) :
        \/ m # l /\ i \in 1 .. Len(inbox[m]) /\ inbox'[m][i] = inbox[m][i]
        \/ m = l /\ i + 1 \in 2 .. Len(inbox[m]) /\ inbox'[m][i] = inbox[m][i + 1]
  BY <1>1, <1>5 DEF LogTypeOK
<1>9. /\ Len(history') = Len(history) + 1 /\ history'[Len(history) + 1] = e
      /\ \A j \in 1 .. Len(history) : history'[j] = history[j]
  BY <1>1, <1>2 DEF AddNetwork, LogTypeOK
<1>10. InOnePlace'
  <2> HIDE DEF e
  <2> DEFINE at(m, i) == IF m = l THEN i + 1 ELSE i
  <2>1. \A m \in Loops : \A i \in 1 .. Len(inbox'[m]) :
          /\ at(m, i) \in 1 .. Len(inbox[m]) /\ inbox'[m][i] = inbox[m][at(m, i)]
          /\ m = l => at(m, i) # 1
    BY <1>8
  <2>2. \A m \in Loops : \A i \in 1 .. Len(inbox'[m]) : inbox'[m][i] <= sent' /\ inbox'[m][i] # e
    <3>1. SUFFICES ASSUME NEW m \in Loops, NEW i \in 1 .. Len(inbox'[m])
                   PROVE  inbox'[m][i] <= sent' /\ inbox'[m][i] # e
      OBVIOUS
    <3>2. InboxesApart BY DEF InOnePlace
    <3>3. inbox[m][at(m, i)] <= sent
      <4> HIDE DEF at
      <4> QED BY <2>1 DEF InOnePlace
    <3>4. inbox[m][at(m, i)] # inbox[l][1]
      <4> HIDE DEF at, LogInv
      <4> QED BY <1>1, <2>1, <3>2 DEF InboxesApart
    <3> HIDE DEF at
    <3> QED BY <1>1, <1>3, <2>1, <3>3, <3>4
  <2>3. \A j \in 1 .. Len(history') :
          \/ j \in 1 .. Len(history) /\ history'[j] = history[j]
          \/ j = Len(history) + 1 /\ history'[j] = e
    BY <1>9 DEF LogTypeOK
  <2>4. \A j \in 1 .. Len(history') : history'[j] <= sent'
    BY <1>1, <1>3, <2>3 DEF InOnePlace
  <2>5. ASSUME NEW m \in Loops, NEW n \in Loops, NEW i \in 1 .. Len(inbox'[m]),
               NEW j \in 1 .. Len(inbox'[n]), inbox'[m][i] = inbox'[n][j]
        PROVE  m = n /\ i = j
    <3>1. m = n /\ at(m, i) = at(n, j)
      <4>1. InboxesApart BY DEF InOnePlace
      <4>2. inbox[m][at(m, i)] = inbox[n][at(n, j)] BY <2>1, <2>5
      <4> HIDE DEF at, LogInv
      <4> QED BY <2>1, <4>1, <4>2 DEF InboxesApart
    <3> QED BY <3>1
  <2>6. ASSUME NEW m \in Loops, NEW i \in 1 .. Len(inbox'[m]), NEW j \in 1 .. Len(history')
        PROVE  inbox'[m][i] # history'[j]
    <3>1. CASE history'[j] = e BY <2>2, <3>1
    <3>2. CASE j \in 1 .. Len(history) /\ history'[j] = history[j]
      <4>1. at(m, i) \in 1 .. Len(inbox[m]) /\ inbox'[m][i] = inbox[m][at(m, i)] BY <2>1
      <4> HIDE DEF at
      <4>2. inbox[m][at(m, i)] # history[j] BY <3>2, <4>1 DEF InOnePlace, RecordedOnly
      <4> HIDE DEF LogInv
      <4> QED BY <3>2, <4>1, <4>2
    <3> QED BY <2>3, <3>1, <3>2
  <2>7. \A j \in 1 .. Len(history) : history[j] # e
    BY <1>1 DEF InOnePlace, RecordedOnly
  <2>8. \A i, j \in 1 .. Len(history') : history'[i] = history'[j] => i = j
    BY <2>3, <2>7 DEF InOnePlace
  <2> QED BY <2>2, <2>4, <2>5, <2>6, <2>8 DEF InOnePlace, InboxesApart, RecordedOnly
<1> QED BY <1>4, <1>6, <1>7, <1>10

\* Steps that do not touch the collector keep its invariant.
LEMMA CollectorKept ==
  ASSUME LogInv, UNCHANGED collector
  PROVE  LogInv'
BY DEF LogInv, LogTypeOK, OnlySub, InOnePlace, InboxesApart, RecordedOnly,
       WindowOfHistory, collector, subscription, buffer

-----------------------------------------------------------------------------
(* The requests.                                                           *)

\* Every step of the composition is one of the collector, or leaves it alone.
LEMMA LogStep ==
  ASSUME LogInv, Next
  PROVE  LogInv'
<1> USE LoopAssumption, LimitAssumption, RequestAssumption, BoundAssumption
<1>1. ASSUME NEW r \in Requests, RunInteract(r) PROVE LogInv'
  <2>1. CASE Reuse(r) BY <2>1, CollectorKept DEF Reuse, Return
  <2>2. CASE Refused(r) BY <2>2, CollectorKept DEF Refused, Return
  <2>3. CASE Create(r) BY <2>3, NewPageKeeps DEF Create, NewEntry
  <2>4. CASE Adopt(r) BY <2>4, NewPageKeeps DEF Adopt, NewEntry
  <2>5. CASE AdoptSubscribe(r)
    BY <2>5, CancelKeeps, SubscribeKeeps, CollectorKept DEF AdoptSubscribe
  <2>6. CASE Prepare(r) BY <2>6, CollectorKept DEF Prepare
  <2>7. CASE ReturnEarly(r) BY <2>7, CollectorKept DEF ReturnEarly, Return
  <2>8. CASE ResubscribeCancel(r) BY <2>8, CancelKeeps, CollectorKept DEF ResubscribeCancel
  <2>9. CASE Resubscribe(r) BY <2>9, SubscribeKeeps, CollectorKept DEF Resubscribe
  <2>10. CASE StartAction(r) BY <2>10, CollectorKept DEF StartAction
  <2>11. CASE ActionOK(r) BY <2>11, CollectorKept DEF ActionOK, EndAction
  <2>12. ASSUME NEW skip \in BOOLEAN, ActionFails(r, skip) PROVE LogInv'
    BY <2>12, CollectorKept DEF ActionFails, EndAction
  <2>13. CASE Final(r) BY <2>13, CollectorKept DEF Final
  <2>14. CASE CloseSession(r) BY <2>14, CollectorKept DEF CloseSession, CloseEntry
  <2>15. CASE Respond(r) BY <2>15, CollectorKept DEF Respond, Return
  <2>16. CASE Dispose(r) BY <2>16, CollectorKept DEF Dispose
  <2>17. CASE Disposed(r) BY <2>17, CollectorKept DEF Disposed
  <2> HIDE DEF LogInv
  <2> QED
    BY <1>1, <2>1, <2>2, <2>3, <2>4, <2>5, <2>6, <2>7, <2>8, <2>9, <2>10, <2>11, <2>12,
       <2>13, <2>14, <2>15, <2>16, <2>17
    DEF RunInteract
<1>2. ASSUME NEW r \in Requests, Expire(r) PROVE LogInv'
  BY <1>2, CollectorKept DEF Expire
<1>3. ASSUME OnDestroyed PROVE LogInv'
  BY <1>3, CollectorKept DEF OnDestroyed, CloseEntry
<1>4. ASSUME Reap PROVE LogInv'
  BY <1>4, CollectorKept DEF Reap, CloseEntry
<1>5. ASSUME ReapDisposes \/ ReapDisposed PROVE LogInv'
  BY <1>5, CollectorKept DEF ReapDisposes, ReapDisposed
<1>6. ASSUME SetDetached PROVE LogInv'
  BY <1>6, CollectorKept DEF SetDetached
<1>7. ASSUME TabSends PROVE LogInv'
  BY <1>7, SendKeeps DEF TabSends
<1>8. ASSUME NEW l \in Loops, Dispatch(l), UNCHANGED <<session, request>> PROVE LogInv'
  BY <1>8, DispatchKeeps 
<1>9. ASSUME NEW l \in Loops, LoopEnds(l, Live), UNCHANGED <<session, request>>
      PROVE LogInv'
  BY <1>9, LoopEndsKeeps 
<1> QED
  <2> HIDE DEF LogInv
  <2>1. ASSUME NEW l \in Loops, RunLoop(l) PROVE LogInv' BY <2>1, <1>8, <1>9 DEF RunLoop
  <2> QED BY <1>1, <1>2, <1>3, <1>4, <1>5, <1>6, <1>7, <2>1 DEF Next

Typed == TypeOK /\ LogInv

\* What a request works on, and what is mapped, is a page that was opened.
Opened ==
  /\ entry # None => entry <= page
  /\ \A r \in Requests : mp[r] # None => mp[r] <= page

\* Who subscribed last has subscribed, and a chain at work finds somebody who has.
Subscribed ==
  /\ \A r \in Requests : sub = r =>
       pc[r] \notin {"idle", "adopt", "adopted", "prepare", "cancel", "subscribe"}
  /\ \A r \in Requests : pc[r] \in {"next", "acting", "call"} /\ mp[r] = page => sub # None

\* The last subscription runs for as long as its context lives.
Listens == subMu = None /\ sub \in Live => loop[sub] = "on"

ListenInv == Opened /\ Subscribed /\ Listens

\* Every step keeps the types.
LEMMA TypesStep ==
  ASSUME Typed, Next
  PROVE  Typed'
<1> USE LoopAssumption, LimitAssumption, RequestAssumption, BoundAssumption
<1> USE DEF Typed, TypeOK, Pages, session, chain, request, Goto
<1> LogInv' /\ LogTypeOK' BY LogStep DEF LogInv
<1> HIDE DEF LogInv
<1>1. ASSUME NEW r \in Requests, RunInteract(r) PROVE Typed'
  <2>1. CASE Reuse(r)
    <3>1. CASE Return(r)
      BY <2>1, <3>1 DEF Reuse, Return
    <3>2. CASE mp' = [mp EXCEPT ![r] = entry] /\ Goto(r, "prepare") /\ UNCHANGED <<ended, chain>>
      <4>1. entry \in Pages BY <2>1 DEF Reuse
      <4>2. UNCHANGED <<page, entry, open, detached, ephemeral, reaper, ended, left, failed>>
        BY <2>1, <3>2 DEF Reuse
      <4> QED BY <3>2, <4>1, <4>2
    <3> QED BY <2>1, <3>1, <3>2 DEF Reuse
  <2>2. CASE Refused(r) BY <2>2 DEF Refused, Return
  <2>3. CASE Create(r)
    <3>1. page + 1 \in Pages /\ page + 1 \in 0 .. MaxPages BY <2>3 DEF Create, NewEntry
    <3>2. /\ page' = page + 1 /\ entry' = page + 1 /\ open' = open \cup {page + 1}
          /\ detached' = FALSE /\ mp' = [mp EXCEPT ![r] = page + 1]
          /\ \E l \in {"prepare", "adopt"} : pc' = [pc EXCEPT ![r] = l]
          /\ UNCHANGED <<ephemeral, reaper, ended, left, failed>>
      BY <2>3 DEF Create, NewEntry
    <3> QED BY <3>1, <3>2
  <2>4. CASE Adopt(r)
    <3>1. page + 1 \in Pages /\ page + 1 \in 0 .. MaxPages BY <2>4 DEF Adopt, NewEntry
    <3>2. /\ page' = page + 1 /\ entry' = page + 1 /\ open' = open \cup {page + 1}
          /\ detached' = FALSE /\ mp' = [mp EXCEPT ![r] = page + 1]
          /\ \E l \in {"prepare", "adopt"} : pc' = [pc EXCEPT ![r] = l]
          /\ UNCHANGED <<ephemeral, reaper, ended, left, failed>>
      BY <2>4 DEF Adopt, NewEntry
    <3> QED BY <3>1, <3>2
  <2>5. CASE AdoptSubscribe(r) BY <2>5 DEF AdoptSubscribe
  <2>6. CASE Prepare(r) BY <2>6 DEF Prepare
  <2>7. CASE ReturnEarly(r) BY <2>7 DEF ReturnEarly, Return
  <2>8. CASE ResubscribeCancel(r) BY <2>8 DEF ResubscribeCancel
  <2>9. CASE Resubscribe(r) BY <2>9 DEF Resubscribe
  <2>10. CASE StartAction(r) BY <2>10 DEF StartAction
  <2>11. CASE ActionOK(r) BY <2>11 DEF ActionOK, EndAction
  <2>12. ASSUME NEW skip \in BOOLEAN, ActionFails(r, skip) PROVE Typed'
    BY <2>12 DEF ActionFails, EndAction
  <2>13. CASE Final(r) BY <2>13 DEF Final
  <2>14. CASE CloseSession(r) BY <2>14 DEF CloseSession, CloseEntry
  <2>15. CASE Respond(r) BY <2>15 DEF Respond, Return
  <2>16. CASE Dispose(r) BY <2>16 DEF Dispose
  <2>17. CASE Disposed(r) BY <2>17 DEF Disposed
  <2> HIDE DEF Typed
  <2> QED
    BY <1>1, <2>1, <2>2, <2>3, <2>4, <2>5, <2>6, <2>7, <2>8, <2>9, <2>10, <2>11, <2>12,
       <2>13, <2>14, <2>15, <2>16, <2>17
    DEF RunInteract
<1>2. ASSUME NEW r \in Requests, Expire(r) PROVE Typed'
  BY <1>2 DEF Expire
<1>3. ASSUME OnDestroyed PROVE Typed'
  BY <1>3 DEF OnDestroyed, CloseEntry
<1>4. ASSUME Reap PROVE Typed'
  BY <1>4 DEF Reap, CloseEntry
<1>5. ASSUME ReapDisposes \/ ReapDisposed PROVE Typed'
  BY <1>5 DEF ReapDisposes, ReapDisposed
<1>6. ASSUME SetDetached PROVE Typed'
  BY <1>6 DEF SetDetached
<1>7. ASSUME TabSends PROVE Typed'
  BY <1>7 DEF TabSends
<1>8. ASSUME NEW l \in Loops, Dispatch(l), UNCHANGED <<session, request>> PROVE Typed'
  BY <1>8 DEF Dispatch
<1>9. ASSUME NEW l \in Loops, LoopEnds(l, Live), UNCHANGED <<session, request>> PROVE Typed'
  BY <1>9 DEF LoopEnds
<1> QED
  <2> HIDE DEF Typed
  <2>1. ASSUME NEW l \in Loops, RunLoop(l) PROVE Typed' BY <2>1, <1>8, <1>9 DEF RunLoop
  <2> QED BY <1>1, <1>2, <1>3, <1>4, <1>5, <1>6, <1>7, <2>1 DEF Next


\* Every step keeps the chains listened to.
LEMMA ListenStep ==
  ASSUME Typed, ListenInv, Next
  PROVE  ListenInv'
<1> USE LoopAssumption, LimitAssumption, RequestAssumption, BoundAssumption
<1> USE DEF Typed, TypeOK, LogTypeOK, LogInv, Pages, ListenInv, Opened, Listens, Subscribed,
            Live, Running, collector, subscription, buffer, session, chain, request, Goto
<1>1. ASSUME NEW r \in Requests, RunInteract(r) PROVE ListenInv'
  <2>1. CASE Reuse(r)
    <3>1. UNCHANGED <<page, entry, open, sub, subMu, loop>> BY <2>1 DEF Reuse
    <3>2. CASE Return(r)
      BY <3>1, <3>2 DEF Return
    <3>3. CASE mp' = [mp EXCEPT ![r] = entry] /\ Goto(r, "prepare") /\ UNCHANGED <<ended, chain>>
      <4>1. pc[r] = "idle" /\ sub # r /\ entry \in Pages BY <2>1 DEF Reuse
      <4>2. Opened' /\ Subscribed' BY <2>1, <3>1, <3>3, <4>1 DEF Reuse
      <4>3. sub \in Live' => sub \in Live BY <3>1, <3>3, <4>1
      <4>4. Listens' BY <3>1, <4>3
      <4> QED BY <4>2, <4>4
    <3> QED BY <2>1, <3>2, <3>3 DEF Reuse
  <2>2. CASE Refused(r) BY <2>2 DEF Refused, Return
  <2>3. CASE Create(r) BY SMTT(30), <2>3 DEF Create, NewEntry, LogNewPage
  <2>4. CASE Adopt(r) BY SMTT(30), <2>4 DEF Adopt, NewEntry, LogNewPage
  <2>5. CASE AdoptSubscribe(r) BY SMTT(30), <2>5 DEF AdoptSubscribe, CancelOld, Subscribe
  <2>6. CASE Prepare(r) BY <2>6 DEF Prepare
  <2>7. CASE ReturnEarly(r) BY <2>7 DEF ReturnEarly, Return
  <2>8. CASE ResubscribeCancel(r) BY SMTT(30), <2>8 DEF ResubscribeCancel, CancelOld
  <2>9. CASE Resubscribe(r) BY <2>9 DEF Resubscribe, Subscribe
  <2>10. CASE StartAction(r) BY <2>10 DEF StartAction
  <2>11. CASE ActionOK(r) BY <2>11 DEF ActionOK, EndAction
  <2>12. ASSUME NEW skip \in BOOLEAN, ActionFails(r, skip) PROVE ListenInv'
    BY <2>12 DEF ActionFails, EndAction
  <2>13. CASE Final(r) BY <2>13 DEF Final
  <2>14. CASE CloseSession(r)
    <3>1. UNCHANGED <<page, mp, sub, subMu, loop>> BY <2>14 DEF CloseSession
    <3>2. \A q \in Requests : pc'[q] = pc[q] \/ pc'[q] \in {"dispose", "snapshot"}
      BY <2>14 DEF CloseSession
    <3>3. CASE CloseEntry
      <4>1. Opened' BY <3>1, <3>3 DEF CloseEntry
      <4> QED BY SMTT(30), <2>14, <3>1, <3>3, <4>1 DEF CloseSession, CloseEntry
    <3>4. CASE UNCHANGED <<entry, open, detached>>
      BY SMTT(30), <2>14, <3>1, <3>4 DEF CloseSession
    <3> QED BY <2>14, <3>3, <3>4 DEF CloseSession
  <2>15. CASE Respond(r) BY <2>15 DEF Respond, Return
  <2>16. CASE Dispose(r) BY <2>16 DEF Dispose
  <2>17. CASE Disposed(r) BY <2>17 DEF Disposed
  <2> HIDE DEF ListenInv
  <2> QED
    BY <1>1, <2>1, <2>2, <2>3, <2>4, <2>5, <2>6, <2>7, <2>8, <2>9, <2>10, <2>11, <2>12,
       <2>13, <2>14, <2>15, <2>16, <2>17
    DEF RunInteract
<1>2. ASSUME NEW r \in Requests, Expire(r) PROVE ListenInv'
  BY <1>2 DEF Expire
<1>3. ASSUME OnDestroyed PROVE ListenInv'
  BY <1>3 DEF OnDestroyed, CloseEntry
<1>4. ASSUME Reap PROVE ListenInv'
  BY <1>4 DEF Reap, CloseEntry
<1>5. ASSUME ReapDisposes \/ ReapDisposed PROVE ListenInv'
  BY <1>5 DEF ReapDisposes, ReapDisposed
<1>6. ASSUME SetDetached PROVE ListenInv'
  BY <1>6 DEF SetDetached
<1>7. ASSUME TabSends PROVE ListenInv'
  BY <1>7 DEF TabSends, Send
<1>8. ASSUME NEW l \in Loops, Dispatch(l), UNCHANGED <<session, request>> PROVE ListenInv'
  BY <1>8 DEF Dispatch
<1>9. ASSUME NEW l \in Loops, LoopEnds(l, Live), UNCHANGED <<session, request>>
      PROVE ListenInv'
  BY <1>9 DEF LoopEnds, Live, Running
<1> QED
  <2> HIDE DEF ListenInv
  <2>1. ASSUME NEW l \in Loops, RunLoop(l) PROVE ListenInv' BY <2>1, <1>8, <1>9 DEF RunLoop
  <2> QED BY <1>1, <1>2, <1>3, <1>4, <1>5, <1>6, <1>7, <2>1 DEF Next

-----------------------------------------------------------------------------
(* The theorems.                                                           *)

InteractionInv == Typed /\ ListenInv

LEMMA InitInteraction ==
  ASSUME Init
  PROVE  InteractionInv
<1> USE LoopAssumption, LimitAssumption, RequestAssumption, BoundAssumption
<1> USE DEF Init, LogInit
<1>1. TypeOK
  <2>1. LogTypeOK BY DEF LogTypeOK, Sent
  <2>2. /\ page \in 0 .. MaxPages /\ entry \in Pages \cup {None} /\ open \subseteq Pages
        /\ left \in [Requests -> 0 .. MaxActions]
    BY DEF Pages
  <2> QED BY <2>1, <2>2 DEF TypeOK
<1>2. OnlySub BY DEF OnlySub
<1>3. InOnePlace BY DEF InOnePlace, InboxesApart, RecordedOnly
<1>4. WindowOfHistory BY DEF WindowOfHistory
<1>5. ListenInv BY DEF ListenInv, Opened, Listens, Subscribed, Live
<1> QED BY <1>1, <1>2, <1>3, <1>4, <1>5 DEF InteractionInv, Typed, LogInv, TypeOK

LEMMA InteractionStep ==
  ASSUME InteractionInv, [Next]_vars
  PROVE  InteractionInv'
<1>1. CASE Next
  BY <1>1, TypesStep, ListenStep DEF InteractionInv
<1>2. CASE UNCHANGED vars
  <2> USE <1>2 DEF vars, InteractionInv
  <2>1. LogInv' BY CollectorKept DEF Typed
  <2>2. TypeOK' BY <2>1 DEF Typed, TypeOK, LogInv, session, request, chain
  <2>3. ListenInv'
    BY DEF ListenInv, Opened, Listens, Subscribed, Live, Running, session, request, collector,
           subscription
  <2> QED BY <2>1, <2>2, <2>3 DEF Typed
<1> QED BY <1>1, <1>2

\* The inductive invariant of the composition.
LEMMA InteractionHolds == Spec => []InteractionInv
  BY InitInteraction, InteractionStep, PTL DEF Spec

\* TypeOK always holds.
THEOREM InteractionTypes == Spec => []TypeOK
<1>1. InteractionInv => TypeOK BY DEF InteractionInv, Typed
<1> QED BY <1>1, InteractionHolds, PTL

\* The ring buffer of a page's collector is always the newest part of what was
\* recorded, and its counter says what is missing (AddNetwork).
THEOREM BufferIsWindow == Spec => []WindowOfHistory
<1>1. InteractionInv => WindowOfHistory BY DEF InteractionInv, Typed, LogInv
<1> QED BY <1>1, InteractionHolds, PTL

\* No event is recorded twice, however requests replace each other's
\* subscriptions and pages replace each other (startSubscription).
THEOREM NoEventTwice == Spec => []EachEventOnce
<1>1. InteractionInv => EachEventOnce
  <2> SUFFICES ASSUME InteractionInv PROVE EachEventOnce OBVIOUS
  <2>1. \A i, j \in 1 .. Len(history) : history[i] = history[j] => i = j
    BY DEF InteractionInv, Typed, LogInv, InOnePlace
  <2>2. DOMAIN history = 1 .. Len(history)
    BY DEF InteractionInv, Typed, LogInv, LogTypeOK
  <2> QED BY <2>1, <2>2 DEF EachEventOnce, IsInjective
<1> QED BY <1>1, InteractionHolds, PTL

\* While a chain is at work the last subscription of its page receives, whoever
\* started it, unless that was another request, which has ended since
\* (startSubscription binds the listener to the page it is given).
THEOREM ChainsAreListenedTo == Spec => []ListenerWhileActing
<1>1. InteractionInv => ListenerWhileActing
  BY LoopAssumption, RequestAssumption
  DEF InteractionInv, Typed, TypeOK, LogTypeOK, ListenInv, Subscribed, Listens,
      ListenerWhileActing, Live, Running, CtxEnded
<1> QED BY <1>1, InteractionHolds, PTL
=============================================================================
