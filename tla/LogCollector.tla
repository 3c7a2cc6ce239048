---------------------------- MODULE LogCollector ----------------------------
(***************************************************************************)
(* The LogCollector of one managed page (src/logs.go): its subscription to *)
(* the page's CDP events and a ring buffer.  The four buffers (network,    *)
(* console, exceptions, navigations) are filled by the same code; the one  *)
(* here is c.network.  Its later patches of status and error are data no   *)
(* property tells apart and are left out.                                  *)
(*                                                                         *)
(* A subscription is a goroutine (runLoop) named by whoever started it:    *)
(* the request that called Resubscribe, or Page for SubscribeCDP at the    *)
(* page's creation.  Interaction composes this module with its callers and *)
(* says whose context has not ended ("live").                              *)
(***************************************************************************)
EXTENDS Naturals, SequencesExt

CONSTANTS
  Loops,    \* who may start a subscription
  Page,     \* the one started when the page is created
  Limit,    \* maxLogEntries
  MaxSent,  \* bound on the events of a page
  MaxInbox, \* bound on the events a subscription has not dispatched
  None

ASSUME LimitAssumption == Limit \in Nat \ {0} /\ MaxSent \in Nat
ASSUME LoopAssumption == Page \in Loops /\ None \notin Loops

Sent == 1 .. MaxSent

VARIABLES
  sent,     \* number of events the page has sent to a subscription
  inbox,    \* events delivered to a subscription and not dispatched
  loop,     \* state of a subscription's goroutine
  sub,      \* the subscription c.subCancel cancels
  subMu,    \* who holds c.subMu
  network,  \* the ring buffer
  dropped,  \* c.droppedNetwork
  history   \* every event recorded, in order

subscription == <<inbox, loop, sub, subMu>>
buffer == <<network, dropped, history>>
collector == <<sent, subscription, buffer>>

LogTypeOK ==
  /\ sent \in 0 .. MaxSent /\ inbox \in [Loops -> Seq(Sent)]
  /\ loop \in [Loops -> {"off", "on", "cancelled"}]
  /\ sub \in Loops \cup {None} /\ subMu \in Loops \cup {None}
  /\ network \in Seq(Sent) /\ Len(network) <= Limit
  /\ dropped \in Nat /\ history \in Seq(Sent)

\* NewLogCollector.
LogInit ==
  /\ sent = 0
  /\ inbox = [l \in Loops |-> <<>>] /\ loop = [l \in Loops |-> "off"]
  /\ sub = None /\ subMu = None
  /\ network = <<>> /\ dropped = 0 /\ history = <<>>

\* A new page has a collector of its own: with the subscription of SubscribeCDP
\* (on), or before it (off).
LogNewPage(state) ==
  /\ sent' = 0
  /\ inbox' = [l \in Loops |-> <<>>]
  /\ loop' = [l \in Loops |-> IF l = Page THEN state ELSE "off"]
  /\ sub' = (IF state = "on" THEN Page ELSE None) /\ subMu' = None
  /\ network' = <<>> /\ dropped' = 0 /\ history' = <<>>

-----------------------------------------------------------------------------
\* The page sends an event to the subscriptions whose context has not ended;
\* an event that finds none changes nothing.
Send(live) ==
  LET receivers == {l \in live : loop[l] = "on"} IN
    /\ sent < MaxSent /\ receivers # {}
    /\ \A l \in Loops : Len(inbox[l]) < MaxInbox
    /\ sent' = sent + 1
    /\ inbox' = [l \in Loops |-> IF l \in receivers THEN Append(inbox[l], sent + 1) ELSE inbox[l]]
    /\ UNCHANGED <<loop, sub, subMu, buffer>>

(* startSubscription, under subMu: the old subscription is cancelled, the  *)
(* domains are enabled, the new one subscribes.                            *)

\* Mutant of CancelOld: the old goroutine is left running.
CancelOldForgotten(l) ==
  /\ subMu = None /\ subMu' = l
  /\ UNCHANGED <<sent, inbox, loop, sub, buffer>>

CancelOld(l) ==
  /\ subMu = None /\ subMu' = l
  /\ loop' = IF sub # None /\ loop[sub] = "on" THEN [loop EXCEPT ![sub] = "cancelled"] ELSE loop
  /\ UNCHANGED <<sent, inbox, sub, buffer>>

\* Mutant of Subscribe: c.subCancel is overwritten before it is called.
SubscribeCancelled(l) ==
  /\ subMu = l /\ subMu' = None
  /\ loop' = [loop EXCEPT ![l] = "cancelled"] /\ sub' = l
  /\ UNCHANGED <<sent, inbox, buffer>>

Subscribe(l) ==
  /\ subMu = l /\ subMu' = None
  /\ loop' = [loop EXCEPT ![l] = "on"] /\ sub' = l
  /\ UNCHANGED <<sent, inbox, buffer>>

\* runLoop sees that its context ended; what it has not received is lost.
LoopEnds(l, live) ==
  /\ loop[l] = "cancelled" \/ (loop[l] = "on" /\ l \notin live)
  /\ loop' = [loop EXCEPT ![l] = "off"] /\ inbox' = [inbox EXCEPT ![l] = <<>>]
  /\ UNCHANGED <<sent, sub, subMu, buffer>>

\* Mutant of AddNetwork: one entry too many before the oldest is dropped.
AddNetworkLate(e) ==
  /\ history' = Append(history, e)
  /\ network' = Append(IF Len(network) <= Limit THEN network ELSE Tail(network), e)
  /\ dropped' = IF Len(network) <= Limit THEN dropped ELSE dropped + 1

\* Under c.mu.
AddNetwork(e) ==
  /\ history' = Append(history, e)
  /\ network' = Append(IF Len(network) < Limit THEN network ELSE Tail(network), e)
  /\ dropped' = IF Len(network) < Limit THEN dropped ELSE dropped + 1

\* A goroutine whose context has ended may still receive: select takes either.
Dispatch(l) ==
  /\ loop[l] # "off" /\ inbox[l] # <<>>
  /\ inbox' = [inbox EXCEPT ![l] = Tail(@)]
  /\ AddNetwork(Head(inbox[l]))
  /\ UNCHANGED <<sent, loop, sub, subMu>>

-----------------------------------------------------------------------------
\* The buffer holds the newest events recorded, in order and no more than the
\* limit, and the counter says how many are missing, none before it is full: what
\* is lost is observable ("silent data loss is now observable", AddNetwork).
WindowOfHistory ==
  /\ Len(network) + dropped = Len(history)
  /\ Len(network) <= Limit /\ (dropped > 0 => Len(network) = Limit)
  /\ \A k \in DOMAIN network : network[k] = history[dropped + k]

\* No event is recorded twice although subscriptions replace each other while
\* events arrive (startSubscription cancels the old goroutine under subMu
\* before the new one subscribes; two of them leaked is what RunInteract's
\* reuse of the page's collector is for).
EachEventOnce == IsInjective(history)
=============================================================================
