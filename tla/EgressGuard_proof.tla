------------------------- MODULE EgressGuard_proof -------------------------
(***************************************************************************)
(* Proofs about EgressGuard, for any sets of callers, servers, requests,   *)
(* hosts and challenges and any bound on the registrations.                *)
(***************************************************************************)
EXTENDS EgressGuard, TLAPS

\* Only a request for a known host is checked, continued and answered.
HostKnown ==
  \A q \in Requests : req[q] \in {"checked", "continued", "over"} => host[q] # None

PausedAt(i, q) == queue[i].kind = "paused" /\ queue[i].id = q

\* An event in the queue is of a request that waits for it, once, or of one
\* that is over.
QueueMatches ==
  \A i \in DOMAIN queue :
    /\ queue[i].kind = "paused" =>
         /\ queue[i].id \in Requests /\ req[queue[i].id] = "paused"
         /\ \A j \in DOMAIN queue : PausedAt(j, queue[i].id) => j = i
    /\ queue[i].kind = "response" => queue[i].id \in Requests /\ req[queue[i].id] = "over"

Typed == TypeOK /\ HostKnown /\ QueueMatches

-----------------------------------------------------------------------------
(* Sequences.                                                              *)

\* The positions of a queue after an event is put at its end.
LEMMA AppendAt ==
  ASSUME NEW S, NEW s \in Seq(S), NEW e \in S
  PROVE  /\ Append(s, e) \in Seq(S) /\ DOMAIN Append(s, e) = 1 .. Len(s) + 1
         /\ \A i \in DOMAIN s : Append(s, e)[i] = s[i]
         /\ Append(s, e)[Len(s) + 1] = e /\ DOMAIN s = 1 .. Len(s) /\ Len(s) \in Nat
  OBVIOUS

\* The positions of a queue after its first event is taken.
LEMMA TailAt ==
  ASSUME NEW S, NEW s \in Seq(S), s # <<>>
  PROVE  /\ Tail(s) \in Seq(S) /\ Len(s) \in Nat /\ Len(s) >= 1
         /\ DOMAIN s = 1 .. Len(s) /\ DOMAIN Tail(s) = 1 .. Len(s) - 1
         /\ \A i \in DOMAIN Tail(s) : Tail(s)[i] = s[i + 1]
         /\ Head(s) = s[1] /\ Head(s) \in S
  OBVIOUS

\* The events of Chrome's answers are events.
LEMMA EventsMade ==
  /\ \A q \in Requests : Event("paused", q, None) \in Events
  /\ \A q \in Requests, ip \in {"public", "private", "loopback"} :
       Event("response", q, ip) \in Events
  /\ \A x \in Challenges : Event("auth", x, None) \in Events
  BY DEF Event, Events

-----------------------------------------------------------------------------
(* Types.                                                                  *)

LEMMA InitTyped == Init => Typed
  BY DEF Init, Typed, TypeOK, HostKnown, QueueMatches, Events

LEMMA PauseTyped ==
  ASSUME Typed, NEW q \in Requests, NEW h \in Hosts \cup {None}, Pause(q, h)
  PROVE  Typed'
<1> DEFINE e == Event("paused", q, None)
<1>1. e \in Events /\ e.kind = "paused" /\ e.id = q
  BY EventsMade DEF Event
<1>2. /\ queue' = Append(queue, e) /\ queue \in Seq(Events)
      /\ req[q] = "none" /\ req' = [req EXCEPT ![q] = "paused"]
      /\ host' = [host EXCEPT ![q] = h]
  BY DEF Pause, State, Typed, TypeOK
<1>3. /\ queue' \in Seq(Events) /\ DOMAIN queue' = 1 .. Len(queue) + 1
      /\ \A i \in DOMAIN queue : queue'[i] = queue[i]
      /\ queue'[Len(queue) + 1] = e /\ DOMAIN queue = 1 .. Len(queue) /\ Len(queue) \in Nat
  BY <1>1, <1>2, AppendAt
<1>4. TypeOK'
  BY <1>2, <1>3 DEF Typed, TypeOK, Pause, State, config, auth
<1>5. HostKnown'
  BY <1>2 DEF Typed, TypeOK, HostKnown
<1>6. \A i \in DOMAIN queue : ~PausedAt(i, q) /\ (queue[i].kind = "response" => queue[i].id # q)
  BY <1>2 DEF Typed, QueueMatches, PausedAt
<1>7. QueueMatches'
  BY <1>1, <1>2, <1>3, <1>6 DEF Typed, TypeOK, QueueMatches, PausedAt
<1> QED BY <1>4, <1>5, <1>7 DEF Typed

LEMMA RespondTyped ==
  ASSUME Typed, NEW q \in Requests, NEW ip \in {"public", "private", "loopback"}, Respond(q, ip)
  PROVE  Typed'
<1> DEFINE e == Event("response", q, ip)
<1>1. e \in Events /\ e.kind = "response" /\ e.id = q
  BY EventsMade DEF Event
<1>2. /\ queue' = Append(queue, e) /\ queue \in Seq(Events)
      /\ req[q] = "continued" /\ req' = [req EXCEPT ![q] = "over"]
      /\ host' = host /\ host[q] \in Hosts
  BY DEF Respond, State, Typed, TypeOK, HostKnown
<1>3. /\ queue' \in Seq(Events) /\ DOMAIN queue' = 1 .. Len(queue) + 1
      /\ \A i \in DOMAIN queue : queue'[i] = queue[i]
      /\ queue'[Len(queue) + 1] = e /\ DOMAIN queue = 1 .. Len(queue) /\ Len(queue) \in Nat
  BY <1>1, <1>2, AppendAt
<1>4. TypeOK'
  BY <1>2, <1>3 DEF Typed, TypeOK, Respond, State, config, auth
<1>5. HostKnown'
  BY <1>2 DEF Typed, TypeOK, HostKnown
<1>6. \A i \in DOMAIN queue : ~PausedAt(i, q)
  BY <1>2 DEF Typed, QueueMatches, PausedAt
<1>7. QueueMatches'
  BY <1>1, <1>2, <1>3, <1>6 DEF Typed, TypeOK, QueueMatches, PausedAt
<1> QED BY <1>4, <1>5, <1>7 DEF Typed

LEMMA ChallengeTyped ==
  ASSUME Typed, NEW x \in Challenges, NEW o \in Servers \cup {None}, Challenge(x, o)
  PROVE  Typed'
<1> DEFINE e == Event("auth", x, None)
<1>1. e \in Events /\ e.kind = "auth"
  BY EventsMade DEF Event
<1>2. queue' = Append(queue, e) /\ queue \in Seq(Events) /\ req' = req /\ host' = host
  BY DEF Challenge, Typed, TypeOK, traffic
<1>3. /\ queue' \in Seq(Events) /\ DOMAIN queue' = 1 .. Len(queue) + 1
      /\ \A i \in DOMAIN queue : queue'[i] = queue[i]
      /\ queue'[Len(queue) + 1] = e /\ DOMAIN queue = 1 .. Len(queue) /\ Len(queue) \in Nat
  BY <1>1, <1>2, AppendAt
<1>4. TypeOK'
  BY <1>2, <1>3 DEF Typed, TypeOK, Challenge, config, traffic
<1>5. HostKnown' /\ QueueMatches'
  BY <1>1, <1>2, <1>3 DEF Typed, HostKnown, QueueMatches, PausedAt
<1> QED BY <1>4, <1>5 DEF Typed

\* An event leaves the queue: what is left is what was there, one place further.
LEMMA ReceiveQueue ==
  ASSUME Typed, NEW kind, Receive(kind)
  PROVE  /\ queue' \in Seq(Events) /\ Len(queue) \in Nat /\ Len(queue) >= 1
         /\ DOMAIN queue = 1 .. Len(queue) /\ DOMAIN queue' = 1 .. Len(queue) - 1
         /\ \A i \in DOMAIN queue' :
              i + 1 \in DOMAIN queue /\ i + 1 # 1 /\ queue'[i] = queue[i + 1]
         /\ 1 \in DOMAIN queue /\ Head(queue) = queue[1] /\ Head(queue) \in Events /\ Head(queue).kind = kind
  BY TailAt DEF Receive, Typed, TypeOK

LEMMA LoopTyped ==
  ASSUME Typed, Loop
  PROVE  Typed'
<1>1. CASE SpawnPaused
  <2> DEFINE q == queue[1].id
  <2>1. Receive("paused") BY <1>1 DEF SpawnPaused
  <2>2. q \in Requests /\ req[q] = "paused" /\ \A j \in DOMAIN queue : PausedAt(j, q) => j = 1
    BY <2>1, ReceiveQueue DEF Typed, QueueMatches
  <2>3. req' = [req EXCEPT ![q] = "handled"] /\ host' = host
    BY <1>1, <2>1, ReceiveQueue DEF SpawnPaused, State
  <2>4. TypeOK'
    BY <1>1, <2>1, <2>2, <2>3, ReceiveQueue
       DEF SpawnPaused, Receive, Typed, TypeOK, config
  <2>5. HostKnown'
    BY <2>2, <2>3 DEF Typed, TypeOK, HostKnown
  <2>6. \A i \in DOMAIN queue' : queue'[i].kind = "paused" => queue'[i].id # q
    BY <2>1, <2>2, ReceiveQueue DEF PausedAt
  <2>7. \A i, j \in DOMAIN queue' : i + 1 = j + 1 => i = j
    BY <2>1, ReceiveQueue
  <2>8. \A i \in DOMAIN queue' : queue'[i].kind = "response" => queue'[i].id # q
    BY <2>1, <2>2, ReceiveQueue DEF Typed, QueueMatches
  <2>9. QueueMatches'
    BY <2>1, <2>2, <2>3, <2>6, <2>7, <2>8, ReceiveQueue DEF Typed, TypeOK, QueueMatches, PausedAt
  <2> QED BY <2>4, <2>5, <2>9 DEF Typed
<1>2. CASE SpawnAuth
  <2>1. Receive("auth") /\ UNCHANGED traffic BY <1>2 DEF SpawnAuth
  <2>2. TypeOK'
    BY <1>2, <2>1, ReceiveQueue DEF SpawnAuth, Receive, Typed, TypeOK, config, traffic
  <2>3. HostKnown' /\ QueueMatches'
    BY <2>1, ReceiveQueue DEF Typed, HostKnown, QueueMatches, PausedAt, traffic
  <2> QED BY <2>2, <2>3 DEF Typed
<1>3. ASSUME CheckResponseIP \/ \E local \in BOOLEAN : CheckFrameNavigated(local) PROVE Typed'
  <2>1. /\ Receive("response") /\ req' = req /\ host' = host
        /\ rebind' \in {rebind, rebind \cup {host[queue[1].id]}}
        /\ late' = late /\ exposed' = exposed /\ chal' = chal
    BY <1>3, ReceiveQueue DEF CheckResponseIP, CheckFrameNavigated, Flag
  <2>2. queue[1].id \in Requests /\ req[queue[1].id] = "over"
    BY <2>1, ReceiveQueue DEF Typed, QueueMatches
  <2>3. host[queue[1].id] \in Hosts
    BY <2>2 DEF Typed, TypeOK, HostKnown
  <2>4. TypeOK'
    BY <2>1, <2>3, ReceiveQueue DEF Receive, Typed, TypeOK, config
  <2>5. HostKnown' /\ QueueMatches'
    BY <2>1, ReceiveQueue DEF Typed, HostKnown, QueueMatches, PausedAt
  <2> QED BY <2>4, <2>5 DEF Typed
<1> QED BY <1>1, <1>2, <1>3 DEF Loop

LEMMA SettleTyped ==
  ASSUME Typed, NEW q \in Requests, NEW s \in {"continued", "failed", "checked"}, Settle(q, s),
         req[q] \in {"handled", "checked"}, s # "failed" => host[q] # None
  PROVE  Typed'
<1>1. /\ req' = [req EXCEPT ![q] = s] /\ host' = host /\ queue' = queue
  BY DEF Settle, State
<1>2. TypeOK'
  BY <1>1 DEF Settle, Typed, TypeOK, config, auth
<1>3. HostKnown'
  BY <1>1 DEF Typed, TypeOK, HostKnown
<1>4. QueueMatches'
  BY <1>1 DEF Typed, TypeOK, QueueMatches, PausedAt
<1> QED BY <1>2, <1>3, <1>4 DEF Typed

LEMMA RespondPausedTyped ==
  ASSUME Typed, NEW q \in Requests, RespondPaused(q)
  PROVE  Typed'
<1>1. CASE NoRequest(q)
  BY <1>1, SettleTyped DEF NoRequest
<1>2. CASE Bypass(q)
  BY <1>2, SettleTyped DEF Bypass
<1>3. CASE TestRebind(q)
  BY <1>3, SettleTyped DEF TestRebind
<1>4. ASSUME NEW ok \in BOOLEAN, CheckURL(q, ok) PROVE Typed'
  <2>1. host[q] # None
    BY <1>4 DEF CheckURL, Typed, HostKnown
  <2> QED BY <1>4, <2>1, SettleTyped DEF CheckURL
<1> QED BY <1>1, <1>2, <1>3, <1>4 DEF RespondPaused

\* Steps that touch neither requests nor the queue keep their types.
LEMMA TrafficUnchanged ==
  ASSUME Typed, TypeOK', UNCHANGED <<queue, req, host>>
  PROVE  Typed'
  BY DEF Typed, HostKnown, QueueMatches, PausedAt

LEMMA AuthTyped ==
  ASSUME Typed,
         \/ \E x \in Challenges : RespondAuth(x)
         \/ \E c \in Callers : Register(c) \/ Unregister(c)
  PROVE  Typed'
<1>1. ASSUME NEW x \in Challenges, RespondAuth(x) PROVE Typed'
  <2>1. CASE ReadSlot(x)
    <3>1. slot.cred \in Callers \cup {None} BY DEF Typed, TypeOK
    <3>2. TypeOK' BY <2>1, <3>1 DEF ReadSlot, Typed, TypeOK, config, traffic
    <3> QED BY <2>1, <3>2, TrafficUnchanged DEF ReadSlot, traffic
  <2>2. CASE AnswerAuth(x)
    <3>1. TypeOK' BY <2>2 DEF AnswerAuth, Typed, TypeOK, config, traffic
    <3> QED BY <2>2, <3>1, TrafficUnchanged DEF AnswerAuth, traffic
  <2> QED BY <1>1, <2>1, <2>2 DEF RespondAuth
<1>2. ASSUME NEW c \in Callers, Register(c) PROVE Typed'
  <2>1. TypeOK' BY <1>2 DEF Register, Typed, TypeOK, config, traffic, auth
  <2> QED BY <1>2, <2>1, TrafficUnchanged DEF Register, traffic
<1>3. ASSUME NEW c \in Callers, Unregister(c) PROVE Typed'
  <2>1. TypeOK' BY <1>3 DEF Unregister, Typed, TypeOK, config, traffic, auth
  <2> QED BY <1>3, <2>1, TrafficUnchanged DEF Unregister, traffic
<1> QED BY <1>1, <1>2, <1>3

LEMMA DropTyped ==
  ASSUME Typed, Drop
  PROVE  Typed'
<1>1. queue' = <<>> /\ UNCHANGED <<config, traffic, slot, work, token, auth>> /\ up' = FALSE
  BY DEF Drop
<1>2. TypeOK'
  <2>1. queue' \in Seq(Events) BY <1>1
  <2>2. /\ allow' = allow /\ network' = network /\ req' = req /\ host' = host
        /\ late' = late /\ exposed' = exposed /\ rebind' = rebind
        /\ chal' = chal /\ origin' = origin /\ seen' = seen /\ given' = given
    BY <1>1 DEF config, traffic, auth
  <2> QED BY <1>1, <2>1, <2>2 DEF Typed, TypeOK
<1>3. HostKnown' /\ QueueMatches'
  BY <1>1 DEF Typed, HostKnown, QueueMatches, traffic
<1> QED BY <1>2, <1>3 DEF Typed

LEMMA StepTyped == Typed /\ [Next]_vars => Typed'
<1> SUFFICES ASSUME Typed, [Next]_vars PROVE Typed'
  OBVIOUS
<1>1. CASE Chrome
  BY <1>1, PauseTyped, RespondTyped, ChallengeTyped, DropTyped DEF Chrome
<1>2. CASE UNCHANGED vars
  <2>1. TypeOK' BY <1>2 DEF vars, Typed, TypeOK, config, traffic, auth
  <2> QED BY <1>2, <2>1, TrafficUnchanged DEF vars, traffic
<1> QED BY <1>1, <1>2, LoopTyped, RespondPausedTyped, AuthTyped DEF Next

\* Every reachable state of the guard is well typed: the handlers never meet an
\* event of a request they do not know (installEgressGuard's loop).
THEOREM TypeCorrect == Spec => []TypeOK
<1>1. Spec => []Typed
  BY InitTyped, StepTyped, PTL DEF Spec
<1>2. Typed => TypeOK
  BY DEF Typed
<1> QED BY <1>1, <1>2, PTL

-----------------------------------------------------------------------------
(* The credential slot.                                                    *)

\* The active credential is that of the newest registration, whose caller has
\* not cleaned up, and no two callers at work have the same generation token.
SlotOwned ==
  /\ \A c \in Callers : work[c] = "working" => token[c] <= slot.gen
  /\ \A c, d \in Callers :
       work[c] = "working" /\ work[d] = "working" /\ token[c] = token[d] => c = d
  /\ slot.cred # None => work[slot.cred] = "working" /\ token[slot.cred] = slot.gen

\* A challenge whose answer was a credential has been raised, so that its origin
\* does not change any more, and the origin is the credential's proxy.
GivenMatches ==
  \A x \in Challenges :
    given[x] # None => chal[x] # "none" /\ origin[x] = ServerOf[given[x]]

LEMMA RegisterOwned ==
  ASSUME Typed, SlotOwned, NEW c \in Callers, Register(c)
  PROVE  SlotOwned'
<1>1. /\ slot' = [gen |-> slot.gen + 1, cred |-> c] /\ slot.gen \in Nat
      /\ token' = [token EXCEPT ![c] = slot.gen + 1]
      /\ work' = [work EXCEPT ![c] = "working"]
      /\ work \in [Callers -> {"idle", "working"}] /\ token \in [Callers -> Nat]
  BY DEF Register, Typed, TypeOK
<1>2. \A d \in Callers \ {c} :
        work'[d] = work[d] /\ token'[d] = token[d]
        /\ (work[d] = "working" => token[d] <= slot.gen)
  BY <1>1 DEF SlotOwned
<1>3. work'[c] = "working" /\ token'[c] = slot.gen + 1 /\ slot'.gen = slot.gen + 1 /\ slot'.cred = c
  BY <1>1
<1> QED BY <1>1, <1>2, <1>3 DEF SlotOwned

LEMMA UnregisterOwned ==
  ASSUME Typed, SlotOwned, NEW c \in Callers, Unregister(c)
  PROVE  /\ SlotOwned'
         /\ slot.cred \in {None, c} \/ slot' = slot
<1>1. /\ work[c] = "working" /\ token' = [token EXCEPT ![c] = 0]
      /\ work' = [work EXCEPT ![c] = "idle"]
      /\ work \in [Callers -> {"idle", "working"}] /\ token \in [Callers -> Nat]
      /\ slot \in [gen : Nat, cred : Callers \cup {None}] /\ c # None
  BY NoneAssumption DEF Unregister, Typed, TypeOK
<1>2. \A d \in Callers : work'[d] = "working" =>
        d # c /\ work[d] = "working" /\ token'[d] = token[d]
  BY <1>1
<1>3. CASE slot.gen = token[c]
  <2>1. slot.cred \in {None, c}
    BY <1>1, <1>3 DEF SlotOwned
  <2>2. slot'.gen = slot.gen /\ slot'.cred = None
    BY <1>1, <1>3 DEF Unregister
  <2> QED BY <1>2, <2>1, <2>2 DEF SlotOwned
<1>4. CASE slot.gen # token[c]
  <2>1. slot' = slot /\ slot.cred # c
    BY <1>1, <1>4 DEF Unregister, SlotOwned
  <2>2. slot.cred # None => work'[slot.cred] = "working" /\ token'[slot.cred] = token[slot.cred]
    BY <1>1, <2>1 DEF SlotOwned
  <2> QED BY <1>2, <2>1, <2>2 DEF SlotOwned
<1> QED BY <1>3, <1>4

\* Everything else leaves the slot and its callers alone.
SlotStep == \E c \in Callers : Register(c) \/ Unregister(c)

\* Only callers' registrations touch the slot of credentials.
LEMMA OthersLeaveSlot ==
  ASSUME [Next]_vars, ~SlotStep
  PROVE  UNCHANGED <<slot, work, token>>
<1>1. CASE Chrome
  BY <1>1 DEF Chrome, Pause, Respond, Challenge, Drop
<1>2. CASE Loop
  BY <1>2 DEF Loop, SpawnPaused, SpawnAuth, CheckResponseIP, CheckFrameNavigated, Receive
<1>3. ASSUME NEW q \in Requests, RespondPaused(q) PROVE UNCHANGED <<slot, work, token>>
  BY <1>3 DEF RespondPaused, NoRequest, Bypass, TestRebind, CheckURL, Settle
<1>4. ASSUME NEW x \in Challenges, RespondAuth(x) PROVE UNCHANGED <<slot, work, token>>
  BY <1>4 DEF RespondAuth, ReadSlot, AnswerAuth
<1>5. CASE UNCHANGED vars
  BY <1>5 DEF vars
<1> QED BY <1>1, <1>2, <1>3, <1>4, <1>5 DEF Next, SlotStep

LEMMA SlotOwnedStep == Typed /\ SlotOwned /\ [Next]_vars => SlotOwned'
<1> SUFFICES ASSUME Typed, SlotOwned, [Next]_vars PROVE SlotOwned'
  OBVIOUS
<1>1. CASE SlotStep
  BY <1>1, RegisterOwned, UnregisterOwned DEF SlotStep
<1>2. CASE ~SlotStep
  BY <1>2, OthersLeaveSlot DEF SlotOwned
<1> QED BY <1>1, <1>2

LEMMA SlotAlwaysOwned == Spec => [](Typed /\ SlotOwned)
<1>1. Init => SlotOwned
  BY DEF Init, SlotOwned
<1> QED BY <1>1, InitTyped, StepTyped, SlotOwnedStep, PTL DEF Spec

\* The active credential belongs to a caller that has not cleaned up, whatever
\* the order of registrations and cleanups (registerProxyAuth).
THEOREM NoCredentialIsLeft == Spec => []NoCredentialLeft
<1>1. SlotOwned => NoCredentialLeft
  BY DEF SlotOwned, NoCredentialLeft
<1> QED BY <1>1, SlotAlwaysOwned, PTL

\* Only the caller's own cleanup clears its credential: the generation token
\* keeps a stale one from it (registerProxyAuth).
THEOREM OnlyTheOwnerClears == Spec => OnlyOwnerClears
<1>1. ASSUME Typed, SlotOwned, [Next]_vars,
             NEW c \in Callers, slot.cred = c, slot'.cred = None
      PROVE  work[c] = "working" /\ work'[c] = "idle"
  <2>1. slot.cred # None /\ slot' # slot
    BY <1>1, NoneAssumption
  <2>2. PICK d \in Callers : Register(d) \/ Unregister(d)
    BY <1>1, <2>1, OthersLeaveSlot DEF SlotStep
  <2>3. ~Register(d)
    BY <1>1, NoneAssumption DEF Register
  <2>4. d = c
    BY <1>1, <2>1, <2>2, <2>3, UnregisterOwned
  <2> QED BY <1>1, <2>2, <2>3, <2>4 DEF Unregister, Typed, TypeOK
<1>2. Typed /\ SlotOwned /\ [Next]_vars =>
        [\A c \in Callers :
           slot.cred = c /\ slot'.cred = None => work[c] = "working" /\ work'[c] = "idle"]_vars
  BY <1>1
<1> QED BY <1>2, SlotAlwaysOwned, PTL DEF Spec, OnlyOwnerClears

\* Chrome gets a credential only for a challenge of the proxy that it was
\* registered for, although the slot changes hands between the challenge, the
\* copy of the slot and the answer (respondAuth, authChallengeResponse).
THEOREM CredentialsGoToTheirProxy == Spec => []CredentialsToTheirProxy
<1>1. Init => GivenMatches
  BY DEF Init, GivenMatches
<1>2. Typed /\ GivenMatches /\ [Next]_vars => GivenMatches'
  <2> SUFFICES ASSUME Typed, GivenMatches, [Next]_vars PROVE GivenMatches'
    OBVIOUS
  <2>1. ASSUME NEW x \in Challenges, NEW o \in Servers \cup {None}, Challenge(x, o)
        PROVE  GivenMatches'
    BY <2>1 DEF Challenge, Typed, TypeOK, GivenMatches
  <2>2. CASE SpawnAuth
    <3>1. /\ UNCHANGED <<origin, given>>
          /\ chal' = [chal EXCEPT ![Head(queue).id] = "handled"]
      BY <2>2 DEF SpawnAuth, Receive
    <3> QED BY <3>1 DEF GivenMatches, Typed, TypeOK
  <2>3. ASSUME NEW x \in Challenges, ReadSlot(x) PROVE GivenMatches'
    BY <2>3 DEF ReadSlot, Typed, TypeOK, GivenMatches
  <2>4. ASSUME NEW x \in Challenges, AnswerAuth(x) PROVE GivenMatches'
    BY <2>4 DEF AnswerAuth, Matches, Typed, TypeOK, GivenMatches
  <2>5. ASSUME UNCHANGED <<chal, origin, given>> PROVE GivenMatches'
    BY <2>5 DEF GivenMatches
  <2>6. CASE Chrome
    BY <2>1, <2>5, <2>6 DEF Chrome, Pause, Respond, Drop, auth
  <2>7. CASE Loop
    BY <2>2, <2>5, <2>7 DEF Loop, SpawnPaused, CheckResponseIP, CheckFrameNavigated, Receive
  <2>8. ASSUME NEW q \in Requests, RespondPaused(q) PROVE GivenMatches'
    BY <2>5, <2>8 DEF RespondPaused, NoRequest, Bypass, TestRebind, CheckURL, Settle, auth
  <2>9. ASSUME NEW c \in Callers, Register(c) \/ Unregister(c) PROVE GivenMatches'
    BY <2>5, <2>9 DEF Register, Unregister, auth
  <2>10. CASE UNCHANGED vars
    BY <2>5, <2>10 DEF vars, auth
  <2> QED BY <2>3, <2>4, <2>6, <2>7, <2>8, <2>9, <2>10 DEF Next, RespondAuth
<1>3. GivenMatches => CredentialsToTheirProxy
  BY DEF GivenMatches, CredentialsToTheirProxy
<1> QED BY <1>1, <1>2, <1>3, InitTyped, StepTyped, PTL DEF Spec

-----------------------------------------------------------------------------
(* Exposed hosts.                                                          *)

FlagsAt(i, h) ==
  queue[i].kind = "response" /\ Blocked(queue[i].ip) /\ host[queue[i].id] = h

\* What the loop will have flagged when it has received the first n events.
FlaggedBefore(n, h) ==
  h \in rebind \/ (network /\ \E i \in DOMAIN queue : i < n /\ FlagsAt(i, h))

\* The report of an exposed host is in the queue, and there before the pause of
\* every later request for the host: the order of Chrome's events is the loop's.
ReportedFirst ==
  up /\ ~allow =>
    /\ network => \A h \in exposed : FlaggedBefore(Len(queue) + 1, h)
    /\ \A q \in Requests : late[q] =>
         /\ \A n \in DOMAIN queue : PausedAt(n, q) => FlaggedBefore(n, host[q])
         /\ req[q] = "handled" => host[q] \in rebind

Exposure == ReportedFirst /\ ExposedHostsBlocked

\* FlaggedBefore after a step, for a position and a host of any state.
FlaggedAfter(n, h) ==
  h \in rebind' \/ (network' /\ \E i \in DOMAIN queue' :
                     /\ i < n /\ queue'[i].kind = "response" /\ Blocked(queue'[i].ip)
                     /\ host'[queue'[i].id] = h)

LEMMA ReportedFirstAfter ==
  ASSUME up' /\ ~allow' =>
           /\ network' => \A h \in exposed' : FlaggedAfter(Len(queue') + 1, h)
           /\ \A q \in Requests : late'[q] =>
                /\ \A n \in DOMAIN queue' : PausedAt(n, q)' => FlaggedAfter(n, host'[q])
                /\ req'[q] = "handled" => host'[q] \in rebind'
  PROVE  ReportedFirst'
  BY DEF ReportedFirst, FlaggedBefore, FlagsAt, FlaggedAfter, PausedAt

\* A report that is in the queue stays before what follows it.
LEMMA AppendKeepsReports ==
  ASSUME Typed, NEW e \in Events, queue' = Append(queue, e),
         rebind' = rebind, network' = network,
         \A i \in DOMAIN queue :
           queue[i].kind = "response" => host'[queue[i].id] = host[queue[i].id],
         NEW h, NEW n, FlaggedBefore(n, h)
  PROVE  FlaggedAfter(n, h)
<1>1. DOMAIN queue \subseteq DOMAIN queue' /\ \A i \in DOMAIN queue : queue'[i] = queue[i]
  BY AppendAt DEF Typed, TypeOK
<1> QED BY <1>1 DEF FlaggedBefore, FlaggedAfter, FlagsAt

LEMMA PauseExposure ==
  ASSUME Typed, Exposure, NEW q \in Requests, NEW h \in Hosts \cup {None}, Pause(q, h)
  PROVE  Exposure'
<1> DEFINE e == Event("paused", q, None)
<1>1. e \in Events /\ e.kind = "paused" /\ e.id = q
  BY EventsMade DEF Event
<1>2. /\ queue' = Append(queue, e) /\ queue \in Seq(Events)
      /\ req[q] = "none" /\ req' = [req EXCEPT ![q] = "paused"]
      /\ host' = [host EXCEPT ![q] = h]
      /\ late' = [late EXCEPT ![q] = h \in IF network THEN exposed ELSE rebind]
      /\ UNCHANGED <<up, allow, network, exposed, rebind>>
      /\ req \in [Requests -> {"none", "paused", "handled", "checked", "continued",
                               "failed", "over"}]
      /\ host \in [Requests -> Hosts \cup {None}] /\ late \in [Requests -> BOOLEAN]
  BY DEF Pause, State, Typed, TypeOK, config
<1>3. /\ DOMAIN queue' = 1 .. Len(queue) + 1
      /\ \A i \in DOMAIN queue : queue'[i] = queue[i]
      /\ queue'[Len(queue) + 1] = e /\ DOMAIN queue = 1 .. Len(queue) /\ Len(queue) \in Nat
  BY <1>1, <1>2, AppendAt
<1>4. \A i \in DOMAIN queue : ~PausedAt(i, q) /\ (queue[i].kind = "response" => queue[i].id # q)
  BY <1>2 DEF Typed, QueueMatches, PausedAt
<1>5. \A i \in DOMAIN queue :
        queue[i].kind = "response" => host'[queue[i].id] = host[queue[i].id]
  BY <1>2, <1>4 DEF Typed, QueueMatches
<1>6. \A n, k : FlaggedBefore(n, k) => FlaggedAfter(n, k)
  BY <1>1, <1>2, <1>5, AppendKeepsReports
<1>7. ExposedHostsBlocked'
  BY <1>2 DEF Exposure, ExposedHostsBlocked
<1>8. SUFFICES ASSUME up, ~allow PROVE ReportedFirst'
  BY <1>2, <1>7 DEF Exposure, ReportedFirst
<1>9. network' => \A k \in exposed' : FlaggedAfter(Len(queue') + 1, k)
  <2>1. Len(queue') = Len(queue) + 1
    BY <1>2
  <2>2. SUFFICES ASSUME network, NEW k \in exposed PROVE FlaggedAfter(Len(queue') + 1, k)
    BY <1>2
  <2>3. FlaggedBefore(Len(queue) + 1, k)
    BY <1>8, <2>2 DEF Exposure, ReportedFirst
  <2> QED BY <1>3, <1>6, <2>1, <2>2, <2>3 DEF FlaggedAfter
<1>10. ASSUME NEW p \in Requests, late'[p]
       PROVE  /\ \A n \in DOMAIN queue' : PausedAt(n, p)' => FlaggedAfter(n, host'[p])
              /\ req'[p] = "handled" => host'[p] \in rebind'
  <2>1. CASE p # q
    <3>1. late[p] /\ host'[p] = host[p] /\ req'[p] = req[p]
      BY <1>2, <1>10, <2>1
    <3>2. \A n \in DOMAIN queue' : PausedAt(n, p)' => n \in DOMAIN queue /\ PausedAt(n, p)
      BY <1>1, <1>3, <2>1 DEF PausedAt
    <3> QED BY <1>2, <1>6, <1>8, <3>1, <3>2 DEF Exposure, ReportedFirst
  <2>2. CASE p = q
    <3>1. h \in (IF network THEN exposed ELSE rebind) /\ host'[p] = h /\ req'[p] = "paused"
      BY <1>2, <1>10, <2>2
    <3>2. FlaggedBefore(Len(queue) + 1, h)
      BY <1>8, <3>1 DEF Exposure, ReportedFirst, FlaggedBefore
    <3>3. \A n \in DOMAIN queue' : PausedAt(n, p)' => n = Len(queue) + 1
      BY <1>3, <1>4, <2>2 DEF PausedAt
    <3> QED BY <1>6, <3>1, <3>2, <3>3
  <2> QED BY <2>1, <2>2
<1> QED BY <1>9, <1>10, ReportedFirstAfter

LEMMA RespondExposure ==
  ASSUME Typed, Exposure, NEW q \in Requests, NEW ip \in {"public", "private", "loopback"},
         Respond(q, ip)
  PROVE  Exposure'
<1> DEFINE e == Event("response", q, ip)
<1>1. e \in Events /\ e.kind = "response" /\ e.id = q /\ e.ip = ip
  BY EventsMade DEF Event
<1>2. /\ queue' = Append(queue, e) /\ queue \in Seq(Events)
      /\ req[q] = "continued" /\ req' = [req EXCEPT ![q] = "over"]
      /\ exposed' = (IF Blocked(ip) /\ ~(allow /\ ip = "loopback")
                        THEN exposed \cup {host[q]} ELSE exposed)
      /\ UNCHANGED <<up, allow, network, host, late, rebind>>
      /\ req \in [Requests -> {"none", "paused", "handled", "checked", "continued",
                               "failed", "over"}]
  BY DEF Respond, State, Typed, TypeOK, config
<1>3. /\ DOMAIN queue' = 1 .. Len(queue) + 1 /\ Len(queue') = Len(queue) + 1
      /\ \A i \in DOMAIN queue : queue'[i] = queue[i]
      /\ queue'[Len(queue) + 1] = e /\ DOMAIN queue = 1 .. Len(queue) /\ Len(queue) \in Nat
  BY <1>1, <1>2, AppendAt
<1>4. \A n, k : FlaggedBefore(n, k) => FlaggedAfter(n, k)
  BY <1>1, <1>2, AppendKeepsReports
<1>5. ExposedHostsBlocked'
  BY <1>2 DEF Exposure, ExposedHostsBlocked
<1>6. SUFFICES ASSUME up, ~allow PROVE ReportedFirst'
  BY <1>2, <1>5 DEF Exposure, ReportedFirst
<1>7. ASSUME network, NEW k \in exposed' PROVE FlaggedAfter(Len(queue') + 1, k)
  <2>1. CASE k \in exposed
    <3>1. FlaggedBefore(Len(queue) + 1, k)
      BY <1>6, <1>7, <2>1 DEF Exposure, ReportedFirst
    <3>2. FlaggedAfter(Len(queue) + 1, k)
      BY <1>4, <3>1
    <3> QED BY <1>3, <3>2 DEF FlaggedAfter
  <2>2. CASE k \notin exposed
    <3>1. k = host[q] /\ Blocked(ip)
      BY <1>2, <1>7, <2>2
    <3> QED BY <1>1, <1>2, <1>3, <1>7, <3>1 DEF FlaggedAfter
  <2> QED BY <2>1, <2>2
<1>8. ASSUME NEW p \in Requests, late[p]
      PROVE  /\ \A n \in DOMAIN queue' : PausedAt(n, p)' => FlaggedAfter(n, host[p])
             /\ req'[p] = "handled" => host[p] \in rebind
  <2>1. \A n \in DOMAIN queue' : PausedAt(n, p)' => n \in DOMAIN queue /\ PausedAt(n, p)
    BY <1>1, <1>3 DEF PausedAt
  <2>2. req'[p] = "handled" => req[p] = "handled"
    BY <1>2
  <2> QED BY <1>4, <1>6, <1>8, <2>1, <2>2 DEF Exposure, ReportedFirst
<1> QED BY <1>2, <1>7, <1>8, ReportedFirstAfter

\* A report stays in the queue unless it is the first event, and then the loop
\* flags its host.
LEMMA ReceiveKeepsReports ==
  ASSUME Typed, NEW kind, Receive(kind), host' = host, network' = network,
         rebind \subseteq rebind',
         ~allow /\ network /\ FlagsAt(1, host[queue[1].id]) => host[queue[1].id] \in rebind'
  PROVE  ~allow => \A h : \A n \in DOMAIN queue' :
           FlaggedBefore(n + 1, h) => FlaggedAfter(n, h)
<1> SUFFICES ASSUME ~allow, NEW h, NEW n \in DOMAIN queue', FlaggedBefore(n + 1, h)
             PROVE  FlaggedAfter(n, h)
  OBVIOUS
<1>1. CASE h \in rebind
  BY <1>1 DEF FlaggedAfter
<1>2. CASE h \notin rebind
  <2>1. PICK i \in DOMAIN queue : network /\ i < n + 1 /\ FlagsAt(i, h)
    BY <1>2 DEF FlaggedBefore
  <2>2. CASE i = 1
    BY <2>1, <2>2 DEF FlaggedAfter, FlagsAt
  <2>3. CASE i # 1
    <3>1. i - 1 \in DOMAIN queue' /\ i - 1 < n /\ queue'[i - 1] = queue[i]
      <4>1. i \in 2 .. Len(queue) /\ n \in 1 .. Len(queue) - 1 /\ Len(queue) \in Nat
        BY <2>3, ReceiveQueue
      <4>2. i - 1 \in DOMAIN queue' /\ (i - 1) + 1 = i /\ i - 1 < n
        BY <2>1, <4>1, ReceiveQueue
      <4> QED BY <4>2, ReceiveQueue
    <3> QED BY <2>1, <3>1 DEF FlaggedAfter, FlagsAt
  <2> QED BY <2>2, <2>3
<1> QED BY <1>1, <1>2

\* The reports of the queue and the hosts flagged are those of all exposures.
LEMMA ReceiveKeepsExposed ==
  ASSUME Typed, NEW kind, Receive(kind), host' = host, network' = network, exposed' = exposed,
         rebind \subseteq rebind', up, ~allow, Exposure,
         network /\ FlagsAt(1, host[queue[1].id]) => host[queue[1].id] \in rebind'
  PROVE  network' => \A h \in exposed' : FlaggedAfter(Len(queue') + 1, h)
<1> SUFFICES ASSUME network, NEW h \in exposed PROVE FlaggedAfter(Len(queue') + 1, h)
  OBVIOUS
<1>1. FlaggedBefore(Len(queue) + 1, h)
  BY DEF Exposure, ReportedFirst
<1>2. CASE h \in rebind
  BY <1>2 DEF FlaggedAfter
<1>3. CASE h \notin rebind
  <2>1. PICK i \in DOMAIN queue : FlagsAt(i, h)
    BY <1>1, <1>3 DEF FlaggedBefore
  <2>2. CASE i = 1
    BY <2>1, <2>2 DEF FlaggedAfter, FlagsAt
  <2>3. CASE i # 1
    <3>1. i \in 2 .. Len(queue) /\ Len(queue) \in Nat /\ Len(queue') = Len(queue) - 1
      BY <2>3, ReceiveQueue
    <3>2. i - 1 \in DOMAIN queue' /\ (i - 1) + 1 = i /\ i - 1 < Len(queue') + 1
      BY <3>1, ReceiveQueue
    <3>3. queue'[i - 1] = queue[i]
      BY <3>2, ReceiveQueue
    <3> QED BY <2>1, <3>2, <3>3 DEF FlaggedAfter, FlagsAt
  <2> QED BY <2>2, <2>3
<1> QED BY <1>2, <1>3

LEMMA ReceiveExposure ==
  ASSUME Typed, Exposure, Loop
  PROVE  Exposure'
<1> DEFINE first == queue[1].id
<1>1. CASE SpawnPaused
  <2>1. Receive("paused") /\ UNCHANGED <<host, late, exposed, rebind>>
    BY <1>1 DEF SpawnPaused
  <2>2. UNCHANGED <<up, allow, network>>
    BY <2>1 DEF Receive, config
  <2>3. /\ first \in Requests /\ req[first] = "paused" /\ PausedAt(1, first)
        /\ req' = [req EXCEPT ![first] = "handled"] /\ queue[1].kind = "paused"
    BY <1>1, <2>1, ReceiveQueue DEF SpawnPaused, State, Typed, QueueMatches, PausedAt
  <2>4. ExposedHostsBlocked'
    BY <2>1, <2>2, <2>3 DEF Exposure, ExposedHostsBlocked, Typed, TypeOK
  <2>5. SUFFICES ASSUME up, ~allow PROVE ReportedFirst'
    BY <2>2, <2>4 DEF Exposure, ReportedFirst
  <2>6. ~FlagsAt(1, host[first])
    BY <2>3 DEF FlagsAt
  <2>7. network' => \A h \in exposed' : FlaggedAfter(Len(queue') + 1, h)
    BY <2>1, <2>2, <2>5, <2>6, ReceiveKeepsExposed
  <2>8. \A h : \A n \in DOMAIN queue' : FlaggedBefore(n + 1, h) => FlaggedAfter(n, h)
    BY <2>1, <2>2, <2>5, <2>6, ReceiveKeepsReports
  <2>9. ASSUME NEW q \in Requests, late[q]
        PROVE  /\ \A n \in DOMAIN queue' : PausedAt(n, q)' => FlaggedAfter(n, host[q])
               /\ req'[q] = "handled" => host[q] \in rebind
    <3>1. \A n \in DOMAIN queue' : PausedAt(n, q)' => PausedAt(n + 1, q)
      BY <2>1, ReceiveQueue DEF PausedAt
    <3>2. \A n \in DOMAIN queue' : PausedAt(n, q)' => FlaggedAfter(n, host[q])
      BY <2>1, <2>5, <2>8, <2>9, <3>1, ReceiveQueue DEF Exposure, ReportedFirst
    <3>3. CASE q = first
      <4>1. FlaggedBefore(1, host[q])
        BY <2>1, <2>3, <2>5, <2>9, <3>3, ReceiveQueue DEF Exposure, ReportedFirst
      <4>2. \A i \in DOMAIN queue : ~(i < 1)
        BY <2>1, ReceiveQueue
      <4> QED BY <3>2, <4>1, <4>2 DEF FlaggedBefore
    <3>4. CASE q # first
      <4>1. req'[q] = req[q]
        BY <2>3, <3>4 DEF Typed, TypeOK
      <4> QED BY <2>5, <2>9, <3>2, <4>1 DEF Exposure, ReportedFirst
    <3> QED BY <3>3, <3>4
  <2> QED BY <2>1, <2>7, <2>9, ReportedFirstAfter
<1>2. ASSUME SpawnAuth \/ CheckResponseIP \/ \E local \in BOOLEAN : CheckFrameNavigated(local)
      PROVE  Exposure'
  <2>1. PICK kind \in {"auth", "response"} : Receive(kind)
    BY <1>2 DEF SpawnAuth, CheckResponseIP, CheckFrameNavigated
  <2>2. UNCHANGED <<up, allow, network, req, host, late, exposed>> /\ rebind \subseteq rebind'
    BY <1>2 DEF SpawnAuth, CheckResponseIP, CheckFrameNavigated, Receive, Flag, config, traffic
  <2>3. ~allow /\ network /\ FlagsAt(1, host[first]) => host[first] \in rebind'
    <3>1. CASE SpawnAuth
      BY <3>1, ReceiveQueue DEF SpawnAuth, FlagsAt
    <3>2. CASE CheckResponseIP
      BY <3>2, ReceiveQueue DEF CheckResponseIP, FlagsAt, Flag
    <3>3. ASSUME NEW local \in BOOLEAN, CheckFrameNavigated(local) PROVE ~network
      BY <3>3 DEF CheckFrameNavigated
    <3> QED BY <1>2, <3>1, <3>2, <3>3
  <2>4. ExposedHostsBlocked'
    BY <2>2 DEF Exposure, ExposedHostsBlocked
  <2>5. SUFFICES ASSUME up, ~allow PROVE ReportedFirst'
    BY <2>2, <2>4 DEF Exposure, ReportedFirst
  <2>6. network' => \A h \in exposed' : FlaggedAfter(Len(queue') + 1, h)
    BY <2>1, <2>2, <2>3, <2>5, ReceiveKeepsExposed
  <2>7. \A h : \A n \in DOMAIN queue' : FlaggedBefore(n + 1, h) => FlaggedAfter(n, h)
    BY <2>1, <2>2, <2>3, <2>5, ReceiveKeepsReports
  <2>8. ASSUME NEW q \in Requests, late[q]
        PROVE  /\ \A n \in DOMAIN queue' : PausedAt(n, q)' => FlaggedAfter(n, host[q])
               /\ req[q] = "handled" => host[q] \in rebind'
    <3>1. \A n \in DOMAIN queue' : PausedAt(n, q)' => PausedAt(n + 1, q)
      BY <2>1, ReceiveQueue DEF PausedAt
    <3>2. \A n \in DOMAIN queue' : PausedAt(n, q)' => FlaggedAfter(n, host[q])
      BY <2>1, <2>5, <2>7, <2>8, <3>1, ReceiveQueue DEF Exposure, ReportedFirst
    <3> QED BY <2>2, <2>5, <2>8, <3>2 DEF Exposure, ReportedFirst
  <2> QED BY <2>2, <2>6, <2>8, ReportedFirstAfter
<1> QED BY <1>1, <1>2 DEF Loop

LEMMA RespondPausedExposure ==
  ASSUME Typed, Exposure, NEW q \in Requests, RespondPaused(q)
  PROVE  Exposure'
<1>1. PICK s \in {"continued", "failed", "checked"} : Settle(q, s)
  BY DEF RespondPaused, NoRequest, Bypass, TestRebind, CheckURL
<1>2. UNCHANGED <<up, allow, network, queue, host, late, exposed, rebind>>
      /\ req' = [req EXCEPT ![q] = s] /\ up
  BY <1>1 DEF Settle, State, config
<1>3. late[q] /\ ~allow => s = "failed"
  <2> SUFFICES ASSUME late[q], ~allow PROVE s = "failed"
    OBVIOUS
  <2>1. CASE req[q] = "handled"
    <3>1. host[q] \in rebind /\ host[q] # None
      BY <1>2, <2>1, NoneAssumption DEF Exposure, ReportedFirst, Typed, TypeOK
    <3>2. req'[q] = s
      BY <1>2 DEF Typed, TypeOK
    <3>3. TestRebind(q)
      BY <2>1, <3>1 DEF RespondPaused, NoRequest, Bypass, CheckURL
    <3> QED BY <3>1, <3>2, <3>3 DEF TestRebind, Settle, State, Typed, TypeOK
  <2>2. CASE req[q] # "handled"
    BY <2>2 DEF RespondPaused, NoRequest, Bypass, TestRebind, CheckURL,
                Exposure, ExposedHostsBlocked
  <2> QED BY <2>1, <2>2
<1>4. ExposedHostsBlocked'
  BY <1>2, <1>3 DEF Exposure, ExposedHostsBlocked, Typed, TypeOK
<1>5. \A p \in Requests : req'[p] = "handled" => req[p] = "handled"
  BY <1>2 DEF Typed, TypeOK
<1>6. ReportedFirst'
  BY <1>2, <1>5 DEF Exposure, ReportedFirst, FlaggedBefore, FlagsAt, PausedAt
<1> QED BY <1>4, <1>6 DEF Exposure

LEMMA ExposureUnchanged ==
  ASSUME Exposure, UNCHANGED <<up, allow, network, queue, req, host, late, exposed, rebind>>
  PROVE  Exposure'
  BY DEF Exposure, ReportedFirst, ExposedHostsBlocked, FlaggedBefore, FlagsAt, PausedAt

LEMMA ExposureStep == Typed /\ Exposure /\ [Next]_vars => Exposure'
<1> SUFFICES ASSUME Typed, Exposure, [Next]_vars PROVE Exposure'
  OBVIOUS
<1>1. ASSUME NEW x \in Challenges, NEW o \in Servers \cup {None}, Challenge(x, o)
      PROVE  Exposure'
  <2> DEFINE e == Event("auth", x, None)
  <2>1. e \in Events /\ e.kind = "auth"
    BY EventsMade DEF Event
  <2>2. /\ queue' = Append(queue, e) /\ queue \in Seq(Events)
        /\ UNCHANGED <<up, allow, network, req, host, late, exposed, rebind>>
    BY <1>1 DEF Challenge, Typed, TypeOK, config, traffic
  <2>3. /\ DOMAIN queue' = 1 .. Len(queue) + 1 /\ Len(queue') = Len(queue) + 1
        /\ \A i \in DOMAIN queue : queue'[i] = queue[i]
        /\ queue'[Len(queue) + 1] = e /\ DOMAIN queue = 1 .. Len(queue) /\ Len(queue) \in Nat
    BY <2>1, <2>2, AppendAt
  <2>4. \A n, k : FlaggedBefore(n, k) => FlaggedAfter(n, k)
    BY <2>1, <2>2, AppendKeepsReports
  <2>5. ASSUME up, ~allow, network, NEW k \in exposed PROVE FlaggedAfter(Len(queue') + 1, k)
    <3>1. FlaggedAfter(Len(queue) + 1, k)
      BY <2>4, <2>5 DEF Exposure, ReportedFirst
    <3> QED BY <2>3, <3>1 DEF FlaggedAfter
  <2>6. \A p \in Requests : \A n \in DOMAIN queue' :
          PausedAt(n, p)' => n \in DOMAIN queue /\ PausedAt(n, p)
    BY <2>1, <2>3 DEF PausedAt
  <2>7. ReportedFirst'
    BY <2>2, <2>4, <2>5, <2>6, ReportedFirstAfter DEF Exposure, ReportedFirst
  <2> QED BY <2>2, <2>7 DEF Exposure, ExposedHostsBlocked
<1>2. CASE Drop
  BY <1>2 DEF Drop, config, traffic, Exposure, ReportedFirst, ExposedHostsBlocked
<1>3. CASE Chrome
  BY <1>1, <1>2, <1>3, PauseExposure, RespondExposure DEF Chrome
<1>4. ASSUME NEW x \in Challenges, RespondAuth(x) PROVE Exposure'
  BY <1>4, ExposureUnchanged DEF RespondAuth, ReadSlot, AnswerAuth, config, traffic
<1>5. ASSUME NEW c \in Callers, Register(c) \/ Unregister(c) PROVE Exposure'
  BY <1>5, ExposureUnchanged DEF Register, Unregister, config, traffic
<1>6. CASE UNCHANGED vars
  BY <1>6, ExposureUnchanged DEF vars, config, traffic
<1> QED BY <1>3, <1>4, <1>5, <1>6, ReceiveExposure, RespondPausedExposure DEF Next

\* A request that Chrome pauses after the response that exposed its host is
\* never continued by a lookup: the loop has flagged the host before it hands
\* the request to a goroutine, since Chrome's events stay in order and responses
\* are inspected in the loop (checkResponseIP, isRebindDomain).
THEOREM ExposedHostsAlwaysBlocked == Spec => []ExposedHostsBlocked
<1>1. Init => Exposure
  BY DEF Init, Exposure, ReportedFirst, ExposedHostsBlocked
<1>2. Exposure => ExposedHostsBlocked
  BY DEF Exposure
<1> QED BY <1>1, <1>2, InitTyped, StepTyped, ExposureStep, PTL DEF Spec
=============================================================================
