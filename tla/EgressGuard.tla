---------------------------- MODULE EgressGuard ----------------------------
(***************************************************************************)
(* The egress guard of one Chrome connection (src/egress_guard.go): one    *)
(* EachEvent loop receives Chrome's events in order; every paused request  *)
(* and every authentication challenge is answered by a goroutine of its    *)
(* own, responses are inspected in the loop, and callers register and      *)
(* clear the connection's single proxy credential.                         *)
(*                                                                         *)
(* A credential has the name of the caller that registered it.  What DNS   *)
(* says, to this process and to Chrome, may change at every lookup.        *)
(***************************************************************************)
EXTENDS Naturals, Sequences

CONSTANTS
  Callers,    \* proxied renders, solves and interactions
  Servers,    \* proxy servers
  ServerOf,   \* the vetted server a caller registers its credential for
  Requests,   \* requests Chrome pauses
  Hosts,
  Challenges, \* Fetch.authRequired events
  MaxGen,     \* bound on the number of registrations
  None

ASSUME ServerAssumption == ServerOf \in [Callers -> Servers]
ASSUME NoneAssumption == None \notin Callers \cup Hosts

VARIABLES
  up,        \* the connection is alive
  allow,     \* EGRESS_ALLOW_LOCALHOST
  network,   \* Chrome has Network.enable; otherwise Page.frameNavigated is used
  queue,     \* events sent by Chrome that the loop has not received
  req,       \* state of a request
  host,      \* its host, None when the event has no request
  late,      \* it was paused after its host had been exposed
  exposed,   \* hosts Chrome has reported a refused address for
  rebind,    \* g.rebindDomains
  slot,      \* g.gen, and the caller whose credential is active
  work,      \* state of a caller
  token,     \* myGen of its registration
  chal,      \* state of a challenge
  origin,    \* what raised it: a proxy server, or None for a site's own 401
  seen,      \* the credential its handler read
  given      \* the credential Chrome was given, None when cancelled

config == <<allow, network>>
traffic == <<req, host, late, exposed, rebind>>
auth == <<chal, origin, seen, given>>
vars == <<up, config, queue, traffic, slot, work, token, auth>>

Event(kind, id, ip) == [kind |-> kind, id |-> id, ip |-> ip]
Events ==
  [kind : {"paused", "response", "auth"}, id : Requests \cup Challenges,
   ip : {"public", "private", "loopback", None}]

TypeOK ==
  /\ up \in BOOLEAN /\ allow \in BOOLEAN /\ network \in BOOLEAN
  /\ queue \in Seq(Events)
  /\ req \in [Requests -> {"none", "paused", "handled", "checked", "continued",
                           "failed", "over"}]
  /\ host \in [Requests -> Hosts \cup {None}] /\ late \in [Requests -> BOOLEAN]
  /\ exposed \subseteq Hosts /\ rebind \subseteq Hosts
  /\ slot \in [gen : Nat, cred : Callers \cup {None}]
  /\ work \in [Callers -> {"idle", "working"}] /\ token \in [Callers -> Nat]
  /\ chal \in [Challenges -> {"none", "raised", "handled", "read", "answered"}]
  /\ origin \in [Challenges -> Servers \cup {None}]
  /\ seen \in [Challenges -> Callers \cup {None}]
  /\ given \in [Challenges -> Callers \cup {None}]

\* installEgressGuard has returned.
Init ==
  /\ up = TRUE /\ allow \in BOOLEAN /\ network \in BOOLEAN
  /\ queue = <<>>
  /\ req = [q \in Requests |-> "none"] /\ host = [q \in Requests |-> None]
  /\ late = [q \in Requests |-> FALSE]
  /\ exposed = {} /\ rebind = {}
  /\ slot = [gen |-> 0, cred |-> None]
  /\ work = [c \in Callers |-> "idle"] /\ token = [c \in Callers |-> 0]
  /\ chal = [x \in Challenges |-> "none"] /\ origin = [x \in Challenges |-> None]
  /\ seen = [x \in Challenges |-> None] /\ given = [x \in Challenges |-> None]

State(q, s) == req' = [req EXCEPT ![q] = s]

-----------------------------------------------------------------------------
(* Chrome: requests, responses and challenges in the order they happen.    *)

\* A request for h, or an event without request details, is paused.  For the
\* fallback the host counts as exposed once the guard has seen it resolve to a
\* refused address.
Pause(q, h) ==
  /\ up /\ req[q] = "none"
  /\ State(q, "paused") /\ host' = [host EXCEPT ![q] = h]
  /\ late' = [late EXCEPT ![q] = h \in IF network THEN exposed ELSE rebind]
  /\ queue' = Append(queue, Event("paused", q, None))
  /\ UNCHANGED <<up, config, exposed, rebind, slot, work, token, auth>>

Blocked(ip) == ip \in {"private", "loopback"}

\* Chrome dials the host by its own lookup and the response arrives.
Respond(q, ip) ==
  /\ up /\ req[q] = "continued"
  /\ State(q, "over")
  /\ exposed' = IF Blocked(ip) /\ ~(allow /\ ip = "loopback")
                  THEN exposed \cup {host[q]} ELSE exposed
  /\ queue' = Append(queue, Event("response", q, ip))
  /\ UNCHANGED <<up, config, host, late, rebind, slot, work, token, auth>>

Challenge(x, o) ==
  /\ up /\ chal[x] = "none"
  /\ chal' = [chal EXCEPT ![x] = "raised"] /\ origin' = [origin EXCEPT ![x] = o]
  /\ queue' = Append(queue, Event("auth", x, None))
  /\ UNCHANGED <<up, config, traffic, slot, work, token, seen, given>>

Drop ==
  /\ up /\ up' = FALSE /\ queue' = <<>>
  /\ UNCHANGED <<config, traffic, slot, work, token, auth>>

-----------------------------------------------------------------------------
(* The EachEvent loop.  An event is taken off the queue when its callback  *)
(* returns: the loop delivers nothing meanwhile.                           *)

Receive(kind) ==
  /\ up /\ queue # <<>> /\ Head(queue).kind = kind
  /\ queue' = Tail(queue)
  /\ UNCHANGED <<up, config, slot, work, token, seen, given, origin>>

SpawnPaused ==
  /\ Receive("paused")
  /\ State(Head(queue).id, "handled")
  /\ UNCHANGED <<host, late, exposed, rebind, chal>>

SpawnAuth ==
  /\ Receive("auth")
  /\ chal' = [chal EXCEPT ![Head(queue).id] = "handled"]
  /\ UNCHANGED traffic

Flag(h) == rebind' = rebind \cup {h}

\* checkResponseIP: the address Chrome was connected to decides.
CheckResponseIP ==
  /\ network /\ Receive("response")
  /\ IF Blocked(Head(queue).ip) /\ ~(allow /\ Head(queue).ip = "loopback")
       THEN Flag(host[Head(queue).id]) ELSE UNCHANGED rebind
  /\ UNCHANGED <<req, host, late, exposed, chal>>

\* checkFrameNavigated: a second lookup of this process decides.
CheckFrameNavigated(local) ==
  /\ ~network /\ Receive("response")
  /\ IF local THEN Flag(host[Head(queue).id]) ELSE UNCHANGED rebind
  /\ UNCHANGED <<req, host, late, exposed, chal>>

-----------------------------------------------------------------------------
(* respondPaused, one goroutine per request.                               *)

Settle(q, s) ==
  /\ up /\ State(q, s)
  /\ UNCHANGED <<up, config, queue, host, late, exposed, rebind, slot, work, token, auth>>

\* Mutant of NoRequest: nobody answers.
NoRequestIgnored(q) ==
  /\ req[q] = "handled" /\ host[q] = None
  /\ Settle(q, "handled")

\* No request details: fail closed.
NoRequest(q) ==
  /\ req[q] = "handled" /\ host[q] = None
  /\ Settle(q, "failed")

\* allowLocalhost and a lookup that finds a local address.
Bypass(q) ==
  /\ req[q] = "handled" /\ host[q] # None /\ allow
  /\ Settle(q, "continued")

\* Mutant of TestRebind: a host is looked up again whatever was seen before.
TestRebindSkipped(q) ==
  /\ req[q] = "handled" /\ host[q] # None
  /\ Settle(q, "checked")

\* isRebindDomain, under g.mu.
TestRebind(q) ==
  /\ req[q] = "handled" /\ host[q] # None
  /\ Settle(q, IF host[q] \in rebind THEN "failed" ELSE "checked")

\* CheckRawURL: a public address, or a refused one, an error or the timeout.
CheckURL(q, ok) ==
  /\ req[q] = "checked"
  /\ Settle(q, IF ok THEN "continued" ELSE "failed")

-----------------------------------------------------------------------------
(* The credential slot.                                                    *)

Register(c) ==
  /\ work[c] = "idle" /\ slot.gen < MaxGen
  /\ slot' = [gen |-> slot.gen + 1, cred |-> c]
  /\ token' = [token EXCEPT ![c] = slot.gen + 1]
  /\ work' = [work EXCEPT ![c] = "working"]
  /\ UNCHANGED <<up, config, queue, traffic, auth>>

\* Mutant of Unregister: every cleanup clears the slot.
UnregisterAnyway(c) ==
  /\ work[c] = "working"
  /\ slot' = [slot EXCEPT !.cred = None]
  /\ work' = [work EXCEPT ![c] = "idle"] /\ token' = [token EXCEPT ![c] = 0]
  /\ UNCHANGED <<up, config, queue, traffic, auth>>

\* Mutant of Unregister: the comparison is the wrong way round.
UnregisterInverted(c) ==
  /\ work[c] = "working"
  /\ slot' = IF slot.gen # token[c] THEN [slot EXCEPT !.cred = None] ELSE slot
  /\ work' = [work EXCEPT ![c] = "idle"] /\ token' = [token EXCEPT ![c] = 0]
  /\ UNCHANGED <<up, config, queue, traffic, auth>>

\* The deferred cleanup of a caller.
Unregister(c) ==
  /\ work[c] = "working"
  /\ slot' = IF slot.gen = token[c] THEN [slot EXCEPT !.cred = None] ELSE slot
  /\ work' = [work EXCEPT ![c] = "idle"] /\ token' = [token EXCEPT ![c] = 0]
  /\ UNCHANGED <<up, config, queue, traffic, auth>>

\* respondAuth: the slot is copied under g.mu, the answer sent after.
ReadSlot(x) ==
  /\ chal[x] = "handled"
  /\ chal' = [chal EXCEPT ![x] = "read"] /\ seen' = [seen EXCEPT ![x] = slot.cred]
  /\ UNCHANGED <<up, config, queue, traffic, slot, work, token, origin, given>>

\* authChallengeResponse: only the proxy the credential belongs to gets it.
Matches(cred, o) == cred # None /\ o # None /\ o = ServerOf[cred]

\* Mutant of AnswerAuth: matched with the copy, answered from the slot.
AnswerAuthUnlocked(x) ==
  /\ up /\ chal[x] = "read"
  /\ chal' = [chal EXCEPT ![x] = "answered"]
  /\ given' = [given EXCEPT ![x] = IF Matches(seen[x], origin[x]) THEN slot.cred ELSE None]
  /\ seen' = [seen EXCEPT ![x] = None]
  /\ UNCHANGED <<up, config, queue, traffic, slot, work, token, origin>>

\* Mutant of AnswerAuth: the server is sent where the user name belongs.
AnswerAuthServer(x) ==
  /\ up /\ chal[x] = "read"
  /\ chal' = [chal EXCEPT ![x] = "answered"]
  /\ given' = [given EXCEPT ![x] = IF Matches(seen[x], origin[x]) THEN ServerOf[seen[x]] ELSE None]
  /\ seen' = [seen EXCEPT ![x] = None]
  /\ UNCHANGED <<up, config, queue, traffic, slot, work, token, origin>>

AnswerAuth(x) ==
  /\ up /\ chal[x] = "read"
  /\ chal' = [chal EXCEPT ![x] = "answered"]
  /\ given' = [given EXCEPT ![x] = IF Matches(seen[x], origin[x]) THEN seen[x] ELSE None]
  /\ seen' = [seen EXCEPT ![x] = None]
  /\ UNCHANGED <<up, config, queue, traffic, slot, work, token, origin>>

-----------------------------------------------------------------------------
Chrome ==
  \/ \E q \in Requests :
       (\E h \in Hosts \cup {None} : Pause(q, h))
         \/ \E ip \in {"public", "private", "loopback"} : Respond(q, ip)
  \/ \E x \in Challenges, o \in Servers \cup {None} : Challenge(x, o)
  \/ Drop

Loop ==
  SpawnPaused \/ SpawnAuth \/ CheckResponseIP \/ \E l \in BOOLEAN : CheckFrameNavigated(l)

RespondPaused(q) ==
  NoRequest(q) \/ Bypass(q) \/ TestRebind(q) \/ \E ok \in BOOLEAN : CheckURL(q, ok)

RespondAuth(x) == ReadSlot(x) \/ AnswerAuth(x)

Next ==
  \/ Chrome \/ Loop
  \/ \E q \in Requests : RespondPaused(q)
  \/ \E x \in Challenges : RespondAuth(x)
  \/ \E c \in Callers : Register(c) \/ Unregister(c)

\* The loop and the goroutines are scheduled, and every lookup in them is
\* bounded by checkTimeout.
Fairness ==
  /\ WF_vars(Loop)
  /\ \A q \in Requests : WF_vars(RespondPaused(q))
  /\ \A x \in Challenges : WF_vars(RespondAuth(x))

Spec == Init /\ [][Next]_vars
FairSpec == Spec /\ Fairness

-----------------------------------------------------------------------------
\* A request that Chrome pauses after it has reported the host's response from
\* a refused address is not continued by the DNS check of that moment, however
\* the handlers of earlier events are delayed (the "future Request-stage checks
\* for these domains will be blocked" of egressGuard.rebindDomains).
ExposedHostsBlocked ==
  \A q \in Requests : late[q] /\ ~allow => req[q] \notin {"checked", "continued", "over"}

\* Chrome gets a credential only for a challenge of the proxy it was registered
\* for, although registrations change between the challenge, the read of the
\* slot and the answer (authChallengeResponse).
CredentialsToTheirProxy ==
  \A x \in Challenges : given[x] # None => origin[x] = ServerOf[given[x]]

\* The active credential belongs to a caller that has not cleaned up: nothing
\* is left in the slot when the callers are gone.
NoCredentialLeft == slot.cred # None => work[slot.cred] = "working"

\* A cleanup clears the credential of its own caller only ("a generation token
\* guards against a stale unregister", registerProxyAuth).
OnlyOwnerClears ==
  [][\A c \in Callers :
       slot.cred = c /\ slot'.cred = None => work[c] = "working" /\ work'[c] = "idle"]_vars

\* Chrome gets an answer for every request it pauses, and for every challenge,
\* as long as the connection lives: none hangs.
EveryPauseAnswered ==
  /\ \A q \in Requests : req[q] = "paused" ~> req[q] \in {"continued", "failed", "over"} \/ ~up
  /\ \A x \in Challenges : chal[x] = "raised" ~> chal[x] = "answered" \/ ~up
=============================================================================
