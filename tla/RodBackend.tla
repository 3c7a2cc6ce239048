----------------------------- MODULE RodBackend -----------------------------
(***************************************************************************)
(* The in-process Chromium backend (src/rod/rod.go, src/rod/restart.go)    *)
(* and the semaphore Pool it renders under (src/pool.go): concurrent       *)
(* Render calls that restart a crashed Chromium and retry once, and Close. *)
(*                                                                         *)
(* Chromium processes are numbered in the order of their launch; a         *)
(* *rod.Browser and a launcher have the number of their process.           *)
(***************************************************************************)
EXTENDS Naturals, FiniteSets

CONSTANTS
  Renders,   \* calls of Render
  Closers,   \* calls of Close
  Size,      \* capacity of the Pool
  MaxLaunch, \* bound on the number of restarts that launch a Chromium
  None

Processes == 0 .. MaxLaunch
ASSUME SizeAssumption == Size \in Nat \ {0} /\ MaxLaunch \in Nat
ASSUME NoneAssumption == None \notin Nat \cup Renders \cup Closers

VARIABLES
  alive,     \* Chromium processes that run
  launched,  \* the newest of all
  rod,       \* b.rod: a process, or None (nil)
  launcher,  \* b.launcher
  mu,        \* the restart that holds b.mu, or None
  sem,       \* tokens in Pool.sem
  done,      \* Pool.done is closed
  crashed,   \* close of the closed Pool.done: the program is gone
  pc,
  r,         \* the process a call works with
  retried    \* the call is in its second renderOnce

os == <<alive, launched>>
backend == <<rod, launcher, mu>>
semaphore == <<sem, done, crashed>>
calls == <<pc, r, retried>>
vars == <<os, backend, semaphore, calls>>

TypeOK ==
  /\ alive \subseteq Processes /\ launched \in Processes
  /\ rod \in Processes \cup {None} /\ launcher \in Processes \cup {None}
  /\ mu \in Renders \cup {None}
  /\ sem \in Nat /\ done \in BOOLEAN /\ crashed \in BOOLEAN
  /\ pc \in [Renders \cup Closers ->
               {"idle", "acquire", "render", "lock", "kill", "launch", "connect",
                "again", "testDone", "closeDone", "close", "ok", "failed"}]
  /\ r \in [Renders \cup Closers -> Processes \cup {None}]
  /\ retried \in [Renders -> BOOLEAN]

\* New has returned.
Init ==
  /\ alive = {0} /\ launched = 0
  /\ rod = 0 /\ launcher = 0 /\ mu = None
  /\ sem = 0 /\ done = FALSE /\ crashed = FALSE
  /\ pc = [x \in Renders \cup Closers |-> "idle"]
  /\ r = [x \in Renders \cup Closers |-> None]
  /\ retried = [x \in Renders |-> FALSE]

Goto(x, l) == pc' = [pc EXCEPT ![x] = l]
Use(x, k) == r' = [r EXCEPT ![x] = k]

-----------------------------------------------------------------------------
(* Pool.Acquire: a slot, or done; when both are there either may be taken. *)

Acquire(x) ==
  /\ pc[x] = "acquire" /\ sem < Size
  /\ sem' = sem + 1
  /\ Goto(x, "render")
  /\ UNCHANGED <<os, backend, done, crashed, r, retried>>

AcquireClosed(x) ==
  /\ pc[x] = "acquire" /\ done
  /\ Goto(x, "failed") /\ Use(x, None)
  /\ UNCHANGED <<os, backend, semaphore, retried>>

\* The caller's context ends while it waits.
Cancel(x) ==
  /\ pc[x] = "acquire"
  /\ Goto(x, "failed") /\ Use(x, None)
  /\ UNCHANGED <<os, backend, semaphore, retried>>

-----------------------------------------------------------------------------
(* renderOnce.                                                             *)

ReadBrowser(x) ==
  /\ pc[x] \in {"idle", "again"} /\ mu = None
  /\ Goto(x, IF rod = None THEN "failed" ELSE "acquire")
  /\ Use(x, rod)
  /\ retried' = [retried EXCEPT ![x] = pc[x] = "again"]
  /\ UNCHANGED <<os, backend, semaphore>>

\* The deferred release, on every return.
Release == sem' = sem - 1 /\ UNCHANGED <<os, backend, done, crashed, retried>>

RenderOK(x) ==
  /\ pc[x] = "render" /\ r[x] \in alive
  /\ Goto(x, "ok") /\ Use(x, None)
  /\ Release

\* A navigation error, or RenderTimeout.
RenderFails(x) ==
  /\ pc[x] = "render"
  /\ Goto(x, "failed") /\ Use(x, None)
  /\ Release

\* Mutant of ConnectionError: the slot is kept over the restart.
ConnectionErrorHolding(x) ==
  /\ pc[x] = "render" /\ r[x] \notin alive
  /\ Goto(x, IF retried[x] THEN "failed" ELSE "lock") /\ Use(x, None)
  /\ UNCHANGED <<os, backend, semaphore, retried>>

\* isConnectionError: restart and retry, the first time.
ConnectionError(x) ==
  /\ pc[x] = "render" /\ r[x] \notin alive
  /\ Goto(x, IF retried[x] THEN "failed" ELSE "lock") /\ Use(x, None)
  /\ Release

-----------------------------------------------------------------------------
(* restart: the whole of it under b.mu.                                    *)

LockRestart(x) ==
  /\ pc[x] = "lock" /\ mu = None
  /\ mu' = x
  /\ Goto(x, "kill")
  /\ UNCHANGED <<os, rod, launcher, semaphore, r, retried>>

\* Mutant of KillOld: the browser is closed, its launcher is not killed.
CloseOldOnly(x) ==
  /\ pc[x] = "kill"
  /\ alive' = alive \ {rod}
  /\ Goto(x, "launch")
  /\ UNCHANGED <<launched, backend, semaphore, r, retried>>

\* The browser and the launcher that are current by now, dead or not.
KillOld(x) ==
  /\ pc[x] = "kill"
  /\ alive' = alive \ {rod, launcher}
  /\ Goto(x, "launch")
  /\ UNCHANGED <<launched, backend, semaphore, r, retried>>

Launch(x) ==
  /\ pc[x] = "launch" /\ launched < MaxLaunch
  /\ launched' = launched + 1 /\ alive' = alive \cup {launched + 1}
  /\ Goto(x, "connect")
  /\ UNCHANGED <<backend, semaphore, r, retried>>

\* Launch or Connect fails; a Chromium that was launched is left running.
RestartFails(x) ==
  /\ pc[x] \in {"launch", "connect"}
  /\ rod' = None /\ launcher' = None /\ mu' = None
  /\ Goto(x, "failed")
  /\ UNCHANGED <<os, semaphore, r, retried>>

Connect(x) ==
  /\ pc[x] = "connect"
  /\ rod' = launched /\ launcher' = launched /\ mu' = None
  /\ Goto(x, "again")
  /\ UNCHANGED <<os, semaphore, r, retried>>

Render(x) ==
  /\ ~crashed
  /\ \/ ReadBrowser(x) \/ Acquire(x) \/ AcquireClosed(x)
     \/ RenderOK(x) \/ RenderFails(x) \/ ConnectionError(x)
     \/ LockRestart(x) \/ KillOld(x) \/ Launch(x) \/ RestartFails(x) \/ Connect(x)

-----------------------------------------------------------------------------
(* Close.                                                                  *)

TakeBrowser(c) ==
  /\ pc[c] = "idle" /\ mu = None
  /\ rod' = None /\ Use(c, rod)
  /\ Goto(c, "testDone")
  /\ UNCHANGED <<os, launcher, mu, semaphore, retried>>

\* Pool.Close: done is tested, then closed.
TestDone(c) ==
  /\ pc[c] = "testDone"
  /\ Goto(c, IF done THEN "close" ELSE "closeDone")
  /\ UNCHANGED <<os, backend, semaphore, r, retried>>

CloseDone(c) ==
  /\ pc[c] = "closeDone"
  /\ done' = TRUE /\ crashed' = done
  /\ Goto(c, "close")
  /\ UNCHANGED <<os, backend, sem, r, retried>>

\* r.Close(): Chromium exits.
CloseBrowser(c) ==
  /\ pc[c] = "close"
  /\ alive' = alive \ {r[c]} /\ Use(c, None)
  /\ Goto(c, "ok")
  /\ UNCHANGED <<launched, backend, semaphore, retried>>

Close(c) == ~crashed /\ (TakeBrowser(c) \/ TestDone(c) \/ CloseDone(c) \/ CloseBrowser(c))

\* A Chromium dies.
Crash(k) ==
  /\ ~crashed /\ k \in alive
  /\ alive' = alive \ {k}
  /\ UNCHANGED <<launched, backend, semaphore, calls>>

Next ==
  \/ \E x \in Renders : Render(x) \/ (~crashed /\ Cancel(x))
  \/ \E c \in Closers : Close(c)
  \/ \E k \in Processes : Crash(k)

\* Goroutines run; nobody has to cancel, to close or to crash.
Fairness ==
  /\ \A x \in Renders : WF_vars(pc[x] # "idle" /\ Render(x))
  /\ \A c \in Closers : WF_vars(pc[c] # "idle" /\ Close(c))

Spec == Init /\ [][Next]_vars
FairSpec == Spec /\ Fairness

-----------------------------------------------------------------------------
(* What the backend promises.                                              *)

\* The tokens in the semaphore are those of the renders in progress, at most
\* Size, over crashes, restarts, retries, cancellations and Close.
SlotsBalance ==
  sem = Cardinality({x \in Renders : pc[x] = "render"}) /\ sem <= Size

\* Every Render that has started returns, without its caller's context ending:
\* slots come back, a restart holds none, Close wakes the waiters.
EveryRenderReturns ==
  \A x \in Renders : pc[x] # "idle" ~> pc[x] \in {"ok", "failed"} \/ crashed

\* Renders that make progress at the same time do so in one Chromium: a
\* restart, also one that follows a Close still at work, leaves no older one
\* behind that somebody uses.
OneServingChromium ==
  \A x, y \in Renders :
    pc[x] = "render" /\ pc[y] = "render" /\ {r[x], r[y]} \subseteq alive => r[x] = r[y]

\* What the comment on Close says: "Close shuts down Rod and the Chromium
\* process".
ClosedMeansDown == \A c \in Closers : pc[c] = "ok" => alive = {}
=============================================================================
