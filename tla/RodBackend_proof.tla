-------------------------- MODULE RodBackend_proof --------------------------
(***************************************************************************)
(* Proofs about RodBackend, for any number of renders, closers, slots and  *)
(* launches: the semaphore's tokens are those of the renders in progress,  *)
(* and these use one living Chromium.                                      *)
(***************************************************************************)
EXTENDS RodBackend, FiniteSetTheorems, TLAPS

-----------------------------------------------------------------------------
(* The invariant.                                                          *)

Rendering == {x \in Renders : pc[x] = "render"}

Slots == IsFiniteSet(Rendering) /\ SlotsBalance

\* b.mu is with the call that is inside restart.
InRestart(x) == pc[x] \in {"kill", "launch", "connect"}
Locked == \A x \in Renders : mu = x <=> InRestart(x)

\* Processes are numbered as they are launched.
Numbered ==
  /\ alive \subseteq 0 .. launched
  /\ launcher # None => launcher <= launched
  /\ \A x \in Renders : r[x] # None => r[x] <= launched

\* b.rod is nil or a connection to the process of b.launcher, and a process that
\* some render uses is that one or dead.
CurrentUsed ==
  /\ rod # None => rod = launcher
  /\ \A x \in Renders : r[x] # None /\ r[x] \in alive => r[x] = launcher

\* A restart that is past its first step has killed the process of b.launcher.
OldKilled ==
  \A x \in Renders : pc[x] \in {"launch", "connect"} => launcher \notin alive

\* What a render uses is what it read, and it is nil nowhere else.
Using == \A x \in Renders : pc[x] \in {"acquire", "render"} => r[x] # None

RodInv == TypeOK /\ Slots /\ Locked /\ Numbered /\ CurrentUsed /\ OldKilled /\ Using

-----------------------------------------------------------------------------
(* Steps.                                                                  *)

\* Every step keeps the types.
LEMMA TypesStep ==
  ASSUME TypeOK, Slots, Next
  PROVE  TypeOK'
<1> USE NoneAssumption, SizeAssumption
<1> USE DEF TypeOK, Processes, os, backend, semaphore, calls, Goto, Use
<1>1. ASSUME NEW x \in Renders, Render(x) PROVE TypeOK'
  <2>1. CASE pc[x] = "render" /\ Release
    <3>1. x \in Rendering BY <2>1 DEF Rendering
    <3>2. Cardinality(Rendering) # 0 /\ Cardinality(Rendering) \in Nat
      BY <3>1, FS_EmptySet, FS_CardinalityType DEF Slots
    <3>3. sem - 1 \in Nat BY <3>2 DEF Slots, SlotsBalance, Rendering
    <3>4. sem' \in Nat BY <2>1, <3>3 DEF Release
    <3>5. \E l \in {"ok", "failed", "lock"} : pc' = [pc EXCEPT ![x] = l]
      BY <1>1, <2>1 DEF Render, ReadBrowser, Acquire, AcquireClosed, RenderOK, RenderFails,
         ConnectionError, LockRestart, KillOld, Launch, RestartFails, Connect
    <3>6. r' = [r EXCEPT ![x] = None]
      BY <1>1, <2>1 DEF Render, ReadBrowser, Acquire, AcquireClosed, RenderOK, RenderFails,
         ConnectionError, LockRestart, KillOld, Launch, RestartFails, Connect
    <3> QED BY <2>1, <3>4, <3>5, <3>6 DEF Release
  <2>2. CASE ReadBrowser(x) BY <2>2 DEF ReadBrowser
  <2>3. CASE Acquire(x) BY <2>3 DEF Acquire
  <2>4. CASE AcquireClosed(x) BY <2>4 DEF AcquireClosed
  <2>5. CASE LockRestart(x) BY <2>5 DEF LockRestart
  <2>6. CASE KillOld(x) BY <2>6 DEF KillOld
  <2>7. CASE Launch(x) BY <2>7 DEF Launch
  <2>8. CASE RestartFails(x) BY <2>8 DEF RestartFails
  <2>9. CASE Connect(x) BY <2>9 DEF Connect
  <2> QED
    BY <1>1, <2>1, <2>2, <2>3, <2>4, <2>5, <2>6, <2>7, <2>8, <2>9
    DEF Render, RenderOK, RenderFails, ConnectionError
<1>2. ASSUME NEW x \in Renders, Cancel(x) PROVE TypeOK' BY <1>2 DEF Cancel
<1>3. ASSUME NEW c \in Closers, Close(c) PROVE TypeOK'
  <2>1. CASE TakeBrowser(c) BY <2>1 DEF TakeBrowser
  <2>2. CASE TestDone(c) BY <2>2 DEF TestDone
  <2>3. CASE CloseDone(c) BY <2>3 DEF CloseDone
  <2>4. CASE CloseBrowser(c) BY <2>4 DEF CloseBrowser
  <2> QED BY <1>3, <2>1, <2>2, <2>3, <2>4 DEF Close
<1>4. ASSUME NEW k \in Processes, Crash(k) PROVE TypeOK' BY <1>4 DEF Crash
<1> QED BY <1>1, <1>2, <1>3, <1>4 DEF Next

\* Nobody starts or ends a render: the tokens stay as they are.
LEMMA SlotsKept ==
  ASSUME Slots, UNCHANGED sem, Rendering' = Rendering
  PROVE  Slots'
  BY DEF Slots, SlotsBalance, Rendering

\* Acquire takes a token for the render it starts.
LEMMA SlotTaken ==
  ASSUME TypeOK, Slots, NEW x \in Renders, Acquire(x)
  PROVE  Slots'
<1>1. Rendering' = Rendering \cup {x} /\ x \notin Rendering
  BY DEF Acquire, Goto, Rendering, TypeOK
<1>2. IsFiniteSet(Rendering') /\ Cardinality(Rendering') = Cardinality(Rendering) + 1
  BY <1>1, FS_AddElement DEF Slots
<1>3. sem' = sem + 1 /\ sem < Size BY DEF Acquire
<1> QED BY <1>2, <1>3, SizeAssumption DEF Slots, SlotsBalance, Rendering, TypeOK

\* A render that ends gives one back.
LEMMA SlotReturned ==
  ASSUME TypeOK, Slots, NEW x \in Renders, pc[x] = "render", Release,
         NEW l \in {"ok", "failed", "lock"}, Goto(x, l)
  PROVE  Slots'
<1>1. Rendering' = Rendering \ {x} /\ x \in Rendering
  BY DEF Goto, Rendering, TypeOK
<1>2. IsFiniteSet(Rendering') /\ Cardinality(Rendering') = Cardinality(Rendering) - 1
  BY <1>1, FS_RemoveElement DEF Slots
<1>3. sem' = sem - 1 BY DEF Release
<1> QED BY <1>2, <1>3, SizeAssumption DEF Slots, SlotsBalance, Rendering, TypeOK

\* Every step keeps the tokens.
LEMMA SlotsStep ==
  ASSUME TypeOK, Slots, Next
  PROVE  Slots'
<1> USE DEF TypeOK, Rendering, os, backend, semaphore, calls, Goto, Use
<1>1. ASSUME NEW x \in Renders, Render(x) PROVE Slots'
  <2>1. CASE Acquire(x) BY <2>1, SlotTaken
  <2>2. CASE pc[x] = "render" /\ Release
    <3>1. PICK l \in {"ok", "failed", "lock"} : Goto(x, l)
      BY <1>1, <2>2 DEF Render, ReadBrowser, Acquire, AcquireClosed, RenderOK, RenderFails,
         ConnectionError, LockRestart, KillOld, Launch, RestartFails, Connect
    <3> QED BY <2>2, <3>1, SlotReturned
  <2>3. CASE ReadBrowser(x) BY <2>3, SlotsKept DEF ReadBrowser
  <2>4. CASE AcquireClosed(x) BY <2>4, SlotsKept DEF AcquireClosed
  <2>5. CASE LockRestart(x) BY <2>5, SlotsKept DEF LockRestart
  <2>6. CASE KillOld(x) BY <2>6, SlotsKept DEF KillOld
  <2>7. CASE Launch(x) BY <2>7, SlotsKept DEF Launch
  <2>8. CASE RestartFails(x) BY <2>8, SlotsKept DEF RestartFails
  <2>9. CASE Connect(x) BY <2>9, SlotsKept DEF Connect
  <2> QED
    BY <1>1, <2>1, <2>2, <2>3, <2>4, <2>5, <2>6, <2>7, <2>8, <2>9
    DEF Render, RenderOK, RenderFails, ConnectionError
<1>2. ASSUME NEW x \in Renders, Cancel(x) PROVE Slots' BY <1>2, SlotsKept DEF Cancel
<1>3. ASSUME NEW c \in Closers, Close(c) PROVE Slots'
  BY <1>3, SlotsKept DEF Close, TakeBrowser, TestDone, CloseDone, CloseBrowser
<1>4. ASSUME NEW k \in Processes, Crash(k) PROVE Slots' BY <1>4, SlotsKept DEF Crash
<1> QED BY <1>1, <1>2, <1>3, <1>4 DEF Next

\* Every step keeps the lock and what the processes are used for.
LEMMA ProcessesStep ==
  ASSUME RodInv, Next
  PROVE  (Locked /\ Numbered /\ CurrentUsed /\ OldKilled /\ Using)'
<1> USE NoneAssumption, SizeAssumption
<1> USE DEF RodInv, TypeOK, Processes, InRestart, Locked, Numbered, CurrentUsed, OldKilled, Using,
            os, backend, semaphore, calls, Goto, Use
<1> DEFINE Goal == (Locked /\ Numbered /\ CurrentUsed /\ OldKilled /\ Using)'
<1>1. ASSUME NEW x \in Renders, Render(x) PROVE Goal
  <2>1. CASE ReadBrowser(x) BY <2>1 DEF ReadBrowser
  <2>2. CASE Acquire(x) BY <2>2 DEF Acquire
  <2>3. CASE AcquireClosed(x) BY <2>3 DEF AcquireClosed
  <2>4. CASE RenderOK(x) BY <2>4 DEF RenderOK, Release
  <2>5. CASE RenderFails(x) BY <2>5 DEF RenderFails, Release
  <2>6. CASE ConnectionError(x) BY <2>6 DEF ConnectionError, Release
  <2>7. CASE LockRestart(x) BY <2>7 DEF LockRestart
  <2>8. CASE KillOld(x) BY <2>8 DEF KillOld
  <2>9. CASE Launch(x) BY <2>9 DEF Launch
  <2>10. CASE RestartFails(x) BY <2>10 DEF RestartFails
  <2>11. CASE Connect(x) BY <2>11 DEF Connect
  <2> QED
    BY <1>1, <2>1, <2>2, <2>3, <2>4, <2>5, <2>6, <2>7, <2>8, <2>9, <2>10, <2>11 DEF Render
<1>2. ASSUME NEW x \in Renders, Cancel(x) PROVE Goal BY <1>2 DEF Cancel
<1>3. ASSUME NEW c \in Closers, Close(c) PROVE Goal
  <2>1. CASE TakeBrowser(c) BY <2>1 DEF TakeBrowser
  <2>2. CASE TestDone(c) BY <2>2 DEF TestDone
  <2>3. CASE CloseDone(c) BY <2>3 DEF CloseDone
  <2>4. CASE CloseBrowser(c) BY <2>4 DEF CloseBrowser
  <2> QED BY <1>3, <2>1, <2>2, <2>3, <2>4 DEF Close
<1>4. ASSUME NEW k \in Processes, Crash(k) PROVE Goal BY <1>4 DEF Crash
<1> QED
  <2> HIDE DEF Goal
  <2>1. Goal BY <1>1, <1>2, <1>3, <1>4 DEF Next
  <2> QED BY <2>1 DEF Goal

-----------------------------------------------------------------------------
(* The theorems.                                                           *)

LEMMA InitRod ==
  ASSUME Init
  PROVE  RodInv
<1> USE NoneAssumption, SizeAssumption DEF Init
<1>1. TypeOK
  <2>1. 0 \in Processes BY DEF Processes
  <2> QED BY <2>1 DEF TypeOK
<1>2. Rendering = {} BY DEF Rendering
<1>3. Slots BY <1>2, FS_EmptySet DEF Slots, SlotsBalance, Rendering
<1>4. Locked /\ Numbered /\ CurrentUsed /\ OldKilled /\ Using
  BY DEF InRestart, Locked, Numbered, CurrentUsed, OldKilled, Using
<1> QED BY <1>1, <1>3, <1>4 DEF RodInv

LEMMA RodStep ==
  ASSUME RodInv, [Next]_vars
  PROVE  RodInv'
<1>1. CASE Next
  BY <1>1, TypesStep, SlotsStep, ProcessesStep DEF RodInv
<1>2. CASE UNCHANGED vars
  <2> USE <1>2 DEF vars, os, backend, semaphore, calls, RodInv
  <2>1. TypeOK' BY DEF TypeOK
  <2>2. Slots' BY SlotsKept DEF Rendering
  <2>3. (Locked /\ Numbered /\ CurrentUsed /\ OldKilled /\ Using)'
    BY DEF InRestart, Locked, Numbered, CurrentUsed, OldKilled, Using
  <2> QED BY <2>1, <2>2, <2>3
<1> QED BY <1>1, <1>2

\* The inductive invariant of the backend.
LEMMA RodHolds == Spec => []RodInv
  BY InitRod, RodStep, PTL DEF Spec

\* Pool.Acquire and its deferred release balance over crashes, restarts, retries,
\* cancellations and Close.
THEOREM SlotsAlwaysBalance == Spec => []SlotsBalance
<1>1. RodInv => SlotsBalance BY DEF RodInv, Slots
<1> QED BY <1>1, RodHolds, PTL

\* The renders that make progress do so in one Chromium, whatever restarts and
\* Close do to each other.
THEOREM RendersShareOneChromium == Spec => []OneServingChromium
<1>1. RodInv => OneServingChromium BY DEF RodInv, CurrentUsed, Using, OneServingChromium
<1> QED BY <1>1, RodHolds, PTL

\* b.mu is held by exactly the call that is inside restart, so that restarts never
\* overlap.
THEOREM RestartsExclude ==
  Spec => [](\A x, y \in Renders : InRestart(x) /\ InRestart(y) => x = y)
<1>1. RodInv => \A x, y \in Renders : InRestart(x) /\ InRestart(y) => x = y
  BY DEF RodInv, Locked
<1> QED BY <1>1, RodHolds, PTL
=============================================================================
