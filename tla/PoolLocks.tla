------------------------------ MODULE PoolLocks ------------------------------
(***************************************************************************)
(* The locks of the ContextPool (src/context_pool.go): contextsMu, an      *)
(* RWMutex over the contexts map, and one Mutex per ManagedContext.  Every *)
(* operation is reduced to the order in which it takes and releases them   *)
(* and makes its CDP calls; what it does to the maps is in PagePool and    *)
(* ContextRegistry.                                                        *)
(***************************************************************************)
EXTENDS Sequences, SequencesExt, FiniteSets, TLC

CONSTANTS
  Threads,    \* goroutines that use the pool
  Contexts,   \* the contexts in the map
  Default,    \* the one whose key is "default"
  Operations, \* the operations the threads call
  None

ASSUME ContextAssumption == Default \in Contexts /\ IsFiniteSet(Contexts)
ASSUME NoneAssumption == None \notin Threads \cup Contexts

VARIABLES
  code,     \* what is left of the operation each thread executes
  readers,  \* read holders of contextsMu
  waiting,  \* readers that wait for a writer to finish
  pending,  \* the writer that keeps new readers out, or None
  writer,   \* the write holder of contextsMu, or None
  owner     \* the holder of each context's Mu, or None

vars == <<code, readers, waiting, pending, writer, owner>>

-----------------------------------------------------------------------------
(* The operations, as sequences of lock instructions.                      *)

RLock == <<"RLock", None>>
RUnlock == <<"RUnlock", None>>
WLock == <<"WLock", None>>
WUnlock == <<"WUnlock", None>>
CDP == <<"CDP", None>>
Lock(m) == <<"Lock", m>>
Unlock(m) == <<"Unlock", m>>

Section(m) == <<Lock(m), Unlock(m)>>  \* of ManagedContext.Mu

\* A loop over contexts that locks each in turn; map order is arbitrary.
Loops(ms) ==
  {[i \in 1 .. 2 * Len(s) |->
      IF i % 2 = 1 THEN Lock(s[(i + 1) \div 2]) ELSE Unlock(s[i \div 2])] :
   s \in SetToSeqs(ms)}

\* A loop that may end early, at the context it was looking for.
Searches == UNION {Loops(ms) : ms \in SUBSET Contexts}

\* Reap's loop under the write lock: an empty context is disposed at once; for
\* one that is not empty the call is over at once.
Disposals(ms) ==
  {[i \in 1 .. 3 * Len(s) |->
      LET m == s[(i + 2) \div 3] IN
        IF i % 3 = 1 THEN Lock(m) ELSE IF i % 3 = 2 THEN Unlock(m) ELSE CDP] :
   s \in SetToSeqs(ms)}

\* Mutant of ListCode: the map is read with a context locked.
ListCodeReversed == {<<Lock(m), RLock, RUnlock, Unlock(m)>> : m \in Contexts}

\* List, SessionCount, watchTargetDestroyed: the contexts are copied under
\* the read lock and locked after it.
ListCode == {<<RLock, RUnlock>> \o l : l \in Searches}

\* Mutant of DiscoverCode: GetTargets under the read lock.
DiscoverCodeLocked == {<<RLock, CDP, RUnlock>> \o l : l \in Loops(Contexts \ {Default})}

\* discoverPersistentDefaultCtxID: no browser, or GetTargets, which may fail,
\* and then knownIncognitoCtxIDs.
DiscoverCode ==
  {<<>>, <<CDP>>} \cup {<<CDP, RLock, RUnlock>> \o l : l \in Loops(Contexts \ {Default})}

\* FindManagedPage, the first phase of ClosePage, the scan of Reap and the page
\* count of HealthCheck: the contexts are locked inside the read lock.
FindCode == {<<RLock>> \o l \o <<RUnlock>> : l \in Searches}

\* HealthCheck of a page it counted: the probe, and whether it is still there.
CandidateCode(m) == <<CDP>> \o Section(m)

\* getOrCreateContextSafe: found, or refused by parseProxy, or created in CDP,
\* which may fail, and published, or disposed because another caller was first.
ContextCode ==
  {<<RLock, RUnlock>>, <<RLock, RUnlock, CDP>>}
    \cup {<<RLock, RUnlock>> \o d \o <<WLock, WUnlock>> :
            d \in DiscoverCode \cup {<<CDP>>}}
    \cup {<<RLock, RUnlock, CDP, WLock, CDP, WUnlock>>}

(* getOrCreatePage, cut where it holds no lock; <-ready counts as a call.  A *)
(* goroutine that has ended one piece begins any other, the next included.   *)

\* Phase 2: no entry and the default context empty, or an entry that is waited
\* for, and probed when it is usable.
LookupCode(m) == {Section(m), Section(m) \o <<CDP>>, Section(m) \o <<CDP, CDP>>}

\* The rediscovery of adoptExistingPage: discovered twice, for the first finds
\* another ID than the cached one; a tab of the new ID is looked for.
RebindCode(m) ==
  {d \o e \o f : d \in DiscoverCode, e \in DiscoverCode, f \in {<<>>, Section(m) \o <<CDP>>}}

\* adoptExistingPage: GetTargets, the cached ID, and a tab of it or the
\* rediscovery, which ends when the ID it finds is the cached one.
AdoptCode(m) ==
  {<<>>, <<CDP>>}
    \cup {<<CDP>> \o Section(m) \o r : r \in {<<CDP>>} \cup DiscoverCode \cup RebindCode(m)}

\* The adopted tab is published, dressed and listened to, or it is closed and
\* the entry that came first waited for.
PublishCode(m) ==
  {<<RLock, RUnlock>> \o Section(m) \o r : r \in {<<CDP, CDP>>, <<RLock, RUnlock, CDP>>}}

\* The reservation, with m locked by the lookup, by the failed probe or by the
\* failed adoption: the stealth profile is read, under contextsMu, while the
\* context's Mu is held.
ReserveCode(m) == <<Lock(m), RLock, RUnlock, Unlock(m)>>

\* newPageInContext.
NewPageCode(m) == Section(m) \o <<CDP>>

\* createPageWithStaleRecovery, a goroutine of its own: the default context may
\* be rediscovered, and the page be created again.
CreateCode(m) ==
  {NewPageCode(m)}
    \cup IF m # Default THEN {}
         ELSE {NewPageCode(m) \o d \o Section(m) \o n :
                 d \in DiscoverCode, n \in {<<>>, NewPageCode(m)}}

\* Phase 4: the placeholder is deleted or the page discarded, or it is patched,
\* dressed and listened to.
PatchCode(m) == {Section(m) \o r : r \in {<<>>, <<CDP>>, <<RLock, RUnlock, CDP>>}}

\* ClosePage of a session of m that it found: the wait, the removal, the close
\* of the page; an empty non-default context is disposed under the write lock.
CloseCode(m) ==
  {<<CDP>> \o Section(m) \o r :
     r \in {<<>>, <<CDP>>, <<CDP, WLock, WUnlock>>}
             \cup IF m = Default THEN {}
                  ELSE {<<CDP, WLock>> \o Section(m) \o d : d \in {<<WUnlock>>, <<CDP, WUnlock>>}}}

\* Reap after its scan: the closes, then the disposal of the empty contexts.
ReapCode == {<<CDP, WLock>> \o e \o <<WUnlock>> : e \in Disposals(Contexts \ {Default})}

\* UpdateBrowser empties every context's map.
UpdateCode == {<<WLock>> \o l \o <<WUnlock>> : l \in Loops(Contexts)}

\* SetStealthProfile.
ProfileCode == {<<WLock, WUnlock>>}

Code == [List |-> ListCode, FindManagedPage |-> FindCode,
         HealthCheck |-> {CandidateCode(m) : m \in Contexts},
         getOrCreateContextSafe |-> ContextCode,
         lookup |-> UNION {LookupCode(m) : m \in Contexts},
         adoptExistingPage |-> AdoptCode(Default), publish |-> PublishCode(Default),
         reserve |-> {ReserveCode(m) : m \in Contexts},
         createPageWithStaleRecovery |-> UNION {CreateCode(m) : m \in Contexts},
         patch |-> UNION {PatchCode(m) : m \in Contexts},
         ClosePage |-> UNION {CloseCode(m) : m \in Contexts}, Reap |-> ReapCode,
         UpdateBrowser |-> UpdateCode, SetStealthProfile |-> ProfileCode]

ASSUME OperationsAssumption == Operations \subseteq DOMAIN Code

-----------------------------------------------------------------------------
Init ==
  /\ code = [t \in Threads |-> <<>>]
  /\ readers = {} /\ waiting = {} /\ pending = None /\ writer = None
  /\ owner = [m \in Contexts |-> None]

Start(t) ==
  /\ code[t] = <<>>
  /\ \E op \in Operations : \E c \in Code[op] : code' = [code EXCEPT ![t] = c]
  /\ UNCHANGED <<readers, waiting, pending, writer, owner>>

At(t, i) == code[t] # <<>> /\ Head(code[t])[1] = i
Done(t) == code' = [code EXCEPT ![t] = Tail(code[t])]

\* sync.RWMutex: a writer that waits keeps new readers out; readers that
\* waited for a writer enter when it leaves, before the next writer.
EnterRead(t) ==
  /\ At(t, "RLock") /\ t \notin waiting
  /\ \/ /\ pending = None /\ writer = None
        /\ readers' = readers \cup {t} /\ Done(t) /\ UNCHANGED waiting
     \/ /\ pending # None \/ writer # None
        /\ waiting' = waiting \cup {t} /\ UNCHANGED <<readers, code>>
  /\ UNCHANGED <<pending, writer, owner>>

LeaveRead(t) ==
  /\ At(t, "RUnlock")
  /\ readers' = readers \ {t} /\ Done(t)
  /\ UNCHANGED <<waiting, pending, writer, owner>>

AnnounceWrite(t) ==
  /\ At(t, "WLock") /\ pending = None /\ writer = None
  /\ pending' = t
  /\ UNCHANGED <<code, readers, waiting, writer, owner>>

EnterWrite(t) ==
  /\ pending = t /\ readers = {}
  /\ pending' = None /\ writer' = t /\ Done(t)
  /\ UNCHANGED <<readers, waiting, owner>>

LeaveWrite(t) ==
  /\ At(t, "WUnlock")
  /\ writer' = None
  /\ readers' = waiting /\ waiting' = {}
  /\ code' = [u \in Threads |-> IF u = t \/ u \in waiting THEN Tail(code[u]) ELSE code[u]]
  /\ UNCHANGED <<pending, owner>>

LockContext(t) ==
  /\ At(t, "Lock")
  /\ LET m == Head(code[t])[2] IN
       owner[m] = None /\ owner' = [owner EXCEPT ![m] = t]
  /\ Done(t)
  /\ UNCHANGED <<readers, waiting, pending, writer>>

UnlockContext(t) ==
  /\ At(t, "Unlock")
  /\ owner' = [owner EXCEPT ![Head(code[t])[2]] = None]
  /\ Done(t)
  /\ UNCHANGED <<readers, waiting, pending, writer>>

CallCDP(t) ==
  /\ At(t, "CDP") /\ Done(t)
  /\ UNCHANGED <<readers, waiting, pending, writer, owner>>

Step(t) ==
  \/ EnterRead(t) \/ LeaveRead(t) \/ AnnounceWrite(t) \/ EnterWrite(t)
  \/ LeaveWrite(t) \/ LockContext(t) \/ UnlockContext(t) \/ CallCDP(t)

Next == \E t \in Threads : Start(t) \/ Step(t)

Spec == Init /\ [][Next]_vars

-----------------------------------------------------------------------------
WaitsForPool(t) == pending = t \/ t \in waiting
WaitsForContext(t, m) == At(t, "Lock") /\ Head(code[t])[2] = m
HoldsPool(t) == writer = t \/ t \in readers

\* Nobody waits for contextsMu with a context's Mu in hand while a goroutine
\* that holds contextsMu waits for that Mu.  Every wait-for cycle of the two
\* kinds of lock has such a pair in it; the lock order in the comment of
\* ContextPool is there to rule it out ("Never acquire in reverse order -
\* deadlock risk").
DeadlockFree ==
  ~ \E t, u \in Threads : \E m \in Contexts :
      owner[m] = t /\ WaitsForPool(t) /\ WaitsForContext(u, m) /\ HoldsPool(u)

\* Nobody calls Chrome, or waits for a page, with a context's Mu or the read
\* lock in hand, so a hung tab cannot stop the other sessions of its context.
\* The comment of ContextPool promises more ("Never hold either lock across a
\* CDP call"): the disposals of ClosePage, Reap and getOrCreateContextSafe do
\* call Chrome under the write lock, and are left out here.
NoCallUnderContextLock ==
  \A t \in Threads : At(t, "CDP") =>
    t \notin readers /\ \A m \in Contexts : owner[m] # t
=============================================================================
