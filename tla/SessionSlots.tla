----------------------------- MODULE SessionSlots -----------------------------
(***************************************************************************)
(* What the sessions of a ManagedContext are for their users               *)
(* (src/context_pool.go): named slots.  A slot is free, reserved by a call *)
(* that is making its page, or open with a page; it gets one page, keeps   *)
(* it, and loses it only by becoming free.  How calls wait, probe, adopt,  *)
(* discard and reap is PagePool, which implements this for callers that    *)
(* take turns.                                                             *)
(***************************************************************************)
EXTENDS Naturals

CONSTANTS
  Names,   \* session names after deduplication
  Makers,  \* calls of getOrCreatePage
  Pages,   \* handles of tabs
  None

VARIABLE slot  \* name -> None, or who made the entry and its page, if it has one

Free == {n \in Names : slot[n] = None}
Reserved == {n \in Names \ Free : slot[n].page = None}

Init == slot = [n \in Names |-> None]

\* Each maker is in at most one slot.
Unused(w) == \A n \in Names \ Free : slot[n].who # w

\* A page that is to be created, ...
Reserve(n, w) ==
  /\ n \in Free /\ Unused(w)
  /\ slot' = [slot EXCEPT ![n] = [who |-> w, page |-> None]]

\* ... has been created, ...
Open(n, p) ==
  /\ n \in Reserved
  /\ slot' = [slot EXCEPT ![n].page = p]

\* ... or is there already.
Adopt(n, w, p) ==
  /\ n \in Free /\ Unused(w)
  /\ slot' = [slot EXCEPT ![n] = [who |-> w, page |-> p]]

\* Closed, reaped, dead, failed, or lost with the connection.
Release(S) ==
  /\ S # {}
  /\ slot' = [n \in Names |-> IF n \in S THEN None ELSE slot[n]]

\* (A step that changes no slot is cheaper to tell as such, for TLC.)
Next ==
  /\ slot' # slot
  /\ \/ \E n \in Names :
          \/ \E w \in Makers : Reserve(n, w) \/ \E p \in Pages : Adopt(n, w, p)
          \/ \E p \in Pages : Open(n, p)
     \/ \E S \in SUBSET (Names \ Free) : Release(S)

Spec == Init /\ [][Next]_slot
=============================================================================
