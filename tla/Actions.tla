------------------------------ MODULE Actions ------------------------------
(***************************************************************************)
(* ExecuteAction (src/actions.go) and the executors behind it: what one    *)
(* action of a chain does with Chrome, step by step.  Clients drive one    *)
(* session with chains of actions, which may be spread over any number of  *)
(* requests; their requests may overlap.  They share the page, which       *)
(* changes by itself, the session's RefMap, and the files they write.      *)
(*                                                                         *)
(* Module SnapshotTree says what a snapshot of a document prints; module   *)
(* Interaction has the requests around the chains.  Chrome need not answer *)
(* a call, and may fail any.  An element is a node of the page's n-th      *)
(* document; what Chrome knows of a document ends with the document.       *)
(***************************************************************************)
EXTENDS SnapshotTree

CONSTANTS
  Clients,
  Scenarios,        \* records: docs, the documents the page shows one after the
                    \* other; moves, how it may change; chain and deadline, the
                    \* actions and the deadline of every client
  retryAttempts,
  frameMaxRetries,
  MaxMoves,         \* bound on the changes the page makes by itself
  None

ASSUME AttemptAssumption ==
  retryAttempts \in Nat \ {0} /\ frameMaxRetries \in Nat \ {0} /\ MaxMoves \in Nat

\* Actions on one element that are a single call, those on the page, and the rest.
OnElement == {"hover", "select_option", "scroll", "element_inspect"}
OnPage ==
  {"evaluate", "press", "go_back", "resize", "select_all", "insert_text_input_event",
   "set_cookies", "get_cookies", "get_storage", "set_storage", "clear_storage",
   "handle_dialog", "eval_on_new_document"}
actionRegistry ==
  OnElement \cup OnPage \cup
  {"click", "type_text", "fill_form", "type_into_frame", "wait_for", "wait_stable",
   "wait_for_navigation", "sleep", "navigate", "snapshot", "screenshot"}

\* The formats of a screenshot that are pictures; any other asks for a snapshot.
pictureFormats == {"image", "full", "png", "full_png"}

\* ref=eK is the reference K, 0 for another selector, of the node css or of none.
Selector == [ref : Nat, css : Nat]
NoSelector == [ref |-> 0, css |-> 0]

\* The fields of an Action that the executors tell apart; the others' values are
\* left out.  stealth: also typing slowly; keys: modifier keys are held; path:
\* there is an output path; options.selector: a selector narrows the snapshot.
ActionRecord ==
  [op : actionRegistry, timeout : Nat, stealth : BOOLEAN, humanize : BOOLEAN,
   frame : {"", "css", "url"}, submit : BOOLEAN, keys : BOOLEAN, path : BOOLEAN,
   wait : STRING, selector : Selector, fields : Seq(Selector),
   options : [filter : STRING, level : STRING, depth : Nat, format : STRING, selector : BOOLEAN]]

ASSUME ScenarioAssumption ==
  \A s \in Scenarios :
    /\ s.docs \in Seq(Document) /\ s.docs # <<>>
    /\ s.chain \in [Clients -> Seq(ActionRecord)]
    /\ s.deadline \in [Clients -> {"unset", "ahead", "past"}]

VARIABLES
  site,     \* the scenario
  doc,      \* the page's current document
  covered,  \* an overlay covers the elements
  ready,    \* what is waited for (text, cookie, element, iframe) is there
  idle,     \* no network activity for the quiet time
  moves,    \* changes the page has made by itself
  refMap,   \* mp.Refs: reference number -> element
  files,    \* the screenshot and its temporary file: "none", "partial", "whole"
  clashed,  \* (history) two clients had the temporary file open at once
  st        \* per client, the state of its chain and of the current action

thePage == <<site, doc, covered, ready, idle, moves>>
disk == <<files, clashed>>
vars == <<thePage, refMap, disk, st>>

\* todo: actions left, the current one first   pc: where the current one is
\* deadline: deadline_ms of the request        ended: the request's context has ended
\* limit: the context of withActionTimeout     clickLimit: that of clickDeadline
\* retried: under withRetry   attempt: its count   code: the error of the attempt
\* blind: CDP input without objects            k: count of fields, frames or refs
\* target: the resolved element                start: the document waited to change
\* probe: lastCovered                          refs: what is being printed
\* fd: the file that is being written
\* (history) acted: elements acted on          lost: answers lost after that
\* lines: what the last snapshot printed       printed: the references last returned
\* mixed: others wrote the RefMap since        result: of the last action
Client(chain, deadline) ==
  [todo |-> chain, pc |-> "next", deadline |-> deadline, ended |-> FALSE,
   limit |-> "none", clickLimit |-> "none", retried |-> FALSE, attempt |-> 1, code |-> "",
   blind |-> FALSE, k |-> 0, target |-> None, start |-> 0, probe |-> FALSE, refs |-> <<>>,
   fd |-> "none", acted |-> <<>>, lost |-> 0, lines |-> <<>>, printed |-> <<>>, mixed |-> FALSE,
   result |-> None]

Init ==
  /\ site \in Scenarios
  /\ doc = 1 /\ covered = FALSE /\ ready = FALSE /\ idle = TRUE /\ moves = 0
  /\ refMap = <<>> /\ files = [tmp |-> "none", dst |-> "none"] /\ clashed = FALSE
  /\ st = [c \in Clients |-> Client(site.chain[c], site.deadline[c])]

At(c, l) == st[c].pc = l
Act(c) == Head(st[c].todo)
Elements == {<<doc, n>> : n \in NodesOf(site.docs[doc])}

ActionEnded(c) == st[c].ended \/ st[c].limit = "expired"
ClickEnded(c) == ActionEnded(c) \/ st[c].clickLimit = "expired"

\* The action is over; its result and the history of its work stay.
Over(s, ok, code) ==
  [s EXCEPT !.todo = Tail(@), !.pc = "next", !.limit = "none", !.clickLimit = "none",
            !.k = 0, !.refs = <<>>, !.fd = "none", !.target = None,
            !.result = [act |-> Head(s.todo), ok |-> ok, code |-> code, blind |-> s.blind]]

Done(s) == Over(s, TRUE, "")

\* Mutant of Failed: the error of the last attempt is swallowed.
FailedSwallowed(s, code) ==
  IF s.retried /\ s.attempt < retryAttempts THEN [s EXCEPT !.pc = "backoff", !.code = code]
  ELSE Over(s, s.retried, code)

\* withRetry: after an attempt that failed comes the backoff, unless it was the
\* last one or the executor does not retry.
Failed(s, code) ==
  IF s.retried /\ s.attempt < retryAttempts THEN [s EXCEPT !.pc = "backoff", !.code = code]
  ELSE Over(s, FALSE, code)

\* A step of c that leaves what the clients share as it is.
Step(c, s) ==
  /\ st' = [st EXCEPT ![c] = s]
  /\ UNCHANGED <<thePage, refMap, disk>>

-----------------------------------------------------------------------------
(* Dispatch and time limits.                                               *)

Unbounded == 3

remainingMs(c) ==
  CASE st[c].deadline = "unset" -> Unbounded
    [] st[c].deadline = "ahead" -> 1
    [] st[c].deadline = "past"  -> 0

\* own: the action's timeout_ms, 0 for none.
effectiveTimeoutMs(c, own) ==
  LET remaining == remainingMs(c)
  IN IF own = 0 THEN IF remaining = Unbounded THEN 0 ELSE remaining
     ELSE IF remaining < own THEN remaining ELSE own

\* 0 stands for no limit.
withActionTimeout(c, own) == IF effectiveTimeoutMs(c, own) = 0 THEN "none" ELSE "on"

Limited == {"click", "hover", "type_text", "wait_for"}

\* The wait for a navigation has the time that remains, if that is less than its
\* own; wait_stable has its own only.
LimitOf(c) ==
  CASE Act(c).op \in Limited               -> withActionTimeout(c, Act(c).timeout)
    [] Act(c).op = "wait_for_navigation"   -> IF remainingMs(c) = 0 THEN "expired" ELSE "on"
    [] Act(c).op = "wait_stable"           -> "on"
    [] OTHER                               -> "none"

\* A screenshot that is no picture is a snapshot.
TakesSnapshot(a) ==
  a.op = "snapshot" \/ (a.op = "screenshot" /\ a.options.format \notin pictureFormats)

FirstStep(a) ==
  CASE a.op \in {"click", "type_text", "fill_form"} \cup OnElement -> "find"
    [] a.op \in {"wait_for", "wait_stable"} -> "poll"
    [] a.op = "wait_for_navigation"         -> "info"
    [] a.op = "type_into_frame"             -> "iframe"
    [] a.op \in OnPage                      -> "call"
    [] TakesSnapshot(a)                     -> "snapshot"
    [] OTHER                                -> a.op  \* screenshot, navigate, sleep

\* The humanized executors: not under stealth, nor in a frame, whose coordinates
\* are not those of the cursor.
Humanized(c) ==
  /\ Act(c).humanize /\ ~Act(c).stealth /\ Act(c).frame = ""
  /\ Act(c).op \in {"click", "type_text", "hover"}

\* The executor of the action; in a frame, typing uses CDP input only.  A form
\* without fields is filled.
Execute(c, s) ==
  LET op == Act(c).op
      t == [s EXCEPT !.pc = FirstStep(Act(c)), !.limit = LimitOf(c), !.k = 0,
                     !.attempt = 1, !.retried = op \in {"click", "type_text"},
                     !.blind = \/ Act(c).stealth \/ Humanized(c)
                               \/ Act(c).frame # "" /\ op = "type_text"]
  IN IF op = "fill_form" /\ Act(c).fields = <<>> THEN Done(t) ELSE t

ExecuteAction(c) ==
  /\ At(c, "next") /\ st[c].todo # <<>>
  /\ LET s == [st[c] EXCEPT !.acted = <<>>, !.lost = 0, !.lines = <<>>, !.probe = FALSE,
                            !.code = "", !.attempt = 1, !.retried = FALSE, !.start = 0]
     IN Step(c, IF Act(c).frame # "" /\ Act(c).op # "type_into_frame"
                THEN [s EXCEPT !.pc = "frame"] ELSE Execute(c, s))

\* resolveFrame: the search for an iframe named by its URL fails at once and is
\* repeated; one for an iframe named by CSS ends with it, or with the request.
ResolveFrame(c) ==
  /\ At(c, "frame") /\ ~st[c].ended
  /\ \/ ready /\ Step(c, Execute(c, st[c]))
     \/ /\ st[c].k + 1 < frameMaxRetries /\ (Act(c).frame = "css" => ready)
        /\ Step(c, [st[c] EXCEPT !.k = @ + 1])

\* An iframe of another origin cannot be entered: typing clicks it instead and
\* uses the keyboard, other actions fail.
FrameFails(c) ==
  /\ At(c, "frame")
  /\ st[c].ended \/ (st[c].k + 1 = frameMaxRetries /\ (Act(c).frame = "css" => ready))
  /\ Step(c, IF Act(c).op = "type_text" THEN [st[c] EXCEPT !.pc = "iframe", !.k = 0]
             ELSE Over(st[c], FALSE, "other"))

\* The click may be answered after the request has ended.
clickIframeArea(c) ==
  /\ At(c, "iframe")
  /\ \/ ready /\ Step(c, [st[c] EXCEPT !.pc = "keys"])
     \/ /\ st[c].ended \/ ready \/ Act(c).frame = "url"
        /\ Step(c, Over(st[c], FALSE, "other"))

-----------------------------------------------------------------------------
(* Elements, clicks and typing.                                            *)

SelectorOf(c) == IF Act(c).op = "fill_form" THEN Act(c).fields[st[c].k + 1] ELSE Act(c).selector

\* Mutant of Resolved: a node of an earlier document is taken for the one with
\* its number.
ResolvedByNumber(c) ==
  LET sel == SelectorOf(c)
  IN IF sel.ref # 0
     THEN IF ~Humanized(c) /\ sel.ref \in DOMAIN refMap
          THEN Elements \cap {<<doc, refMap[sel.ref][2]>>} ELSE {}
     ELSE Elements \cap {<<doc, sel.css>>}

\* resolveElement, resolveRefNodeID: a reference is looked up in the RefMap and
\* resolved by Chrome, which knows the nodes of the current document only.  The
\* humanized executors take it for a CSS selector, which matches nothing.
Resolved(c) ==
  LET sel == SelectorOf(c)
  IN IF sel.ref # 0
     THEN IF ~Humanized(c) /\ sel.ref \in DOMAIN refMap
          THEN Elements \cap {refMap[sel.ref]} ELSE {}
     ELSE Elements \cap {<<doc, sel.css>>}

\* The calls of the stealth executors are bound to the request, not to the limit.
CallEnded(c) ==
  IF st[c].blind /\ ~Humanized(c) THEN st[c].ended ELSE ActionEnded(c)

\* Searches that wait for the element to appear: those by CSS through objects.
Waits(c) == (SelectorOf(c).ref = 0 /\ ~st[c].blind) \/ Humanized(c)

Find(c) ==
  /\ At(c, "find") /\ ~CallEnded(c)
  /\ \E e \in Resolved(c) :
       Step(c, [st[c] EXCEPT !.target = e,
                             !.pc = CASE Act(c).op \in OnElement -> "call"
                                      [] Act(c).op \notin OnElement /\ st[c].blind -> "blind"
                                      [] Act(c).op = "click" /\ ~st[c].blind -> "probe"
                                      [] OTHER -> "press",
                             !.clickLimit = IF Act(c).op = "click" /\ ~st[c].blind THEN "on" ELSE "none"])

\* Chrome refuses, or its context ends, or the search does not wait.
NotFound(c) ==
  /\ At(c, "find")
  /\ CallEnded(c) \/ Resolved(c) # {} \/ ~Waits(c)
  /\ Step(c, Failed(st[c], "not_found"))

\* el.Interactable(): is the element covered now?
Probe(c) ==
  /\ At(c, "probe")
  /\ Step(c, [st[c] EXCEPT !.pc = "press", !.probe = covered])

\* el.Click waits until the element is not covered; el.Input does not mind.
Press(c) ==
  /\ At(c, "press") /\ st[c].target \in Elements /\ ~ClickEnded(c)
  /\ Act(c).op = "click" => ~covered
  /\ Step(c, [st[c] EXCEPT !.pc = "answer", !.acted = Append(@, st[c].target)])

\* Chrome refuses (the element is gone, among others), or the time is up: a click
\* whose probe met an overlay says so.
PressFails(c) ==
  /\ At(c, "press")
  /\ \/ Step(c, Failed(st[c], "other"))
     \/ /\ ClickEnded(c)
        /\ Step(c, Failed(st[c], CASE Act(c).op # "click" -> "other"
                                   [] Act(c).op = "click" /\ st[c].probe -> "covered"
                                   [] OTHER -> "timeout"))

NextField(c, s) ==
  IF Act(c).op = "fill_form" /\ s.k + 1 < Len(Act(c).fields)
  THEN [s EXCEPT !.pc = "find", !.k = @ + 1] ELSE Done(s)

\* page.Mouse and page.Keyboard call Chrome in the context of the session's page:
\* neither a request nor a limit ends their calls.  They are behind the clicks of
\* elements (check boxes of a form and iframes too), modifier keys, single keys,
\* hovering and scrolling.
ByInput(c) ==
  \/ At(c, "iframe")
  \/ At(c, "answer") /\ Act(c).op \in {"click", "fill_form"}
  \/ st[c].pc \in {"probe", "press"} /\ Act(c).keys
  \/ At(c, "call") /\ Act(c).op \in {"press", "hover", "scroll", "type_text"}

\* Chrome's answer; typing may end with Enter.
Answered(c) ==
  /\ At(c, "answer") /\ (ByInput(c) \/ ~ClickEnded(c))
  /\ Step(c, IF Act(c).op = "type_text" /\ Act(c).submit THEN [st[c] EXCEPT !.pc = "call"]
             ELSE NextField(c, st[c]))

\* It is lost: the element was acted on, and the attempt has failed.
AnswerLost(c) == At(c, "answer") /\ Step(c, Failed([st[c] EXCEPT !.lost = @ + 1], "other"))

Backoff(c) ==
  /\ At(c, "backoff")
  /\ \/ ActionEnded(c) /\ Step(c, Over(st[c], FALSE, st[c].code))
     \/ Step(c, [st[c] EXCEPT !.pc = "find", !.attempt = @ + 1, !.clickLimit = "none"])

\* ClickNode and FocusNode look up where the node is, humanized clicks move
\* there; the events that follow go to whatever is there by then.
Blind(c) ==
  /\ At(c, "blind")
  /\ \/ Step(c, Failed(st[c], "other"))
     \/ /\ st[c].target \in Elements /\ ~st[c].ended
        /\ Step(c, IF Act(c).op = "click" THEN Done(st[c]) ELSE [st[c] EXCEPT !.pc = "keys"])

\* Typing by key events: errors are ignored, the context is tested between two
\* characters, if the typing is not humanized.
Keys(c) ==
  /\ At(c, "keys")
  /\ \/ ActionEnded(c) /\ ~Humanized(c) /\ Step(c, Failed(st[c], "other"))
     \/ Step(c, NextField(c, st[c]))

\* A single call, also the Enter after typing.
Call(c) ==
  /\ At(c, "call")
  /\ \/ (ByInput(c) \/ ~ActionEnded(c)) /\ Step(c, Done(st[c]))
     \/ Step(c, Failed(st[c], "other"))

-----------------------------------------------------------------------------
(* Waits and navigation.                                                   *)

\* What a wait polls for.
Awaited(c) ==
  IF Act(c).op = "wait_stable" THEN idle
  ELSE CASE Act(c).wait = "text_gone"    -> ~ready /\ ~st[c].ended
         [] Act(c).wait = "time"         -> TRUE
         [] Act(c).wait = "selector" /\ Act(c).selector.ref # 0
                                         -> Resolved(c) # {} /\ ~st[c].ended
         [] OTHER                        -> ready /\ ~st[c].ended  \* text, cookie, CSS

\* Mutant of Poll: the context is not watched.
PollUnwatched(c) == At(c, "poll") /\ Awaited(c) /\ Step(c, Done(st[c]))

\* The calls of a poll are bound to the request; the limit is looked at between
\* two polls.  A selector is not polled for without stealth: any error ends the
\* wait, and that a reference is unknown is one.
Poll(c) ==
  /\ At(c, "poll")
  /\ \/ Awaited(c) /\ Step(c, Done(st[c]))
     \/ ActionEnded(c) /\ Step(c, Over(st[c], FALSE, "timeout"))
     \/ /\ Act(c).op = "wait_for" /\ Act(c).wait = "selector" /\ ~Act(c).stealth
        /\ Step(c, Over(st[c], FALSE, "other"))

\* doWaitForNavigation.  page.Info is bound to no request: MustInfo panics when
\* it fails, and any may stay unanswered for good.
Info(c) ==
  /\ At(c, "info")
  /\ \/ Step(c, [st[c] EXCEPT !.start = doc, !.pc = "wait"])
     \/ Step(c, Over(st[c], FALSE, "panic"))

WaitTick(c) ==
  /\ At(c, "wait")
  /\ Step(c, [st[c] EXCEPT !.pc = IF ActionEnded(c) THEN "lastinfo" ELSE "reading"])

\* The wait goes on when page.Info fails, the URL is the old one or does not
\* contain what the action asks for.
ReadInfo(c) ==
  /\ At(c, "reading")
  /\ \/ /\ doc # st[c].start
        /\ Step(c, IF Act(c).selector = NoSelector THEN Done(st[c]) ELSE [st[c] EXCEPT !.pc = "resolve"])
     \/ Step(c, [st[c] EXCEPT !.pc = "wait"])

\* The element on the new page is waited for until the time is up, unless it is a
\* reference or Chrome refuses.
AfterNavigation(c) ==
  /\ At(c, "resolve")
  /\ \/ Resolved(c) # {} /\ ~ActionEnded(c) /\ Step(c, Done(st[c]))
     \/ Step(c, Over(st[c], FALSE, "timeout"))

LastInfo(c) == At(c, "lastinfo") /\ Step(c, Over(st[c], FALSE, "timeout"))

\* time.Sleep, cut to the remaining time.
Sleep(c) == At(c, "sleep") /\ Step(c, Done(st[c]))

NextDoc == doc < Len(site.docs) /\ doc' = doc + 1

\* Navigate returns; then the wait for idle, 7 s at most.
Navigate(c) ==
  /\ At(c, "navigate")
  /\ \/ /\ ~st[c].ended /\ NextDoc
        /\ st' = [st EXCEPT ![c].pc = "settle"]
        /\ UNCHANGED <<site, covered, ready, idle, moves, refMap, disk>>
     \/ Step(c, Over(st[c], FALSE, "other"))

Settle(c) == At(c, "settle") /\ Step(c, Done(st[c]))

-----------------------------------------------------------------------------
(* Snapshots and screenshots.                                              *)

\* Screenshots do not pass their format on to the snapshot.
SnapshotOptions(a) ==
  IF a.op = "screenshot" THEN [a.options EXCEPT !.format = "yaml"] ELSE a.options

\* The accessibility tree is read; if that fails the snapshot is empty and the
\* action still succeeds.  Text snapshots leave the RefMap alone.
Collect(c) ==
  LET o == SnapshotOptions(Act(c))
  IN /\ At(c, "snapshot")
     /\ \/ \E urls \in BOOLEAN : \E out \in doSnapshotWithLevel(site.docs[doc], o, urls) :
             LET s == [st[c] EXCEPT !.pc = "clear",
                                    !.refs = [k \in 1 .. Len(out.refs) |-> <<doc, out.refs[k]>>],
                                    !.start = doc, !.lines = out.lines]
             IN Step(c, IF o.format = "text" THEN Done(s) ELSE s)
        \/ LET s == [st[c] EXCEPT !.pc = "clear", !.refs = <<>>]
           IN Step(c, IF o.format = "text" THEN Done(s) ELSE s)

\* c writes the RefMap: what the others have printed may not be there any more.
Wrote(c, s) ==
  st' = [d \in Clients |-> IF d = c THEN s ELSE [st[d] EXCEPT !.mixed = TRUE]]

\* Mutant of Clear: the old references stay.
ClearNothing(c) ==
  /\ At(c, "clear") /\ UNCHANGED refMap
  /\ Wrote(c, [st[c] EXCEPT !.pc = "store", !.k = 0, !.mixed = FALSE])
  /\ UNCHANGED <<thePage, disk>>

\* renderYAMLWithRefs: rm.Clear(), then one rm.Store per interactive line, each
\* under the RefMap's lock and the whole under none.
Clear(c) ==
  /\ At(c, "clear") /\ refMap' = <<>>
  /\ Wrote(c, [st[c] EXCEPT !.pc = "store", !.k = 0, !.mixed = FALSE])
  /\ UNCHANGED <<thePage, disk>>

\* Nodes without a BackendDOMNodeID are printed with a reference, not stored.
Store(c) ==
  LET k == st[c].k + 1
      e == st[c].refs[k]
  IN /\ At(c, "store") /\ k <= Len(st[c].refs)
     /\ IF e[2] \in site.docs[e[1]].unmapped
        THEN Step(c, [st[c] EXCEPT !.k = k])
        ELSE /\ refMap' = [j \in DOMAIN refMap \cup {k} |-> IF j = k THEN e ELSE refMap[j]]
             /\ Wrote(c, [st[c] EXCEPT !.k = k])
             /\ UNCHANGED <<thePage, disk>>

Printed(c) ==
  /\ At(c, "store") /\ st[c].k = Len(st[c].refs)
  /\ Step(c, Done([st[c] EXCEPT !.printed = st[c].refs]))

\* The picture is the result, or goes to a file.
Capture(c) ==
  /\ At(c, "screenshot")
  /\ \/ ~st[c].ended /\ Step(c, IF Act(c).path THEN [st[c] EXCEPT !.pc = "open"] ELSE Done(st[c]))
     \/ Step(c, Over(st[c], FALSE, "other"))

\* A step of c that changes its file and nothing else they share.
FileStep(c, s) == st' = [st EXCEPT ![c] = s] /\ UNCHANGED <<thePage, refMap>>

\* Mutant of OpenTmp: the screenshot is written in its place.
OpenDst(c) ==
  /\ At(c, "open")
  /\ files' = [files EXCEPT !.dst = "partial"] /\ UNCHANGED clashed
  /\ FileStep(c, [st[c] EXCEPT !.pc = "write", !.fd = "dst"])

\* writeFileAtomic: the directory is made if need be, WriteFile truncates
\* <path>.tmp (either may fail) and writes it, ...
OpenTmp(c) ==
  /\ At(c, "open")
  /\ \/ /\ files' = [files EXCEPT !.tmp = "partial"]
        /\ clashed' = (clashed \/ \E d \in Clients \ {c} : st[d].fd = "tmp")
        /\ FileStep(c, [st[c] EXCEPT !.pc = "write", !.fd = "tmp"])
     \/ Step(c, Over(st[c], FALSE, "other"))

\* ... wherever another client's rename has put the file meanwhile, ...
WriteTmp(c) ==
  /\ At(c, "write") /\ UNCHANGED clashed
  /\ \/ /\ files' = [f \in DOMAIN files |-> IF f = st[c].fd THEN "whole" ELSE files[f]]
        /\ FileStep(c, [st[c] EXCEPT !.pc = "rename"])
     \/ UNCHANGED files /\ FileStep(c, Over(st[c], FALSE, "other"))

\* The files the clients have open under the names they have now.
Moved(to) ==
  [d \in Clients |-> [st[d] EXCEPT !.fd = CASE @ = "tmp" -> to
                                            [] @ = "dst" /\ to = "dst" -> "gone"
                                            [] OTHER -> @]]

\* ... and Rename puts it in its place; if that fails it is removed.
Rename(c) ==
  /\ At(c, "rename")
  /\ \/ /\ files.tmp # "none"
        /\ files' = [tmp |-> "none", dst |-> files.tmp]
        /\ st' = [Moved("dst") EXCEPT ![c] = Done(st[c])]
     \/ /\ files' = [files EXCEPT !.tmp = "none"]
        /\ st' = [Moved("gone") EXCEPT ![c] = Over(st[c], FALSE, "other")]
  /\ UNCHANGED <<thePage, refMap, clashed>>

-----------------------------------------------------------------------------
(* What happens meanwhile.                                                 *)

\* The page navigates, an overlay or what is awaited comes or goes, requests of
\* the page start or end.
PageMoves ==
  /\ moves < MaxMoves /\ moves' = moves + 1
  /\ \/ "doc" \in site.moves /\ NextDoc /\ UNCHANGED <<covered, ready, idle>>
     \/ "covered" \in site.moves /\ covered' = ~covered /\ UNCHANGED <<doc, ready, idle>>
     \/ "ready" \in site.moves /\ ready' = ~ready /\ UNCHANGED <<doc, covered, idle>>
     \/ "idle" \in site.moves /\ idle' = ~idle /\ UNCHANGED <<doc, covered, ready>>
  /\ UNCHANGED <<site, refMap, disk, st>>

\* The time limits run out, and the request's context ends.
LimitExpires(c) ==
  /\ st[c].limit = "on" /\ ~st[c].ended /\ Step(c, [st[c] EXCEPT !.limit = "expired"])

ClickLimitExpires(c) ==
  /\ st[c].clickLimit = "on" /\ ~ActionEnded(c)
  /\ Step(c, [st[c] EXCEPT !.clickLimit = "expired"])

DeadlinePasses(c) ==
  /\ st[c].deadline = "ahead" /\ st[c].todo # <<>>
  /\ Step(c, [st[c] EXCEPT !.deadline = "past"])

\* (Left out where nothing looks at it before the next action.)
Expire(c) ==
  /\ ~st[c].ended /\ st[c].pc \notin {"next", "clear", "store", "open", "write", "rename", "sleep", "settle"}
  /\ Step(c, [st[c] EXCEPT !.ended = TRUE])

\* The client goes on with its chain in another request.
NextRequest(c) ==
  /\ At(c, "next") /\ st[c].todo # <<>>
  /\ Step(c, [st[c] EXCEPT !.ended = FALSE, !.deadline = site.deadline[c]])

-----------------------------------------------------------------------------
Executor(c) ==
  \/ ExecuteAction(c) \/ ResolveFrame(c) \/ FrameFails(c) \/ clickIframeArea(c)
  \/ Find(c) \/ NotFound(c) \/ Probe(c) \/ Press(c) \/ PressFails(c) \/ Answered(c)
  \/ AnswerLost(c) \/ Backoff(c) \/ Blind(c) \/ Keys(c) \/ Call(c)
  \/ Poll(c) \/ Info(c) \/ WaitTick(c) \/ ReadInfo(c) \/ AfterNavigation(c) \/ LastInfo(c)
  \/ Sleep(c)
  \/ Navigate(c) \/ Settle(c)
  \/ Collect(c) \/ Clear(c) \/ Store(c) \/ Printed(c)
  \/ Capture(c) \/ OpenTmp(c) \/ WriteTmp(c) \/ Rename(c)

Next ==
  \/ \E c \in Clients :
       \/ Executor(c) \/ LimitExpires(c) \/ ClickLimitExpires(c) \/ DeadlinePasses(c)
       \/ Expire(c) \/ NextRequest(c)
  \/ PageMoves

\* Calls Chrome may leave without an answer: they end with the request, ...
Waiting == {"frame", "find", "probe", "press", "answer", "blind", "keys", "call", "poll", "resolve",
            "navigate", "snapshot", "screenshot"}

\* ... or not even then: page.Info, the mouse and the keyboard.
HeldUp(c) == st[c].pc \in {"info", "reading", "lastinfo"} \/ ByInput(c)

\* Goroutines are scheduled and requests have a timeout.
Scheduled(c) ==
  /\ st[c].pc \in Waiting => st[c].ended
  /\ ~HeldUp(c)
  /\ Executor(c)

Fairness == \A c \in Clients : WF_vars(Scheduled(c)) /\ WF_vars(Expire(c))

Spec == Init /\ [][Next]_vars
FairSpec == Spec /\ Fairness

-----------------------------------------------------------------------------
(* Properties.                                                             *)

\* A result of an action that has just ended, with what was done for it.
Ended(c, op) == At(c, "next") /\ st[c].result # None /\ st[c].result.act.op = op

\* The filter a request asks for: its level's, if that is one.  What the dialog
\* filter is for comes first (the comment in doSnapshotWithLevel; the schema of
\* Level has it the other way round).
AskedFor(o) ==
  IF o.filter = "dialog" \/ o.level \notin ExtractLevel THEN o.filter ELSE levelToFilter(o.level)

\* The roles a filter by subtree is about.
Scope(filter) ==
  CASE filter = "text"  -> excludeTextRoles
    [] filter = "forms" -> {"form"}
    [] OTHER            -> {filter}

\* Nodes of a document that are in the tree, and those inside one of the roles.
Shown(d) == {n \in NodesOf(d) \ d.ignored : ~isNoiseRole(d.role[n])}
Inside(d, roles) ==
  {n \in Shown(d) : \E a \in Chain(d, [ids |-> Shown(d)])[n] : d.role[a] \in roles}

\* A snapshot has just ended, of the document start.
Snapshot(c) ==
  /\ At(c, "next") /\ st[c].result # None /\ TakesSnapshot(st[c].result.act)
  /\ st[c].result.ok /\ st[c].start # 0

\* An agent sees every element it can act on: without a depth limit or a
\* selector, each level prints all interactive elements, whatever the tree
\* above them is (snapshot_filter.go marks the ancestors for that).
InteractiveReachable ==
  \A c \in Clients :
    LET o == SnapshotOptions(st[c].result.act)
        d == site.docs[st[c].start]
    IN Snapshot(c) /\ o.depth = 0 /\ ~o.selector /\ o.format = "yaml"
       /\ AskedFor(o) \in {"", "interactive", "__content__"}
       => {n \in Shown(d) : d.role[n] \in interactiveRoles} \subseteq ToSet(st[c].lines)

\* Nodes below a root of one of the roles; roots are the main document, those of
\* its frames, and the children of ignored nodes.
InsideRoots(d, roles) ==
  {n \in Shown(d) : \E a \in Chain(d, [ids |-> Shown(d)])[n] :
                      d.parent[a] \notin Shown(d) /\ d.role[a] \in roles}

\* What a filter by subtree is to print: what is inside (for "text": outside) its
\* roles, all of it, however many roots the tree has.  But where roots are of such
\* a role, "dialog", "forms" and "main" leave out what is not below these: kept
\* roots hide kept nodes under the others (buildFilteredIndex).
Wanted(d, filter) ==
  LET roles == Scope(filter)
  IN IF filter = "text" THEN Shown(d) \ Inside(d, roles)
     ELSE IF InsideRoots(d, roles) = {} THEN Inside(d, roles) ELSE InsideRoots(d, roles)

\* The filters by subtree print that and nothing else; "dialog" does so at any
\* level and depth.
ScopeShown ==
  \A c \in Clients :
    LET o == SnapshotOptions(st[c].result.act)
        d == site.docs[st[c].start]
    IN Snapshot(c) /\ ~o.selector /\ (o.depth = 0 \/ o.filter = "dialog") /\ o.format = "yaml"
       /\ AskedFor(o) \in {"dialog", "forms", "main", "text"}
       => ToSet(st[c].lines) = {n \in Wanted(d, AskedFor(o)) : ~Empty(d, n)}

\* A reference means what the client's last snapshot printed under it, unless
\* another client has written the RefMap since: not what an earlier snapshot or
\* an earlier document had under that number.
RefsMeanWhatWasPrinted ==
  \A c \in Clients :
    /\ st[c].pc \in {"probe", "press", "blind", "call"} /\ st[c].target # None /\ ~st[c].mixed
    /\ SelectorOf(c).ref \in DOMAIN st[c].printed
    => st[c].target = st[c].printed[SelectorOf(c).ref]

\* A form that was filled by references, with success, was filled in one
\* document and field by field as printed, although fields are resolved one by
\* one while the page may navigate.
FilledTogether ==
  \A c \in Clients :
    LET fields == st[c].result.act.fields
    IN /\ Ended(c, "fill_form") /\ st[c].result.ok /\ ~st[c].result.blind /\ ~st[c].mixed
       /\ \A k \in DOMAIN fields : fields[k].ref \in DOMAIN st[c].printed
       => st[c].acted = [k \in DOMAIN fields |-> st[c].printed[fields[k].ref]]

\* A click that reports success has pressed its element, once unless the answer
\* to an earlier press was lost; one that fails has not pressed more often than
\* answers were lost, and none presses more than retryAttempts times.
ClicksTruthful ==
  \A c \in Clients :
    Ended(c, "click") /\ ~st[c].result.blind =>
      /\ Len(st[c].acted) = st[c].lost + IF st[c].result.ok THEN 1 ELSE 0
      /\ Len(st[c].acted) <= retryAttempts

\* What is read at the screenshot's path is a whole picture, at any point where
\* the program may crash or a write fail, as long as two clients did not write
\* the same path at once: they share the temporary file.
DstWhole == files.dst = "partial" => clashed

\* Every action comes to its end with its request although Chrome may stop
\* answering, except in a call that is bound to no request.
ActionsEnd == \A c \in Clients : ~At(c, "next") ~> At(c, "next") \/ HeldUp(c)
=============================================================================
