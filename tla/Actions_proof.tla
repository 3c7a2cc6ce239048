---------------------------- MODULE Actions_proof ----------------------------
(***************************************************************************)
(* Proofs about Actions, for any clients with any chains on any pages: the *)
(* screenshot's file, truthful clicks, references and forms, and what      *)
(* snapshots print of any document (SnapshotTree).                         *)
(***************************************************************************)
EXTENDS Actions, FiniteSetTheorems, NaturalsInduction, WellFoundedInduction, TLAPS

Fields ==
  {"todo", "pc", "deadline", "ended", "limit", "clickLimit", "retried", "attempt", "code",
   "blind", "k", "target", "start", "probe", "refs", "fd", "acted", "lost", "lines", "printed",
   "mixed", "result"}

Op(s) == Head(s.todo).op

\* The selector in use, of the current field in a form.
Selected(s) ==
  IF Op(s) = "fill_form" THEN Head(s.todo).fields[s.k + 1] ELSE Head(s.todo).selector

\* What every client's record is.
Shaped(s) ==
  /\ DOMAIN s = Fields
  /\ s.todo \in Seq(ActionRecord) /\ (s.pc # "next" => s.todo # <<>>)
  /\ s.attempt \in 1 .. retryAttempts /\ (s.pc = "backoff" => s.attempt < retryAttempts)
  /\ s.k \in Nat /\ s.lost \in Nat
  /\ s.acted \in Seq(Nat \X Nat)
  /\ 0 \notin DOMAIN s.refs /\ 0 \notin DOMAIN s.printed

\* Before the executor starts nothing has been done.
Fresh(s) ==
  /\ s.pc \in {"next", "frame"} => s.target = None
  /\ s.pc = "frame" => s.acted = <<>> /\ s.lost = 0 /\ ~s.retried

\* A click acts once per attempt, and goes on to another only if that failed:
\* with what it has done without an answer.
Clicking(s) ==
  s.pc # "next" /\ Op(s) = "click" =>
    /\ s.pc \in {"frame", "find", "probe", "press", "answer", "blind", "backoff"}
    /\ s.pc = "blind" => s.blind
    /\ Len(s.acted) = s.lost + IF s.pc = "answer" THEN 1 ELSE 0
    /\ Len(s.acted) <= s.attempt - IF s.pc \in {"answer", "backoff"} THEN 0 ELSE 1

Clicked(s) ==
  s.pc = "next" /\ s.result # None /\ s.result.act.op = "click" /\ ~s.result.blind =>
    /\ Len(s.acted) = s.lost + IF s.result.ok THEN 1 ELSE 0
    /\ Len(s.acted) <= retryAttempts

\* The first n fields are filled as printed.
FilledTo(s, fields, n) ==
  ~s.mixed /\ (\A j \in DOMAIN fields : fields[j].ref \in DOMAIN s.printed)
    => s.acted = [j \in 1 .. n |-> s.printed[fields[j].ref]]

\* A form is filled field by field, and not retried.
Filling(s) ==
  s.pc # "next" /\ Op(s) = "fill_form" =>
    /\ s.pc \in {"frame", "find", "press", "answer", "blind", "keys"}
    /\ ~s.retried
    /\ s.pc \in {"blind", "keys"} => s.blind
    /\ s.pc # "frame" => s.k < Len(Head(s.todo).fields)
    /\ s.pc \in {"find", "press"} /\ ~s.blind => FilledTo(s, Head(s.todo).fields, s.k)
    /\ s.pc = "answer" /\ ~s.blind => FilledTo(s, Head(s.todo).fields, s.k + 1)

Filled(s) ==
  /\ s.pc = "next" /\ s.result # None /\ s.result.act.op = "fill_form"
  /\ s.result.ok /\ ~s.result.blind
  => /\ FilledTo(s, s.result.act.fields, Len(s.result.act.fields))
     /\ DOMAIN s.result.act.fields = 1 .. Len(s.result.act.fields)

\* The target is what was printed under the reference in use.
Targeted(s) ==
  /\ s.pc \in {"probe", "press", "answer", "blind"} \/ (s.pc = "call" /\ s.target # None)
  /\ ~s.mixed /\ Selected(s).ref \in DOMAIN s.printed
  => s.target = s.printed[Selected(s).ref]

Work(s) ==
  /\ Shaped(s) /\ Fresh(s) /\ Clicking(s) /\ Clicked(s)
  /\ Filling(s) /\ Filled(s) /\ Targeted(s)

Working ==
  /\ DOMAIN st = Clients
  /\ \A c \in Clients : Work(st[c])

\* What the RefMap holds is what its last writer prints or has printed.
Latest(s) == IF s.pc = "store" THEN s.refs ELSE s.printed

RefsLatest ==
  \A c \in Clients : ~st[c].mixed =>
    \A k \in DOMAIN refMap \cap DOMAIN Latest(st[c]) : refMap[k] = Latest(st[c])[k]

\* As long as the writers took turns there is one at most; it has the temporary
\* file open under that name, and what it will rename is whole.
Writing(s) == s.pc \in {"write", "rename"}

OneWriter ==
  ~clashed =>
    /\ \A c, d \in Clients : Writing(st[c]) /\ Writing(st[d]) => c = d
    /\ \A c \in Clients : Writing(st[c]) => st[c].fd = "tmp"
    /\ \A c \in Clients : st[c].pc = "rename" => files.tmp = "whole"
    /\ files.dst # "partial"

\* The page shows one of its documents.
PageShown == site \in Scenarios /\ doc \in 1 .. Len(site.docs)

FilesNamed == DOMAIN files = {"tmp", "dst"}

ActionsInv == Working /\ RefsLatest /\ OneWriter /\ FilesNamed /\ PageShown
-----------------------------------------------------------------------------
(* Steps of one client's record.                                           *)

\* What the clients share does not tell s and t apart: t says no more of the
\* RefMap and of the files than s.
Quiet(s, t) ==
  /\ t.mixed = s.mixed /\ Latest(t) = Latest(s)
  /\ Writing(t) => t.pc = s.pc /\ t.fd = s.fd

\* s and t differ in the clocks and the file at most.
SameWork(s, t) ==
  /\ DOMAIN t = Fields
  /\ t.todo = s.todo /\ t.pc = s.pc /\ t.retried = s.retried /\ t.attempt = s.attempt
  /\ t.blind = s.blind /\ t.k = s.k /\ t.target = s.target /\ t.refs = s.refs
  /\ t.acted = s.acted /\ t.lost = s.lost /\ t.printed = s.printed /\ t.mixed = s.mixed
  /\ t.result = s.result

\* A record stays in order where only its clocks and its file change.
LEMMA SameWorkWorks ==
  ASSUME NEW s, NEW t, Work(s), SameWork(s, t)
  PROVE  Work(t) /\ (t.fd = s.fd => Quiet(s, t))
<1>1. Shaped(t) /\ Fresh(t)
  BY DEF Work, SameWork, Shaped, Fresh
<1>2. Clicking(t) /\ Clicked(t)
  BY DEF Work, SameWork, Clicking, Clicked, Op
<1>3. Filling(t) /\ Filled(t)
  BY DEF Work, SameWork, Filling, Filled, FilledTo, Op
<1>4. Targeted(t)
  BY DEF Work, SameWork, Targeted, Selected, Op
<1>5. t.fd = s.fd => Quiet(s, t)
  BY DEF SameWork, Quiet, Latest, Writing
<1> QED
  BY <1>1, <1>2, <1>3, <1>4, <1>5 DEF Work

\* A chain has actions.
LEMMA HeadAction ==
  ASSUME NEW s, Shaped(s), s.todo # <<>>
  PROVE  /\ Head(s.todo) \in ActionRecord /\ Op(s) \in actionRegistry
         /\ Head(s.todo).fields \in Seq(Selector)
<1>1. Head(s.todo) \in ActionRecord
  BY DEF Shaped
<1> QED
  BY <1>1 DEF ActionRecord, Op

\* What Over makes of a record.
LEMMA OverFields ==
  ASSUME NEW s, Shaped(s), s.todo # <<>>, NEW ok, NEW code
  PROVE  LET t == Over(s, ok, code)
         IN /\ Shaped(t) /\ t.pc = "next" /\ t.target = None
            /\ t.acted = s.acted /\ t.lost = s.lost /\ t.printed = s.printed /\ t.mixed = s.mixed
            /\ t.result.act = Head(s.todo) /\ t.result.ok = ok /\ t.result.blind = s.blind
<1> DEFINE t == Over(s, ok, code)
<1>1. /\ t.pc = "next" /\ t.target = None /\ t.refs = <<>> /\ t.todo = Tail(s.todo) /\ t.k = 0
      /\ t.acted = s.acted /\ t.lost = s.lost /\ t.printed = s.printed /\ t.mixed = s.mixed
      /\ t.retried = s.retried /\ t.blind = s.blind /\ t.attempt = s.attempt
  BY DEF Over, Shaped, Fields
<1>2. DOMAIN t = Fields
  BY DEF Over, Shaped
<1>3. t.result = [act |-> Head(s.todo), ok |-> ok, code |-> code, blind |-> s.blind]
  BY DEF Over, Shaped, Fields
<1>4. Tail(s.todo) \in Seq(ActionRecord)
  BY DEF Shaped
<1>5. 0 \notin DOMAIN <<>>
  OBVIOUS
<1>6. Shaped(t)
  BY <1>1, <1>2, <1>4, <1>5 DEF Shaped
<1> QED
  BY <1>1, <1>3, <1>6

\* An action ends truthfully.
LEMMA OverWorks ==
  ASSUME NEW s, Shaped(s), s.todo # <<>>, NEW ok \in BOOLEAN, NEW code,
         Op(s) = "click" /\ ~s.blind =>
           Len(s.acted) = s.lost + (IF ok THEN 1 ELSE 0) /\ Len(s.acted) <= retryAttempts,
         Op(s) = "fill_form" /\ ok /\ ~s.blind =>
           FilledTo(s, Head(s.todo).fields, Len(Head(s.todo).fields))
  PROVE  Work(Over(s, ok, code)) /\ (s.pc # "store" => Quiet(s, Over(s, ok, code)))
<1> DEFINE t == Over(s, ok, code)
<1>1. /\ Shaped(t) /\ t.pc = "next" /\ t.target = None
      /\ t.acted = s.acted /\ t.lost = s.lost /\ t.printed = s.printed /\ t.mixed = s.mixed
      /\ t.result.act = Head(s.todo) /\ t.result.ok = ok /\ t.result.blind = s.blind
  BY OverFields
<1> HIDE DEF t
<1>2. Fresh(t) /\ Clicking(t) /\ Filling(t) /\ Targeted(t)
  BY <1>1 DEF Fresh, Clicking, Filling, Targeted
<1>3. Clicked(t)
  BY <1>1 DEF Clicked, Op
<1>4. Filled(t)
  <2> DEFINE fields == Head(s.todo).fields
  <2>1. DOMAIN fields = 1 .. Len(fields)
    BY HeadAction
  <2>2. FilledTo(s, fields, Len(fields)) => FilledTo(t, fields, Len(fields))
    BY <1>1 DEF FilledTo
  <2> HIDE DEF fields
  <2>3. t.result.act.fields = fields /\ (t.result.act.op = "fill_form") = (Op(s) = "fill_form")
    BY <1>1 DEF Op, fields
  <2> QED
    BY <1>1, <2>1, <2>2, <2>3 DEF Filled, fields
<1>5. s.pc # "store" => Quiet(s, t)
  BY <1>1 DEF Quiet, Latest, Writing
<1> QED
  BY <1>1, <1>2, <1>3, <1>4, <1>5 DEF Work, t

\* An attempt fails truthfully.
LEMMA FailedWorks ==
  ASSUME NEW s, Shaped(s), s.todo # <<>>, NEW code,
         Op(s) = "click" => Len(s.acted) = s.lost /\ Len(s.acted) <= s.attempt,
         Op(s) = "fill_form" => ~s.retried, s.pc # "store"
  PROVE  Work(Failed(s, code)) /\ Quiet(s, Failed(s, code))
<1>1. CASE s.retried /\ s.attempt < retryAttempts
  <2> DEFINE t == [s EXCEPT !.pc = "backoff", !.code = code]
  <2>1. Failed(s, code) = t
    BY <1>1 DEF Failed
  <2>2. /\ DOMAIN t = Fields /\ t.pc = "backoff" /\ t.todo = s.todo /\ t.attempt = s.attempt
        /\ t.k = s.k /\ t.lost = s.lost /\ t.acted = s.acted /\ t.refs = s.refs
        /\ t.printed = s.printed /\ t.retried = s.retried /\ t.blind = s.blind
        /\ t.mixed = s.mixed
    BY DEF Shaped, Fields
  <2> HIDE DEF t
  <2>3. Shaped(t) /\ Fresh(t)
    BY <1>1, <2>2 DEF Shaped, Fresh
  <2>4. Clicking(t) /\ Clicked(t)
    BY <1>1, <2>2 DEF Clicking, Clicked, Op, Shaped
  <2>5. Filling(t) /\ Filled(t) /\ Targeted(t)
    BY <1>1, <2>2 DEF Filling, Filled, Targeted, Op
  <2>6. Quiet(s, t)
    BY <2>2 DEF Quiet, Latest, Writing
  <2> QED
    BY <2>1, <2>3, <2>4, <2>5, <2>6 DEF Work
<1>2. CASE ~(s.retried /\ s.attempt < retryAttempts)
  <2>1. Failed(s, code) = Over(s, FALSE, code)
    BY <1>2 DEF Failed
  <2>2. s.acted \in Seq(Nat \X Nat) /\ s.attempt <= retryAttempts /\ s.attempt \in Nat /\ s.lost \in Nat
    BY AttemptAssumption DEF Shaped
  <2>3. Op(s) = "click" /\ ~s.blind =>
          Len(s.acted) = s.lost + (IF FALSE THEN 1 ELSE 0) /\ Len(s.acted) <= retryAttempts
    BY <2>2, AttemptAssumption
  <2> QED
    BY <2>1, <2>3, OverWorks
<1> QED
  BY <1>1, <1>2

\* Where neither clicks nor forms are at work and no element is in use, a
\* record may go anywhere.
LEMMA ElsewhereWorks ==
  ASSUME NEW s, NEW t, Work(s), Shaped(t), t.todo = s.todo, s.pc # "next" \/ s.todo # <<>>,
         Op(s) \notin {"click", "fill_form"},
         t.pc \notin {"next", "frame", "probe", "press", "answer", "blind", "call"}
  PROVE  Work(t)
  BY DEF Work, Fresh, Clicking, Clicked, Filling, Filled, Targeted, Op

\* At these steps the current action is neither a click nor a form.
LEMMA OtherWork ==
  ASSUME NEW s, Work(s),
         s.pc \notin {"next", "frame", "find", "probe", "press", "answer", "blind", "backoff", "keys"}
  PROVE  Op(s) \notin {"click", "fill_form"}
  BY DEF Work, Clicking, Filling

\* The client c takes a step that says nothing new to the others.
Advances(c) ==
  \E t : st' = [st EXCEPT ![c] = t] /\ Work(t) /\ Quiet(st[c], t) /\ UNCHANGED <<refMap, disk>>

\* A client gives its action up, or it succeeds.
LEMMA OverAdvances ==
  ASSUME Working, NEW c \in Clients, NEW ok \in BOOLEAN, NEW code,
         Op(st[c]) \notin {"click", "fill_form"}, ~At(c, "next"), ~At(c, "store"),
         Step(c, Over(st[c], ok, code))
  PROVE  Advances(c)
<1>1. Shaped(st[c]) /\ st[c].todo # <<>>
  BY DEF Working, Work, Shaped, At
<1>2. Work(Over(st[c], ok, code)) /\ Quiet(st[c], Over(st[c], ok, code))
  BY <1>1, OverWorks DEF At
<1> QED
  BY <1>2 DEF Advances, Step, disk

-----------------------------------------------------------------------------
(* The steps of an action that do not write.                               *)

\* Where an action starts.
LEMMA FirstSteps ==
  ASSUME NEW a, a.op \in actionRegistry
  PROVE  /\ a.op \in {"click", "fill_form"} => FirstStep(a) = "find"
         /\ FirstStep(a) \in {"find", "poll", "info", "iframe", "call", "snapshot", "screenshot",
                               "navigate", "sleep"}
  BY DEF FirstStep, TakesSnapshot, actionRegistry, OnElement, OnPage

\* Nothing filled is no field filled.
LEMMA NoneFilled ==
  ASSUME NEW s, NEW fields, s.acted = <<>>
  PROVE  FilledTo(s, fields, 0)
<1>1. <<>> = [j \in 1 .. 0 |-> s.printed[fields[j].ref]]
  OBVIOUS
<1> QED
  BY <1>1 DEF FilledTo

\* Before an executor nothing has been done, so any of its first steps is in order.
LEMMA ExecuteWorks ==
  ASSUME NEW c \in Clients, NEW s, Shaped(s), s.todo = st[c].todo, s.todo # <<>>,
         s.acted = <<>>, s.lost = 0, s.target = None, s.pc # "store"
  PROVE  Work(Execute(c, s)) /\ Quiet(s, Execute(c, s))
<1> DEFINE op == Act(c).op
           t == [s EXCEPT !.pc = FirstStep(Act(c)), !.limit = LimitOf(c), !.k = 0,
                          !.attempt = 1, !.retried = op \in {"click", "type_text"},
                          !.blind = \/ Act(c).stealth \/ Humanized(c)
                                    \/ Act(c).frame # "" /\ op = "type_text"]
<1>1. /\ Act(c) = Head(s.todo) /\ op = Op(s) /\ op \in actionRegistry
      /\ Act(c).fields \in Seq(Selector)
  BY HeadAction DEF Act, Op, ActionRecord
<1>2. /\ DOMAIN t = Fields /\ t.pc = FirstStep(Act(c)) /\ t.todo = s.todo /\ t.attempt = 1
      /\ t.k = 0 /\ t.lost = s.lost /\ t.acted = s.acted /\ t.refs = s.refs
      /\ t.printed = s.printed /\ t.mixed = s.mixed /\ t.target = s.target
      /\ t.retried = (op \in {"click", "type_text"})
  BY DEF Shaped, Fields
<1> HIDE DEF t
<1>3. /\ op \in {"click", "fill_form"} => t.pc = "find"
      /\ t.pc \in {"find", "poll", "info", "iframe", "call", "snapshot", "screenshot",
                   "navigate", "sleep"}
  BY <1>1, <1>2, FirstSteps
<1>4. Shaped(t)
  <2>1. 1 \in 1 .. retryAttempts
    BY AttemptAssumption
  <2> QED
    BY <1>2, <1>3, <2>1 DEF Shaped
<1>5. Op(t) = op /\ Head(t.todo) = Act(c)
  BY <1>1, <1>2 DEF Op
<1>6. Quiet(s, t)
  BY <1>2, <1>3 DEF Quiet, Latest, Writing
<1>7. CASE op = "fill_form" /\ Act(c).fields = <<>>
  <2>1. Execute(c, s) = Over(t, TRUE, "")
    BY <1>7 DEF Execute, Done, t
  <2>2. FilledTo(t, Head(t.todo).fields, Len(Head(t.todo).fields))
    BY <1>2, <1>5, <1>7, NoneFilled
  <2>3. Work(Over(t, TRUE, "")) /\ Quiet(t, Over(t, TRUE, ""))
    BY <1>2, <1>4, <1>3, <1>5, <1>7, <2>2, OverWorks
  <2>4. t.todo # <<>>
    BY <1>2
  <2>5. Over(t, TRUE, "").pc = "next"
    BY <1>2 DEF Over, Fields
  <2> QED
    BY <1>6, <2>1, <2>3, <2>5 DEF Quiet, Writing, Latest
<1>8. CASE ~(op = "fill_form" /\ Act(c).fields = <<>>)
  <2>1. Execute(c, s) = t
    BY <1>8 DEF Execute, t
  <2>2. Fresh(t) /\ Clicked(t) /\ Filled(t) /\ Targeted(t)
    BY <1>2, <1>3 DEF Fresh, Clicked, Filled, Targeted
  <2>3. Clicking(t)
    BY <1>2, <1>3, <1>5 DEF Clicking
  <2>4. op = "fill_form" => 0 < Len(Act(c).fields)
    BY <1>1, <1>8
  <2>5. FilledTo(t, Act(c).fields, 0)
    BY <1>2, NoneFilled
  <2>6. Filling(t)
    BY <1>2, <1>3, <1>5, <2>4, <2>5 DEF Filling
  <2> QED
    BY <1>4, <1>6, <2>1, <2>2, <2>3, <2>6 DEF Work
<1> QED
  BY <1>7, <1>8

LEMMA ExecuteActionAdvances ==
  ASSUME Working, NEW c \in Clients, ExecuteAction(c)
  PROVE  Advances(c)
<1> DEFINE s == [st[c] EXCEPT !.acted = <<>>, !.lost = 0, !.lines = <<>>, !.probe = FALSE,
                              !.code = "", !.attempt = 1, !.retried = FALSE, !.start = 0]
           t == [s EXCEPT !.pc = "frame"]
<1>1. Shaped(st[c]) /\ Fresh(st[c]) /\ st[c].pc = "next" /\ st[c].todo # <<>>
  BY DEF Working, Work, ExecuteAction, At
<1>2. /\ DOMAIN s = Fields /\ s.pc = st[c].pc /\ s.todo = st[c].todo /\ s.attempt = 1
      /\ s.k = st[c].k /\ s.lost = 0 /\ s.acted = <<>> /\ s.refs = st[c].refs
      /\ s.printed = st[c].printed /\ s.mixed = st[c].mixed /\ s.target = st[c].target
      /\ s.retried = FALSE /\ s.blind = st[c].blind
  BY <1>1 DEF Shaped, Fields
<1>3. Step(c, t) \/ Step(c, Execute(c, s))
  BY DEF ExecuteAction
<1> HIDE DEF s
<1>4. Shaped(s)
  <2>1. 1 \in 1 .. retryAttempts /\ <<>> \in Seq(Nat \X Nat)
    BY AttemptAssumption
  <2> QED
    BY <1>1, <1>2, <2>1 DEF Shaped
<1>5. Quiet(st[c], s)
  BY <1>1, <1>2 DEF Quiet, Latest, Writing
<1>6. CASE Step(c, t)
  <2>1. /\ DOMAIN t = Fields /\ t.pc = "frame" /\ t.todo = s.todo /\ t.attempt = s.attempt
        /\ t.k = s.k /\ t.lost = s.lost /\ t.acted = s.acted /\ t.refs = s.refs
        /\ t.printed = s.printed /\ t.mixed = s.mixed /\ t.target = s.target
        /\ t.retried = s.retried /\ t.blind = s.blind
    BY <1>2 DEF Fields
  <2> HIDE DEF t
  <2>2. Shaped(t)
    BY <1>1, <1>2, <1>4, <2>1 DEF Shaped
  <2>3. Fresh(t) /\ Clicked(t) /\ Filled(t) /\ Targeted(t)
    BY <1>1, <1>2, <2>1 DEF Fresh, Clicked, Filled, Targeted
  <2>4. Clicking(t) /\ Filling(t)
    BY <1>2, <2>1 DEF Clicking, Filling
  <2>5. Quiet(st[c], t)
    BY <1>1, <1>2, <2>1 DEF Quiet, Latest, Writing
  <2> QED
    BY <1>6, <2>2, <2>3, <2>4, <2>5 DEF Advances, Work, Step, disk
<1>7. CASE Step(c, Execute(c, s))
  <2>1. Work(Execute(c, s)) /\ Quiet(s, Execute(c, s))
    BY <1>1, <1>2, <1>4, ExecuteWorks DEF Fresh
  <2>2. Quiet(st[c], Execute(c, s))
    BY <1>2, <1>5, <2>1 DEF Quiet, Latest, Writing
  <2> QED
    BY <1>7, <2>1, <2>2 DEF Advances, Step, disk
<1> QED
  BY <1>3, <1>6, <1>7

\* A client that is not printing or writing gives its attempt up.
LEMMA FailedAdvances ==
  ASSUME Working, NEW c \in Clients, NEW code,
         st[c].pc \in {"find", "probe", "press", "blind", "keys", "call"},
         Step(c, Failed(st[c], code))
  PROVE  Advances(c)
<1>1. Work(st[c]) /\ Shaped(st[c]) /\ st[c].todo # <<>>
  BY DEF Working, Work, Shaped
<1>2. st[c].lost \in Nat /\ st[c].attempt \in Nat /\ st[c].acted \in Seq(Nat \X Nat)
  BY <1>1, AttemptAssumption DEF Shaped
<1>3. Op(st[c]) = "click" =>
        Len(st[c].acted) = st[c].lost /\ Len(st[c].acted) <= st[c].attempt
  BY <1>1, <1>2 DEF Work, Clicking
<1>4. Op(st[c]) = "fill_form" => ~st[c].retried
  BY <1>1 DEF Work, Filling
<1>5. Work(Failed(st[c], code)) /\ Quiet(st[c], Failed(st[c], code))
  BY <1>1, <1>3, <1>4, FailedWorks
<1> QED
  BY <1>5 DEF Advances, Step, disk

\* Elements are pairs of a document and a node.
LEMMA ElementsTyped ==
  ASSUME PageShown
  PROVE  Elements \subseteq Nat \X Nat
<1>1. site.docs \in Seq(Document) /\ doc \in DOMAIN site.docs /\ doc \in Nat
  BY ScenarioAssumption DEF PageShown
<1>2. site.docs[doc] \in Document
  BY <1>1
<1>3. DOMAIN site.docs[doc].role \subseteq Nat
  BY <1>2 DEF Document
<1> QED
  BY <1>1, <1>3 DEF Elements, NodesOf

\* What a reference of one's own last snapshot resolves to is what was printed.
LEMMA ResolvedAsPrinted ==
  ASSUME Working, RefsLatest, NEW c \in Clients, At(c, "find"), ~st[c].mixed,
         Selected(st[c]).ref \in DOMAIN st[c].printed, NEW e \in Resolved(c)
  PROVE  e = st[c].printed[Selected(st[c]).ref]
<1>1. SelectorOf(c) = Selected(st[c])
  BY DEF SelectorOf, Selected, Op, Act
<1>2. Selected(st[c]).ref # 0
  BY DEF Working, Work, Shaped
<1>3. Selected(st[c]).ref \in DOMAIN refMap /\ e = refMap[Selected(st[c]).ref]
  BY <1>1, <1>2 DEF Resolved
<1>4. Latest(st[c]) = st[c].printed
  BY DEF Latest, At
<1> QED
  BY <1>3, <1>4 DEF RefsLatest

LEMMA FindAdvances ==
  ASSUME Working, RefsLatest, NEW c \in Clients, Find(c)
  PROVE  Advances(c)
<1> DEFINE s == st[c]
<1>1. PICK e \in Resolved(c) :
        Step(c, [s EXCEPT !.target = e,
                          !.pc = CASE Act(c).op \in OnElement -> "call"
                                   [] Act(c).op \notin OnElement /\ s.blind -> "blind"
                                   [] Act(c).op = "click" /\ ~s.blind -> "probe"
                                   [] OTHER -> "press",
                          !.clickLimit = IF Act(c).op = "click" /\ ~s.blind THEN "on" ELSE "none"])
  BY DEF Find
<1> DEFINE pc == CASE Act(c).op \in OnElement -> "call"
                   [] Act(c).op \notin OnElement /\ s.blind -> "blind"
                   [] Act(c).op = "click" /\ ~s.blind -> "probe"
                   [] OTHER -> "press"
           t == [s EXCEPT !.target = e, !.pc = pc,
                          !.clickLimit = IF Act(c).op = "click" /\ ~s.blind THEN "on" ELSE "none"]
<1>2. Work(s) /\ Shaped(s) /\ s.pc = "find" /\ s.todo # <<>> /\ Act(c).op = Op(s)
  BY DEF Working, Work, Shaped, Find, At, Act, Op
<1>3. /\ pc \in {"call", "blind", "probe", "press"}
      /\ Op(s) = "click" => pc \in {"blind", "probe"}
      /\ Op(s) = "fill_form" => pc \in {"blind", "press"}
      /\ pc = "blind" => s.blind
  BY <1>2 DEF OnElement
<1> HIDE DEF pc
<1>4. /\ DOMAIN t = Fields /\ t.pc = pc /\ t.todo = s.todo /\ t.attempt = s.attempt
      /\ t.k = s.k /\ t.lost = s.lost /\ t.acted = s.acted /\ t.refs = s.refs
      /\ t.printed = s.printed /\ t.retried = s.retried /\ t.blind = s.blind
      /\ t.mixed = s.mixed /\ t.target = e
  BY <1>2 DEF Shaped, Fields
<1>5. Step(c, t)
  BY <1>1 DEF pc
<1> HIDE DEF t
<1>6. Shaped(t) /\ Fresh(t)
  BY <1>2, <1>3, <1>4 DEF Shaped, Fresh
<1>7. Clicking(t) /\ Clicked(t)
  BY <1>2, <1>3, <1>4 DEF Work, Clicking, Clicked, Op
<1>8. Filling(t) /\ Filled(t)
  BY <1>2, <1>3, <1>4 DEF Work, Filling, Filled, FilledTo, Op
<1>9. Targeted(t)
  <2>1. Selected(t) = Selected(s)
    BY <1>4 DEF Selected, Op
  <2> QED
    BY <1>2, <1>4, <2>1, ResolvedAsPrinted DEF Targeted, At
<1>10. Quiet(s, t)
  BY <1>2, <1>3, <1>4 DEF Quiet, Latest, Writing
<1> QED
  BY <1>5, <1>6, <1>7, <1>8, <1>9, <1>10 DEF Advances, Work, Step, disk

LEMMA ProbeAdvances ==
  ASSUME Working, NEW c \in Clients, Probe(c)
  PROVE  Advances(c)
<1> DEFINE s == st[c]
           t == [s EXCEPT !.pc = "press", !.probe = covered]
<1>1. Work(s) /\ Shaped(s) /\ s.pc = "probe" /\ Step(c, t)
  BY DEF Working, Work, Probe, At
<1>2. /\ DOMAIN t = Fields /\ t.pc = "press" /\ t.todo = s.todo /\ t.attempt = s.attempt
      /\ t.k = s.k /\ t.lost = s.lost /\ t.acted = s.acted /\ t.refs = s.refs
      /\ t.printed = s.printed /\ t.retried = s.retried /\ t.blind = s.blind
      /\ t.mixed = s.mixed /\ t.target = s.target
  BY <1>1 DEF Shaped, Fields
<1> HIDE DEF t
<1>3. Shaped(t) /\ Fresh(t)
  BY <1>1, <1>2 DEF Shaped, Fresh
<1>4. Clicking(t) /\ Clicked(t)
  BY <1>1, <1>2 DEF Work, Clicking, Clicked, Op
<1>5. Filling(t) /\ Filled(t)
  BY <1>1, <1>2 DEF Work, Filling, Filled, Op
<1>6. Targeted(t)
  BY <1>1, <1>2 DEF Work, Targeted, Selected, Op
<1>7. Quiet(s, t)
  BY <1>1, <1>2 DEF Quiet, Latest, Writing
<1> QED
  BY <1>1, <1>3, <1>4, <1>5, <1>6, <1>7 DEF Advances, Work, Step, disk

\* One more field is filled.
LEMMA OneMoreFilled ==
  ASSUME NEW s, NEW t, NEW fields \in Seq(Selector), NEW n \in Nat, n < Len(fields),
         s.acted \in Seq(Nat \X Nat), s.target \in Nat \X Nat,
         FilledTo(s, fields, n), t.acted = Append(s.acted, s.target),
         t.printed = s.printed, t.mixed = s.mixed,
         ~s.mixed /\ fields[n + 1].ref \in DOMAIN s.printed => s.target = s.printed[fields[n + 1].ref]
  PROVE  FilledTo(t, fields, n + 1)
<1> SUFFICES ASSUME ~s.mixed, \A j \in DOMAIN fields : fields[j].ref \in DOMAIN s.printed
             PROVE  t.acted = [j \in 1 .. n + 1 |-> s.printed[fields[j].ref]]
  BY DEF FilledTo
<1> DEFINE f == [j \in 1 .. n |-> s.printed[fields[j].ref]]
           g == [j \in 1 .. n + 1 |-> s.printed[fields[j].ref]]
<1>1. s.acted = f
  BY DEF FilledTo
<1>2. n + 1 \in DOMAIN fields
  OBVIOUS
<1>3. s.target = s.printed[fields[n + 1].ref]
  BY <1>2
<1>4. DOMAIN s.acted = 1 .. n /\ Len(s.acted) = n
  <2>1. DOMAIN s.acted = 1 .. n
    BY <1>1
  <2>2. DOMAIN s.acted = 1 .. Len(s.acted) /\ Len(s.acted) \in Nat
    OBVIOUS
  <2>3. \A j \in Nat \ {0} : j <= n <=> j <= Len(s.acted)
    <3> TAKE j \in Nat \ {0}
    <3>1. (j \in 1 .. n) = (j <= n) /\ (j \in 1 .. Len(s.acted)) = (j <= Len(s.acted))
      BY <2>2
    <3> QED
      BY <2>1, <2>2, <3>1
  <2>4. (n = 0 \/ n <= Len(s.acted)) /\ (Len(s.acted) = 0 \/ Len(s.acted) <= n)
    BY <2>2, <2>3
  <2> QED
    BY <2>1, <2>2, <2>4
<1>5. /\ t.acted \in Seq(Nat \X Nat) /\ DOMAIN t.acted = 1 .. n + 1
      /\ \A j \in 1 .. n : t.acted[j] = s.acted[j]
      /\ t.acted[n + 1] = s.target
  BY <1>4
<1>6. \A j \in 1 .. n + 1 : t.acted[j] = g[j]
  <2> TAKE j \in 1 .. n + 1
  <2>1. CASE j \in 1 .. n
    BY <1>1, <1>5, <2>1
  <2>2. CASE j = n + 1
    BY <1>3, <1>5, <2>2
  <2>3. j \in 1 .. n \/ j = n + 1
    OBVIOUS
  <2> QED
    BY <2>1, <2>2, <2>3
<1>7. t.acted = [j \in 1 .. n + 1 |-> t.acted[j]]
  BY <1>5
<1> QED
  BY <1>6, <1>7

LEMMA PressAdvances ==
  ASSUME Working, PageShown, NEW c \in Clients, Press(c)
  PROVE  Advances(c)
<1> DEFINE s == st[c]
           t == [s EXCEPT !.pc = "answer", !.acted = Append(@, s.target)]
<1>1. /\ Work(s) /\ Shaped(s) /\ s.pc = "press" /\ Step(c, t)
      /\ s.target \in Nat \X Nat /\ s.todo # <<>>
  BY ElementsTyped DEF Working, Work, Shaped, Press, At
<1>2. /\ DOMAIN t = Fields /\ t.pc = "answer" /\ t.todo = s.todo /\ t.attempt = s.attempt
      /\ t.k = s.k /\ t.lost = s.lost /\ t.acted = Append(s.acted, s.target) /\ t.refs = s.refs
      /\ t.printed = s.printed /\ t.retried = s.retried /\ t.blind = s.blind
      /\ t.mixed = s.mixed /\ t.target = s.target
  BY <1>1 DEF Shaped, Fields
<1> HIDE DEF t
<1>3. t.acted \in Seq(Nat \X Nat) /\ Len(t.acted) = Len(s.acted) + 1
  BY <1>1, <1>2 DEF Shaped
<1>4. Shaped(t) /\ Fresh(t)
  BY <1>1, <1>2, <1>3 DEF Shaped, Fresh
<1>5. Clicking(t) /\ Clicked(t)
  <2>1. s.lost \in Nat /\ s.attempt \in 1 .. retryAttempts /\ s.acted \in Seq(Nat \X Nat)
    BY <1>1 DEF Shaped
  <2>2. s.attempt \in Nat /\ Len(s.acted) \in Nat
    BY <2>1, AttemptAssumption
  <2>3. Op(t) = Op(s) /\ Clicking(s)
    BY <1>1, <1>2 DEF Work, Op
  <2>4. Clicking(t)
    <3> SUFFICES ASSUME Op(s) = "click"
                 PROVE  Len(t.acted) = t.lost + 1 /\ Len(t.acted) <= t.attempt - 0
      BY <1>2, <2>3 DEF Clicking
    <3>1. Len(s.acted) = s.lost + 0 /\ Len(s.acted) <= s.attempt - 1
      BY <1>1, <2>3 DEF Clicking
    <3>2. Len(t.acted) = Len(s.acted) + 1 /\ t.lost = s.lost /\ t.attempt = s.attempt
      BY <1>2, <1>3
    <3> QED
      BY <2>1, <2>2, <3>1, <3>2
  <2>5. Clicked(t)
    BY <1>2 DEF Clicked
  <2> QED
    BY <2>4, <2>5
<1>6. Filling(t) /\ Filled(t)
  <2>1. CASE Op(s) = "fill_form"
    <3> DEFINE fields == Head(s.todo).fields
    <3>1. fields \in Seq(Selector) /\ s.k \in Nat /\ s.acted \in Seq(Nat \X Nat) /\ s.k < Len(fields)
      BY <1>1, <2>1, HeadAction DEF Shaped, Work, Filling
    <3>2. ~s.mixed /\ fields[s.k + 1].ref \in DOMAIN s.printed
            => s.target = s.printed[fields[s.k + 1].ref]
      BY <1>1, <2>1 DEF Work, Targeted, Selected
    <3>3. ~s.blind => FilledTo(s, fields, s.k)
      BY <1>1, <2>1 DEF Work, Filling
    <3> HIDE DEF fields
    <3>4. ~s.blind => FilledTo(t, fields, s.k + 1)
      BY <1>1, <1>2, <3>1, <3>2, <3>3, OneMoreFilled
    <3> QED
      BY <1>1, <1>2, <2>1, <3>1, <3>4 DEF Work, Filling, Filled, Op, fields
  <2>2. CASE Op(s) # "fill_form"
    BY <1>2, <2>2 DEF Filling, Filled, Op
  <2> QED
    BY <2>1, <2>2
<1>7. Targeted(t)
  BY <1>1, <1>2 DEF Work, Targeted, Selected, Op
<1>8. Quiet(s, t)
  BY <1>1, <1>2 DEF Quiet, Latest, Writing
<1> QED
  BY <1>1, <1>4, <1>5, <1>6, <1>7, <1>8 DEF Advances, Work, Step, disk

\* After a field comes the next one, or the form is filled; other actions are done.
LEMMA NextFieldAdvances ==
  ASSUME Working, NEW c \in Clients, st[c].pc \in {"answer", "keys"},
         Step(c, NextField(c, st[c]))
  PROVE  Advances(c)
<1> DEFINE s == st[c]
           fields == Head(s.todo).fields
           t == [s EXCEPT !.pc = "find", !.k = @ + 1]
<1>1. Work(s) /\ Shaped(s) /\ s.todo # <<>> /\ Act(c) = Head(s.todo)
  BY DEF Working, Work, Shaped, Act
<1>2. s.lost \in Nat /\ s.k \in Nat /\ fields \in Seq(Selector)
  BY <1>1, HeadAction DEF Shaped
<1>3. CASE Op(s) = "fill_form" /\ s.k + 1 < Len(fields)
  <2>1. Step(c, t)
    BY <1>1, <1>3 DEF NextField, Op
  <2>2. /\ DOMAIN t = Fields /\ t.pc = "find" /\ t.todo = s.todo /\ t.attempt = s.attempt
        /\ t.k = s.k + 1 /\ t.lost = s.lost /\ t.acted = s.acted /\ t.refs = s.refs
        /\ t.printed = s.printed /\ t.retried = s.retried /\ t.blind = s.blind
        /\ t.mixed = s.mixed /\ t.target = s.target
    BY <1>1 DEF Shaped, Fields
  <2> HIDE DEF t
  <2>3. Shaped(t) /\ Fresh(t)
    BY <1>1, <1>2, <2>2 DEF Shaped, Fresh
  <2>4. Clicking(t) /\ Clicked(t) /\ Targeted(t)
    BY <1>3, <2>2 DEF Clicking, Clicked, Targeted, Op
  <2>5. Filling(t) /\ Filled(t)
    BY <1>1, <1>3, <2>2 DEF Work, Filling, Filled, FilledTo, Op
  <2>6. Quiet(s, t)
    BY <2>2 DEF Quiet, Latest, Writing
  <2> QED
    BY <2>1, <2>3, <2>4, <2>5, <2>6 DEF Advances, Work, Step, disk
<1>4. CASE ~(Op(s) = "fill_form" /\ s.k + 1 < Len(fields))
  <2>1. Step(c, Over(s, TRUE, ""))
    BY <1>1, <1>4 DEF NextField, Done, Op
  <2>2. Op(s) = "click" /\ ~s.blind =>
          Len(s.acted) = s.lost + (IF TRUE THEN 1 ELSE 0) /\ Len(s.acted) <= retryAttempts
    <3>1. s.attempt \in Nat /\ s.attempt <= retryAttempts /\ Len(s.acted) \in Nat
      BY <1>1, AttemptAssumption DEF Shaped
    <3>2. Op(s) = "click" => Len(s.acted) = s.lost + 1 /\ Len(s.acted) <= s.attempt
      BY <1>1, <1>2, <3>1 DEF Work, Clicking
    <3> QED
      BY <3>1, <3>2, AttemptAssumption
  <2>3. ASSUME Op(s) = "fill_form", ~s.blind
        PROVE  FilledTo(s, fields, Len(fields))
    <3>1. s.pc = "answer" /\ s.k < Len(fields)
      BY <1>1, <2>3 DEF Work, Filling
    <3>2. Len(fields) = s.k + 1
      BY <1>2, <1>4, <2>3, <3>1
    <3>3. FilledTo(s, fields, s.k + 1)
      BY <1>1, <2>3, <3>1 DEF Work, Filling
    <3> QED
      BY <3>2, <3>3
  <2>4. Work(Over(s, TRUE, "")) /\ Quiet(s, Over(s, TRUE, ""))
    BY <1>1, <2>2, <2>3, OverWorks
  <2> QED
    BY <2>1, <2>4 DEF Advances, Step, disk
<1> QED
  BY <1>3, <1>4

\* The answer to a press is lost: it counts as lost, and the attempt has failed.
LEMMA AnswerLostAdvances ==
  ASSUME Working, NEW c \in Clients, AnswerLost(c)
  PROVE  Advances(c)
<1> DEFINE s == st[c]
           u == [s EXCEPT !.lost = @ + 1]
<1>1. Work(s) /\ Shaped(s) /\ s.pc = "answer" /\ s.todo # <<>> /\ Step(c, Failed(u, "other"))
  BY DEF Working, Work, Shaped, AnswerLost, At
<1>2. /\ DOMAIN u = Fields /\ u.pc = s.pc /\ u.todo = s.todo /\ u.attempt = s.attempt
      /\ u.k = s.k /\ u.lost = s.lost + 1 /\ u.acted = s.acted /\ u.refs = s.refs
      /\ u.printed = s.printed /\ u.retried = s.retried /\ u.blind = s.blind
      /\ u.mixed = s.mixed /\ u.target = s.target
  BY <1>1 DEF Shaped, Fields
<1> HIDE DEF u
<1>3. Shaped(u) /\ u.todo # <<>>
  BY <1>1, <1>2 DEF Shaped
<1>4. Op(u) = "click" => Len(u.acted) = u.lost /\ Len(u.acted) <= u.attempt
  <2>1. s.lost \in Nat /\ s.attempt \in Nat /\ Len(s.acted) \in Nat
    BY <1>1, AttemptAssumption DEF Shaped
  <2> QED
    BY <1>1, <1>2, <2>1 DEF Work, Clicking, Op
<1>5. Op(u) = "fill_form" => ~u.retried
  BY <1>1, <1>2 DEF Work, Filling, Op
<1>6. Work(Failed(u, "other")) /\ Quiet(u, Failed(u, "other"))
  BY <1>1, <1>2, <1>3, <1>4, <1>5, FailedWorks
<1>7. Quiet(s, Failed(u, "other"))
  BY <1>1, <1>2, <1>6 DEF Quiet, Latest, Writing
<1> QED
  BY <1>1, <1>6, <1>7 DEF Advances, Step, disk

LEMMA BackoffAdvances ==
  ASSUME Working, NEW c \in Clients, Backoff(c)
  PROVE  Advances(c)
<1> DEFINE s == st[c]
           t == [s EXCEPT !.pc = "find", !.attempt = @ + 1, !.clickLimit = "none"]
<1>1. Work(s) /\ Shaped(s) /\ s.pc = "backoff" /\ s.todo # <<>>
  BY DEF Working, Work, Shaped, Backoff, At
<1>2. s.lost \in Nat /\ s.attempt \in 1 .. retryAttempts /\ Len(s.acted) \in Nat
  BY <1>1 DEF Shaped
<1>3. CASE Step(c, Over(s, FALSE, s.code))
  <2>1. Op(s) = "click" =>
          Len(s.acted) = s.lost + (IF FALSE THEN 1 ELSE 0) /\ Len(s.acted) <= retryAttempts
    BY <1>1, <1>2, AttemptAssumption DEF Work, Clicking
  <2>2. Work(Over(s, FALSE, s.code)) /\ Quiet(s, Over(s, FALSE, s.code))
    BY <1>1, <2>1, OverWorks
  <2> QED
    BY <1>3, <2>2 DEF Advances, Step, disk
<1>4. CASE Step(c, t)
  <2>1. /\ DOMAIN t = Fields /\ t.pc = "find" /\ t.todo = s.todo /\ t.attempt = s.attempt + 1
        /\ t.k = s.k /\ t.lost = s.lost /\ t.acted = s.acted /\ t.refs = s.refs
        /\ t.printed = s.printed /\ t.retried = s.retried /\ t.blind = s.blind
        /\ t.mixed = s.mixed /\ t.target = s.target
    BY <1>1 DEF Shaped, Fields
  <2> HIDE DEF t
  <2>2. s.attempt + 1 \in 1 .. retryAttempts
    BY <1>1, <1>2, AttemptAssumption DEF Shaped
  <2>3. Shaped(t) /\ Fresh(t)
    BY <1>1, <1>2, <2>1, <2>2 DEF Shaped, Fresh
  <2>4. Clicking(t) /\ Clicked(t)
    BY <1>1, <1>2, <2>1, AttemptAssumption DEF Work, Clicking, Clicked, Op
  <2>5. Filling(t) /\ Filled(t) /\ Targeted(t)
    BY <1>1, <2>1 DEF Work, Filling, Filled, Targeted, Op
  <2>6. Quiet(s, t)
    BY <1>1, <2>1 DEF Quiet, Latest, Writing
  <2> QED
    BY <1>4, <2>3, <2>4, <2>5, <2>6 DEF Advances, Work, Step, disk
<1> QED
  BY <1>3, <1>4 DEF Backoff

LEMMA BlindAdvances ==
  ASSUME Working, NEW c \in Clients, Blind(c)
  PROVE  Advances(c)
<1> DEFINE s == st[c]
           t == [s EXCEPT !.pc = "keys"]
<1>1. /\ Work(s) /\ Shaped(s) /\ s.pc = "blind" /\ s.todo # <<>> /\ Act(c).op = Op(s)
      /\ Op(s) \in {"click", "fill_form"} => s.blind
  BY DEF Working, Work, Shaped, Clicking, Filling, Blind, At, Act, Op
<1>2. CASE Step(c, Failed(s, "other"))
  BY <1>1, <1>2, FailedAdvances
<1>3. CASE Op(s) = "click" /\ Step(c, Done(s))
  <2>1. Work(Over(s, TRUE, "")) /\ Quiet(s, Over(s, TRUE, ""))
    BY <1>1, <1>3, OverWorks
  <2> QED
    BY <1>3, <2>1 DEF Advances, Step, disk, Done
<1>4. CASE Op(s) # "click" /\ Step(c, t)
  <2>1. /\ DOMAIN t = Fields /\ t.pc = "keys" /\ t.todo = s.todo /\ t.attempt = s.attempt
        /\ t.k = s.k /\ t.lost = s.lost /\ t.acted = s.acted /\ t.refs = s.refs
        /\ t.printed = s.printed /\ t.retried = s.retried /\ t.blind = s.blind
        /\ t.mixed = s.mixed /\ t.target = s.target
    BY <1>1 DEF Shaped, Fields
  <2> HIDE DEF t
  <2>2. Shaped(t) /\ Fresh(t)
    BY <1>1, <2>1 DEF Shaped, Fresh
  <2>3. Clicking(t) /\ Clicked(t) /\ Targeted(t)
    BY <1>4, <2>1 DEF Clicking, Clicked, Targeted, Op
  <2>4. Filling(t) /\ Filled(t)
    BY <1>1, <2>1 DEF Work, Filling, Filled, Op
  <2>5. Quiet(s, t)
    BY <1>1, <2>1 DEF Quiet, Latest, Writing
  <2> QED
    BY <1>4, <2>2, <2>3, <2>4, <2>5 DEF Advances, Work, Step, disk
<1> QED
  BY <1>1, <1>2, <1>3, <1>4 DEF Blind

\* Typing ends with the last field, or with Enter.
LEMMA AnsweredAdvances ==
  ASSUME Working, NEW c \in Clients, Answered(c)
  PROVE  Advances(c)
<1> DEFINE s == st[c]
           t == [s EXCEPT !.pc = "call"]
<1>1. Work(s) /\ Shaped(s) /\ s.pc = "answer" /\ s.todo # <<>> /\ Act(c).op = Op(s)
  BY DEF Working, Work, Shaped, Answered, At, Act, Op
<1>2. CASE Step(c, NextField(c, s))
  BY <1>1, <1>2, NextFieldAdvances
<1>3. CASE Op(s) = "type_text" /\ Step(c, t)
  <2>1. /\ DOMAIN t = Fields /\ t.pc = "call" /\ t.todo = s.todo /\ t.attempt = s.attempt
        /\ t.k = s.k /\ t.lost = s.lost /\ t.acted = s.acted /\ t.refs = s.refs
        /\ t.printed = s.printed /\ t.retried = s.retried /\ t.blind = s.blind
        /\ t.mixed = s.mixed /\ t.target = s.target
    BY <1>1 DEF Shaped, Fields
  <2> HIDE DEF t
  <2>2. Shaped(t) /\ Fresh(t)
    BY <1>1, <2>1 DEF Shaped, Fresh
  <2>3. Clicking(t) /\ Clicked(t) /\ Filling(t) /\ Filled(t)
    BY <1>3, <2>1 DEF Clicking, Clicked, Filling, Filled, Op
  <2>4. Targeted(t)
    BY <1>1, <2>1 DEF Work, Targeted, Selected, Op
  <2>5. Quiet(s, t)
    BY <1>1, <2>1 DEF Quiet, Latest, Writing
  <2> QED
    BY <1>3, <2>2, <2>3, <2>4, <2>5 DEF Advances, Work, Step, disk
<1> QED
  BY <1>1, <1>2, <1>3 DEF Answered

LEMMA ElementStepsAdvance ==
  ASSUME Working, NEW c \in Clients,
         NotFound(c) \/ PressFails(c) \/ Keys(c) \/ Call(c)
  PROVE  Advances(c)
<1>1. CASE NotFound(c)
  BY <1>1, FailedAdvances DEF NotFound, At
<1>2. CASE PressFails(c)
  <2>1. st[c].pc = "press" /\ \E code : Step(c, Failed(st[c], code))
    BY <1>2 DEF PressFails, At
  <2> QED
    BY <2>1, FailedAdvances
<1>3. CASE Keys(c)
  BY <1>3, FailedAdvances, NextFieldAdvances DEF Keys, At
<1>4. CASE Call(c)
  <2>1. st[c].pc = "call" /\ Op(st[c]) \notin {"click", "fill_form"}
    BY <1>4, OtherWork DEF Call, At, Working
  <2>2. CASE Step(c, Failed(st[c], "other"))
    BY <2>1, <2>2, FailedAdvances
  <2>3. CASE Step(c, Over(st[c], TRUE, ""))
    BY <2>1, <2>3, OverAdvances DEF At
  <2> QED
    BY <1>4, <2>2, <2>3 DEF Call, Done
<1> QED
  BY <1>1, <1>2, <1>3, <1>4

\* Another action than a click or a form goes on to a step of its own.
LEMMA GoesOnAdvances ==
  ASSUME Working, NEW c \in Clients, NEW t, Step(c, t),
         Op(st[c]) \notin {"click", "fill_form"}, ~At(c, "next"), ~At(c, "store"),
         t.pc \in {"iframe", "keys", "wait", "reading", "resolve", "lastinfo", "settle", "clear",
                  "open"},
         DOMAIN t = Fields, t.todo = st[c].todo, t.attempt = st[c].attempt, t.k \in Nat,
         t.lost = st[c].lost, t.acted = st[c].acted, 0 \notin DOMAIN t.refs,
         t.printed = st[c].printed, t.mixed = st[c].mixed
  PROVE  Advances(c)
<1>1. Work(st[c]) /\ Shaped(st[c]) /\ st[c].pc # "next"
  BY DEF Working, Work, At
<1>2. Shaped(t)
  BY <1>1 DEF Shaped
<1>3. Work(t)
  BY <1>1, <1>2, ElsewhereWorks
<1>4. Quiet(st[c], t)
  BY DEF Quiet, Latest, Writing, At
<1> QED
  BY <1>3, <1>4 DEF Advances, Step, disk

LEMMA ResolveFrameAdvances ==
  ASSUME Working, NEW c \in Clients, ResolveFrame(c)
  PROVE  Advances(c)
<1> DEFINE s == st[c]
           t == [s EXCEPT !.k = @ + 1]
<1>1. Work(s) /\ Shaped(s) /\ Fresh(s) /\ s.pc = "frame" /\ s.todo # <<>> /\ s.k \in Nat
  BY DEF Working, Work, Shaped, ResolveFrame, At
<1>2. CASE Step(c, Execute(c, s))
  <2>1. Work(Execute(c, s)) /\ Quiet(s, Execute(c, s))
    BY <1>1, ExecuteWorks DEF Fresh
  <2> QED
    BY <1>2, <2>1 DEF Advances, Step, disk
<1>3. CASE Step(c, t)
  <2>1. /\ DOMAIN t = Fields /\ t.pc = "frame" /\ t.todo = s.todo /\ t.attempt = s.attempt
        /\ t.k = s.k + 1 /\ t.lost = s.lost /\ t.acted = s.acted /\ t.refs = s.refs
        /\ t.printed = s.printed /\ t.retried = s.retried /\ t.blind = s.blind
        /\ t.mixed = s.mixed /\ t.target = s.target
    BY <1>1 DEF Shaped, Fields
  <2> HIDE DEF t
  <2>2. Shaped(t) /\ Fresh(t)
    BY <1>1, <2>1 DEF Shaped, Fresh
  <2>3. Clicking(t) /\ Clicked(t) /\ Filling(t) /\ Filled(t) /\ Targeted(t)
    BY <1>1, <2>1 DEF Work, Clicking, Clicked, Filling, Filled, Targeted, Op
  <2>4. Quiet(s, t)
    BY <1>1, <2>1 DEF Quiet, Latest, Writing
  <2> QED
    BY <1>3, <2>2, <2>3, <2>4 DEF Advances, Work, Step, disk
<1> QED
  BY <1>2, <1>3 DEF ResolveFrame

LEMMA FrameFailsAdvances ==
  ASSUME Working, NEW c \in Clients, FrameFails(c)
  PROVE  Advances(c)
<1> DEFINE s == st[c]
           t == [s EXCEPT !.pc = "iframe", !.k = 0]
<1>1. Work(s) /\ Shaped(s) /\ s.pc = "frame" /\ s.todo # <<>> /\ Act(c).op = Op(s)
  BY DEF Working, Work, Shaped, FrameFails, At, Act, Op
<1>2. CASE Op(s) = "type_text"
  <2>1. Step(c, t)
    BY <1>1, <1>2 DEF FrameFails
  <2>2. /\ DOMAIN t = Fields /\ t.pc = "iframe" /\ t.todo = s.todo /\ t.attempt = s.attempt
        /\ t.k = 0 /\ t.lost = s.lost /\ t.acted = s.acted /\ t.refs = s.refs
        /\ t.printed = s.printed /\ t.mixed = s.mixed
    BY <1>1 DEF Shaped, Fields
  <2>3. t.k \in Nat /\ 0 \notin DOMAIN t.refs
    BY <1>1, <2>2 DEF Shaped
  <2> HIDE DEF t
  <2> QED
    BY <1>1, <1>2, <2>1, <2>2, <2>3, GoesOnAdvances DEF At
<1>3. CASE Op(s) # "type_text"
  <2>1. Step(c, Over(s, FALSE, "other"))
    BY <1>1, <1>3 DEF FrameFails
  <2>2. Op(s) = "click" =>
          Len(s.acted) = s.lost + (IF FALSE THEN 1 ELSE 0) /\ Len(s.acted) <= retryAttempts
    BY <1>1, AttemptAssumption DEF Work, Fresh
  <2>3. Work(Over(s, FALSE, "other")) /\ Quiet(s, Over(s, FALSE, "other"))
    BY <1>1, <2>2, OverWorks
  <2> QED
    BY <2>1, <2>3 DEF Advances, Step, disk
<1> QED
  BY <1>2, <1>3

\* The steps of the other actions: iframes, waits and what they end with.
LEMMA OtherStepsAdvance ==
  ASSUME Working, NEW c \in Clients,
         \/ clickIframeArea(c) \/ Poll(c) \/ Info(c) \/ WaitTick(c) \/ ReadInfo(c)
         \/ AfterNavigation(c) \/ LastInfo(c) \/ Sleep(c) \/ Settle(c) \/ Capture(c)
  PROVE  Advances(c)
<1> DEFINE s == st[c]
<1>1. /\ s.pc \in {"iframe", "poll", "info", "wait", "reading", "resolve", "lastinfo", "sleep",
                   "settle", "screenshot"}
      /\ Work(s) /\ Shaped(s)
  BY DEF Working, Work, clickIframeArea, Poll, Info, WaitTick, ReadInfo, AfterNavigation, LastInfo,
         Sleep, Settle, Capture, At
<1>2. Op(s) \notin {"click", "fill_form"}
  BY <1>1, OtherWork
<1>3. ASSUME NEW ok \in BOOLEAN, NEW code, Step(c, Over(s, ok, code))
      PROVE  Advances(c)
  BY <1>1, <1>2, <1>3, OverAdvances DEF At
<1>4. ASSUME NEW p \in {"keys", "wait", "reading", "resolve", "lastinfo", "open"},
             NEW t, t = [s EXCEPT !.pc = p] \/ t = [s EXCEPT !.start = doc, !.pc = p], Step(c, t)
      PROVE  Advances(c)
  <2>1. /\ DOMAIN t = Fields /\ t.pc = p /\ t.todo = s.todo /\ t.attempt = s.attempt
        /\ t.k = s.k /\ t.lost = s.lost /\ t.acted = s.acted /\ t.refs = s.refs
        /\ t.printed = s.printed /\ t.mixed = s.mixed
    <3>1. CASE t = [s EXCEPT !.pc = p]
      BY <1>1, <3>1 DEF Shaped, Fields
    <3>2. CASE t = [s EXCEPT !.start = doc, !.pc = p]
      BY <1>1, <3>2 DEF Shaped, Fields
    <3> QED
      BY <1>4, <3>1, <3>2
  <2>2. t.k \in Nat /\ 0 \notin DOMAIN t.refs
    BY <1>1, <2>1 DEF Shaped
  <2> QED
    BY <1>1, <1>2, <1>4, <2>1, <2>2, GoesOnAdvances DEF At
<1>5. CASE clickIframeArea(c)
  BY <1>3, <1>4, <1>5 DEF clickIframeArea
<1>6. CASE Poll(c)
  BY <1>3, <1>6 DEF Poll, Done
<1>7. CASE Info(c)
  BY <1>3, <1>4, <1>7 DEF Info
<1>8. CASE WaitTick(c)
  BY <1>4, <1>8 DEF WaitTick
<1>9. CASE ReadInfo(c)
  <2>1. CASE Step(c, Over(s, TRUE, ""))
    BY <1>3, <2>1
  <2>2. CASE Step(c, [s EXCEPT !.pc = "resolve"]) \/ Step(c, [s EXCEPT !.pc = "wait"])
    BY <1>4, <2>2
  <2> QED
    BY <1>9, <2>1, <2>2 DEF ReadInfo, Done
<1>10. CASE AfterNavigation(c) \/ LastInfo(c) \/ Sleep(c) \/ Settle(c)
  BY <1>3, <1>10 DEF AfterNavigation, LastInfo, Sleep, Settle, Done
<1>11. CASE Capture(c)
  <2>1. CASE Step(c, Over(s, TRUE, "")) \/ Step(c, Over(s, FALSE, "other"))
    BY <1>3, <2>1
  <2>2. CASE Step(c, [s EXCEPT !.pc = "open"])
    BY <1>4, <2>2
  <2> QED
    BY <1>11, <2>1, <2>2 DEF Capture, Done
<1> QED
  BY <1>5, <1>6, <1>7, <1>8, <1>9, <1>10, <1>11

LEMMA CollectAdvances ==
  ASSUME Working, NEW c \in Clients, Collect(c)
  PROVE  Advances(c)
<1> DEFINE s == st[c]
           o == SnapshotOptions(Act(c))
           u(refs) == [s EXCEPT !.pc = "clear", !.refs = refs]
           v(out, refs) == [s EXCEPT !.pc = "clear", !.refs = refs, !.start = doc,
                                     !.lines = out.lines]
<1> HIDE DEF o
<1>1. Work(s) /\ Shaped(s) /\ s.pc = "snapshot" /\ s.todo # <<>>
  BY DEF Working, Work, Shaped, Collect, At
<1>2. Op(s) \notin {"click", "fill_form"}
  BY <1>1, OtherWork
<1>3. PICK t, refs :
        /\ 0 \notin DOMAIN refs
        /\ t = u(refs) \/ \E out : t = v(out, refs)
        /\ Step(c, IF o.format = "text" THEN Done(t) ELSE t)
  <2>1. CASE \E urls \in BOOLEAN :
               \E out \in doSnapshotWithLevel(site.docs[doc], o, urls) :
                 LET t == v(out, [k \in 1 .. Len(out.refs) |-> <<doc, out.refs[k]>>])
                 IN Step(c, IF o.format = "text" THEN Done(t) ELSE t)
    <3>1. PICK out : LET t == v(out, [k \in 1 .. Len(out.refs) |-> <<doc, out.refs[k]>>])
                     IN Step(c, IF o.format = "text" THEN Done(t) ELSE t)
      BY <2>1
    <3>2. 0 \notin DOMAIN [k \in 1 .. Len(out.refs) |-> <<doc, out.refs[k]>>]
      OBVIOUS
    <3> QED
      BY <3>1, <3>2
  <2>2. CASE LET t == u(<<>>) IN Step(c, IF o.format = "text" THEN Done(t) ELSE t)
    <3>1. 0 \notin DOMAIN <<>>
      OBVIOUS
    <3> QED
      BY <2>2, <3>1
  <2> QED
    BY <2>1, <2>2 DEF Collect, o
<1>4. /\ DOMAIN t = Fields /\ t.pc = "clear" /\ t.todo = s.todo /\ t.attempt = s.attempt
      /\ t.k = s.k /\ t.lost = s.lost /\ t.acted = s.acted /\ t.refs = refs
      /\ t.printed = s.printed /\ t.mixed = s.mixed
  <2>1. CASE t = u(refs)
    BY <1>1, <2>1 DEF Shaped, Fields
  <2>2. ASSUME NEW out, t = v(out, refs)
        PROVE  /\ DOMAIN t = Fields /\ t.pc = "clear" /\ t.todo = s.todo
               /\ t.attempt = s.attempt /\ t.k = s.k /\ t.lost = s.lost /\ t.acted = s.acted
               /\ t.refs = refs /\ t.printed = s.printed /\ t.mixed = s.mixed
    BY <1>1, <2>2 DEF Shaped, Fields
  <2> QED
    BY <1>3, <2>1, <2>2
<1>5. Shaped(t) /\ Op(t) = Op(s)
  BY <1>1, <1>3, <1>4 DEF Shaped, Op
<1>6. CASE o.format = "text"
  <2>1. Step(c, Over(t, TRUE, ""))
    BY <1>3, <1>6 DEF Done
  <2>2. Work(Over(t, TRUE, "")) /\ Quiet(t, Over(t, TRUE, ""))
    BY <1>1, <1>2, <1>4, <1>5, OverWorks
  <2>3. Quiet(s, Over(t, TRUE, ""))
    BY <1>1, <1>4, <2>2 DEF Quiet, Latest, Writing
  <2> QED
    BY <2>1, <2>2, <2>3 DEF Advances, Step, disk
<1>7. CASE o.format # "text"
  BY <1>1, <1>2, <1>3, <1>4, <1>5, <1>7, GoesOnAdvances DEF At, Shaped
<1> QED
  BY <1>6, <1>7

LEMMA NavigateAdvances ==
  ASSUME Working, NEW c \in Clients, Navigate(c)
  PROVE  Advances(c)
<1> DEFINE s == st[c]
           t == [s EXCEPT !.pc = "settle"]
<1>1. Work(s) /\ Shaped(s) /\ s.pc = "navigate"
  BY DEF Working, Work, Navigate, At
<1>2. Op(s) \notin {"click", "fill_form"}
  BY <1>1, OtherWork
<1>3. CASE Step(c, Over(s, FALSE, "other"))
  BY <1>1, <1>2, <1>3, OverAdvances DEF At
<1>4. CASE st' = [st EXCEPT ![c].pc = "settle"] /\ UNCHANGED <<refMap, disk>>
  <2>1. st' = [st EXCEPT ![c] = t]
    BY <1>4
  <2>2. /\ DOMAIN t = Fields /\ t.pc = "settle" /\ t.todo = s.todo /\ t.attempt = s.attempt
        /\ t.k = s.k /\ t.lost = s.lost /\ t.acted = s.acted /\ t.refs = s.refs
        /\ t.printed = s.printed /\ t.mixed = s.mixed
    BY <1>1 DEF Shaped, Fields
  <2> HIDE DEF t
  <2>3. Shaped(t)
    BY <1>1, <2>2 DEF Shaped
  <2>4. Work(t)
    BY <1>1, <1>2, <2>2, <2>3, ElsewhereWorks
  <2>5. Quiet(s, t)
    BY <1>1, <2>2 DEF Quiet, Latest, Writing
  <2> QED
    BY <1>4, <2>1, <2>4, <2>5 DEF Advances
<1> QED
  BY <1>3, <1>4 DEF Navigate

\* Time passes.
LEMMA ClocksAdvance ==
  ASSUME Working, NEW c \in Clients,
         \/ LimitExpires(c) \/ ClickLimitExpires(c) \/ DeadlinePasses(c) \/ Expire(c)
         \/ NextRequest(c)
  PROVE  Advances(c)
<1> DEFINE s == st[c]
<1>1. Work(s) /\ DOMAIN s = Fields
  BY DEF Working, Work, Shaped
<1>2. PICK t : SameWork(s, t) /\ t.fd = s.fd /\ Step(c, t)
  <2>1. CASE LimitExpires(c)
    BY <1>1, <2>1 DEF LimitExpires, SameWork, Fields
  <2>2. CASE ClickLimitExpires(c)
    BY <1>1, <2>2 DEF ClickLimitExpires, SameWork, Fields
  <2>3. CASE DeadlinePasses(c)
    BY <1>1, <2>3 DEF DeadlinePasses, SameWork, Fields
  <2>4. CASE Expire(c)
    BY <1>1, <2>4 DEF Expire, SameWork, Fields
  <2>5. CASE NextRequest(c)
    BY <1>1, <2>5 DEF NextRequest, SameWork, Fields
  <2> QED
    BY <2>1, <2>2, <2>3, <2>4, <2>5
<1> QED
  BY <1>1, <1>2, SameWorkWorks DEF Advances, Step, disk

-----------------------------------------------------------------------------
(* The RefMap and the files.                                               *)

\* The step of one record that tells the others nothing keeps the invariant of all.
LEMMA AdvancingKeeps ==
  ASSUME Working, RefsLatest, OneWriter, NEW c \in Clients, Advances(c)
  PROVE  Working' /\ RefsLatest' /\ OneWriter'
<1>1. PICK t : /\ st' = [st EXCEPT ![c] = t] /\ Work(t) /\ Quiet(st[c], t)
               /\ UNCHANGED <<refMap, disk>>
  BY DEF Advances
<1>2. DOMAIN st' = Clients /\ st'[c] = t /\ \A d \in Clients \ {c} : st'[d] = st[d]
  BY <1>1 DEF Working
<1>3. Working'
  BY <1>1, <1>2 DEF Working
<1>4. RefsLatest'
  <2> SUFFICES ASSUME NEW d \in Clients, ~st'[d].mixed,
                      NEW k \in DOMAIN refMap \cap DOMAIN Latest(st'[d])
               PROVE  refMap[k] = Latest(st'[d])[k]
    BY <1>1 DEF RefsLatest
  <2>1. ~st[d].mixed /\ Latest(st'[d]) = Latest(st[d])
    BY <1>1, <1>2 DEF Quiet
  <2> QED
    BY <2>1 DEF RefsLatest
<1>5. OneWriter'
  <2>1. \A d \in Clients : Writing(st'[d]) => st'[d].pc = st[d].pc /\ st'[d].fd = st[d].fd
    BY <1>1, <1>2 DEF Quiet
  <2>2. \A d \in Clients : st'[d].pc = "rename" => st[d].pc = "rename"
    BY <2>1 DEF Writing
  <2>3. \A d \in Clients : Writing(st'[d]) => Writing(st[d])
    BY <2>1 DEF Writing
  <2> QED
    BY <1>1, <2>1, <2>2, <2>3 DEF OneWriter, disk
<1> QED
  BY <1>3, <1>4, <1>5

\* A client whose RefMap others wrote knows less.
LEMMA MixedWorks ==
  ASSUME NEW s, Work(s)
  PROVE  LET t == [s EXCEPT !.mixed = TRUE]
         IN Work(t) /\ t.mixed /\ (Writing(t) => Writing(s)) /\ t.pc = s.pc /\ t.fd = s.fd
<1> DEFINE t == [s EXCEPT !.mixed = TRUE]
<1>1. /\ DOMAIN t = Fields /\ t.pc = s.pc /\ t.todo = s.todo /\ t.attempt = s.attempt
      /\ t.k = s.k /\ t.lost = s.lost /\ t.acted = s.acted /\ t.refs = s.refs
      /\ t.printed = s.printed /\ t.retried = s.retried /\ t.blind = s.blind
      /\ t.target = s.target /\ t.fd = s.fd /\ t.result = s.result /\ t.mixed
  BY DEF Work, Shaped, Fields
<1> HIDE DEF t
<1>2. Shaped(t) /\ Fresh(t)
  BY <1>1 DEF Work, Shaped, Fresh
<1>3. Clicking(t) /\ Clicked(t)
  BY <1>1 DEF Work, Clicking, Clicked, Op
<1>4. Filling(t) /\ Filled(t) /\ Targeted(t)
  BY <1>1 DEF Work, Filling, Filled, FilledTo, Targeted, Op
<1>5. Writing(t) => Writing(s)
  BY <1>1 DEF Writing
<1> QED
  BY <1>1, <1>2, <1>3, <1>4, <1>5 DEF Work, t

\* c writes the RefMap: what holds of the others' records afterwards.
LEMMA OthersMixed ==
  ASSUME Working, OneWriter, NEW c \in Clients, NEW t, Wrote(c, t), Work(t), ~Writing(t),
         UNCHANGED disk
  PROVE  /\ Working' /\ OneWriter' /\ st'[c] = t
         /\ \A d \in Clients \ {c} : st'[d].mixed
<1>1. DOMAIN st' = Clients /\ st'[c] = t
  BY DEF Wrote
<1>2. \A d \in Clients \ {c} :
        /\ Work(st'[d]) /\ st'[d].mixed /\ (Writing(st'[d]) => Writing(st[d]))
        /\ st'[d].pc = st[d].pc /\ st'[d].fd = st[d].fd
  <2> TAKE d \in Clients \ {c}
  <2>1. st'[d] = [st[d] EXCEPT !.mixed = TRUE] /\ Work(st[d])
    BY DEF Wrote, Working
  <2> QED
    BY <2>1, MixedWorks
<1>3. Working'
  BY <1>1, <1>2 DEF Working
<1>4. OneWriter'
  <2>1. \A d \in Clients : Writing(st'[d]) => d # c /\ Writing(st[d])
    BY <1>1, <1>2
  <2>2. \A d \in Clients : st'[d].pc = "rename" => st[d].pc = "rename"
    BY <1>1, <1>2, <2>1 DEF Writing
  <2> QED
    BY <1>2, <2>1, <2>2 DEF OneWriter, disk
<1> QED
  BY <1>1, <1>2, <1>3, <1>4

LEMMA ClearKeeps ==
  ASSUME Working, OneWriter, NEW c \in Clients, Clear(c)
  PROVE  Working' /\ RefsLatest' /\ OneWriter'
<1> DEFINE s == st[c]
           t == [s EXCEPT !.pc = "store", !.k = 0, !.mixed = FALSE]
<1>1. Work(s) /\ Shaped(s) /\ s.pc = "clear" /\ Wrote(c, t) /\ UNCHANGED disk
  BY DEF Working, Work, Clear, At
<1>2. /\ DOMAIN t = Fields /\ t.pc = "store" /\ t.todo = s.todo /\ t.attempt = s.attempt
      /\ t.k = 0 /\ t.lost = s.lost /\ t.acted = s.acted /\ t.refs = s.refs
      /\ t.printed = s.printed
  BY <1>1 DEF Shaped, Fields
<1> HIDE DEF t
<1>3. Shaped(t)
  BY <1>1, <1>2 DEF Shaped
<1>4. Work(t) /\ ~Writing(t)
  BY <1>1, <1>2, <1>3, OtherWork, ElsewhereWorks DEF Writing
<1>5. RefsLatest'
  <2>1. DOMAIN refMap' = {}
    BY DEF Clear
  <2> QED
    BY <2>1 DEF RefsLatest
<1> QED
  BY <1>1, <1>4, <1>5, OthersMixed

LEMMA StoreKeeps ==
  ASSUME Working, RefsLatest, OneWriter, NEW c \in Clients, Store(c)
  PROVE  Working' /\ RefsLatest' /\ OneWriter'
<1> DEFINE s == st[c]
           k == s.k + 1
           e == s.refs[k]
           t == [s EXCEPT !.k = k]
<1>1. Work(s) /\ Shaped(s) /\ s.pc = "store"
  BY DEF Working, Work, Store, At
<1>2. /\ DOMAIN t = Fields /\ t.pc = "store" /\ t.todo = s.todo /\ t.attempt = s.attempt
      /\ t.k = k /\ t.lost = s.lost /\ t.acted = s.acted /\ t.refs = s.refs
      /\ t.printed = s.printed /\ t.mixed = s.mixed
  BY <1>1 DEF Shaped, Fields
<1> HIDE DEF t
<1>3. Shaped(t)
  BY <1>1, <1>2 DEF Shaped
<1>4. Work(t) /\ ~Writing(t)
  BY <1>1, <1>2, <1>3, OtherWork, ElsewhereWorks DEF Writing
<1>5. CASE Step(c, t)
  <2>1. Quiet(s, t)
    BY <1>1, <1>2 DEF Quiet, Latest, Writing
  <2> QED
    BY <1>4, <1>5, <2>1, AdvancingKeeps DEF Advances, Step, disk
<1>6. CASE /\ refMap' = [j \in DOMAIN refMap \cup {k} |-> IF j = k THEN e ELSE refMap[j]]
           /\ Wrote(c, t) /\ UNCHANGED disk
  <2>1. /\ Working' /\ OneWriter' /\ st'[c] = t
        /\ \A d \in Clients \ {c} : st'[d].mixed
    BY <1>4, <1>6, OthersMixed
  <2>2. \A j \in DOMAIN refMap' : refMap'[j] = IF j = k THEN e ELSE refMap[j]
    BY <1>6
  <2>3. \A j \in DOMAIN refMap' : j = k \/ j \in DOMAIN refMap
    BY <1>6
  <2>4. Latest(t) = s.refs /\ Latest(s) = s.refs
    BY <1>1, <1>2 DEF Latest
  <2>5. RefsLatest'
    <3> SUFFICES ASSUME NEW d \in Clients, ~st'[d].mixed,
                        NEW j \in DOMAIN refMap' \cap DOMAIN Latest(st'[d])
                 PROVE  refMap'[j] = Latest(st'[d])[j]
      BY DEF RefsLatest
    <3>1. d = c /\ st'[d] = t /\ ~s.mixed
      BY <1>2, <2>1
    <3>2. CASE j = k
      BY <2>2, <2>4, <3>1, <3>2
    <3>3. CASE j # k
      BY <2>2, <2>3, <2>4, <3>1, <3>3 DEF RefsLatest
    <3> QED
      BY <3>2, <3>3
  <2> QED
    BY <2>1, <2>5
<1> QED
  BY <1>5, <1>6 DEF Store, t

LEMMA PrintedAdvances ==
  ASSUME Working, NEW c \in Clients, Printed(c)
  PROVE  Advances(c)
<1> DEFINE s == st[c]
           u == [s EXCEPT !.printed = s.refs]
<1>1. /\ Work(s) /\ Shaped(s) /\ s.pc = "store" /\ s.todo # <<>>
      /\ Step(c, Over(u, TRUE, ""))
  BY DEF Working, Work, Shaped, Printed, At, Done
<1>2. /\ DOMAIN u = Fields /\ u.pc = "store" /\ u.todo = s.todo /\ u.attempt = s.attempt
      /\ u.k = s.k /\ u.lost = s.lost /\ u.acted = s.acted /\ u.refs = s.refs
      /\ u.printed = s.refs /\ u.mixed = s.mixed
  BY <1>1 DEF Shaped, Fields
<1>3. /\ Over(u, TRUE, "").pc = "next" /\ Over(u, TRUE, "").printed = s.refs
      /\ Over(u, TRUE, "").mixed = s.mixed
  BY <1>2 DEF Over, Fields
<1> HIDE DEF u
<1>4. Shaped(u) /\ u.todo # <<>>
  BY <1>1, <1>2 DEF Shaped
<1>5. Op(u) \notin {"click", "fill_form"}
  BY <1>1, <1>2, OtherWork DEF Op
<1>6. Work(Over(u, TRUE, ""))
  BY <1>4, <1>5, OverWorks
<1>7. Quiet(s, Over(u, TRUE, ""))
  BY <1>1, <1>3 DEF Quiet, Latest, Writing
<1> QED
  BY <1>1, <1>6, <1>7 DEF Advances, Step, disk

\* A writer opens the temporary file.
TmpOpened(c) ==
  /\ At(c, "open")
  /\ files' = [files EXCEPT !.tmp = "partial"]
  /\ clashed' = (clashed \/ \E d \in Clients \ {c} : st[d].fd = "tmp")
  /\ FileStep(c, [st[c] EXCEPT !.pc = "write", !.fd = "tmp"])

LEMMA TmpOpenedKeeps ==
  ASSUME Working, RefsLatest, OneWriter, FilesNamed, NEW c \in Clients, TmpOpened(c)
  PROVE  Working' /\ RefsLatest' /\ OneWriter' /\ FilesNamed'
<1> DEFINE s == st[c]
           t == [s EXCEPT !.pc = "write", !.fd = "tmp"]
<1>1. /\ Work(s) /\ Shaped(s) /\ s.pc = "open" /\ st' = [st EXCEPT ![c] = t]
      /\ DOMAIN st = Clients
  BY DEF Working, Work, TmpOpened, FileStep, At
<1>2. /\ DOMAIN t = Fields /\ t.pc = "write" /\ t.todo = s.todo /\ t.attempt = s.attempt
      /\ t.k = s.k /\ t.lost = s.lost /\ t.acted = s.acted /\ t.refs = s.refs
      /\ t.printed = s.printed /\ t.mixed = s.mixed /\ t.fd = "tmp"
  BY <1>1 DEF Shaped, Fields
<1> HIDE DEF t
<1>3. Shaped(t)
  BY <1>1, <1>2 DEF Shaped
<1>4. Work(t)
  BY <1>1, <1>2, <1>3, OtherWork, ElsewhereWorks
<1>5. st'[c] = t /\ DOMAIN st' = Clients /\ \A d \in Clients \ {c} : st'[d] = st[d]
  BY <1>1
<1>6. Working'
  BY <1>4, <1>5 DEF Working
<1>7. RefsLatest'
  <2>1. \A d \in Clients : st'[d].mixed = st[d].mixed /\ Latest(st'[d]) = Latest(st[d])
    BY <1>1, <1>2, <1>5 DEF Latest
  <2> QED
    BY <2>1 DEF RefsLatest, TmpOpened, FileStep
<1>8. ASSUME ~clashed'
      PROVE  ~clashed /\ \A d \in Clients \ {c} : ~Writing(st[d])
  <2>1. ~clashed /\ ~\E d \in Clients \ {c} : st[d].fd = "tmp"
    BY <1>8 DEF TmpOpened
  <2> QED
    BY <2>1 DEF OneWriter
<1>9. files'.dst = files.dst /\ DOMAIN files' = DOMAIN files
  BY DEF TmpOpened, FilesNamed
<1>10. OneWriter'
  <2> SUFFICES ASSUME ~clashed'
               PROVE  /\ \A d \in Clients : Writing(st'[d]) => d = c
                      /\ st'[c].fd = "tmp" /\ st'[c].pc # "rename" /\ files'.dst # "partial"
    BY DEF OneWriter, Writing
  <2>1. ~clashed /\ \A d \in Clients \ {c} : ~Writing(st[d])
    BY <1>8
  <2> QED
    BY <1>2, <1>5, <1>9, <2>1 DEF OneWriter
<1> QED
  BY <1>6, <1>7, <1>9, <1>10 DEF FilesNamed

\* ... or cannot.
LEMMA OpenTmpFailsAdvances ==
  ASSUME Working, NEW c \in Clients, At(c, "open"), Step(c, Over(st[c], FALSE, "other"))
  PROVE  Advances(c)
<1>1. Op(st[c]) \notin {"click", "fill_form"}
  BY OtherWork DEF Working, At
<1> QED
  BY <1>1, OverAdvances DEF At

LEMMA WriteTmpKeeps ==
  ASSUME Working, RefsLatest, OneWriter, FilesNamed, NEW c \in Clients, WriteTmp(c)
  PROVE  Working' /\ RefsLatest' /\ OneWriter' /\ FilesNamed'
<1> DEFINE s == st[c]
           t == [s EXCEPT !.pc = "rename"]
<1>1. Work(s) /\ Shaped(s) /\ s.pc = "write" /\ DOMAIN st = Clients
  BY DEF Working, Work, WriteTmp, At
<1>2. Op(s) \notin {"click", "fill_form"}
  BY <1>1, OtherWork
<1>3. CASE UNCHANGED files /\ FileStep(c, Over(s, FALSE, "other"))
  <2>1. Step(c, Over(s, FALSE, "other"))
    BY <1>3 DEF FileStep, Step, WriteTmp, disk
  <2>2. Advances(c)
    BY <1>1, <1>2, <2>1, OverAdvances DEF At
  <2> QED
    BY <1>3, <2>2, AdvancingKeeps DEF FilesNamed
<1>4. CASE /\ files' = [f \in DOMAIN files |-> IF f = s.fd THEN "whole" ELSE files[f]]
           /\ FileStep(c, t)
  <2>1. /\ DOMAIN t = Fields /\ t.pc = "rename" /\ t.todo = s.todo /\ t.attempt = s.attempt
        /\ t.k = s.k /\ t.lost = s.lost /\ t.acted = s.acted /\ t.refs = s.refs
        /\ t.printed = s.printed /\ t.mixed = s.mixed /\ t.fd = s.fd
    BY <1>1 DEF Shaped, Fields
  <2>2. st' = [st EXCEPT ![c] = t] /\ UNCHANGED refMap /\ UNCHANGED clashed
    BY <1>4 DEF FileStep, WriteTmp
  <2> HIDE DEF t
  <2>3. Shaped(t)
    BY <1>1, <2>1 DEF Shaped
  <2>4. Work(t)
    BY <1>1, <1>2, <2>1, <2>3, ElsewhereWorks
  <2>5. st'[c] = t /\ DOMAIN st' = Clients /\ \A d \in Clients \ {c} : st'[d] = st[d]
    BY <1>1, <2>2
  <2>6. Working'
    BY <2>4, <2>5 DEF Working
  <2>7. RefsLatest'
    <3>1. \A d \in Clients : st'[d].mixed = st[d].mixed /\ Latest(st'[d]) = Latest(st[d])
      BY <1>1, <2>1, <2>5 DEF Latest
    <3> QED
      BY <2>2, <3>1 DEF RefsLatest
  <2>8. OneWriter'
    <3> SUFFICES ASSUME ~clashed
                 PROVE  /\ \A d \in Clients : Writing(st'[d]) => d = c
                        /\ st'[c].fd = "tmp" /\ files'.tmp = "whole" /\ files'.dst # "partial"
      BY <2>2 DEF OneWriter, Writing
    <3>1. s.fd = "tmp" /\ files.dst # "partial" /\ \A d \in Clients : Writing(st[d]) => d = c
      BY <1>1 DEF OneWriter, Writing
    <3>2. files'.tmp = "whole" /\ files'.dst = files.dst
      BY <1>4, <3>1 DEF FilesNamed
    <3> QED
      BY <2>1, <2>5, <3>1, <3>2
  <2>9. FilesNamed'
    BY <1>4 DEF FilesNamed
  <2> QED
    BY <2>6, <2>7, <2>8, <2>9
<1> QED
  BY <1>3, <1>4 DEF WriteTmp

\* The files of the others are moved, or removed.
LEMMA MovedWorks ==
  ASSUME Working, NEW to, NEW d \in Clients
  PROVE  LET t == Moved(to)[d]
         IN Work(t) /\ t.pc = st[d].pc /\ t.mixed = st[d].mixed /\ Latest(t) = Latest(st[d])
<1> DEFINE s == st[d]
           fd == CASE s.fd = "tmp" -> to
                   [] s.fd = "dst" /\ to = "dst" -> "gone"
                   [] OTHER -> s.fd
           t == [s EXCEPT !.fd = fd]
<1>1. Moved(to)[d] = t
  BY DEF Moved
<1> HIDE DEF fd
<1>2. Work(s) /\ DOMAIN s = Fields
  BY DEF Working, Work, Shaped
<1>3. SameWork(s, t)
  BY <1>2 DEF SameWork, Fields
<1>4. Work(t)
  BY <1>2, <1>3, SameWorkWorks
<1> QED
  BY <1>1, <1>3, <1>4 DEF SameWork, Latest

LEMMA RenameKeeps ==
  ASSUME Working, RefsLatest, OneWriter, FilesNamed, NEW c \in Clients, Rename(c)
  PROVE  Working' /\ RefsLatest' /\ OneWriter' /\ FilesNamed'
<1> DEFINE s == st[c]
<1>1. /\ Work(s) /\ Shaped(s) /\ s.pc = "rename" /\ s.todo # <<>>
      /\ UNCHANGED refMap /\ UNCHANGED clashed
  BY DEF Working, Work, Shaped, Rename, At
<1>2. Op(s) \notin {"click", "fill_form"}
  BY <1>1, OtherWork
<1>3. PICK to, t :
        /\ st' = [Moved(to) EXCEPT ![c] = t]
        /\ t = Over(s, TRUE, "") \/ t = Over(s, FALSE, "other")
  BY DEF Rename, Done
<1>4. Work(t) /\ Quiet(s, t)
  <2>1. CASE t = Over(s, TRUE, "")
    BY <1>1, <1>2, <2>1, OverWorks
  <2>2. CASE t = Over(s, FALSE, "other")
    BY <1>1, <1>2, <2>2, OverWorks
  <2> QED
    BY <1>3, <2>1, <2>2
<1>5. t.pc = "next"
  <2>1. CASE t = Over(s, TRUE, "")
    BY <1>1, <2>1 DEF Over, Shaped, Fields
  <2>2. CASE t = Over(s, FALSE, "other")
    BY <1>1, <2>2 DEF Over, Shaped, Fields
  <2> QED
    BY <1>3, <2>1, <2>2
<1>6. DOMAIN st' = Clients /\ st'[c] = t /\ \A d \in Clients \ {c} : st'[d] = Moved(to)[d]
  BY <1>3 DEF Moved
<1>7. \A d \in Clients \ {c} : /\ Work(st'[d]) /\ st'[d].pc = st[d].pc
                               /\ st'[d].mixed = st[d].mixed /\ Latest(st'[d]) = Latest(st[d])
  BY <1>6, MovedWorks
<1>8. Working'
  BY <1>4, <1>6, <1>7 DEF Working
<1>9. RefsLatest'
  <2>1. \A d \in Clients : st'[d].mixed = st[d].mixed /\ Latest(st'[d]) = Latest(st[d])
    BY <1>4, <1>6, <1>7 DEF Quiet
  <2> QED
    BY <1>1, <2>1 DEF RefsLatest
<1>10. /\ DOMAIN files' = {"tmp", "dst"}
       /\ files'.dst = files.tmp \/ files'.dst = files.dst
  <2>1. CASE files' = [tmp |-> "none", dst |-> files.tmp]
    BY <2>1
  <2>2. CASE files' = [files EXCEPT !.tmp = "none"]
    BY <2>2 DEF FilesNamed
  <2> QED
    BY <2>1, <2>2 DEF Rename
<1>11. OneWriter'
  <2> SUFFICES ASSUME ~clashed
               PROVE  /\ \A d \in Clients : ~Writing(st'[d])
                      /\ files'.dst # "partial"
    BY <1>1 DEF OneWriter, Writing
  <2>1. files.tmp = "whole" /\ files.dst # "partial" /\ \A d \in Clients : Writing(st[d]) => d = c
    BY <1>1 DEF OneWriter, Writing
  <2> QED
    BY <1>5, <1>6, <1>7, <1>10, <2>1 DEF Writing
<1> QED
  BY <1>8, <1>9, <1>10, <1>11 DEF FilesNamed

-----------------------------------------------------------------------------
(* The invariant.                                                          *)

LEMMA ExecutorKeeps ==
  ASSUME ActionsInv, NEW c \in Clients, Executor(c)
  PROVE  Working' /\ RefsLatest' /\ OneWriter' /\ FilesNamed'
<1> USE DEF ActionsInv
<1>1. ASSUME Advances(c)
      PROVE  Working' /\ RefsLatest' /\ OneWriter' /\ FilesNamed'
  BY <1>1, AdvancingKeeps DEF FilesNamed, Advances, disk
<1>2. CASE ExecuteAction(c) \/ ResolveFrame(c) \/ FrameFails(c)
  BY <1>1, <1>2, ExecuteActionAdvances, ResolveFrameAdvances, FrameFailsAdvances
<1>3. CASE Find(c) \/ Probe(c) \/ Press(c)
  BY <1>1, <1>3, FindAdvances, ProbeAdvances, PressAdvances
<1>4. CASE Answered(c) \/ AnswerLost(c) \/ Backoff(c) \/ Blind(c)
  BY <1>1, <1>4, AnsweredAdvances, AnswerLostAdvances, BackoffAdvances, BlindAdvances
<1>5. CASE NotFound(c) \/ PressFails(c) \/ Keys(c) \/ Call(c)
  BY <1>1, <1>5, ElementStepsAdvance
<1>6. CASE \/ clickIframeArea(c) \/ Poll(c) \/ Info(c) \/ WaitTick(c) \/ ReadInfo(c)
           \/ AfterNavigation(c) \/ LastInfo(c) \/ Sleep(c) \/ Settle(c) \/ Capture(c)
  BY <1>1, <1>6, OtherStepsAdvance
<1>7. CASE Navigate(c) \/ Collect(c) \/ Printed(c)
  BY <1>1, <1>7, NavigateAdvances, CollectAdvances, PrintedAdvances
<1>8. CASE Clear(c) \/ Store(c)
  <2>1. UNCHANGED disk
    BY <1>8 DEF Clear, Store, Step
  <2> QED
    BY <1>8, <2>1, ClearKeeps, StoreKeeps DEF FilesNamed, disk
<1>9. CASE OpenTmp(c)
  BY <1>1, <1>9, TmpOpenedKeeps, OpenTmpFailsAdvances DEF OpenTmp, TmpOpened
<1>10. CASE WriteTmp(c) \/ Rename(c)
  BY <1>10, WriteTmpKeeps, RenameKeeps
<1> QED
  BY <1>2, <1>3, <1>4, <1>5, <1>6, <1>7, <1>8, <1>9, <1>10 DEF Executor

\* The page goes from one of its documents to the next, or stays.
LEMMA PageStaysShown == PageShown /\ [Next]_vars => PageShown'
<1> SUFFICES ASSUME PageShown, [Next]_vars
             PROVE  PageShown'
  OBVIOUS
<1>1. Len(site.docs) \in Nat
  BY ScenarioAssumption DEF PageShown
<1>2. ASSUME NEW c \in Clients, Executor(c)
      PROVE  UNCHANGED site /\ (UNCHANGED doc \/ NextDoc)
  <2>1. CASE \/ ExecuteAction(c) \/ ResolveFrame(c) \/ FrameFails(c) \/ clickIframeArea(c)
             \/ Find(c) \/ NotFound(c) \/ Probe(c) \/ Press(c) \/ PressFails(c)
    BY <2>1 DEF ExecuteAction, ResolveFrame, FrameFails, clickIframeArea, Find, NotFound, Probe,
      Press, PressFails, Step, thePage
  <2>2. CASE \/ Answered(c) \/ AnswerLost(c) \/ Backoff(c) \/ Blind(c) \/ Keys(c) \/ Call(c)
             \/ Poll(c) \/ Info(c) \/ WaitTick(c) \/ ReadInfo(c) \/ AfterNavigation(c)
             \/ LastInfo(c) \/ Sleep(c)
    BY <2>2 DEF Answered, AnswerLost, Backoff, Blind, Keys, Call, Poll, Info, WaitTick, ReadInfo,
      AfterNavigation, LastInfo, Sleep, Step, thePage
  <2>3. CASE Navigate(c)
    BY <2>3 DEF Navigate, Step, thePage
  <2>4. CASE Settle(c) \/ Collect(c) \/ Clear(c) \/ Store(c) \/ Printed(c) \/ Capture(c)
    BY <2>4 DEF Settle, Collect, Clear, Store, Printed, Capture, Step, thePage
  <2>5. CASE OpenTmp(c) \/ WriteTmp(c) \/ Rename(c)
    BY <2>5 DEF OpenTmp, WriteTmp, Rename, FileStep, Step, thePage
  <2> QED
    BY <1>2, <2>1, <2>2, <2>3, <2>4, <2>5 DEF Executor
<1>3. ASSUME NEW c \in Clients,
             \/ LimitExpires(c) \/ ClickLimitExpires(c) \/ DeadlinePasses(c) \/ Expire(c)
             \/ NextRequest(c)
      PROVE  UNCHANGED <<site, doc>>
  BY <1>3 DEF LimitExpires, ClickLimitExpires, DeadlinePasses, Expire, NextRequest, Step, thePage
<1>4. CASE PageMoves \/ UNCHANGED vars
  BY <1>1, <1>4 DEF PageMoves, vars, thePage, PageShown, NextDoc
<1> QED
  BY <1>1, <1>2, <1>3, <1>4 DEF Next, PageShown, NextDoc

LEMMA InitActions == Init => ActionsInv
<1> SUFFICES ASSUME Init
             PROVE  ActionsInv
  OBVIOUS
<1>1. /\ site \in Scenarios /\ doc = 1 /\ refMap = <<>> /\ clashed = FALSE
      /\ files = [tmp |-> "none", dst |-> "none"]
      /\ st = [c \in Clients |-> Client(site.chain[c], site.deadline[c])]
  BY DEF Init
<1>2. PageShown
  BY <1>1, ScenarioAssumption DEF PageShown
<1>3. Working
  <2> SUFFICES ASSUME NEW c \in Clients
               PROVE  Work(st[c])
    BY <1>1 DEF Working
  <2>1. site.chain[c] \in Seq(ActionRecord)
    BY <1>1, ScenarioAssumption
  <2> DEFINE s == st[c]
  <2>2. /\ DOMAIN s = Fields /\ s.pc = "next" /\ s.todo = site.chain[c] /\ s.attempt = 1
        /\ s.k = 0 /\ s.lost = 0 /\ s.acted = <<>> /\ s.refs = <<>> /\ s.printed = <<>>
        /\ s.target = None /\ s.result = None
    BY <1>1 DEF Client, Fields
  <2> HIDE DEF s
  <2>3. 1 \in 1 .. retryAttempts /\ <<>> \in Seq(Nat \X Nat) /\ 0 \notin DOMAIN <<>>
    BY AttemptAssumption
  <2>4. Shaped(s)
    BY <2>1, <2>2, <2>3 DEF Shaped
  <2>5. Fresh(s) /\ Clicking(s) /\ Clicked(s) /\ Filling(s) /\ Filled(s) /\ Targeted(s)
    BY <2>2 DEF Fresh, Clicking, Clicked, Filling, Filled, Targeted
  <2> QED
    BY <2>4, <2>5 DEF Work, s
<1>4. RefsLatest
  <2>1. DOMAIN refMap = {}
    BY <1>1
  <2> QED
    BY <2>1 DEF RefsLatest
<1>5. OneWriter /\ FilesNamed
  <2>1. \A c \in Clients : st[c].pc = "next"
    BY <1>1 DEF Client
  <2> QED
    BY <1>1, <2>1 DEF OneWriter, FilesNamed, Writing
<1> QED
  BY <1>2, <1>3, <1>4, <1>5 DEF ActionsInv

LEMMA ActionsStep == ActionsInv /\ [Next]_vars => ActionsInv'
<1> SUFFICES ASSUME ActionsInv, [Next]_vars
             PROVE  Working' /\ RefsLatest' /\ OneWriter' /\ FilesNamed'
  BY PageStaysShown DEF ActionsInv
<1>1. CASE \E c \in Clients : Executor(c)
  BY <1>1, ExecutorKeeps
<1>2. CASE \E c \in Clients :
             \/ LimitExpires(c) \/ ClickLimitExpires(c) \/ DeadlinePasses(c) \/ Expire(c)
             \/ NextRequest(c)
  <2>1. PICK c \in Clients : Advances(c)
    BY <1>2, ClocksAdvance DEF ActionsInv
  <2> QED
    BY <2>1, AdvancingKeeps DEF ActionsInv, FilesNamed, Advances, disk
<1>3. CASE PageMoves \/ UNCHANGED vars
  <2>1. UNCHANGED <<refMap, files, clashed, st>>
    BY <1>3 DEF PageMoves, vars, disk
  <2> QED
    BY <2>1 DEF ActionsInv, Working, RefsLatest, OneWriter, FilesNamed
<1> QED
  BY <1>1, <1>2, <1>3 DEF Next

LEMMA ActionsHold == Spec => []ActionsInv
<1> QED
  BY InitActions, ActionsStep, PTL DEF Spec

-----------------------------------------------------------------------------
(* Induction over data: from the least number with a property.             *)

\* What every induction below comes from.
LEMMA LeastNumber ==
  ASSUME NEW T, T \subseteq Nat, T # {}
  PROVE  \E m \in T : \A n \in T : m <= n
<1>1. PICK m \in T : \A n \in T : <<n, m>> \notin OpToRel(<, Nat)
  BY NatLessThanWellFounded, WFMin, Zenon
<1>2. \A n \in T : ~(n < m)
  BY <1>1 DEF OpToRel
<1> QED
  BY <1>2

\* What Chain is defined by.
Up(d, ids, f, n) == {n} \cup IF d.parent[n] \in ids THEN f[d.parent[n]] ELSE {}

\* Nodes are numbered from 1 and their parents before them.
LEMMA Nodes ==
  ASSUME NEW d \in Document
  PROVE  /\ Len(d.role) \in Nat /\ NodesOf(d) = 1 .. Len(d.role)
         /\ \A n \in NodesOf(d) : d.parent[n] \in 0 .. n - 1
<1>1. d.role \in Seq(STRING) /\ d.parent \in Seq(Nat) /\ DOMAIN d.parent = NodesOf(d)
  BY DEF Document
<1>2. Len(d.role) \in Nat /\ NodesOf(d) = 1 .. Len(d.role)
  BY <1>1 DEF NodesOf
<1>3. ASSUME NEW n \in NodesOf(d) PROVE d.parent[n] \in 0 .. n - 1
  <2>1. d.parent[n] \in Nat
    BY <1>1
  <2>2. d.parent[n] < n
    BY DEF Document
  <2> QED
    BY <2>1, <2>2, <1>2
<1> QED
  BY <1>2, <1>3

\* The recursive function Chain exists and obeys its equation.
LEMMA ChainOf ==
  ASSUME NEW d \in Document, NEW t, t.ids \subseteq NodesOf(d)
  PROVE  Chain(d, t) = [n \in NodesOf(d) |-> Up(d, t.ids, Chain(d, t), n)]
<1> DEFINE Is(f, m) == f = [n \in 1 .. m |-> Up(d, t.ids, f, n)]
           L == Len(d.role)
<1>1. L \in Nat /\ NodesOf(d) = 1 .. L /\ \A n \in NodesOf(d) : d.parent[n] \in 0 .. n - 1
  BY Nodes
<1> HIDE DEF L
<1>2. \A m \in 0 .. L : \E f : Is(f, m)
  <2> DEFINE T == {m \in 0 .. L : ~\E f : Is(f, m)}
  <2> SUFFICES ASSUME T # {} PROVE FALSE
    OBVIOUS
  <2>1. PICK m \in T : \A n \in T : m <= n
    <3>1. T \subseteq Nat
      BY <1>1
    <3> HIDE DEF T
    <3> QED
      BY <3>1, LeastNumber
  <2>2. m \in 0 .. L /\ ~\E f : Is(f, m)
    BY <2>1
  <2>3. m # 0
    <3>1. Is(<<>>, 0)
      OBVIOUS
    <3> QED
      BY <2>2, <3>1
  <2>4. PICK f : Is(f, m - 1)
    <3>1. m - 1 \in 0 .. L /\ ~(m <= m - 1)
      BY <2>2, <2>3, <1>1
    <3> QED
      BY <3>1, <2>1
  <2> DEFINE g == [n \in 1 .. m |-> Up(d, t.ids, f, n)]
  <2>5. ASSUME NEW n \in 1 .. m PROVE Up(d, t.ids, f, n) = Up(d, t.ids, g, n)
    <3>1. CASE d.parent[n] \in t.ids
      <4>1. d.parent[n] \in 1 .. m - 1
        BY <3>1, <1>1, <2>2
      <4>2. d.parent[n] \in 1 .. m
        BY <4>1, <2>2, <1>1
      <4>3. f[d.parent[n]] = Up(d, t.ids, f, d.parent[n])
        BY <4>1, <2>4
      <4>4. g[d.parent[n]] = Up(d, t.ids, f, d.parent[n])
        BY <4>2
      <4> QED
        BY <3>1, <4>3, <4>4 DEF Up
    <3>2. CASE d.parent[n] \notin t.ids
      BY <3>2 DEF Up
    <3> QED
      BY <3>1, <3>2
  <2>6. Is(g, m)
    BY <2>5
  <2> QED
    BY <2>6, <2>2
<1>3. PICK f : Is(f, L)
  BY <1>1, <1>2
<1> DEFINE All(h) == h = [n \in NodesOf(d) |-> {n} \cup IF d.parent[n] \in t.ids THEN h[d.parent[n]] ELSE {}]
<1>4. All(f)
  BY <1>3, <1>1 DEF Up
<1>5. Chain(d, t) = CHOOSE h : All(h)
  BY DEF Chain
<1>6. All(Chain(d, t))
  BY <1>4, <1>5
<1> QED
  BY <1>6 DEF Up

\* What holds of the first number and of the next with each holds of all up to hi.
LEMMA Induction ==
  ASSUME NEW lo \in Nat, NEW hi \in Nat, NEW T, lo \in T,
         \A k \in lo .. hi : k \in T /\ k # hi => k + 1 \in T
  PROVE  lo .. hi \subseteq T
<1> DEFINE F == (lo .. hi) \ T
<1> SUFFICES ASSUME F # {} PROVE FALSE
  OBVIOUS
<1>1. PICK m \in F : \A n \in F : m <= n
  <2>1. F \subseteq Nat
    OBVIOUS
  <2> HIDE DEF F
  <2> QED
    BY <2>1, LeastNumber
<1>2. m \in lo .. hi /\ m \notin T /\ m # lo
  BY <1>1
<1>3. m - 1 \in lo .. hi /\ m - 1 # hi /\ m - 1 + 1 = m /\ ~(m <= m - 1)
  BY <1>2
<1>4. m - 1 \notin F
  BY <1>1, <1>3
<1> QED
  BY <1>2, <1>3, <1>4

\* A base and steps of a recursion in W, and a function that computes its values.
Steps(W, base, step, hi) == base \in W /\ step \in [Nat -> [W -> W]] /\ hi \in Nat

Computes(f, W, base, step, hi) ==
  /\ f \in [0 .. hi -> W]
  /\ f[0] = base /\ \A k \in 1 .. hi : f[k] = step[k][f[k - 1]]

\* A function by recursion on a number, each value from the one before, exists.
LEMMA Recursion ==
  ASSUME NEW W, NEW base, NEW step, NEW hi, Steps(W, base, step, hi)
  PROVE  \E f : Computes(f, W, base, step, hi)
<1> USE DEF Steps
<1> DEFINE Is(f, m) == f[0] = base /\ \A k \in 1 .. m : f[k] = step[k][f[k - 1]]
           T == {m \in Nat : \E f \in [0 .. m -> W] : Is(f, m)}
<1>1. 0 \in T
  <2> DEFINE f == [k \in 0 .. 0 |-> base]
  <2>1. Is(f, 0) /\ f \in [0 .. 0 -> W]
    OBVIOUS
  <2> QED
    BY <2>1
<1>2. ASSUME NEW m \in 0 .. hi, m \in T PROVE m + 1 \in T
  <2>1. PICK f \in [0 .. m -> W] : Is(f, m)
    BY <1>2
  <2> DEFINE g == [k \in 0 .. m + 1 |-> IF k <= m THEN f[k] ELSE step[k][f[k - 1]]]
  <2>2. g \in [0 .. m + 1 -> W]
    OBVIOUS
  <2>3. g[0] = base
    BY <2>1
  <2>4. ASSUME NEW k \in 1 .. m + 1 PROVE g[k] = step[k][g[k - 1]]
    <3>1. k \in 0 .. m + 1 /\ k - 1 \in 0 .. m + 1 /\ k - 1 <= m
      OBVIOUS
    <3>2. g[k - 1] = f[k - 1]
      BY <3>1
    <3>3. CASE k <= m
      <4>1. k \in 1 .. m
        BY <3>3
      <4>2. g[k] = f[k]
        BY <3>1, <3>3
      <4> QED
        BY <2>1, <3>2, <4>1, <4>2
    <3>4. CASE ~(k <= m)
      BY <3>1, <3>2, <3>4
    <3> QED
      BY <3>3, <3>4
  <2> HIDE DEF g
  <2>5. m + 1 \in Nat
    OBVIOUS
  <2> QED
    BY <2>2, <2>3, <2>4, <2>5
<1>3. 0 .. hi \subseteq T
  <2> HIDE DEF T
  <2> QED
    BY <1>1, <1>2, Induction
<1>4. hi \in T
  BY <1>3
<1> QED
  BY <1>4 DEF Computes

\* A selection keeps the elements that are in S.
LEMMA AmongIs ==
  ASSUME NEW T, NEW s \in Seq(T), NEW S
  PROVE  Among(s, S) \in Seq(T) /\ ToSet(Among(s, S)) = ToSet(s) \cap S
<1> DEFINE L == Len(s)
           Pick(f) == f = [k \in 0 .. L |->
                             IF k = 0 THEN <<>>
                             ELSE IF s[k] \in S THEN Append(f[k - 1], s[k]) ELSE f[k - 1]]
           pick == CHOOSE f : Pick(f)
<1>1. L \in Nat /\ DOMAIN s = 1 .. L /\ \A k \in 1 .. L : s[k] \in T
  OBVIOUS
<1> HIDE DEF L
<1>2. \E f : Pick(f)
  <2> DEFINE step == [k \in Nat |-> [w \in Seq(T) |-> IF k \in 1 .. L /\ s[k] \in S THEN Append(w, s[k]) ELSE w]]
  <2>1. step \in [Nat -> [Seq(T) -> Seq(T)]] /\ <<>> \in Seq(T) /\ 0 \in Nat /\ 0 <= L
    BY <1>1
  <2>2. PICK f \in [0 .. L -> Seq(T)] :
          f[0] = <<>> /\ \A k \in 1 .. L : f[k] = step[k][f[k - 1]]
    <3>1. Steps(Seq(T), <<>>, step, L)
      BY <2>1, <1>1 DEF Steps
    <3>2. \E f : Computes(f, Seq(T), <<>>, step, L)
      BY <3>1, Recursion
    <3> QED
      BY <3>2 DEF Computes
  <2>3. ASSUME NEW k \in 0 .. L, k # 0
        PROVE  step[k][f[k - 1]] = IF s[k] \in S THEN Append(f[k - 1], s[k]) ELSE f[k - 1]
    <3>1. k \in Nat /\ k \in 1 .. L /\ f[k - 1] \in Seq(T)
      BY <1>1, <2>3
    <3> QED
      BY <3>1
  <2>4. ASSUME NEW k \in 0 .. L
        PROVE  f[k] = IF k = 0 THEN <<>>
                      ELSE IF s[k] \in S THEN Append(f[k - 1], s[k]) ELSE f[k - 1]
    <3>1. k # 0 => k \in 1 .. L
      BY <1>1
    <3> QED
      BY <2>2, <2>3, <3>1
  <2>5. Pick(f)
    BY <2>2, <2>4
  <2> QED
    BY <2>5
<1>3. Pick(pick)
  BY <1>2
<1>4. Among(s, S) = pick[L]
  BY DEF Among, L
<1> HIDE DEF pick
<1>10. \A k \in 0 .. L : pick[k] = IF k = 0 THEN <<>>
                      ELSE IF s[k] \in S THEN Append(pick[k - 1], s[k]) ELSE pick[k - 1]
  BY <1>3
<1>9. pick[0] = <<>> /\ \A k \in 1 .. L : pick[k] = IF s[k] \in S THEN Append(pick[k - 1], s[k]) ELSE pick[k - 1]
  BY <1>1, <1>10
<1> HIDE DEF Pick
<1> DEFINE K == {k \in Nat : /\ pick[k] \in Seq(T)
                             /\ ToSet(pick[k]) = {s[j] : j \in 1 .. k} \cap S}
<1>5. 0 \in K
  <2>1. pick[0] = <<>>
    BY <1>9
  <2>2. ToSet(<<>>) = {} /\ {s[j] : j \in 1 .. 0} = {}
    BY DEF ToSet
  <2>3. pick[0] \in Seq(T) /\ ToSet(pick[0]) = {s[j] : j \in 1 .. 0} \cap S
    BY <2>1, <2>2
  <2> QED
    BY <2>3
<1>6. ASSUME NEW k \in 0 .. L, k \in K, k # L PROVE k + 1 \in K
  <2>0. k \in 0 .. L /\ k # L
    BY <1>6
  <2>1. k + 1 \in 1 .. L /\ k + 1 - 1 = k /\ k + 1 # 0 /\ k + 1 \in 0 .. L
    BY <1>1, <2>0
  <2>2. pick[k + 1] = IF s[k + 1] \in S THEN Append(pick[k], s[k + 1]) ELSE pick[k]
    BY <1>9, <2>1
  <2>3. s[k + 1] \in T /\ pick[k] \in Seq(T)
    BY <1>1, <2>1, <1>6
  <2>4. ToSet(Append(pick[k], s[k + 1])) = ToSet(pick[k]) \cup {s[k + 1]}
    <3> DEFINE p == pick[k]
               q == Append(p, s[k + 1])
    <3>1. /\ DOMAIN p = 1 .. Len(p) /\ Len(p) \in Nat /\ DOMAIN q = 1 .. Len(p) + 1
          /\ \A i \in 1 .. Len(p) : q[i] = p[i]
          /\ q[Len(p) + 1] = s[k + 1]
      BY <2>3
    <3> HIDE DEF p, q
    <3>2. \A i \in 1 .. Len(p) + 1 : i \in 1 .. Len(p) \/ i = Len(p) + 1
      BY <3>1
    <3> QED
      BY <3>1, <3>2 DEF ToSet, p, q
  <2>5. {s[j] : j \in 1 .. k + 1} = {s[j] : j \in 1 .. k} \cup {s[k + 1]}
    <3>1. \A j : j \in 1 .. k + 1 <=> j \in 1 .. k \/ j = k + 1
      BY <1>1, <2>0
    <3> QED
      BY <3>1
  <2>6. ToSet(pick[k]) = {s[j] : j \in 1 .. k} \cap S
    BY <1>6
  <2>7. pick[k + 1] \in Seq(T)
    BY <2>2, <2>3
  <2>8. ToSet(pick[k + 1]) = {s[j] : j \in 1 .. k + 1} \cap S
    BY <2>2, <2>4, <2>5, <2>6
  <2> QED
    BY <2>7, <2>8, <1>6
<1>7. L \in K
  <2>1. 0 .. L \subseteq K
    <3> HIDE DEF K, L
    <3> QED
      BY <1>1, <1>5, <1>6, Induction
  <2>2. L \in 0 .. L
    BY <1>1
  <2> HIDE DEF K
  <2> QED
    BY <2>1, <2>2
<1>8. ToSet(s) = {s[j] : j \in 1 .. L}
  BY <1>1 DEF ToSet
<1> QED
  BY <1>4, <1>7, <1>8

\* What a concatenation contains.
LEMMA ConcatIs ==
  ASSUME NEW T, NEW p \in Seq(T), NEW q \in Seq(T)
  PROVE  p \o q \in Seq(T) /\ ToSet(p \o q) = ToSet(p) \cup ToSet(q)
<1> DEFINE r == p \o q
<1>1. /\ Len(p) \in Nat /\ Len(q) \in Nat /\ r \in Seq(T)
      /\ DOMAIN p = 1 .. Len(p) /\ DOMAIN q = 1 .. Len(q) /\ DOMAIN r = 1 .. Len(p) + Len(q)
  OBVIOUS
<1>2. \A i \in 1 .. Len(p) + Len(q) : r[i] = IF i <= Len(p) THEN p[i] ELSE q[i - Len(p)]
  OBVIOUS
<1> HIDE DEF r
<1>3. ASSUME NEW x \in ToSet(r) PROVE x \in ToSet(p) \cup ToSet(q)
  <2>1. PICK i \in 1 .. Len(p) + Len(q) : x = r[i]
    BY <1>1, <1>3 DEF ToSet
  <2>2. CASE i <= Len(p)
    <3>1. i \in 1 .. Len(p) /\ x = p[i]
      BY <1>1, <1>2, <2>1, <2>2
    <3> QED
      BY <1>1, <3>1 DEF ToSet
  <2>3. CASE ~(i <= Len(p))
    <3>1. i - Len(p) \in 1 .. Len(q) /\ x = q[i - Len(p)]
      BY <1>1, <1>2, <2>1, <2>3
    <3> QED
      BY <1>1, <3>1 DEF ToSet
  <2> QED
    BY <2>2, <2>3
<1>4. ASSUME NEW x \in ToSet(p) PROVE x \in ToSet(r)
  <2>1. PICK i \in 1 .. Len(p) : x = p[i]
    BY <1>1, <1>4 DEF ToSet
  <2>2. i \in 1 .. Len(p) + Len(q) /\ i <= Len(p)
    BY <1>1
  <2>3. x = r[i]
    BY <1>2, <2>1, <2>2
  <2> QED
    BY <1>1, <2>2, <2>3 DEF ToSet
<1>5. ASSUME NEW x \in ToSet(q) PROVE x \in ToSet(r)
  <2>1. PICK i \in 1 .. Len(q) : x = q[i]
    BY <1>1, <1>5 DEF ToSet
  <2> DEFINE j == i + Len(p)
  <2>2. j \in 1 .. Len(p) + Len(q) /\ ~(j <= Len(p)) /\ j - Len(p) = i
    BY <1>1
  <2>3. r[j] = q[j - Len(p)]
    BY <1>2, <2>2
  <2>4. x = r[j]
    BY <2>1, <2>2, <2>3
  <2> HIDE DEF j
  <2> QED
    BY <1>1, <2>2, <2>4 DEF ToSet
<1> QED
  BY <1>1, <1>3, <1>4, <1>5 DEF r

\* What flattening a sequence of sequences gives.
LEMMA FlattenIs ==
  ASSUME NEW T, NEW seqs \in Seq(Seq(T))
  PROVE  /\ FlattenSeq(seqs) \in Seq(T)
         /\ ToSet(FlattenSeq(seqs)) = UNION {ToSet(seqs[k]) : k \in DOMAIN seqs}
<1> DEFINE L == Len(seqs)
           Flat(f) == f = [i \in 1 .. L |-> IF i = 1 THEN seqs[i] ELSE f[i - 1] \o seqs[i]]
           flat == CHOOSE f : Flat(f)
<1>1. L \in Nat /\ DOMAIN seqs = 1 .. L /\ \A k \in 1 .. L : seqs[k] \in Seq(T)
  OBVIOUS
<1>2. CASE L = 0
  <2>1. seqs = <<>> /\ FlattenSeq(seqs) = <<>>
    BY <1>2 DEF FlattenSeq
  <2>2. ToSet(<<>>) = {} /\ <<>> \in Seq(T) /\ DOMAIN <<>> = {}
    BY DEF ToSet
  <2> QED
    BY <2>1, <2>2
<1>3. CASE L # 0
  <2>0. FlattenSeq(seqs) = flat[L]
    BY <1>3 DEF FlattenSeq
  <2> HIDE DEF L
  <2>1. \E f : Flat(f)
    <3> DEFINE step == [k \in Nat |-> [w \in Seq(T) |-> IF k \in 1 .. L THEN w \o seqs[k] ELSE w]]
    <3>1. step \in [Nat -> [Seq(T) -> Seq(T)]] /\ <<>> \in Seq(T)
      BY <1>1, ConcatIs
    <3>2. PICK f : Computes(f, Seq(T), <<>>, step, L)
      <4>1. Steps(Seq(T), <<>>, step, L)
        BY <3>1, <1>1 DEF Steps
      <4> QED
        BY <4>1, Recursion
    <3>3. f[0] = <<>> /\ f \in [0 .. L -> Seq(T)]
      BY <3>2 DEF Computes
    <3>4. ASSUME NEW k \in 1 .. L PROVE f[k] = f[k - 1] \o seqs[k]
      <4>1. k \in Nat /\ k - 1 \in 0 .. L
        BY <1>1
      <4>2. f[k - 1] \in Seq(T) /\ f[k] = step[k][f[k - 1]]
        BY <3>2, <4>1 DEF Computes
      <4> QED
        BY <4>1, <4>2
    <3> DEFINE g == [i \in 1 .. L |-> f[i]]
    <3>5. ASSUME NEW i \in 1 .. L PROVE f[i] = IF i = 1 THEN seqs[i] ELSE g[i - 1] \o seqs[i]
      <4>1. CASE i = 1
        <5>1. i - 1 = 0
          BY <4>1
        <5>2. f[i] = <<>> \o seqs[i]
          <6>1. f[i] = f[i - 1] \o seqs[i]
            BY <3>4, Zenon
          <6> QED
            BY <3>3, <5>1, <6>1, Zenon
        <5>3. seqs[i] \in Seq(T)
          BY <1>1
        <5>4. f[i] = seqs[i]
          BY <5>2, <5>3
        <5> QED
          BY <5>4, <4>1
      <4>2. CASE i # 1
        <5>1. i - 1 \in 1 .. L
          BY <1>1, <4>2
        <5> QED
          BY <3>4, <5>1, <4>2
      <4> QED
        BY <4>1, <4>2
    <3>6. Flat(g)
      BY <3>5
    <3> QED
      BY <3>6
  <2>2. Flat(flat)
    BY <2>1
  <2> HIDE DEF flat
  <2>3. \A i \in 1 .. L : flat[i] = IF i = 1 THEN seqs[i] ELSE flat[i - 1] \o seqs[i]
    BY <2>2
  <2> HIDE DEF Flat
  <2> DEFINE K == {k \in Nat : /\ flat[k] \in Seq(T)
                               /\ ToSet(flat[k]) = UNION {ToSet(seqs[j]) : j \in 1 .. k}}
  <2>4. 1 \in K
    <3>1. 1 \in 1 .. L
      BY <1>1, <1>3
    <3>2. flat[1] = seqs[1] /\ seqs[1] \in Seq(T)
      BY <2>3, <3>1, <1>1
    <3>3. {ToSet(seqs[j]) : j \in 1 .. 1} = {ToSet(seqs[1])}
      <4>1. 1 .. 1 = {1}
        OBVIOUS
      <4> QED
        BY <4>1
    <3> QED
      BY <3>2, <3>3
  <2>5. ASSUME NEW k \in 1 .. L, k \in K, k # L PROVE k + 1 \in K
    <3>0. k \in 1 .. L /\ k # L
      BY <2>5
    <3>1. k + 1 \in 1 .. L /\ k + 1 # 1 /\ k + 1 - 1 = k /\ k + 1 \in Nat
      BY <1>1, <3>0
    <3>2. flat[k + 1] = flat[k] \o seqs[k + 1] /\ seqs[k + 1] \in Seq(T)
      <4> DEFINE i == k + 1
      <4>1. i \in 1 .. L /\ i # 1 /\ i - 1 = k
        BY <3>1
      <4> HIDE DEF i
      <4>2. flat[i] = flat[i - 1] \o seqs[i]
        BY <2>3, <4>1, Zenon
      <4>3. seqs[i] \in Seq(T)
        BY <1>1, <4>1
      <4>4. flat[i] = flat[k] \o seqs[i]
        BY <4>1, <4>2, Zenon
      <4> QED
        BY <4>3, <4>4 DEF i
    <3>3. flat[k] \in Seq(T) /\ ToSet(flat[k]) = UNION {ToSet(seqs[j]) : j \in 1 .. k}
      BY <2>5
    <3>4. flat[k + 1] \in Seq(T) /\ ToSet(flat[k + 1]) = ToSet(flat[k]) \cup ToSet(seqs[k + 1])
      BY <3>2, <3>3, ConcatIs
    <3>5. \A j : j \in 1 .. k + 1 <=> j \in 1 .. k \/ j = k + 1
      BY <1>1, <3>0
    <3>6. UNION {ToSet(seqs[j]) : j \in 1 .. k + 1}
            = (UNION {ToSet(seqs[j]) : j \in 1 .. k}) \cup ToSet(seqs[k + 1])
      BY <3>5, Zenon
    <3>7. ToSet(flat[k + 1]) = UNION {ToSet(seqs[j]) : j \in 1 .. k + 1}
      BY <3>3, <3>4, <3>6, Zenon
    <3> QED
      BY <3>1, <3>4, <3>7
  <2>6. L \in K
    <3>1. 1 .. L \subseteq K
      <4> HIDE DEF K
      <4>1. 1 \in Nat
        OBVIOUS
      <4> QED
        BY <1>1, <2>4, <2>5, <4>1, Induction
    <3>2. L \in 1 .. L
      BY <1>1, <1>3
    <3> HIDE DEF K
    <3> QED
      BY <3>1, <3>2
  <2> QED
    BY <2>0, <2>6, <1>1
<1> QED
  BY <1>2, <1>3

\* What InOrder contains.
LEMMA InOrderIs ==
  ASSUME NEW d \in Document, NEW S
  PROVE  InOrder(d, S) \in Seq(NodesOf(d)) /\ ToSet(InOrder(d, S)) = NodesOf(d) \cap S
<1> DEFINE s == [n \in NodesOf(d) |-> n]
<1>1. s \in Seq(NodesOf(d))
  BY Nodes
<1>2. ToSet(s) = NodesOf(d)
  BY DEF ToSet
<1> QED
  BY <1>1, <1>2, AmongIs DEF InOrder

-----------------------------------------------------------------------------
(* The tree above a node.                                                  *)

\* An index is a set of nodes of the document.
IsTree(d, t) == t.ids \subseteq NodesOf(d) /\ t.roots \in Seq(NodesOf(d))

\* The chain of a node goes up in the tree.
LEMMA ChainIs ==
  ASSUME NEW d \in Document, NEW t, t.ids \subseteq NodesOf(d), NEW n \in NodesOf(d)
  PROVE  LET up == Chain(d, t)
         IN /\ n \in up[n]
            /\ up[n] = {n} \/ (d.parent[n] \in t.ids /\ up[n] = {n} \cup up[d.parent[n]])
            /\ d.parent[n] \in t.ids => up[n] = {n} \cup up[d.parent[n]]
            /\ d.parent[n] \notin t.ids => up[n] = {n}
<1> DEFINE up == Chain(d, t)
<1>1. up = [m \in NodesOf(d) |-> Up(d, t.ids, up, m)]
  BY ChainOf
<1> HIDE DEF up
<1>2. up[n] = Up(d, t.ids, up, n)
  BY <1>1
<1> QED
  BY <1>2 DEF Up, up

\* A property that holds at a node, and at a parent in the tree whenever it holds
\* at a child, holds on the chain.
LEMMA ChainInduction ==
  ASSUME NEW d \in Document, NEW t, t.ids \subseteq NodesOf(d), NEW T,
         \A n \in NodesOf(d) : n \in T /\ d.parent[n] \in t.ids => d.parent[n] \in T
  PROVE  \A n \in NodesOf(d) \cap T : Chain(d, t)[n] \subseteq T
<1> DEFINE F == {n \in NodesOf(d) \cap T : ~(Chain(d, t)[n] \subseteq T)}
<1> SUFFICES ASSUME F # {} PROVE FALSE
  OBVIOUS
<1>1. PICK n \in F : \A m \in F : n <= m
  <2>1. F \subseteq Nat
    BY Nodes
  <2> HIDE DEF F
  <2> QED
    BY <2>1, LeastNumber
<1>2. n \in NodesOf(d) /\ n \in T /\ ~(Chain(d, t)[n] \subseteq T)
  BY <1>1
<1>3. d.parent[n] \in t.ids /\ Chain(d, t)[n] = {n} \cup Chain(d, t)[d.parent[n]]
  BY <1>2, ChainIs
<1>4. d.parent[n] \in NodesOf(d) /\ d.parent[n] \in T /\ ~(n <= d.parent[n])
  <2>1. d.parent[n] \in 0 .. n - 1 /\ n \in Nat
    BY <1>2, Nodes
  <2>2. ~(n <= d.parent[n])
    BY <2>1
  <2> QED
    BY <1>2, <1>3, <2>2
<1>5. Chain(d, t)[d.parent[n]] \subseteq T
  BY <1>1, <1>4
<1> QED
  BY <1>2, <1>3, <1>5

\* A chain contains the chains of its nodes, and stays in the tree.
LEMMA ChainsNest ==
  ASSUME NEW d \in Document, NEW t, t.ids \subseteq NodesOf(d)
  PROVE  /\ \A n \in NodesOf(d) : Chain(d, t)[n] \subseteq t.ids \cup {n}
         /\ \A n \in NodesOf(d) : \A m \in Chain(d, t)[n] : Chain(d, t)[m] \subseteq Chain(d, t)[n]
<1>1. ASSUME NEW n \in NodesOf(d)
      PROVE  Chain(d, t)[n] \subseteq t.ids \cup {n}
  <2> DEFINE T == t.ids \cup {n}
  <2>1. \A m \in NodesOf(d) : m \in T /\ d.parent[m] \in t.ids => d.parent[m] \in T
    OBVIOUS
  <2>2. n \in NodesOf(d) \cap T
    OBVIOUS
  <2> HIDE DEF T
  <2>3. Chain(d, t)[n] \subseteq T
    BY <2>1, <2>2, ChainInduction
  <2> QED
    BY <2>3 DEF T
<1>2. ASSUME NEW n \in NodesOf(d)
      PROVE  \A m \in Chain(d, t)[n] : Chain(d, t)[m] \subseteq Chain(d, t)[n]
  <2> DEFINE T == {m \in NodesOf(d) : Chain(d, t)[m] \subseteq Chain(d, t)[n]}
  <2>1. ASSUME NEW m \in NodesOf(d), m \in T, d.parent[m] \in t.ids
        PROVE  d.parent[m] \in T
    <3>1. Chain(d, t)[d.parent[m]] \subseteq Chain(d, t)[m] /\ d.parent[m] \in NodesOf(d)
      BY <2>1, ChainIs
    <3> QED
      BY <2>1, <3>1
  <2>2. n \in NodesOf(d) \cap T
    OBVIOUS
  <2> HIDE DEF T
  <2>3. Chain(d, t)[n] \subseteq T
    BY <2>1, <2>2, ChainInduction
  <2> QED
    BY <2>3 DEF T
<1> QED
  BY <1>1, <1>2

\* Every chain has a top.
LEMMA TopOf ==
  ASSUME NEW d \in Document, NEW t, t.ids \subseteq NodesOf(d), NEW n \in t.ids
  PROVE  \E r \in Chain(d, t)[n] \cap t.ids : d.parent[r] \notin t.ids
<1> DEFINE F == Chain(d, t)[n]
<1>1. n \in F /\ F \subseteq t.ids
  BY ChainIs, ChainsNest
<1>2. PICK r \in F : \A m \in F : r <= m
  <2>1. F \subseteq Nat
    BY <1>1, Nodes
  <2> HIDE DEF F
  <2> QED
    BY <1>1, <2>1, LeastNumber
<1>3. ASSUME d.parent[r] \in t.ids PROVE FALSE
  <2>1. d.parent[r] \in Chain(d, t)[r]
    BY <1>1, <1>2, <1>3, ChainIs
  <2>2. d.parent[r] \in F
    BY <1>1, <1>2, <2>1, ChainsNest
  <2>3. r <= d.parent[r]
    BY <1>2, <2>2
  <2>4. d.parent[r] \in 0 .. r - 1 /\ r \in Nat
    BY <1>1, <1>2, Nodes
  <2> QED
    BY <2>3, <2>4
<1> QED
  BY <1>1, <1>2, <1>3

\* What a walk without a limit of depth visits.
LEMMA WalkIs ==
  ASSUME NEW d \in Document, NEW t, IsTree(d, t), NEW nodes
  PROVE  ToSet(Walk(d, t, 0, nodes))
           = {n \in t.ids \cap nodes : ToSet(t.roots) \cap Chain(d, t)[n] # {}}
<1> DEFINE up == Chain(d, t)
           below(r) == {n \in t.ids : r \in up[n]}
           seqs == [k \in DOMAIN t.roots |-> InOrder(d, below(t.roots[k]) \cap nodes)]
<1>1. Walk(d, t, 0, nodes) = FlattenSeq(seqs)
  BY DEF Walk
<1>2. t.ids \subseteq NodesOf(d) /\ t.roots \in Seq(NodesOf(d))
  BY DEF IsTree
<1>3. \A k \in DOMAIN t.roots : /\ InOrder(d, below(t.roots[k]) \cap nodes) \in Seq(NodesOf(d))
                                /\ ToSet(InOrder(d, below(t.roots[k]) \cap nodes))
                                     = below(t.roots[k]) \cap nodes
  BY <1>2, InOrderIs
<1>4. seqs \in Seq(Seq(NodesOf(d))) /\ DOMAIN seqs = DOMAIN t.roots
  <2>1. DOMAIN t.roots = 1 .. Len(t.roots) /\ Len(t.roots) \in Nat
    BY <1>2
  <2>2. seqs \in [1 .. Len(t.roots) -> Seq(NodesOf(d))]
    BY <1>3, <2>1
  <2>3. \A k \in Nat : [1 .. k -> Seq(NodesOf(d))] \subseteq Seq(Seq(NodesOf(d)))
    OBVIOUS
  <2> QED
    BY <2>1, <2>2, <2>3
<1>5. \A k \in DOMAIN t.roots : ToSet(seqs[k]) = below(t.roots[k]) \cap nodes
  BY <1>3
<1> HIDE DEF seqs
<1>6. ToSet(FlattenSeq(seqs)) = UNION {ToSet(seqs[k]) : k \in DOMAIN seqs}
  BY <1>4, FlattenIs
<1>7. \A n : n \in ToSet(FlattenSeq(seqs))
               <=> \E k \in DOMAIN t.roots : n \in below(t.roots[k]) \cap nodes
  BY <1>4, <1>5, <1>6
<1>8. \A n : n \in ToSet(FlattenSeq(seqs))
               <=> n \in t.ids \cap nodes /\ \E k \in DOMAIN t.roots : t.roots[k] \in up[n]
  BY <1>7
<1>9. ToSet(t.roots) = {t.roots[k] : k \in DOMAIN t.roots}
  BY DEF ToSet
<1>10. \A n : n \in ToSet(FlattenSeq(seqs))
                <=> n \in t.ids \cap nodes /\ ToSet(t.roots) \cap up[n] # {}
  BY <1>8, <1>9
<1> QED
  BY <1>1, <1>10

\* Chains depend on the nodes of a tree, not on its roots.
LEMMA SameChains ==
  ASSUME NEW d, NEW t, NEW u, t.ids = u.ids
  PROVE  Chain(d, t) = Chain(d, u)
BY DEF Chain

\* A finite set has the elements of any order of its elements.
LEMMA PermutationIs ==
  ASSUME NEW S, IsFiniteSet(S), NEW rs \in SetToSeqs(S)
  PROVE  rs \in Seq(S) /\ ToSet(rs) = S
<1> DEFINE N == Cardinality(S)
<1>1. N \in Nat /\ rs \in [1 .. N -> S] /\ \A i, j \in 1 .. N : i # j => rs[i] # rs[j]
  BY FS_CardinalityType DEF SetToSeqs
<1> HIDE DEF N
<1>2. rs \in Injection(1 .. N, S)
  BY <1>1 DEF Injection, IsInjective
<1>3. IsFiniteSet(1 .. N) /\ Cardinality(1 .. N) = N
  BY <1>1, FS_Interval
<1>4. rs \in Surjection(1 .. N, S)
  BY <1>2, <1>3, FS_Injection DEF N
<1>5. \A x \in S : \E i \in 1 .. N : rs[i] = x
  BY <1>4 DEF Surjection
<1>6. DOMAIN rs = 1 .. N /\ \A i \in 1 .. N : rs[i] \in S
  BY <1>1
<1> QED
  BY <1>1, <1>5, <1>6 DEF ToSet

-----------------------------------------------------------------------------
(* Rooted trees: what filters keep and walks visit.                        *)

\* The nodes of a tree without a parent in it.
TopsOf(d, ids) == {n \in ids : d.parent[n] \notin ids}

\* A tree with all its tops among its roots.
Rooted(d, t) == IsTree(d, t) /\ TopsOf(d, t.ids) \subseteq ToSet(t.roots)

\* A walk visits all of it.
LEMMA RootedWalk ==
  ASSUME NEW d \in Document, NEW t, Rooted(d, t), NEW nodes
  PROVE  ToSet(Walk(d, t, 0, nodes)) = t.ids \cap nodes
<1>1. IsTree(d, t) /\ t.ids \subseteq NodesOf(d) /\ TopsOf(d, t.ids) \subseteq ToSet(t.roots)
  BY DEF Rooted, IsTree
<1>2. ASSUME NEW n \in t.ids PROVE ToSet(t.roots) \cap Chain(d, t)[n] # {}
  <2>1. PICK r \in Chain(d, t)[n] \cap t.ids : d.parent[r] \notin t.ids
    BY <1>1, TopOf
  <2> QED
    BY <1>1, <2>1 DEF TopsOf
<1> QED
  BY <1>1, <1>2, WalkIs

\* What a filtered tree is.
LEMMA FilteredIs ==
  ASSUME NEW d \in Document, NEW t, IsTree(d, t), NEW keep, keep \subseteq NodesOf(d),
         NEW u \in buildFilteredIndex(d, t, keep)
  PROVE  /\ IsTree(d, u) /\ u.ids = keep
         /\ ToSet(u.roots) = IF ToSet(t.roots) \cap keep # {} THEN ToSet(t.roots) \cap keep
                             ELSE TopsOf(d, keep)
<1> DEFINE rs == Among(t.roots, keep)
           fallback == TopsOf(d, keep)
<1>1. rs \in Seq(NodesOf(d)) /\ ToSet(rs) = ToSet(t.roots) \cap keep
  BY AmongIs DEF IsTree
<1>2. u.ids = keep /\ u.roots \in IF rs # <<>> THEN {rs} ELSE SetToSeqs(fallback)
  <2> DEFINE orders == IF rs # <<>> THEN {rs} ELSE SetToSeqs(fallback)
  <2>1. u \in {[ids |-> keep, roots |-> order] : order \in orders}
    BY Zenon DEF buildFilteredIndex, TopsOf
  <2> HIDE DEF orders
  <2>2. u.ids = keep /\ u.roots \in orders
    BY <2>1
  <2> QED
    BY <2>2 DEF orders
<1> HIDE DEF rs, fallback
<1>3. CASE rs # <<>>
  <2>1. ToSet(rs) # {}
    <3>1. Len(rs) \in Nat /\ Len(rs) # 0 /\ DOMAIN rs = 1 .. Len(rs)
      BY <1>1, <1>3
    <3>2. 1 \in DOMAIN rs
      BY <3>1
    <3> QED
      BY <3>2 DEF ToSet
  <2> QED
    BY <1>1, <1>2, <1>3, <2>1 DEF IsTree
<1>4. CASE rs = <<>>
  <2>1. ToSet(t.roots) \cap keep = {}
    BY <1>1, <1>4 DEF ToSet
  <2>2. IsFiniteSet(fallback) /\ fallback \subseteq NodesOf(d)
    <3>1. IsFiniteSet(NodesOf(d)) /\ fallback \subseteq NodesOf(d)
      BY Nodes, FS_Interval DEF fallback, TopsOf
    <3> QED
      BY <3>1, FS_Subset
  <2>3. u.roots \in Seq(fallback) /\ ToSet(u.roots) = fallback
    BY <1>2, <1>4, <2>2, PermutationIs
  <2>4. u.roots \in Seq(NodesOf(d))
    BY <2>2, <2>3
  <2> QED
    BY <1>2, <2>1, <2>3, <2>4 DEF IsTree, fallback
<1> QED
  BY <1>3, <1>4

\* Filtering keeps a tree rooted if no root is kept, or with every node its
\* parent: a kept root hides only what is below nodes that are not kept.
LEMMA FilteredRooted ==
  ASSUME NEW d \in Document, NEW t, Rooted(d, t), NEW keep, keep \subseteq t.ids,
         \/ ToSet(t.roots) \cap keep = {}
         \/ \A n \in keep : d.parent[n] \in t.ids => d.parent[n] \in keep,
         NEW u \in buildFilteredIndex(d, t, keep)
  PROVE  Rooted(d, u) /\ u.ids = keep
<1>1. IsTree(d, t) /\ keep \subseteq NodesOf(d) /\ TopsOf(d, t.ids) \subseteq ToSet(t.roots)
  BY DEF Rooted, IsTree
<1>2. /\ IsTree(d, u) /\ u.ids = keep
      /\ ToSet(u.roots) = IF ToSet(t.roots) \cap keep # {} THEN ToSet(t.roots) \cap keep
                          ELSE TopsOf(d, keep)
  BY <1>1, FilteredIs
<1>3. ToSet(t.roots) \cap keep = {} \/ TopsOf(d, keep) \subseteq ToSet(t.roots) \cap keep
  BY <1>1 DEF TopsOf
<1>4. TopsOf(d, keep) \subseteq ToSet(u.roots)
  BY <1>2, <1>3
<1> QED
  BY <1>2, <1>4 DEF Rooted

\* The index holds the nodes shown, and its roots are those without a parent
\* that is shown.
LEMMA IndexIs ==
  ASSUME NEW d \in Document
  PROVE  LET t == buildAXIndex(d)
         IN Rooted(d, t) /\ t.ids = Shown(d) /\ ToSet(t.roots) = TopsOf(d, Shown(d))
<1> DEFINE present == NodesOf(d) \ d.ignored
           tops == {n \in Shown(d) : d.parent[n] \notin present}
<1>1. Shown(d) \subseteq present /\ present \subseteq NodesOf(d)
  BY DEF Shown
<1>2. buildAXIndex(d) = [ids |-> Shown(d), roots |-> InOrder(d, tops)]
  BY DEF buildAXIndex, Shown
<1>3. tops = TopsOf(d, Shown(d))
  <2>1. ASSUME NEW n \in Shown(d), d.parent[n] \in present
        PROVE  d.parent[n] \in Shown(d)
    <3>1. n \in NodesOf(d) /\ ~isNoiseRole(d.role[n]) /\ d.parent[n] \in NodesOf(d)
      BY <2>1, <1>1 DEF Shown
    <3>2. d.parent[n] # 0
      BY <3>1, Nodes
    <3>3. ~isNoiseRole(d.role[d.parent[n]])
      BY <3>1, <3>2 DEF Document
    <3> QED
      BY <2>1, <3>3 DEF Shown
  <2> QED
    BY <1>1, <2>1 DEF TopsOf
<1>4. InOrder(d, tops) \in Seq(NodesOf(d)) /\ ToSet(InOrder(d, tops)) = tops
  <2>1. tops \subseteq NodesOf(d)
    BY <1>1
  <2> HIDE DEF tops
  <2> QED
    BY <2>1, InOrderIs
<1> HIDE DEF tops
<1> QED
  BY <1>1, <1>2, <1>3, <1>4 DEF Rooted, IsTree

\* The lines of a rooted tree.
LEMMA RootedLines ==
  ASSUME NEW d \in Document, NEW t, Rooted(d, t)
  PROVE  ToSet(renderYAML(d, t, 0).lines) = {n \in t.ids : ~Empty(d, n)}
<1>1. renderYAML(d, t, 0).lines = Walk(d, t, 0, {n \in t.ids : ~Empty(d, n)})
  BY DEF renderYAML
<1>2. t.ids \cap {n \in t.ids : ~Empty(d, n)} = {n \in t.ids : ~Empty(d, n)}
  OBVIOUS
<1> QED
  BY <1>1, <1>2, RootedWalk

\* Marking with ancestors marks nodes of the tree, and parents with their children.
LEMMA AncestorsMarked ==
  ASSUME NEW d \in Document, NEW t, t.ids \subseteq NodesOf(d), NEW S, S \subseteq t.ids
  PROVE  LET keep == markWithAncestors(d, t, S)
         IN /\ S \subseteq keep /\ keep \subseteq t.ids
            /\ \A n \in keep : d.parent[n] \in t.ids => d.parent[n] \in keep
<1> DEFINE keep == markWithAncestors(d, t, S)
<1>1. \A n : n \in keep <=> \E m \in S : n \in Chain(d, t)[m]
  BY DEF markWithAncestors
<1> HIDE DEF keep
<1>2. S \subseteq keep
  BY <1>1, ChainIs
<1>3. keep \subseteq t.ids
  BY <1>1, ChainsNest
<1>4. ASSUME NEW n \in keep, d.parent[n] \in t.ids PROVE d.parent[n] \in keep
  <2>1. PICK m \in S : n \in Chain(d, t)[m]
    BY <1>1
  <2>2. d.parent[n] \in NodesOf(d) /\ n \in NodesOf(d)
    BY <1>3, <1>4
  <2>3. d.parent[n] \in Chain(d, t)[d.parent[n]] /\ Chain(d, t)[d.parent[n]] \subseteq Chain(d, t)[n]
    BY <2>2, <1>4, ChainIs
  <2>4. d.parent[n] \in Chain(d, t)[m]
    BY <2>1, <2>3, ChainsNest
  <2> QED
    BY <1>1, <2>4
<1> QED
  BY <1>2, <1>3, <1>4 DEF keep

\* Marking subtrees marks children with their parents.
LEMMA SubtreesMarked ==
  ASSUME NEW d \in Document, NEW t, t.ids \subseteq NodesOf(d), NEW S,
         NEW n \in t.ids, d.parent[n] \in t.ids, d.parent[n] \in markSubtree(d, t, S)
  PROVE  n \in markSubtree(d, t, S)
<1>1. Chain(d, t)[d.parent[n]] \cap S # {}
  BY DEF markSubtree
<1>2. Chain(d, t)[d.parent[n]] \subseteq Chain(d, t)[n]
  BY ChainIs
<1> QED
  BY <1>1, <1>2 DEF markSubtree

\* The chain in a part of a tree is part of the chain.
LEMMA ChainShrinks ==
  ASSUME NEW d \in Document, NEW t, t.ids \subseteq NodesOf(d), NEW u, u.ids \subseteq t.ids,
         NEW n \in NodesOf(d)
  PROVE  Chain(d, u)[n] \subseteq Chain(d, t)[n]
<1> DEFINE T == Chain(d, t)[n]
<1>1. n \in T
  BY ChainIs
<1>2. ASSUME NEW m \in NodesOf(d), m \in T, d.parent[m] \in u.ids
      PROVE  d.parent[m] \in T
  <2>1. d.parent[m] \in Chain(d, t)[d.parent[m]] /\ d.parent[m] \in NodesOf(d)
    BY <1>2, ChainIs
  <2>2. d.parent[m] \in Chain(d, t)[m]
    BY <1>2, <2>1, ChainIs
  <2> QED
    BY <1>2, <2>2, ChainsNest
<1> HIDE DEF T
<1>3. u.ids \subseteq NodesOf(d) /\ n \in NodesOf(d) \cap T
  BY <1>1
<1>4. Chain(d, u)[n] \subseteq T
  BY <1>2, <1>3, ChainInduction
<1> QED
  BY <1>4 DEF T

\* In a part with the children of its nodes the chains from these nodes are whole.
LEMMA ChainKept ==
  ASSUME NEW d \in Document, NEW t, t.ids \subseteq NodesOf(d), NEW u, u.ids \subseteq t.ids,
         \A m \in t.ids : d.parent[m] \in u.ids => m \in u.ids,
         NEW r \in u.ids
  PROVE  \A n \in t.ids : r \in Chain(d, t)[n] => n \in u.ids /\ r \in Chain(d, u)[n]
<1> DEFINE F == {n \in t.ids : r \in Chain(d, t)[n] /\ ~(n \in u.ids /\ r \in Chain(d, u)[n])}
<1> SUFFICES ASSUME F # {} PROVE FALSE
  OBVIOUS
<1>1. PICK n \in F : \A m \in F : n <= m
  <2>1. F \subseteq Nat
    BY Nodes
  <2> HIDE DEF F
  <2> QED
    BY <2>1, LeastNumber
<1>2. n \in t.ids /\ r \in Chain(d, t)[n] /\ ~(n \in u.ids /\ r \in Chain(d, u)[n])
  BY <1>1
<1>3. n # r
  BY <1>2, ChainIs
<1> DEFINE p == d.parent[n]
<1>4. p \in t.ids /\ r \in Chain(d, t)[p]
  BY <1>2, <1>3, ChainIs
<1>5. p \in u.ids /\ r \in Chain(d, u)[p]
  <2>1. p \in 0 .. n - 1 /\ n \in Nat
    BY <1>2, Nodes
  <2>2. ~(n <= p)
    BY <2>1
  <2>3. p \notin F
    BY <1>1, <2>2
  <2> QED
    BY <1>4, <2>3
<1>6. n \in u.ids
  BY <1>2, <1>5
<1>7. Chain(d, u)[n] = {n} \cup Chain(d, u)[p]
  BY <1>2, <1>5, ChainIs
<1> QED
  BY <1>2, <1>5, <1>6, <1>7

-----------------------------------------------------------------------------
(* What a snapshot prints.                                                 *)

\* The options a request may have.
OptionsRecord ==
  [filter : STRING, level : STRING, depth : Nat, format : STRING \cup {"yaml"},
   selector : BOOLEAN]

\* The filter that is applied is the one asked for, the filter before the level.
LEMMA EffectiveIs ==
  ASSUME NEW o \in OptionsRecord
  PROVE  effectiveFilter(o) = AskedFor(o)
  BY DEF effectiveFilter, AskedFor

\* The lines of a snapshot come from one of the trees its filter makes.
LEMMA SnapshotIs ==
  ASSUME NEW d, NEW o \in OptionsRecord, ~o.selector, o.format = "yaml", NEW urls \in BOOLEAN,
         o.depth = 0 \/ AskedFor(o) = "dialog",
         NEW out \in doSnapshotWithLevel(d, o, urls)
  PROVE  \E t \in IF AskedFor(o) = "__content__" THEN applyContentLevelFilter(d, buildAXIndex(d))
                  ELSE filterAXTree(d, buildAXIndex(d), AskedFor(o), FALSE, urls) :
           out.lines = renderYAML(d, t, 0).lines
<1> DEFINE filter == AskedFor(o)
           maxDepth == IF filter = "dialog" THEN 0 ELSE o.depth
           index == buildAXIndex(d)
           content == UNION {{t} : t \in applyContentLevelFilter(d, index)}
           trees == IF filter = "__content__" THEN content
                    ELSE filterAXTree(d, index, filter, FALSE, urls)
<1>1. out \in {renderYAML(d, t, maxDepth) : t \in trees}
  <2> DEFINE all ==
               IF filter = "__content__"
               THEN UNION {IF o.selector THEN buildFilteredIndex(d, t, Narrow(d, t.ids, TRUE, urls))
                           ELSE {t} : t \in applyContentLevelFilter(d, index)}
               ELSE filterAXTree(d, index, filter, o.selector, urls /\ ~(o.format = "text"))
  <2>1. effectiveFilter(o) = filter
    BY EffectiveIs
  <2>2. out \in {IF o.format = "text" THEN renderText(d, t, maxDepth) ELSE renderYAML(d, t, maxDepth) :
                   t \in all}
    BY <2>1 DEF doSnapshotWithLevel
  <2>3. o.selector = FALSE /\ (urls /\ ~(o.format = "text")) = urls /\ o.format # "text"
    BY DEF OptionsRecord
  <2>4. all = trees
    BY <2>3
  <2> HIDE DEF all, trees, maxDepth
  <2> QED
    BY <2>2, <2>3, <2>4
<1>2. maxDepth = 0
  OBVIOUS
<1>3. content = applyContentLevelFilter(d, index)
  OBVIOUS
<1> HIDE DEF content, maxDepth
<1>4. PICK t \in trees : out = renderYAML(d, t, 0)
  BY <1>1, <1>2
<1> QED
  BY <1>3, <1>4

\* The filters for agents keep every interactive element.
LEMMA InteractivePrinted ==
  ASSUME NEW d \in Document, NEW o \in OptionsRecord, ~o.selector, o.format = "yaml", o.depth = 0,
         AskedFor(o) \in {"", "interactive", "__content__"}, NEW urls \in BOOLEAN,
         NEW out \in doSnapshotWithLevel(d, o, urls)
  PROVE  {n \in Shown(d) : d.role[n] \in interactiveRoles} \subseteq ToSet(out.lines)
<1> DEFINE index == buildAXIndex(d)
           wanted == {n \in Shown(d) : d.role[n] \in interactiveRoles}
<1>1. Rooted(d, index) /\ index.ids = Shown(d) /\ index.ids \subseteq NodesOf(d)
  BY IndexIs DEF Rooted, IsTree
<1> HIDE DEF index
<1>2. PICK t \in IF AskedFor(o) = "__content__" THEN applyContentLevelFilter(d, index)
                 ELSE filterAXTree(d, index, AskedFor(o), FALSE, urls) :
        out.lines = renderYAML(d, t, 0).lines
  BY SnapshotIs DEF index
<1>3. ASSUME NEW roles, interactiveRoles \subseteq roles,
             t \in buildFilteredIndex(d, index, markWithAncestors(d, index, OfRole(d, index, roles)))
      PROVE  Rooted(d, t) /\ wanted \subseteq t.ids
  <2> DEFINE S == OfRole(d, index, roles)
             keep == markWithAncestors(d, index, S)
  <2>1. S \subseteq index.ids /\ wanted \subseteq S
    BY <1>1, <1>3 DEF OfRole
  <2>2. t \in buildFilteredIndex(d, index, keep)
    BY <1>3
  <2> HIDE DEF S
  <2>3. /\ S \subseteq keep /\ keep \subseteq index.ids
        /\ \A n \in keep : d.parent[n] \in index.ids => d.parent[n] \in keep
    BY <1>1, <2>1, AncestorsMarked
  <2> HIDE DEF keep
  <2>4. Rooted(d, t) /\ t.ids = keep
    BY <1>1, <2>2, <2>3, FilteredRooted
  <2> QED
    BY <2>1, <2>3, <2>4
<1>4. Rooted(d, t) /\ wanted \subseteq t.ids
  <2>1. CASE AskedFor(o) = ""
    <3>1. t = index
      BY <1>2, <2>1 DEF filterAXTree
    <3> QED
      BY <1>1, <3>1
  <2>2. CASE AskedFor(o) = "interactive"
    <3>1. t \in buildFilteredIndex(d, index,
                  markWithAncestors(d, index, OfRole(d, index, filterableRoles)))
      BY <1>2, <2>2 DEF filterAXTree, KeptBy, Narrow
    <3> QED
      BY <1>3, <3>1 DEF filterableRoles
  <2>3. CASE AskedFor(o) = "__content__"
    <3>1. t \in buildFilteredIndex(d, index,
                  markWithAncestors(d, index, OfRole(d, index, skeletonRoles \cup contentRoles)))
      BY <1>2, <2>3 DEF applyContentLevelFilter
    <3> QED
      BY <1>3, <3>1 DEF skeletonRoles
  <2> QED
    BY <2>1, <2>2, <2>3
<1>5. \A n \in wanted : ~Empty(d, n)
  BY DEF Empty, interactiveRoles
<1> QED
  BY <1>2, <1>4, <1>5, RootedLines

\* The nodes inside a role are those a filter by subtree marks.
LEMMA InsideIs ==
  ASSUME NEW d \in Document, NEW t, t.ids = Shown(d), NEW roles
  PROVE  markSubtree(d, t, OfRole(d, t, roles)) = Inside(d, roles)
<1> DEFINE up == Chain(d, t)
<1>1. Chain(d, [ids |-> Shown(d)]) = up
  BY SameChains
<1>2. t.ids \subseteq NodesOf(d)
  BY DEF Shown
<1>3. \A n \in t.ids : up[n] \subseteq t.ids
  BY <1>2, ChainsNest
<1> HIDE DEF up
<1>4. markSubtree(d, t, OfRole(d, t, roles))
        = {n \in t.ids : up[n] \cap {m \in t.ids : d.role[m] \in roles} # {}}
  BY DEF markSubtree, OfRole, up
<1>5. Inside(d, roles) = {n \in t.ids : \E a \in up[n] : d.role[a] \in roles}
  BY <1>1 DEF Inside
<1> QED
  BY <1>3, <1>4, <1>5

\* Nodes below roots of a role are those whose chain in the index meets one.
LEMMA InsideRootsIs ==
  ASSUME NEW d \in Document, NEW roles
  PROVE  LET index == buildAXIndex(d)
             heads == {r \in ToSet(index.roots) : d.role[r] \in roles}
         IN /\ heads \subseteq Shown(d)
            /\ heads = ToSet(index.roots) \cap Inside(d, roles)
            /\ InsideRoots(d, roles) = {n \in Shown(d) : heads \cap Chain(d, index)[n] # {}}
<1> DEFINE index == buildAXIndex(d)
           up == Chain(d, index)
           heads == {r \in ToSet(index.roots) : d.role[r] \in roles}
<1>1. /\ index.ids = Shown(d) /\ Shown(d) \subseteq NodesOf(d)
      /\ ToSet(index.roots) = {r \in Shown(d) : d.parent[r] \notin Shown(d)}
  BY IndexIs DEF TopsOf, Shown
<1>2. Chain(d, [ids |-> Shown(d)]) = up
  BY <1>1, SameChains
<1>3. \A n \in Shown(d) : up[n] \subseteq Shown(d)
  BY <1>1, ChainsNest
<1>4. \A r \in ToSet(index.roots) : up[r] = {r}
  BY <1>1, ChainIs
<1> HIDE DEF index, up
<1>5. Inside(d, roles) = {n \in Shown(d) : \E a \in up[n] : d.role[a] \in roles}
  BY <1>2 DEF Inside
<1>6. heads = ToSet(index.roots) \cap Inside(d, roles)
  BY <1>1, <1>4, <1>5
<1>7. InsideRoots(d, roles)
        = {n \in Shown(d) : \E a \in up[n] : d.parent[a] \notin Shown(d) /\ d.role[a] \in roles}
  BY <1>2 DEF InsideRoots
<1>8. InsideRoots(d, roles) = {n \in Shown(d) : heads \cap up[n] # {}}
  BY <1>1, <1>3, <1>7
<1> QED
  BY <1>1, <1>6, <1>8 DEF index, up

\* Roots that are kept are the roots of what is kept.
LEMMA RootsKept ==
  ASSUME NEW d \in Document, NEW t, IsTree(d, t), NEW keep, keep \subseteq NodesOf(d),
         NEW u \in buildFilteredIndex(d, t, keep),
         NEW heads, heads = ToSet(t.roots) \cap keep, heads # {}
  PROVE  IsTree(d, u) /\ u.ids = keep /\ ToSet(u.roots) = heads
  BY FilteredIs

\* The filters by subtree print what is wanted of any document.
LEMMA ScopePrinted ==
  ASSUME NEW d \in Document, NEW o \in OptionsRecord, ~o.selector, o.format = "yaml",
         o.depth = 0 \/ AskedFor(o) = "dialog",
         AskedFor(o) \in {"dialog", "forms", "main", "text"}, NEW urls \in BOOLEAN,
         NEW out \in doSnapshotWithLevel(d, o, urls)
  PROVE  ToSet(out.lines) = {n \in Wanted(d, AskedFor(o)) : ~Empty(d, n)}
<1> DEFINE index == buildAXIndex(d)
           filter == AskedFor(o)
           roles == Scope(filter)
           inside == Inside(d, roles)
           keep == IF filter = "text" THEN Shown(d) \ inside ELSE inside
           heads == {r \in ToSet(index.roots) : d.role[r] \in roles}
<1>1. /\ Rooted(d, index) /\ index.ids = Shown(d) /\ index.ids \subseteq NodesOf(d)
      /\ ToSet(index.roots) = TopsOf(d, index.ids)
  BY IndexIs DEF Rooted, IsTree
<1>2. /\ heads \subseteq Shown(d) /\ heads = ToSet(index.roots) \cap inside
      /\ InsideRoots(d, roles) = {n \in Shown(d) : heads \cap Chain(d, index)[n] # {}}
  BY InsideRootsIs
<1> HIDE DEF index, heads
<1>3. PICK t \in filterAXTree(d, index, filter, FALSE, urls) : out.lines = renderYAML(d, t, 0).lines
  BY SnapshotIs DEF index
<1>4. inside = markSubtree(d, index, OfRole(d, index, roles)) /\ inside \subseteq Shown(d)
  BY <1>1, InsideIs DEF Inside
<1>5. t \in buildFilteredIndex(d, index, keep)
  BY <1>1, <1>3, <1>4 DEF filterAXTree, KeptBy, Narrow, Scope
<1>6. \A n \in index.ids : d.parent[n] \in inside => n \in inside
  BY <1>1, <1>4, SubtreesMarked
<1>7. keep \subseteq index.ids
  BY <1>1, <1>4
<1> HIDE DEF inside
<1>8. ASSUME keep = Wanted(d, filter),
             \/ ToSet(index.roots) \cap keep = {}
             \/ \A n \in keep : d.parent[n] \in index.ids => d.parent[n] \in keep
      PROVE  ToSet(out.lines) = {n \in Wanted(d, filter) : ~Empty(d, n)}
  <2> HIDE DEF keep
  <2>1. Rooted(d, t) /\ t.ids = keep
    BY <1>1, <1>5, <1>7, <1>8, FilteredRooted
  <2> QED
    BY <1>3, <1>8, <2>1, RootedLines
<1>9. CASE filter = "text"
  <2>1. keep = Wanted(d, filter)
    <3>1. keep = Shown(d) \ Inside(d, roles)
      BY <1>9 DEF inside
    <3> HIDE DEF keep
    <3> QED
      BY <1>9, <3>1 DEF Wanted
  <2>2. \A n \in keep : d.parent[n] \in index.ids => d.parent[n] \in keep
    BY <1>1, <1>6, <1>9
  <2> QED
    BY <1>8, <2>1, <2>2
<1>10. CASE filter # "text" /\ InsideRoots(d, roles) = {}
  <2>1. keep = Wanted(d, filter)
    <3>1. keep = Inside(d, roles)
      BY <1>10 DEF inside
    <3> HIDE DEF keep
    <3> QED
      BY <1>10, <3>1 DEF Wanted
  <2>2. ASSUME NEW r \in heads PROVE FALSE
    <3>1. r \in Chain(d, index)[r]
      BY <1>1, <1>2, ChainIs
    <3> QED
      BY <1>2, <1>10, <3>1
  <2>3. ToSet(index.roots) \cap keep = {}
    BY <1>2, <1>10, <2>2
  <2> QED
    BY <1>8, <2>1, <2>3
<1>11. CASE filter # "text" /\ InsideRoots(d, roles) # {}
  <2>1. keep = inside /\ Wanted(d, filter) = InsideRoots(d, roles) /\ heads # {}
    BY <1>2, <1>11 DEF Wanted
  <2>2. IsTree(d, t) /\ t.ids = inside /\ ToSet(t.roots) = heads
    <3>1. IsTree(d, index) /\ inside \subseteq NodesOf(d)
      BY <1>1, <1>7, <2>1 DEF Rooted
    <3>2. t \in buildFilteredIndex(d, index, inside)
      BY <1>5, <2>1
    <3> HIDE DEF keep
    <3>3. heads = ToSet(index.roots) \cap inside /\ heads # {}
      BY <1>2, <2>1
    <3> QED
      BY <3>1, <3>2, <3>3, RootsKept
  <2>3. \A n \in index.ids : \A r \in heads :
          r \in Chain(d, index)[n] => n \in t.ids /\ r \in Chain(d, t)[n]
    <3>1. t.ids \subseteq index.ids /\ \A m \in index.ids : d.parent[m] \in t.ids => m \in t.ids
      BY <1>6, <1>7, <2>1, <2>2
    <3>2. heads \subseteq t.ids
      BY <1>2, <2>2
    <3> QED
      BY <1>1, <3>1, <3>2, ChainKept
  <2>4. \A n \in t.ids : Chain(d, t)[n] \subseteq Chain(d, index)[n]
    BY <1>1, <1>7, <2>1, <2>2, ChainShrinks
  <2>5. {n \in t.ids : heads \cap Chain(d, t)[n] # {}} = InsideRoots(d, roles)
    BY <1>1, <1>2, <1>7, <2>1, <2>2, <2>3, <2>4
  <2>6. ToSet(out.lines)
          = {n \in t.ids \cap {m \in t.ids : ~Empty(d, m)} : ToSet(t.roots) \cap Chain(d, t)[n] # {}}
    <3>1. out.lines = Walk(d, t, 0, {m \in t.ids : ~Empty(d, m)})
      BY <1>3 DEF renderYAML
    <3> QED
      BY <2>2, <3>1, WalkIs
  <2> QED
    BY <2>1, <2>2, <2>5, <2>6
<1> QED
  BY <1>9, <1>10, <1>11

-----------------------------------------------------------------------------
(* Snapshots among the steps of the clients.                               *)

\* The lines are what a snapshot with the options o may print of the document
\* that was read.
Drawn(docs, s, o) ==
  /\ s.start \in DOMAIN docs
  /\ \E urls \in BOOLEAN : \E out \in doSnapshotWithLevel(docs[s.start], o, urls) :
       s.lines = out.lines

\* A snapshot reads the page once, and its lines stay to its end.
Pictured(docs, s) ==
  /\ s.pc \in {"snapshot", "clear", "store"} => TakesSnapshot(Head(s.todo))
  /\ s.pc # "next" /\ TakesSnapshot(Head(s.todo)) =>
       /\ s.pc \in {"frame", "snapshot", "clear", "store"}
       /\ s.pc \in {"frame", "snapshot"} => s.start = 0
       /\ s.start # 0 => Drawn(docs, s, SnapshotOptions(Head(s.todo)))
  /\ s.pc = "next" /\ s.result # None /\ TakesSnapshot(s.result.act) /\ s.result.ok /\ s.start # 0
       => s.result.act \in ActionRecord /\ Drawn(docs, s, SnapshotOptions(s.result.act))

Picturing == \A c \in Clients : Pictured(site.docs, st[c])

\* s and t differ in nothing a picture depends on.
SamePicture(s, t) ==
  /\ t.todo = s.todo /\ t.pc = s.pc /\ t.start = s.start /\ t.lines = s.lines
  /\ t.result = s.result

LEMMA SamePictured ==
  ASSUME NEW docs, NEW s, NEW t, Pictured(docs, s), SamePicture(s, t)
  PROVE  Pictured(docs, t)
  BY DEF SamePicture, Pictured, Drawn, Op

\* t is s after a step of an action that is no snapshot, or after its end.
Elsewhere(s, t) ==
  \/ t.todo = s.todo /\ t.pc \notin {"next", "frame", "snapshot", "clear", "store"}
  \/ t.pc = "next" /\ t.result.act = Head(s.todo)

LEMMA ElsewherePictured ==
  ASSUME NEW docs, NEW s, NEW t, ~TakesSnapshot(Head(s.todo)), Elsewhere(s, t)
  PROVE  Pictured(docs, t)
  BY DEF Elsewhere, Pictured, Op

\* The end of an action.
LEMMA OverElsewhere ==
  ASSUME NEW s, NEW u, DOMAIN u = Fields, u.todo = s.todo, NEW ok, NEW code
  PROVE  Elsewhere(s, Over(u, ok, code))
  BY DEF Over, Elsewhere, Fields

\* The failure of an attempt, retried or not.
LEMMA FailedElsewhere ==
  ASSUME NEW s, NEW u, DOMAIN u = Fields, u.todo = s.todo, NEW code
  PROVE  Elsewhere(s, Failed(u, code))
<1> DEFINE t == [u EXCEPT !.pc = "backoff", !.code = code]
<1>1. t.todo = s.todo /\ t.pc = "backoff"
  BY DEF Fields
<1>2. Failed(u, code) = t \/ Failed(u, code) = Over(u, FALSE, code)
  BY DEF Failed
<1> HIDE DEF t
<1>3. Elsewhere(s, t)
  BY <1>1 DEF Elsewhere
<1>4. Elsewhere(s, Over(u, FALSE, code))
  BY OverElsewhere
<1> QED
  BY <1>2, <1>3, <1>4

\* The client c takes a step of an action that is no snapshot.
Elsewards(c) ==
  \E t : st' = [st EXCEPT ![c] = t] /\ Elsewhere(st[c], t)

\* The steps of other executors than the snapshot leave pictures alone.
LEMMA ElsewardsSteps ==
  ASSUME Working, NEW c \in Clients, ~At(c, "next"),
         \/ Find(c) \/ NotFound(c) \/ Probe(c) \/ Press(c) \/ PressFails(c) \/ Answered(c)
         \/ AnswerLost(c) \/ Backoff(c) \/ Blind(c) \/ Keys(c) \/ Call(c)
         \/ clickIframeArea(c) \/ Poll(c) \/ Info(c) \/ WaitTick(c) \/ ReadInfo(c) \/ AfterNavigation(c)
         \/ LastInfo(c) \/ Sleep(c) \/ Navigate(c) \/ Settle(c) \/ Capture(c) \/ OpenTmp(c) \/ WriteTmp(c)
  PROVE  Elsewards(c)
<1> DEFINE s == st[c]
<1>1. DOMAIN s = Fields
  BY DEF Working, Work, Shaped
<1>2. ASSUME NEW ok, NEW code, st' = [st EXCEPT ![c] = Over(s, ok, code)]
      PROVE  Elsewards(c)
  BY <1>1, <1>2, OverElsewhere DEF Elsewards
<1>3. ASSUME NEW code, st' = [st EXCEPT ![c] = Failed(s, code)]
      PROVE  Elsewards(c)
  BY <1>1, <1>3, FailedElsewhere DEF Elsewards
<1>4. ASSUME NEW t, t.todo = s.todo, t.pc \notin {"next", "frame", "snapshot", "clear", "store"},
             st' = [st EXCEPT ![c] = t]
      PROVE  Elsewards(c)
  BY <1>4 DEF Elsewards, Elsewhere
<1>5. CASE Find(c)
  <2>1. PICK e, pc, limit :
          /\ st' = [st EXCEPT ![c] = [s EXCEPT !.target = e, !.pc = pc, !.clickLimit = limit]]
          /\ pc \in {"call", "blind", "probe", "press"}
    BY <1>5 DEF Find, Step
  <2> DEFINE t == [s EXCEPT !.target = e, !.pc = pc, !.clickLimit = limit]
  <2>2. t.todo = s.todo /\ t.pc = pc
    BY <1>1 DEF Fields
  <2> QED
    BY <1>4, <2>1, <2>2
<1>6. CASE NotFound(c) \/ PressFails(c)
  BY <1>3, <1>6 DEF NotFound, PressFails, Step
<1>7. CASE Probe(c)
  <2> DEFINE t == [s EXCEPT !.pc = "press", !.probe = covered]
  <2>1. t.todo = s.todo /\ t.pc = "press"
    BY <1>1 DEF Fields
  <2> QED
    BY <1>4, <1>7, <2>1 DEF Probe, Step
<1>8. CASE Press(c)
  <2> DEFINE t == [s EXCEPT !.pc = "answer", !.acted = Append(@, s.target)]
  <2>1. t.todo = s.todo /\ t.pc = "answer"
    BY <1>1 DEF Fields
  <2> QED
    BY <1>4, <1>8, <2>1 DEF Press, Step
<1>9. ASSUME st' = [st EXCEPT ![c] = NextField(c, s)]
      PROVE  Elsewards(c)
  <2> DEFINE t == [s EXCEPT !.pc = "find", !.k = @ + 1]
  <2>1. t.todo = s.todo /\ t.pc = "find"
    BY <1>1 DEF Fields
  <2>2. NextField(c, s) = t \/ NextField(c, s) = Over(s, TRUE, "")
    BY DEF NextField, Done
  <2> HIDE DEF t
  <2> QED
    BY <1>2, <1>4, <1>9, <2>1, <2>2
<1>10. CASE Answered(c)
  <2> DEFINE t == [s EXCEPT !.pc = "call"]
  <2>1. t.todo = s.todo /\ t.pc = "call"
    BY <1>1 DEF Fields
  <2> QED
    BY <1>4, <1>9, <1>10, <2>1 DEF Answered, Step
<1>11. CASE AnswerLost(c)
  <2> DEFINE u == [s EXCEPT !.lost = @ + 1]
  <2>1. DOMAIN u = Fields /\ u.todo = s.todo
    BY <1>1 DEF Fields
  <2>2. st' = [st EXCEPT ![c] = Failed(u, "other")]
    BY <1>11 DEF AnswerLost, Step
  <2> HIDE DEF u
  <2> QED
    BY <2>1, <2>2, FailedElsewhere DEF Elsewards
<1>12. CASE Backoff(c)
  <2> DEFINE t == [s EXCEPT !.pc = "find", !.attempt = @ + 1, !.clickLimit = "none"]
  <2>1. t.todo = s.todo /\ t.pc = "find"
    BY <1>1 DEF Fields
  <2> QED
    BY <1>2, <1>4, <1>12, <2>1 DEF Backoff, Step
<1>13. CASE Blind(c) \/ clickIframeArea(c)
  <2> DEFINE t == [s EXCEPT !.pc = "keys"]
  <2>1. t.todo = s.todo /\ t.pc = "keys"
    BY <1>1 DEF Fields
  <2> QED
    BY <1>2, <1>3, <1>4, <1>13, <2>1 DEF Blind, clickIframeArea, Step, Done
<1>14. CASE \/ Keys(c) \/ Call(c) \/ Poll(c) \/ AfterNavigation(c) \/ LastInfo(c) \/ Sleep(c)
             \/ Settle(c)
  BY <1>2, <1>3, <1>9, <1>14 DEF Keys, Call, Poll, AfterNavigation, LastInfo, Sleep, Settle, Step, Done
<1>15. CASE Info(c)
  <2> DEFINE t == [s EXCEPT !.start = doc, !.pc = "wait"]
  <2>1. t.todo = s.todo /\ t.pc = "wait"
    BY <1>1 DEF Fields
  <2> QED
    BY <1>2, <1>4, <1>15, <2>1 DEF Info, Step
<1>16. CASE WaitTick(c) \/ ReadInfo(c) \/ Navigate(c) \/ Capture(c)
  <2>1. ASSUME NEW pc \in {"lastinfo", "reading", "resolve", "wait", "settle", "open"},
               st' = [st EXCEPT ![c] = [s EXCEPT !.pc = pc]]
        PROVE  Elsewards(c)
    <3> DEFINE t == [s EXCEPT !.pc = pc]
    <3>1. t.todo = s.todo /\ t.pc = pc
      BY <1>1 DEF Fields
    <3> QED
      BY <1>4, <2>1, <3>1
  <2>2. st' = [st EXCEPT ![c].pc = "settle"] => st' = [st EXCEPT ![c] = [s EXCEPT !.pc = "settle"]]
    OBVIOUS
  <2> QED
    BY <1>2, <1>16, <2>1, <2>2 DEF WaitTick, ReadInfo, Navigate, Capture, Step, Done
<1>17. CASE OpenTmp(c)
  <2> DEFINE t == [s EXCEPT !.pc = "write", !.fd = "tmp"]
  <2>1. t.todo = s.todo /\ t.pc = "write"
    BY <1>1 DEF Fields
  <2> QED
    BY <1>2, <1>4, <1>17, <2>1 DEF OpenTmp, FileStep, Step
<1>18. CASE WriteTmp(c)
  <2> DEFINE t == [s EXCEPT !.pc = "rename"]
  <2>1. t.todo = s.todo /\ t.pc = "rename"
    BY <1>1 DEF Fields
  <2> QED
    BY <1>2, <1>4, <1>18, <2>1 DEF WriteTmp, FileStep
<1> QED
  BY <1>5, <1>6, <1>7, <1>8, <1>10, <1>11, <1>12, <1>13, <1>14, <1>15, <1>16, <1>17, <1>18

\* Such a step of a client that takes no snapshot keeps all pictures.
LEMMA ElsewardsKeeps ==
  ASSUME Picturing, Working, NEW c \in Clients, ~TakesSnapshot(Head(st[c].todo)), Elsewards(c),
         UNCHANGED site
  PROVE  Picturing'
<1>1. PICK t : st' = [st EXCEPT ![c] = t] /\ Elsewhere(st[c], t)
  BY DEF Elsewards
<1>2. Pictured(site.docs, t)
  BY <1>1, ElsewherePictured
<1>3. st'[c] = t /\ \A d \in Clients \ {c} : st'[d] = st[d]
  BY <1>1 DEF Working
<1> QED
  BY <1>2, <1>3 DEF Picturing

\* A client's own step: the others' pictures are theirs.
LEMMA PicturingBy ==
  ASSUME Picturing, UNCHANGED site, NEW c \in Clients, Pictured(site.docs, st'[c]),
         \A d \in Clients \ {c} : SamePicture(st[d], st'[d])
  PROVE  Picturing'
<1>1. \A d \in Clients \ {c} : Pictured(site.docs, st'[d])
  BY SamePictured DEF Picturing
<1> QED
  BY <1>1 DEF Picturing

\* An executor starts: snapshots with reading the page.
LEMMA ExecutePictured ==
  ASSUME NEW docs, NEW c \in Clients, NEW s, Shaped(s), s.todo = st[c].todo, s.todo # <<>>,
         TakesSnapshot(Head(s.todo)) => s.start = 0
  PROVE  Pictured(docs, Execute(c, s))
<1> DEFINE op == Act(c).op
           t == [s EXCEPT !.pc = FirstStep(Act(c)), !.limit = LimitOf(c), !.k = 0,
                          !.attempt = 1, !.retried = op \in {"click", "type_text"},
                          !.blind = \/ Act(c).stealth \/ Humanized(c)
                                    \/ Act(c).frame # "" /\ op = "type_text"]
<1>1. /\ DOMAIN t = Fields /\ t.todo = s.todo /\ t.pc = FirstStep(Act(c)) /\ t.start = s.start
  BY DEF Shaped, Fields
<1> HIDE DEF t
<1>2. op = Op(s) /\ op \in actionRegistry
  BY HeadAction DEF Act, Op
<1>3. CASE op = "fill_form" /\ Act(c).fields = <<>>
  <2>1. Execute(c, s) = Over(t, TRUE, "")
    BY <1>3 DEF Execute, Done, t
  <2>2. Elsewhere(s, Over(t, TRUE, ""))
    BY <1>1, OverElsewhere
  <2> QED
    BY <1>2, <1>3, <2>1, <2>2, ElsewherePictured DEF TakesSnapshot, Op
<1>4. CASE ~(op = "fill_form" /\ Act(c).fields = <<>>)
  <2>1. Execute(c, s) = t
    BY <1>4 DEF Execute, t
  <2>2. /\ t.pc \notin {"next", "frame", "clear", "store"}
        /\ t.pc = "snapshot" <=> TakesSnapshot(Act(c))
    BY <1>1, <1>2 DEF FirstStep, TakesSnapshot, actionRegistry, OnElement, OnPage
  <2>3. Head(t.todo) = Act(c)
    BY <1>1 DEF Act
  <2> QED
    BY <1>1, <1>2, <2>1, <2>2, <2>3 DEF Pictured
<1> QED
  BY <1>3, <1>4

LEMMA ExecuteActionPictures ==
  ASSUME Picturing, Working, NEW c \in Clients, ExecuteAction(c)
  PROVE  Picturing'
<1> DEFINE s == [st[c] EXCEPT !.acted = <<>>, !.lost = 0, !.lines = <<>>, !.probe = FALSE,
                              !.code = "", !.attempt = 1, !.retried = FALSE, !.start = 0]
           t == [s EXCEPT !.pc = "frame"]
<1>1. Shaped(st[c]) /\ st[c].pc = "next" /\ st[c].todo # <<>>
  BY DEF Working, Work, ExecuteAction, At
<1>2. /\ DOMAIN s = Fields /\ s.pc = st[c].pc /\ s.todo = st[c].todo /\ s.attempt = 1
      /\ s.k = st[c].k /\ s.lost = 0 /\ s.acted = <<>> /\ s.refs = st[c].refs
      /\ s.printed = st[c].printed /\ s.start = 0
  BY <1>1 DEF Shaped, Fields
<1>3. UNCHANGED site /\ (st' = [st EXCEPT ![c] = t] \/ st' = [st EXCEPT ![c] = Execute(c, s)])
  BY DEF ExecuteAction, Step, thePage
<1> HIDE DEF s
<1>4. Shaped(s)
  <2>1. 1 \in 1 .. retryAttempts /\ <<>> \in Seq(Nat \X Nat)
    BY AttemptAssumption
  <2> QED
    BY <1>1, <1>2, <2>1 DEF Shaped
<1>5. Pictured(site.docs, Execute(c, s))
  BY <1>1, <1>2, <1>4, ExecutePictured
<1>6. Pictured(site.docs, t)
  <2>1. t.pc = "frame" /\ t.start = 0
    BY <1>2 DEF Fields
  <2> HIDE DEF t
  <2> QED
    BY <2>1 DEF Pictured
<1> HIDE DEF t
<1>7. Pictured(site.docs, st'[c]) /\ \A d \in Clients \ {c} : SamePicture(st[d], st'[d])
  BY <1>3, <1>5, <1>6 DEF Working, SamePicture
<1> QED
  BY <1>3, <1>7, PicturingBy

LEMMA FramePictures ==
  ASSUME Picturing, Working, NEW c \in Clients, ResolveFrame(c) \/ FrameFails(c)
  PROVE  Picturing'
<1> DEFINE s == st[c]
<1>1. /\ Shaped(s) /\ DOMAIN s = Fields /\ s.pc = "frame" /\ s.todo # <<>>
      /\ Pictured(site.docs, s) /\ Act(c).op = Op(s) /\ DOMAIN st = Clients
  BY DEF Working, Work, Shaped, Picturing, ResolveFrame, FrameFails, At, Act, Op
<1>2. PICK t : /\ st' = [st EXCEPT ![c] = t] /\ UNCHANGED site
               /\ \/ ResolveFrame(c) /\ t = Execute(c, s)
                  \/ t = [s EXCEPT !.k = @ + 1]
                  \/ Op(s) = "type_text" /\ t = [s EXCEPT !.pc = "iframe", !.k = 0]
                  \/ t = Over(s, FALSE, "other")
  BY <1>1 DEF ResolveFrame, FrameFails, Step, thePage
<1>3. Pictured(site.docs, t)
  <2>1. CASE t = Execute(c, s)
    <3>1. TakesSnapshot(Head(s.todo)) => s.start = 0
      BY <1>1 DEF Pictured
    <3> QED
      BY <1>1, <2>1, <3>1, ExecutePictured
  <2>2. CASE t = [s EXCEPT !.k = @ + 1]
    <3>1. SamePicture(s, t)
      BY <1>1, <2>2 DEF SamePicture, Fields
    <3> QED
      BY <1>1, <3>1, SamePictured
  <2>3. CASE Op(s) = "type_text" /\ t = [s EXCEPT !.pc = "iframe", !.k = 0]
    <3>1. t.todo = s.todo /\ t.pc = "iframe"
      BY <1>1, <2>3 DEF Fields
    <3>2. Elsewhere(s, t)
      BY <3>1 DEF Elsewhere
    <3> QED
      BY <2>3, <3>2, ElsewherePictured DEF TakesSnapshot, Op
  <2>4. CASE t = Over(s, FALSE, "other")
    <3>1. t.pc = "next" /\ t.result.ok = FALSE
      BY <1>1, <2>4 DEF Over, Fields
    <3> QED
      BY <3>1 DEF Pictured
  <2> QED
    BY <1>2, <2>1, <2>2, <2>3, <2>4
<1>4. st'[c] = t /\ \A d \in Clients \ {c} : SamePicture(st[d], st'[d])
  BY <1>1, <1>2 DEF SamePicture
<1> QED
  BY <1>2, <1>3, <1>4, PicturingBy

\* A snapshot ends with its picture.
LEMMA DonePictured ==
  ASSUME NEW docs, NEW t, DOMAIN t = Fields, Head(t.todo) \in ActionRecord,
         t.start = 0 \/ Drawn(docs, t, SnapshotOptions(Head(t.todo)))
  PROVE  Pictured(docs, Done(t))
<1> DEFINE u == Done(t)
<1>1. /\ u.pc = "next" /\ u.start = t.start /\ u.lines = t.lines /\ u.result.act = Head(t.todo)
  BY DEF Done, Over, Fields
<1> HIDE DEF u
<1>2. t.start = 0 \/ Drawn(docs, u, SnapshotOptions(Head(t.todo)))
  BY <1>1 DEF Drawn
<1> QED
  BY <1>1, <1>2 DEF Pictured, u

\* The picture of a snapshot that has ended, of one of the page's documents.
LEMMA SnapshotDrawn ==
  ASSUME Picturing, ActionsInv, NEW c \in Clients, Snapshot(c)
  PROVE  LET o == SnapshotOptions(st[c].result.act)
             d == site.docs[st[c].start]
         IN /\ o \in OptionsRecord /\ d \in Document
            /\ \E urls \in BOOLEAN : \E out \in doSnapshotWithLevel(d, o, urls) : st[c].lines = out.lines
<1> DEFINE a == st[c].result.act
<1>1. a \in ActionRecord /\ Drawn(site.docs, st[c], SnapshotOptions(a))
  BY DEF Picturing, Pictured, Snapshot, At
<1>2. site.docs \in Seq(Document)
  BY ScenarioAssumption DEF ActionsInv, PageShown
<1>3. site.docs[st[c].start] \in Document
  BY <1>1, <1>2 DEF Drawn
<1>4. SnapshotOptions(a) \in OptionsRecord
  <2>1. a.options \in OptionsRecord
    BY <1>1 DEF ActionRecord, OptionsRecord
  <2>2. [a.options EXCEPT !.format = "yaml"] \in OptionsRecord
    BY <2>1 DEF OptionsRecord
  <2> QED
    BY <2>1, <2>2 DEF SnapshotOptions
<1> HIDE DEF a
<1> QED
  BY <1>1, <1>3, <1>4 DEF Drawn, a

\* The page is read: the lines are those of the document of that moment.
LEMMA CollectPictures ==
  ASSUME Picturing, Working, PageShown, NEW c \in Clients, Collect(c)
  PROVE  Picturing'
<1> DEFINE s == st[c]
           o == SnapshotOptions(Act(c))
<1>1. /\ Shaped(s) /\ DOMAIN s = Fields /\ s.pc = "snapshot" /\ s.todo # <<>>
      /\ Pictured(site.docs, s) /\ DOMAIN st = Clients /\ Act(c) = Head(s.todo)
      /\ Head(s.todo) \in ActionRecord
  BY HeadAction DEF Working, Work, Shaped, Picturing, Collect, At, Act
<1>2. TakesSnapshot(Head(s.todo)) /\ s.start = 0
  BY <1>1 DEF Pictured
<1>3. doc \in DOMAIN site.docs
  BY ScenarioAssumption DEF PageShown
<1>4. UNCHANGED site
  BY DEF Collect, Step, thePage
<1>5. \E t : /\ st' = [st EXCEPT ![c] = t] \/ st' = [st EXCEPT ![c] = Done(t)]
             /\ DOMAIN t = Fields /\ t.todo = s.todo /\ t.pc = "clear"
             /\ t.start = 0 \/ Drawn(site.docs, t, o)
  <2>1. CASE \E urls \in BOOLEAN : \E out \in doSnapshotWithLevel(site.docs[doc], o, urls) :
               LET t == [s EXCEPT !.pc = "clear",
                                  !.refs = [k \in 1 .. Len(out.refs) |-> <<doc, out.refs[k]>>],
                                  !.start = doc, !.lines = out.lines]
               IN Step(c, IF o.format = "text" THEN Done(t) ELSE t)
    <3>0. PICK urls \in BOOLEAN : \E out \in doSnapshotWithLevel(site.docs[doc], o, urls) :
            LET t == [s EXCEPT !.pc = "clear",
                               !.refs = [k \in 1 .. Len(out.refs) |-> <<doc, out.refs[k]>>],
                               !.start = doc, !.lines = out.lines]
            IN Step(c, IF o.format = "text" THEN Done(t) ELSE t)
      BY <2>1
    <3>1. PICK out \in doSnapshotWithLevel(site.docs[doc], o, urls) :
            LET t == [s EXCEPT !.pc = "clear",
                               !.refs = [k \in 1 .. Len(out.refs) |-> <<doc, out.refs[k]>>],
                               !.start = doc, !.lines = out.lines]
            IN Step(c, IF o.format = "text" THEN Done(t) ELSE t)
      BY <3>0
    <3> DEFINE t == [s EXCEPT !.pc = "clear",
                              !.refs = [k \in 1 .. Len(out.refs) |-> <<doc, out.refs[k]>>],
                              !.start = doc, !.lines = out.lines]
    <3>2. /\ DOMAIN t = Fields /\ t.todo = s.todo /\ t.pc = "clear"
          /\ t.start = doc /\ t.lines = out.lines
      BY <1>1 DEF Fields
    <3>3. st' = [st EXCEPT ![c] = t] \/ st' = [st EXCEPT ![c] = Done(t)]
      BY <3>1 DEF Step
    <3> HIDE DEF t, o
    <3>4. Drawn(site.docs, t, o)
      BY <1>3, <3>2 DEF Drawn
    <3> QED
      BY <3>2, <3>3, <3>4
  <2>2. CASE LET t == [s EXCEPT !.pc = "clear", !.refs = <<>>]
             IN Step(c, IF o.format = "text" THEN Done(t) ELSE t)
    <3> DEFINE t == [s EXCEPT !.pc = "clear", !.refs = <<>>]
    <3>1. DOMAIN t = Fields /\ t.todo = s.todo /\ t.pc = "clear" /\ t.start = 0
      BY <1>1, <1>2 DEF Fields
    <3>2. st' = [st EXCEPT ![c] = t] \/ st' = [st EXCEPT ![c] = Done(t)]
      BY <2>2 DEF Step
    <3> HIDE DEF t
    <3> QED
      BY <3>1, <3>2
  <2> QED
    BY <2>1, <2>2 DEF Collect
<1>6. PICK t : /\ st' = [st EXCEPT ![c] = t] \/ st' = [st EXCEPT ![c] = Done(t)]
               /\ DOMAIN t = Fields /\ t.todo = s.todo /\ t.pc = "clear"
               /\ t.start = 0 \/ Drawn(site.docs, t, o)
  BY <1>5
<1>7. Pictured(site.docs, t)
  BY <1>1, <1>2, <1>6 DEF Pictured, Op
<1>8. Pictured(site.docs, Done(t))
  BY <1>1, <1>6, DonePictured
<1>9. Pictured(site.docs, st'[c]) /\ \A d \in Clients \ {c} : SamePicture(st[d], st'[d])
  BY <1>1, <1>6, <1>7, <1>8 DEF SamePicture
<1> QED
  BY <1>4, <1>9, PicturingBy

\* The RefMap is written while the picture stays.
LEMMA StorePictures ==
  ASSUME Picturing, Working, NEW c \in Clients, Clear(c) \/ Store(c)
  PROVE  Picturing'
<1> DEFINE s == st[c]
<1>1. /\ Shaped(s) /\ DOMAIN s = Fields /\ s.pc \in {"clear", "store"} /\ s.todo # <<>>
      /\ Pictured(site.docs, s) /\ DOMAIN st = Clients /\ \A d \in Clients : DOMAIN st[d] = Fields
  BY DEF Working, Work, Shaped, Picturing, Clear, Store, At
<1>2. PICK t : /\ Wrote(c, t) \/ st' = [st EXCEPT ![c] = t]
               /\ \/ t = [s EXCEPT !.pc = "store", !.k = 0, !.mixed = FALSE]
                  \/ t = [s EXCEPT !.k = s.k + 1]
  BY DEF Clear, Store, Step
<1>3. UNCHANGED site
  BY DEF Clear, Store, Step, thePage
<1>4. /\ DOMAIN t = Fields /\ t.todo = s.todo /\ t.pc \in {"clear", "store"} /\ t.start = s.start
      /\ t.lines = s.lines
  BY <1>1, <1>2 DEF Fields
<1>5. Pictured(site.docs, t)
  BY <1>1, <1>4 DEF Pictured, Drawn, Op
<1>6. st'[c] = t
  BY <1>1, <1>2 DEF Wrote
<1>7. ASSUME NEW d \in Clients \ {c} PROVE SamePicture(st[d], st'[d])
  <2>1. st'[d] = st[d] \/ st'[d] = [st[d] EXCEPT !.mixed = TRUE]
    BY <1>1, <1>2 DEF Wrote
  <2> QED
    BY <1>1, <2>1 DEF SamePicture, Fields
<1> QED
  BY <1>3, <1>5, <1>6, <1>7, PicturingBy

LEMMA PrintedPictures ==
  ASSUME Picturing, Working, NEW c \in Clients, Printed(c)
  PROVE  Picturing'
<1> DEFINE s == st[c]
           t == [s EXCEPT !.printed = s.refs]
<1>1. /\ Shaped(s) /\ DOMAIN s = Fields /\ s.pc = "store" /\ s.todo # <<>>
      /\ Head(s.todo) \in ActionRecord /\ Pictured(site.docs, s) /\ DOMAIN st = Clients
  BY HeadAction DEF Working, Work, Shaped, Picturing, Printed, At
<1>2. st' = [st EXCEPT ![c] = Done(t)] /\ UNCHANGED site
  BY DEF Printed, Step, thePage
<1>3. DOMAIN t = Fields /\ SamePicture(s, t)
  BY <1>1 DEF SamePicture, Fields
<1>4. t.start = 0 \/ Drawn(site.docs, t, SnapshotOptions(Head(t.todo)))
  BY <1>1, <1>3 DEF Pictured, SamePicture, Drawn
<1>5. Pictured(site.docs, Done(t))
  BY <1>1, <1>3, <1>4, DonePictured DEF SamePicture
<1>6. Pictured(site.docs, st'[c]) /\ \A d \in Clients \ {c} : SamePicture(st[d], st'[d])
  BY <1>1, <1>2, <1>5 DEF SamePicture
<1> QED
  BY <1>2, <1>6, PicturingBy

\* A client puts its file in place, and others' files move.
LEMMA RenamePictures ==
  ASSUME Picturing, Working, NEW c \in Clients, Rename(c)
  PROVE  Picturing'
<1> DEFINE s == st[c]
<1>1. /\ DOMAIN s = Fields /\ s.pc = "rename" /\ Pictured(site.docs, s)
      /\ DOMAIN st = Clients /\ \A d \in Clients : DOMAIN st[d] = Fields
  BY DEF Working, Work, Shaped, Picturing, Rename, At
<1>2. ~TakesSnapshot(Head(s.todo))
  BY <1>1 DEF Pictured
<1>3. PICK to, ok, code : st' = [Moved(to) EXCEPT ![c] = Over(s, ok, code)]
  BY DEF Rename, Done
<1>4. UNCHANGED site
  BY DEF Rename, thePage
<1>5. Pictured(site.docs, Over(s, ok, code))
  BY <1>1, <1>2, OverElsewhere, ElsewherePictured
<1>6. st'[c] = Over(s, ok, code) /\ \A d \in Clients \ {c} : st'[d] = Moved(to)[d]
  BY <1>3 DEF Moved
<1>7. ASSUME NEW d \in Clients \ {c} PROVE SamePicture(st[d], st'[d])
  <2>1. PICK fd : st'[d] = [st[d] EXCEPT !.fd = fd]
    BY <1>6 DEF Moved
  <2> QED
    BY <1>1, <2>1 DEF SamePicture, Fields
<1> QED
  BY <1>4, <1>5, <1>6, <1>7, PicturingBy

\* The clocks are in no picture.
LEMMA ClocksPicture ==
  ASSUME Picturing, Working, NEW c \in Clients,
         \/ LimitExpires(c) \/ ClickLimitExpires(c) \/ DeadlinePasses(c) \/ Expire(c)
         \/ NextRequest(c)
  PROVE  Picturing'
<1> DEFINE s == st[c]
<1>1. DOMAIN s = Fields /\ Pictured(site.docs, s) /\ DOMAIN st = Clients
  BY DEF Working, Work, Shaped, Picturing
<1>2. PICK t : /\ st' = [st EXCEPT ![c] = t] /\ UNCHANGED site
               /\ \/ t = [s EXCEPT !.limit = "expired"]
                  \/ t = [s EXCEPT !.clickLimit = "expired"]
                  \/ t = [s EXCEPT !.deadline = "past"]
                  \/ t = [s EXCEPT !.ended = TRUE]
                  \/ t = [s EXCEPT !.ended = FALSE, !.deadline = site.deadline[c]]
  BY DEF LimitExpires, ClickLimitExpires, DeadlinePasses, Expire, NextRequest, Step, thePage
<1>3. /\ t.todo = s.todo /\ t.pc = s.pc /\ t.start = s.start /\ t.lines = s.lines
      /\ t.result = s.result
  <2>1. CASE t = [s EXCEPT !.limit = "expired"]
    BY <1>1, <2>1 DEF Fields
  <2>2. CASE t = [s EXCEPT !.clickLimit = "expired"]
    BY <1>1, <2>2 DEF Fields
  <2>3. CASE t = [s EXCEPT !.deadline = "past"] \/ t = [s EXCEPT !.ended = TRUE]
    BY <1>1, <2>3 DEF Fields
  <2>4. CASE t = [s EXCEPT !.ended = FALSE, !.deadline = site.deadline[c]]
    BY <1>1, <2>4 DEF Fields
  <2> QED
    BY <1>2, <2>1, <2>2, <2>3, <2>4
<1>4. Pictured(site.docs, st'[c]) /\ \A d \in Clients \ {c} : SamePicture(st[d], st'[d])
  BY <1>1, <1>2, <1>3, SamePictured DEF SamePicture
<1> QED
  BY <1>2, <1>4, PicturingBy

\* Every step keeps what snapshots have drawn.
LEMMA PicturingStep ==
  ASSUME Picturing, ActionsInv, [Next]_vars
  PROVE  Picturing'
<1>1. Working /\ PageShown
  BY DEF ActionsInv
<1>2. ASSUME NEW c \in Clients, Executor(c)
      PROVE  Picturing'
  <2>1. CASE ExecuteAction(c) \/ ResolveFrame(c) \/ FrameFails(c)
    BY <1>1, <2>1, ExecuteActionPictures, FramePictures
  <2>2. CASE Collect(c) \/ Clear(c) \/ Store(c) \/ Printed(c) \/ Rename(c)
    BY <1>1, <2>2, CollectPictures, StorePictures, PrintedPictures, RenamePictures
  <2>3. CASE \/ Find(c) \/ NotFound(c) \/ Probe(c) \/ Press(c) \/ PressFails(c) \/ Answered(c)
             \/ AnswerLost(c) \/ Backoff(c) \/ Blind(c) \/ Keys(c) \/ Call(c)
             \/ clickIframeArea(c) \/ Poll(c) \/ Info(c) \/ WaitTick(c) \/ ReadInfo(c) \/ AfterNavigation(c)
             \/ LastInfo(c) \/ Sleep(c) \/ Navigate(c) \/ Settle(c) \/ Capture(c) \/ OpenTmp(c) \/ WriteTmp(c)
    <3>1. st[c].pc \notin {"next", "frame", "snapshot", "clear", "store"}
      BY <2>3 DEF Find, NotFound, Probe, Press, PressFails, Answered, AnswerLost, Backoff, Blind,
        Keys, Call, clickIframeArea, Poll, Info, WaitTick, ReadInfo, AfterNavigation, LastInfo, Sleep, Navigate,
        Settle, Capture, OpenTmp, WriteTmp, At
    <3>2. ~TakesSnapshot(Head(st[c].todo))
      BY <3>1 DEF Picturing, Pictured
    <3>3. Elsewards(c)
      BY <1>1, <2>3, <3>1, ElsewardsSteps DEF At
    <3>4. UNCHANGED site
      BY <2>3 DEF Find, NotFound, Probe, Press, PressFails, Answered, AnswerLost, Backoff, Blind,
        Keys, Call, clickIframeArea, Poll, Info, WaitTick, ReadInfo, AfterNavigation, LastInfo, Sleep, Navigate,
        Settle, Capture, OpenTmp, WriteTmp, Step, FileStep, thePage
    <3> QED
      BY <1>1, <3>2, <3>3, <3>4, ElsewardsKeeps
  <2> QED
    BY <1>2, <2>1, <2>2, <2>3 DEF Executor
<1>3. ASSUME NEW c \in Clients,
             \/ LimitExpires(c) \/ ClickLimitExpires(c) \/ DeadlinePasses(c) \/ Expire(c)
             \/ NextRequest(c)
      PROVE  Picturing'
  BY <1>1, <1>3, ClocksPicture
<1>4. CASE PageMoves \/ UNCHANGED vars
  <2>1. UNCHANGED <<site, st>>
    BY <1>4 DEF PageMoves, vars, thePage
  <2> QED
    BY <2>1 DEF Picturing
<1> QED
  BY <1>2, <1>3, <1>4 DEF Next

LEMMA PicturesHold == Spec => []Picturing
<1>1. Init => Picturing
  <2> SUFFICES ASSUME Init, NEW c \in Clients
               PROVE  Pictured(site.docs, st[c])
    BY DEF Picturing
  <2>1. st[c].pc = "next" /\ st[c].result = None
    BY DEF Init, Client
  <2> QED
    BY <2>1 DEF Pictured
<1>2. ActionsInv /\ Picturing /\ [Next]_vars => Picturing'
  BY PicturingStep
<1> QED
  BY <1>1, <1>2, ActionsHold, PTL DEF Spec

-----------------------------------------------------------------------------
(* The theorems.                                                           *)

\* The screenshot at its path is whole unless two clients wrote it at once
\* (writeFileAtomic, actions_exec_io.go), at every step of any number of clients:
\* from OneWriter.
THEOREM ScreenshotsAreWhole == Spec => []DstWhole
<1>1. ActionsInv => DstWhole
  BY DEF ActionsInv, OneWriter, DstWhole
<1> QED
  BY <1>1, ActionsHold, PTL

\* Clicks do what they report, under withRetry with any number of attempts
\* (actions_retry.go, doClick): from Clicking, which holds between the press and
\* the report.
THEOREM ClicksAreTruthful == Spec => []ClicksTruthful
<1>1. ActionsInv => ClicksTruthful
  <2> SUFFICES ASSUME ActionsInv, NEW c \in Clients, Ended(c, "click"), ~st[c].result.blind
               PROVE  /\ Len(st[c].acted) = st[c].lost + IF st[c].result.ok THEN 1 ELSE 0
                      /\ Len(st[c].acted) <= retryAttempts
    BY DEF ClicksTruthful
  <2>1. Clicked(st[c])
    BY DEF ActionsInv, Working, Work
  <2> QED
    BY <2>1 DEF Clicked, Ended, At
<1> QED
  BY <1>1, ActionsHold, PTL

\* A reference means what the client's own last snapshot printed under it
\* (RefMap, resolveElement, renderYAMLWithRefs), however the requests of others
\* and the page interleave, until another client writes the RefMap: from
\* RefsLatest, which holds in the middle of a snapshot too.
THEOREM RefsMeanThePrinted == Spec => []RefsMeanWhatWasPrinted
<1>1. ActionsInv => RefsMeanWhatWasPrinted
  <2> SUFFICES ASSUME ActionsInv, NEW c \in Clients,
                      st[c].pc \in {"probe", "press", "blind", "call"}, st[c].target # None,
                      ~st[c].mixed, SelectorOf(c).ref \in DOMAIN st[c].printed
               PROVE  st[c].target = st[c].printed[SelectorOf(c).ref]
    BY DEF RefsMeanWhatWasPrinted
  <2>1. SelectorOf(c) = Selected(st[c])
    BY DEF SelectorOf, Selected, Op, Act
  <2>2. Targeted(st[c])
    BY DEF ActionsInv, Working, Work
  <2> QED
    BY <2>1, <2>2 DEF Targeted
<1> QED
  BY <1>1, ActionsHold, PTL

\* A form filled by references with success was filled field by field as printed
\* (doFillForm), although each field is looked up on its own: from Filling.
THEOREM FormsAreFilledTogether == Spec => []FilledTogether
<1>1. ActionsInv => FilledTogether
  <2> SUFFICES ASSUME ActionsInv, NEW c \in Clients, Ended(c, "fill_form"), st[c].result.ok,
                      ~st[c].result.blind, ~st[c].mixed,
                      \A k \in DOMAIN st[c].result.act.fields :
                        st[c].result.act.fields[k].ref \in DOMAIN st[c].printed
               PROVE  st[c].acted = [k \in DOMAIN st[c].result.act.fields |->
                                       st[c].printed[st[c].result.act.fields[k].ref]]
    BY DEF FilledTogether
  <2>1. Filled(st[c])
    BY DEF ActionsInv, Working, Work
  <2>2. DOMAIN st[c].result.act.fields = 1 .. Len(st[c].result.act.fields)
    BY <2>1 DEF Filled, Ended, At
  <2>3. st[c].acted = [k \in 1 .. Len(st[c].result.act.fields) |->
                         st[c].printed[st[c].result.act.fields[k].ref]]
    BY <2>1 DEF Filled, FilledTo, Ended, At
  <2> QED
    BY <2>2, <2>3
<1> QED
  BY <1>1, ActionsHold, PTL

\* Every level prints every interactive element of any document, whatever the
\* tree above it is (markWithAncestors, buildFilteredIndex, renderYAMLWithRefs),
\* and whatever happened to the page and the RefMap meanwhile: from Picturing and
\* InteractivePrinted, an induction over the chains of the tree.
THEOREM InteractiveAreReachable == Spec => []InteractiveReachable
<1>1. ActionsInv /\ Picturing => InteractiveReachable
  <2> SUFFICES ASSUME Picturing, ActionsInv, NEW c \in Clients, Snapshot(c),
                      SnapshotOptions(st[c].result.act).depth = 0, ~SnapshotOptions(st[c].result.act).selector,
                      SnapshotOptions(st[c].result.act).format = "yaml",
                      AskedFor(SnapshotOptions(st[c].result.act)) \in {"", "interactive", "__content__"}
               PROVE  {n \in Shown(site.docs[st[c].start]) :
                         site.docs[st[c].start].role[n] \in interactiveRoles} \subseteq ToSet(st[c].lines)
    BY DEF InteractiveReachable
  <2> DEFINE o == SnapshotOptions(st[c].result.act)
             d == site.docs[st[c].start]
  <2>1. o \in OptionsRecord /\ d \in Document
        /\ \E urls \in BOOLEAN : \E out \in doSnapshotWithLevel(d, o, urls) : st[c].lines = out.lines
    BY SnapshotDrawn
  <2> QED
    BY <2>1, InteractivePrinted
<1> QED
  BY <1>1, ActionsHold, PicturesHold, PTL

\* The filters by subtree print what is wanted of any document, also with many
\* roots, the whole of it and nothing else (markSubtree, buildFilteredIndex), and
\* whatever happens meanwhile: from Picturing and ScopePrinted, by induction over
\* the chains below roots of the filter's role.
THEOREM ScopesAreShown == Spec => []ScopeShown
<1>1. ActionsInv /\ Picturing => ScopeShown
  <2> SUFFICES ASSUME Picturing, ActionsInv, NEW c \in Clients, Snapshot(c),
                      ~SnapshotOptions(st[c].result.act).selector,
                      \/ SnapshotOptions(st[c].result.act).depth = 0
                      \/ SnapshotOptions(st[c].result.act).filter = "dialog",
                      SnapshotOptions(st[c].result.act).format = "yaml",
                      AskedFor(SnapshotOptions(st[c].result.act)) \in {"dialog", "forms", "main", "text"}
               PROVE  LET o == SnapshotOptions(st[c].result.act)
                          d == site.docs[st[c].start]
                      IN ToSet(st[c].lines) = {n \in Wanted(d, AskedFor(o)) : ~Empty(d, n)}
    BY DEF ScopeShown
  <2> DEFINE o == SnapshotOptions(st[c].result.act)
             d == site.docs[st[c].start]
  <2>1. o \in OptionsRecord /\ d \in Document
        /\ \E urls \in BOOLEAN : \E out \in doSnapshotWithLevel(d, o, urls) : st[c].lines = out.lines
    BY SnapshotDrawn
  <2>2. /\ ~o.selector /\ o.format = "yaml" /\ (o.depth = 0 \/ AskedFor(o) = "dialog")
        /\ AskedFor(o) \in {"dialog", "forms", "main", "text"}
    BY DEF AskedFor
  <2> HIDE DEF o, d
  <2>3. ToSet(st[c].lines) = {n \in Wanted(d, AskedFor(o)) : ~Empty(d, n)}
    BY <2>1, <2>2, ScopePrinted
  <2> QED
    BY <2>3 DEF o, d
<1> QED
  BY <1>1, ActionsHold, PicturesHold, PTL
=============================================================================
