------------------------------ MODULE MCActions ------------------------------
(***************************************************************************)
(* Small instances of Actions for TLC.  A survey scenario is one snapshot  *)
(* of one of many small documents; a work scenario is a chain of actions   *)
(* on a page that changes.                                                 *)
(***************************************************************************)
EXTENDS Actions, TLC

CONSTANTS c1, c2

Options(filter, level, depth, format) ==
  [filter |-> filter, level |-> level, depth |-> depth, format |-> format, selector |-> FALSE]

Plain == Options("", "", 0, "yaml")

\* An action with none of its optional fields.
Action(op) ==
  [op |-> op, timeout |-> 0, stealth |-> FALSE, humanize |-> FALSE, frame |-> "", submit |-> FALSE,
   keys |-> FALSE, path |-> FALSE, wait |-> "",
   selector |-> [ref |-> 0, css |-> 0], fields |-> <<>>, options |-> Plain]

Snap(o) == [Action("snapshot") EXCEPT !.options = o]
Ref(op, k) == [Action(op) EXCEPT !.selector.ref = k]
Css(op, n) == [Action(op) EXCEPT !.selector.css = n]
Stealth(a) == [a EXCEPT !.stealth = TRUE]
Human(a) == [a EXCEPT !.humanize = TRUE]
Timed(a) == [a EXCEPT !.timeout = 2]
Keyed(a) == [a EXCEPT !.keys = TRUE]
Picture == [Action("screenshot") EXCEPT !.options.format = "png"]
Filed(a) == [a EXCEPT !.path = TRUE]
Framed(a, kind) == [a EXCEPT !.frame = kind]
Wait(what) == [Action("wait_for") EXCEPT !.wait = what]
Fill(ks) == [Action("fill_form") EXCEPT !.fields = [k \in DOMAIN ks |-> [ref |-> ks[k], css |-> 0]]]

Scenario(ds, mv, chain1, chain2, deadline) ==
  [docs |-> ds, moves |-> mv, chain |-> c1 :> chain1 @@ c2 :> chain2,
   deadline |-> c1 :> deadline @@ c2 :> "unset"]

-----------------------------------------------------------------------------
CONSTANTS SurveyNodes, SurveyRoles

\* Parents of nodes numbered in preorder: each is a child of its predecessor or
\* of one of the predecessor's ancestors, or a root.
Preorders ==
  {p \in [1 .. SurveyNodes -> 0 .. SurveyNodes - 1] :
     /\ \A n \in 1 .. SurveyNodes : p[n] < n
     /\ \A m, n \in 1 .. SurveyNodes : p[n] < m /\ m < n => p[m] >= p[n]}

SurveyDocs ==
  {d \in {[role |-> r, parent |-> p, ignored |-> i, named |-> {}, unmapped |-> {},
           match |-> {}, href |-> {}] :
            r \in [1 .. SurveyNodes -> SurveyRoles], p \in Preorders,
            i \in {{}} \cup {{n} : n \in 1 .. SurveyNodes}} :
     \* Chrome's noise nodes are leaves; an ignored leaf is like no node at all
     /\ \A n \in 1 .. SurveyNodes : d.parent[n] # 0 => ~isNoiseRole(d.role[d.parent[n]])
     /\ \A n \in d.ignored : \E m \in 1 .. SurveyNodes : d.parent[m] = n}

SurveyOptions ==
  {Plain, Options("interactive", "", 0, "yaml"), Options("", "content", 0, "yaml"),
   Options("forms", "unknown", 0, "yaml"), Options("text", "", 0, "yaml"),
   Options("dialog", "skeleton", 1, "yaml")}

Survey == {Scenario(<<d>>, {}, <<Snap(o)>>, <<>>, "unset") : d \in SurveyDocs, o \in SurveyOptions}

-----------------------------------------------------------------------------
\* A page with a form of two fields and a link that is not mapped to the DOM;
\* then a page with other elements.
FormDoc ==
  [role |-> <<"RootWebArea", "button", "form", "textbox", "textbox">>, parent |-> <<0, 1, 1, 3, 3>>,
   ignored |-> {}, named |-> {1}, unmapped |-> {}, match |-> {3, 4}, href |-> {}]
LinkDoc ==
  [role |-> <<"RootWebArea", "link", "button", "dialog", "button">>, parent |-> <<0, 1, 1, 1, 4>>,
   ignored |-> {}, named |-> {1}, unmapped |-> {5}, match |-> {}, href |-> {2}]

Alone(ds, mv, chain, deadline) == Scenario(ds, mv, chain, <<>>, deadline)
Both == <<FormDoc, LinkDoc>>

Work ==
  { \* forms by reference while the page navigates
    Alone(Both, {"doc"}, <<Snap(Plain), Fill(<<2, 3>>), Ref("click", 1)>>, "unset"),
    Alone(Both, {"doc"}, <<Snap(Plain), Stealth(Fill(<<2, 3>>)), Stealth(Ref("click", 1))>>, "unset"),
    \* humanized actions do not know references
    Alone(<<LinkDoc>>, {"covered"},
          <<Snap(Plain), Timed(Human(Css("type_text", 3))), Timed(Human(Ref("click", 1)))>>, "unset"),
    \* two snapshots of one client, the second with fewer references and by a
    \* screenshot without a format
    Alone(<<LinkDoc>>, {"covered"},
          <<Snap(Plain), [Action("screenshot") EXCEPT !.options = Options("dialog", "", 0, "")],
            Timed(Keyed(Ref("click", 1)))>>, "unset"),
    \* two clients of one RefMap
    Scenario(Both, {"doc"}, <<Snap(Plain), Ref("click", 2)>>,
             <<Snap(Options("interactive", "", 0, "yaml"))>>, "unset"),
    \* retries, limits, the deadline
    Alone(<<LinkDoc>>, {"covered"}, <<Timed(Css("click", 3)), Css("hover", 2)>>, "ahead"),
    Alone(Both, {"doc"}, <<Timed([Css("type_text", 5) EXCEPT !.submit = TRUE]), Css("select_option", 5)>>, "ahead"),
    \* frames
    Alone(<<LinkDoc>>, {"ready"},
          <<Framed(Css("type_text", 2), "css"), Framed(Css("click", 2), "url")>>, "unset"),
    Alone(<<LinkDoc>>, {"ready"},
          <<Framed(Timed(Css("type_text", 2)), "url"), Framed(Action("type_into_frame"), "css")>>, "ahead"),
    \* waits
    Alone(<<LinkDoc>>, {"ready", "idle"},
          <<Timed(Wait("text")), Wait("text_gone"), Action("wait_stable"), Timed(Wait("time"))>>, "ahead"),
    Alone(Both, {"doc"}, <<Action("wait_for_navigation"), Action("sleep"), Action("navigate")>>, "ahead"),
    Alone(Both, {"doc"},
          <<Snap(Plain), Timed([Ref("wait_for", 2) EXCEPT !.wait = "selector"]),
            Timed(Stealth([Ref("wait_for", 2) EXCEPT !.wait = "selector"])),
            Css("wait_for_navigation", 2)>>, "unset"),
    \* text and URL selectors, a depth, single calls
    Alone(<<LinkDoc>>, {},
          <<Snap([Plain EXCEPT !.selector = TRUE]), Snap(Options("", "full", 2, "text")), Fill(<<>>),
            Action("evaluate")>>, "unset"),
    Alone(<<FormDoc>>, {}, <<Snap([Options("", "content", 0, "yaml") EXCEPT !.selector = TRUE]), Ref("click", 1)>>, "unset"),
    \* screenshots to one path
    Scenario(<<LinkDoc>>, {}, <<Filed(Picture), Filed(Picture), Picture>>, <<Filed(Picture)>>, "unset") }

MCScenarios == Survey \cup Work
=============================================================================
