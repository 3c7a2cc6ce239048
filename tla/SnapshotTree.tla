---------------------------- MODULE SnapshotTree ----------------------------
(***************************************************************************)
(* What a snapshot action prints (src/snapshot*.go): the accessibility     *)
(* nodes of a page's frames are indexed, filtered and rendered, and every  *)
(* interactive line gets a reference e1, e2, ...                           *)
(*                                                                         *)
(* A document d is a record.  Its nodes are numbered in the order of       *)
(* Chrome's answers, parents first:                                        *)
(*   d.role, d.parent  per node, the parent 0 at the root of a frame       *)
(*   d.ignored         nodes Chrome marks as ignored                       *)
(*   d.named           nodes with a name or a value                        *)
(*   d.unmapped        nodes without a BackendDOMNodeID                    *)
(*   d.match, d.href   nodes whose name or role, links whose URL contains  *)
(*                     the selector of the request                         *)
(* A tree t is an index and its roots in order.  Chrome's noise nodes have *)
(* no children but noise.                                                  *)
(***************************************************************************)
EXTENDS Naturals, FiniteSets, SequencesExt

NodesOf(d) == DOMAIN d.role

\* The elements of a sequence that are in S: SelectSeq, written as a function
\* since the provers have no definition of SelectSeq.
Among(s, S) ==
  LET pick[k \in 0 .. Len(s)] ==
        IF k = 0 THEN <<>>
        ELSE IF s[k] \in S THEN Append(pick[k - 1], s[k]) ELSE pick[k - 1]
  IN pick[Len(s)]

\* Nodes in the order of the document.
InOrder(d, S) == Among([n \in NodesOf(d) |-> n], S)

isNoiseRole(role) == role \in {"StaticText", "InlineTextBox", "none", "LineBreak"}

Document ==
  {d \in [role : Seq(STRING), parent : Seq(Nat), ignored : SUBSET Nat, named : SUBSET Nat,
          unmapped : SUBSET Nat, match : SUBSET Nat, href : SUBSET Nat] :
     /\ DOMAIN d.parent = NodesOf(d)
     /\ \A n \in NodesOf(d) :
          /\ d.parent[n] < n
          /\ d.parent[n] # 0 /\ isNoiseRole(d.role[d.parent[n]]) => isNoiseRole(d.role[n])}

interactiveRoles ==
  {"link", "button", "textbox", "combobox", "checkbox", "radio", "slider", "switch", "tab",
   "menuitem", "option", "searchbox", "spinbutton", "treeitem", "menuitemcheckbox",
   "menuitemradio", "listbox"}

skeletonRoles == interactiveRoles

contentRoles ==
  {"navigation", "form", "search", "banner", "main", "complementary", "contentinfo", "heading",
   "dialog", "alertdialog", "alert", "status", "region", "article", "feed"}

filterableRoles ==
  interactiveRoles \cup {"form", "radiogroup", "group", "list", "listitem", "region", "LabelText",
                         "Iframe"}

excludeTextRoles == {"navigation", "banner", "contentinfo"}

-----------------------------------------------------------------------------
(* Building the index.                                                     *)

\* A node is a root when it is no child of a node that is not ignored: also
\* where its parent is ignored.
buildAXIndex(d) ==
  LET present == NodesOf(d) \ d.ignored
      ids == {n \in present : ~isNoiseRole(d.role[n])}
  IN [ids |-> ids, roots |-> InOrder(d, {n \in ids : d.parent[n] \notin present})]

\* The text of noise children moves to their parent.
TextOf(d, n) ==
  {c \in NodesOf(d) \ d.ignored : d.parent[c] = n /\ isNoiseRole(d.role[c]) /\ c \in d.named}

\* Links whose URL, found in the DOM by the link's BackendDOMNodeID, contains
\* the selector.
applyLinkURLs(d) == {n \in d.href \ d.unmapped : d.role[n] = "link"}

\* Per node, the node and its ancestors in the tree.
Chain(d, t) ==
  LET up[n \in NodesOf(d)] == {n} \cup IF d.parent[n] \in t.ids THEN up[d.parent[n]] ELSE {}
  IN up

-----------------------------------------------------------------------------
(* Filters.                                                                *)

OfRole(d, t, roles) == {n \in t.ids : d.role[n] \in roles}

\* Mutant of markWithAncestors: ancestors are not marked.
markAlone(d, t, S) == S

markWithAncestors(d, t, S) == UNION {Chain(d, t)[n] : n \in S}

markSubtree(d, t, S) == LET up == Chain(d, t) IN {n \in t.ids : up[n] \cap S # {}}

\* Mutant of buildFilteredIndex: without the fallback.
FilteredFromRoots(d, t, keep) ==
  {[ids |-> keep, roots |-> Among(t.roots, keep)]}

\* The trees the kept nodes may make up: when no root is kept the kept nodes
\* without a kept parent are the roots, in the order of a Go map, which is any.
buildFilteredIndex(d, t, keep) ==
  LET filteredRoots == Among(t.roots, keep)
      fallback == {n \in keep : d.parent[n] \notin keep}
  IN {[ids |-> keep, roots |-> rs] :
        rs \in IF filteredRoots # <<>> THEN {filteredRoots} ELSE SetToSeqs(fallback)}

KeptBy(d, t, filter) ==
  CASE filter = "interactive" -> markWithAncestors(d, t, OfRole(d, t, filterableRoles))
    [] filter = "forms"       -> markSubtree(d, t, OfRole(d, t, {"form"}))
    [] filter = "main"        -> markSubtree(d, t, OfRole(d, t, {"main"}))
    [] filter = "dialog"      -> markSubtree(d, t, OfRole(d, t, {"dialog"}))
    [] filter = "text"        -> t.ids \ markSubtree(d, t, OfRole(d, t, excludeTextRoles))
    [] OTHER                  -> t.ids

\* With a selector only the nodes that match are kept.
Narrow(d, keep, selector, urls) ==
  IF selector THEN keep \cap (d.match \cup IF urls THEN applyLinkURLs(d) ELSE {}) ELSE keep

filterAXTree(d, t, filter, selector, urls) ==
  IF filter = "" /\ ~selector THEN {t}
  ELSE buildFilteredIndex(d, t, Narrow(d, KeptBy(d, t, filter), selector, urls))

\* The levels that parse; the code ignores any other.
ExtractLevel == {"skeleton", "content", "full"}

levelToFilter(level) ==
  CASE level = "skeleton" -> "interactive"
    [] level = "content"  -> "__content__"
    [] level = "full"     -> ""

applyContentLevelFilter(d, t) ==
  buildFilteredIndex(d, t, markWithAncestors(d, t, OfRole(d, t, skeletonRoles \cup contentRoles)))

-----------------------------------------------------------------------------
(* Rendering.                                                              *)

\* Those of nodes that a walk from the roots visits, in order.
Walk(d, t, maxDepth, nodes) ==
  LET up == Chain(d, t)
      below(r) == {n \in t.ids : r \in up[n] /\ (maxDepth = 0 \/ Cardinality(up[n]) <= maxDepth)}
  IN FlattenSeq([k \in DOMAIN t.roots |-> InOrder(d, below(t.roots[k]) \cap nodes)])

\* An empty generic wrapper gives no line.
Empty(d, n) == d.role[n] = "generic" /\ n \notin d.named /\ TextOf(d, n) = {}

renderYAML(d, t, maxDepth) ==
  LET printed == {n \in t.ids : ~Empty(d, n)}
  IN [lines |-> Walk(d, t, maxDepth, printed),
      refs |-> Walk(d, t, maxDepth, printed \cap OfRole(d, t, interactiveRoles))]

renderText(d, t, maxDepth) == [lines |-> Walk(d, t, maxDepth, t.ids), refs |-> <<>>]

\* Mutant of effectiveFilter: the level hides the dialog filter.
levelOverFilter(q) == IF q.level \in ExtractLevel THEN levelToFilter(q.level) ELSE q.filter

\* A level takes precedence over any filter but "dialog".
effectiveFilter(q) ==
  IF q.level \in ExtractLevel /\ q.filter # "dialog" THEN levelToFilter(q.level) ELSE q.filter

\* What a snapshot with the options q may print of d: its lines, and the nodes
\* it printed under e1, e2, ...  (urls: the page's DOM could be read).
doSnapshotWithLevel(d, q, urls) ==
  LET filter == effectiveFilter(q)
      maxDepth == IF filter = "dialog" THEN 0 ELSE q.depth
      index == buildAXIndex(d)
      text == q.format = "text"
      trees == IF filter = "__content__"
               THEN UNION {IF q.selector
                           THEN buildFilteredIndex(d, t, Narrow(d, t.ids, TRUE, urls)) ELSE {t} :
                             t \in applyContentLevelFilter(d, index)}
               ELSE filterAXTree(d, index, filter, q.selector, urls /\ ~text)
  IN {IF text THEN renderText(d, t, maxDepth) ELSE renderYAML(d, t, maxDepth) : t \in trees}
=============================================================================
