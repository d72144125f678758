--------------------------- MODULE DependencyGraph ---------------------------
(***************************************************************************)
(* The graph of a project's tasks (dependency-graph.ts): cards that are    *)
(* filtered, searched, selected and pointed at.  The element keeps for     *)
(* each card whether it is visible, ringed and dimmed, and every handler   *)
(* updates what it thinks has changed, of the visible cards only.          *)
(*                                                                         *)
(* Where the cards are, the camera, the physics and the brightness of the  *)
(* lines are left out; a search is represented by the cards that match it. *)
(***************************************************************************)
EXTENDS FiniteSets

CONSTANTS
  Node, NoNode,
  TaskStatus, TaskType   \* those that the filters know

ASSUME GraphAssumption == NoNode \notin Node /\ TaskStatus # {} /\ TaskType # {}

VARIABLES
  stage,     \* "none" (no graph), "loading", "bar" (loaded, not drawn), "drawn" or "empty"
  look,      \* of each card, its status and type
  edges,     \* dependencies and provenance: pairs of cards
  filters,   \* the statuses and types that are on
  query,     \* the search: whether there is one, and what matches
  visible,   \* the cards that are shown
  marks,     \* the selected card, the ringed, the dimmed, and those hidden when the others were last marked
  pointer,   \* the card under the mouse, the card of the tooltip, whether it is up
  early      \* the filters were set before there were cards, and not since

graphVars == <<stage, look, edges, filters, query, visible, marks, pointer, early>>

Look == [status : TaskStatus, type : TaskType]
AllOn    == [status |-> TaskStatus, type |-> TaskType]
NoQuery  == [text |-> FALSE, hits |-> {}]
Queries  == {NoQuery} \cup [text : {TRUE}, hits : SUBSET Node]
NoMarks  == [selected |-> NoNode, rings |-> {}, dimmed |-> {}, missed |-> {}]
AtNothing == [at |-> NoNode, tip |-> NoNode, up |-> FALSE]

GraphTypeOK ==
  /\ stage \in {"none", "loading", "bar", "drawn", "empty"}
  /\ look \in [Node -> Look] /\ edges \subseteq Node \X Node
  /\ filters \in [status : SUBSET TaskStatus, type : SUBSET TaskType] /\ query \in Queries
  /\ visible \subseteq Node /\ early \in BOOLEAN
  /\ marks \in [selected : Node \cup {NoNode}, rings : SUBSET Node, dimmed : SUBSET Node, missed : SUBSET Node]
  /\ pointer \in [at : Node \cup {NoNode}, tip : Node \cup {NoNode}, up : BOOLEAN]

(* A task does not depend on itself; more links would say nothing more.    *)
GraphInit ==
  /\ stage \in {"none", "loading"}
  /\ look \in IF stage = "none" THEN {[c \in Node |-> CHOOSE l \in Look : TRUE]} ELSE [Node -> Look]
  /\ edges \in IF stage = "none" THEN {{}} ELSE {{}} \cup {{p} : p \in {q \in Node \X Node : q[1] # q[2]}}
  /\ filters = AllOn /\ query = NoQuery /\ visible = {} /\ marks = NoMarks
  /\ pointer = AtNothing /\ early = FALSE

-----------------------------------------------------------------------------
(* _loadAndRender: the cards are made when the page has room for them, and *)
(* all are visible, whatever was filtered and searched until then.         *)
GraphLoaded ==
  /\ stage = "loading" /\ stage' = "bar"
  /\ UNCHANGED <<look, edges, filters, query, visible, marks, pointer, early>>

(* No tasks, or a request or a renderer that failed.                       *)
GraphEmpty ==
  /\ stage \in {"loading", "bar"} /\ stage' = "empty"
  /\ UNCHANGED <<look, edges, filters, query, visible, marks, pointer, early>>

BuildGraph ==
  /\ stage = "bar" /\ stage' = "drawn" /\ visible' = Node /\ early' = (filters # AllOn)
  /\ UNCHANGED <<look, edges, filters, query, marks, pointer>>

-----------------------------------------------------------------------------
ConnectedNodes(c) == {c} \cup {d \in Node : <<c, d>> \in edges \/ <<d, c>> \in edges}

(* What the handlers do to the marks m when the cards v are visible.       *)
Deselected(m, v) ==
  IF m.selected = NoNode THEN m
  ELSE [selected |-> NoNode, rings |-> m.rings \ {m.selected}, dimmed |-> m.dimmed \ v, missed |-> Node \ v]

SelectedMarks(m, v, c) ==
  IF m.selected = c THEN m
  ELSE LET d == Deselected(m, v) IN
       [selected |-> c, rings |-> d.rings \cup {c},
        dimmed |-> (d.dimmed \ v) \cup (v \ ConnectedNodes(c)), missed |-> Node \ v]

Highlighted(m, v, q) ==
  [m EXCEPT !.dimmed = (@ \ v) \cup IF q.text THEN v \ q.hits ELSE {}, !.missed = Node \ v]

(* Mutant: a card that is filtered out stays selected.                     *)
FilteredOnly(m, v) == [m EXCEPT !.rings = v \cap {m.selected}]

Filtered(m, v) ==
  LET r == [m EXCEPT !.rings = v \cap {m.selected}] IN
  IF m.selected \in v THEN r ELSE Deselected(r, v)

PassingCards(f) == {c \in Node : look[c].status \in f.status /\ look[c].type \in f.type}

(* _applyFilters: before the cards are made there is nothing to apply to.  *)
ApplyFilters(f, m) ==
  /\ filters' = f
  /\ IF stage = "drawn"
     THEN visible' = PassingCards(f) /\ marks' = Filtered(m, PassingCards(f)) /\ early' = FALSE
     ELSE UNCHANGED <<visible, marks, early>>

-----------------------------------------------------------------------------
GraphShown == stage \in {"bar", "drawn"}
Stays == UNCHANGED <<stage, look, edges, pointer>>

(* The last filter of a kind cannot be taken away.                         *)
Toggled(S, x) == IF x \notin S THEN S \cup {x} ELSE IF S = {x} THEN S ELSE S \ {x}

ToggleStatusFilter(s) ==
  /\ GraphShown /\ Stays /\ UNCHANGED query
  /\ ApplyFilters([filters EXCEPT !.status = Toggled(@, s)], marks)

ToggleTypeFilter(t) ==
  /\ GraphShown /\ Stays /\ UNCHANGED query
  /\ ApplyFilters([filters EXCEPT !.type = Toggled(@, t)], marks)

OnSearchInput(q) ==
  /\ GraphShown /\ Stays /\ query' = q
  /\ marks' = IF stage = "drawn" THEN Highlighted(marks, visible, q) ELSE marks
  /\ UNCHANGED <<filters, visible, early>>

Mark(m) == stage = "drawn" /\ Stays /\ marks' = m /\ UNCHANGED <<filters, query, visible, early>>

ClickCard(c) == c \in visible /\ Mark(SelectedMarks(marks, visible, c))
ClickBeside  == Mark(Deselected(marks, visible))

(* The lists of the panel name the selected card's neighbours, hidden ones *)
(* too; those do nothing.                                                  *)
BlockedBy(c) == {d \in Node : <<d, c>> \in edges}
Blocks(c)    == {d \in Node : <<c, d>> \in edges}
SelectNodeById(d) ==
  /\ marks.selected # NoNode /\ d \in BlockedBy(marks.selected) \cup Blocks(marks.selected)
  /\ ClickCard(d)

(* The keys: Escape deselects, or empties the search; r undoes everything. *)
Escape ==
  \/ marks.selected = NoNode /\ OnSearchInput(NoQuery)
  \/ marks.selected # NoNode /\ ClickBeside

ResetView ==
  /\ GraphShown /\ Stays /\ query' = NoQuery
  /\ ApplyFilters(AllOn, Highlighted(Deselected(marks, visible), visible, NoQuery))

(* Every frame looks what is under the mouse.  A dimmed card gets no       *)
(* tooltip, but leaves the one that is up.                                 *)
UpdateHover(c) ==
  /\ stage = "drawn" /\ c \in visible \cup {NoNode} /\ c # pointer.at
  /\ pointer' = IF c = NoNode THEN [pointer EXCEPT !.at = NoNode, !.up = FALSE]
                ELSE IF c \in marks.dimmed THEN [pointer EXCEPT !.at = c]
                ELSE [at |-> c, tip |-> c, up |-> TRUE]
  /\ UNCHANGED <<stage, look, edges, filters, query, visible, marks, early>>

MouseLeave ==
  /\ stage = "drawn" /\ pointer' = [pointer EXCEPT !.at = NoNode, !.up = FALSE]
  /\ UNCHANGED <<stage, look, edges, filters, query, visible, marks, early>>

GraphNext ==
  \/ GraphLoaded \/ GraphEmpty \/ BuildGraph
  \/ \E s \in TaskStatus : ToggleStatusFilter(s)
  \/ \E t \in TaskType : ToggleTypeFilter(t)
  \/ \E q \in Queries : OnSearchInput(q)
  \/ \E c \in Node : ClickCard(c) \/ SelectNodeById(c)
  \/ ClickBeside \/ Escape \/ ResetView \/ MouseLeave
  \/ \E c \in Node \cup {NoNode} : UpdateHover(c)

GraphSpec == GraphInit /\ [][GraphNext]_graphVars

-----------------------------------------------------------------------------
(* The cards that are shown are those that pass the filters, and there is  *)
(* a way to pass.  Filters set before the cards were made are forgotten    *)
(* until the next one is.                                                  *)
FiltersHold ==
  /\ filters.status # {} /\ filters.type # {}
  /\ stage = "drawn" => early \/ visible = PassingCards(filters)

(* The panel describes a card that is shown, and that one card is ringed.  *)
SelectionIsVisible == marks.selected # NoNode => marks.selected \in visible /\ marks.rings = {marks.selected}
NoStrayRing        == marks.selected = NoNode => marks.rings = {}

(* A card is dimmed because it is not connected to the selected one or     *)
(* does not match the search, unless it was hidden when the others were    *)
(* marked anew: such a card comes back as it was.                          *)
DimmedHasReason ==
  \A c \in visible \cap marks.dimmed :
    \/ c \in marks.missed
    \/ marks.selected # NoNode /\ c \notin ConnectedNodes(marks.selected)
    \/ query.text /\ c \notin query.hits

(* A tooltip is up only over a card.                                       *)
TooltipIsOverCard == pointer.up => pointer.at # NoNode

(* What the graph shows is what was chosen.                                *)
GraphFollows ==
  FiltersHold /\ SelectionIsVisible /\ NoStrayRing /\ DimmedHasReason /\ TooltipIsOverCard
=============================================================================
