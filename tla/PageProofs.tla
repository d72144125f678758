----------------------------- MODULE PageProofs -----------------------------
(***************************************************************************)
(* What the pages of MCPages show and ask for, proved part by part from    *)
(* the part's own specification, for any number of records, sessions,      *)
(* requests and losses; at the end the parts are put together, those of    *)
(* PanelProofs with them.                                                  *)
(***************************************************************************)
EXTENDS MCPages, PanelProofs, TLAPS, FiniteSetTheorems, SequenceTheorems

-----------------------------------------------------------------------------
(* The graph.  Marks are made on the cards that are visible at that time,  *)
(* and outlive the filters of that time: every card that is dimmed, hidden *)
(* ones too, was not looked at when the others were marked last, or has a  *)
(* reason to be dimmed now.                                                *)
Marks == [selected : Node \cup {NoNode}, rings : SUBSET Node, dimmed : SUBSET Node, missed : SUBSET Node]

Explained(m, q) ==
  \A c \in m.dimmed :
    \/ c \in m.missed
    \/ m.selected # NoNode /\ c \notin ConnectedNodes(m.selected)
    \/ q.text /\ c \notin q.hits

Ringed(m) == m.rings = IF m.selected = NoNode THEN {} ELSE {m.selected}

MarksFit(m, v, q) == m \in Marks /\ Ringed(m) /\ (m.selected # NoNode => m.selected \in v) /\ Explained(m, q)

GraphInv ==
  /\ GraphTypeOK /\ FiltersHold /\ TooltipIsOverCard
  /\ MarksFit(marks, visible, query)
  /\ stage # "drawn" => marks = NoMarks

LEMMA DeselectedFits ==
  ASSUME NEW m \in Marks, NEW v \in SUBSET Node, NEW q \in Queries,
         m.rings \subseteq {m.selected}, Explained(m, q)
  PROVE  MarksFit(Deselected(m, v), v, q) /\ Deselected(m, v).selected = NoNode
<1> DEFINE d == Deselected(m, v)
<1>1. NoNode \notin Node /\ m.selected \in Node \cup {NoNode} /\ m.rings \in SUBSET Node
      /\ m.dimmed \in SUBSET Node /\ m.missed \in SUBSET Node
  BY GraphAssumption DEF Marks
<1>2. CASE m.selected = NoNode
  <2>1. m.rings = {} /\ d = m
    BY <1>1, <1>2 DEF Deselected
  <2> QED
    BY <1>2, <2>1 DEF MarksFit, Ringed
<1>3. CASE m.selected # NoNode
  <2>1. d = [selected |-> NoNode, rings |-> m.rings \ {m.selected}, dimmed |-> m.dimmed \ v, missed |-> Node \ v]
    BY <1>3 DEF Deselected
  <2>2. d \in Marks
    BY <1>1, <2>1 DEF Marks
  <2>3. d.selected = NoNode /\ d.rings = {} /\ d.dimmed = m.dimmed \ v /\ d.missed = Node \ v
    BY <2>1
  <2> QED
    BY <1>1, <2>2, <2>3 DEF MarksFit, Ringed, Explained
<1> QED
  BY <1>2, <1>3

LEMMA SelectedFits ==
  ASSUME NEW v \in SUBSET Node, NEW q \in Queries, NEW m, MarksFit(m, v, q), NEW c \in v
  PROVE  MarksFit(SelectedMarks(m, v, c), v, q)
<1> DEFINE d == Deselected(m, v)
           s == SelectedMarks(m, v, c)
<1>1. CASE m.selected = c
  BY <1>1 DEF SelectedMarks
<1>2. CASE m.selected # c
  <2>1. m.rings \subseteq {m.selected} /\ m \in Marks /\ Explained(m, q)
    BY DEF MarksFit, Ringed
  <2>2. MarksFit(d, v, q) /\ d.selected = NoNode
    BY <2>1, DeselectedFits
  <2>3. d.rings = {} /\ d.dimmed \in SUBSET Node
    BY <2>2 DEF MarksFit, Ringed, Marks
  <2>4. s = [selected |-> c, rings |-> d.rings \cup {c},
             dimmed |-> (d.dimmed \ v) \cup (v \ ConnectedNodes(c)), missed |-> Node \ v]
    BY <1>2 DEF SelectedMarks
  <2>5. /\ s.selected = c /\ s.rings = {c} /\ s.missed = Node \ v
        /\ s.dimmed = (d.dimmed \ v) \cup (v \ ConnectedNodes(c))
    BY <2>3, <2>4
  <2>6. s \in Marks
    BY <2>3, <2>4 DEF Marks
  <2>7. c # NoNode
    BY GraphAssumption
  <2> QED
    BY <2>3, <2>5, <2>6, <2>7 DEF MarksFit, Ringed, Explained
<1> QED
  BY <1>1, <1>2

LEMMA HighlightedFits ==
  ASSUME NEW v \in SUBSET Node, NEW q \in Queries, NEW m, MarksFit(m, v, q), NEW r \in Queries
  PROVE  MarksFit(Highlighted(m, v, r), v, r)
<1> DEFINE h == Highlighted(m, v, r)
<1>1. m \in Marks
  BY DEF MarksFit
<1> DEFINE e == (m.dimmed \ v) \cup IF r.text THEN v \ r.hits ELSE {}
<1> HIDE DEF e
<1>2. h = [selected |-> m.selected, rings |-> m.rings, dimmed |-> e, missed |-> Node \ v]
  <2>1. h = [m EXCEPT !.dimmed = e, !.missed = Node \ v]
    BY DEF Highlighted, e
  <2> QED
    BY <1>1, <2>1 DEF Marks
<1> USE DEF e
<1>3. h \in Marks
  BY <1>1, <1>2 DEF Marks
<1>4. /\ h.selected = m.selected /\ h.rings = m.rings /\ h.missed = Node \ v
      /\ h.dimmed = (m.dimmed \ v) \cup IF r.text THEN v \ r.hits ELSE {}
  BY <1>2
<1> QED
  BY <1>1, <1>3, <1>4 DEF MarksFit, Ringed, Explained, Marks

LEMMA FilteredFits ==
  ASSUME NEW v \in SUBSET Node, NEW q \in Queries, NEW m, MarksFit(m, v, q), NEW w \in SUBSET Node
  PROVE  MarksFit(Filtered(m, w), w, q)
<1> DEFINE r == [m EXCEPT !.rings = w \cap {m.selected}]
<1>1. m \in Marks
  BY DEF MarksFit
<1>2. r = [selected |-> m.selected, rings |-> w \cap {m.selected}, dimmed |-> m.dimmed, missed |-> m.missed]
  BY <1>1 DEF Marks
<1>3. /\ r.selected = m.selected /\ r.rings = w \cap {m.selected} /\ r.dimmed = m.dimmed /\ r.missed = m.missed
      /\ r \in Marks
  BY <1>1, <1>2 DEF Marks
<1>4. Explained(r, q)
  BY <1>3 DEF MarksFit, Explained
<1>5. CASE m.selected \in w
  <2>1. Filtered(m, w) = r
    BY <1>5 DEF Filtered
  <2> QED
    BY <1>3, <1>4, <1>5, <2>1, GraphAssumption DEF MarksFit, Ringed
<1>6. CASE m.selected \notin w
  <2>1. Filtered(m, w) = Deselected(r, w)
    BY <1>6 DEF Filtered
  <2> QED
    BY <1>3, <1>4, <2>1, DeselectedFits
<1> QED
  BY <1>5, <1>6

LEMMA NoMarksFit ==
  ASSUME NEW v \in SUBSET Node, NEW q \in Queries
  PROVE  MarksFit(NoMarks, v, q)
BY DEF NoMarks, MarksFit, Ringed, Explained, Marks

LEMMA ToggledKeepsOne ==
  ASSUME NEW S, S # {}, NEW T, S \subseteq T, NEW x \in T
  PROVE  Toggled(S, x) \subseteq T /\ Toggled(S, x) # {}
<1>1. CASE x \in S /\ S # {x}
  <2>1. PICK y \in S : y # x
    BY <1>1
  <2> QED
    BY <1>1, <2>1 DEF Toggled
<1> QED
  BY <1>1 DEF Toggled

(* Filters, applied to marks that fit.                                     *)
LEMMA FiltersApplied ==
  ASSUME GraphInv, NEW f \in [status : SUBSET TaskStatus, type : SUBSET TaskType],
         f.status # {}, f.type # {}, NEW m, MarksFit(m, visible, query'), stage # "drawn" => m = marks,
         ApplyFilters(f, m), Stays, query' \in Queries
  PROVE  GraphInv'
<1>1. /\ filters' = f /\ GraphTypeOK /\ TooltipIsOverCard
      /\ UNCHANGED <<stage, look, edges, pointer>>
  BY DEF ApplyFilters, Stays, GraphInv
<1>2. TooltipIsOverCard'
  BY <1>1 DEF TooltipIsOverCard
<1>3. PassingCards(f) \in SUBSET Node /\ PassingCards(filters)' = PassingCards(f)
  BY <1>1 DEF PassingCards
<1>4. CASE stage = "drawn"
  <2>1. visible' = PassingCards(f) /\ marks' = Filtered(m, PassingCards(f)) /\ early' = FALSE
    BY <1>4 DEF ApplyFilters
  <2>2. MarksFit(Filtered(m, PassingCards(f)), PassingCards(f), query')
    BY <1>1, <1>3, FilteredFits DEF GraphTypeOK
  <2>3. MarksFit(marks, visible, query)'
    BY <1>1, <2>1, <2>2 DEF MarksFit, Ringed, Explained, ConnectedNodes
  <2>4. FiltersHold'
    BY <1>1, <1>3, <2>1 DEF FiltersHold
  <2>5. GraphTypeOK'
    BY <1>1, <1>3, <2>1, <2>3 DEF GraphTypeOK, MarksFit, Marks
  <2> QED
    BY <1>1, <1>2, <1>4, <2>3, <2>4, <2>5 DEF GraphInv
<1>5. CASE stage # "drawn"
  <2>1. UNCHANGED <<visible, marks, early>> /\ m = marks /\ marks = NoMarks
    BY <1>5 DEF ApplyFilters, GraphInv
  <2>2. MarksFit(marks, visible, query)'
    BY <1>1, <2>1 DEF MarksFit, Ringed, Explained, ConnectedNodes
  <2>3. GraphTypeOK'
    BY <1>1, <2>1 DEF GraphTypeOK
  <2>4. FiltersHold'
    BY <1>1, <1>5 DEF FiltersHold
  <2> QED
    BY <1>1, <1>2, <1>5, <2>1, <2>2, <2>3, <2>4 DEF GraphInv
<1> QED
  BY <1>4, <1>5

(* A handler that only marks.                                              *)
LEMMA MarksSet ==
  ASSUME GraphInv, Stays, UNCHANGED <<filters, visible, early>>, query' \in Queries,
         MarksFit(marks', visible, query'), stage # "drawn" => marks' = marks
  PROVE  GraphInv'
<1>1. MarksFit(marks, visible, query)'
  BY DEF MarksFit, Ringed, Explained, ConnectedNodes, Stays
<1>2. GraphTypeOK'
  BY DEF GraphInv, GraphTypeOK, MarksFit, Marks, Stays
<1>3. FiltersHold' /\ TooltipIsOverCard'
  BY DEF GraphInv, FiltersHold, TooltipIsOverCard, PassingCards, Stays
<1> QED
  BY <1>1, <1>2, <1>3 DEF GraphInv, Stays

LEMMA SearchKeeps ==
  ASSUME GraphInv, NEW q \in Queries, OnSearchInput(q)
  PROVE  GraphInv'
<1>1. visible \in SUBSET Node /\ query \in Queries /\ MarksFit(marks, visible, query)
  BY DEF GraphInv, GraphTypeOK
<1>2. CASE stage = "drawn"
  BY <1>1, <1>2, HighlightedFits, MarksSet DEF OnSearchInput
<1>3. CASE stage # "drawn"
  BY <1>1, <1>3, NoMarksFit, MarksSet DEF OnSearchInput, GraphInv
<1> QED
  BY <1>2, <1>3

LEMMA ClickKeeps ==
  ASSUME GraphInv
  PROVE  /\ \A c \in Node : ClickCard(c) => GraphInv'
         /\ ClickBeside => GraphInv'
<1>1. visible \in SUBSET Node /\ query \in Queries /\ MarksFit(marks, visible, query)
  BY DEF GraphInv, GraphTypeOK
<1>2. ASSUME NEW c \in Node, ClickCard(c) PROVE GraphInv'
  <2>1. c \in visible /\ Mark(SelectedMarks(marks, visible, c))
    BY <1>2 DEF ClickCard
  <2> QED
    BY <1>1, <2>1, SelectedFits, MarksSet DEF Mark
<1>3. ASSUME ClickBeside PROVE GraphInv'
  <2>1. Mark(Deselected(marks, visible))
    BY <1>3 DEF ClickBeside
  <2>2. marks.rings \subseteq {marks.selected} /\ marks \in Marks /\ Explained(marks, query)
    BY <1>1 DEF MarksFit, Ringed
  <2> QED
    BY <1>1, <2>1, <2>2, DeselectedFits, MarksSet DEF Mark
<1> QED
  BY <1>2, <1>3

LEMMA ResetKeeps ==
  ASSUME GraphInv, ResetView
  PROVE  GraphInv'
<1> DEFINE d == Deselected(marks, visible)
           h == Highlighted(d, visible, NoQuery)
<1>1. visible \in SUBSET Node /\ query \in Queries /\ NoQuery \in Queries /\ MarksFit(marks, visible, query)
  BY DEF GraphInv, GraphTypeOK, Queries
<1>2. MarksFit(d, visible, query)
  BY <1>1, DeselectedFits DEF MarksFit, Ringed
<1>3. MarksFit(h, visible, NoQuery)
  BY <1>1, <1>2, HighlightedFits
<1>4. AllOn \in [status : SUBSET TaskStatus, type : SUBSET TaskType] /\ AllOn.status # {} /\ AllOn.type # {}
  BY GraphAssumption DEF AllOn
<1>5. query' = NoQuery /\ Stays /\ ApplyFilters(AllOn, h)
  BY DEF ResetView
<1>6. CASE stage = "drawn"
  BY <1>1, <1>3, <1>4, <1>5, <1>6, FiltersApplied
<1>7. CASE stage # "drawn"
  <2>1. ApplyFilters(AllOn, marks) /\ marks = NoMarks
    BY <1>5, <1>7 DEF ApplyFilters, GraphInv
  <2>2. MarksFit(marks, visible, query')
    BY <1>1, <1>5, <2>1, NoMarksFit
  <2> QED
    BY <1>1, <1>4, <1>5, <2>1, <2>2, FiltersApplied
<1> QED
  BY <1>6, <1>7

LEMMA ToggleKeeps ==
  ASSUME GraphInv
  PROVE  /\ \A s \in TaskStatus : ToggleStatusFilter(s) => GraphInv'
         /\ \A t \in TaskType : ToggleTypeFilter(t) => GraphInv'
<1>1. /\ filters \in [status : SUBSET TaskStatus, type : SUBSET TaskType] /\ query \in Queries
      /\ filters.status # {} /\ filters.type # {} /\ MarksFit(marks, visible, query)
  BY DEF GraphInv, GraphTypeOK, FiltersHold
<1>2. ASSUME NEW s \in TaskStatus, ToggleStatusFilter(s) PROVE GraphInv'
  <2> DEFINE f == [filters EXCEPT !.status = Toggled(@, s)]
  <2>1. f = [status |-> Toggled(filters.status, s), type |-> filters.type]
    BY <1>1
  <2>2. Toggled(filters.status, s) \subseteq TaskStatus /\ Toggled(filters.status, s) # {}
    BY <1>1, ToggledKeepsOne
  <2>3. f \in [status : SUBSET TaskStatus, type : SUBSET TaskType] /\ f.status # {} /\ f.type # {}
    BY <1>1, <2>1, <2>2
  <2> QED
    BY <1>1, <1>2, <2>3, FiltersApplied DEF ToggleStatusFilter
<1>3. ASSUME NEW t \in TaskType, ToggleTypeFilter(t) PROVE GraphInv'
  <2> DEFINE f == [filters EXCEPT !.type = Toggled(@, t)]
  <2>1. f = [status |-> filters.status, type |-> Toggled(filters.type, t)]
    BY <1>1
  <2>2. Toggled(filters.type, t) \subseteq TaskType /\ Toggled(filters.type, t) # {}
    BY <1>1, ToggledKeepsOne
  <2>3. f \in [status : SUBSET TaskStatus, type : SUBSET TaskType] /\ f.status # {} /\ f.type # {}
    BY <1>1, <2>1, <2>2
  <2> QED
    BY <1>1, <1>3, <2>3, FiltersApplied DEF ToggleTypeFilter
<1> QED
  BY <1>2, <1>3

LEMMA GraphStep == GraphInv /\ [GraphNext]_graphVars => GraphInv'
<1> SUFFICES ASSUME GraphInv, [GraphNext]_graphVars PROVE GraphInv'
  OBVIOUS
<1> USE DEF GraphInv
<1>1. CASE GraphLoaded \/ GraphEmpty
  BY <1>1 DEF GraphLoaded, GraphEmpty, GraphTypeOK, FiltersHold, TooltipIsOverCard, MarksFit, Ringed, Explained,
     ConnectedNodes
<1>2. CASE BuildGraph
  <2>1. /\ stage' = "drawn" /\ visible' = Node /\ early' = (filters # AllOn) /\ marks = NoMarks
        /\ UNCHANGED <<look, edges, filters, query, marks, pointer>>
    BY <1>2 DEF BuildGraph
  <2>2. MarksFit(NoMarks, Node, query)
    BY NoMarksFit DEF GraphTypeOK
  <2>3. MarksFit(marks, visible, query)'
    BY <2>1, <2>2 DEF MarksFit, Ringed, Explained, ConnectedNodes
  <2>4. filters = AllOn => PassingCards(filters) = Node
    BY DEF PassingCards, AllOn, GraphTypeOK, Look
  <2>5. FiltersHold'
    BY <2>1, <2>4 DEF FiltersHold, PassingCards
  <2>6. GraphTypeOK' /\ TooltipIsOverCard'
    BY <2>1 DEF GraphTypeOK, TooltipIsOverCard
  <2> QED
    BY <2>1, <2>3, <2>5, <2>6
<1>3. CASE \E c \in Node : SelectNodeById(c)
  BY <1>3, ClickKeeps DEF SelectNodeById
<1>4. CASE Escape
  <2>1. NoQuery \in Queries
    BY DEF Queries
  <2> QED
    BY <1>4, <2>1, SearchKeeps, ClickKeeps DEF Escape
<1>5. CASE MouseLeave
  <2>1. pointer' = [pointer EXCEPT !.at = NoNode, !.up = FALSE]
        /\ UNCHANGED <<stage, look, edges, filters, query, visible, marks, early>>
    BY <1>5 DEF MouseLeave
  <2> QED
    BY <2>1 DEF GraphTypeOK, FiltersHold, TooltipIsOverCard, MarksFit, Ringed, Explained, ConnectedNodes, PassingCards
<1>6. ASSUME NEW c \in Node \cup {NoNode}, UpdateHover(c) PROVE GraphInv'
  <2>1. /\ c \in visible \cup {NoNode}
        /\ pointer' = IF c = NoNode THEN [pointer EXCEPT !.at = NoNode, !.up = FALSE]
                      ELSE IF c \in marks.dimmed THEN [pointer EXCEPT !.at = c]
                      ELSE [at |-> c, tip |-> c, up |-> TRUE]
        /\ UNCHANGED <<stage, look, edges, filters, query, visible, marks, early>>
    BY <1>6 DEF UpdateHover
  <2>2. /\ pointer' \in [at : Node \cup {NoNode}, tip : Node \cup {NoNode}, up : BOOLEAN]
        /\ pointer'.up => pointer'.at # NoNode
    BY <2>1 DEF GraphTypeOK
  <2> QED
    BY <2>1, <2>2 DEF GraphTypeOK, FiltersHold, TooltipIsOverCard, MarksFit, Ringed, Explained, ConnectedNodes,
       PassingCards
<1>7. CASE UNCHANGED graphVars
  BY <1>7 DEF graphVars, GraphTypeOK, FiltersHold, TooltipIsOverCard, MarksFit, Ringed, Explained, ConnectedNodes,
     PassingCards
<1> QED
  BY <1>1, <1>2, <1>3, <1>4, <1>5, <1>6, <1>7, SearchKeeps, ClickKeeps, ResetKeeps, ToggleKeeps DEF GraphNext

LEMMA GraphStarts == GraphInit => GraphInv
<1> SUFFICES ASSUME GraphInit PROVE GraphInv
  OBVIOUS
<1>1. stage \in {"none", "loading"} /\ visible = {} /\ marks = NoMarks /\ pointer = AtNothing /\ early = FALSE
      /\ filters = AllOn /\ query = NoQuery
  BY DEF GraphInit
<1>2. NoQuery \in Queries /\ MarksFit(NoMarks, {}, NoQuery)
  BY NoMarksFit DEF Queries
<1>3. Look # {}
  <2>1. PICK s \in TaskStatus, t \in TaskType : TRUE
    BY GraphAssumption
  <2>2. [status |-> s, type |-> t] \in Look
    BY DEF Look
  <2> QED
    BY <2>2
<1>4. look \in [Node -> Look]
  BY <1>3 DEF GraphInit
<1>5. edges \subseteq Node \X Node
  BY DEF GraphInit
<1>6. GraphTypeOK
  BY <1>1, <1>2, <1>4, <1>5 DEF GraphTypeOK, AllOn, NoMarks, AtNothing
<1>7. FiltersHold /\ TooltipIsOverCard
  BY <1>1, GraphAssumption DEF FiltersHold, TooltipIsOverCard, AllOn, AtNothing
<1> QED
  BY <1>1, <1>2, <1>6, <1>7 DEF GraphInv

(* The types of the graph.                                                 *)
THEOREM GraphTyped == GraphSpec => []GraphTypeOK
<1>1. GraphInv => GraphTypeOK
  BY DEF GraphInv
<1> QED
  BY <1>1, GraphStarts, GraphStep, PTL DEF GraphSpec

(* However filters, search, selection and mouse are used in                *)
(* dependency-graph.ts, the cards shown are those that pass, the card      *)
(* selected is shown and alone ringed, and a dimmed card has a reason.     *)
THEOREM GraphShowsChoices == GraphSpec => []GraphFollows
<1>1. GraphInv => GraphFollows
  BY DEF GraphInv, GraphFollows, SelectionIsVisible, NoStrayRing, DimmedHasReason, MarksFit, Ringed, Explained
<1> QED
  BY <1>1, GraphStarts, GraphStep, PTL DEF GraphSpec
-----------------------------------------------------------------------------
(* The pages of a project.  What the address says holds while the page is  *)
(* loading, too; and no address names an invocation.                       *)
Named ==
  address.item # NoItem =>
    /\ address.tab # "invocations"
    /\ \/ tab = address.tab /\ open[tab] = address.item
       \/ address.tab = "tasks" /\ tab # "tasks"
       \/ address.tab = "plans" /\ tab = "plans"

KeepsTab ==
  address \in Routed /\ tab # "invocations" /\ (address.item # NoItem => address.tab # "tasks") =>
    TabOf(address) = tab

SiteInv ==
  /\ SiteTypeOK /\ creating + joining <= steps
  /\ site = "project" => Named /\ KeepsTab

LEMMA AtIsAddress ==
  /\ \A t \in Tab : /\ At(t) \in Address /\ At(t).tab = t /\ At(t).item = NoItem
                    /\ t \in ValidTab => TabOf(At(t)) = t
  /\ \A t \in Tab, i \in Item : AtItem(t, i) \in Address /\ AtItem(t, i).tab = t /\ AtItem(t, i).item = i
                                /\ (t \in RecordParam => TabOf(AtItem(t, i)) = t)
BY ItemAssumption DEF At, AtItem, Address, TabOf

LEMMA RoutedIsAddress ==
  ASSUME NEW a \in Routed
  PROVE  /\ a \in Address /\ TabOf(a) \in Tab /\ OpenOf(a) \in [RecordTab -> Item \cup {NoItem}]
         /\ a.item # NoItem => a.tab \in {"tasks", "plans", "agents", "workspaces"}
<1>1. CASE a \in TabRoute
  <2>1. PICK t \in Tab : a = At(t)
    BY <1>1 DEF TabRoute
  <2> QED
    BY <2>1, AtIsAddress DEF TabOf, OpenOf, Tab, ValidTab, Address
<1>2. CASE a \in RecordRoutes
  <2>1. PICK t \in {"tasks", "plans", "agents", "workspaces"}, i \in Item : a = AtItem(t, i)
    BY <1>2 DEF RecordRoutes
  <2>2. t \in Tab
    BY DEF Tab
  <2>3. a \in Address /\ a.tab = t /\ a.item = i
    BY <2>1, <2>2, AtIsAddress
  <2> QED
    BY <2>3 DEF TabOf, OpenOf, Tab, ValidTab, RecordParam, RecordTab
<1> QED
  BY <1>1, <1>2 DEF Routed

(* The page that is loaded for an address agrees with it.                  *)
LEMMA LoadedAgrees ==
  ASSUME NEW a \in Routed, address = a, tab = TabOf(a), open = OpenOf(a)
  PROVE  Named /\ KeepsTab
<1>1. a.item # NoItem => a.tab \in {"tasks", "plans", "agents", "workspaces"}
  BY RoutedIsAddress
<1>2. ASSUME a.item # NoItem, a.tab # "tasks" PROVE tab = a.tab /\ open[tab] = a.item
  BY <1>1, <1>2 DEF TabOf, OpenOf, RecordParam, RecordTab
<1>3. ASSUME a.item # NoItem, a.tab = "tasks" PROVE tab # "tasks"
  BY <1>3 DEF TabOf, RecordParam
<1> QED
  BY <1>1, <1>2, <1>3 DEF Named, KeepsTab

LEMMA ArriveKeeps ==
  ASSUME NEW a \in Address, Arrive(a), steps' \in 0 .. MaxSteps, errors' \in 0 .. MaxErrors,
         creating' \in 0 .. MaxSteps, joining' \in 0 .. MaxSteps, creating' + joining' <= steps'
  PROVE  SiteInv'
<1>1. CASE a \in Routed
  <2>1. /\ address' = a /\ site' = "project" /\ tab' = TabOf(a) /\ open' = OpenOf(a)
        /\ fetches' = 2 /\ spinner' = TRUE /\ known' = FALSE /\ dialogUp' = FALSE
    BY <1>1 DEF Arrive
  <2>2. TabOf(a) \in Tab /\ OpenOf(a) \in [RecordTab -> Item \cup {NoItem}]
    BY <1>1, RoutedIsAddress
  <2>3. SiteTypeOK'
    <3>1. site' \in {"project", "session", "blank", "none"} /\ fetches' \in 0 .. 2
      BY <2>1
    <3>2. tab' \in Tab /\ open' \in [RecordTab -> Item \cup {NoItem}] /\ address' \in Address
      BY <2>1, <2>2
    <3>3. spinner' \in BOOLEAN /\ known' \in BOOLEAN /\ dialogUp' \in BOOLEAN
      BY <2>1
    <3> QED
      BY <3>1, <3>2, <3>3 DEF SiteTypeOK
  <2>4. a.item # NoItem => a.tab \in {"tasks", "plans", "agents", "workspaces"}
    BY <1>1, RoutedIsAddress
  <2>5. ASSUME a.item # NoItem, a.tab # "tasks" PROVE tab' = a.tab /\ open'[tab'] = a.item
    BY <2>1, <2>4, <2>5 DEF TabOf, OpenOf, RecordParam, RecordTab
  <2>6. ASSUME a.item # NoItem, a.tab = "tasks" PROVE tab' # "tasks"
    BY <2>1, <2>6 DEF TabOf, RecordParam
  <2>7. Named' /\ KeepsTab'
    BY <2>1, <2>4, <2>5, <2>6 DEF Named, KeepsTab
  <2> QED
    BY <2>3, <2>7 DEF SiteInv
<1>2. CASE a \notin Routed
  <2>1. /\ address' = a /\ site' = "blank" /\ tab' = "overview" /\ open' = [t \in RecordTab |-> NoItem]
        /\ fetches' = 0 /\ spinner' = FALSE /\ known' = FALSE /\ dialogUp' = FALSE
    BY <1>2 DEF Arrive
  <2>2. site' \in {"project", "session", "blank", "none"} /\ fetches' \in 0 .. 2
    BY <2>1
  <2>3. tab' \in Tab /\ open' \in [RecordTab -> Item \cup {NoItem}] /\ address' \in Address
    BY <2>1 DEF Tab
  <2>4. spinner' \in BOOLEAN /\ known' \in BOOLEAN /\ dialogUp' \in BOOLEAN
    BY <2>1
  <2> QED
    BY <2>1, <2>2, <2>3, <2>4 DEF SiteInv, SiteTypeOK
<1> QED
  BY <1>1, <1>2

(* A step of the user that leads to a tab, or opens or closes a record.    *)
LEMMA OneMore ==
  ASSUME NEW a \in Nat, NEW b \in Nat, NEW c \in Nat, NEW d \in Nat, a + b <= c, d <= a + 1
  PROVE  d + b <= c + 1
  OBVIOUS

LEMMA StepKeeps ==
  ASSUME SiteInv, Step, tab' \in Tab, open' \in [RecordTab -> Item \cup {NoItem}], address' \in Address,
         dialogUp' \in BOOLEAN, creating' \in 0 .. MaxSteps, creating' <= creating + 1,
         Named', KeepsTab'
  PROVE  SiteInv'
<1>1. /\ site = "project" /\ steps \in 0 .. MaxSteps /\ steps < MaxSteps /\ steps' = steps + 1
      /\ UNCHANGED <<site, fetches, spinner, known, joining, errors>>
  BY DEF Step, Shown, SiteInv, SiteTypeOK
<1>2. steps' \in 0 .. MaxSteps /\ creating' + joining' <= steps'
  <2>1. /\ MaxSteps \in Nat /\ creating \in 0 .. MaxSteps /\ joining \in 0 .. MaxSteps
        /\ creating + joining <= steps
    BY ItemAssumption DEF SiteInv, SiteTypeOK
  <2>2. creating' \in Nat /\ creating \in Nat /\ joining \in Nat /\ steps \in Nat /\ creating' <= creating + 1
    BY <1>1, <2>1
  <2>3. creating' + joining <= steps + 1
    <3>1. creating + joining <= steps
      BY <2>1
    <3> QED
      BY <3>1, <2>2, OneMore
  <2>4. steps + 1 \in 0 .. MaxSteps
    BY <1>1, <2>1, <2>2
  <2> QED
    BY <1>1, <2>3, <2>4
<1>3. SiteTypeOK'
  BY <1>1, <1>2 DEF SiteInv, SiteTypeOK
<1> QED
  BY <1>2, <1>3 DEF SiteInv

LEMMA OpenKeeps ==
  ASSUME SiteInv, NEW t \in RecordTab, NEW i \in Item, NEW a,
         \/ t \in {"requirements", "requests", "agents", "workspaces", "tasks"} /\ a = AtItem(t, i)
         \/ t \in {"plans", "invocations"} /\ a = address,
         OpenIn(t, i, a)
  PROVE  SiteInv'
<1>1. /\ Step /\ Stay /\ tab = t /\ open[t] = NoItem /\ open' = [open EXCEPT ![t] = i] /\ address' = a
      /\ tab' = tab
  BY DEF OpenIn
<1>2. /\ SiteTypeOK /\ Named /\ KeepsTab
  BY <1>1 DEF SiteInv, Step, Shown
<1>3. t \in Tab /\ open'[t] = i /\ open' \in [RecordTab -> Item \cup {NoItem}]
  BY <1>1, <1>2 DEF SiteTypeOK, Tab, RecordTab
<1>4. a \in Address
  BY <1>2, <1>3, AtIsAddress DEF SiteTypeOK
<1>5. Named'
  <2>1. CASE t \in {"requirements", "requests", "agents", "workspaces", "tasks"} /\ a = AtItem(t, i)
    BY <1>1, <1>3, <2>1, AtIsAddress DEF Named
  <2>2. CASE t \in {"plans", "invocations"} /\ a = address
    BY <1>1, <1>2, <1>3, <2>2 DEF Named
  <2> QED
    BY <2>1, <2>2
<1>6. KeepsTab'
  <2>1. CASE t \in {"agents", "workspaces", "tasks"} /\ a = AtItem(t, i)
    <3>1. a.item = i /\ a.tab = t /\ (t # "tasks" => TabOf(a) = t)
      BY <1>3, <2>1, AtIsAddress DEF RecordParam
    <3> QED
      BY <1>1, <3>1, ItemAssumption DEF KeepsTab
  <2>2. CASE t \in {"requirements", "requests"} /\ a = AtItem(t, i)
    <3>1. a.item = i /\ a.tab = t
      BY <1>3, <2>2, AtIsAddress
    <3> QED
      BY <1>1, <2>2, <3>1, ItemAssumption, RoutedIsAddress DEF KeepsTab
  <2>3. CASE t \in {"plans", "invocations"} /\ a = address
    BY <1>1, <1>2, <2>3 DEF KeepsTab
  <2> QED
    BY <2>1, <2>2, <2>3
<1> QED
  BY <1>1, <1>2, <1>3, <1>4, <1>5, <1>6, StepKeeps DEF Stay, SiteTypeOK

LEMMA CloseKeeps ==
  ASSUME SiteInv, NEW t \in RecordTab, NEW a,
         \/ t \in {"requirements", "requests", "agents", "workspaces", "tasks"} /\ a = At(t)
         \/ t \in {"plans", "invocations"} /\ a = address,
         CloseIn(t, a)
  PROVE  SiteInv'
<1>1. /\ Step /\ Stay /\ tab = t /\ open' = [open EXCEPT ![t] = NoItem] /\ address' = a
      /\ tab' = tab
  BY DEF CloseIn
<1>2. /\ SiteTypeOK /\ Named /\ KeepsTab
  BY <1>1 DEF SiteInv, Step, Shown
<1>3. t \in Tab /\ open' \in [RecordTab -> Item \cup {NoItem}]
  BY <1>1, <1>2 DEF SiteTypeOK, Tab, RecordTab
<1>4. a \in Address
  BY <1>2, <1>3, AtIsAddress DEF SiteTypeOK
<1>5. CASE t \in {"requirements", "requests", "agents", "workspaces", "tasks"} /\ a = At(t)
  <2>1. a.item = NoItem /\ TabOf(a) = t
    BY <1>3, <1>5, AtIsAddress DEF ValidTab
  <2>2. Named' /\ KeepsTab'
    BY <1>1, <2>1 DEF Named, KeepsTab
  <2> QED
    BY <1>1, <1>2, <1>3, <1>4, <2>2, StepKeeps DEF Stay, SiteTypeOK
<1>6. CASE t \in {"plans", "invocations"} /\ a = address
  <2>1. Named' /\ KeepsTab'
    BY <1>1, <1>2, <1>6 DEF Named, KeepsTab
  <2> QED
    BY <1>1, <1>2, <1>3, <1>4, <2>1, StepKeeps DEF Stay, SiteTypeOK
<1> QED
  BY <1>5, <1>6

(* A step of the user to a tab whose address is the tab's, or to a         *)
(* workspace.                                                              *)
LEMMA TabKeeps ==
  ASSUME SiteInv, Step, Stay, NEW t \in Tab, tab' = t,
         \/ address' = At(t)
         \/ t = "workspaces" /\ \E i \in Item : address' = AtItem(t, i) /\ open'[t] = i,
         open' \in [RecordTab -> Item \cup {NoItem}]
  PROVE  SiteInv'
<1>1. SiteTypeOK
  BY DEF SiteInv
<1>2. CASE address' = At(t)
  <2>1. address'.item = NoItem /\ address' \in Address /\ (t # "invocations" => TabOf(address') = t)
    BY <1>2, AtIsAddress DEF Tab, ValidTab
  <2>2. Named' /\ KeepsTab'
    BY <2>1 DEF Named, KeepsTab, TabOf
  <2> QED
    BY <1>1, <2>1, <2>2, StepKeeps DEF Stay, SiteTypeOK
<1>3. CASE t = "workspaces" /\ \E i \in Item : address' = AtItem(t, i) /\ open'[t] = i
  <2>1. PICK i \in Item : address' = AtItem(t, i) /\ open'[t] = i
    BY <1>3
  <2>2. address'.item = i /\ address'.tab = t /\ address' \in Address /\ TabOf(address') = t
    BY <1>3, <2>1, AtIsAddress DEF RecordParam
  <2>3. Named' /\ KeepsTab'
    BY <1>3, <2>1, <2>2 DEF Named, KeepsTab, TabOf
  <2> QED
    BY <1>1, <2>2, <2>3, StepKeeps DEF Stay, SiteTypeOK
<1> QED
  BY <1>2, <1>3

(* Steps that leave tab, record and address alone, or leave the project.   *)
LEMMA SitePlain ==
  ASSUME SiteInv,
         \/ ProjectLoaded \/ ProjectLoadFails \/ NewSession \/ CreateSession \/ JoinSession \/ SessionOpened
         \/ SessionRefused \/ UNCHANGED siteVars
  PROVE  SiteInv'
<1> DEFINE Same == Named' /\ KeepsTab' <=> Named /\ KeepsTab
<1>1. ASSUME UNCHANGED <<tab, open, address>> PROVE Same
  BY <1>1 DEF Named, KeepsTab, TabOf
<1> HIDE DEF Same
<1>2. SiteTypeOK /\ creating + joining <= steps /\ MaxSteps \in Nat /\ MaxErrors \in Nat
  BY ItemAssumption DEF SiteInv
<1>3. CASE ProjectLoaded \/ ProjectLoadFails
  <2>1. /\ UNCHANGED <<site, tab, open, address, dialogUp, creating, joining, steps>>
        /\ fetches > 0 /\ fetches' = fetches - 1 /\ spinner' = FALSE /\ known' \in {known, TRUE}
        /\ UNCHANGED errors \/ (errors < MaxErrors /\ errors' = errors + 1)
    BY <1>3 DEF ProjectLoaded, ProjectLoadFails
  <2>2. fetches' \in 0 .. 2 /\ errors' \in 0 .. MaxErrors
    BY <1>2, <2>1 DEF SiteTypeOK
  <2>3. spinner' \in BOOLEAN /\ known' \in BOOLEAN
    BY <1>2, <2>1 DEF SiteTypeOK
  <2>4. SiteTypeOK'
    BY <1>2, <2>1, <2>2, <2>3 DEF SiteTypeOK
  <2> QED
    BY <1>1, <1>2, <2>1, <2>4 DEF SiteInv, Same
<1>4. CASE NewSession \/ CreateSession
  <2>1. Same /\ Step /\ UNCHANGED <<tab, open, address>> /\ site = "project" /\ steps < MaxSteps
    BY <1>1, <1>4 DEF NewSession, CreateSession, Step, Shown
  <2>2. Named' /\ KeepsTab'
    BY <2>1 DEF SiteInv, Same
  <2>3. dialogUp' \in BOOLEAN
    BY <1>2, <1>4 DEF NewSession, CreateSession, SiteTypeOK
  <2>4. creating' \in {creating, creating + 1}
    BY <1>4 DEF NewSession, CreateSession
  <2>5. creating' \in 0 .. MaxSteps /\ creating' <= creating + 1
    BY <1>2, <2>1, <2>4 DEF SiteTypeOK
  <2> QED
    BY <1>2, <2>1, <2>2, <2>3, <2>5, StepKeeps DEF SiteTypeOK
<1>5. CASE JoinSession
  <2>1. /\ Same /\ steps < MaxSteps /\ steps' = steps + 1 /\ joining' = joining + 1
        /\ UNCHANGED <<site, tab, open, address, fetches, spinner, known, dialogUp, creating, errors>>
    BY <1>1, <1>5 DEF JoinSession, SessionCards
  <2>2. SiteTypeOK' /\ creating' + joining' <= steps'
    BY <1>2, <2>1 DEF SiteTypeOK
  <2> QED
    BY <2>1, <2>2 DEF SiteInv, Same
<1>6. CASE SessionOpened
  <2>1. /\ \/ creating > 0 /\ creating' = creating - 1 /\ UNCHANGED joining
           \/ joining > 0 /\ joining' = joining - 1 /\ UNCHANGED creating
        /\ site' = "session" /\ fetches' = 0 /\ spinner' = FALSE /\ known' = FALSE /\ dialogUp' = FALSE
        /\ tab' = "overview" /\ open' = [t \in RecordTab |-> NoItem] /\ address' = At("overview")
        /\ UNCHANGED <<steps, errors>>
    BY <1>6 DEF SessionOpened
  <2>2. "overview" \in Tab /\ address' \in Address
    BY <2>1, AtIsAddress DEF Tab
  <2>3. /\ creating' \in 0 .. MaxSteps /\ joining' \in 0 .. MaxSteps /\ creating' + joining' <= steps'
        /\ fetches' \in 0 .. 2
    BY <1>2, <2>1 DEF SiteTypeOK
  <2>4. spinner' \in BOOLEAN /\ known' \in BOOLEAN /\ dialogUp' \in BOOLEAN
    BY <2>1
  <2>5. site' \in {"project", "session", "blank", "none"} /\ open' \in [RecordTab -> Item \cup {NoItem}]
    BY <2>1
  <2>6. SiteTypeOK'
    BY <1>2, <2>1, <2>2, <2>3, <2>4, <2>5 DEF SiteTypeOK
  <2> QED
    BY <2>1, <2>3, <2>6 DEF SiteInv
<1>7. CASE SessionRefused
  <2>1. /\ Same /\ errors < MaxErrors /\ errors' = errors + 1
        /\ \/ creating > 0 /\ creating' = creating - 1 /\ UNCHANGED joining
           \/ joining > 0 /\ joining' = joining - 1 /\ UNCHANGED creating
        /\ UNCHANGED <<site, tab, open, address, fetches, spinner, known, dialogUp, steps>>
    BY <1>1, <1>7 DEF SessionRefused
  <2>2. SiteTypeOK' /\ creating' + joining' <= steps'
    BY <1>2, <2>1 DEF SiteTypeOK
  <2> QED
    BY <2>1, <2>2 DEF SiteInv, Same
<1>8. CASE UNCHANGED siteVars
  <2>1. Same /\ SiteTypeOK' /\ UNCHANGED <<site, creating, joining, steps>>
    BY <1>1, <1>2, <1>8 DEF siteVars, SiteTypeOK
  <2> QED
    BY <2>1 DEF SiteInv, Same
<1> QED
  BY <1>3, <1>4, <1>5, <1>6, <1>7, <1>8

LEMMA SiteStep == SiteInv /\ [SiteNext]_siteVars => SiteInv'
<1> SUFFICES ASSUME SiteInv, [SiteNext]_siteVars PROVE SiteInv'
  OBVIOUS
<1>1. SiteTypeOK /\ MaxSteps \in Nat /\ MaxErrors \in Nat
  BY ItemAssumption DEF SiteInv
<1>2. RecordTab \subseteq Tab
  BY DEF RecordTab, Tab
<1>3. CASE Reload
  <2>1. /\ Arrive(address) /\ steps' \in 0 .. MaxSteps /\ errors' \in 0 .. MaxErrors /\ address \in Address
        /\ creating' = 0 /\ joining' = 0
    BY <1>1, <1>3 DEF Reload, SiteTypeOK
  <2> QED
    BY <1>1, <2>1, ArriveKeeps
<1>4. CASE ComeBack
  <2>1. /\ Arrive(At("overview")) /\ steps' = steps + 1 /\ steps < MaxSteps
        /\ UNCHANGED <<creating, joining, errors>>
    BY <1>4 DEF ComeBack
  <2>2. At("overview") \in Address
    BY AtIsAddress DEF Tab
  <2>3. steps' \in 0 .. MaxSteps /\ creating' + joining' <= steps'
    BY <1>1, <2>1 DEF SiteTypeOK, SiteInv
  <2> QED
    BY <1>1, <2>1, <2>2, <2>3, ArriveKeeps DEF SiteTypeOK
<1>5. CASE \/ CloseRequirement \/ CloseRequest \/ ClosePlan \/ CloseAgent \/ CloseInvocation
           \/ CloseWorkspace \/ CloseTask
  BY <1>5, CloseKeeps DEF CloseRequirement, CloseRequest, ClosePlan, CloseAgent, CloseInvocation, CloseWorkspace,
     CloseTask, RecordTab
<1>6. ASSUME NEW i \in Item,
             \/ OpenRequirement(i) \/ OpenRequest(i) \/ OpenPlan(i) \/ OpenAgent(i) \/ OpenInvocation(i)
             \/ OpenWorkspace(i) \/ OpenTask(i)
      PROVE  SiteInv'
  BY <1>6, OpenKeeps DEF OpenRequirement, OpenRequest, OpenPlan, OpenAgent, OpenInvocation, OpenWorkspace, OpenTask,
     RecordTab
<1>7. ASSUME NEW t \in Tab, SwitchTab(t) PROVE SiteInv'
  <2>1. Step /\ Stay /\ tab' = t /\ address' = At(t)
    BY <1>7 DEF SwitchTab
  <2>2. open' \in [RecordTab -> Item \cup {NoItem}]
    BY <1>1, <1>7 DEF SwitchTab, SiteTypeOK
  <2> QED
    BY <2>1, <2>2, TabKeeps
<1>8. ASSUME NEW i \in Item, OverviewOpensWorkspace(i) PROVE SiteInv'
  <2>1. /\ Step /\ Stay /\ tab' = "workspaces" /\ address' = AtItem("workspaces", i)
        /\ open' = [open EXCEPT !["workspaces"] = i]
    BY <1>8 DEF OverviewOpensWorkspace
  <2>2. open' \in [RecordTab -> Item \cup {NoItem}] /\ open'["workspaces"] = i
    BY <1>1, <2>1 DEF SiteTypeOK, RecordTab
  <2>3. "workspaces" \in Tab
    BY DEF Tab
  <2> QED
    BY <2>1, <2>2, <2>3, TabKeeps
<1>9. ASSUME NEW i \in Item, InvocationMade(i) PROVE SiteInv'
  <2>1. /\ Step /\ Stay /\ tab' = "invocations" /\ address' = At("invocations")
        /\ open' = [open EXCEPT !["invocations"] = i, !["tasks"] = NoItem]
    BY <1>9 DEF InvocationMade
  <2>2. open' \in [RecordTab -> Item \cup {NoItem}]
    BY <1>1, <2>1 DEF SiteTypeOK
  <2>3. "invocations" \in Tab
    BY DEF Tab
  <2> QED
    BY <2>1, <2>2, <2>3, TabKeeps
<1>10. CASE \/ ProjectLoaded \/ ProjectLoadFails \/ NewSession \/ CreateSession \/ JoinSession \/ SessionOpened
            \/ SessionRefused \/ UNCHANGED siteVars
  BY <1>10, SitePlain
<1> QED
  BY <1>3, <1>4, <1>5, <1>6, <1>7, <1>8, <1>9, <1>10 DEF SiteNext

LEMMA SiteStarts == SiteInit => SiteInv
<1> SUFFICES ASSUME SiteInit PROVE SiteInv
  OBVIOUS
<1>1. At("overview") \in Routed
  BY DEF Routed, TabRoute, Tab
<1>2. address \in Routed /\ tab = TabOf(address) /\ open = OpenOf(address)
  BY <1>1 DEF SiteInit
<1>3. Named /\ KeepsTab
  BY <1>2, LoadedAgrees
<1>4. address \in Address /\ TabOf(address) \in Tab /\ OpenOf(address) \in [RecordTab -> Item \cup {NoItem}]
  BY <1>2, RoutedIsAddress
<1>5. /\ site \in {"project", "none"} /\ fetches \in {0, 2} /\ spinner = TRUE /\ known = FALSE
      /\ dialogUp = FALSE /\ creating = 0 /\ joining = 0 /\ steps = 0 /\ errors = 0
  BY DEF SiteInit
<1>6. /\ fetches \in 0 .. 2 /\ creating \in 0 .. MaxSteps /\ joining \in 0 .. MaxSteps
      /\ steps \in 0 .. MaxSteps /\ errors \in 0 .. MaxErrors /\ creating + joining <= steps
  BY <1>5, ItemAssumption
<1>7. spinner \in BOOLEAN /\ known \in BOOLEAN /\ dialogUp \in BOOLEAN
  BY <1>5
<1>8. SiteTypeOK
  BY <1>2, <1>4, <1>5, <1>6, <1>7 DEF SiteTypeOK
<1> QED
  BY <1>3, <1>6, <1>8 DEF SiteInv

(* The types of the project's page.                                        *)
THEOREM SiteTyped == SiteSpec => []SiteTypeOK
<1>1. SiteInv => SiteTypeOK
  BY DEF SiteInv
<1> QED
  BY <1>1, SiteStarts, SiteStep, PTL DEF SiteSpec

(* However the user moves in project-workspace.ts, the address names no    *)
(* other record than the one shown, and loading it again shows the tab.    *)
THEOREM AddressNames == SiteSpec => []AddressFollows
<1>1. SiteInv => AddressFollows
  BY DEF SiteInv, AddressFollows, AddressNamesShown, ReloadKeepsTab, Named, KeepsTab, Shown
<1> QED
  BY <1>1, SiteStarts, SiteStep, PTL DEF SiteSpec
-----------------------------------------------------------------------------
(* The pages that watch.  An invocation's page that does not ask any more  *)
(* has either not loaded, or has shown that all is over and waits for one  *)
(* poll at most, or has been given an answer that was older than that.     *)
WatchFacts == <<watch, screen, up, loading, ticking, asks, lapsed, old>>

NoOrders  == watch = "invocation" => \A x \in Thing : orders[x] = "none"
PollsOnly == watch # "invocation" => \A i \in AskId : asks[i] # Unknown => ~asks[i].poll

Unloaded  == (\A x \in Thing : screen[x] = Unknown) /\ asks[2] = Unknown /\ (asks[1] # Unknown => ~asks[1].poll)
Ended     == (\A x \in Thing : Final(screen[x])) /\ (asks[1] = Unknown \/ asks[2] = Unknown)
AnswerOld == asks[1] = Unknown /\ asks[2] = Unknown /\ old

ListWatched ==
  watch \in {"workspaces", "workspace"} /\ up /\ (\A i \in AskId : asks[i] = Unknown) /\ ~lapsed =>
    ticking \/ \A x \in Thing : screen[x] \in Transient => x \in halted

InvocationWatched == watch = "invocation" /\ up /\ ~ticking => Unloaded \/ Ended \/ AnswerOld

WatchInv == WatchTypeOK /\ NoOrders /\ PollsOnly /\ ListWatched /\ InvocationWatched

(* A request is none or a record, and so is its answer.                    *)
LEMMA AsksAre ==
  ASSUME WatchTypeOK, NEW i \in AskId
  PROVE  /\ StatusAsk(TRUE) \in StatusAsks /\ StatusAsk(FALSE) \in StatusAsks
         /\ asks[i] # Unknown => asks[i] \in StatusAsks /\ asks[i].poll \in BOOLEAN
         /\ asks[i] # Unknown /\ asks[i].got # Unknown => asks[i].got \in StatusAnswers
<1>1. asks[i] \in StatusAsks \cup {Unknown}
  BY DEF WatchTypeOK
<1> QED
  BY <1>1 DEF StatusAsk, StatusAsks

(* What the server and the user do with a workspace.                       *)
LEMMA OrdersKeep ==
  ASSUME WatchInv, UNCHANGED WatchFacts, halted' = halted, WatchTypeOK', NoOrders'
  PROVE  WatchInv'
<1>1. PollsOnly' /\ ListWatched' /\ InvocationWatched'
  BY DEF WatchInv, WatchFacts, PollsOnly, ListWatched, InvocationWatched, Unloaded, Ended, AnswerOld
<1> QED
  BY <1>1 DEF WatchInv

LEMMA ServerKeepsWatch ==
  ASSUME WatchInv, NEW x \in Thing, Advance(x) \/ ServerStops(x) \/ ServerDestroys(x)
  PROVE  WatchInv'
<1>1. /\ UNCHANGED WatchFacts /\ UNCHANGED <<halted, loading, count, lapses>>
      /\ WatchTypeOK /\ NoOrders
  BY DEF Advance, ServerStops, ServerDestroys, WatchFacts, WatchInv
<1> DEFINE Stages == IF watch = "invocation" THEN InvocationStatus ELSE WorkspaceStatus
           Ordered == {"none", "stop", "stopping", "stopped", "destroy", "destroyed", "refused"}
<1>2. status \in [Thing -> Stages] /\ orders \in [Thing -> Ordered]
  BY <1>1 DEF WatchTypeOK
<1>3. CASE Advance(x)
  <2>1. PICK s \in (IF watch = "invocation" THEN InvocationStep ELSE WorkspaceStep)[status[x]] :
          status' = [status EXCEPT ![x] = s]
    BY <1>3 DEF Advance
  <2>2. status[x] \in Stages /\ s \in Stages
    <3>1. CASE watch = "invocation"
      <4>1. status[x] \in InvocationStatus /\ s \in InvocationStep[status[x]]
        BY <1>2, <2>1, <3>1
      <4> QED
        BY <4>1, <3>1 DEF InvocationStep, InvocationStatus
    <3>2. CASE watch # "invocation"
      <4>1. status[x] \in WorkspaceStatus /\ s \in WorkspaceStep[status[x]]
        BY <1>2, <2>1, <3>2
      <4> QED
        BY <4>1, <3>2 DEF WorkspaceStep, WorkspaceStatus
    <3> QED
      BY <3>1, <3>2
  <2>3. status' \in [Thing -> Stages] /\ orders' = orders
    BY <1>2, <1>3, <2>1, <2>2 DEF Advance
  <2>4. WatchTypeOK' /\ NoOrders'
    BY <1>1, <2>3 DEF WatchTypeOK, NoOrders, WatchFacts
  <2> QED
    BY <1>1, <2>4, OrdersKeep
<1>4. CASE ServerStops(x) \/ ServerDestroys(x)
  <2>1. watch # "invocation"
    BY <1>1, <1>4 DEF NoOrders, ServerStops, ServerDestroys
  <2>2. status' \in [Thing -> WorkspaceStatus]
    BY <1>2, <1>4, <2>1 DEF ServerStops, ServerDestroys, WorkspaceStatus
  <2>3. orders' \in [Thing -> Ordered]
    BY <1>2, <1>4 DEF ServerStops, ServerDestroys
  <2>4. WatchTypeOK' /\ NoOrders'
    BY <1>1, <2>1, <2>2, <2>3 DEF WatchTypeOK, NoOrders, WatchFacts
  <2> QED
    BY <1>1, <2>4, OrdersKeep
<1> QED
  BY <1>3, <1>4

LEMMA UserKeepsWatch ==
  ASSUME WatchInv, NEW x \in Thing, StopWorkspace(x) \/ DestroyWorkspace(x)
  PROVE  WatchInv'
<1>1. PICK o \in {"stop", "destroy"} : o \in Offered(x) /\ Order(x, o)
  BY DEF StopWorkspace, DestroyWorkspace
<1>2. /\ UNCHANGED WatchFacts /\ UNCHANGED <<halted, loading, status, lapses>>
      /\ count < MaxOrders /\ count' = count + 1 /\ orders' = [orders EXCEPT ![x] = o]
      /\ WatchTypeOK /\ NoOrders
  BY <1>1 DEF Order, WatchFacts, WatchInv
<1>3. watch # "invocation"
  BY <1>1 DEF Offered
<1>4. count' \in 0 .. MaxOrders
  BY <1>2, WatchAssumption DEF WatchTypeOK
<1>5. orders' \in [Thing -> {"none", "stop", "stopping", "stopped", "destroy", "destroyed", "refused"}]
  BY <1>2 DEF WatchTypeOK
<1>6. WatchTypeOK' /\ NoOrders'
  BY <1>2, <1>3, <1>4, <1>5 DEF WatchTypeOK, NoOrders, WatchFacts
<1> QED
  BY <1>2, <1>6, OrdersKeep

(* The answers to the orders of a workspace page.                          *)
LEMMA OrderAnswersKeepWatch ==
  ASSUME WatchInv, NEW x \in Thing, StopAnswered(x) \/ DestroyAnswered(x)
  PROVE  WatchInv'
<1>1. /\ watch # "invocation" /\ WatchTypeOK /\ PollsOnly /\ ListWatched
      /\ UNCHANGED <<watch, status, loading, asks, lapsed, old, count, lapses>>
  BY DEF WatchInv, NoOrders, StopAnswered, DestroyAnswered
<1>2. orders' \in [Thing -> {"none", "stop", "stopping", "stopped", "destroy", "destroyed", "refused"}]
  BY <1>1 DEF WatchTypeOK, StopAnswered, DestroyAnswered
<1>3. screen' \in [Thing -> InvocationStatus \cup WorkspaceStatus \cup {Unknown}] /\ halted' \in SUBSET Thing
  <2>1. "stopping" \in WorkspaceStatus
    BY DEF WorkspaceStatus
  <2> QED
    BY <1>1, <2>1 DEF WatchTypeOK, StopAnswered, DestroyAnswered
<1>4. up' \in BOOLEAN /\ ticking' \in BOOLEAN
  BY <1>1 DEF WatchTypeOK, StopAnswered, DestroyAnswered
<1>5. WatchTypeOK'
  BY <1>1, <1>2, <1>3, <1>4 DEF WatchTypeOK
<1>6. NoOrders' /\ PollsOnly' /\ InvocationWatched'
  BY <1>1 DEF NoOrders, PollsOnly, InvocationWatched
<1>7. ListWatched'
  <2>1. Unknown \notin Transient
    BY WatchAssumption DEF Transient, WorkspaceStatus
  <2>2. CASE UNCHANGED <<screen, halted, up, ticking>>
    BY <1>1, <2>2 DEF ListWatched
  <2>3. CASE /\ screen' = [screen EXCEPT ![x] = "stopping"] /\ halted' = halted \cup {x}
             /\ UNCHANGED <<up, ticking>>
    BY <1>1, <2>3 DEF ListWatched, WatchTypeOK
  <2>4. CASE up' = FALSE
    BY <2>4 DEF ListWatched
  <2>5. CASE screen' = [screen EXCEPT ![x] = Unknown] /\ UNCHANGED <<up, ticking, halted>>
    BY <1>1, <2>1, <2>5 DEF ListWatched, WatchTypeOK
  <2> QED
    BY <2>2, <2>3, <2>4, <2>5 DEF StopAnswered, DestroyAnswered
<1> QED
  BY <1>5, <1>6, <1>7 DEF WatchInv

(* A request that is made, read or given up leaves the screen alone.       *)
LEMMA AskingKeepsWatch ==
  ASSUME WatchInv, LeavePage \/ PollInvocation \/ RefreshWorkspaces
  PROVE  WatchInv'
<1>1. /\ WatchTypeOK /\ PollsOnly /\ ListWatched /\ InvocationWatched /\ NoOrders
      /\ UNCHANGED <<watch, status, screen, orders, halted, old, count, lapses>>
  BY DEF WatchInv, LeavePage, PollInvocation, RefreshWorkspaces
<1>2. up' \in BOOLEAN /\ ticking' \in BOOLEAN /\ loading' \in BOOLEAN /\ lapsed' \in BOOLEAN
  BY <1>1 DEF WatchTypeOK, LeavePage, PollInvocation, RefreshWorkspaces
<1>3. NoOrders'
  BY <1>1 DEF NoOrders
<1>4. CASE LeavePage
  <2>1. asks' = asks /\ up' = FALSE
    BY <1>4 DEF LeavePage
  <2> QED
    BY <1>1, <1>2, <1>3, <2>1
    DEF WatchInv, WatchTypeOK, PollsOnly, ListWatched, InvocationWatched
<1>5. CASE PollInvocation
  <2>1. PICK i \in AskId : asks[i] = Unknown /\ asks' = [asks EXCEPT ![i] = StatusAsk(TRUE)]
    BY <1>5 DEF PollInvocation
  <2>2. watch = "invocation" /\ ticking' /\ up' = up
    BY <1>5 DEF PollInvocation
  <2>3. asks' \in [AskId -> StatusAsks \cup {Unknown}]
    BY <1>1, <2>1, AsksAre DEF WatchTypeOK
  <2> QED
    BY <1>1, <1>2, <1>3, <2>2, <2>3
    DEF WatchInv, WatchTypeOK, PollsOnly, ListWatched, InvocationWatched
<1>6. CASE RefreshWorkspaces
  <2>1. PICK i \in AskId : asks[i] = Unknown /\ asks' = [asks EXCEPT ![i] = StatusAsk(FALSE)]
    BY <1>6 DEF RefreshWorkspaces
  <2>2. watch \in {"workspaces", "workspace"} /\ up' = up
    BY <1>6 DEF RefreshWorkspaces
  <2>3. asks' \in [AskId -> StatusAsks \cup {Unknown}] /\ asks'[i] # Unknown
    BY <1>1, <2>1, AsksAre, WatchAssumption DEF WatchTypeOK
  <2>4. PollsOnly'
    BY <1>1, <2>1, <2>2 DEF PollsOnly, StatusAsk, WatchTypeOK
  <2> QED
    BY <1>1, <1>2, <1>3, <2>2, <2>3, <2>4
    DEF WatchInv, WatchTypeOK, ListWatched, InvocationWatched
<1> QED
  BY <1>4, <1>5, <1>6

LEMMA StatusReadKeepsWatch ==
  ASSUME WatchInv, NEW i \in AskId, StatusRead(i)
  PROVE  WatchInv'
<1>1. /\ WatchTypeOK /\ PollsOnly /\ ListWatched /\ InvocationWatched /\ NoOrders
      /\ UNCHANGED <<watch, status, screen, up, loading, ticking, orders, halted, lapsed, old, count, lapses>>
      /\ asks[i] # Unknown
  BY DEF WatchInv, StatusRead
<1>2. asks[i] \in StatusAsks
  BY <1>1, AsksAre
<1>3. asks' = [asks EXCEPT ![i] = [poll |-> asks[i].poll, got |-> status]]
  <2>1. asks' = [asks EXCEPT ![i].got = status]
    BY DEF StatusRead
  <2>2. asks \in [AskId -> StatusAsks \cup {Unknown}]
    BY <1>1 DEF WatchTypeOK
  <2>3. asks' = [asks EXCEPT ![i] = [asks[i] EXCEPT !.got = status]]
    BY <2>1, <2>2
  <2>4. [asks[i] EXCEPT !.got = status] = [poll |-> asks[i].poll, got |-> status]
    BY <1>2 DEF StatusAsks
  <2> QED
    BY <2>3, <2>4
<1>4. [poll |-> asks[i].poll, got |-> status] \in StatusAsks
  <2>1. status \in StatusAnswers
    BY <1>1 DEF WatchTypeOK, StatusAnswers
  <2> QED
    BY <1>2, <2>1 DEF StatusAsks
<1>5. asks' \in [AskId -> StatusAsks \cup {Unknown}] /\ asks'[i] # Unknown /\ asks'[i].poll = asks[i].poll
  BY <1>1, <1>3, <1>4, WatchAssumption DEF WatchTypeOK
<1>6. \A j \in AskId : /\ asks'[j] = Unknown <=> asks[j] = Unknown
                       /\ asks[j] # Unknown => asks'[j].poll = asks[j].poll
  BY <1>1, <1>3, <1>5 DEF WatchTypeOK
<1>7. 1 \in AskId /\ 2 \in AskId
  BY DEF AskId
<1>8. WatchTypeOK' /\ NoOrders' /\ PollsOnly' /\ ListWatched'
  BY <1>1, <1>5, <1>6 DEF WatchTypeOK, NoOrders, PollsOnly, ListWatched
<1>9. InvocationWatched'
  BY <1>1, <1>6, <1>7 DEF InvocationWatched, Unloaded, Ended, AnswerOld, Final
<1> QED
  BY <1>8, <1>9 DEF WatchInv

(* An answer that is taken, or given up, frees its number.                 *)
LEMMA Freed ==
  ASSUME WatchTypeOK, PollsOnly, NEW i \in AskId, asks' = [asks EXCEPT ![i] = Unknown], watch' = watch
  PROVE  /\ asks' \in [AskId -> StatusAsks \cup {Unknown}] /\ PollsOnly'
         /\ asks'[i] = Unknown /\ (asks'[1] = Unknown \/ asks'[2] = Unknown)
         /\ \A j \in AskId : asks'[j] = Unknown \/ asks'[j] = asks[j]
         /\ asks[2] = Unknown => asks'[2] = Unknown
         /\ asks'[1] = Unknown \/ asks'[1] = asks[1]
<1>1. asks \in [AskId -> StatusAsks \cup {Unknown}] /\ 1 \in AskId /\ 2 \in AskId /\ i \in {1, 2}
  BY DEF WatchTypeOK, AskId
<1>2. \A j \in AskId : asks'[j] = Unknown \/ asks'[j] = asks[j]
  BY <1>1
<1> QED
  BY <1>1, <1>2 DEF PollsOnly

LEMMA AnswersKeepWatch ==
  ASSUME WatchInv, NEW i \in AskId, InvocationLoaded(i) \/ InvocationPolled(i)
  PROVE  WatchInv'
<1>1. /\ WatchTypeOK /\ PollsOnly /\ InvocationWatched /\ NoOrders
      /\ UNCHANGED <<watch, status, up, orders, halted, count, lapses>>
      /\ watch = "invocation" /\ asks[i] # Unknown /\ asks[i].got # Unknown
      /\ asks' = [asks EXCEPT ![i] = Unknown] /\ screen' = asks[i].got
  BY DEF WatchInv, InvocationLoaded, InvocationPolled, Answer
<1>2. /\ asks' \in [AskId -> StatusAsks \cup {Unknown}] /\ PollsOnly'
      /\ asks'[i] = Unknown /\ (asks'[1] = Unknown \/ asks'[2] = Unknown)
  BY <1>1, Freed
<1>3. screen' \in [Thing -> InvocationStatus \cup WorkspaceStatus \cup {Unknown}]
  BY <1>1, AsksAre DEF StatusAnswers
<1>4. ticking' \in BOOLEAN /\ old' \in BOOLEAN /\ loading' \in BOOLEAN /\ lapsed' \in BOOLEAN
  BY <1>1 DEF WatchTypeOK, InvocationLoaded, InvocationPolled
<1>5. WatchTypeOK' /\ NoOrders' /\ ListWatched'
  BY <1>1, <1>2, <1>3, <1>4 DEF WatchTypeOK, NoOrders, ListWatched
<1>6. ASSUME up', ~ticking' PROVE Unloaded' \/ Ended' \/ AnswerOld'
  <2>1. CASE \A x \in Thing : Final(screen'[x])
    BY <1>2, <2>1 DEF Ended, Final
  <2>2. CASE \E x \in Thing : ~Final(screen'[x])
    <3>1. InvocationPolled(i) /\ asks[i].poll /\ ~ticking
      BY <1>6, <2>2 DEF InvocationLoaded, InvocationPolled
    <3>2. Unloaded \/ Ended \/ AnswerOld
      BY <1>1, <1>6, <3>1 DEF InvocationWatched
    <3>3. i \in {1, 2}
      BY DEF AskId
    <3>4. (\A x \in Thing : Final(screen[x])) /\ (asks[1] = Unknown \/ asks[2] = Unknown)
      BY <1>1, <3>1, <3>2, <3>3 DEF Unloaded, Ended, AnswerOld
    <3>5. old' /\ asks'[1] = Unknown /\ asks'[2] = Unknown
      BY <1>1, <2>2, <3>1, <3>3, <3>4 DEF InvocationPolled, WatchTypeOK, AskId
    <3> QED
      BY <3>5 DEF AnswerOld
  <2> QED
    BY <2>1, <2>2
<1>7. InvocationWatched'
  BY <1>1, <1>6 DEF InvocationWatched
<1> QED
  BY <1>2, <1>5, <1>7 DEF WatchInv

LEMMA LoadsKeepWatch ==
  ASSUME WatchInv, NEW i \in AskId, WorkspaceLoaded(i) \/ PlainLoaded(i)
  PROVE  WatchInv'
<1>1. /\ WatchTypeOK /\ PollsOnly /\ NoOrders
      /\ UNCHANGED <<watch, status, up, orders, old, count, lapses>>
      /\ watch # "invocation" /\ asks[i] # Unknown /\ asks[i].got # Unknown
      /\ asks' = [asks EXCEPT ![i] = Unknown] /\ screen' = asks[i].got
  BY DEF WatchInv, WorkspaceLoaded, PlainLoaded, Answer
<1>2. asks' \in [AskId -> StatusAsks \cup {Unknown}] /\ PollsOnly'
  BY <1>1, Freed
<1>3. screen' \in [Thing -> InvocationStatus \cup WorkspaceStatus \cup {Unknown}]
  BY <1>1, AsksAre DEF StatusAnswers
<1>4. ticking' \in BOOLEAN /\ loading' \in BOOLEAN /\ lapsed' \in BOOLEAN /\ halted' \in SUBSET Thing
  BY <1>1 DEF WatchTypeOK, WorkspaceLoaded, PlainLoaded, ListRefresh, DetailRefresh
<1>5. WatchTypeOK' /\ NoOrders' /\ InvocationWatched'
  BY <1>1, <1>2, <1>3, <1>4 DEF WatchTypeOK, NoOrders, InvocationWatched
<1>6. ListWatched'
  <2>1. CASE WorkspaceLoaded(i)
    BY <2>1 DEF ListWatched, WorkspaceLoaded, ListRefresh, DetailRefresh
  <2>2. CASE PlainLoaded(i)
    BY <1>1, <2>2 DEF ListWatched, PlainLoaded
  <2> QED
    BY <2>1, <2>2
<1> QED
  BY <1>2, <1>5, <1>6 DEF WatchInv

LEMMA StatusFailsKeepsWatch ==
  ASSUME WatchInv, NEW i \in AskId, StatusFails(i)
  PROVE  WatchInv'
<1>1. /\ WatchTypeOK /\ PollsOnly /\ NoOrders /\ ListWatched /\ InvocationWatched
      /\ UNCHANGED <<watch, status, screen, up, ticking, orders, halted, old, count>>
      /\ asks[i] # Unknown /\ asks' = [asks EXCEPT ![i] = Unknown]
      /\ lapses < MaxLapses /\ lapses' = lapses + 1
      /\ loading' = (loading /\ asks[i].poll) /\ lapsed' = (lapsed \/ ~asks[i].poll)
  BY DEF WatchInv, StatusFails
<1>2. /\ asks' \in [AskId -> StatusAsks \cup {Unknown}] /\ PollsOnly'
      /\ (asks'[1] = Unknown \/ asks'[2] = Unknown)
      /\ asks[2] = Unknown => asks'[2] = Unknown
      /\ asks'[1] = Unknown \/ asks'[1] = asks[1]
      /\ \A j \in AskId : asks'[j] = Unknown \/ asks'[j] = asks[j]
  BY <1>1, Freed
<1>3. lapses' \in 0 .. MaxLapses
  BY <1>1, WatchAssumption DEF WatchTypeOK
<1>4. loading' \in BOOLEAN /\ lapsed' \in BOOLEAN
  BY <1>1 DEF WatchTypeOK
<1>5. WatchTypeOK' /\ NoOrders'
  BY <1>1, <1>2, <1>3, <1>4 DEF WatchTypeOK, NoOrders
<1>6. ListWatched'
  BY <1>1 DEF ListWatched, PollsOnly
<1>7. InvocationWatched'
  <2>1. ASSUME Unloaded PROVE Unloaded'
    BY <1>1, <1>2, <2>1 DEF Unloaded
  <2>2. ASSUME Ended PROVE Ended'
    BY <1>1, <1>2, <2>2 DEF Ended, Final
  <2>3. ASSUME AnswerOld PROVE AnswerOld'
    BY <1>1, <1>2, <2>3 DEF AnswerOld
  <2> QED
    BY <1>1, <2>1, <2>2, <2>3 DEF InvocationWatched
<1> QED
  BY <1>2, <1>5, <1>6, <1>7 DEF WatchInv

LEMMA WatchStarts == WatchInit => WatchInv
<1> SUFFICES ASSUME WatchInit PROVE WatchInv
  OBVIOUS
<1>1. 1 \in AskId /\ 2 \in AskId /\ 1 # 2
  BY DEF AskId
<1>2. StatusAsk(FALSE) \in StatusAsks /\ ~StatusAsk(FALSE).poll /\ StatusAsk(FALSE) # Unknown
  <2>1. StatusAsk(FALSE) \in StatusAsks /\ ~StatusAsk(FALSE).poll
    BY DEF StatusAsk, StatusAsks
  <2>2. Unknown \notin StatusAsks
    BY WatchAssumption
  <2> QED
    BY <2>1, <2>2
<1>3. asks \in [AskId -> StatusAsks \cup {Unknown}]
  BY <1>2 DEF WatchInit
<1>4. status \in [Thing -> IF watch = "invocation" THEN InvocationStatus ELSE WorkspaceStatus]
  BY DEF WatchInit, InvocationStatus, WorkspaceStatus
<1>5. WatchTypeOK
  <2>1. count \in 0 .. MaxOrders /\ lapses \in 0 .. MaxLapses
    BY WatchAssumption DEF WatchInit
  <2>2. screen \in [Thing -> InvocationStatus \cup WorkspaceStatus \cup {Unknown}]
        /\ orders \in [Thing -> {"none", "stop", "stopping", "stopped", "destroy", "destroyed", "refused"}]
    BY DEF WatchInit
  <2> QED
    BY <1>3, <1>4, <2>1, <2>2 DEF WatchInit, WatchTypeOK
<1>6. NoOrders /\ PollsOnly
  BY <1>2 DEF WatchInit, NoOrders, PollsOnly
<1>7. ListWatched
  BY <1>1, <1>2 DEF WatchInit, ListWatched
<1>8. InvocationWatched
  BY <1>1, <1>2 DEF WatchInit, InvocationWatched, Unloaded
<1> QED
  BY <1>5, <1>6, <1>7, <1>8 DEF WatchInv

LEMMA WatchKept == WatchSpec => []WatchInv
<1>1. WatchInv /\ [WatchNext]_watchVars => WatchInv'
  <2> SUFFICES ASSUME WatchInv, [WatchNext]_watchVars PROVE WatchInv'
    OBVIOUS
  <2>1. CASE UNCHANGED watchVars
    BY <2>1 DEF watchVars, WatchInv, WatchTypeOK, NoOrders, PollsOnly, ListWatched, InvocationWatched, Unloaded,
                Ended, AnswerOld, Final
  <2>2. CASE WatchNext
    BY <2>2, ServerKeepsWatch, UserKeepsWatch, OrderAnswersKeepWatch, AskingKeepsWatch, StatusReadKeepsWatch,
       AnswersKeepWatch, LoadsKeepWatch, StatusFailsKeepsWatch DEF WatchNext
  <2> QED
    BY <2>1, <2>2
<1> QED
  BY WatchStarts, <1>1, PTL DEF WatchSpec

(* Whatever is watched, and however answers and failures come, a page's    *)
(* state has its type.                                                     *)
THEOREM WatchTyped == WatchSpec => []WatchTypeOK
<1>1. WatchInv => WatchTypeOK
  BY DEF WatchInv
<1> QED
  BY <1>1, WatchKept, PTL

(* For any set of things and in every order of answers: a page of          *)
(* workspaces or of an invocation that shows something unfinished will ask *)
(* again (_scheduleRefreshIfNeeded, _startPolling), with the exceptions    *)
(* that the property names.                                                *)
THEOREM UnfinishedWatched == WatchSpec => []UnfinishedIsWatched
<1>1. WatchInv => UnfinishedIsWatched
  <2> SUFFICES ASSUME WatchInv PROVE UnfinishedIsWatched
    OBVIOUS
  <2>1. ASSUME watch = "invocation", up, \A i \in AskId : asks[i] = Unknown,
               NEW x \in Thing, screen[x] # Unknown, ~Final(screen[x])
        PROVE  ticking \/ old
    BY <2>1 DEF WatchInv, InvocationWatched, Unloaded, Ended, AnswerOld
  <2> QED
    BY <2>1 DEF WatchInv, ListWatched, UnfinishedIsWatched
<1> QED
  BY <1>1, WatchKept, PTL

-----------------------------------------------------------------------------
(* The dialog.  An open dialog holds the session it was opened for, unless *)
(* it was emptied since; its prompt is of its perspective, or loose; and   *)
(* while a request of this opening is under way it is submitting, unless   *)
(* an answer to an earlier opening freed it.  What it holds was entered    *)
(* after the last success, and a prompt that the opening gave in it.       *)
Fieldset == [open : BOOLEAN, perspective : Perspective, prompt : Perspective \cup {Own, Empty},
             options : SUBSET Option, resume : Talk \cup {Empty}, submitting : BOOLEAN, coder : Coder]

HoldsSession == dialog.open => dialog.resume = opening.session \/ (cleared /\ dialog.resume = Empty)
HoldsPrompt  == loose \/ dialog.prompt \in {dialog.perspective, Own, Empty}
HoldsUnspent ==
  /\ dialog.prompt # Empty => written["prompt"].starts = starts
  /\ \A t \in dialog.options : written[t].starts = starts
HoldsGiven == opening.given => written["prompt"].opening = opening.n
Posting ==
  \A r \in posts : /\ r.opening <= opening.n
                   /\ r.opening = opening.n => cleared \/ (dialog.submitting /\ ~r.cleared)

DialogInv ==
  /\ DialogTypeOK /\ checks <= opening.n
  /\ HoldsSession /\ HoldsPrompt /\ HoldsUnspent /\ HoldsGiven /\ Posting
  /\ ContinueResumes /\ PromptFits /\ OneRequestPerOpening /\ SpentIsForgotten /\ PromptIsOfOpening

(* The requests are what they were: so is what they say.                   *)
LEMMA RequestsSame ==
  ASSUME DialogInv, UNCHANGED posts
  PROVE  ContinueResumes' /\ PromptFits' /\ OneRequestPerOpening' /\ SpentIsForgotten' /\ PromptIsOfOpening'
BY DEF DialogInv, ContinueResumes, PromptFits, OneRequestPerOpening, SpentIsForgotten, PromptIsOfOpening

LEMMA WriteIs ==
  ASSUME NEW f, NEW n \in Nat, written \in [Texts -> Time], starts \in Nat, Write(f, n)
  PROVE  /\ written' \in [Texts -> Time]
         /\ \A t \in Texts : written'[t] = IF t = f THEN [opening |-> n, starts |-> starts] ELSE written[t]
<1> DEFINE w == [opening |-> n, starts |-> starts]
<1>1. w \in Time
  BY DEF Time
<1> HIDE DEF w
<1>2. written' = [t \in Texts |-> IF t = f THEN w ELSE written[t]]
  BY DEF Write, w
<1>3. written' \in [Texts -> Time] /\ \A t \in Texts : written'[t] = IF t = f THEN w ELSE written[t]
  BY <1>1, <1>2
<1> QED
  BY <1>3 DEF w

(* What happens to the fields alone.                                       *)
LEMMA FieldsKeep ==
  ASSUME DialogInv, dialog' \in Fieldset, dialog'.submitting = dialog.submitting,
         dialog'.open => dialog.open, dialog'.resume = dialog.resume,
         loose' \in BOOLEAN, HoldsPrompt', written' \in [Texts -> Time], HoldsUnspent', HoldsGiven',
         checks' \in 0 .. MaxOpenings, checks' <= opening.n, changes' \in 0 .. MaxChanges,
         UNCHANGED <<place, opening, starts, cleared, posts, refusals>>
  PROVE  DialogInv'
<1>1. DialogTypeOK'
  BY DEF DialogInv, DialogTypeOK, Fieldset
<1>2. HoldsSession' /\ Posting'
  BY DEF DialogInv, HoldsSession, Posting
<1> QED
  BY <1>1, <1>2, RequestsSame DEF DialogInv

LEMMA OpensKeeps ==
  ASSUME DialogInv, NEW session \in Talk \cup {Empty}, NEW gives \in BOOLEAN, NEW fields \in Fieldset,
         Opens(session, gives, fields), fields.resume = session, fields.options = dialog.options,
         loose' \in BOOLEAN, loose' \/ fields.prompt \in {fields.perspective, Own, Empty},
         IF gives THEN Write("prompt", opening.n + 1) ELSE written' = written /\ fields.prompt = dialog.prompt
  PROVE  DialogInv'
<1>1. /\ DialogTypeOK /\ checks <= opening.n /\ Posting /\ HoldsUnspent
      /\ opening.n < MaxOpenings /\ opening' = [n |-> opening.n + 1, session |-> session, given |-> gives]
      /\ cleared' = FALSE /\ dialog' = fields /\ checks' = checks + 1
      /\ UNCHANGED <<place, starts, posts, changes, refusals>>
  BY DEF Opens, DialogInv
<1>2. /\ opening.n \in 0 .. MaxOpenings /\ checks \in 0 .. MaxOpenings /\ MaxOpenings \in Nat
      /\ written \in [Texts -> Time] /\ starts \in Nat
  BY <1>1, DialogAssumption DEF DialogTypeOK
<1>3. /\ opening.n + 1 \in 0 .. MaxOpenings /\ checks + 1 \in 0 .. MaxOpenings /\ checks + 1 <= opening.n + 1
      /\ opening.n + 1 \in Nat
  BY <1>1, <1>2
<1>4. /\ opening'.n = opening.n + 1 /\ opening'.session = session /\ opening'.given = gives
      /\ opening' \in [n : 0 .. MaxOpenings, session : Talk \cup {Empty}, given : BOOLEAN]
  BY <1>1, <1>3
<1>5. /\ written' \in [Texts -> Time]
      /\ \A t \in Option : written'[t] = written[t]
      /\ gives => written'["prompt"] = [opening |-> opening.n + 1, starts |-> starts]
      /\ ~gives => written' = written /\ fields.prompt = dialog.prompt
  <2>1. "prompt" \in Texts /\ \A t \in Option : t # "prompt" /\ t \in Texts
    BY DEF Texts, Option
  <2>2. CASE gives
    <3>1. Write("prompt", opening.n + 1)
      BY <2>2
    <3>2. /\ written' \in [Texts -> Time]
          /\ \A t \in Texts : written'[t] = IF t = "prompt" THEN [opening |-> opening.n + 1, starts |-> starts]
                                            ELSE written[t]
      BY <1>2, <1>3, <3>1, WriteIs
    <3> QED
      BY <2>1, <2>2, <3>2
  <2>3. CASE ~gives
    BY <1>2, <2>3
  <2> QED
    BY <2>2, <2>3
<1>6. DialogTypeOK'
  BY <1>1, <1>2, <1>3, <1>4, <1>5 DEF DialogTypeOK, Fieldset
<1>7. HoldsSession' /\ HoldsPrompt'
  BY <1>1, <1>4 DEF HoldsSession, HoldsPrompt
<1>8. HoldsUnspent' /\ HoldsGiven'
  <2>1. \A t \in dialog'.options : written'[t].starts = starts'
    <3>1. dialog'.options = dialog.options /\ dialog.options \subseteq Option
      BY <1>1 DEF DialogTypeOK
    <3> QED
      BY <1>1, <1>5, <3>1 DEF HoldsUnspent
  <2>2. dialog'.prompt # Empty => written'["prompt"].starts = starts'
    BY <1>1, <1>5 DEF HoldsUnspent
  <2>3. HoldsGiven'
    BY <1>4, <1>5 DEF HoldsGiven
  <2> QED
    BY <2>1, <2>2, <2>3 DEF HoldsUnspent
<1>9. Posting'
  <2> SUFFICES ASSUME NEW r \in posts PROVE r.opening <= opening.n + 1 /\ r.opening # opening.n + 1
    BY <1>1, <1>4 DEF Posting
  <2>1. r.opening \in Nat /\ r.opening <= opening.n
    BY <1>1 DEF Posting, DialogTypeOK, Request
  <2> QED
    BY <1>2, <2>1
<1> QED
  BY <1>1, <1>3, <1>4, <1>6, <1>7, <1>8, <1>9, RequestsSame DEF DialogInv

LEMMA OpeningsKeep ==
  ASSUME DialogInv,
         \/ Show \/ ShowWithPrompt
         \/ \E p \in Perspective : ShowWithPerspective(p) \/ \E k \in Talk : ShowContinue(k, p)
  PROVE  DialogInv'
<1>1. dialog \in Fieldset /\ loose \in BOOLEAN /\ HoldsPrompt
  BY DEF DialogInv, DialogTypeOK, Fieldset
<1>2. Opened \in Fieldset
  BY <1>1 DEF Opened, Fieldset
<1>3. Opened.resume = Empty /\ Opened.prompt = dialog.prompt /\ Opened.perspective = dialog.perspective
      /\ Opened.options = dialog.options
  BY <1>1 DEF Opened, Fieldset
<1>4. CASE Show
  <2>1. Opens(Empty, FALSE, Opened) /\ loose' = loose /\ written' = written
    BY <1>4 DEF Show
  <2>2. loose' \/ Opened.prompt \in {Opened.perspective, Own, Empty}
    BY <1>1, <1>3, <2>1 DEF HoldsPrompt
  <2> QED
    BY <1>1, <1>2, <1>3, <2>1, <2>2, OpensKeeps
<1>5. CASE ShowWithPrompt
  <2> DEFINE f == [Opened EXCEPT !.prompt = "coder"]
  <2>1. Opens(Empty, TRUE, f) /\ Write("prompt", opening.n + 1) /\ loose' = TRUE
    BY <1>5 DEF ShowWithPrompt, OpensWith
  <2>2. f \in Fieldset /\ f.resume = Empty /\ f.options = dialog.options
    BY <1>2, <1>3 DEF Fieldset, Perspective
  <2> HIDE DEF f
  <2> QED
    BY <2>1, <2>2, OpensKeeps
<1>6. ASSUME NEW p \in Perspective, ShowWithPerspective(p) PROVE DialogInv'
  <2> DEFINE f == [Opened EXCEPT !.perspective = p, !.prompt = p]
  <2>1. Opens(Empty, TRUE, f) /\ Write("prompt", opening.n + 1) /\ loose' = FALSE
    BY <1>6 DEF ShowWithPerspective, OpensWith
  <2>2. f \in Fieldset /\ f.resume = Empty /\ f.prompt = f.perspective /\ f.options = dialog.options
    BY <1>2, <1>3 DEF Fieldset
  <2> HIDE DEF f
  <2> QED
    BY <2>1, <2>2, OpensKeeps
<1>7. ASSUME NEW p \in Perspective, NEW k \in Talk, ShowContinue(k, p) PROVE DialogInv'
  <2> DEFINE f == [dialog EXCEPT !.open = TRUE, !.submitting = FALSE, !.perspective = p, !.prompt = Empty,
                                 !.resume = k]
  <2>1. Opens(k, TRUE, f) /\ Write("prompt", opening.n + 1) /\ loose' = FALSE
    BY <1>7 DEF ShowContinue, OpensWith
  <2>2. f \in Fieldset
    BY <1>1 DEF Fieldset
  <2>3. f.resume = k /\ f.prompt = Empty /\ f.options = dialog.options
    BY <1>1 DEF Fieldset
  <2> HIDE DEF f
  <2> QED
    BY <2>1, <2>2, <2>3, OpensKeeps
<1> QED
  BY <1>4, <1>5, <1>6, <1>7

LEMMA ChangeKeeps ==
  ASSUME DialogInv, NEW f, NEW d \in Fieldset, Change(f, d), d.submitting = dialog.submitting,
         d.open = dialog.open, d.resume = dialog.resume, d.options \subseteq dialog.options \cup {f},
         d.prompt = dialog.prompt \/ f = "prompt", loose' \in BOOLEAN,
         loose' \/ (loose' = loose /\ d.prompt = dialog.prompt /\ d.perspective = dialog.perspective)
  PROVE  DialogInv'
<1>1. /\ checks <= opening.n /\ changes \in 0 .. MaxChanges /\ checks \in 0 .. MaxOpenings
      /\ MaxChanges \in Nat /\ changes < MaxChanges /\ changes' = changes + 1
      /\ dialog' = d /\ HoldsPrompt /\ HoldsUnspent /\ HoldsGiven /\ d.options \subseteq Option
      /\ opening.n \in 0 .. MaxOpenings /\ MaxOpenings \in Nat /\ starts \in Nat
      /\ written \in [Texts -> Time] /\ Write(f, opening.n)
      /\ UNCHANGED <<place, opening, starts, cleared, posts, checks, refusals>>
  BY DialogAssumption DEF DialogInv, DialogTypeOK, Change, Fieldset
<1>2. changes' \in 0 .. MaxChanges /\ opening.n \in Nat
  BY <1>1
<1>3. HoldsPrompt'
  BY <1>1 DEF HoldsPrompt
<1>4. /\ written' \in [Texts -> Time]
      /\ \A t \in Texts : written'[t] = IF t = f THEN [opening |-> opening.n, starts |-> starts] ELSE written[t]
  BY <1>1, <1>2, WriteIs
<1>5. "prompt" \in Texts /\ Option \subseteq Texts
  BY DEF Texts
<1>6. HoldsUnspent'
  <2>1. dialog'.prompt # Empty => written'["prompt"].starts = starts'
    BY <1>1, <1>4, <1>5 DEF HoldsUnspent
  <2>2. ASSUME NEW t \in dialog'.options PROVE written'[t].starts = starts'
    <3>1. t \in Texts /\ (t = f \/ t \in dialog.options)
      BY <1>1, <1>5, <2>2
    <3> QED
      BY <1>1, <1>4, <3>1 DEF HoldsUnspent
  <2> QED
    BY <2>1, <2>2 DEF HoldsUnspent
<1>7. HoldsGiven'
  BY <1>1, <1>4, <1>5 DEF HoldsGiven
<1> QED
  BY <1>1, <1>2, <1>3, <1>4, <1>6, <1>7, FieldsKeep

LEMMA ChangesKeep ==
  ASSUME DialogInv,
         \/ Hide \/ TypePrompt
         \/ \E p \in Perspective : ChoosePerspective(p)
         \/ \E f \in Option : EnterOption(f) \/ ClearOption(f)
         \/ \E s \in Coder \ {"unknown"} : CoderChecked(s)
  PROVE  DialogInv'
<1>1. /\ dialog \in Fieldset /\ loose \in BOOLEAN /\ HoldsPrompt /\ checks <= opening.n
      /\ HoldsUnspent /\ HoldsGiven /\ written \in [Texts -> Time]
      /\ changes \in 0 .. MaxChanges /\ checks \in 0 .. MaxOpenings /\ opening.n \in 0 .. MaxOpenings
      /\ MaxChanges \in Nat /\ MaxOpenings \in Nat
  BY DialogAssumption DEF DialogInv, DialogTypeOK, Fieldset
<1>2. CASE Hide
  <2>1. dialog' = [open |-> FALSE, perspective |-> dialog.perspective, prompt |-> dialog.prompt,
                   options |-> dialog.options, resume |-> dialog.resume,
                   submitting |-> dialog.submitting, coder |-> dialog.coder]
    BY <1>1, <1>2 DEF Hide, Fieldset
  <2>2. UNCHANGED <<place, opening, written, starts, loose, cleared, posts, checks, changes, refusals>>
    BY <1>2 DEF Hide
  <2>3. dialog' \in Fieldset /\ HoldsPrompt' /\ HoldsUnspent' /\ HoldsGiven'
    BY <1>1, <2>1, <2>2 DEF Fieldset, HoldsPrompt, HoldsUnspent, HoldsGiven
  <2> QED
    BY <1>1, <2>1, <2>2, <2>3, FieldsKeep
<1>3. CASE TypePrompt
  <2> DEFINE d == [dialog EXCEPT !.prompt = Own]
  <2>1. d \in Fieldset /\ d.submitting = dialog.submitting /\ d.open = dialog.open /\ d.resume = dialog.resume
        /\ d.options = dialog.options
    BY <1>1 DEF Fieldset
  <2>2. Change("prompt", d) /\ loose' = TRUE
    BY <1>3 DEF TypePrompt
  <2> HIDE DEF d
  <2> QED
    BY <2>1, <2>2, ChangeKeeps
<1>4. ASSUME NEW p \in Perspective, ChoosePerspective(p) PROVE DialogInv'
  <2> DEFINE d == [dialog EXCEPT !.perspective = p]
  <2>1. d \in Fieldset /\ d.submitting = dialog.submitting /\ d.open = dialog.open /\ d.resume = dialog.resume
        /\ d.options = dialog.options /\ d.prompt = dialog.prompt
    BY <1>1 DEF Fieldset
  <2>2. Change("perspective", d) /\ loose' = TRUE
    BY <1>4 DEF ChoosePerspective
  <2> HIDE DEF d
  <2> QED
    BY <2>1, <2>2, ChangeKeeps
<1>5. ASSUME NEW f \in Option, EnterOption(f) PROVE DialogInv'
  <2> DEFINE d == [dialog EXCEPT !.options = dialog.options \cup {f}]
  <2>1. d \in Fieldset /\ d.submitting = dialog.submitting /\ d.open = dialog.open /\ d.resume = dialog.resume
        /\ d.options = dialog.options \cup {f} /\ d.prompt = dialog.prompt /\ d.perspective = dialog.perspective
    BY <1>1 DEF Fieldset
  <2>2. Change(f, d) /\ loose' = loose
    BY <1>5 DEF EnterOption
  <2> HIDE DEF d
  <2> QED
    BY <1>1, <2>1, <2>2, ChangeKeeps
<1>6. ASSUME NEW f \in Option, ClearOption(f) PROVE DialogInv'
  <2>1. dialog' = [dialog EXCEPT !.options = dialog.options \ {f}]
        /\ UNCHANGED <<place, opening, written, starts, loose, cleared, posts, checks, changes, refusals>>
    BY <1>6 DEF ClearOption
  <2>2. dialog' = [open |-> dialog.open, perspective |-> dialog.perspective, prompt |-> dialog.prompt,
                   options |-> dialog.options \ {f}, resume |-> dialog.resume,
                   submitting |-> dialog.submitting, coder |-> dialog.coder]
    BY <1>1, <2>1 DEF Fieldset
  <2>3. dialog' \in Fieldset /\ HoldsPrompt' /\ HoldsUnspent' /\ HoldsGiven'
    BY <1>1, <2>1, <2>2 DEF Fieldset, HoldsPrompt, HoldsUnspent, HoldsGiven
  <2> QED
    BY <1>1, <2>1, <2>2, <2>3, FieldsKeep
<1>7. ASSUME NEW s \in Coder \ {"unknown"}, CoderChecked(s) PROVE DialogInv'
  <2>1. /\ checks > 0 /\ checks' = checks - 1
        /\ UNCHANGED <<place, opening, written, starts, loose, cleared, posts, changes, refusals>>
    BY <1>7 DEF CoderChecked
  <2>2. dialog' = [open |-> dialog.open, perspective |-> dialog.perspective, prompt |-> dialog.prompt,
                   options |-> dialog.options, resume |-> dialog.resume,
                   submitting |-> dialog.submitting, coder |-> s]
    BY <1>1, <1>7 DEF CoderChecked, Fieldset
  <2>3. dialog' \in Fieldset /\ HoldsPrompt' /\ HoldsUnspent' /\ HoldsGiven'
    BY <1>1, <2>1, <2>2 DEF Fieldset, HoldsPrompt, HoldsUnspent, HoldsGiven
  <2>4. checks' \in 0 .. MaxOpenings /\ checks' <= opening.n
    BY <1>1, <2>1
  <2> QED
    BY <1>1, <2>1, <2>2, <2>3, <2>4, FieldsKeep
<1> QED
  BY <1>2, <1>3, <1>4, <1>5, <1>6, <1>7

LEMMA SubmitKeeps ==
  ASSUME DialogInv, Submit
  PROVE  DialogInv'
<1>1. /\ DialogTypeOK /\ HoldsSession /\ HoldsPrompt /\ HoldsUnspent /\ HoldsGiven /\ Posting
      /\ checks <= opening.n
      /\ ContinueResumes /\ PromptFits /\ OneRequestPerOpening /\ SpentIsForgotten /\ PromptIsOfOpening
      /\ dialog.open /\ ~dialog.submitting /\ dialog.prompt # Empty
      /\ dialog' = [dialog EXCEPT !.submitting = TRUE] /\ posts' = posts \cup {ThisRequest}
      /\ UNCHANGED <<place, opening, written, starts, loose, cleared, checks, changes, refusals>>
  BY DEF DialogInv, Submit, Buttons
<1>2. dialog' = [open |-> dialog.open, perspective |-> dialog.perspective, prompt |-> dialog.prompt,
                 options |-> dialog.options, resume |-> dialog.resume, submitting |-> TRUE,
                 coder |-> dialog.coder]
  BY <1>1 DEF DialogTypeOK
<1>3. ThisRequest \in Request
  BY <1>1, DialogAssumption DEF ThisRequest, Request, DialogTypeOK
<1>4. DialogTypeOK'
  BY <1>1, <1>2, <1>3 DEF DialogTypeOK
<1>5. HoldsSession' /\ HoldsPrompt' /\ HoldsUnspent' /\ HoldsGiven'
  BY <1>1, <1>2 DEF HoldsSession, HoldsPrompt, HoldsUnspent, HoldsGiven
<1>6. /\ ThisRequest.opening = opening.n /\ ThisRequest.session = opening.session
      /\ ThisRequest.resume = dialog.resume /\ ThisRequest.cleared = cleared /\ ThisRequest.loose = loose
      /\ ThisRequest.prompt = dialog.prompt /\ ThisRequest.perspective = dialog.perspective
      /\ ThisRequest.given = opening.given /\ ThisRequest.options = dialog.options
      /\ ThisRequest.written = written /\ ThisRequest.starts = starts
  BY DEF ThisRequest
<1>7. opening.n \in Nat
  BY <1>1, DialogAssumption DEF DialogTypeOK
<1>8. \A r \in posts : r.opening = opening.n => cleared
  BY <1>1 DEF Posting
<1>9. Posting'
  <2> SUFFICES ASSUME NEW r \in posts \cup {ThisRequest}
               PROVE  /\ r.opening <= opening.n
                      /\ r.opening = opening.n => cleared \/ (dialog'.submitting /\ ~r.cleared)
    BY <1>1 DEF Posting
  <2>1. CASE r \in posts
    BY <1>1, <1>8, <2>1 DEF Posting
  <2>2. CASE r = ThisRequest
    BY <1>2, <1>6, <1>7, <2>2
  <2> QED
    BY <2>1, <2>2
<1>10. SpentIsForgotten' /\ PromptIsOfOpening'
  <2>1. \A t \in ThisRequest.options \cup {"prompt"} : ThisRequest.written[t].starts = ThisRequest.starts
    BY <1>1, <1>6 DEF HoldsUnspent
  <2>2. ThisRequest.given => ThisRequest.written["prompt"].opening = ThisRequest.opening
    BY <1>1, <1>6 DEF HoldsGiven
  <2> HIDE DEF ThisRequest
  <2> QED
    BY <1>1, <2>1, <2>2 DEF SpentIsForgotten, PromptIsOfOpening
<1>11. ContinueResumes' /\ PromptFits'
  BY <1>1, <1>6 DEF ContinueResumes, PromptFits, HoldsSession, HoldsPrompt
<1>12. OneRequestPerOpening'
  BY <1>1, <1>6, <1>8 DEF OneRequestPerOpening
<1> QED
  BY <1>1, <1>4, <1>5, <1>9, <1>11, <1>12, <1>10 DEF DialogInv

(* An answer: the request is gone, and the button is free.                 *)
LEMMA RepliesKeep ==
  ASSUME DialogInv, NEW r \in posts, Started(r) \/ Refused(r)
  PROVE  DialogInv'
<1>1. /\ DialogTypeOK /\ HoldsSession /\ HoldsPrompt /\ HoldsUnspent /\ HoldsGiven /\ Posting
      /\ checks <= opening.n
      /\ ContinueResumes /\ PromptFits /\ OneRequestPerOpening /\ SpentIsForgotten /\ PromptIsOfOpening
      /\ posts' = posts \ {r} /\ cleared' = (cleared \/ r.opening # opening.n)
      /\ UNCHANGED <<place, opening, written, loose, checks, changes>>
      /\ starts \in Nat
  BY DEF DialogInv, Started, StartedWith, Refused, DialogTypeOK
<1>2. dialog' \in Fieldset /\ (dialog'.open => dialog'.resume = dialog.resume /\ dialog.open)
      /\ (dialog'.prompt = Empty \/ (dialog'.prompt = dialog.prompt /\ dialog'.perspective = dialog.perspective))
      /\ \/ dialog'.prompt = Empty /\ dialog'.options = {}
         \/ dialog'.prompt = dialog.prompt /\ dialog'.options = dialog.options /\ starts' = starts
  <2>1. CASE Started(r)
    <3>1. dialog' = [open |-> FALSE, perspective |-> dialog.perspective, prompt |-> Empty, options |-> {},
                     resume |-> Empty, submitting |-> FALSE, coder |-> dialog.coder]
      BY <1>1, <2>1 DEF Started, StartedWith, DialogTypeOK
    <3> QED
      BY <1>1, <3>1 DEF DialogTypeOK, Fieldset
  <2>2. CASE Refused(r)
    <3>1. dialog' = [open |-> dialog.open, perspective |-> dialog.perspective, prompt |-> dialog.prompt,
                     options |-> dialog.options, resume |-> dialog.resume, submitting |-> FALSE,
                     coder |-> dialog.coder] /\ starts' = starts
      BY <1>1, <2>2 DEF Refused, DialogTypeOK
    <3> QED
      BY <1>1, <3>1 DEF DialogTypeOK, Fieldset
  <2> QED
    BY <2>1, <2>2
<1>3. refusals' \in 0 .. MaxRefusals
  BY <1>1, DialogAssumption DEF DialogTypeOK, Started, StartedWith, Refused
<1>4. starts' \in Nat
  BY <1>1 DEF Started, StartedWith, Refused
<1>5. cleared' \in BOOLEAN /\ posts' \subseteq Request
  BY <1>1 DEF DialogTypeOK
<1>6. DialogTypeOK'
  BY <1>1, <1>2, <1>3, <1>5, <1>4 DEF DialogTypeOK, Fieldset
<1>7. HoldsSession' /\ HoldsPrompt' /\ HoldsGiven'
  BY <1>1, <1>2 DEF HoldsSession, HoldsPrompt, HoldsGiven
<1>8. HoldsUnspent'
  BY <1>1, <1>2 DEF HoldsUnspent
<1>9. Posting'
  <2> SUFFICES ASSUME NEW o \in posts, o # r
               PROVE  o.opening <= opening.n /\ (o.opening = opening.n => cleared')
    BY <1>1 DEF Posting
  <2>1. o.opening <= opening.n /\ (o.opening = opening.n => cleared \/ ~o.cleared)
        /\ (r.opening = opening.n => cleared \/ ~r.cleared)
    BY <1>1 DEF Posting
  <2>2. r.opening = o.opening => r.cleared \/ o.cleared
    BY <1>1 DEF OneRequestPerOpening
  <2> QED
    BY <1>1, <2>1, <2>2
<1>10. ContinueResumes' /\ PromptFits' /\ OneRequestPerOpening'
  BY <1>1 DEF ContinueResumes, PromptFits, OneRequestPerOpening
<1>11. SpentIsForgotten' /\ PromptIsOfOpening'
  BY <1>1 DEF SpentIsForgotten, PromptIsOfOpening
<1> QED
  BY <1>1, <1>6, <1>7, <1>9, <1>10, <1>8, <1>11 DEF DialogInv

LEMMA DialogStarts == DialogInit => DialogInv
<1> SUFFICES ASSUME DialogInit PROVE DialogInv
  OBVIOUS
<1>1. DialogTypeOK
  <2>1. dialog \in Fieldset
    BY DEF DialogInit, Fieldset, Perspective, Coder
  <2>2. opening \in [n : 0 .. MaxOpenings, session : Talk \cup {Empty}, given : BOOLEAN]
        /\ checks \in 0 .. MaxOpenings
    BY DialogAssumption DEF DialogInit
  <2>3. changes \in 0 .. MaxChanges /\ refusals \in 0 .. MaxRefusals
    BY DialogAssumption DEF DialogInit
  <2>4. place \in DOMAIN Menu \cup {"none"} /\ loose \in BOOLEAN /\ cleared \in BOOLEAN
        /\ posts \subseteq Request /\ starts \in Nat
    BY DEF DialogInit
  <2>5. written \in [Texts -> Time]
    BY DEF DialogInit, Time
  <2> QED
    BY <2>1, <2>2, <2>3, <2>4, <2>5 DEF DialogTypeOK, Fieldset
<1>2. checks <= opening.n /\ HoldsSession /\ HoldsPrompt /\ HoldsUnspent /\ HoldsGiven
  BY DEF DialogInit, HoldsSession, HoldsPrompt, HoldsUnspent, HoldsGiven
<1>3. Posting /\ ContinueResumes /\ PromptFits /\ OneRequestPerOpening /\ SpentIsForgotten /\ PromptIsOfOpening
  BY DEF DialogInit, Posting, ContinueResumes, PromptFits, OneRequestPerOpening, SpentIsForgotten, PromptIsOfOpening
<1> QED
  BY <1>1, <1>2, <1>3 DEF DialogInv

LEMMA DialogKept == DialogSpec => []DialogInv
<1>1. DialogInv /\ [DialogNext]_dialogVars => DialogInv'
  <2> SUFFICES ASSUME DialogInv, [DialogNext]_dialogVars PROVE DialogInv'
    OBVIOUS
  <2>1. CASE UNCHANGED dialogVars
    BY <2>1 DEF dialogVars, DialogInv, DialogTypeOK, HoldsSession, HoldsPrompt, HoldsUnspent, HoldsGiven, Posting,
                ContinueResumes, PromptFits, OneRequestPerOpening, SpentIsForgotten, PromptIsOfOpening
  <2>2. CASE DialogNext
    BY <2>2, OpeningsKeep, ChangesKeep, SubmitKeeps, RepliesKeep DEF DialogNext
  <2> QED
    BY <2>1, <2>2
<1> QED
  BY DialogStarts, <1>1, PTL DEF DialogSpec

(* However the dialog is opened, closed and answered, it has its type.     *)
THEOREM DialogTyped == DialogSpec => []DialogTypeOK
<1>1. DialogInv => DialogTypeOK
  BY DEF DialogInv
<1> QED
  BY <1>1, DialogKept, PTL

(* For any sessions to continue and any number of openings: an agent is    *)
(* started in the session that this opening was to continue, with a prompt *)
(* of its perspective, once, and without anything that an invocation was   *)
(* started with before (_submit of invoke-dialog.ts).                      *)
THEOREM DialogStartsWhatIsShown == DialogSpec => []StartsWhatIsShown
<1>1. DialogInv => StartsWhatIsShown
  BY DEF DialogInv, StartsWhatIsShown
<1> QED
  BY <1>1, DialogKept, PTL

-----------------------------------------------------------------------------
(* The page of a record.  What the page was ever given of the record is as *)
(* old as its version says; the newest version is that of the first load,  *)
(* one that no answer told of, that of an answer that was taken, or of one *)
(* that is to come.                                                        *)
LEMMA StatusesAre ==
  /\ DOMAIN Allowed["plan"] = {"draft", "review", "accepted", "superseded", "abandoned"}
  /\ DOMAIN Allowed["request"] = {"pending", "analyzing", "decomposed", "archived"}
  /\ DOMAIN Allowed["requirement"] = {"draft", "active", "satisfied", "archived"}
  /\ Statuses = {"draft", "review", "accepted", "superseded", "abandoned", "pending", "analyzing", "decomposed",
                 "archived", "active", "satisfied"}
<1>1. /\ Allowed["plan"] = PlanAllowed /\ Allowed["request"] = RequestAllowed
      /\ Allowed["requirement"] = RequirementAllowed
  BY DEF Allowed
<1>2. DOMAIN PlanAllowed = {"draft", "review", "accepted", "superseded", "abandoned"}
  BY DEF PlanAllowed
<1>3. DOMAIN RequestAllowed = {"pending", "analyzing", "decomposed", "archived"}
  BY DEF RequestAllowed
<1>4. DOMAIN RequirementAllowed = {"draft", "active", "satisfied", "archived"}
  BY DEF RequirementAllowed
<1>5. Statuses = DOMAIN Allowed["plan"] \cup DOMAIN Allowed["request"] \cup DOMAIN Allowed["requirement"]
  BY DEF Statuses, Sorts
<1> QED
  BY <1>1, <1>2, <1>3, <1>4, <1>5

(* The page offers no move that the server forbids, and all moves stay     *)
(* within the table.                                                       *)
LEMMA TablesAgree ==
  ASSUME NEW k \in Sorts, NEW s \in DOMAIN Allowed[k]
  PROVE  /\ Transitions[k][s] \subseteq Allowed[k][s] /\ Allowed[k][s] \subseteq DOMAIN Allowed[k]
         /\ s \in Statuses /\ DOMAIN Allowed[k] \subseteq Statuses
<1>1. CASE k = "plan"
  <2>1. Transitions[k] = PlanTransitions /\ Allowed[k] = PlanAllowed
    BY <1>1 DEF Transitions, Allowed
  <2>2. s \in {"draft", "review", "accepted", "superseded", "abandoned"}
    BY <1>1, StatusesAre
  <2>3. PlanTransitions[s] \subseteq PlanAllowed[s]
    BY <2>2 DEF PlanTransitions, PlanAllowed
  <2>4. PlanAllowed[s] \subseteq {"draft", "review", "accepted", "superseded", "abandoned"}
    BY <2>2 DEF PlanAllowed
  <2> QED
    BY <1>1, <2>1, <2>2, <2>3, <2>4, StatusesAre
<1>2. CASE k = "request"
  <2>1. Transitions[k] = RequestTransitions /\ Allowed[k] = RequestAllowed
    BY <1>2 DEF Transitions, Allowed
  <2>2. s \in {"pending", "analyzing", "decomposed", "archived"}
    BY <1>2, StatusesAre
  <2>3. RequestTransitions[s] \subseteq RequestAllowed[s]
    BY <2>2 DEF RequestTransitions, RequestAllowed
  <2>4. RequestAllowed[s] \subseteq {"pending", "analyzing", "decomposed", "archived"}
    BY <2>2 DEF RequestAllowed
  <2> QED
    BY <1>2, <2>1, <2>2, <2>3, <2>4, StatusesAre
<1>3. CASE k = "requirement"
  <2>1. Transitions[k] = RequirementTransitions /\ Allowed[k] = RequirementAllowed
    BY <1>3 DEF Transitions, Allowed
  <2>2. s \in {"draft", "active", "satisfied", "archived"}
    BY <1>3, StatusesAre
  <2>3. RequirementTransitions[s] \subseteq RequirementAllowed[s]
    BY <2>2 DEF RequirementTransitions, RequirementAllowed
  <2>4. RequirementAllowed[s] \subseteq {"draft", "active", "satisfied", "archived"}
    BY <2>2 DEF RequirementAllowed
  <2> QED
    BY <1>3, <2>1, <2>2, <2>3, <2>4, StatusesAre
<1> QED
  BY <1>1, <1>2, <1>3 DEF Sorts

CardType == [shown : Record \cup {NoRecord}, loading : BOOLEAN, editing : BOOLEAN,
             title : {"first", "mine", "theirs"}, saving : BOOLEAN, moving : BOOLEAN]

(* A record that the page was given, r being the one at the server.        *)
Known(g, r, k) ==
  g # NoRecord => /\ g \in Record /\ 1 <= g.ver /\ g.ver <= r.ver /\ (g.ver = r.ver => g = r)
                  /\ g.status \in DOMAIN Allowed[k]

CallFits(c, o, r, p, k) ==
  c # NoRecord =>
    /\ c \in DetailCall /\ k \in Sorts /\ Known(c.got, r, k)
    /\ c.stage \in {"done", "refused"} => c.got # NoRecord
    /\ c.to \in DOMAIN Allowed[k] \cup {NoRecord}
    /\ o \in {"load", "reload"} => c.stage # "read"
    /\ o = "save" => p.saving
    /\ o = "move" => /\ p.moving /\ c.from \in DOMAIN Allowed[k] /\ c.to \in Transitions[k][c.from]
                     /\ c.stage = "refused" => c.got.status # c.from

Accounted ==
  \/ rec.ver = 1 \/ rec.ver <= unnoticed \/ rec.ver <= newest
  \/ \E o \in {"save", "move"} : calls[o] # NoRecord /\ calls[o].stage = "done" /\ calls[o].got.ver = rec.ver

NewestShown ==
  /\ newest <= rec.ver
  /\ card.shown # NoRecord => card.shown.ver <= newest /\ (~late => card.shown.ver = newest)

(* Requests that the page has given up still fit the tables.               *)
AdriftFits ==
  \A a \in adrift : sort \in Sorts /\ a.call.to \in DOMAIN Allowed[sort] \cup {NoRecord}

DetailInv ==
  /\ DetailTypeOK /\ rec.ver >= 1
  /\ sort = "none" => card.shown = NoRecord
  /\ Known(card.shown, rec, sort)
  /\ \A o \in Ops : CallFits(calls[o], o, rec, card, sort)
  /\ Accounted /\ NewestShown /\ AdriftFits

(* What the user does leaves the record alone.                             *)
LEMMA TouchKeeps ==
  ASSUME DetailInv, UNCHANGED <<sort, rec, newest, late, unnoticed, adrift, foreign, losses>>, touches' = touches + 1,
         card' \in CardType, card'.shown = card.shown, card.saving => card'.saving, card.moving => card'.moving,
         NEW o \in Ops, NEW c, c = calls[o] \/ calls[o] = NoRecord, c \in DetailCall \cup {NoRecord},
         CallFits(c, o, rec, card', sort), calls' = [calls EXCEPT ![o] = c]
  PROVE  DetailInv'
<1>1. /\ DetailTypeOK /\ calls \in [Ops -> DetailCall \cup {NoRecord}]
      /\ \A q \in Ops : CallFits(calls[q], q, rec, card, sort)
  BY DEF DetailInv, DetailTypeOK
<1>2. DetailTypeOK'
  BY <1>1 DEF DetailTypeOK, CardType
<1>3. \A q \in Ops : calls'[q] = IF q = o THEN c ELSE calls[q]
  BY <1>1
<1>4. ASSUME NEW q \in Ops PROVE CallFits(calls'[q], q, rec, card', sort)
  <2>1. CASE q = o
    BY <1>3, <2>1
  <2>2. CASE q # o
    BY <1>1, <1>3, <2>2 DEF CallFits
  <2> QED
    BY <2>1, <2>2
<1>5. Accounted'
  <2>1. ASSUME NEW q \in {"save", "move"}, calls[q] # NoRecord PROVE calls'[q] = calls[q]
    BY <1>3, <2>1 DEF Ops
  <2> QED
    BY <2>1 DEF DetailInv, Accounted
<1>6. NewestShown' /\ AdriftFits'
  BY DEF DetailInv, NewestShown, AdriftFits
<1> QED
  BY <1>2, <1>4, <1>5, <1>6 DEF DetailInv

LEMMA EditsKeep ==
  ASSUME DetailInv, StartEdit \/ EditTitle \/ CancelEdit \/ SaveEdit
  PROVE  DetailInv'
<1>1. /\ card \in CardType /\ DetailTypeOK /\ Known(card.shown, rec, sort)
      /\ \A o \in Ops : CallFits(calls[o], o, rec, card, sort)
      /\ calls \in [Ops -> DetailCall \cup {NoRecord}] /\ "save" \in Ops
  BY DEF DetailInv, DetailTypeOK, CardType, Ops
<1>2. /\ UNCHANGED <<sort, rec, newest, late, unnoticed, adrift, foreign, losses>> /\ touches' = touches + 1
      /\ Ready /\ sort \in Sorts /\ card.shown # NoRecord /\ card.shown \in Record
  <2>1. Controls # {}
    BY DEF StartEdit, EditTitle, CancelEdit, SaveEdit, Touch
  <2>2. Ready /\ sort # "none"
    BY <2>1 DEF Controls
  <2> QED
    BY <1>1, <2>2 DEF StartEdit, EditTitle, CancelEdit, SaveEdit, Touch, Ready, DetailTypeOK, CardType
<1>3. CASE UNCHANGED calls /\ card' \in CardType /\ UNCHANGED <<card.shown, card.saving, card.moving>>
  <2>1. calls' = [calls EXCEPT !["save"] = calls["save"]]
    BY <1>1, <1>3
  <2>2. CallFits(calls["save"], "save", rec, card', sort)
    BY <1>1, <1>3 DEF CallFits
  <2>3. calls["save"] \in DetailCall \cup {NoRecord}
    BY <1>1
  <2> QED
    BY <1>1, <1>2, <1>3, <2>1, <2>2, <2>3, TouchKeeps
<1>4. CASE StartEdit
  <2>1. card' = [card EXCEPT !.editing = TRUE, !.title = card.shown.title] /\ UNCHANGED calls
    BY <1>4 DEF StartEdit
  <2>2. card.shown.title \in {"first", "mine", "theirs"}
    BY <1>2 DEF Record
  <2>3. card' \in CardType
    BY <1>1, <2>1, <2>2 DEF CardType
  <2> QED
    BY <1>1, <1>3, <2>1, <2>3 DEF CardType
<1>5. CASE EditTitle
  <2>1. card' = [card EXCEPT !.title = "mine"] /\ UNCHANGED calls
    BY <1>5 DEF EditTitle
  <2> QED
    BY <1>1, <1>3, <2>1 DEF CardType
<1>6. CASE CancelEdit
  <2>1. card' = [card EXCEPT !.editing = FALSE] /\ UNCHANGED calls
    BY <1>6 DEF CancelEdit
  <2> QED
    BY <1>1, <1>3, <2>1 DEF CardType
<1>7. CASE SaveEdit
  <2>1. CASE card.title = card.shown.title
    <3>1. card' = [card EXCEPT !.editing = FALSE] /\ UNCHANGED calls
      BY <1>7, <2>1 DEF SaveEdit
    <3> QED
      BY <1>1, <1>3, <3>1 DEF CardType
  <2>2. CASE card.title # card.shown.title
    <3> DEFINE c == Call(NoRecord, NoRecord, card.title)
    <3>1. card' = [card EXCEPT !.saving = TRUE] /\ calls' = [calls EXCEPT !["save"] = c]
      BY <1>7, <2>2 DEF SaveEdit
    <3>2. ~card.saving
      <4>1. "save" \in Controls
        BY <1>7 DEF SaveEdit, Touch
      <4>2. "save" \notin Statuses
        BY StatusesAre
      <4>3. card.shown.status \in DOMAIN Allowed[sort]
        BY <1>1, <1>2 DEF Known
      <4>4. Transitions[sort][card.shown.status] \subseteq Statuses
        BY <1>2, <4>3, TablesAgree
      <4>5. \/ sort = "plan" /\ Transitions[sort] = PlanTransitions
            \/ sort = "request" /\ Transitions[sort] = RequestTransitions
            \/ sort = "requirement" /\ Transitions[sort] = RequirementTransitions
        BY <1>2 DEF Sorts, Transitions
      <4> QED
        BY <1>2, <4>1, <4>2, <4>4, <4>5
        DEF Controls, PlanHead, PlanBody, RequestHead, RequestBody, RequirementHead, RequirementBody
    <3>3. calls["save"] = NoRecord
      BY <1>1, <3>2 DEF CallFits
    <3>4. c \in DetailCall /\ c.got = NoRecord /\ c.to = NoRecord /\ c.stage = "sent"
      BY <1>1 DEF Call, DetailCall, CardType
    <3>5. card' \in CardType /\ card'.saving /\ card'.shown = card.shown /\ card'.moving = card.moving
      BY <1>1, <3>1 DEF CardType
    <3>6. CallFits(c, "save", rec, card', sort)
      BY <1>2, <3>4, <3>5 DEF CallFits, Known
    <3> HIDE DEF c
    <3> QED
      BY <1>1, <1>2, <3>1, <3>3, <3>4, <3>5, <3>6, TouchKeeps
  <2> QED
    BY <2>1, <2>2
<1> QED
  BY <1>4, <1>5, <1>6, <1>7

LEMMA TransitionKeeps ==
  ASSUME DetailInv, NEW s \in Statuses, Transition(s)
  PROVE  DetailInv'
<1>1. /\ card \in CardType /\ DetailTypeOK /\ Known(card.shown, rec, sort)
      /\ \A o \in Ops : CallFits(calls[o], o, rec, card, sort)
      /\ calls \in [Ops -> DetailCall \cup {NoRecord}] /\ "move" \in Ops
  BY DEF DetailInv, DetailTypeOK, CardType, Ops
<1> DEFINE c == Call(s, card.shown.status, NoRecord)
<1>2. /\ UNCHANGED <<sort, rec, newest, late, unnoticed, adrift, foreign, losses>> /\ touches' = touches + 1
      /\ s \in Controls /\ card' = [card EXCEPT !.moving = TRUE] /\ calls' = [calls EXCEPT !["move"] = c]
  BY DEF Transition, Touch
<1>3. sort \in Sorts /\ Ready /\ card.shown # NoRecord
  BY <1>1, <1>2 DEF Controls, DetailTypeOK, Ready
<1>4. card.shown.status \in DOMAIN Allowed[sort] /\ card.shown \in Record
  BY <1>1, <1>3 DEF Known
<1>5. s \in Transitions[sort][card.shown.status] /\ ~card.moving
  <2>1. s \notin {"edit", "title", "cancel", "save"}
    BY StatusesAre
  <2>2. \/ sort = "plan" /\ Transitions[sort] = PlanTransitions
        \/ sort = "request" /\ Transitions[sort] = RequestTransitions
        \/ sort = "requirement" /\ Transitions[sort] = RequirementTransitions
    BY <1>3 DEF Sorts, Transitions
  <2> QED
    BY <1>2, <1>3, <2>1, <2>2
    DEF Controls, PlanHead, PlanBody, RequestHead, RequestBody, RequirementHead, RequirementBody
<1>6. calls["move"] = NoRecord
  BY <1>1, <1>5 DEF CallFits
<1>7. /\ card.shown.status \in Statuses /\ s \in DOMAIN Allowed[sort]
  BY <1>3, <1>4, <1>5, TablesAgree
<1>8. c \in DetailCall /\ c.got = NoRecord /\ c.to = s /\ c.stage = "sent" /\ c.from = card.shown.status
  BY <1>7 DEF Call, DetailCall
<1>9. card' \in CardType /\ card'.moving /\ card'.shown = card.shown /\ card'.saving = card.saving
  BY <1>1, <1>2 DEF CardType
<1>10. CallFits(c, "move", rec, card', sort)
  BY <1>3, <1>4, <1>5, <1>7, <1>8, <1>9 DEF CallFits, Known
<1> HIDE DEF c
<1> QED
  BY <1>1, <1>2, <1>6, <1>8, <1>9, <1>10, TouchKeeps

(* The handlers.                                                           *)
LEMMA ReadsKeep ==
  ASSUME DetailInv, NEW o \in Ops, HandlerReads(o)
  PROVE  DetailInv'
<1> DEFINE c == calls[o]
<1>1. /\ DetailTypeOK /\ calls \in [Ops -> DetailCall \cup {NoRecord}] /\ rec \in Record /\ rec.ver >= 1
      /\ \A q \in Ops : CallFits(calls[q], q, rec, card, sort)
      /\ c # NoRecord /\ c.stage = "sent" /\ c \in DetailCall
      /\ UNCHANGED <<sort, rec, card, newest, late, unnoticed, adrift, touches, foreign, losses>>
  BY DEF DetailInv, DetailTypeOK, HandlerReads, Waits
<1>2. CallFits(c, o, rec, card, sort) /\ sort \in Sorts /\ rec.status \in DOMAIN Allowed[sort]
  BY <1>1 DEF CallFits, DetailTypeOK, Sorts
<1>3. Known(rec, rec, sort)
  BY <1>1, <1>2 DEF Known, Record
<1>4. PICK d \in DetailCall : /\ calls' = [calls EXCEPT ![o] = d] /\ CallFits(d, o, rec, card, sort)
                              /\ d # NoRecord
  <2>1. CASE o \in {"load", "reload"}
    <3> DEFINE d == [c EXCEPT !.stage = "done", !.got = rec]
    <3>1. calls' = [calls EXCEPT ![o] = d]
      BY <2>1 DEF HandlerReads
    <3>2. d \in DetailCall /\ d.got = rec /\ d.to = c.to /\ d.stage = "done"
      BY <1>1 DEF DetailCall
    <3>3. CallFits(d, o, rec, card, sort) /\ d # NoRecord
      BY <1>1, <1>2, <1>3, <2>1, <3>2, RecordAssumption DEF CallFits
    <3> HIDE DEF d
    <3> QED
      BY <3>1, <3>2, <3>3
  <2>2. CASE o = "move" /\ c.to \notin Allowed[sort][rec.status]
    <3> DEFINE d == [c EXCEPT !.stage = "refused", !.got = rec]
    <3>1. calls' = [calls EXCEPT ![o] = d]
      BY <2>2 DEF HandlerReads
    <3>2. d \in DetailCall /\ d.got = rec /\ d.to = c.to /\ d.stage = "refused" /\ d.from = c.from
      BY <1>1 DEF DetailCall
    <3>3. c.from \in DOMAIN Allowed[sort] /\ c.to \in Transitions[sort][c.from]
      BY <1>1, <1>2, <2>2 DEF CallFits
    <3>4. c.to \in Allowed[sort][c.from]
      BY <1>2, <3>3, TablesAgree
    <3>5. CallFits(d, o, rec, card, sort) /\ d # NoRecord
      BY <1>1, <1>2, <1>3, <2>2, <3>2, <3>4, RecordAssumption DEF CallFits
    <3> HIDE DEF d
    <3> QED
      BY <3>1, <3>2, <3>5
  <2>3. CASE o \notin {"load", "reload"} /\ ~(o = "move" /\ c.to \notin Allowed[sort][rec.status])
    <3> DEFINE d == [c EXCEPT !.stage = "read"]
    <3>1. calls' = [calls EXCEPT ![o] = d]
      BY <2>3 DEF HandlerReads
    <3>2. d \in DetailCall /\ d.got = c.got /\ d.to = c.to /\ d.stage = "read" /\ d.from = c.from
      BY <1>1 DEF DetailCall
    <3>3. CallFits(d, o, rec, card, sort) /\ d # NoRecord
      BY <1>1, <1>2, <2>3, <3>2, RecordAssumption DEF CallFits
    <3> HIDE DEF d
    <3> QED
      BY <3>1, <3>2, <3>3
  <2> QED
    BY <2>1, <2>2, <2>3
<1>5. DetailTypeOK'
  BY <1>1, <1>4 DEF DetailTypeOK
<1>6. \A q \in Ops : CallFits(calls'[q], q, rec, card, sort)
  BY <1>1, <1>4
<1>7. Accounted'
  <2>1. ASSUME NEW q \in {"save", "move"}, calls[q] # NoRecord, calls[q].stage = "done"
        PROVE  calls'[q] = calls[q]
    BY <1>1, <1>4, <2>1 DEF Ops
  <2> QED
    BY <1>1, <2>1 DEF DetailInv, Accounted
<1>8. NewestShown' /\ AdriftFits'
  BY <1>1 DEF DetailInv, NewestShown, AdriftFits
<1> QED
  BY <1>1, <1>5, <1>6, <1>7, <1>8 DEF DetailInv

(* A newer record makes what is known older.                               *)
LEMMA KnownOlder ==
  ASSUME NEW g, NEW r \in Record, NEW n \in Record, NEW k, n.ver = r.ver + 1, Known(g, r, k)
  PROVE  Known(g, n, k) /\ (g # NoRecord => g.ver < n.ver)
<1>1. r.ver \in Nat
  BY DEF Record
<1>2. CASE g # NoRecord
  <2>1. g.ver \in Nat /\ g.ver <= r.ver
    BY <1>2 DEF Known, Record
  <2> QED
    BY <1>1, <1>2, <2>1 DEF Known
<1>3. CASE g = NoRecord
  BY <1>3 DEF Known
<1> QED
  BY <1>2, <1>3

LEMMA ChangeKeepsRecord ==
  ASSUME DetailInv, UNCHANGED <<sort, card, newest, late, touches>>, rec' \in Record, rec'.ver = rec.ver + 1,
         sort \in Sorts, rec'.status \in DOMAIN Allowed[sort], DetailTypeOK', Accounted', AdriftFits',
         NEW o \in Ops, NEW c, c \in {calls[o]} \/ CallFits(c, o, rec', card, sort),
         calls' = [calls EXCEPT ![o] = c]
  PROVE  DetailInv'
<1>1. /\ rec \in Record /\ rec.ver \in Nat /\ rec.ver >= 1 /\ newest \in Nat
      /\ Known(card.shown, rec, sort) /\ \A q \in Ops : CallFits(calls[q], q, rec, card, sort)
      /\ calls \in [Ops -> DetailCall \cup {NoRecord}] /\ NewestShown
  BY DEF DetailInv, DetailTypeOK, Record
<1>2. ASSUME NEW q \in Ops PROVE CallFits(calls[q], q, rec', card, sort)
  <2>1. CallFits(calls[q], q, rec, card, sort)
    BY <1>1
  <2>2. calls[q] # NoRecord => Known(calls[q].got, rec', sort)
    BY <1>1, <2>1, KnownOlder DEF CallFits
  <2> QED
    BY <2>1, <2>2 DEF CallFits
<1>3. \A q \in Ops : CallFits(calls'[q], q, rec', card, sort)
  BY <1>1, <1>2
<1>4. Known(card.shown, rec', sort)
  BY <1>1, KnownOlder
<1>5. rec'.ver >= 1 /\ NewestShown'
  BY <1>1 DEF NewestShown
<1>6. sort # "none"
  BY DEF Sorts
<1> QED
  BY <1>3, <1>4, <1>5, <1>6 DEF DetailInv

(* The columns that are written leave a record of its table.               *)
LEMMA WrittenIs ==
  ASSUME sort \in Sorts, rec \in Record, rec.status \in DOMAIN Allowed[sort], NEW c \in DetailCall,
         c.to \in DOMAIN Allowed[sort] \cup {NoRecord}
  PROVE  Written(c) \in Record /\ Written(c).ver = rec.ver + 1 /\ Written(c).status \in DOMAIN Allowed[sort]
<1> DEFINE s == IF c.to = NoRecord THEN rec.status ELSE c.to
           t == IF c.title = NoRecord THEN rec.title ELSE c.title
<1>1. s \in DOMAIN Allowed[sort] /\ s \in Statuses
  BY TablesAgree
<1>2. t \in {"first", "mine", "theirs"}
  <2>1. rec.title \in {"first", "mine", "theirs"}
    BY DEF Record
  <2>2. c.title \in {"mine", "theirs", "first", NoRecord}
    BY DEF DetailCall
  <2> QED
    BY <2>1, <2>2
<1>3. rec.ver \in Nat
  BY DEF Record
<1>4. Written(c) = [status |-> s, title |-> t, ver |-> rec.ver + 1]
  BY DEF Written
<1> HIDE DEF s, t
<1> QED
  BY <1>1, <1>2, <1>3, <1>4 DEF Record

LEMMA WritesKeep ==
  ASSUME DetailInv, NEW o \in Ops, HandlerWrites(o)
  PROVE  DetailInv'
<1> DEFINE c == calls[o]
           d == [c EXCEPT !.stage = "done", !.got = rec']
<1>1. /\ DetailTypeOK /\ calls \in [Ops -> DetailCall \cup {NoRecord}] /\ rec \in Record /\ rec.ver \in Nat
      /\ c # NoRecord /\ c.stage = "read" /\ c \in DetailCall /\ CallFits(c, o, rec, card, sort)
      /\ UNCHANGED <<sort, card, newest, late, unnoticed, adrift, touches, foreign, losses>>
      /\ calls' = [calls EXCEPT ![o] = d] /\ rec.ver >= 1 /\ rec' = Written(c)
  BY DEF DetailInv, DetailTypeOK, HandlerWrites, Waits, Record
<1>2. sort \in Sorts /\ rec.status \in DOMAIN Allowed[sort] /\ c.to \in DOMAIN Allowed[sort] \cup {NoRecord}
  BY <1>1 DEF CallFits, DetailTypeOK, Sorts
<1>3. rec' \in Record /\ rec'.ver = rec.ver + 1 /\ rec'.status \in DOMAIN Allowed[sort]
  BY <1>1, <1>2, WrittenIs
<1>4. d \in DetailCall /\ d.got = rec' /\ d.to = c.to /\ d.stage = "done" /\ d.from = c.from
  BY <1>1, <1>3 DEF DetailCall
<1>5. Known(rec', rec', sort)
  BY <1>1, <1>3 DEF Known
<1>6. calls'[o] = d
  BY <1>1
<1> HIDE DEF d
<1>7. CallFits(d, o, rec', card, sort) /\ d # NoRecord
  <2>1. d # NoRecord /\ rec' # NoRecord
    BY <1>3, <1>4, RecordAssumption
  <2>2. /\ o = "save" => card.saving
        /\ o = "move" => card.moving /\ c.from \in DOMAIN Allowed[sort] /\ c.to \in Transitions[sort][c.from]
        /\ o \in {"load", "reload"} => c.stage # "read"
    BY <1>1 DEF CallFits
  <2> QED
    BY <1>2, <1>4, <1>5, <2>1, <2>2 DEF CallFits
<1>8. DetailTypeOK'
  BY <1>1, <1>2, <1>3, <1>4 DEF DetailTypeOK
<1>9. Accounted'
  <2>1. o \in {"save", "move"}
    BY <1>1 DEF CallFits, Ops
  <2> QED
    BY <1>4, <1>6, <1>7, <2>1 DEF Accounted
<1>10. AdriftFits'
  BY <1>1 DEF DetailInv, AdriftFits
<1> QED
  BY <1>1, <1>2, <1>3, <1>7, <1>8, <1>9, <1>10, ChangeKeepsRecord

LEMMA OthersKeep ==
  ASSUME DetailInv, OthersChange
  PROVE  DetailInv'
<1>1. /\ DetailTypeOK /\ calls \in [Ops -> DetailCall \cup {NoRecord}] /\ rec \in Record /\ rec.ver \in Nat
      /\ sort \in Sorts /\ rec.status \in DOMAIN Allowed[sort] /\ foreign' = foreign + 1
      /\ UNCHANGED <<sort, card, calls, newest, late, adrift, touches, losses>> /\ unnoticed' = rec.ver + 1
  BY DEF DetailInv, DetailTypeOK, OthersChange, Record
<1>2. PICK s \in Allowed[sort][rec.status] \cup {rec.status} :
        rec' = [status |-> s, title |-> IF s = rec.status THEN "theirs" ELSE rec.title, ver |-> rec.ver + 1]
  BY DEF OthersChange
<1>3. s \in DOMAIN Allowed[sort] /\ s \in Statuses
  BY <1>1, <1>2, TablesAgree
<1>4. rec' \in Record /\ rec'.ver = rec.ver + 1 /\ rec'.status = s
  BY <1>1, <1>2, <1>3 DEF Record
<1>5. DetailTypeOK'
  BY <1>1, <1>3, <1>4 DEF DetailTypeOK
<1>6. Accounted' /\ AdriftFits'
  BY <1>1, <1>4 DEF DetailInv, Accounted, AdriftFits
<1>7. "save" \in Ops /\ calls' = [calls EXCEPT !["save"] = calls["save"]]
  BY <1>1 DEF Ops
<1> QED
  BY <1>1, <1>3, <1>4, <1>5, <1>6, <1>7, ChangeKeepsRecord

(* A request that the page has given up goes on.                           *)
LEMMA AdriftKeep ==
  ASSUME DetailInv, NEW a \in adrift, AdriftReads(a) \/ AdriftWrites(a)
  PROVE  DetailInv'
<1>1. /\ DetailTypeOK /\ calls \in [Ops -> DetailCall \cup {NoRecord}] /\ rec \in Record /\ rec.ver \in Nat
      /\ sort \in Sorts /\ rec.status \in DOMAIN Allowed[sort] /\ AdriftFits
      /\ a \in Adrift /\ adrift \subseteq Adrift /\ a.call \in DetailCall
      /\ a.call.to \in DOMAIN Allowed[sort] \cup {NoRecord}
  BY DEF DetailInv, DetailTypeOK, AdriftFits, Adrift, Record, Sorts
<1>2. CASE AdriftReads(a)
  <2> DEFINE c == [a.call EXCEPT !.stage = "read"]
             b == [a EXCEPT !.call = c]
  <2>1. /\ adrift' = (adrift \ {a}) \cup {b}
        /\ UNCHANGED <<sort, rec, card, calls, newest, late, unnoticed, touches, foreign, losses>>
    BY <1>2 DEF AdriftReads
  <2>2. c \in DetailCall /\ c.to = a.call.to
    BY <1>1 DEF DetailCall
  <2> HIDE DEF c
  <2>3. b \in Adrift /\ b.call = c
    BY <1>1, <2>2 DEF Adrift
  <2> HIDE DEF b
  <2>4. adrift' \subseteq Adrift /\ AdriftFits'
    BY <1>1, <2>1, <2>2, <2>3 DEF AdriftFits
  <2>5. DetailTypeOK'
    BY <1>1, <2>1, <2>4 DEF DetailTypeOK
  <2>6. Accounted' /\ NewestShown'
    BY <2>1 DEF DetailInv, Accounted, NewestShown
  <2>7. \A o \in Ops : CallFits(calls'[o], o, rec', card', sort')
    BY <2>1 DEF DetailInv
  <2> QED
    BY <2>1, <2>4, <2>5, <2>6, <2>7 DEF DetailInv
<1>3. CASE AdriftWrites(a)
  <2>1. /\ rec' = Written(a.call) /\ unnoticed' = rec.ver + 1 /\ adrift' = adrift \ {a}
        /\ UNCHANGED <<sort, card, calls, newest, late, touches, foreign, losses>>
    BY <1>3 DEF AdriftWrites
  <2>2. rec' \in Record /\ rec'.ver = rec.ver + 1 /\ rec'.status \in DOMAIN Allowed[sort]
    BY <1>1, <2>1, WrittenIs
  <2>3. DetailTypeOK'
    BY <1>1, <2>1, <2>2 DEF DetailTypeOK
  <2>4. Accounted' /\ AdriftFits'
    BY <1>1, <2>1, <2>2 DEF Accounted, AdriftFits
  <2>5. "save" \in Ops /\ calls' = [calls EXCEPT !["save"] = calls["save"]]
    BY <1>1, <2>1 DEF Ops
  <2> QED
    BY <1>1, <2>1, <2>2, <2>3, <2>4, <2>5, ChangeKeepsRecord
<1> QED
  BY <1>2, <1>3

(* An answer with a record is taken, whatever it is the answer to.         *)
LEMMA GivenKeeps ==
  ASSUME DetailInv, NEW o \in Ops, Waits(o, "done"), NEW p \in CardType, Given(o, p), p.shown = calls[o].got,
         card.saving => p.saving \/ o = "save", card.moving => p.moving \/ o = "move"
  PROVE  DetailInv'
<1>1. /\ DetailTypeOK /\ calls \in [Ops -> DetailCall \cup {NoRecord}] /\ rec \in Record /\ rec.ver \in Nat
      /\ \A q \in Ops : CallFits(calls[q], q, rec, card, sort)
      /\ calls[o] # NoRecord /\ calls[o].stage = "done" /\ newest \in Nat /\ newest <= rec.ver /\ rec.ver >= 1
      /\ card' = p /\ calls' = [calls EXCEPT ![o] = NoRecord]
      /\ newest' = (IF calls[o].got.ver > newest THEN calls[o].got.ver ELSE newest)
      /\ late' = (calls[o].got.ver < newest)
      /\ UNCHANGED <<sort, rec, unnoticed, adrift, touches, foreign, losses>>
  BY DEF DetailInv, DetailTypeOK, Record, Given, Waits, NewestShown
<1> DEFINE g == calls[o].got
<1>2. g # NoRecord /\ Known(g, rec, sort) /\ sort \in Sorts
  BY <1>1 DEF CallFits
<1>3. g \in Record /\ g.ver \in Nat /\ g.ver <= rec.ver
  BY <1>2 DEF Known, Record
<1>4. newest' \in Nat /\ newest <= newest' /\ g.ver <= newest' /\ newest' <= rec.ver /\ late' \in BOOLEAN
  BY <1>1, <1>3
<1>5. DetailTypeOK'
  BY <1>1, <1>4 DEF DetailTypeOK, CardType
<1>6. NewestShown'
  <2>1. ASSUME ~late' PROVE g.ver = newest'
    <3>1. ~(g.ver < newest)
      BY <1>1, <2>1
    <3>2. newest' = IF g.ver > newest THEN g.ver ELSE newest
      BY <1>1
    <3>3. newest \in Nat /\ g.ver \in Nat
      BY <1>1, <1>3
    <3> HIDE DEF g
    <3> QED
      BY <3>1, <3>2, <3>3
  <2> HIDE DEF g
  <2>2. p.shown = g
    BY DEF g
  <2> QED
    BY <1>1, <1>4, <2>1, <2>2 DEF NewestShown
<1>7. \A q \in Ops : calls'[q] = IF q = o THEN NoRecord ELSE calls[q]
  BY <1>1
<1>8. ASSUME NEW q \in Ops PROVE CallFits(calls'[q], q, rec, p, sort)
  <2>1. CASE q = o
    BY <1>7, <2>1 DEF CallFits
  <2>2. CASE q # o
    BY <1>1, <1>7, <2>2 DEF CallFits
  <2> QED
    BY <2>1, <2>2
<1>9. Accounted'
  <2>1. CASE rec.ver = 1 \/ rec.ver <= unnoticed
    BY <1>1, <2>1 DEF Accounted
  <2>2. CASE rec.ver <= newest
    BY <1>1, <1>4, <2>2 DEF Accounted
  <2>3. CASE \E q \in {"save", "move"} : calls[q] # NoRecord /\ calls[q].stage = "done" /\ calls[q].got.ver = rec.ver
    <3>1. PICK q \in {"save", "move"} : calls[q] # NoRecord /\ calls[q].stage = "done" /\ calls[q].got.ver = rec.ver
      BY <2>3
    <3>2. CASE q = o
      BY <1>1, <1>4, <3>1, <3>2 DEF Accounted
    <3>3. CASE q # o
      <4>1. calls'[q] = calls[q]
        BY <1>7, <3>3 DEF Ops
      <4> QED
        BY <1>1, <3>1, <4>1 DEF Accounted
    <3> QED
      BY <3>2, <3>3
  <2> QED
    BY <2>1, <2>2, <2>3 DEF DetailInv, Accounted
<1>10. Known(p.shown, rec, sort) /\ sort # "none"
  BY <1>2 DEF Sorts
<1>11. AdriftFits'
  BY <1>1 DEF DetailInv, AdriftFits
<1> QED
  BY <1>1, <1>5, <1>6, <1>8, <1>9, <1>10, <1>11 DEF DetailInv

LEMMA AnswersKeep ==
  ASSUME DetailInv, SaveAnswered \/ MoveAnswered \/ \E o \in Ops : LoadAnswered(o)
  PROVE  DetailInv'
<1>1. card \in CardType /\ \A o \in Ops : CallFits(calls[o], o, rec, card, sort)
  BY DEF DetailInv, DetailTypeOK, CardType
<1>2. ASSUME NEW o \in Ops, Waits(o, "done") PROVE calls[o].got \in Record
  BY <1>1, <1>2 DEF Waits, CallFits, Known
<1>3. CASE SaveAnswered
  <2> DEFINE p == [card EXCEPT !.shown = calls["save"].got, !.saving = FALSE, !.editing = FALSE]
  <2>1. "save" \in Ops /\ Waits("save", "done") /\ Given("save", p)
    BY <1>3 DEF SaveAnswered, Ops
  <2>2. calls["save"].got \in Record
    BY <1>2, <2>1
  <2>3. p \in CardType /\ p.shown = calls["save"].got /\ p.moving = card.moving
    BY <1>1, <2>2 DEF CardType
  <2> HIDE DEF p
  <2> QED
    BY <2>1, <2>3, GivenKeeps
<1>4. CASE MoveAnswered
  <2> DEFINE p == [card EXCEPT !.shown = calls["move"].got, !.moving = FALSE]
  <2>1. "move" \in Ops /\ Waits("move", "done") /\ Given("move", p)
    BY <1>4 DEF MoveAnswered, Ops
  <2>2. calls["move"].got \in Record
    BY <1>2, <2>1
  <2>3. p \in CardType /\ p.shown = calls["move"].got /\ p.saving = card.saving
    BY <1>1, <2>2 DEF CardType
  <2> HIDE DEF p
  <2> QED
    BY <2>1, <2>3, GivenKeeps
<1>5. ASSUME NEW o \in Ops, LoadAnswered(o) PROVE DetailInv'
  <2> DEFINE p == [card EXCEPT !.shown = calls[o].got, !.loading = FALSE]
  <2>1. Waits(o, "done") /\ Given(o, p)
    BY <1>5 DEF LoadAnswered
  <2>2. calls[o].got \in Record
    BY <1>2, <2>1
  <2>3. p \in CardType /\ p.shown = calls[o].got /\ p.saving = card.saving /\ p.moving = card.moving
    BY <1>1, <2>2 DEF CardType
  <2> HIDE DEF p
  <2> QED
    BY <2>1, <2>3, GivenKeeps
<1> QED
  BY <1>3, <1>4, <1>5

(* A request that is given up: what it may have made is told of by none.   *)
LEMMA GivesUpKeeps ==
  ASSUME DetailInv, NEW o \in Ops, calls[o] # NoRecord, calls' = [calls EXCEPT ![o] = NoRecord],
         card' \in CardType, card'.shown = card.shown,
         card.saving => card'.saving \/ o = "save", card.moving => card'.moving \/ o = "move",
         unnoticed' \in Nat, unnoticed <= unnoticed',
         o \in {"save", "move"} /\ calls[o].stage = "done" => calls[o].got.ver <= unnoticed',
         adrift' \subseteq Adrift, AdriftFits', losses' \in Nat,
         UNCHANGED <<sort, rec, newest, late, touches, foreign>>
  PROVE  DetailInv'
<1>1. /\ DetailTypeOK /\ calls \in [Ops -> DetailCall \cup {NoRecord}] /\ rec.ver \in Nat /\ unnoticed \in Nat
      /\ \A q \in Ops : CallFits(calls[q], q, rec, card, sort)
  BY DEF DetailInv, DetailTypeOK, Record
<1>2. DetailTypeOK'
  BY <1>1 DEF DetailTypeOK, CardType
<1>3. \A q \in Ops : calls'[q] = IF q = o THEN NoRecord ELSE calls[q]
  BY <1>1
<1>4. ASSUME NEW q \in Ops PROVE CallFits(calls'[q], q, rec, card', sort)
  <2>1. CASE q = o
    BY <1>3, <2>1 DEF CallFits
  <2>2. CASE q # o
    BY <1>1, <1>3, <2>2 DEF CallFits
  <2> QED
    BY <2>1, <2>2
<1>5. Accounted'
  <2>1. CASE rec.ver = 1 \/ rec.ver <= newest
    BY <2>1 DEF Accounted
  <2>2. CASE rec.ver <= unnoticed
    BY <1>1, <2>2 DEF Accounted
  <2>3. ASSUME NEW q \in {"save", "move"}, calls[q] # NoRecord, calls[q].stage = "done", calls[q].got.ver = rec.ver
        PROVE  Accounted'
    <3>1. CASE q = o
      BY <2>3, <3>1 DEF Accounted
    <3>2. CASE q # o
      <4>1. calls'[q] = calls[q]
        BY <1>3, <3>2 DEF Ops
      <4> QED
        BY <2>3, <4>1 DEF Accounted
    <3> QED
      BY <3>1, <3>2
  <2> QED
    BY <2>1, <2>2, <2>3 DEF DetailInv, Accounted
<1>6. NewestShown'
  BY DEF DetailInv, NewestShown
<1> QED
  BY <1>2, <1>4, <1>5, <1>6 DEF DetailInv

LEMMA FailuresKeep ==
  ASSUME DetailInv, MoveRefused \/ \E o \in Ops : LoadFailed(o)
  PROVE  DetailInv'
<1>1. card \in CardType /\ AdriftFits /\ adrift \subseteq Adrift /\ unnoticed \in Nat /\ losses \in Nat
  BY DEF DetailInv, DetailTypeOK, CardType
<1>2. CASE MoveRefused
  <2>1. /\ "move" \in Ops /\ calls["move"] # NoRecord /\ calls["move"].stage = "refused"
        /\ card' = [card EXCEPT !.moving = FALSE] /\ calls' = [calls EXCEPT !["move"] = NoRecord]
        /\ UNCHANGED <<sort, rec, newest, late, unnoticed, adrift, touches, foreign, losses>>
    BY <1>2 DEF MoveRefused, Waits, Ops
  <2>2. card' \in CardType /\ card'.shown = card.shown /\ card'.saving = card.saving
    BY <1>1, <2>1 DEF CardType
  <2>3. AdriftFits' /\ unnoticed <= unnoticed'
    BY <1>1, <2>1 DEF AdriftFits
  <2> QED
    BY <1>1, <2>1, <2>2, <2>3, GivesUpKeeps
<1>3. ASSUME NEW o \in Ops, LoadFailed(o) PROVE DetailInv'
  <2>1. /\ calls[o] # NoRecord /\ o \notin {"save", "move"}
        /\ card' = [card EXCEPT !.loading = FALSE] /\ calls' = [calls EXCEPT ![o] = NoRecord]
        /\ UNCHANGED <<sort, rec, newest, late, unnoticed, adrift, touches, foreign, losses>>
    BY <1>3 DEF LoadFailed
  <2>2. card' \in CardType /\ card'.shown = card.shown /\ card'.saving = card.saving
        /\ card'.moving = card.moving
    BY <1>1, <2>1 DEF CardType
  <2>3. AdriftFits' /\ unnoticed <= unnoticed'
    BY <1>1, <2>1 DEF AdriftFits
  <2> QED
    BY <1>1, <2>1, <2>2, <2>3, GivesUpKeeps
<1> QED
  BY <1>2, <1>3

LEMMA LossesKeep ==
  ASSUME DetailInv, SaveFails \/ MoveFails
  PROVE  DetailInv'
<1>1. /\ card \in CardType /\ AdriftFits /\ adrift \subseteq Adrift /\ unnoticed \in Nat /\ losses \in Nat
      /\ calls \in [Ops -> DetailCall \cup {NoRecord}] /\ \A o \in Ops : CallFits(calls[o], o, rec, card, sort)
  BY DEF DetailInv, DetailTypeOK, CardType
<1>2. PICK o \in {"save", "move"} : \E p \in CardType :
        /\ Fails(o, p) /\ p.shown = card.shown
        /\ card.saving => p.saving \/ o = "save"
        /\ card.moving => p.moving \/ o = "move"
  <2>1. CASE SaveFails
    <3>1. [card EXCEPT !.saving = FALSE] \in CardType
      BY <1>1 DEF CardType
    <3> QED
      BY <1>1, <2>1, <3>1 DEF SaveFails, CardType
  <2>2. CASE MoveFails
    <3>1. [card EXCEPT !.moving = FALSE] \in CardType
      BY <1>1 DEF CardType
    <3> QED
      BY <1>1, <2>2, <3>1 DEF MoveFails, CardType
  <2> QED
    BY <2>1, <2>2
<1>3. PICK p \in CardType :
        /\ Fails(o, p) /\ p.shown = card.shown
        /\ card.saving => p.saving \/ o = "save"
        /\ card.moving => p.moving \/ o = "move"
  BY <1>2
<1> DEFINE c == calls[o]
           b == [loss |-> losses, call |-> c]
<1>4. /\ o \in Ops /\ c # NoRecord /\ c \in DetailCall /\ CallFits(c, o, rec, card, sort)
      /\ losses' = losses + 1 /\ card' = p /\ calls' = [calls EXCEPT ![o] = NoRecord]
      /\ UNCHANGED <<sort, rec, newest, late, touches, foreign>>
  <2>1. o \in Ops
    BY DEF Ops
  <2>2. c # NoRecord
    BY <1>3 DEF Fails
  <2>3. CallFits(c, o, rec, card, sort)
    BY <1>1, <2>1
  <2>4. c \in DetailCall
    BY <1>1, <2>1, <2>2
  <2> QED
    BY <1>3, <2>1, <2>2, <2>3, <2>4 DEF Fails
<1>5. /\ unnoticed' = (IF c.stage = "done" /\ c.got.ver > unnoticed THEN c.got.ver ELSE unnoticed)
      /\ adrift' = adrift \/ (c.stage \in {"sent", "read"} /\ adrift' = adrift \cup {b})
  BY <1>3 DEF Fails
<1>6. unnoticed' \in Nat /\ unnoticed <= unnoticed' /\ (c.stage = "done" => c.got.ver <= unnoticed')
  <2>1. CASE c.stage = "done"
    <3> DEFINE v == c.got.ver
    <3>1. v \in Nat
      BY <1>4, <2>1 DEF CallFits, Known, Record
    <3>2. unnoticed' = IF v > unnoticed THEN v ELSE unnoticed
      BY <1>5, <2>1
    <3> HIDE DEF v
    <3>3. unnoticed' \in Nat /\ unnoticed <= unnoticed' /\ v <= unnoticed'
      BY <1>1, <3>1, <3>2
    <3> QED
      BY <3>3 DEF v
  <2>2. CASE c.stage # "done"
    BY <1>1, <1>5, <2>2
  <2> QED
    BY <2>1, <2>2
<1>7. b \in Adrift /\ b.call = c
  BY <1>1, <1>4 DEF Adrift
<1>8. sort \in Sorts /\ c.to \in DOMAIN Allowed[sort] \cup {NoRecord}
  BY <1>4 DEF CallFits
<1> HIDE DEF b
<1>9. adrift' \subseteq Adrift /\ AdriftFits'
  BY <1>1, <1>4, <1>7, <1>8, <1>5 DEF AdriftFits
<1>10. losses' \in Nat
  BY <1>1, <1>4
<1> QED
  BY <1>3, <1>4, <1>6, <1>9, <1>10, GivesUpKeeps

LEMMA DetailStarts == DetailInit => DetailInv
<1> SUFFICES ASSUME DetailInit PROVE DetailInv
  OBVIOUS
<1>1. AskRecord \in DetailCall /\ AskRecord.got = NoRecord /\ AskRecord.to = NoRecord /\ AskRecord.stage = "sent"
  BY DEF AskRecord, Call, DetailCall
<1>2. calls \in [Ops -> DetailCall \cup {NoRecord}]
  BY <1>1 DEF DetailInit
<1>3. rec \in Record /\ rec.ver = 1 /\ (sort # "none" => rec.status \in DOMAIN Allowed[sort])
  <2>1. CASE sort = "none"
    BY <2>1, StatusesAre DEF DetailInit, Record
  <2>2. CASE sort # "none"
    <3>1. sort \in Sorts /\ rec \in [status : DOMAIN Allowed[sort], title : {"first"}, ver : {1}]
      BY <2>2 DEF DetailInit
    <3>2. rec.status \in DOMAIN Allowed[sort] /\ rec.ver = 1 /\ DOMAIN Allowed[sort] \subseteq Statuses
      BY <3>1, TablesAgree
    <3> QED
      BY <3>1, <3>2 DEF Record
  <2> QED
    BY <2>1, <2>2
<1>4. card \in CardType /\ card.shown = NoRecord
  BY DEF DetailInit, CardType
<1>5. DetailTypeOK
  BY <1>2, <1>3, <1>4 DEF DetailInit, DetailTypeOK, CardType
<1>6. ASSUME NEW o \in Ops PROVE CallFits(calls[o], o, rec, card, sort)
  <2>1. CASE calls[o] = NoRecord
    BY <2>1 DEF CallFits
  <2>2. CASE calls[o] # NoRecord
    <3>1. sort \in Sorts /\ o \in {"load", "reload"} /\ calls[o] = AskRecord
      BY <2>2 DEF DetailInit
    <3> QED
      BY <1>1, <3>1 DEF CallFits, Known
  <2> QED
    BY <2>1, <2>2
<1>7. Accounted /\ NewestShown /\ AdriftFits /\ Known(card.shown, rec, sort)
  BY <1>3, <1>4 DEF DetailInit, Accounted, NewestShown, AdriftFits, Known
<1> QED
  BY <1>3, <1>4, <1>5, <1>6, <1>7 DEF DetailInv

LEMMA DetailKept == DetailSpec => []DetailInv
<1>1. DetailInv /\ [DetailNext]_detailVars => DetailInv'
  <2> SUFFICES ASSUME DetailInv, [DetailNext]_detailVars PROVE DetailInv'
    OBVIOUS
  <2>1. CASE UNCHANGED detailVars
    BY <2>1 DEF detailVars, DetailInv, DetailTypeOK, Accounted, NewestShown, AdriftFits
  <2>2. CASE DetailNext
    BY <2>2, EditsKeep, TransitionKeeps, ReadsKeep, WritesKeep, OthersKeep, AdriftKeep, AnswersKeep, FailuresKeep,
       LossesKeep DEF DetailNext
  <2> QED
    BY <2>1, <2>2
<1> QED
  BY DetailStarts, <1>1, PTL DEF DetailSpec

(* However requests and changes of others meet, the page has its type and  *)
(* the record a status of its table.                                       *)
THEOREM DetailTyped == DetailSpec => []DetailTypeOK
<1>1. DetailInv => DetailTypeOK
  BY DEF DetailInv
<1> QED
  BY <1>1, DetailKept, PTL

(* Without a bound on what the user and the others do, and on what fails:  *)
(* a move that is refused was offered for a status that the record does    *)
(* not have any more (the pages' tables of transitions and those of the    *)
(* handlers), and at rest the page shows the record, with the exceptions   *)
(* that the property names: a change by others, a request whose answer was *)
(* lost, an older answer that came last.                                   *)
THEOREM DetailFollows == DetailSpec => []RecordFollows
<1>1. DetailInv => RecordFollows
  <2> SUFFICES ASSUME DetailInv PROVE RecordFollows
    OBVIOUS
  <2>1. RefusedOnlyWhenStale
    BY DEF DetailInv, CallFits, RefusedOnlyWhenStale, Waits, Ops
  <2>2. RecordCurrent
    <3> SUFFICES ASSUME \A o \in Ops : calls[o] = NoRecord, card.shown # NoRecord, ~late, unnoticed <= newest
                 PROVE  card.shown = rec
      BY DEF RecordCurrent
    <3>1. /\ rec.ver \in Nat /\ newest \in Nat /\ newest <= rec.ver /\ card.shown.ver = newest
          /\ Known(card.shown, rec, sort) /\ 1 <= card.shown.ver
      BY DEF DetailInv, DetailTypeOK, Record, NewestShown, Known
    <3>2. rec.ver = 1 \/ rec.ver <= unnoticed \/ rec.ver <= newest
      BY DEF DetailInv, Accounted, Ops
    <3>3. unnoticed \in Nat
      BY DEF DetailInv, DetailTypeOK
    <3>4. card.shown.ver = rec.ver
      BY <3>1, <3>2, <3>3
    <3> QED
      BY <3>1, <3>4 DEF Known
  <2> QED
    BY <2>1, <2>2 DEF RecordFollows
<1> QED
  BY <1>1, DetailKept, PTL

-----------------------------------------------------------------------------
(* The lists of records.                                                   *)
PageType == [up : BOOLEAN, loading : BOOLEAN, failed : BOOLEAN, rows : Count, sort : BOOLEAN, all : BOOLEAN,
             draft : Draft \cup {NoThing}, busy : BOOLEAN, auto : Reaction \cup {NoThing}, used : SUBSET Draft]
PageFields == {"up", "loading", "failed", "rows", "sort", "all", "draft", "busy", "auto", "used"}

(* The page is as it was, but for some of its fields.                      *)
PageKeeps(F) == \A f \in PageFields \ F : page'[f] = page[f]

(* What the user has entered and what was asked for him: a draft is entered*)
(* once, and only an element that is there waits for an answer.            *)
DraftsFit ==
  /\ page.draft # NoThing => page.draft \in page.used
  /\ \A m \in making : /\ m.draft \in page.used
                       /\ m.stored => m.mine
                       /\ m.mine => page.up /\ page.draft = m.draft
  /\ \A s \in switching : (s.done => s.mine /\ s.id # 0) /\ (s.mine => page.up)
  /\ \A s, t \in switching : s.mine /\ t.mine => s = t

(* One request per draft: stored, or under way, or neither.                *)
RequestsFit ==
  list = "requests" /\ ~unheard =>
    /\ \A d \in Draft : stored[d] <= 1 /\ (d \notin page.used => stored[d] = 0)
    /\ \A m \in making : ~m.stored => stored[m.draft] = 0
    /\ \A m, n \in making : m.draft = n.draft => m = n
    /\ page.up /\ page.draft # NoThing /\ ~page.busy =>
         stored[page.draft] = 0 /\ \A m \in making : m.draft # page.draft

HasReaction(id) == \E r \in reactions : r.id = id

(* One reaction at most, which whoever knows of one knows.                 *)
SwitchFits ==
  ~misled =>
    /\ reactions = {} \/ \E r \in Reaction : reactions = {r}
    /\ \A s \in switching : s.mine => IF s.id = 0 THEN reactions = {} /\ ~s.done ELSE HasReaction(s.id)
    /\ \A i \in LoadId : loads[i] # NoThing /\ loads[i].auto # NoThing => HasReaction(loads[i].auto.id)
    /\ page.auto # NoThing => HasReaction(page.auto.id)
    /\ page.up /\ ~page.loading /\ page.auto = NoThing => reactions = {} \/ \E s \in switching : s.done

(* Once its answers are there, the page shows what the last one brought.   *)
RowsFit ==
  page.up /\ list # "none" /\ (\A i \in LoadId : loads[i] = NoThing) /\ ~behind /\ (\A m \in making : ~m.stored) =>
    page.rows = stored /\ page.sort = page.all

LoadsFit == \A i \in LoadId : loads[i] # NoThing /\ loads[i].read => loads[i].rows # NoThing

ListsFit == ListsTypeOK /\ IsFiniteSet(reactions) /\ LoadsFit /\ DraftsFit /\ RequestsFit /\ SwitchFits /\ RowsFit

(* What the buttons say of the page.                                       *)
LEMMA OffersFacts ==
  /\ Offers # {} => page.up
  /\ "create" \in Offers => page.draft # NoThing /\ (list = "requests" => ~page.busy)
  /\ "auto" \in Offers => ~page.loading /\ \A s \in switching : ~s.mine
  /\ "all" \in Offers => list = "agents"
<1>1. CASE ~page.up
  BY <1>1 DEF Offers
<1>2. CASE page.up
  <2>1. "create" \in Offers => page.draft # NoThing
    BY <1>2 DEF Offers, PlanListOffers, RequestListOffers, RequirementListOffers, ProjectListOffers,
                DashboardOffers, InvocationListOffers, AgentListOffers
  <2>2. "create" \in Offers /\ list = "requests" => ~page.busy
    BY <1>2 DEF Offers, RequestListOffers
  <2>3. "auto" \in Offers => ~page.loading /\ \A s \in switching : ~s.mine
    BY <1>2 DEF Offers, PlanListOffers, RequestListOffers, RequirementListOffers, ProjectListOffers,
                DashboardOffers, InvocationListOffers, AgentListOffers
  <2>4. "all" \in Offers => list = "agents"
    BY <1>2 DEF Offers, PlanListOffers, RequestListOffers, RequirementListOffers, ProjectListOffers,
                DashboardOffers, InvocationListOffers, AgentListOffers
  <2> QED
    BY <1>2, <2>1, <2>2, <2>3, <2>4
<1> QED
  BY <1>1, <1>2

LEMMA FreshFits ==
  ASSUME NEW u \in SUBSET Draft
  PROVE  /\ Fresh(u) \in PageType /\ Fresh(u).used = u /\ Fresh(u).draft = NoThing /\ Fresh(u).up
         /\ Fresh(u).loading /\ Fresh(u).auto = NoThing /\ ~Fresh(u).busy
BY DEF Fresh, PageType, Count

LEMMA MountLoadsFacts == MountLoads(list) \subseteq LoadId /\ (list \in Lists => MountLoads(list) # {})
BY DEF MountLoads, LoadId, Lists, PlanListLoads, RequestListLoads, RequirementListLoads, AgentListLoads,
       ProjectListLoads, DashboardLoads, InvocationListLoads

LEMMA LoadFits ==
  ASSUME NEW b \in BOOLEAN
  PROVE  Load(b) \in ListLoad /\ Load(b).auto = NoThing /\ Load(b) # NoThing
<1>1. Load(b) \in ListLoad /\ Load(b).auto = NoThing
  BY DEF Load, ListLoad
<1> QED
  BY <1>1, ListsAssumption

(* The steps that change the page.                                         *)
LEMMA GonePage ==
  ASSUME ListsTypeOK, Gone
  PROVE  page' \in PageType /\ PageKeeps({"up"}) /\ ~page'.up
<1>1. page \in PageType /\ page' = [page EXCEPT !.up = FALSE]
  BY DEF Gone, ListsTypeOK, PageType
<1> QED
  BY <1>1 DEF PageType, PageKeeps, PageFields

LEMMA NewRecordPage ==
  ASSUME ListsTypeOK, NewRecord
  PROVE  /\ page' \in PageType /\ PageKeeps({"draft", "used"})
         /\ page'.draft \in Draft \ page.used /\ page'.used = page.used \cup {page'.draft}
<1>1. PICK d \in Draft \ page.used : page' = [page EXCEPT !.draft = d, !.used = page.used \cup {d}]
  BY DEF NewRecord
<1>2. page \in PageType /\ page.used \cup {d} \in SUBSET Draft
  BY DEF ListsTypeOK, PageType
<1> DEFINE u == page.used \cup {d}
<1> HIDE DEF u
<1>3. page' = [page EXCEPT !.draft = d, !.used = u] /\ u \in SUBSET Draft
  BY <1>1, <1>2 DEF u
<1>4. page' \in PageType
  BY <1>2, <1>3 DEF PageType
<1>5. PageKeeps({"draft", "used"})
  BY <1>2, <1>3 DEF PageType, PageKeeps, PageFields
<1>6. page'.draft = d /\ page'.used = u
  BY <1>2, <1>3 DEF PageType
<1> QED
  BY <1>4, <1>5, <1>6 DEF u

LEMMA BusyPage ==
  ASSUME ListsTypeOK, NEW b \in BOOLEAN, page' = [page EXCEPT !.busy = b]
  PROVE  page' \in PageType /\ PageKeeps({"busy"}) /\ page'.busy = b
<1>1. page \in PageType
  BY DEF ListsTypeOK, PageType
<1> QED
  BY <1>1 DEF PageType, PageKeeps, PageFields

LEMMA SwitchedPage ==
  ASSUME ListsTypeOK, NEW r \in Reaction, page' = [page EXCEPT !.auto = r]
  PROVE  page' \in PageType /\ PageKeeps({"auto"}) /\ page'.auto = r
<1>1. page \in PageType
  BY DEF ListsTypeOK, PageType
<1> QED
  BY <1>1 DEF PageType, PageKeeps, PageFields

LEMMA ShowAllPage ==
  ASSUME ListsTypeOK, ToggleShowAll
  PROVE  page' \in PageType /\ PageKeeps({"all", "loading"}) /\ page'.loading
<1> DEFINE a == ~page.all
<1>1. page \in PageType
  BY DEF ListsTypeOK, PageType
<1>2. page' = [page EXCEPT !.all = a, !.loading = TRUE] /\ a \in BOOLEAN
  BY Zenon DEF ToggleShowAll
<1> HIDE DEF a
<1>3. page' \in PageType
  BY <1>1, <1>2 DEF PageType
<1>4. PageKeeps({"all", "loading"}) /\ page'.loading
  BY <1>1, <1>2 DEF PageType, PageKeeps, PageFields
<1> QED
  BY <1>3, <1>4

LEMMA AnsweredPage ==
  ASSUME ListsTypeOK, NEW i \in LoadId, ListAnswered(i), loads[i].rows \in Count
  PROVE  /\ page' \in PageType /\ PageKeeps({"loading", "rows", "sort", "auto"})
         /\ ~page'.loading /\ page'.rows = loads[i].rows /\ page'.sort = loads[i].sort
         /\ page'.auto = loads[i].auto
<1> DEFINE rows == loads[i].rows
           given == loads[i].sort
           auto == loads[i].auto
<1>1. page \in PageType /\ page' = [page EXCEPT !.loading = FALSE, !.rows = rows, !.sort = given, !.auto = auto]
  BY DEF ListAnswered, ListsTypeOK, PageType
<1>2. rows \in Count /\ given \in BOOLEAN /\ auto \in Reaction \cup {NoThing}
  BY DEF ListAnswered, ListsTypeOK, ListLoad
<1> HIDE DEF rows, given, auto
<1>3. page' \in PageType
  BY <1>1, <1>2 DEF PageType
<1>4. PageKeeps({"loading", "rows", "sort", "auto"})
  BY <1>1 DEF PageType, PageKeeps, PageFields
<1>5. ~page'.loading /\ page'.rows = rows /\ page'.sort = given /\ page'.auto = auto
  BY <1>1 DEF PageType
<1> QED
  BY <1>3, <1>4, <1>5 DEF rows, given, auto

LEMMA FailedPage ==
  ASSUME ListsTypeOK, NEW i \in LoadId, ListFails(i)
  PROVE  page' \in PageType /\ PageKeeps({"loading", "failed"}) /\ ~page'.loading
<1>1. page \in PageType /\ page' = [page EXCEPT !.loading = FALSE, !.failed = TRUE]
  BY DEF ListFails, ListsTypeOK, PageType
<1>2. page' \in PageType
  BY <1>1 DEF PageType
<1>3. PageKeeps({"loading", "failed"}) /\ ~page'.loading
  BY <1>1 DEF PageType, PageKeeps, PageFields
<1> QED
  BY <1>2, <1>3

LEMMA ClickFacts ==
  ASSUME ListsTypeOK, NEW c, Click(c)
  PROVE  /\ c \in Offers /\ clicks + 1 \in 1 .. MaxClicks /\ clicks' \in 0 .. MaxClicks
         /\ UNCHANGED <<list, stored, reactions, unheard, misses>>
BY ListsAssumption DEF Click, ListsTypeOK

LEMMA MissFacts ==
  ASSUME ListsTypeOK, Miss
  PROVE  misses' \in 0 .. MaxMisses /\ UNCHANGED <<list, stored, reactions, clicks>>
BY ListsAssumption DEF Miss, ListsTypeOK

(* What is left of the requests of an element that is gone.                *)
LEMMA StrayMaking ==
  ASSUME NEW o \in Makings
  PROVE  /\ [o EXCEPT !.mine = FALSE] \in Makings
         /\ [o EXCEPT !.mine = FALSE].draft = o.draft /\ [o EXCEPT !.mine = FALSE].stored = o.stored
         /\ ~[o EXCEPT !.mine = FALSE].mine
BY DEF Makings

LEMMA StrayedSwitch ==
  ASSUME NEW o \in Switches
  PROVE  /\ [o EXCEPT !.mine = FALSE] \in Switches
         /\ [o EXCEPT !.mine = FALSE].done = o.done /\ ~[o EXCEPT !.mine = FALSE].mine
BY DEF Switches

LEMMA GoneFacts ==
  ASSUME ListsTypeOK, Gone
  PROVE  /\ making' \subseteq Makings /\ switching' \subseteq Switches
         /\ loads' \in [LoadId -> ListLoad \cup {NoThing}] /\ \A i \in LoadId : loads'[i] = NoThing
         /\ \A m \in making' : ~m.mine /\ ~m.stored /\ \E o \in making : ~o.stored /\ m = [o EXCEPT !.mine = FALSE]
         /\ \A s \in switching' : ~s.mine /\ ~s.done
<1>1. making \subseteq Makings /\ switching \subseteq Switches
  BY DEF ListsTypeOK
<1>2. ASSUME NEW m \in making'
      PROVE  m \in Makings /\ ~m.mine /\ ~m.stored /\ \E o \in making : ~o.stored /\ m = [o EXCEPT !.mine = FALSE]
  <2>1. PICK o \in making : ~o.stored /\ m = [o EXCEPT !.mine = FALSE]
    BY DEF Gone
  <2> QED
    BY <1>1, <2>1, StrayMaking
<1>3. ASSUME NEW s \in switching'
      PROVE  s \in Switches /\ ~s.mine /\ ~s.done
  <2>1. PICK o \in switching : ~o.done /\ s = [o EXCEPT !.mine = FALSE]
    BY DEF Gone
  <2> QED
    BY <1>1, <2>1, StrayedSwitch
<1>4. loads' \in [LoadId -> ListLoad \cup {NoThing}] /\ \A i \in LoadId : loads'[i] = NoThing
  BY DEF Gone
<1> QED
  BY <1>2, <1>3, <1>4

LEMMA ListReadFacts ==
  ASSUME ListsTypeOK, NEW i \in LoadId, ListRead(i)
  PROVE  /\ loads' \in [LoadId -> ListLoad \cup {NoThing}]
         /\ \A j \in LoadId \ {i} : loads'[j] = loads[j]
         /\ loads'[i] # NoThing /\ loads'[i].rows = stored
         /\ loads'[i].auto \in {NoThing, loads[i].auto} \cup reactions
<1>1. /\ loads \in [LoadId -> ListLoad \cup {NoThing}] /\ loads[i] \in ListLoad /\ stored \in Count
      /\ loads[i].auto \in Reaction \cup {NoThing} /\ reactions \subseteq Reaction
  BY DEF ListsTypeOK, ListRead, ListLoad
<1>2. \E l \in ListLoad :
        /\ l.auto \in {NoThing, loads[i].auto} \cup reactions
        /\ l.rows = stored /\ loads' = [loads EXCEPT ![i] = l]
  <2>1. ASSUME NEW a \in {NoThing} \cup reactions,
               loads' = [loads EXCEPT ![i] = [loads[i] EXCEPT !.read = TRUE, !.rows = stored, !.auto = a]]
        PROVE  \E l \in ListLoad :
                 /\ l.auto \in {NoThing, loads[i].auto} \cup reactions
                 /\ l.rows = stored /\ loads' = [loads EXCEPT ![i] = l]
    <3> DEFINE l == [loads[i] EXCEPT !.read = TRUE, !.rows = stored, !.auto = a]
    <3>1. a \in Reaction \cup {NoThing}
      BY <1>1
    <3>2. l \in ListLoad
      BY <1>1, <3>1 DEF ListLoad
    <3>3. l.rows = stored /\ l.auto = a
      BY <1>1 DEF ListLoad
    <3>4. loads' = [loads EXCEPT ![i] = l]
      BY <2>1
    <3> HIDE DEF l
    <3> QED
      BY <3>1, <3>2, <3>3, <3>4
  <2>2. ASSUME loads' = [loads EXCEPT ![i] = [loads[i] EXCEPT !.read = TRUE, !.rows = stored]]
        PROVE  \E l \in ListLoad :
                 /\ l.auto \in {NoThing, loads[i].auto} \cup reactions
                 /\ l.rows = stored /\ loads' = [loads EXCEPT ![i] = l]
    <3> DEFINE l == [loads[i] EXCEPT !.read = TRUE, !.rows = stored]
    <3>1. l \in ListLoad
      BY <1>1 DEF ListLoad
    <3>2. l.rows = stored /\ l.auto = loads[i].auto
      BY <1>1 DEF ListLoad
    <3>3. loads' = [loads EXCEPT ![i] = l]
      BY <2>2
    <3> HIDE DEF l
    <3> QED
      BY <1>1, <3>1, <3>2, <3>3
  <2>3. \/ \E a \in Newest : loads' = [loads EXCEPT ![i] = [loads[i] EXCEPT !.read = TRUE, !.rows = stored, !.auto = a]]
        \/ loads' = [loads EXCEPT ![i] = [loads[i] EXCEPT !.read = TRUE, !.rows = stored]]
    BY Zenon DEF ListRead
  <2>4. Newest \subseteq {NoThing} \cup reactions
    BY DEF Newest
  <2> QED
    BY <2>1, <2>2, <2>3, <2>4
<1>3. PICK l \in ListLoad :
        /\ l.auto \in {NoThing, loads[i].auto} \cup reactions
        /\ l.rows = stored /\ loads' = [loads EXCEPT ![i] = l]
  BY <1>2
<1>4. loads'[i] = l /\ l # NoThing
  BY <1>1, <1>3, ListsAssumption
<1>5. loads' \in [LoadId -> ListLoad \cup {NoThing}] /\ \A j \in LoadId \ {i} : loads'[j] = loads[j]
  BY <1>1, <1>3
<1> QED
  BY <1>3, <1>4, <1>5

LEMMA MakingFacts ==
  ASSUME ListsTypeOK, NEW m \in making
  PROVE  /\ m \in Makings /\ m.draft \in Draft
         /\ [m EXCEPT !.stored = TRUE] \in Makings /\ [m EXCEPT !.stored = TRUE].draft = m.draft
         /\ [m EXCEPT !.stored = TRUE].mine = m.mine /\ [m EXCEPT !.stored = TRUE].stored
BY DEF ListsTypeOK, Makings

LEMMA RecordStoredFacts ==
  ASSUME ListsTypeOK, NEW m \in making, RecordStored(m)
  PROVE  /\ stored' \in Count /\ stored'[m.draft] = stored[m.draft] + 1
         /\ \A d \in Draft \ {m.draft} : stored'[d] = stored[d]
         /\ making' \subseteq Makings
         /\ \A n \in making' : n \in making \ {m} \/ (m.mine /\ n = [m EXCEPT !.stored = TRUE])
         /\ m.mine => [m EXCEPT !.stored = TRUE] \in making'
<1>1. m.draft \in Draft /\ stored \in [Draft -> Nat] /\ stored' = [stored EXCEPT ![m.draft] = stored[m.draft] + 1]
  BY MakingFacts DEF RecordStored, ListsTypeOK, Count
<1>2. stored' \in Count /\ stored'[m.draft] = stored[m.draft] + 1 /\ \A d \in Draft \ {m.draft} : stored'[d] = stored[d]
  BY <1>1 DEF Count
<1>3. making' = (making \ {m}) \cup (IF m.mine THEN {[m EXCEPT !.stored = TRUE]} ELSE {})
  BY DEF RecordStored
<1> DEFINE n == [m EXCEPT !.stored = TRUE]
<1>4. n \in Makings /\ making \subseteq Makings
  BY MakingFacts DEF ListsTypeOK
<1> HIDE DEF n
<1>5. making' = (making \ {m}) \cup (IF m.mine THEN {n} ELSE {})
  BY <1>3 DEF n
<1>6. /\ making' \subseteq Makings /\ (m.mine => n \in making')
      /\ \A k \in making' : k \in making \ {m} \/ (m.mine /\ k = n)
  BY <1>4, <1>5
<1> QED
  BY <1>2, <1>6 DEF n

LEMMA ReactionStoredFacts ==
  ASSUME ListsTypeOK, IsFiniteSet(reactions), NEW s \in switching, ReactionStored(s)
  PROVE  \E r \in Reaction, t \in Switches :
           /\ r.id = (IF s.id = 0 THEN NewId ELSE s.id)
           /\ reactions' = {o \in reactions : o.id # r.id} \cup {r}
           /\ t.id = r.id /\ t.done /\ t.mine = s.mine
           /\ switching' = (switching \ {s}) \cup (IF s.mine THEN {t} ELSE {})
<1>1. s \in Switches /\ s.on \in BOOLEAN /\ s.id \in Nat
  BY DEF ListsTypeOK, Switches
<1> DEFINE id == IF s.id = 0 THEN NewId ELSE s.id
           r == [id |-> id, on |-> s.on]
           t == [s EXCEPT !.done = TRUE, !.id = id]
<1>2. /\ reactions' = {o \in reactions : o.id # id} \cup {r}
      /\ switching' = (switching \ {s}) \cup (IF s.mine THEN {t} ELSE {})
  BY Zenon DEF ReactionStored
<1>3. id \in Nat \ {0}
  <2>1. Cardinality(reactions) \in Nat
    BY FS_CardinalityType
  <2> QED
    BY <1>1, <2>1 DEF NewId
<1> HIDE DEF id
<1>4. r \in Reaction /\ r.id = id
  BY <1>1, <1>3 DEF Reaction
<1>5. t \in Switches
  BY <1>1, <1>3 DEF Switches
<1>6. t.id = id /\ t.done /\ t.mine = s.mine
  BY <1>1 DEF Switches
<1> HIDE DEF r, t
<1>7. /\ r.id = id /\ reactions' = {o \in reactions : o.id # r.id} \cup {r}
      /\ t.id = r.id /\ t.done /\ t.mine = s.mine
      /\ switching' = (switching \ {s}) \cup (IF s.mine THEN {t} ELSE {})
  BY <1>2, <1>4, <1>6
<1> QED
  BY <1>4, <1>5, <1>7 DEF id

LEMMA ListsTypeKept ==
  ASSUME ListsTypeOK, IsFiniteSet(reactions), LoadsFit, DraftsFit, ListsNext \/ UNCHANGED listVars
  PROVE  ListsTypeOK' /\ IsFiniteSet(reactions')
<1> DEFINE Goal == ListsTypeOK' /\ IsFiniteSet(reactions')
<1>1. /\ list \in Lists \cup {"none"} /\ stored \in Count /\ reactions \subseteq Reaction /\ page \in PageType
      /\ loads \in [LoadId -> ListLoad \cup {NoThing}] /\ making \subseteq Makings /\ switching \subseteq Switches
      /\ behind \in BOOLEAN /\ misled \in BOOLEAN /\ unheard \in BOOLEAN
      /\ clicks \in 0 .. MaxClicks /\ misses \in 0 .. MaxMisses
  BY DEF ListsTypeOK, PageType
<1>2. ASSUME list' \in Lists \cup {"none"}, stored' \in Count, reactions' \subseteq Reaction, page' \in PageType,
             loads' \in [LoadId -> ListLoad \cup {NoThing}], making' \subseteq Makings,
             switching' \subseteq Switches, behind' \in BOOLEAN, misled' \in BOOLEAN, unheard' \in BOOLEAN,
             clicks' \in 0 .. MaxClicks, misses' \in 0 .. MaxMisses, IsFiniteSet(reactions')
      PROVE  Goal
  BY <1>2 DEF ListsTypeOK, PageType
<1>3. ASSUME UNCHANGED listVars
      PROVE  Goal
  BY <1>1, <1>2, <1>3 DEF listVars
<1>4. ASSUME SelectRow
      PROVE  Goal
  <2>1. Click("select") /\ Gone /\ UNCHANGED <<behind, misled>>
    BY <1>4 DEF SelectRow
  <2> QED
    BY <1>1, <1>2, <2>1, ClickFacts, GonePage, GoneFacts
<1>5. ASSUME OpenList
      PROVE  Goal
  <2>1. /\ page' = Fresh(page.used) /\ behind' = FALSE
        /\ loads' = [i \in LoadId |-> IF i \in MountLoads(list) THEN Load(FALSE) ELSE NoThing]
        /\ UNCHANGED <<list, stored, reactions, making, switching, misled, unheard, clicks, misses>>
    BY <1>5 DEF OpenList
  <2>2. page' \in PageType
    <3>1. page.used \in SUBSET Draft
      BY <1>1 DEF PageType
    <3> QED
      BY <2>1, <3>1, FreshFits
  <2>3. loads' \in [LoadId -> ListLoad \cup {NoThing}]
    BY <2>1, LoadFits
  <2> QED
    BY <1>1, <1>2, <2>1, <2>2, <2>3
<1>6. ASSUME NewRecord
      PROVE  Goal
  <2>1. Click("new") /\ UNCHANGED <<loads, making, switching, behind, misled>>
    BY <1>6 DEF NewRecord
  <2> QED
    BY <1>1, <1>2, <1>6, <2>1, ClickFacts, NewRecordPage
<1>7. ASSUME Create
      PROVE  Goal
  <2>1. /\ Click("create") /\ page' = [page EXCEPT !.busy = TRUE] /\ making' = making \cup {Making(page.draft)}
        /\ UNCHANGED <<loads, switching, behind, misled>>
    BY <1>7 DEF Create
  <2>2. page.draft \in Draft
    BY <1>1, <2>1, ClickFacts, OffersFacts DEF PageType
  <2>3. Making(page.draft) \in Makings
    BY <2>1, <2>2, ClickFacts DEF Making, Makings
  <2> QED
    BY <1>1, <1>2, <2>1, <2>3, ClickFacts, BusyPage
<1>8. ASSUME ToggleAutoAnalysis
      PROVE  Goal
  <2>1. /\ Click("auto") /\ UNCHANGED <<page, loads, making, behind, misled>>
        /\ switching' = switching \cup
             {IF page.auto = NoThing THEN Switching(0, TRUE) ELSE Switching(page.auto.id, ~page.auto.on)}
    BY <1>8 DEF ToggleAutoAnalysis
  <2>2. ASSUME NEW id \in Nat, NEW on \in BOOLEAN
        PROVE  Switching(id, on) \in Switches
    BY <2>1, ClickFacts DEF Switching, Switches
  <2>3. page.auto # NoThing => Switching(page.auto.id, ~page.auto.on) \in Switches
    <3>1. page.auto # NoThing => page.auto.id \in Nat
      BY <1>1 DEF PageType, Reaction
    <3>2. (~page.auto.on) \in BOOLEAN
      OBVIOUS
    <3> QED
      BY <2>2, <3>1, <3>2
  <2>4. switching' \subseteq Switches
    BY <1>1, <2>1, <2>2, <2>3
  <2> QED
    BY <1>1, <1>2, <2>1, <2>4, ClickFacts
<1>9. ASSUME ToggleShowAll
      PROVE  Goal
  <2>1. PICK i \in LoadId : loads' = [loads EXCEPT ![i] = Load(~page.all)]
    BY <1>9 DEF ToggleShowAll
  <2>2. Load(~page.all) \in ListLoad
    BY LoadFits
  <2>3. loads' \in [LoadId -> ListLoad \cup {NoThing}]
    BY <1>1, <2>1, <2>2
  <2>4. Click("all") /\ UNCHANGED <<making, switching, behind, misled>>
    BY <1>9 DEF ToggleShowAll
  <2> QED
    BY <1>1, <1>2, <1>9, <2>3, <2>4, ClickFacts, ShowAllPage
<1>10. ASSUME NEW s \in switching, ReactionStored(s)
       PROVE  Goal
  <2>1. PICK r \in Reaction, t \in Switches :
          /\ reactions' = {o \in reactions : o.id # r.id} \cup {r}
          /\ switching' = (switching \ {s}) \cup (IF s.mine THEN {t} ELSE {})
    BY <1>10, ReactionStoredFacts
  <2>2. IsFiniteSet({o \in reactions : o.id # r.id})
    BY FS_Subset
  <2>3. IsFiniteSet(reactions')
    BY <2>1, <2>2, FS_AddElement
  <2>4. reactions' \subseteq Reaction /\ switching' \subseteq Switches
    BY <1>1, <2>1
  <2>5. /\ misled' = (misled \/ ~s.mine)
        /\ UNCHANGED <<list, stored, page, loads, making, behind, unheard, clicks, misses>>
    BY <1>10 DEF ReactionStored
  <2>6. misled' \in BOOLEAN
    BY <2>5
  <2> QED
    BY <1>1, <1>2, <2>3, <2>4, <2>5, <2>6
<1>11. ASSUME NEW s \in switching, Switched(s)
       PROVE  Goal
  <2>1. /\ s.done /\ page' = [page EXCEPT !.auto = [id |-> s.id, on |-> s.on]] /\ switching' = switching \ {s}
        /\ UNCHANGED <<list, stored, reactions, loads, making, behind, misled, unheard, clicks, misses>>
    BY <1>11 DEF Switched
  <2>2. [id |-> s.id, on |-> s.on] \in Reaction
    <3>1. s.id \in Nat /\ s.on \in BOOLEAN
      BY <1>1 DEF Switches
    <3> QED
      BY <2>1, <3>1 DEF Reaction, DraftsFit
  <2>3. page' \in PageType
    BY <2>1, <2>2, SwitchedPage
  <2> QED
    BY <1>1, <1>2, <2>1, <2>3
<1>12. ASSUME NEW s \in switching, SwitchFails(s)
       PROVE  Goal
  <2>1. /\ Miss /\ switching' = switching \ {s} /\ misled' = (misled \/ s.done)
        /\ UNCHANGED <<page, loads, making, behind, unheard>>
    BY <1>12 DEF SwitchFails
  <2>2. misled' \in BOOLEAN
    BY <2>1
  <2> QED
    BY <1>1, <1>2, <2>1, <2>2, MissFacts
<1>13. ASSUME NEW m \in making, RecordStored(m)
       PROVE  Goal
  <2>1. stored' \in Count /\ making' \subseteq Makings
    BY <1>13, RecordStoredFacts
  <2>2. /\ behind' = (behind \/ ~m.mine)
        /\ UNCHANGED <<list, reactions, page, loads, switching, misled, unheard, clicks, misses>>
    BY <1>13 DEF RecordStored
  <2>3. behind' \in BOOLEAN
    BY <2>2
  <2> QED
    BY <1>1, <1>2, <2>1, <2>2, <2>3
<1>14. ASSUME NEW m \in making, Created(m)
       PROVE  Goal
  <2>1. Gone /\ UNCHANGED <<list, stored, reactions, behind, misled, unheard, clicks, misses>>
    BY <1>14 DEF Created
  <2> QED
    BY <1>1, <1>2, <2>1, GonePage, GoneFacts
<1>15. ASSUME NEW m \in making, CreateFails(m)
       PROVE  Goal
  <2>1. /\ Miss /\ making' = making \ {m} /\ page' = [page EXCEPT !.busy = FALSE]
        /\ unheard' = (unheard \/ m.stored) /\ behind' = (behind \/ m.stored)
        /\ UNCHANGED <<loads, switching, misled>>
    BY <1>15 DEF CreateFails
  <2>2. unheard' \in BOOLEAN /\ behind' \in BOOLEAN
    BY <2>1
  <2> QED
    BY <1>1, <1>2, <2>1, <2>2, MissFacts, BusyPage
<1>16. ASSUME NEW i \in LoadId, ListRead(i)
       PROVE  Goal
  <2>1. misses' \in 0 .. MaxMisses
    <3>1. misses' = misses \/ (misses < MaxMisses /\ misses' = misses + 1)
      BY <1>16 DEF ListRead
    <3> QED
      BY <1>1, <3>1, ListsAssumption
  <2>2. UNCHANGED <<list, stored, reactions, page, making, switching, behind, misled, unheard, clicks>>
    BY <1>16 DEF ListRead
  <2> QED
    BY <1>1, <1>2, <1>16, <2>1, <2>2, ListReadFacts
<1>17. ASSUME NEW i \in LoadId, ListAnswered(i)
       PROVE  Goal
  <2>1. /\ loads[i] # NoThing /\ loads[i].read /\ loads' = [loads EXCEPT ![i] = NoThing]
        /\ behind' = (loads[i].rows # stored \/ loads[i].sort # page.all)
        /\ misled' = (misled \/ (loads[i].auto = NoThing /\ reactions # {}))
        /\ UNCHANGED <<list, stored, reactions, making, switching, unheard, clicks, misses>>
    BY <1>17 DEF ListAnswered
  <2>2. loads[i].rows \in Count
    BY <1>1, <2>1 DEF LoadsFit, ListLoad
  <2>3. loads' \in [LoadId -> ListLoad \cup {NoThing}]
    BY <1>1, <2>1
  <2>4. behind' \in BOOLEAN /\ misled' \in BOOLEAN
    BY <2>1
  <2>5. page' \in PageType
    BY <1>17, <2>2, AnsweredPage
  <2> QED
    BY <1>1, <1>2, <2>1, <2>3, <2>4, <2>5
<1>18. ASSUME NEW i \in LoadId, ListFails(i)
       PROVE  Goal
  <2>1. /\ Miss /\ loads' = [loads EXCEPT ![i] = NoThing] /\ behind' = TRUE
        /\ misled' = (misled \/ reactions # {}) /\ UNCHANGED <<making, switching, unheard>>
    BY <1>18 DEF ListFails
  <2>2. loads' \in [LoadId -> ListLoad \cup {NoThing}]
    BY <1>1, <2>1
  <2>3. misled' \in BOOLEAN
    BY <2>1
  <2> QED
    BY <1>1, <1>2, <1>18, <2>1, <2>2, <2>3, MissFacts, FailedPage
<1> QED
  BY <1>3, <1>4, <1>5, <1>6, <1>7, <1>8, <1>9, <1>10, <1>11, <1>12, <1>13, <1>14, <1>15, <1>16, <1>17, <1>18
     DEF ListsNext

LEMMA LoadsKept ==
  ASSUME ListsTypeOK, LoadsFit, ListsNext \/ UNCHANGED listVars
  PROVE  LoadsFit'
<1>1. stored \in Count /\ NoThing \notin Count /\ loads \in [LoadId -> ListLoad \cup {NoThing}]
  BY ListsAssumption DEF ListsTypeOK
<1>2. ASSUME UNCHANGED loads
      PROVE  LoadsFit'
  BY <1>2 DEF LoadsFit
<1>3. ASSUME NEW i \in LoadId, NEW l, loads' = [loads EXCEPT ![i] = l], l = NoThing \/ l = Load(~page.all)
      PROVE  LoadsFit'
  BY <1>1, <1>3 DEF LoadsFit, Load
<1>4. ASSUME Gone
      PROVE  LoadsFit'
  BY <1>4 DEF Gone, LoadsFit
<1>5. OpenList => LoadsFit'
  BY DEF OpenList, LoadsFit, Load
<1>6. ToggleShowAll => LoadsFit'
  BY <1>3 DEF ToggleShowAll
<1>7. ASSUME NEW i \in LoadId, ListRead(i)
      PROVE  LoadsFit'
  BY <1>1, <1>7, ListReadFacts DEF LoadsFit
<1>8. ASSUME NEW i \in LoadId, ListAnswered(i) \/ ListFails(i)
      PROVE  LoadsFit'
  BY <1>3, <1>8 DEF ListAnswered, ListFails
<1>9. SelectRow => LoadsFit'
  BY <1>4 DEF SelectRow
<1>10. ASSUME NEW m \in making, RecordStored(m) \/ Created(m) \/ CreateFails(m)
       PROVE  LoadsFit'
  BY <1>2, <1>4, <1>10 DEF RecordStored, Created, CreateFails
<1>11. ASSUME NEW s \in switching, ReactionStored(s) \/ Switched(s) \/ SwitchFails(s)
       PROVE  LoadsFit'
  BY <1>2, <1>11 DEF ReactionStored, Switched, SwitchFails
<1>12. NewRecord \/ Create \/ ToggleAutoAnalysis \/ UNCHANGED listVars => LoadsFit'
  BY <1>2 DEF NewRecord, Create, ToggleAutoAnalysis, listVars
<1> QED
  BY <1>5, <1>6, <1>7, <1>8, <1>9, <1>10, <1>11, <1>12 DEF ListsNext

LEMMA DraftsKept ==
  ASSUME ListsTypeOK, IsFiniteSet(reactions), DraftsFit, LoadsFit, ListsNext \/ UNCHANGED listVars
  PROVE  DraftsFit'
<1>0. making \subseteq Makings /\ switching \subseteq Switches /\ loads \in [LoadId -> ListLoad \cup {NoThing}]
  BY DEF ListsTypeOK
<1>1. ASSUME \A f \in {"up", "draft", "used"} : page'[f] = page[f], UNCHANGED <<making, switching>>
      PROVE  DraftsFit'
  BY <1>1 DEF DraftsFit
<1>2. ASSUME Gone
      PROVE  DraftsFit'
  <2>1. PageKeeps({"up"}) /\ ~page'.up
    BY <1>2, GonePage
  <2>2. page'.draft = page.draft /\ page'.used = page.used
    BY <2>1 DEF PageKeeps, PageFields
  <2>3. ASSUME NEW m \in making'
        PROVE  m.draft \in page.used /\ ~m.mine /\ ~m.stored
    <3>1. PICK o \in making : m = [o EXCEPT !.mine = FALSE]
      BY <1>2, GoneFacts
    <3>2. m.draft = o.draft
      BY <1>0, <3>1, StrayMaking
    <3> QED
      BY <1>2, <3>2, GoneFacts DEF DraftsFit
  <2>4. \A s \in switching' : ~s.mine /\ ~s.done
    BY <1>2, GoneFacts
  <2> QED
    BY <2>2, <2>3, <2>4 DEF DraftsFit
<1>3. ASSUME OpenList
      PROVE  DraftsFit'
  <2>1. page' = Fresh(page.used) /\ ~page.up /\ UNCHANGED <<making, switching>> /\ page.used \in SUBSET Draft
    BY <1>3 DEF OpenList, ListsTypeOK
  <2>2. page'.draft = NoThing /\ page'.used = page.used
    BY <2>1, FreshFits
  <2>3. (\A m \in making : ~m.mine) /\ (\A s \in switching : ~s.mine)
    BY <2>1 DEF DraftsFit
  <2> QED
    BY <2>1, <2>2, <2>3 DEF DraftsFit
<1>4. ASSUME NewRecord
      PROVE  DraftsFit'
  <2>1. PageKeeps({"draft", "used"}) /\ page'.used = page.used \cup {page'.draft}
    BY <1>4, NewRecordPage
  <2>2. page.draft = NoThing /\ UNCHANGED <<making, switching>>
    BY <1>4 DEF NewRecord
  <2>3. page'.up = page.up
    BY <2>1 DEF PageKeeps, PageFields
  <2>4. \A m \in making : ~m.mine
    <3>1. NoThing \notin Draft /\ \A m \in making : m.draft \in Draft
      BY <1>0, ListsAssumption DEF Makings
    <3> QED
      BY <2>2, <3>1 DEF DraftsFit
  <2> QED
    BY <2>1, <2>2, <2>3, <2>4 DEF DraftsFit
<1>5. ASSUME Create
      PROVE  DraftsFit'
  <2>1. /\ Click("create") /\ page' = [page EXCEPT !.busy = TRUE] /\ making' = making \cup {Making(page.draft)}
        /\ UNCHANGED switching
    BY <1>5 DEF Create
  <2>2. page.draft # NoThing /\ page.up
    BY <2>1, ClickFacts, OffersFacts
  <2>3. PageKeeps({"busy"})
    BY <2>1, BusyPage
  <2>4. page'.up = page.up /\ page'.draft = page.draft /\ page'.used = page.used
    BY <2>3 DEF PageKeeps, PageFields
  <2>5. /\ Making(page.draft).draft = page.draft /\ Making(page.draft).mine /\ ~Making(page.draft).stored
    BY DEF Making
  <2> QED
    BY <2>1, <2>2, <2>4, <2>5 DEF DraftsFit
<1>6. ASSUME ToggleAutoAnalysis
      PROVE  DraftsFit'
  <2>1. /\ Click("auto") /\ UNCHANGED <<page, making>>
        /\ switching' = switching \cup
             {IF page.auto = NoThing THEN Switching(0, TRUE) ELSE Switching(page.auto.id, ~page.auto.on)}
    BY <1>6 DEF ToggleAutoAnalysis
  <2>2. page.up /\ \A s \in switching : ~s.mine
    BY <2>1, ClickFacts, OffersFacts
  <2>3. PICK t : switching' = switching \cup {t} /\ ~t.done
    <3>1. ASSUME NEW id, NEW on
          PROVE  ~Switching(id, on).done
      BY DEF Switching
    <3> QED
      BY <2>1, <3>1
  <2> QED
    BY <2>1, <2>2, <2>3 DEF DraftsFit
<1>7. ASSUME ToggleShowAll
      PROVE  DraftsFit'
  <2>1. PageKeeps({"all", "loading"}) /\ UNCHANGED <<making, switching>>
    BY <1>7, ShowAllPage DEF ToggleShowAll
  <2> QED
    BY <1>1, <2>1 DEF PageKeeps, PageFields
<1>8. ASSUME NEW s \in switching, ReactionStored(s)
      PROVE  DraftsFit'
  <2>1. PICK r \in Reaction, t \in Switches :
          /\ t.id = r.id /\ t.done /\ t.mine = s.mine
          /\ switching' = (switching \ {s}) \cup (IF s.mine THEN {t} ELSE {})
    BY <1>8, ReactionStoredFacts
  <2>2. t.id # 0
    BY <2>1 DEF Reaction
  <2>3. UNCHANGED <<page, making>>
    BY <1>8 DEF ReactionStored
  <2> QED
    BY <2>1, <2>2, <2>3 DEF DraftsFit
<1>9. ASSUME NEW s \in switching, Switched(s)
      PROVE  DraftsFit'
  <2>1. page' = [page EXCEPT !.auto = [id |-> s.id, on |-> s.on]] /\ switching' = switching \ {s} /\ UNCHANGED making
    BY <1>9 DEF Switched
  <2>2. [id |-> s.id, on |-> s.on] \in Reaction
    BY <1>0, <1>9 DEF Switched, Switches, Reaction, DraftsFit
  <2>3. PageKeeps({"auto"})
    BY <2>1, <2>2, SwitchedPage
  <2>4. \A f \in {"up", "draft", "used"} : page'[f] = page[f]
    BY <2>3 DEF PageKeeps, PageFields
  <2> QED
    BY <2>1, <2>4 DEF DraftsFit
<1>10. ASSUME NEW s \in switching, SwitchFails(s)
       PROVE  DraftsFit'
  BY <1>10 DEF SwitchFails, DraftsFit
<1>11. ASSUME NEW m \in making, RecordStored(m)
       PROVE  DraftsFit'
  <2>1. /\ UNCHANGED <<page, switching>>
        /\ \A n \in making' : n \in making \ {m} \/ (m.mine /\ n = [m EXCEPT !.stored = TRUE])
    BY <1>11, RecordStoredFacts DEF RecordStored
  <2>2. [m EXCEPT !.stored = TRUE].draft = m.draft /\ [m EXCEPT !.stored = TRUE].mine = m.mine
    BY MakingFacts
  <2> QED
    BY <2>1, <2>2 DEF DraftsFit
<1>12. ASSUME NEW m \in making, Created(m)
       PROVE  DraftsFit'
  BY <1>2, <1>12 DEF Created
<1>13. ASSUME NEW m \in making, CreateFails(m)
       PROVE  DraftsFit'
  <2>1. making' = making \ {m} /\ page' = [page EXCEPT !.busy = FALSE] /\ UNCHANGED switching
    BY <1>13 DEF CreateFails
  <2>2. PageKeeps({"busy"})
    BY <2>1, BusyPage
  <2>3. \A f \in {"up", "draft", "used"} : page'[f] = page[f]
    BY <2>2 DEF PageKeeps, PageFields
  <2> QED
    BY <2>1, <2>3 DEF DraftsFit
<1>14. ASSUME NEW i \in LoadId, ListRead(i)
       PROVE  DraftsFit'
  BY <1>1, <1>14 DEF ListRead
<1>15. ASSUME NEW i \in LoadId, ListAnswered(i)
       PROVE  DraftsFit'
  <2>1. loads[i].rows \in Count
    BY <1>0, <1>15 DEF ListAnswered, LoadsFit, ListLoad
  <2>2. PageKeeps({"loading", "rows", "sort", "auto"}) /\ UNCHANGED <<making, switching>>
    BY <1>15, <2>1, AnsweredPage DEF ListAnswered
  <2> QED
    BY <1>1, <2>2 DEF PageKeeps, PageFields
<1>16. ASSUME NEW i \in LoadId, ListFails(i)
       PROVE  DraftsFit'
  <2>1. PageKeeps({"loading", "failed"}) /\ UNCHANGED <<making, switching>>
    BY <1>16, FailedPage DEF ListFails
  <2> QED
    BY <1>1, <2>1 DEF PageKeeps, PageFields
<1>17. UNCHANGED listVars => DraftsFit'
  BY <1>1 DEF listVars
<1>18. SelectRow => DraftsFit'
  BY <1>2 DEF SelectRow
<1> QED
  BY <1>3, <1>4, <1>5, <1>6, <1>7, <1>8, <1>9, <1>10, <1>11, <1>12, <1>13, <1>14, <1>15, <1>16, <1>17, <1>18
     DEF ListsNext

LEMMA RequestsKept ==
  ASSUME ListsTypeOK, IsFiniteSet(reactions), DraftsFit, LoadsFit, RequestsFit, ListsNext \/ UNCHANGED listVars
  PROVE  RequestsFit'
<1>0. /\ making \subseteq Makings /\ switching \subseteq Switches /\ loads \in [LoadId -> ListLoad \cup {NoThing}]
      /\ stored \in [Draft -> Nat] /\ page.used \in SUBSET Draft /\ page.draft \in Draft \cup {NoThing}
      /\ NoThing \notin Draft
  BY ListsAssumption DEF ListsTypeOK, Count
<1>1. ASSUME \A f \in {"up", "draft", "used", "busy"} : page'[f] = page[f], UNCHANGED <<list, stored, making, unheard>>
      PROVE  RequestsFit'
  BY <1>1 DEF RequestsFit
<1>2. ASSUME Gone, UNCHANGED <<list, stored, unheard>>
      PROVE  RequestsFit'
  <2>1. PageKeeps({"up"}) /\ ~page'.up
    BY <1>2, GonePage
  <2>2. page'.used = page.used
    BY <2>1 DEF PageKeeps, PageFields
  <2>3. ASSUME NEW m \in making'
        PROVE  \E o \in making : ~o.stored /\ m = [o EXCEPT !.mine = FALSE] /\ m.draft = o.draft
    <3>1. PICK o \in making : ~o.stored /\ m = [o EXCEPT !.mine = FALSE]
      BY <1>2, GoneFacts
    <3>2. m.draft = o.draft
      BY <1>0, <3>1, StrayMaking
    <3> QED
      BY <3>1, <3>2
  <2> SUFFICES ASSUME list = "requests", ~unheard
               PROVE  /\ \A m \in making' : stored[m.draft] = 0
                      /\ \A m, n \in making' : m.draft = n.draft => m = n
    BY <1>2, <2>1, <2>2 DEF RequestsFit
  <2>4. \A m \in making' : stored[m.draft] = 0
    BY <2>3 DEF RequestsFit
  <2>5. ASSUME NEW m \in making', NEW n \in making', m.draft = n.draft
        PROVE  m = n
    <3>1. PICK o \in making : m = [o EXCEPT !.mine = FALSE] /\ m.draft = o.draft
      BY <2>3
    <3>2. PICK p \in making : n = [p EXCEPT !.mine = FALSE] /\ n.draft = p.draft
      BY <2>3
    <3>3. o = p
      BY <2>5, <3>1, <3>2 DEF RequestsFit
    <3> QED
      BY <3>1, <3>2, <3>3
  <2> QED
    BY <2>4, <2>5
<1>3. ASSUME OpenList
      PROVE  RequestsFit'
  <2>1. page' = Fresh(page.used) /\ UNCHANGED <<list, stored, making, unheard>>
    BY <1>3 DEF OpenList
  <2>2. page'.draft = NoThing /\ page'.used = page.used
    BY <1>0, <2>1, FreshFits
  <2> QED
    BY <2>1, <2>2 DEF RequestsFit
<1>4. ASSUME NewRecord
      PROVE  RequestsFit'
  <2>1. PageKeeps({"draft", "used"}) /\ page'.draft \in Draft \ page.used /\ page'.used = page.used \cup {page'.draft}
    BY <1>4, NewRecordPage
  <2>2. Click("new") /\ UNCHANGED making
    BY <1>4 DEF NewRecord
  <2>3. UNCHANGED <<list, stored, unheard>>
    BY <2>2, ClickFacts
  <2>4. \A m \in making : m.draft # page'.draft
    BY <2>1 DEF DraftsFit
  <2> QED
    BY <2>1, <2>2, <2>3, <2>4 DEF RequestsFit
<1>5. ASSUME Create
      PROVE  RequestsFit'
  <2> DEFINE n == Making(page.draft)
  <2>1. /\ Click("create") /\ page' = [page EXCEPT !.busy = TRUE] /\ making' = making \cup {n}
    BY <1>5 DEF Create
  <2>2. page.draft # NoThing /\ page.up /\ (list = "requests" => ~page.busy) /\ UNCHANGED <<list, stored, unheard>>
    BY <2>1, ClickFacts, OffersFacts
  <2>3. PageKeeps({"busy"}) /\ page'.busy
    BY <2>1, BusyPage
  <2>4. page'.up = page.up /\ page'.draft = page.draft /\ page'.used = page.used
    BY <2>3 DEF PageKeeps, PageFields
  <2>5. n.draft = page.draft /\ ~n.stored
    BY DEF Making
  <2> HIDE DEF n
  <2> QED
    BY <2>1, <2>2, <2>3, <2>4, <2>5 DEF RequestsFit
<1>6. ASSUME ToggleAutoAnalysis
      PROVE  RequestsFit'
  <2>1. Click("auto") /\ UNCHANGED <<page, making>>
    BY <1>6 DEF ToggleAutoAnalysis
  <2> QED
    BY <1>1, <2>1, ClickFacts
<1>7. ASSUME ToggleShowAll
      PROVE  RequestsFit'
  <2>1. PageKeeps({"all", "loading"}) /\ UNCHANGED making /\ Click("all")
    BY <1>7, ShowAllPage DEF ToggleShowAll
  <2>2. UNCHANGED <<list, stored, unheard>>
    BY <2>1, ClickFacts
  <2> QED
    BY <1>1, <2>1, <2>2 DEF PageKeeps, PageFields
<1>8. ASSUME NEW s \in switching, ReactionStored(s)
      PROVE  RequestsFit'
  BY <1>1, <1>8 DEF ReactionStored
<1>9. ASSUME NEW s \in switching, Switched(s)
      PROVE  RequestsFit'
  <2>1. page' = [page EXCEPT !.auto = [id |-> s.id, on |-> s.on]] /\ UNCHANGED <<list, stored, making, unheard>>
    BY <1>9 DEF Switched
  <2>2. [id |-> s.id, on |-> s.on] \in Reaction
    BY <1>0, <1>9 DEF Switched, Switches, Reaction, DraftsFit
  <2>3. PageKeeps({"auto"})
    BY <2>1, <2>2, SwitchedPage
  <2>4. \A f \in {"up", "draft", "used", "busy"} : page'[f] = page[f]
    BY <2>3 DEF PageKeeps, PageFields
  <2> QED
    BY <1>1, <2>1, <2>4
<1>10. ASSUME NEW s \in switching, SwitchFails(s)
       PROVE  RequestsFit'
  BY <1>1, <1>10, MissFacts DEF SwitchFails
<1>11. ASSUME NEW m \in making, RecordStored(m)
       PROVE  RequestsFit'
  <2> DEFINE t == [m EXCEPT !.stored = TRUE]
  <2>1. /\ UNCHANGED <<list, page, unheard>> /\ ~m.stored
        /\ \A n \in making' : n \in making \ {m} \/ n = t
        /\ stored'[m.draft] = stored[m.draft] + 1
        /\ \A d \in Draft \ {m.draft} : stored'[d] = stored[d]
    BY <1>11, RecordStoredFacts DEF RecordStored
  <2>2. t.draft = m.draft /\ t.stored /\ m.draft \in Draft /\ \A n \in making : n.draft \in Draft
    BY MakingFacts
  <2> HIDE DEF t
  <2> SUFFICES ASSUME list = "requests", ~unheard
               PROVE  RequestsFit'
    BY <2>1 DEF RequestsFit
  <2>3. stored[m.draft] = 0 /\ m.draft \in page.used /\ \A n \in making : n.draft = m.draft => n = m
    BY <2>1 DEF RequestsFit, DraftsFit
  <2>4. stored'[m.draft] = 1
    BY <2>1, <2>3
  <2>5. ASSUME NEW d \in Draft
        PROVE  stored'[d] <= 1 /\ (d \notin page.used => stored'[d] = 0)
    <3>1. CASE d = m.draft
      BY <2>3, <2>4, <3>1
    <3>2. CASE d # m.draft
      BY <2>1, <3>2 DEF RequestsFit
    <3> QED
      BY <3>1, <3>2
  <2>6. ASSUME NEW n \in making', ~n.stored
        PROVE  stored'[n.draft] = 0
    <3>1. n \in making \ {m} /\ n.draft # m.draft
      BY <2>1, <2>2, <2>3, <2>6
    <3> QED
      BY <2>1, <2>2, <2>6, <3>1 DEF RequestsFit
  <2>7. ASSUME NEW n \in making', NEW k \in making', n.draft = k.draft
        PROVE  n = k
    BY <2>1, <2>2, <2>3, <2>7 DEF RequestsFit
  <2>8. ASSUME page.up, page.draft # NoThing, ~page.busy
        PROVE  stored'[page.draft] = 0 /\ \A n \in making' : n.draft # page.draft
    <3>1. m.draft # page.draft
      BY <2>8 DEF RequestsFit
    <3> QED
      BY <1>0, <2>1, <2>2, <2>8, <3>1 DEF RequestsFit
  <2> QED
    BY <2>1, <2>5, <2>6, <2>7, <2>8 DEF RequestsFit
<1>12. ASSUME NEW m \in making, Created(m)
       PROVE  RequestsFit'
  BY <1>2, <1>12 DEF Created
<1>13. ASSUME NEW m \in making, CreateFails(m)
       PROVE  RequestsFit'
  <2>1. /\ making' = making \ {m} /\ page' = [page EXCEPT !.busy = FALSE] /\ m.mine
        /\ unheard' = (unheard \/ m.stored) /\ UNCHANGED <<list, stored>>
    BY <1>13, MissFacts DEF CreateFails
  <2>2. PageKeeps({"busy"})
    BY <2>1, BusyPage
  <2>3. page'.up = page.up /\ page'.draft = page.draft /\ page'.used = page.used
    BY <2>2 DEF PageKeeps, PageFields
  <2>4. m.draft = page.draft
    BY <2>1 DEF DraftsFit
  <2> SUFFICES ASSUME list = "requests", ~unheard, ~m.stored
               PROVE  RequestsFit'
    BY <2>1 DEF RequestsFit
  <2>5. stored[page.draft] = 0 /\ \A n \in making \ {m} : n.draft # page.draft
    BY <2>4 DEF RequestsFit
  <2> QED
    BY <2>1, <2>3, <2>5 DEF RequestsFit
<1>14. ASSUME NEW i \in LoadId, ListRead(i)
       PROVE  RequestsFit'
  BY <1>1, <1>14 DEF ListRead
<1>15. ASSUME NEW i \in LoadId, ListAnswered(i)
       PROVE  RequestsFit'
  <2>1. loads[i].rows \in Count
    BY <1>0, <1>15 DEF ListAnswered, LoadsFit, ListLoad
  <2>2. PageKeeps({"loading", "rows", "sort", "auto"}) /\ UNCHANGED <<list, stored, making, unheard>>
    BY <1>15, <2>1, AnsweredPage DEF ListAnswered
  <2> QED
    BY <1>1, <2>2 DEF PageKeeps, PageFields
<1>16. ASSUME NEW i \in LoadId, ListFails(i)
       PROVE  RequestsFit'
  <2>1. PageKeeps({"loading", "failed"}) /\ UNCHANGED <<list, stored, making, unheard>>
    BY <1>16, FailedPage, MissFacts DEF ListFails
  <2> QED
    BY <1>1, <2>1 DEF PageKeeps, PageFields
<1>17. UNCHANGED listVars => RequestsFit'
  BY <1>1 DEF listVars
<1>18. ASSUME SelectRow
       PROVE  RequestsFit'
  <2>1. Click("select") /\ Gone
    BY <1>18 DEF SelectRow
  <2> QED
    BY <1>2, <2>1, ClickFacts
<1> QED
  BY <1>3, <1>4, <1>5, <1>6, <1>7, <1>8, <1>9, <1>10, <1>11, <1>12, <1>13, <1>14, <1>15, <1>16, <1>17, <1>18
     DEF ListsNext

(* The reactions are what they were, and so is who knows of them.          *)
LEMMA SwitchKept ==
  ASSUME ListsTypeOK, IsFiniteSet(reactions), DraftsFit, LoadsFit, SwitchFits, ListsNext \/ UNCHANGED listVars
  PROVE  SwitchFits'
<1>0. /\ making \subseteq Makings /\ switching \subseteq Switches /\ loads \in [LoadId -> ListLoad \cup {NoThing}]
      /\ reactions \subseteq Reaction
  BY DEF ListsTypeOK
<1>1. ASSUME \A f \in {"up", "loading", "auto"} : page'[f] = page[f], UNCHANGED <<reactions, loads, switching, misled>>
      PROVE  SwitchFits'
  BY <1>1 DEF SwitchFits, HasReaction
<1>2. ASSUME Gone, UNCHANGED <<reactions, misled>>
      PROVE  SwitchFits'
  <2>1. PageKeeps({"up"}) /\ ~page'.up
    BY <1>2, GonePage
  <2>2. page'.auto = page.auto
    BY <2>1 DEF PageKeeps, PageFields
  <2>3. (\A s \in switching' : ~s.mine) /\ \A i \in LoadId : loads'[i] = NoThing
    BY <1>2, GoneFacts
  <2> QED
    BY <1>2, <2>1, <2>2, <2>3 DEF SwitchFits, HasReaction
<1>3. ASSUME OpenList
      PROVE  SwitchFits'
  <2>1. page' = Fresh(page.used) /\ page.used \in SUBSET Draft /\ ~page.up /\ UNCHANGED <<reactions, switching, misled>>
    BY <1>3 DEF OpenList, ListsTypeOK
  <2>2. page'.auto = NoThing /\ page'.loading
    BY <2>1, FreshFits
  <2>3. \A s \in switching : ~s.mine
    BY <2>1 DEF DraftsFit
  <2>4. \A i \in LoadId : loads'[i] # NoThing => loads'[i].auto = NoThing
    BY <1>3, LoadFits DEF OpenList
  <2> QED
    BY <2>1, <2>2, <2>3, <2>4 DEF SwitchFits, HasReaction
<1>4. ASSUME NewRecord
      PROVE  SwitchFits'
  <2>1. PageKeeps({"draft", "used"})
    BY <1>4, NewRecordPage
  <2>2. Click("new") /\ UNCHANGED <<loads, switching, misled>>
    BY <1>4 DEF NewRecord
  <2>3. \A f \in {"up", "loading", "auto"} : page'[f] = page[f]
    BY <2>1 DEF PageKeeps, PageFields
  <2> QED
    BY <1>1, <2>2, <2>3, ClickFacts
<1>5. ASSUME Create
      PROVE  SwitchFits'
  <2>1. Click("create") /\ page' = [page EXCEPT !.busy = TRUE] /\ UNCHANGED <<loads, switching, misled>>
    BY <1>5 DEF Create
  <2>2. PageKeeps({"busy"})
    BY <2>1, BusyPage
  <2>3. \A f \in {"up", "loading", "auto"} : page'[f] = page[f]
    BY <2>2 DEF PageKeeps, PageFields
  <2> QED
    BY <1>1, <2>1, <2>3, ClickFacts
<1>6. ASSUME ToggleAutoAnalysis
      PROVE  SwitchFits'
  <2> DEFINE t == IF page.auto = NoThing THEN Switching(0, TRUE) ELSE Switching(page.auto.id, ~page.auto.on)
  <2>1. Click("auto") /\ UNCHANGED <<page, loads, misled>> /\ switching' = switching \cup {t}
    BY <1>6 DEF ToggleAutoAnalysis
  <2>2. UNCHANGED reactions /\ page.up /\ ~page.loading /\ \A s \in switching : ~s.mine
    BY <2>1, ClickFacts, OffersFacts
  <2>3. \A s \in switching : ~s.done
    BY <2>2 DEF DraftsFit
  <2>4. ~t.done /\ t.id = (IF page.auto = NoThing THEN 0 ELSE page.auto.id)
    BY DEF Switching
  <2>5. page.auto # NoThing => page.auto.id # 0
    BY DEF ListsTypeOK, Reaction
  <2> HIDE DEF t
  <2> SUFFICES ASSUME ~misled
               PROVE  SwitchFits'
    BY <2>1 DEF SwitchFits
  <2>6. page.auto = NoThing => reactions = {}
    BY <2>2, <2>3 DEF SwitchFits
  <2>7. page.auto # NoThing => HasReaction(page.auto.id)
    BY DEF SwitchFits
  <2>8. IF t.id = 0 THEN reactions = {} /\ ~t.done ELSE HasReaction(t.id)
    BY <2>4, <2>5, <2>6, <2>7
  <2> QED
    BY <2>1, <2>2, <2>6, <2>8 DEF SwitchFits, HasReaction
<1>7. ASSUME ToggleShowAll
      PROVE  SwitchFits'
  <2>1. PageKeeps({"all", "loading"}) /\ page'.loading
    BY <1>7, ShowAllPage
  <2>2. Click("all") /\ UNCHANGED <<switching, misled>>
    BY <1>7 DEF ToggleShowAll
  <2>3. page'.up = page.up /\ page'.auto = page.auto
    BY <2>1 DEF PageKeeps, PageFields
  <2>4. PICK i \in LoadId : loads[i] = NoThing /\ loads' = [loads EXCEPT ![i] = Load(~page.all)]
    BY <1>7 DEF ToggleShowAll
  <2>5. loads'[i].auto = NoThing /\ \A j \in LoadId \ {i} : loads'[j] = loads[j]
    BY <1>0, <2>4 DEF Load
  <2>6. UNCHANGED reactions
    BY <2>2, ClickFacts
  <2> QED
    BY <2>1, <2>2, <2>3, <2>5, <2>6 DEF SwitchFits, HasReaction
<1>8. ASSUME NEW s \in switching, ReactionStored(s)
      PROVE  SwitchFits'
  <2>1. PICK r \in Reaction, t \in Switches :
          /\ r.id = (IF s.id = 0 THEN NewId ELSE s.id)
          /\ reactions' = {o \in reactions : o.id # r.id} \cup {r}
          /\ t.id = r.id /\ t.done /\ t.mine = s.mine
          /\ switching' = (switching \ {s}) \cup (IF s.mine THEN {t} ELSE {})
    BY <1>8, ReactionStoredFacts
  <2>2. UNCHANGED <<page, loads>> /\ misled' = (misled \/ ~s.mine) /\ r.id # 0
    BY <1>8, <2>1 DEF ReactionStored, Reaction
  <2> SUFFICES ASSUME ~misled, s.mine
               PROVE  SwitchFits'
    BY <2>2 DEF SwitchFits
  <2>3. reactions = {} \/ \E o \in reactions : reactions = {o} /\ o.id = s.id /\ s.id # 0
    <3>1. CASE s.id = 0
      BY <3>1 DEF SwitchFits
    <3>2. CASE s.id # 0
      <4>1. HasReaction(s.id) /\ (reactions = {} \/ \E o \in Reaction : reactions = {o})
        BY <3>2 DEF SwitchFits
      <4> QED
        BY <3>2, <4>1 DEF HasReaction
    <3> QED
      BY <3>1, <3>2
  <2>4. reactions' = {r}
    BY <2>1, <2>3
  <2>5. \A id : HasReaction(id) => id = r.id
    <3>1. CASE reactions = {}
      BY <3>1 DEF HasReaction
    <3>2. CASE \E o \in reactions : reactions = {o} /\ o.id = s.id /\ s.id # 0
      BY <2>1, <3>2 DEF HasReaction
    <3> QED
      BY <2>3, <3>1, <3>2
  <2>6. \A k \in switching' : k.mine => k = t
    BY <2>1 DEF DraftsFit
  <2>7. t \in switching'
    BY <2>1
  <2>8. HasReaction(r.id)'
    BY <2>4 DEF HasReaction
  <2> QED
    BY <2>1, <2>2, <2>4, <2>5, <2>6, <2>7, <2>8 DEF SwitchFits, HasReaction
<1>9. ASSUME NEW s \in switching, Switched(s)
      PROVE  SwitchFits'
  <2> DEFINE r == [id |-> s.id, on |-> s.on]
  <2>1. s.done /\ page' = [page EXCEPT !.auto = r] /\ switching' = switching \ {s} /\ UNCHANGED <<reactions, loads, misled>>
    BY <1>9 DEF Switched
  <2>2. r \in Reaction /\ r.id = s.id
    BY <1>0, <2>1 DEF Switches, Reaction, DraftsFit
  <2>3. s.mine /\ s.id # 0
    BY <2>1 DEF DraftsFit
  <2> HIDE DEF r
  <2>4. PageKeeps({"auto"}) /\ page'.auto = r
    BY <2>1, <2>2, SwitchedPage
  <2>5. page'.auto # NoThing
    BY <2>2, <2>4, ListsAssumption
  <2> QED
    BY <2>1, <2>2, <2>3, <2>4, <2>5 DEF SwitchFits, HasReaction
<1>10. ASSUME NEW s \in switching, SwitchFails(s)
       PROVE  SwitchFits'
  <2>1. Miss /\ switching' = switching \ {s} /\ misled' = (misled \/ s.done) /\ UNCHANGED <<page, loads>>
    BY <1>10 DEF SwitchFails
  <2>2. UNCHANGED reactions
    BY <2>1, MissFacts
  <2> QED
    BY <2>1, <2>2 DEF SwitchFits, HasReaction
<1>11. ASSUME NEW m \in making, RecordStored(m)
       PROVE  SwitchFits'
  BY <1>1, <1>11 DEF RecordStored
<1>12. ASSUME NEW m \in making, Created(m)
       PROVE  SwitchFits'
  BY <1>2, <1>12 DEF Created
<1>13. ASSUME NEW m \in making, CreateFails(m)
       PROVE  SwitchFits'
  <2>1. Miss /\ page' = [page EXCEPT !.busy = FALSE] /\ UNCHANGED <<loads, switching, misled>>
    BY <1>13 DEF CreateFails
  <2>2. PageKeeps({"busy"})
    BY <2>1, BusyPage
  <2>3. \A f \in {"up", "loading", "auto"} : page'[f] = page[f]
    BY <2>2 DEF PageKeeps, PageFields
  <2> QED
    BY <1>1, <2>1, <2>3, MissFacts
<1>14. ASSUME NEW i \in LoadId, ListRead(i)
       PROVE  SwitchFits'
  <2>1. /\ \A j \in LoadId \ {i} : loads'[j] = loads[j]
        /\ loads'[i].auto \in {NoThing, loads[i].auto} \cup reactions
    BY <1>14, ListReadFacts
  <2>2. loads[i] # NoThing /\ UNCHANGED <<page, reactions, switching, misled>>
    BY <1>14 DEF ListRead
  <2> SUFFICES ASSUME ~misled
               PROVE  SwitchFits'
    BY <2>2 DEF SwitchFits
  <2>3. ASSUME NEW j \in LoadId, loads'[j] # NoThing, loads'[j].auto # NoThing
        PROVE  HasReaction(loads'[j].auto.id)
    <3>1. CASE j = i
      BY <2>1, <2>2, <2>3, <3>1 DEF SwitchFits, HasReaction
    <3>2. CASE j # i
      BY <2>1, <2>3, <3>2 DEF SwitchFits
    <3> QED
      BY <3>1, <3>2
  <2> QED
    BY <2>2, <2>3 DEF SwitchFits, HasReaction
<1>15. ASSUME NEW i \in LoadId, ListAnswered(i)
       PROVE  SwitchFits'
  <2>1. loads[i].rows \in Count /\ loads[i] # NoThing
    BY <1>0, <1>15 DEF ListAnswered, LoadsFit, ListLoad
  <2>2. PageKeeps({"loading", "rows", "sort", "auto"}) /\ page'.auto = loads[i].auto
    BY <1>15, <2>1, AnsweredPage
  <2>3. /\ UNCHANGED <<reactions, switching>> /\ loads' = [loads EXCEPT ![i] = NoThing]
        /\ misled' = (misled \/ (loads[i].auto = NoThing /\ reactions # {}))
    BY <1>15 DEF ListAnswered
  <2>4. \A j \in LoadId : loads'[j] # NoThing => loads'[j] = loads[j]
    BY <1>0, <2>3
  <2> SUFFICES ASSUME ~misled, loads[i].auto = NoThing => reactions = {}
               PROVE  SwitchFits'
    BY <2>3 DEF SwitchFits
  <2>5. \A j \in LoadId : loads'[j] # NoThing /\ loads'[j].auto # NoThing => HasReaction(loads'[j].auto.id)
    BY <2>4 DEF SwitchFits
  <2>6. page'.auto # NoThing => HasReaction(page'.auto.id)
    BY <2>1, <2>2 DEF SwitchFits
  <2>7. page'.auto = NoThing => reactions = {}
    BY <2>2
  <2> QED
    BY <2>3, <2>5, <2>6, <2>7 DEF SwitchFits, HasReaction
<1>16. ASSUME NEW i \in LoadId, ListFails(i)
       PROVE  SwitchFits'
  <2>1. PageKeeps({"loading", "failed"})
    BY <1>16, FailedPage
  <2>2. /\ Miss /\ UNCHANGED switching /\ loads' = [loads EXCEPT ![i] = NoThing] /\ misled' = (misled \/ reactions # {})
    BY <1>16 DEF ListFails
  <2>3. \A j \in LoadId : loads'[j] # NoThing => loads'[j] = loads[j]
    BY <1>0, <2>2
  <2>4. UNCHANGED reactions /\ page'.auto = page.auto
    BY <2>1, <2>2, MissFacts DEF PageKeeps, PageFields
  <2> QED
    BY <2>2, <2>3, <2>4 DEF SwitchFits, HasReaction
<1>17. UNCHANGED listVars => SwitchFits'
  BY <1>1 DEF listVars
<1>18. ASSUME SelectRow
       PROVE  SwitchFits'
  <2>1. Click("select") /\ Gone /\ UNCHANGED misled
    BY <1>18 DEF SelectRow
  <2> QED
    BY <1>2, <2>1, ClickFacts
<1> QED
  BY <1>3, <1>4, <1>5, <1>6, <1>7, <1>8, <1>9, <1>10, <1>11, <1>12, <1>13, <1>14, <1>15, <1>16, <1>17, <1>18
     DEF ListsNext

(* What the page shows when nothing is on its way.                         *)
LEMMA RowsKept ==
  ASSUME ListsTypeOK, IsFiniteSet(reactions), DraftsFit, LoadsFit, RowsFit, ListsNext \/ UNCHANGED listVars
  PROVE  RowsFit'
<1>0. /\ making \subseteq Makings /\ switching \subseteq Switches /\ loads \in [LoadId -> ListLoad \cup {NoThing}]
      /\ page \in PageType /\ list \in Lists \cup {"none"}
  BY DEF ListsTypeOK, PageType
<1>1. ASSUME \A f \in {"up", "rows", "sort", "all"} : page'[f] = page[f], UNCHANGED <<list, stored, loads, behind>>,
             (\A m \in making' : ~m.stored) => \A m \in making : ~m.stored
      PROVE  RowsFit'
  BY <1>1 DEF RowsFit
<1>2. Gone => RowsFit'
  BY GonePage DEF RowsFit
<1>3. ASSUME OpenList
      PROVE  RowsFit'
  <2>1. list \in Lists /\ UNCHANGED list /\ loads' = [i \in LoadId |-> IF i \in MountLoads(list) THEN Load(FALSE) ELSE NoThing]
    BY <1>0, <1>3 DEF OpenList
  <2>2. PICK i \in MountLoads(list) : i \in LoadId
    BY <2>1, MountLoadsFacts
  <2>3. loads'[i] # NoThing
    BY <2>1, <2>2, LoadFits
  <2> QED
    BY <2>2, <2>3 DEF RowsFit
<1>4. ASSUME NewRecord
      PROVE  RowsFit'
  <2>1. PageKeeps({"draft", "used"}) /\ Click("new") /\ UNCHANGED <<loads, making, behind>>
    BY <1>4, NewRecordPage DEF NewRecord
  <2>2. \A f \in {"up", "rows", "sort", "all"} : page'[f] = page[f]
    BY <2>1 DEF PageKeeps, PageFields
  <2> QED
    BY <1>1, <2>1, <2>2, ClickFacts
<1>5. ASSUME Create
      PROVE  RowsFit'
  <2>1. /\ Click("create") /\ page' = [page EXCEPT !.busy = TRUE] /\ UNCHANGED <<loads, behind>>
        /\ making \subseteq making'
    BY <1>5 DEF Create
  <2>2. PageKeeps({"busy"})
    BY <2>1, BusyPage
  <2>3. \A f \in {"up", "rows", "sort", "all"} : page'[f] = page[f]
    BY <2>2 DEF PageKeeps, PageFields
  <2> QED
    BY <1>1, <2>1, <2>3, ClickFacts
<1>6. ASSUME ToggleAutoAnalysis
      PROVE  RowsFit'
  <2>1. Click("auto") /\ UNCHANGED <<page, loads, making, behind>>
    BY <1>6 DEF ToggleAutoAnalysis
  <2> QED
    BY <1>1, <2>1, ClickFacts
<1>7. ASSUME ToggleShowAll
      PROVE  RowsFit'
  <2>1. PICK i \in LoadId : loads' = [loads EXCEPT ![i] = Load(~page.all)]
    BY <1>7 DEF ToggleShowAll
  <2>2. loads'[i] # NoThing
    BY <1>0, <2>1, LoadFits DEF PageType
  <2> QED
    BY <2>2 DEF RowsFit
<1>8. ASSUME NEW s \in switching, ReactionStored(s)
      PROVE  RowsFit'
  BY <1>1, <1>8 DEF ReactionStored
<1>9. ASSUME NEW s \in switching, Switched(s)
      PROVE  RowsFit'
  <2>1. page' = [page EXCEPT !.auto = [id |-> s.id, on |-> s.on]] /\ UNCHANGED <<list, stored, loads, making, behind>>
    BY <1>9 DEF Switched
  <2>2. [id |-> s.id, on |-> s.on] \in Reaction
    BY <1>0, <1>9 DEF Switched, Switches, Reaction, DraftsFit
  <2>3. PageKeeps({"auto"})
    BY <2>1, <2>2, SwitchedPage
  <2>4. \A f \in {"up", "rows", "sort", "all"} : page'[f] = page[f]
    BY <2>3 DEF PageKeeps, PageFields
  <2> QED
    BY <1>1, <2>1, <2>4
<1>10. ASSUME NEW s \in switching, SwitchFails(s)
       PROVE  RowsFit'
  BY <1>1, <1>10, MissFacts DEF SwitchFails
<1>11. ASSUME NEW m \in making, RecordStored(m)
       PROVE  RowsFit'
  <2>1. behind' = (behind \/ ~m.mine)
    BY <1>11 DEF RecordStored
  <2>2. m.mine => \E n \in making' : n.stored
    BY <1>11, RecordStoredFacts, MakingFacts
  <2> QED
    BY <2>1, <2>2 DEF RowsFit
<1>12. ASSUME NEW m \in making, Created(m)
       PROVE  RowsFit'
  BY <1>2, <1>12 DEF Created
<1>13. ASSUME NEW m \in making, CreateFails(m)
       PROVE  RowsFit'
  <2>1. /\ making' = making \ {m} /\ page' = [page EXCEPT !.busy = FALSE] /\ UNCHANGED <<list, stored, loads>>
        /\ behind' = (behind \/ m.stored)
    BY <1>13, MissFacts DEF CreateFails
  <2>2. PageKeeps({"busy"})
    BY <2>1, BusyPage
  <2>3. \A f \in {"up", "rows", "sort", "all"} : page'[f] = page[f]
    BY <2>2 DEF PageKeeps, PageFields
  <2>4. CASE m.stored
    BY <2>1, <2>4 DEF RowsFit
  <2>5. CASE ~m.stored
    <3>1. UNCHANGED behind
      BY <1>0, <2>1, <2>5 DEF ListsTypeOK
    <3> QED
      BY <1>1, <2>1, <2>3, <2>5, <3>1
  <2> QED
    BY <2>4, <2>5
<1>14. ASSUME NEW i \in LoadId, ListRead(i)
       PROVE  RowsFit'
  <2>1. loads'[i] # NoThing
    BY <1>14, ListReadFacts
  <2> QED
    BY <2>1 DEF RowsFit
<1>15. ASSUME NEW i \in LoadId, ListAnswered(i)
       PROVE  RowsFit'
  <2>1. loads[i].rows \in Count
    BY <1>0, <1>15 DEF ListAnswered, LoadsFit, ListLoad
  <2>2. /\ PageKeeps({"loading", "rows", "sort", "auto"})
        /\ page'.rows = loads[i].rows /\ page'.sort = loads[i].sort
    BY <1>15, <2>1, AnsweredPage
  <2>3. page'.all = page.all
    BY <2>2 DEF PageKeeps, PageFields
  <2>4. UNCHANGED stored /\ behind' = (loads[i].rows # stored \/ loads[i].sort # page.all)
    BY <1>15 DEF ListAnswered
  <2> QED
    BY <2>2, <2>3, <2>4 DEF RowsFit
<1>16. ASSUME NEW i \in LoadId, ListFails(i)
       PROVE  RowsFit'
  BY <1>16 DEF ListFails, RowsFit
<1>17. UNCHANGED listVars => RowsFit'
  BY <1>1 DEF listVars
<1>18. SelectRow => RowsFit'
  BY <1>2 DEF SelectRow
<1> QED
  BY <1>3, <1>4, <1>5, <1>6, <1>7, <1>8, <1>9, <1>10, <1>11, <1>12, <1>13, <1>14, <1>15, <1>16, <1>17, <1>18
     DEF ListsNext

LEMMA ListsAlwaysFit == ListsSpec => []ListsFit
<1>1. ListsInit => ListsFit
  <2> SUFFICES ASSUME ListsInit
               PROVE  ListsFit
    OBVIOUS
  <2>1. page = Fresh({}) /\ page \in PageType /\ page.used = {} /\ page.draft = NoThing /\ page.loading /\ page.auto = NoThing
    BY FreshFits DEF ListsInit
  <2> DEFINE r == [id |-> 1, on |-> TRUE]
  <2>2. reactions = {} \/ reactions = {r}
    BY DEF ListsInit
  <2>3. r \in Reaction
    BY DEF Reaction
  <2> HIDE DEF r
  <2>4. /\ reactions \subseteq Reaction /\ IsFiniteSet(reactions)
        /\ reactions = {} \/ \E o \in Reaction : reactions = {o}
    BY <2>2, <2>3, FS_EmptySet, FS_Singleton
  <2>5. /\ loads \in [LoadId -> ListLoad \cup {NoThing}]
        /\ \A i \in LoadId : loads[i] # NoThing => loads[i] = Load(FALSE)
    BY LoadFits DEF ListsInit
  <2>6. making = {} /\ switching = {} /\ stored = [d \in Draft |-> 0] /\ list \in Lists \cup {"none"}
    BY DEF ListsInit
  <2>7. ListsTypeOK
    <3>1. stored \in Count
      BY <2>6 DEF Count
    <3>2. behind \in BOOLEAN /\ misled \in BOOLEAN /\ unheard \in BOOLEAN
      BY DEF ListsInit
    <3>3. clicks \in 0 .. MaxClicks /\ misses \in 0 .. MaxMisses
      BY ListsAssumption DEF ListsInit
    <3> QED
      BY <2>1, <2>4, <2>5, <2>6, <3>1, <3>2, <3>3 DEF ListsTypeOK, PageType
  <2>8. LoadsFit
    BY <2>5 DEF LoadsFit, Load
  <2>9. DraftsFit /\ RequestsFit
    BY <2>1, <2>6 DEF DraftsFit, RequestsFit
  <2>10. SwitchFits
    BY <2>1, <2>4, <2>5, <2>6, LoadFits DEF SwitchFits
  <2>11. RowsFit
    <3>1. CASE list = "none"
      BY <3>1 DEF RowsFit
    <3>2. CASE list \in Lists
      <4>1. PICK i \in MountLoads(list) : i \in LoadId
        BY <3>2, MountLoadsFacts
      <4>2. loads[i] # NoThing
        BY <4>1, LoadFits DEF ListsInit
      <4> QED
        BY <4>1, <4>2 DEF RowsFit
    <3> QED
      BY <2>6, <3>1, <3>2
  <2> QED
    BY <2>4, <2>7, <2>8, <2>9, <2>10, <2>11 DEF ListsFit
<1>2. ListsFit /\ [ListsNext]_listVars => ListsFit'
  BY ListsTypeKept, LoadsKept, DraftsKept, RequestsKept, SwitchKept, RowsKept DEF ListsFit
<1> QED
  BY <1>1, <1>2, PTL DEF ListsSpec

(* The lists and what is asked for on them keep their types, for any       *)
(* number of drafts, clicks and failures.                                  *)
THEOREM ListsTyped == ListsSpec => []ListsTypeOK
<1>1. ListsFit => ListsTypeOK
  BY DEF ListsFit
<1> QED
  BY <1>1, ListsAlwaysFit, PTL

(* However the user clicks and whatever fails: the dialog of the requests  *)
(* makes one request of what was entered once, one reaction analyses new   *)
(* requests, and a list at rest shows what was asked for last, with the    *)
(* exceptions that the three properties name.                              *)
THEOREM ListsShowWhatIs == ListsSpec => []ListsFollow
<1>1. ListsFit => ListsFollow
  <2> SUFFICES ASSUME ListsFit
               PROVE  ListsFollow
    OBVIOUS
  <2>1. OneRequestPerDraft
    BY DEF ListsFit, RequestsFit, OneRequestPerDraft
  <2>2. OneAutoAnalysis
    <3>1. CASE misled
      BY <3>1 DEF OneAutoAnalysis
    <3>2. CASE ~misled
      <4>1. reactions = {} \/ \E r \in Reaction : reactions = {r}
        BY <3>2 DEF ListsFit, SwitchFits
      <4>2. Cardinality(reactions) \in {0, 1}
        BY <4>1, FS_EmptySet, FS_Singleton
      <4> QED
        BY <4>2 DEF OneAutoAnalysis
    <3> QED
      BY <3>1, <3>2
  <2>3. ListCurrent
    BY DEF ListsFit, RowsFit, ListCurrent
  <2> QED
    BY <2>1, <2>2, <2>3 DEF ListsFollow
<1> QED
  BY <1>1, ListsAlwaysFit, PTL
-----------------------------------------------------------------------------
(* The bell of mentions.                                                   *)
(* An answer that has the rows of a session, with none of that session     *)
(* after it.                                                               *)
Comes(s, h, u) ==
  \E k \in DOMAIN s :
    /\ s[k].ask.session = h /\ ~s[k].late /\ s[k].got = u
    /\ \A j \in DOMAIN s : j > k => s[j].ask.session # h

Overtaken(s, h) == \A k \in DOMAIN s : s[k].ask.session = h => s[k].late

LoadOf(h) == [kind |-> "load", session |-> h]

(* With nothing untold and no load to come for the session that is held,   *)
(* its rows are on their way, or counted.                                  *)
NewsFits ==
  held # NoSession /\ ~untold /\ ~called /\ posed[LoadOf(held)] = 0 =>
    \/ Comes(replies, held, unread[held])
    \/ Overtaken(replies, held) /\ (bell = unread[held] \/ strayed)

BellFits == BellTypeOK /\ NewsFits

(* Taking one answer out of the sequence: the others keep their order.     *)
LEMMA AnswerTakenOut ==
  ASSUME NEW s \in Seq(BellAnswer), NEW n \in DOMAIN s
  PROVE  /\ RemoveAt(s, n) \in Seq(BellAnswer) /\ Len(RemoveAt(s, n)) = Len(s) - 1
         /\ DOMAIN RemoveAt(s, n) = 1..(Len(s) - 1)
         /\ \A i \in 1..(Len(s) - 1) : RemoveAt(s, n)[i] = s[IF i < n THEN i ELSE i + 1]
<1> DEFINE a == SubSeq(s, 1, n - 1)
           b == SubSeq(s, n + 1, Len(s))
<1>1. /\ DOMAIN s = 1..Len(s) /\ Len(s) \in Nat /\ n \in 1..Len(s)
      /\ \A i \in 1..Len(s) : s[i] \in BellAnswer
  BY ElementOfSeq
<1>2. /\ a \in Seq(BellAnswer) /\ Len(a) = n - 1
      /\ \A i \in 1..(n - 1) : a[i] = s[i]
  <2>1. \A i \in 1..(n - 1) : s[i] \in BellAnswer
    BY <1>1
  <2>2. /\ a \in Seq(BellAnswer) /\ Len(a) = IF 1 <= n - 1 THEN n - 1 - 1 + 1 ELSE 0
        /\ \A i \in 1..(n - 1 - 1 + 1) : a[i] = s[1 + i - 1]
    <3>1. n - 1 \in Int /\ 1 \in Int
      BY <1>1
    <3> QED
      BY <2>1, <3>1, SubSeqProperties
  <2>3. n - 1 - 1 + 1 = n - 1 /\ \A i \in 1..(n - 1) : 1 + i - 1 = i
    BY <1>1
  <2> QED
    BY <1>1, <2>2, <2>3
<1>3. /\ b \in Seq(BellAnswer) /\ Len(b) = Len(s) - n
      /\ \A i \in 1..(Len(s) - n) : b[i] = s[n + i]
  <2>1. \A i \in (n + 1)..Len(s) : s[i] \in BellAnswer
    BY <1>1
  <2>2. /\ b \in Seq(BellAnswer)
        /\ Len(b) = IF n + 1 <= Len(s) THEN Len(s) - (n + 1) + 1 ELSE 0
        /\ \A i \in 1..(Len(s) - (n + 1) + 1) : b[i] = s[(n + 1) + i - 1]
    <3>1. n + 1 \in Int /\ Len(s) \in Int
      BY <1>1
    <3> QED
      BY <2>1, <3>1, SubSeqProperties
  <2>3. /\ Len(s) - (n + 1) + 1 = Len(s) - n
        /\ \A i \in 1..(Len(s) - n) : (n + 1) + i - 1 = n + i
    BY <1>1
  <2> QED
    BY <1>1, <2>2, <2>3
<1>4. /\ RemoveAt(s, n) \in Seq(BellAnswer) /\ Len(RemoveAt(s, n)) = Len(s) - 1
      /\ DOMAIN RemoveAt(s, n) = 1..(Len(s) - 1)
      /\ \A i \in 1..(Len(s) - 1) : RemoveAt(s, n)[i] = s[IF i < n THEN i ELSE i + 1]
  <2> HIDE DEF a, b
  <2>1. RemoveAt(s, n) = a \o b
    BY DEF RemoveAt, a, b
  <2>2. Len(a) + Len(b) = Len(s) - 1
    BY <1>1, <1>2, <1>3
  <2>3. /\ a \o b \in Seq(BellAnswer) /\ Len(a \o b) = Len(s) - 1
        /\ \A i \in 1..(Len(s) - 1) : (a \o b)[i] = IF i <= n - 1 THEN a[i] ELSE b[i - (n - 1)]
    <3>1. /\ a \o b \in Seq(BellAnswer) /\ Len(a \o b) = Len(a) + Len(b)
          /\ \A i \in 1..(Len(a) + Len(b)) :
               (a \o b)[i] = IF i <= Len(a) THEN a[i] ELSE b[i - Len(a)]
      BY <1>2, <1>3, ConcatProperties
    <3> QED
      BY <1>2, <2>2, <3>1
  <2>4. ASSUME NEW i \in 1..(Len(s) - 1)
        PROVE  (a \o b)[i] = s[IF i < n THEN i ELSE i + 1]
    <3>1. CASE i < n
      <4>1. i <= n - 1 /\ i \in 1..(n - 1)
        BY <1>1, <3>1
      <4> QED
        BY <1>2, <2>3, <3>1, <4>1
    <3>2. CASE ~ (i < n)
      <4>1. ~ (i <= n - 1) /\ i - (n - 1) \in 1..(Len(s) - n) /\ n + (i - (n - 1)) = i + 1
        BY <1>1, <3>2
      <4> QED
        BY <1>3, <2>3, <3>2, <4>1
    <3> QED
      BY <3>1, <3>2
  <2>5. DOMAIN (a \o b) = 1..(Len(s) - 1)
    BY <2>3
  <2> QED
    BY <2>1, <2>3, <2>4, <2>5
<1> QED
  BY <1>4

LEMMA AnswerAdded ==
  ASSUME NEW s \in Seq(BellAnswer), NEW e \in BellAnswer
  PROVE  /\ Append(s, e) \in Seq(BellAnswer) /\ DOMAIN Append(s, e) = 1..(Len(s) + 1)
         /\ Len(s) \in Nat /\ DOMAIN s = 1..Len(s)
         /\ \A i \in 1..Len(s) : Append(s, e)[i] = s[i]
         /\ Append(s, e)[Len(s) + 1] = e
BY AppendProperties, LenProperties

(* What is late after an answer has been taken in: all that came before it.*)
LEMMA LatenessFacts ==
  ASSUME replies \in Seq(BellAnswer), NEW n \in DOMAIN replies
  PROVE  /\ Lateness(n) \in Seq(BellAnswer) /\ Len(Lateness(n)) = Len(replies)
         /\ DOMAIN replies = 1..Len(replies) /\ Len(replies) \in Nat /\ DOMAIN Lateness(n) = 1..Len(replies)
         /\ \A k \in 1..Len(replies) :
              /\ Lateness(n)[k].ask = replies[k].ask /\ Lateness(n)[k].got = replies[k].got
              /\ k < n => Lateness(n)[k].late
              /\ ~ (k < n) => Lateness(n)[k].late = replies[k].late
<1>1. /\ DOMAIN replies = 1..Len(replies) /\ Len(replies) \in Nat
      /\ \A k \in 1..Len(replies) : replies[k] \in BellAnswer
  BY ElementOfSeq, LenProperties
<1>2. ASSUME NEW e \in BellAnswer, NEW l, l = [e EXCEPT !.late = TRUE]
      PROVE  l \in BellAnswer /\ l.ask = e.ask /\ l.got = e.got /\ l.late = TRUE
  <2>1. l \in BellAnswer
    BY <1>2 DEF BellAnswer
  <2>2. l.ask = e.ask
    BY <1>2 DEF BellAnswer
  <2>3. l.got = e.got
    BY <1>2 DEF BellAnswer
  <2>4. l.late = TRUE
    BY <1>2 DEF BellAnswer
  <2> QED
    BY <2>1, <2>2, <2>3, <2>4
<1>3. ASSUME NEW k \in 1..Len(replies)
      PROVE  /\ Lateness(n)[k] \in BellAnswer
             /\ Lateness(n)[k].ask = replies[k].ask /\ Lateness(n)[k].got = replies[k].got
             /\ k < n => Lateness(n)[k].late
             /\ ~ (k < n) => Lateness(n)[k].late = replies[k].late
  <2>1. Lateness(n)[k] = IF k < n THEN [replies[k] EXCEPT !.late = TRUE] ELSE replies[k]
    BY <1>1 DEF Lateness
  <2>2. CASE k < n
    <3>1. replies[k] \in BellAnswer /\ Lateness(n)[k] = [replies[k] EXCEPT !.late = TRUE]
      BY <1>1, <2>1, <2>2
    <3> QED
      BY <1>2, <2>2, <3>1
  <2>3. CASE ~ (k < n)
    BY <1>1, <2>1, <2>3
  <2> QED
    BY <2>2, <2>3
<1>4. DOMAIN Lateness(n) = 1..Len(replies)
  BY <1>1 DEF Lateness
<1>5. Lateness(n) \in [1..Len(replies) -> BellAnswer]
  BY <1>1, <1>3 DEF Lateness
<1>6. Lateness(n) \in Seq(BellAnswer)
  BY <1>1, <1>5
<1>7. Len(Lateness(n)) = Len(replies)
  BY <1>1, <1>4, <1>6, LenProperties
<1> QED
  BY <1>1, <1>3, <1>4, <1>6, <1>7

LEMMA BellTypeKept ==
  ASSUME BellTypeOK, BellNext \/ UNCHANGED bellVars
  PROVE  BellTypeOK'
<1> DEFINE Rest == /\ frame \in {"none", "shell"} /\ held \in Session \cup {NoSession} /\ wired \in BOOLEAN
                   /\ unread \in [Session -> SUBSET Mention] /\ called \in BOOLEAN /\ bell \subseteq Mention
                   /\ untold \in BOOLEAN /\ strayed \in BOOLEAN
           Counts == moves \in 0 .. MaxMoves /\ mishaps \in 0 .. MaxMishaps
<1>1. Rest /\ Counts /\ posed \in [BellAsk -> Nat] /\ replies \in Seq(BellAnswer)
  BY DEF BellTypeOK
<1> DEFINE Goal == Rest' /\ Counts' /\ (posed \in [BellAsk -> Nat])' /\ (replies \in Seq(BellAnswer))'
<1>2. SUFFICES Goal
  BY DEF BellTypeOK
<1>3. /\ UNCHANGED <<moves, mishaps>> => Counts'
      /\ Moving => Counts'
      /\ Mishap => Counts'
      /\ Quietly => Counts'
  BY <1>1, BellAssumption DEF Moving, Mishap, Quietly
<1>4. ASSUME NEW k \in {"load", "clear"}, NEW s, Poses(k, s)
      PROVE  (posed \in [BellAsk -> Nat])'
  <2> DEFINE a == [kind |-> k, session |-> s]
  <2>1. posed' = [posed EXCEPT ![a] = posed[a] + 1]
    BY <1>4 DEF Poses
  <2> HIDE DEF a
  <2>2. CASE a \in BellAsk
    <3>1. posed[a] + 1 \in Nat
      BY <1>1, <2>2
    <3> QED
      BY <1>1, <2>1, <3>1
  <2>3. CASE a \notin BellAsk
    BY <1>1, <2>1, <2>3
  <2> QED
    BY <2>2, <2>3
<1>5. ASSUME NEW a \in BellAsk, posed[a] > 0, posed' = [posed EXCEPT ![a] = posed[a] - 1]
      PROVE  (posed \in [BellAsk -> Nat])'
  <2>1. posed[a] \in Nat
    BY <1>1
  <2>2. posed[a] - 1 \in Nat
    BY <1>5, <2>1
  <2> QED
    BY <1>1, <1>5, <2>2
<1>6. ASSUME UNCHANGED bellVars
      PROVE  Goal
  BY <1>1, <1>6 DEF bellVars
<1>7. ASSUME NEW s \in Session, Enter(s)
      PROVE  Goal
  BY <1>1, <1>3, <1>4, <1>7 DEF Enter, Kept
<1>8. ASSUME NEW m \in Mention, NEW s \in Session, Mentioned(m, s)
      PROVE  Goal
  <2>1. unread' \in [Session -> SUBSET Mention] /\ called' \in BOOLEAN /\ untold' \in BOOLEAN
    BY <1>1, <1>8 DEF Mentioned
  <2> QED
    BY <1>1, <1>3, <1>8, <2>1 DEF Mentioned, Kept
<1>9. ASSUME Exit \/ Linked
      PROVE  Goal
  BY <1>1, <1>3, <1>9 DEF Exit, Linked, Kept
<1>10. ASSUME LinkDrops
       PROVE  Goal
  BY <1>1, <1>3, <1>10 DEF LinkDrops, Kept
<1>11. ASSUME CallHeard \/ ClearMentions
       PROVE  Goal
  BY <1>1, <1>3, <1>4, <1>11 DEF CallHeard, ClearMentions, Kept
<1>12. ASSUME NEW a \in BellAsk, Served(a)
       PROVE  Goal
  <2> DEFINE left == IF a.kind = "load" THEN unread[a.session] ELSE {}
             e == [ask |-> a, got |-> left, late |-> FALSE]
  <2>1. a.session \in Session /\ left \in SUBSET Mention /\ e \in BellAnswer
    BY <1>1 DEF BellAsk, BellAnswer
  <2>2. /\ Quietly /\ Kept /\ posed[a] > 0 /\ posed' = [posed EXCEPT ![a] = posed[a] - 1]
        /\ unread' = [unread EXCEPT ![a.session] = left] /\ replies' = Append(replies, e)
        /\ untold' = (untold /\ a.session # held)
        /\ UNCHANGED <<held, wired, called, bell, strayed>>
    BY <1>12 DEF Served
  <2> HIDE DEF left, e
  <2>3. replies' \in Seq(BellAnswer)
    BY <1>1, <2>1, <2>2, AnswerAdded
  <2>4. unread' \in [Session -> SUBSET Mention] /\ untold' \in BOOLEAN
    BY <1>1, <2>1, <2>2
  <2> QED
    BY <1>1, <1>3, <1>5, <2>2, <2>3, <2>4 DEF Kept
<1>13. ASSUME NEW n \in DOMAIN replies, Taken(n)
       PROVE  Goal
  <2>1. Lateness(n) \in Seq(BellAnswer) /\ n \in DOMAIN Lateness(n)
    BY <1>1, LatenessFacts
  <2>2. replies' \in Seq(BellAnswer)
    BY <1>13, <2>1, AnswerTakenOut DEF Taken
  <2>3. replies[n].got \in SUBSET Mention /\ replies[n].late \in BOOLEAN
    <3>1. replies[n] \in BellAnswer
      BY <1>1, ElementOfSeq, LenProperties
    <3> QED
      BY <3>1 DEF BellAnswer
  <2>4. /\ Quietly /\ Kept /\ bell' = replies[n].got
        /\ strayed' = (replies[n].late \/ replies[n].ask.session # held)
        /\ UNCHANGED <<held, wired, unread, called, posed, untold>>
    BY <1>13 DEF Taken
  <2>5. strayed' \in BOOLEAN /\ bell' \subseteq Mention
    BY <2>3, <2>4
  <2> QED
    BY <1>1, <1>3, <2>2, <2>4, <2>5 DEF Kept
<1>14. ASSUME NEW a \in BellAsk, RequestFails(a)
       PROVE  Goal
  <2>1. untold' \in BOOLEAN
    BY <1>1, <1>14 DEF RequestFails
  <2> QED
    BY <1>1, <1>3, <1>5, <1>14, <2>1 DEF RequestFails, Kept
<1>15. ASSUME NEW n \in DOMAIN replies, AnswerLost(n)
       PROVE  Goal
  <2>1. replies' \in Seq(BellAnswer)
    BY <1>1, <1>15, AnswerTakenOut DEF AnswerLost
  <2>2. untold' \in BOOLEAN
    BY <1>1, <1>15 DEF AnswerLost
  <2> QED
    BY <1>1, <1>3, <1>15, <2>1, <2>2 DEF AnswerLost, Kept
<1> QED
  BY <1>6, <1>7, <1>8, <1>9, <1>10, <1>11, <1>12, <1>13, <1>14, <1>15 DEF BellNext

LEMMA ComesAt ==
  ASSUME NEW s, NEW h, NEW u, NEW k \in DOMAIN s, s[k].ask.session = h, ~s[k].late, s[k].got = u,
         \A j \in DOMAIN s : j > k => s[j].ask.session # h
  PROVE  Comes(s, h, u)
BY DEF Comes

(* Another answer goes, or comes: the rows still come.                     *)
LEMMA ComesWithout ==
  ASSUME NEW s \in Seq(BellAnswer), NEW n \in DOMAIN s, NEW h, NEW u, NEW k \in DOMAIN s, k # n,
         s[k].ask.session = h, ~s[k].late, s[k].got = u,
         \A j \in DOMAIN s : j > k => s[j].ask.session # h
  PROVE  Comes(RemoveAt(s, n), h, u)
<1> DEFINE r == RemoveAt(s, n)
           p == IF k < n THEN k ELSE k - 1
<1>1. /\ DOMAIN s = 1..Len(s) /\ Len(s) \in Nat /\ DOMAIN r = 1..(Len(s) - 1)
      /\ \A i \in 1..(Len(s) - 1) : r[i] = s[IF i < n THEN i ELSE i + 1]
  BY AnswerTakenOut, LenProperties
<1> HIDE DEF r
<1>2. p \in DOMAIN r /\ (IF p < n THEN p ELSE p + 1) = k
  BY <1>1
<1>3. r[p] = s[k]
  BY <1>1, <1>2
<1>4. ASSUME NEW j \in DOMAIN r, j > p
      PROVE  r[j].ask.session # h
  <2>1. r[j] = s[IF j < n THEN j ELSE j + 1]
    BY <1>1
  <2>2. (IF j < n THEN j ELSE j + 1) \in DOMAIN s /\ (IF j < n THEN j ELSE j + 1) > k
    BY <1>1, <1>4
  <2> QED
    BY <2>1, <2>2
<1> HIDE DEF p
<1>5. Comes(r, h, u)
  BY <1>2, <1>3, <1>4, ComesAt
<1> QED
  BY <1>5 DEF r

LEMMA OvertakenWithout ==
  ASSUME NEW s \in Seq(BellAnswer), NEW n \in DOMAIN s, NEW h,
         \A k \in DOMAIN s : k # n /\ s[k].ask.session = h => s[k].late
  PROVE  Overtaken(RemoveAt(s, n), h)
<1>1. /\ DOMAIN s = 1..Len(s) /\ Len(s) \in Nat /\ DOMAIN RemoveAt(s, n) = 1..(Len(s) - 1)
      /\ \A i \in 1..(Len(s) - 1) : RemoveAt(s, n)[i] = s[IF i < n THEN i ELSE i + 1]
  BY AnswerTakenOut, LenProperties
<1>2. ASSUME NEW i \in DOMAIN RemoveAt(s, n), RemoveAt(s, n)[i].ask.session = h
      PROVE  RemoveAt(s, n)[i].late
  <2>1. (IF i < n THEN i ELSE i + 1) \in DOMAIN s /\ (IF i < n THEN i ELSE i + 1) # n
    BY <1>1
  <2>2. RemoveAt(s, n)[i] = s[IF i < n THEN i ELSE i + 1]
    BY <1>1
  <2> QED
    BY <1>2, <2>1, <2>2
<1> QED
  BY <1>2 DEF Overtaken

LEMMA ComesAppended ==
  ASSUME NEW s \in Seq(BellAnswer), NEW e \in BellAnswer, NEW h, NEW u, e.ask.session # h
  PROVE  /\ Comes(s, h, u) => Comes(Append(s, e), h, u)
         /\ Overtaken(s, h) => Overtaken(Append(s, e), h)
<1> DEFINE r == Append(s, e)
<1>1. /\ DOMAIN r = 1..(Len(s) + 1) /\ Len(s) \in Nat /\ DOMAIN s = 1..Len(s)
      /\ \A i \in 1..Len(s) : r[i] = s[i]
      /\ r[Len(s) + 1] = e
  BY AnswerAdded
<1> HIDE DEF r
<1>2. ASSUME Comes(s, h, u)
      PROVE  Comes(r, h, u)
  <2>1. PICK k \in DOMAIN s :
          /\ s[k].ask.session = h /\ ~s[k].late /\ s[k].got = u
          /\ \A j \in DOMAIN s : j > k => s[j].ask.session # h
    BY <1>2 DEF Comes
  <2>2. k \in DOMAIN r /\ r[k] = s[k]
    BY <1>1
  <2>3. ASSUME NEW j \in DOMAIN r, j > k
        PROVE  r[j].ask.session # h
    <3>1. j \in 1..Len(s) \/ j = Len(s) + 1
      BY <1>1
    <3> QED
      BY <1>1, <2>1, <2>3, <3>1
  <2> QED
    BY <2>1, <2>2, <2>3, ComesAt
<1>3. ASSUME Overtaken(s, h)
      PROVE  Overtaken(r, h)
  <2>1. ASSUME NEW j \in DOMAIN r, r[j].ask.session = h
        PROVE  r[j].late
    <3>1. j \in 1..Len(s) \/ j = Len(s) + 1
      BY <1>1
    <3> QED
      BY <1>1, <1>3, <2>1, <3>1 DEF Overtaken
  <2> QED
    BY <2>1 DEF Overtaken
<1> QED
  BY <1>2, <1>3 DEF r

LEMMA NewsKept ==
  ASSUME BellFits, BellNext \/ UNCHANGED bellVars
  PROVE  NewsFits'
<1> DEFINE Expects == held # NoSession /\ ~untold /\ ~called /\ posed[LoadOf(held)] = 0
           Knows == \/ Comes(replies, held, unread[held])
                    \/ Overtaken(replies, held) /\ (bell = unread[held] \/ strayed)
<1>1. /\ replies \in Seq(BellAnswer) /\ posed \in [BellAsk -> Nat] /\ unread \in [Session -> SUBSET Mention]
      /\ held \in Session \cup {NoSession} /\ (Expects => Knows)
  BY DEF BellFits, BellTypeOK, NewsFits
<1>2. SUFFICES ASSUME Expects'
               PROVE  Knows'
  BY DEF NewsFits
<1>3. ASSUME UNCHANGED <<held, untold, called, replies, unread, bell, strayed>>,
             Expects' => posed[LoadOf(held)] = 0
      PROVE  Knows'
  BY <1>1, <1>2, <1>3 DEF Comes, Overtaken
<1>4. ASSUME NEW s \in Session, held' = s, Poses("load", s)
      PROVE  FALSE
  <2>1. LoadOf(s) \in BellAsk /\ posed' = [posed EXCEPT ![LoadOf(s)] = posed[LoadOf(s)] + 1]
    BY <1>4 DEF Poses, LoadOf, BellAsk
  <2>2. posed'[LoadOf(s)] = posed[LoadOf(s)] + 1 /\ posed[LoadOf(s)] \in Nat
    BY <1>1, <2>1
  <2> QED
    BY <1>2, <1>4, <2>2
<1>5. held' \in Session \cup {NoSession}
  BY BellTypeKept DEF BellFits, BellTypeOK
<1>6. ASSUME UNCHANGED bellVars
      PROVE  Knows'
  BY <1>2, <1>3, <1>6 DEF bellVars
<1>7. ASSUME NEW s \in Session, Enter(s)
      PROVE  Knows'
  BY <1>4, <1>7 DEF Enter
<1>8. ASSUME NEW m \in Mention, NEW s \in Session, Mentioned(m, s)
      PROVE  Knows'
  <2>1. /\ unread' = [unread EXCEPT ![s] = unread[s] \cup {m}] /\ UNCHANGED <<held, bell, posed, replies, strayed>>
        /\ held # s /\ ~called /\ ~untold
    BY <1>2, <1>8 DEF Mentioned
  <2>2. unread'[held] = unread[held]
    BY <1>1, <2>1
  <2> QED
    BY <1>1, <1>2, <2>1, <2>2 DEF Comes, Overtaken
<1>9. ASSUME Exit
      PROVE  Knows'
  BY <1>2, <1>9 DEF Exit
<1>10. ASSUME Linked
       PROVE  Knows'
  BY <1>2, <1>3, <1>10 DEF Linked
<1>11. ASSUME LinkDrops
       PROVE  Knows'
  <2>1. UNCHANGED <<held, unread, bell, posed, replies, strayed>> /\ ~untold /\ ~called
    BY <1>2, <1>11 DEF LinkDrops
  <2> QED
    BY <1>1, <1>2, <2>1 DEF Comes, Overtaken
<1>12. ASSUME CallHeard
       PROVE  Knows'
  <2>1. UNCHANGED held /\ Poses("load", held)
    BY <1>12 DEF CallHeard
  <2> QED
    BY <1>2, <1>4, <1>5, <2>1
<1>13. ASSUME ClearMentions
       PROVE  Knows'
  <2>1. /\ posed' = [posed EXCEPT ![[kind |-> "clear", session |-> held]] = @ + 1]
        /\ UNCHANGED <<held, unread, called, bell, replies, untold, strayed>>
    BY <1>13 DEF ClearMentions, Poses
  <2>2. LoadOf(held) # [kind |-> "clear", session |-> held]
    BY DEF LoadOf
  <2>3. posed'[LoadOf(held)] = posed[LoadOf(held)]
    <3>1. LoadOf(held) \in BellAsk
      BY <1>1, <1>2, <2>1 DEF LoadOf, BellAsk
    <3> QED
      BY <1>1, <2>1, <2>2, <3>1
  <2> QED
    BY <1>2, <1>3, <2>1, <2>3
<1>14. ASSUME NEW a \in BellAsk, Served(a)
       PROVE  Knows'
  <2> DEFINE left == IF a.kind = "load" THEN unread[a.session] ELSE {}
             e == [ask |-> a, got |-> left, late |-> FALSE]
  <2>1. a.session \in Session /\ left \in SUBSET Mention /\ e \in BellAnswer
    BY <1>1 DEF BellAsk, BellAnswer
  <2>2. /\ posed' = [posed EXCEPT ![a] = posed[a] - 1]
        /\ unread' = [unread EXCEPT ![a.session] = left] /\ replies' = Append(replies, e)
        /\ untold' = (untold /\ a.session # held) /\ UNCHANGED <<held, called, bell, strayed>>
    BY <1>14 DEF Served
  <2>3. e.ask = a /\ e.got = left /\ ~e.late
    OBVIOUS
  <2> HIDE DEF left, e
  <2>4. CASE a.session = held
    <3>1. /\ DOMAIN replies' = 1..(Len(replies) + 1) /\ Len(replies) \in Nat
          /\ replies'[Len(replies) + 1] = e
      BY <1>1, <2>1, <2>2, AnswerAdded
    <3>2. unread'[held] = left
      BY <1>1, <2>1, <2>2, <2>4
    <3>3. /\ Len(replies) + 1 \in DOMAIN replies'
          /\ \A j \in DOMAIN replies' : ~ (j > Len(replies) + 1)
      BY <3>1
    <3>4. Comes(replies', held, left)
      BY <2>3, <2>4, <3>1, <3>3, ComesAt
    <3> QED
      BY <2>2, <3>2, <3>4
  <2>5. CASE a.session # held
    <3>1. unread'[held] = unread[held]
      BY <1>1, <1>2, <2>1, <2>2, <2>5
    <3>2. posed'[LoadOf(held)] = posed[LoadOf(held)]
      <4>1. LoadOf(held) \in BellAsk /\ LoadOf(held) # a
        BY <1>1, <1>2, <2>2, <2>5 DEF LoadOf, BellAsk
      <4> QED
        BY <1>1, <2>2, <4>1
    <3>3. Knows
      BY <1>1, <1>2, <2>2, <2>5, <3>2
    <3>4. /\ Comes(replies, held, unread[held]) => Comes(replies', held, unread[held])
          /\ Overtaken(replies, held) => Overtaken(replies', held)
      BY <1>1, <2>1, <2>2, <2>3, <2>5, ComesAppended
    <3> QED
      BY <2>2, <3>1, <3>3, <3>4
  <2> QED
    BY <2>4, <2>5
<1>15. ASSUME NEW a \in BellAsk, RequestFails(a)
       PROVE  Knows'
  <2>1. /\ posed' = [posed EXCEPT ![a] = posed[a] - 1] /\ ~untold
        /\ ~ (a.kind = "load" /\ a.session = held)
        /\ UNCHANGED <<held, unread, called, bell, replies, strayed>>
    BY <1>2, <1>15 DEF RequestFails
  <2>2. posed'[LoadOf(held)] = posed[LoadOf(held)]
    <3>1. LoadOf(held) \in BellAsk /\ LoadOf(held) # a
      BY <1>1, <1>2, <2>1 DEF LoadOf, BellAsk
    <3> QED
      BY <1>1, <2>1, <3>1
  <2>3. Knows
    BY <1>1, <1>2, <2>1, <2>2
  <2> QED
    BY <2>1, <2>3
<1>16. ASSUME NEW n \in DOMAIN replies, AnswerLost(n)
       PROVE  Knows'
  <2>1. /\ replies' = RemoveAt(replies, n) /\ replies[n].ask.session # held
        /\ UNCHANGED <<held, unread, called, bell, posed, strayed>> /\ ~untold
    BY <1>2, <1>16 DEF AnswerLost
  <2>2. Knows
    BY <1>1, <1>2, <2>1
  <2>3. Comes(replies, held, unread[held]) => Comes(replies', held, unread[held])
    <3>1. ASSUME NEW k \in DOMAIN replies, replies[k].ask.session = held, ~replies[k].late,
                 replies[k].got = unread[held],
                 \A j \in DOMAIN replies : j > k => replies[j].ask.session # held
          PROVE  Comes(replies', held, unread[held])
      BY <1>1, <2>1, <3>1, ComesWithout
    <3> QED
      BY <3>1 DEF Comes
  <2>4. Overtaken(replies, held) => Overtaken(replies', held)
    BY <1>1, <2>1, OvertakenWithout DEF Overtaken
  <2> QED
    BY <2>1, <2>2, <2>3, <2>4
<1>17. ASSUME NEW n \in DOMAIN replies, Taken(n)
       PROVE  Knows'
  <2> DEFINE s == Lateness(n)
  <2>1. /\ replies' = RemoveAt(s, n) /\ bell' = replies[n].got
        /\ strayed' = (replies[n].late \/ replies[n].ask.session # held)
        /\ UNCHANGED <<held, unread, called, posed, untold>>
    BY <1>17 DEF Taken
  <2>2. /\ s \in Seq(BellAnswer) /\ DOMAIN s = DOMAIN replies /\ DOMAIN s = 1..Len(replies)
        /\ Len(replies) \in Nat
        /\ \A k \in DOMAIN s :
             /\ s[k].ask = replies[k].ask /\ s[k].got = replies[k].got
             /\ k < n => s[k].late
             /\ ~ (k < n) => s[k].late = replies[k].late
    BY <1>1, LatenessFacts
  <2> HIDE DEF s
  <2>3. Knows
    BY <1>1, <1>2, <2>1
  <2>4. ASSUME NEW k \in DOMAIN replies, replies[k].ask.session = held, ~replies[k].late,
               replies[k].got = unread[held],
               \A j \in DOMAIN replies : j > k => replies[j].ask.session # held
        PROVE  Knows'
    <3>1. CASE n < k
      <4>1. k # n /\ s[k].ask.session = held /\ ~s[k].late /\ s[k].got = unread[held]
        BY <2>2, <2>4, <3>1
      <4>2. \A j \in DOMAIN s : j > k => s[j].ask.session # held
        BY <2>2, <2>4
      <4>3. Comes(RemoveAt(s, n), held, unread[held])
        BY <2>2, <4>1, <4>2, ComesWithout
      <4> QED
        BY <2>1, <4>3
    <3>2. CASE ~ (n < k)
      <4>1. ASSUME NEW j \in DOMAIN s, j # n, s[j].ask.session = held
            PROVE  s[j].late
        <5>1. replies[j].ask.session = held /\ ~ (j > k)
          BY <2>2, <2>4, <4>1
        <5>2. j < n
          BY <2>2, <3>2, <4>1, <5>1
        <5> QED
          BY <2>2, <5>2
      <4>2. Overtaken(replies', held)
        BY <2>1, <2>2, <4>1, OvertakenWithout
      <4>3. n = k \/ replies[n].ask.session # held
        BY <2>2, <2>4, <3>2
      <4>4. bell' = unread[held] \/ strayed'
        BY <2>1, <2>4, <4>3
      <4> QED
        BY <2>1, <4>2, <4>4
    <3> QED
      BY <3>1, <3>2
  <2>5. ASSUME Overtaken(replies, held)
        PROVE  Knows'
    <3>1. ASSUME NEW j \in DOMAIN s, s[j].ask.session = held
          PROVE  s[j].late
      <4>1. replies[j].late
        BY <2>2, <2>5, <3>1 DEF Overtaken
      <4> QED
        BY <2>2, <4>1
    <3>2. Overtaken(replies', held)
      BY <2>1, <2>2, <3>1, OvertakenWithout
    <3>3. strayed'
      BY <2>1, <2>5 DEF Overtaken
    <3> QED
      BY <2>1, <3>2, <3>3
  <2> QED
    BY <2>3, <2>4, <2>5 DEF Comes
<1> QED
  BY <1>6, <1>7, <1>8, <1>9, <1>10, <1>11, <1>12, <1>13, <1>14, <1>15, <1>16, <1>17 DEF BellNext

LEMMA BellInitFits == BellInit => BellFits
<1> SUFFICES ASSUME BellInit
             PROVE  BellFits
  OBVIOUS
<1>1. held = NoSession /\ replies = <<>> /\ moves = 0 /\ mishaps = 0
  BY DEF BellInit
<1>2. replies \in Seq(BellAnswer)
  BY <1>1, EmptySeq
<1>3. moves \in 0 .. MaxMoves /\ mishaps \in 0 .. MaxMishaps
  BY <1>1, BellAssumption
<1>4. posed \in [BellAsk -> Nat] /\ unread \in [Session -> SUBSET Mention]
  BY DEF BellInit
<1>5. BellTypeOK
  BY <1>2, <1>3, <1>4 DEF BellInit, BellTypeOK
<1> QED
  BY <1>1, <1>5 DEF BellFits, NewsFits

LEMMA BellAlwaysFits == BellSpec => []BellFits
<1>1. BellFits /\ [BellNext]_bellVars => BellFits'
  BY BellTypeKept, NewsKept DEF BellFits
<1> QED
  BY <1>1, BellInitFits, PTL DEF BellSpec

(* What the bell holds, and the requests and answers under way, keep their *)
(* types.                                                                  *)
THEOREM BellTyped == BellSpec => []BellTypeOK
<1>1. BellFits => BellTypeOK
  BY DEF BellFits
<1> QED
  BY <1>1, BellAlwaysFits, PTL

(* With nothing under way, no request waits for the server.                *)
LEMMA NothingPosed ==
  ASSUME BellTypeOK, UnderWay = 0, NEW a \in BellAsk
  PROVE  posed[a] = 0 /\ DOMAIN replies = {}
<1> DEFINE UnderWayAsks == {q \in BellAsk \X (1 .. MaxRequests) : q[2] <= posed[q[1]]}
           pairs == {"load", "clear"} \X Session
           f == [p \in pairs |-> [kind |-> p[1], session |-> p[2]]]
<1>1. IsFiniteSet(pairs)
  <2>1. IsFiniteSet({"load"} \cup {"clear"}) /\ {"load"} \cup {"clear"} = {"load", "clear"}
    BY FS_Singleton, FS_AddElement
  <2> QED
    BY <2>1, FS_Product, BellAssumption
<1>2. IsFiniteSet(BellAsk)
  <2>1. f \in Surjection(pairs, BellAsk)
    <3>1. f \in [pairs -> BellAsk]
      BY DEF BellAsk
    <3>2. ASSUME NEW e \in BellAsk
          PROVE  \E p \in pairs : f[p] = e
      <4>1. <<e.kind, e.session>> \in pairs /\ e = [kind |-> e.kind, session |-> e.session]
        BY DEF BellAsk
      <4>2. f[<<e.kind, e.session>>] = e
        BY <4>1
      <4> QED
        BY <4>1, <4>2
    <3> QED
      BY <3>1, <3>2 DEF Surjection
  <2> HIDE DEF f
  <2> QED
    BY <1>1, <2>1, FS_Surjection
<1>3. IsFiniteSet(UnderWayAsks)
  <2>1. IsFiniteSet(1 .. MaxRequests)
    BY FS_Interval, BellAssumption
  <2>2. IsFiniteSet(BellAsk \X (1 .. MaxRequests))
    BY <1>2, <2>1, FS_Product
  <2>3. UnderWayAsks \in SUBSET (BellAsk \X (1 .. MaxRequests))
    OBVIOUS
  <2> HIDE DEF UnderWayAsks
  <2> QED
    BY <2>2, <2>3, FS_Subset
<1>4. Len(replies) \in Nat /\ DOMAIN replies = 1..Len(replies) /\ posed[a] \in Nat
  BY LenProperties DEF BellTypeOK
<1>5. Cardinality(UnderWayAsks) \in Nat /\ Len(replies) + Cardinality(UnderWayAsks) = 0
  <2>1. Len(replies) + Cardinality(UnderWayAsks) = 0
    BY DEF UnderWay
  <2> HIDE DEF UnderWayAsks
  <2> QED
    BY <1>3, <2>1, FS_CardinalityType
<1> HIDE DEF pairs, f
<1>6. Len(replies) = 0 /\ Cardinality(UnderWayAsks) = 0
  <2> HIDE DEF UnderWayAsks
  <2> QED
    BY <1>4, <1>5
<1>7. UnderWayAsks = {}
  <2> HIDE DEF UnderWayAsks
  <2> QED
    BY <1>3, <1>6, FS_EmptySet
<1>8. posed[a] = 0
  <2> SUFFICES ASSUME posed[a] # 0
               PROVE  FALSE
    OBVIOUS
  <2>1. 1 <= posed[a] /\ 1 \in 1 .. MaxRequests
    BY <1>4, BellAssumption
  <2>2. <<a, 1>> \in UnderWayAsks
    BY <2>1
  <2> QED
    BY <1>7, <2>2
<1> QED
  BY <1>4, <1>6, <1>8

(* At rest the bell counts the unread mentions of the session that is held,*)
(* whatever order the requests were served and the answers came in, unless *)
(* the last answer was of a former session or was overtaken, or a change   *)
(* was not told.                                                           *)
THEOREM BellCounts == BellSpec => []BellFollows
<1>1. BellFits => BellFollows
  <2> SUFFICES ASSUME BellFits, held # NoSession, ~called, UnderWay = 0, ~strayed, ~untold
               PROVE  bell = unread[held]
    BY DEF BellFollows
  <2>1. LoadOf(held) \in BellAsk /\ BellTypeOK
    BY DEF BellFits, BellTypeOK, LoadOf, BellAsk
  <2>2. posed[LoadOf(held)] = 0 /\ DOMAIN replies = {}
    BY <2>1, NothingPosed
  <2>3. ~ Comes(replies, held, unread[held])
    BY <2>2 DEF Comes
  <2> QED
    BY <2>2, <2>3 DEF BellFits, NewsFits
<1> QED
  BY <1>1, BellAlwaysFits, PTL
-----------------------------------------------------------------------------
(* The composition.  A step of the run is a step of one part, or of none.  *)
LEMMA PartsStep ==
  ASSUME [Next]_vars
  PROVE  /\ [PanelsNext]_panelVars /\ [WatchNext]_watchVars /\ [DetailNext]_detailVars /\ [ListsNext]_listVars
         /\ [DialogNext]_dialogVars /\ [SiteNext]_siteVars /\ [SettingsNext]_settingsVars
         /\ [GraphNext]_graphVars /\ [SignInNext]_signVars /\ [BellNext]_bellVars
BY DEF Next, vars

LEMMA PartsSpecs ==
  Spec => /\ PanelsSpec /\ WatchSpec /\ DetailSpec /\ ListsSpec /\ DialogSpec
          /\ SiteSpec /\ SettingsSpec /\ GraphSpec /\ SignInSpec /\ BellSpec
<1>1. Init => /\ PanelsInit /\ WatchInit /\ DetailInit /\ ListsInit /\ DialogInit
              /\ SiteInit /\ SettingsInit /\ GraphInit /\ SignInInit /\ BellInit
  BY DEF Init
<1> QED
  BY <1>1, PartsStep, PTL DEF Spec, PanelsSpec, WatchSpec, DetailSpec, ListsSpec, DialogSpec, SiteSpec, SettingsSpec,
     GraphSpec, SignInSpec, BellSpec

(* Every part keeps its types in every behaviour of the run.               *)
THEOREM PagesTyped == Spec => []PagesTypeOK
<1>1. /\ PanelsTypeOK /\ WatchTypeOK /\ DetailTypeOK /\ ListsTypeOK /\ DialogTypeOK
      /\ SiteTypeOK /\ SettingsTypeOK /\ GraphTypeOK /\ SignInTypeOK /\ BellTypeOK
      => PagesTypeOK
  BY DEF PagesTypeOK
<1> QED
  BY <1>1, PartsSpecs, PanelsTyped, WatchTyped, DetailTyped, ListsTyped, DialogTyped, SiteTyped, SettingsTyped,
     GraphTyped, SignInTyped, BellTyped, PTL

(* Answers, notes and messages of a session's panels reach what they were  *)
(* written for, and the dialog starts an invocation with what its opening  *)
(* was for and with nothing that another was started with.                 *)
THEOREM EntriesReach == Spec => []EntriesReachTheirs
<1>1. EntriesMatch /\ StartsWhatIsShown => EntriesReachTheirs
  BY DEF EntriesReachTheirs
<1> QED
  BY <1>1, PartsSpecs, PanelsMatch, DialogStartsWhatIsShown, PTL

(* Both halves of what the run checks of the pages of records: a record's  *)
(* page shows what there is once it is at rest, and its list too.          *)
THEOREM RecordPagesFollow == Spec => []RecordsFollow
<1>1. RecordFollows /\ ListsFollow => RecordsFollow
  BY DEF RecordsFollow
<1> QED
  BY <1>1, PartsSpecs, DetailFollows, ListsShowWhatIs, PTL

(* And the rest of what the run checks: the pages that watch, the address  *)
(* of a project's page, the settings, the graph, the signing in and the    *)
(* bell, each as it is promised by its part alone.                         *)
THEOREM PagesShowWhatIs ==
  Spec => [](/\ UnfinishedIsWatched /\ AddressFollows /\ SettingsFollow
             /\ GraphFollows /\ SignInFollows /\ BellFollows)
BY PartsSpecs, UnfinishedWatched, AddressNames, SettingsShowWhatIs, GraphShowsChoices, SignInArrives, BellCounts, PTL
=============================================================================
