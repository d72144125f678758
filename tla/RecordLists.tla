---------------------------- MODULE RecordLists ----------------------------
(***************************************************************************)
(* The lists of a project's records and of the projects: plan-list.ts,     *)
(* request-list.ts, requirement-list.ts, project-list.ts,                  *)
(* org-dashboard.ts, invocation-list.ts, agent-list.ts.  All but the last  *)
(* two create records, the requests have the switch of automatic analysis, *)
(* and the agents a button that shows the disconnected ones too.           *)
(*                                                                         *)
(* A list is the number of records made from each draft, a draft being     *)
(* what the user enters into the dialog once.                              *)
(***************************************************************************)
EXTENDS Naturals, FiniteSets

CONSTANTS
  Draft,
  NoThing,       \* no draft, request or reaction
  MaxClicks,     \* bound on what the user does
  MaxMisses      \* bound on requests that fail or whose answer is lost

VARIABLES
  list,          \* the list that is looked at, or "none"
  stored,        \* records at the server, by the draft they came from
  reactions,     \* the project's reactions that analyse new requests
  page,          \* the element on the page
  loads,         \* its requests for the list
  making,        \* requests to create, of this element or of one that is gone
  switching,     \* requests of the switch, of this element or of one that is gone
  behind,        \* the last list was out of date when it came, or a record was made since
  misled,        \* an answer hid a reaction that exists, or was lost
  unheard,       \* the answer to a creation was lost
  clicks, misses

listVars == <<list, stored, reactions, page, loads, making, switching, behind, misled, unheard, clicks, misses>>

Lists    == {"plans", "requests", "requirements", "projects", "dashboard", "invocations", "agents"}
LoadId   == 1 .. 3
Reaction == [id : Nat \ {0}, on : BOOLEAN]
Count    == [Draft -> Nat]

Load(sort) == [sort |-> sort, read |-> FALSE, rows |-> NoThing, auto |-> NoThing]

ListLoad == [sort : BOOLEAN, read : BOOLEAN, rows : Count \cup {NoThing}, auto : Reaction \cup {NoThing}]
Makings  == [draft : Draft, nth : 1 .. MaxClicks, mine : BOOLEAN, stored : BOOLEAN]
Switches == [nth : 1 .. MaxClicks, id : Nat, on : BOOLEAN, mine : BOOLEAN, done : BOOLEAN]

ASSUME ListsAssumption ==
  /\ NoThing \notin Draft \cup Reaction \cup ListLoad \cup Count
  /\ MaxClicks \in Nat /\ MaxMisses \in Nat

ListsTypeOK ==
  /\ list \in Lists \cup {"none"} /\ stored \in Count /\ reactions \subseteq Reaction
  /\ page \in [up : BOOLEAN, loading : BOOLEAN, failed : BOOLEAN, rows : Count, sort : BOOLEAN, all : BOOLEAN,
               draft : Draft \cup {NoThing}, busy : BOOLEAN, auto : Reaction \cup {NoThing}, used : SUBSET Draft]
  /\ loads \in [LoadId -> ListLoad \cup {NoThing}]
  /\ making \subseteq Makings /\ switching \subseteq Switches
  /\ behind \in BOOLEAN /\ misled \in BOOLEAN /\ unheard \in BOOLEAN
  /\ clicks \in 0 .. MaxClicks /\ misses \in 0 .. MaxMisses

(* connectedCallback loads, and where it is there the first updated too.   *)
PlanListLoads        == {1, 2}
RequestListLoads     == {1, 2}
RequirementListLoads == {1, 2}
AgentListLoads       == {1, 2}
ProjectListLoads     == {1}
DashboardLoads       == {1}
InvocationListLoads  == {1}

MountLoads(k) ==
  CASE k = "plans" -> PlanListLoads [] k = "requests" -> RequestListLoads
    [] k = "requirements" -> RequirementListLoads [] k = "agents" -> AgentListLoads
    [] k = "projects" -> ProjectListLoads [] k = "dashboard" -> DashboardLoads
    [] k = "invocations" -> InvocationListLoads
    [] OTHER -> {}

Fresh(used) ==
  [up |-> TRUE, loading |-> TRUE, failed |-> FALSE, rows |-> [d \in Draft |-> 0], sort |-> FALSE, all |-> FALSE,
   draft |-> NoThing, busy |-> FALSE, auto |-> NoThing, used |-> used]

ListsInit ==
  /\ list \in Lists \cup {"none"} /\ stored = [d \in Draft |-> 0]
  /\ reactions \in (IF list = "requests" THEN {{}, {[id |-> 1, on |-> TRUE]}} ELSE {{}}) /\ page = Fresh({})
  /\ loads = [i \in LoadId |-> IF i \in MountLoads(list) THEN Load(FALSE) ELSE NoThing]
  /\ making = {} /\ switching = {} /\ behind = FALSE /\ misled = FALSE /\ unheard = FALSE
  /\ clicks = 0 /\ misses = 0

-----------------------------------------------------------------------------
(* What render offers.  Where the dialog listens to the Enter key, it      *)
(* creates even while a creation is under way.                             *)
PlanListOffers ==
  IF page.loading THEN {}
  ELSE {"new", "select"} \cup (IF page.draft # NoThing THEN {"create"} ELSE {})

RequestListOffers ==
  IF page.loading THEN {}
  ELSE {"new", "select"} \cup (IF page.draft # NoThing /\ ~page.busy THEN {"create"} ELSE {})
       \cup (IF \E s \in switching : s.mine THEN {} ELSE {"auto"})

RequirementListOffers ==
  IF page.loading THEN {}
  ELSE {"new", "select"} \cup (IF page.draft # NoThing THEN {"create"} ELSE {})

ProjectListOffers ==
  (IF page.loading THEN {} ELSE {"new", "select"}) \cup (IF page.draft # NoThing THEN {"create"} ELSE {})

DashboardOffers ==
  IF page.loading THEN {}
  ELSE {"new", "select"} \cup (IF page.draft # NoThing /\ ~page.failed THEN {"create"} ELSE {})

InvocationListOffers == IF page.loading THEN {} ELSE {"select"}

AgentListOffers == IF page.loading \/ page.failed THEN {} ELSE {"select", "all"}

Offers ==
  IF ~page.up THEN {}
  ELSE CASE list = "plans" -> PlanListOffers [] list = "requests" -> RequestListOffers
         [] list = "requirements" -> RequirementListOffers [] list = "projects" -> ProjectListOffers
         [] list = "dashboard" -> DashboardOffers
         [] list = "invocations" -> InvocationListOffers [] list = "agents" -> AgentListOffers
         [] OTHER -> {}

Click(c) ==
  c \in Offers /\ clicks < MaxClicks /\ clicks' = clicks + 1 /\ UNCHANGED <<list, stored, reactions, unheard, misses>>

(* The element leaves the page: what it asked for still happens.           *)
Gone ==
  /\ page' = [page EXCEPT !.up = FALSE] /\ loads' = [i \in LoadId |-> NoThing]
  /\ making' = {[m EXCEPT !.mine = FALSE] : m \in {o \in making : ~o.stored}}
  /\ switching' = {[s EXCEPT !.mine = FALSE] : s \in {o \in switching : ~o.done}}

SelectRow == Click("select") /\ Gone /\ UNCHANGED <<behind, misled>>

(* The user comes back to the list.                                        *)
OpenList ==
  /\ list # "none" /\ ~page.up /\ page' = Fresh(page.used) /\ behind' = FALSE
  /\ loads' = [i \in LoadId |-> IF i \in MountLoads(list) THEN Load(FALSE) ELSE NoThing]
  /\ UNCHANGED <<list, stored, reactions, making, switching, misled, unheard, clicks, misses>>

(* The dialog is opened and filled in.                                     *)
NewRecord ==
  /\ Click("new") /\ page.draft = NoThing
  /\ \E d \in Draft \ page.used : page' = [page EXCEPT !.draft = d, !.used = @ \cup {d}]
  /\ UNCHANGED <<loads, making, switching, behind, misled>>

Making(d) == [draft |-> d, nth |-> clicks + 1, mine |-> TRUE, stored |-> FALSE]

Create ==
  /\ Click("create") /\ page' = [page EXCEPT !.busy = TRUE]
  /\ making' = making \cup {Making(page.draft)}
  /\ UNCHANGED <<loads, switching, behind, misled>>

(* The server stores the record.                                           *)
RecordStored(m) ==
  /\ ~m.stored /\ stored' = [stored EXCEPT ![m.draft] = @ + 1]
  /\ making' = (making \ {m}) \cup (IF m.mine THEN {[m EXCEPT !.stored = TRUE]} ELSE {})
  /\ behind' = (behind \/ ~m.mine)
  /\ UNCHANGED <<list, reactions, page, loads, switching, misled, unheard, clicks, misses>>

(* The answer opens the new record in place of the list.                   *)
Created(m) ==
  /\ m.stored /\ m.mine /\ Gone
  /\ UNCHANGED <<list, stored, reactions, behind, misled, unheard, clicks, misses>>

Miss == misses < MaxMisses /\ misses' = misses + 1 /\ UNCHANGED <<list, stored, reactions, clicks>>

(* The request or its answer is lost: the dialog stays, and the user may   *)
(* try again.                                                              *)
CreateFails(m) ==
  /\ Miss /\ m.mine /\ making' = making \ {m} /\ page' = [page EXCEPT !.busy = FALSE]
  /\ unheard' = (unheard \/ m.stored) /\ behind' = (behind \/ m.stored)
  /\ UNCHANGED <<loads, switching, misled>>

-----------------------------------------------------------------------------
(* The switch of request-list.ts.                                          *)

(* A known reaction is turned over, an unknown one created.                *)
Switching(id, on) == [nth |-> clicks + 1, id |-> id, on |-> on, mine |-> TRUE, done |-> FALSE]

ToggleAutoAnalysis ==
  /\ Click("auto")
  /\ switching' = switching \cup
       {IF page.auto = NoThing THEN Switching(0, TRUE) ELSE Switching(page.auto.id, ~page.auto.on)}
  /\ UNCHANGED <<page, loads, making, behind, misled>>

(* Ids are in the order of creation, and nothing here removes a reaction.  *)
NewId == Cardinality(reactions) + 1

ReactionStored(s) ==
  /\ ~s.done
  /\ LET id == IF s.id = 0 THEN NewId ELSE s.id IN
     /\ reactions' = {r \in reactions : r.id # id} \cup {[id |-> id, on |-> s.on]}
     /\ switching' = (switching \ {s}) \cup (IF s.mine THEN {[s EXCEPT !.done = TRUE, !.id = id]} ELSE {})
  /\ misled' = (misled \/ ~s.mine)
  /\ UNCHANGED <<list, stored, page, loads, making, behind, unheard, clicks, misses>>

Switched(s) ==
  /\ s.done /\ page' = [page EXCEPT !.auto = [id |-> s.id, on |-> s.on]] /\ switching' = switching \ {s}
  /\ UNCHANGED <<list, stored, reactions, loads, making, behind, misled, unheard, clicks, misses>>

SwitchFails(s) ==
  /\ Miss /\ s.mine /\ switching' = switching \ {s} /\ misled' = (misled \/ s.done)
  /\ UNCHANGED <<page, loads, making, behind, unheard>>

-----------------------------------------------------------------------------
(* The button of agent-list.ts, and the loads.                             *)

ToggleShowAll ==
  /\ Click("all")
  /\ page' = [page EXCEPT !.all = ~@, !.loading = TRUE]
  /\ \E i \in LoadId : loads[i] = NoThing /\ loads' = [loads EXCEPT ![i] = Load(~page.all)]
  /\ UNCHANGED <<making, switching, behind, misled>>

Newest == IF reactions = {} THEN {NoThing} ELSE {r \in reactions : \A o \in reactions : r.id >= o.id}

(* The server reads the list.  request-list.ts asks for the reactions too, *)
(* newest first, and takes a failure of that for their absence.            *)
ListRead(i) ==
  /\ loads[i] # NoThing /\ ~loads[i].read
  /\ \/ /\ UNCHANGED misses
        /\ \E a \in Newest :
             loads' = [loads EXCEPT ![i] = [@ EXCEPT !.read = TRUE, !.rows = stored, !.auto = a]]
     \/ /\ list = "requests" /\ misses < MaxMisses /\ misses' = misses + 1
        /\ loads' = [loads EXCEPT ![i] = [@ EXCEPT !.read = TRUE, !.rows = stored]]
  /\ UNCHANGED <<list, stored, reactions, page, making, switching, behind, misled, unheard, clicks>>

(* The page takes every answer, in whatever order they come, and the first *)
(* ends the spinner.                                                       *)
ListAnswered(i) ==
  /\ loads[i] # NoThing /\ loads[i].read
  /\ page' = [page EXCEPT !.loading = FALSE, !.rows = loads[i].rows, !.sort = loads[i].sort, !.auto = loads[i].auto]
  /\ loads' = [loads EXCEPT ![i] = NoThing]
  /\ behind' = (loads[i].rows # stored \/ loads[i].sort # page.all)
  /\ misled' = (misled \/ (loads[i].auto = NoThing /\ reactions # {}))
  /\ UNCHANGED <<list, stored, reactions, making, switching, unheard, clicks, misses>>

ListFails(i) ==
  /\ Miss /\ loads[i] # NoThing
  /\ page' = [page EXCEPT !.loading = FALSE, !.failed = TRUE] /\ loads' = [loads EXCEPT ![i] = NoThing]
  /\ behind' = TRUE /\ misled' = (misled \/ reactions # {})
  /\ UNCHANGED <<making, switching, unheard>>

ListsNext ==
  \/ SelectRow \/ OpenList \/ NewRecord \/ Create \/ ToggleAutoAnalysis \/ ToggleShowAll
  \/ \E s \in switching : ReactionStored(s) \/ Switched(s) \/ SwitchFails(s)
  \/ \E m \in making : RecordStored(m) \/ Created(m) \/ CreateFails(m)
  \/ \E i \in LoadId : ListRead(i) \/ ListAnswered(i) \/ ListFails(i)

ListsSpec == ListsInit /\ [][ListsNext]_listVars

-----------------------------------------------------------------------------
(* The dialog of the requests makes one request of what was entered once,  *)
(* however often the user clicks and tries again, unless an answer is lost.*)
OneRequestPerDraft == list = "requests" => \A d \in Draft : stored[d] <= 1 \/ unheard

(* One reaction analyses new requests, unless an answer hid the one that   *)
(* there was: two would analyse every request twice.                       *)
OneAutoAnalysis == Cardinality(reactions) <= 1 \/ misled

(* A list at rest is what was asked for last, unless its last answer was   *)
(* out of date already when it came.                                       *)
ListCurrent ==
  page.up /\ list # "none" /\ (\A i \in LoadId : loads[i] = NoThing) /\ making = {} /\ ~behind =>
    page.rows = stored /\ page.sort = page.all

(* Lists hold what there is, and nothing is made twice.                    *)
ListsFollow == OneRequestPerDraft /\ OneAutoAnalysis /\ ListCurrent
=============================================================================
