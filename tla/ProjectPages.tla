---------------------------- MODULE ProjectPages ----------------------------
(***************************************************************************)
(* The page of a project (project-workspace.ts, project-overview.ts): its  *)
(* tabs, the record that each tab has open, the address that it writes     *)
(* into the browser and what the router (router.ts) makes of that address  *)
(* when the page is loaded again.                                          *)
(***************************************************************************)
EXTENDS Naturals, FiniteSets

CONSTANTS
  Item,        \* the records that can be opened, of any kind
  NoItem,
  MaxSteps,    \* bound on what the user does
  MaxErrors    \* bound on requests that fail

ASSUME ItemAssumption == NoItem \notin Item /\ MaxSteps \in Nat /\ MaxErrors \in Nat

VARIABLES
  site,        \* "project", "session" (left for one), "blank" (no route), or "none"
  tab,         \* the tab that is shown
  open,        \* by tab, the record that is open in it
  address,     \* what the browser shows
  fetches,     \* the page's loads under way
  spinner, known,
  dialogUp, creating, joining, \* the overview's dialog, and its requests
  steps, errors

siteVars == <<site, tab, open, address, fetches, spinner, known, dialogUp, creating, joining, steps, errors>>

Tab == {"overview", "tasks", "requirements", "requests", "plans", "agents", "invocations",
        "workspaces", "graph", "automations", "metrics", "settings"}
RecordTab == {"tasks", "requirements", "requests", "plans", "agents", "invocations", "workspaces"}

Address == [tab : Tab, item : Item \cup {NoItem}]

SiteTypeOK ==
  /\ site \in {"project", "session", "blank", "none"} /\ tab \in Tab
  /\ open \in [RecordTab -> Item \cup {NoItem}] /\ address \in Address
  /\ fetches \in 0 .. 2 /\ spinner \in BOOLEAN /\ known \in BOOLEAN
  /\ dialogUp \in BOOLEAN /\ creating \in 0 .. MaxSteps /\ joining \in 0 .. MaxSteps
  /\ steps \in 0 .. MaxSteps /\ errors \in 0 .. MaxErrors

At(t)       == [tab |-> t, item |-> NoItem]
AtItem(t, i) == [tab |-> t, item |-> i]

-----------------------------------------------------------------------------
(* The router: which addresses have a route.  An organisation's slug is    *)
(* put in front of those that come without.                                *)
TabRoute     == {At(t) : t \in Tab}
RecordRoutes == {AtItem(t, i) : t \in {"tasks", "plans", "agents", "workspaces"}, i \in Item}
Routed == TabRoute \cup RecordRoutes

(* connectedCallback: the tabs that it takes from the address, and the     *)
(* records.  The route of a task has neither: the board takes it up, if it *)
(* is shown.                                                               *)
ValidTab == {"overview", "graph", "settings", "tasks", "requirements", "requests", "plans", "agents",
             "workspaces", "automations", "metrics"}
RecordParam == {"plans", "requirements", "requests", "agents", "workspaces"}

TabOf(a) ==
  IF a.item = NoItem THEN IF a.tab \in ValidTab THEN a.tab ELSE "overview"
  ELSE IF a.tab \in RecordParam THEN a.tab ELSE "overview"

OpenOf(a) ==
  [t \in RecordTab |-> IF t = a.tab /\ a.item # NoItem /\ t \in RecordParam THEN a.item ELSE NoItem]

Arrive(a) ==
  /\ address' = a
  /\ IF a \in Routed
     THEN /\ site' = "project" /\ tab' = TabOf(a) /\ open' = OpenOf(a)
          /\ fetches' = 2 /\ spinner' = TRUE /\ known' = FALSE
     ELSE /\ site' = "blank" /\ tab' = "overview" /\ open' = [t \in RecordTab |-> NoItem]
          /\ fetches' = 0 /\ spinner' = FALSE /\ known' = FALSE
  /\ dialogUp' = FALSE

(* A link leads to any address that has a route.                           *)
SiteInit ==
  /\ site \in {"project", "none"}
  /\ address \in IF site = "none" THEN {At("overview")} ELSE Routed
  /\ tab = TabOf(address) /\ open = OpenOf(address)
  /\ fetches = (IF site = "project" THEN 2 ELSE 0) /\ spinner = TRUE /\ known = FALSE
  /\ dialogUp = FALSE /\ creating = 0 /\ joining = 0 /\ steps = 0 /\ errors = 0

-----------------------------------------------------------------------------
(* Loading: four requests at once, answered together.                      *)
ProjectLoaded ==
  /\ site = "project" /\ fetches > 0 /\ fetches' = fetches - 1 /\ spinner' = FALSE /\ known' = TRUE
  /\ UNCHANGED <<site, tab, open, address, dialogUp, creating, joining, steps, errors>>

ProjectLoadFails ==
  /\ site = "project" /\ fetches > 0 /\ fetches' = fetches - 1 /\ errors < MaxErrors /\ errors' = errors + 1
  /\ spinner' = FALSE
  /\ UNCHANGED <<site, tab, open, address, known, dialogUp, creating, joining, steps>>

(* render shows the tabs of a project that is there.                       *)
Shown == site = "project" /\ ~spinner /\ known

Step == Shown /\ steps < MaxSteps /\ steps' = steps + 1
        /\ UNCHANGED <<site, fetches, spinner, known, joining, errors>>
Stay == UNCHANGED <<dialogUp, creating>>

(* The navigation shows every tab, and the header the way out.             *)
TabNav == Tab

(* switchTab: the address becomes the tab's, and the records stay open.    *)
(* The board is another element every time it is shown.                    *)
SwitchTab(t) ==
  /\ Step /\ Stay /\ t \in TabNav /\ tab' = t /\ address' = At(t)
  /\ open' = IF t = tab THEN open ELSE [open EXCEPT !["tasks"] = NoItem]

OpenIn(t, i, a) ==
  /\ Step /\ Stay /\ tab = t /\ open[t] = NoItem /\ open' = [open EXCEPT ![t] = i] /\ address' = a
  /\ UNCHANGED tab

CloseIn(t, a) ==
  /\ Step /\ Stay /\ tab = t /\ open[t] # NoItem /\ open' = [open EXCEPT ![t] = NoItem] /\ address' = a
  /\ UNCHANGED tab

(* Most tabs write the record into the address and the tab when it is      *)
(* closed; the tabs of plans and invocations write nothing.                *)
OpenRequirement(i) == OpenIn("requirements", i, AtItem("requirements", i))
OpenRequest(i)     == OpenIn("requests", i, AtItem("requests", i))
OpenPlan(i)        == OpenIn("plans", i, address)
OpenAgent(i)       == OpenIn("agents", i, AtItem("agents", i))
OpenInvocation(i)  == OpenIn("invocations", i, address)
OpenWorkspace(i)   == OpenIn("workspaces", i, AtItem("workspaces", i))
OpenTask(i)        == OpenIn("tasks", i, AtItem("tasks", i))

CloseRequirement == CloseIn("requirements", At("requirements"))
CloseRequest     == CloseIn("requests", At("requests"))
ClosePlan        == CloseIn("plans", address)
CloseAgent       == CloseIn("agents", At("agents"))
CloseInvocation  == CloseIn("invocations", address)

(* Mutant: the address keeps the workspace that was closed.                *)
CloseWorkspaceOnly == CloseIn("workspaces", address)
CloseWorkspace   == CloseIn("workspaces", At("workspaces"))
CloseTask        == CloseIn("tasks", At("tasks"))

(* A workspace is opened from the overview, an invocation by the dialog.   *)
OverviewOpensWorkspace(i) ==
  /\ Step /\ Stay /\ tab = "overview" /\ tab' = "workspaces"
  /\ open' = [open EXCEPT !["workspaces"] = i] /\ address' = AtItem("workspaces", i)

InvocationMade(i) ==
  /\ Step /\ Stay /\ tab' = "invocations" /\ address' = At("invocations")
  /\ open' = [open EXCEPT !["invocations"] = i, !["tasks"] = NoItem]

(* The user loads the page again, or follows a link to what it shows.      *)
Reload ==
  /\ site = "project" /\ steps < MaxSteps /\ steps' = steps + 1 /\ Arrive(address)
  /\ creating' = 0 /\ joining' = 0 /\ UNCHANGED errors

-----------------------------------------------------------------------------
(* The overview: sessions are created and joined from it.                  *)
NewSession == Step /\ tab = "overview" /\ ~dialogUp /\ dialogUp' = TRUE /\ UNCHANGED <<tab, open, address, creating>>

(* The button waits for the answer, the Enter key does not.                *)
CreateSession ==
  /\ Step /\ tab = "overview" /\ dialogUp /\ creating' = creating + 1 /\ UNCHANGED <<tab, open, address, dialogUp>>

SessionCards == Shown /\ tab = "overview" /\ steps < MaxSteps

JoinSession ==
  /\ SessionCards /\ steps' = steps + 1 /\ joining' = joining + 1
  /\ UNCHANGED <<site, tab, open, address, fetches, spinner, known, dialogUp, creating, errors>>

(* The answer leads to the session, from wherever the user is by then.     *)
SessionOpened ==
  /\ \/ creating > 0 /\ creating' = creating - 1 /\ UNCHANGED joining
     \/ joining > 0 /\ joining' = joining - 1 /\ UNCHANGED creating
  /\ site' = "session" /\ fetches' = 0 /\ spinner' = FALSE /\ known' = FALSE /\ dialogUp' = FALSE
  /\ tab' = "overview" /\ open' = [t \in RecordTab |-> NoItem] /\ address' = At("overview")
  /\ UNCHANGED <<steps, errors>>

SessionRefused ==
  /\ errors < MaxErrors /\ errors' = errors + 1
  /\ \/ creating > 0 /\ creating' = creating - 1 /\ UNCHANGED joining
     \/ joining > 0 /\ joining' = joining - 1 /\ UNCHANGED creating
  /\ UNCHANGED <<site, tab, open, address, fetches, spinner, known, dialogUp, steps>>

ComeBack ==
  /\ site = "session" /\ steps < MaxSteps /\ steps' = steps + 1 /\ Arrive(At("overview"))
  /\ UNCHANGED <<creating, joining, errors>>

SiteNext ==
  \/ ProjectLoaded \/ ProjectLoadFails \/ Reload
  \/ CloseRequirement \/ CloseRequest \/ ClosePlan \/ CloseAgent \/ CloseInvocation \/ CloseWorkspace \/ CloseTask
  \/ NewSession \/ CreateSession \/ JoinSession \/ SessionOpened \/ SessionRefused \/ ComeBack
  \/ \E t \in Tab : SwitchTab(t)
  \/ \E i \in Item : \/ OpenRequirement(i) \/ OpenRequest(i) \/ OpenPlan(i) \/ OpenAgent(i) \/ OpenInvocation(i)
                     \/ OpenWorkspace(i) \/ OpenTask(i) \/ OverviewOpensWorkspace(i) \/ InvocationMade(i)

SiteSpec == SiteInit /\ [][SiteNext]_siteVars

-----------------------------------------------------------------------------
(* The address never names a record other than the one that is shown,      *)
(* however the user moves between tabs, records and the overview.  The     *)
(* exceptions are a task, which only a board that is shown opens again,    *)
(* and plans, whose list leaves the address as it was.                     *)
AddressNamesShown ==
  Shown /\ address.item # NoItem =>
    \/ tab = address.tab /\ open[tab] = address.item
    \/ address.tab = "tasks" /\ tab # "tasks"
    \/ address.tab = "plans" /\ tab = "plans"

(* Loading the address again shows the tab the user was on.  The           *)
(* exceptions are the tab of invocations, and the addresses of records     *)
(* that have no route of their own or no parameter that is looked at.      *)
ReloadKeepsTab ==
  Shown /\ address \in Routed /\ tab # "invocations" /\ (address.item # NoItem => address.tab # "tasks") =>
    TabOf(address) = tab

(* The address and the page agree, both ways.                              *)
AddressFollows == AddressNamesShown /\ ReloadKeepsTab
=============================================================================
