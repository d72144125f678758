---------------------------- MODULE WatchPages ----------------------------
(***************************************************************************)
(* The pages that watch something the server is doing: an invocation       *)
(* (invocation-detail.ts), the workspaces of a project (workspace-list.ts) *)
(* and one workspace (workspace-detail.ts).  The page of an agent          *)
(* (agent-detail.ts) and the workspaces on a project's overview            *)
(* (project-overview.ts) are loaded and watch nothing.  An invocation is   *)
(* asked for every two seconds while it runs; a workspace page loads       *)
(* again, ten or five seconds later, while a status it shows is transient. *)
(***************************************************************************)
EXTENDS Naturals, FiniteSets

CONSTANTS
  Thing,        \* what is watched: invocation, workspaces or agent
  Unknown,      \* no status, no request
  MaxOrders,    \* bound on stops and destructions
  MaxLapses     \* bound on requests that fail

AskId == 1 .. 2
InvocationStatus == {"pending", "running", "completed", "failed", "cancelled"}
WorkspaceStatus  == {"pending", "creating", "running", "stopping", "stopped", "failed", "destroyed"}
Pages == {"invocation", "workspaces", "workspace", "agent", "overview"}
StatusAnswers == [Thing -> InvocationStatus \cup WorkspaceStatus]
StatusAsks == [poll : BOOLEAN, got : StatusAnswers \cup {Unknown}]

ASSUME WatchAssumption ==
  /\ Unknown \notin InvocationStatus \cup WorkspaceStatus \cup StatusAnswers \cup StatusAsks
  /\ MaxOrders \in Nat /\ MaxLapses \in Nat

VARIABLES
  watch,        \* "invocation", "workspaces", "workspace", "agent", "overview" or "none"
  status,       \* the status of each thing at the server
  screen,       \* what the page shows of it
  up, loading,
  ticking,      \* the interval or the timeout is set
  asks,         \* requests for the status, by a number
  orders,       \* the stop or destruction of a thing that is under way
  halted,       \* stopped from this page: it says so and asks no more
  lapsed,       \* the last load failed
  old,         \* an answer older than the one shown came last
  count, lapses

watchVars == <<watch, status, screen, up, loading, ticking, asks, orders, halted, lapsed, old, count, lapses>>

WatchTypeOK ==
  /\ watch \in Pages \cup {"none"} /\ up \in BOOLEAN /\ loading \in BOOLEAN /\ ticking \in BOOLEAN
  /\ status \in [Thing -> IF watch = "invocation" THEN InvocationStatus ELSE WorkspaceStatus]
  /\ screen \in [Thing -> InvocationStatus \cup WorkspaceStatus \cup {Unknown}]
  /\ asks \in [AskId -> StatusAsks \cup {Unknown}]
  /\ orders \in [Thing -> {"none", "stop", "stopping", "stopped", "destroy", "destroyed", "refused"}]
  /\ halted \in SUBSET Thing /\ lapsed \in BOOLEAN /\ old \in BOOLEAN
  /\ count \in 0 .. MaxOrders /\ lapses \in 0 .. MaxLapses

StatusAsk(poll) == [poll |-> poll, got |-> Unknown]

(* The page opens; all but the invocation's load a second time at once.    *)
WatchInit ==
  /\ watch \in Pages \cup {"none"} /\ status = [x \in Thing |-> "pending"]
  /\ screen = [x \in Thing |-> Unknown] /\ up = TRUE /\ loading = TRUE /\ ticking = FALSE
  /\ asks = [i \in AskId |-> IF watch = "none" \/ (watch = "invocation" /\ i # 1) THEN Unknown ELSE StatusAsk(FALSE)]
  /\ orders = [x \in Thing |-> "none"] /\ halted = {} /\ lapsed = FALSE /\ old = FALSE
  /\ count = 0 /\ lapses = 0

-----------------------------------------------------------------------------
(* The server.                                                             *)
InvocationStep == [pending |-> {"running", "failed"}, running |-> {"completed", "failed", "cancelled"},
                   completed |-> {}, failed |-> {}, cancelled |-> {}]

WorkspaceStep == [pending |-> {"creating", "failed"}, creating |-> {"running", "failed"}, running |-> {},
                  stopping |-> {}, stopped |-> {}, failed |-> {}, destroyed |-> {}]

Advance(x) ==
  /\ watch # "none"
  /\ \E s \in (IF watch = "invocation" THEN InvocationStep ELSE WorkspaceStep)[status[x]] :
       status' = [status EXCEPT ![x] = s]
  /\ UNCHANGED <<watch, screen, up, loading, ticking, asks, orders, halted, lapsed, old, count, lapses>>

(* stop_workspace marks the row, calls Coder, and answers with the row     *)
(* stopped.  destroy_workspace answers when the row is destroyed.          *)
ServerStops(x) ==
  /\ \/ orders[x] = "stop" /\ status[x] = "running"
        /\ status' = [status EXCEPT ![x] = "stopping"] /\ orders' = [orders EXCEPT ![x] = "stopping"]
     \/ orders[x] = "stop" /\ status[x] # "running"
        /\ UNCHANGED status /\ orders' = [orders EXCEPT ![x] = "refused"]
     \/ orders[x] = "stopping"
        /\ \/ status' = [status EXCEPT ![x] = "stopped"] /\ orders' = [orders EXCEPT ![x] = "stopped"]
           \/ status' = [status EXCEPT ![x] = "failed"] /\ orders' = [orders EXCEPT ![x] = "refused"]
  /\ UNCHANGED <<watch, screen, up, loading, ticking, asks, halted, lapsed, old, count, lapses>>

ServerDestroys(x) ==
  /\ orders[x] = "destroy" /\ status' = [status EXCEPT ![x] = "destroyed"]
  /\ orders' = [orders EXCEPT ![x] = "destroyed"]
  /\ UNCHANGED <<watch, screen, up, loading, ticking, asks, halted, lapsed, old, count, lapses>>

-----------------------------------------------------------------------------
(* What the pages offer for what they show.                                *)
Destroyable == {"pending", "creating", "failed", "stopped"}

WorkspaceListOffers(x) ==
  IF loading \/ lapsed THEN {}
  ELSE (IF screen[x] = "running" THEN {"stop"} ELSE {}) \cup (IF screen[x] \in Destroyable THEN {"destroy"} ELSE {})

WorkspaceDetailOffers(x) ==
  IF loading \/ lapsed THEN {}
  ELSE (IF screen[x] = "running" THEN {"stop"} ELSE {}) \cup (IF screen[x] \in Destroyable THEN {"destroy"} ELSE {})

(* The overview shows one button of the two.                               *)
OverviewOffers(x) ==
  IF loading \/ lapsed THEN {}
  ELSE IF screen[x] = "running" THEN {"stop"} ELSE IF screen[x] \in Destroyable THEN {"destroy"} ELSE {}

Offered(x) ==
  IF ~up THEN {} ELSE CASE watch = "workspaces" -> WorkspaceListOffers(x)
                        [] watch = "workspace" -> WorkspaceDetailOffers(x)
                        [] watch = "overview" -> OverviewOffers(x) [] OTHER -> {}

Order(x, o) ==
  /\ count < MaxOrders /\ count' = count + 1 /\ orders[x] = "none" /\ orders' = [orders EXCEPT ![x] = o]
  /\ UNCHANGED <<watch, status, screen, up, loading, ticking, asks, halted, lapsed, old, lapses>>

StopWorkspace(x)    == "stop" \in Offered(x) /\ Order(x, "stop")
DestroyWorkspace(x) == "destroy" \in Offered(x) /\ Order(x, "destroy")

(* Mutant: the page makes up a status.                                     *)
StopAnsweredHalting(x) ==
  /\ orders[x] \in {"stopped", "refused"} /\ orders' = [orders EXCEPT ![x] = "none"]
  /\ IF orders[x] = "stopped" /\ screen[x] # Unknown
     THEN screen' = [screen EXCEPT ![x] = "halting"] /\ halted' = halted \cup {x}
     ELSE UNCHANGED <<screen, halted>>
  /\ UNCHANGED <<watch, status, up, loading, ticking, asks, lapsed, old, count, lapses>>

(* The page writes "stopping", whatever the server answered.               *)
StopAnswered(x) ==
  /\ orders[x] \in {"stopped", "refused"} /\ orders' = [orders EXCEPT ![x] = "none"]
  /\ IF orders[x] = "stopped" /\ screen[x] # Unknown
     THEN screen' = [screen EXCEPT ![x] = "stopping"] /\ halted' = halted \cup {x}
     ELSE UNCHANGED <<screen, halted>>
  /\ UNCHANGED <<watch, status, up, loading, ticking, asks, lapsed, old, count, lapses>>

(* The list drops the row; the page of the workspace goes back to the list.*)
DestroyAnswered(x) ==
  /\ orders[x] = "destroyed" /\ orders' = [orders EXCEPT ![x] = "none"]
  /\ IF watch = "workspace" THEN up' = FALSE /\ ticking' = FALSE /\ UNCHANGED screen
     ELSE screen' = [screen EXCEPT ![x] = Unknown] /\ UNCHANGED <<up, ticking>>
  /\ UNCHANGED <<watch, status, loading, asks, halted, lapsed, old, count, lapses>>

-----------------------------------------------------------------------------
(* The page.                                                               *)

(* disconnectedCallback.  What was asked for still comes.                  *)
LeavePage ==
  /\ watch # "none" /\ up /\ up' = FALSE /\ ticking' = FALSE
  /\ UNCHANGED <<watch, status, screen, loading, asks, orders, halted, lapsed, old, count, lapses>>

Final(s) == s \notin {"pending", "running", Unknown}
Transient == {"pending", "creating", "stopping"}

StatusRead(i) ==
  /\ asks[i] # Unknown /\ asks[i].got = Unknown /\ asks' = [asks EXCEPT ![i].got = status]
  /\ UNCHANGED <<watch, status, screen, up, loading, ticking, orders, halted, lapsed, old, count, lapses>>

Answer(i) == asks[i] # Unknown /\ asks[i].got # Unknown /\ asks' = [asks EXCEPT ![i] = Unknown]

(* The interval of the invocation asks whether or not it was answered.     *)
PollInvocation ==
  /\ watch = "invocation" /\ ticking
  /\ \E i \in AskId : asks[i] = Unknown /\ asks' = [asks EXCEPT ![i] = StatusAsk(TRUE)]
  /\ UNCHANGED <<watch, status, screen, up, loading, ticking, orders, halted, lapsed, old, count, lapses>>

InvocationLoaded(i) ==
  /\ watch = "invocation" /\ Answer(i) /\ ~asks[i].poll /\ screen' = asks[i].got
  /\ loading' = FALSE /\ lapsed' = FALSE /\ ticking' = (ticking \/ \E x \in Thing : ~Final(screen'[x]))
  /\ old' = FALSE
  /\ UNCHANGED <<watch, status, up, orders, halted, count, lapses>>

(* A final status ends the interval.                                       *)
InvocationPolled(i) ==
  /\ watch = "invocation" /\ Answer(i) /\ asks[i].poll /\ screen' = asks[i].got
  /\ ticking' = (ticking /\ ~ \A x \in Thing : Final(screen'[x]))
  /\ old' = (\E x \in Thing : Final(screen[x]) /\ ~Final(screen'[x]))
  /\ UNCHANGED <<watch, status, up, loading, orders, halted, lapsed, count, lapses>>

(* Mutant: only what is being made is waited for.                          *)
ListRefreshNarrow(v) == \E x \in Thing : v[x] \in {"pending", "stopping"}

ListRefresh(v)   == \E x \in Thing : v[x] \in Transient
DetailRefresh(v) == \E x \in Thing : v[x] \in Transient

(* _scheduleRefreshIfNeeded: what is shown decides, on the page or off it. *)
WorkspaceLoaded(i) ==
  /\ watch \in {"workspaces", "workspace"} /\ Answer(i) /\ screen' = asks[i].got
  /\ loading' = FALSE /\ lapsed' = FALSE /\ halted' = {}
  /\ ticking' = IF watch = "workspaces" THEN ListRefresh(screen') ELSE DetailRefresh(screen')
  /\ UNCHANGED <<watch, status, up, orders, old, count, lapses>>

RefreshWorkspaces ==
  /\ watch \in {"workspaces", "workspace"} /\ ticking /\ ticking' = FALSE /\ loading' = TRUE /\ lapsed' = FALSE
  /\ \E i \in AskId : asks[i] = Unknown /\ asks' = [asks EXCEPT ![i] = StatusAsk(FALSE)]
  /\ UNCHANGED <<watch, status, screen, up, orders, halted, old, count, lapses>>

PlainLoaded(i) ==
  /\ watch \in {"agent", "overview"} /\ Answer(i) /\ screen' = asks[i].got /\ loading' = FALSE
  /\ UNCHANGED <<watch, status, up, ticking, orders, halted, lapsed, old, count, lapses>>

(* A load that fails ends the spinner; a poll that fails is ignored.       *)
StatusFails(i) ==
  /\ asks[i] # Unknown /\ lapses < MaxLapses /\ lapses' = lapses + 1
  /\ asks' = [asks EXCEPT ![i] = Unknown]
  /\ loading' = (loading /\ asks[i].poll) /\ lapsed' = (lapsed \/ ~asks[i].poll)
  /\ UNCHANGED <<watch, status, screen, up, ticking, orders, halted, old, count>>

WatchNext ==
  \/ LeavePage \/ PollInvocation \/ RefreshWorkspaces
  \/ \E x \in Thing : \/ Advance(x) \/ ServerStops(x) \/ ServerDestroys(x) \/ StopWorkspace(x)
                      \/ DestroyWorkspace(x) \/ StopAnswered(x) \/ DestroyAnswered(x)
  \/ \E i \in AskId : \/ StatusRead(i) \/ InvocationLoaded(i) \/ InvocationPolled(i)
                      \/ WorkspaceLoaded(i) \/ PlainLoaded(i) \/ StatusFails(i)

WatchSpec == WatchInit /\ [][WatchNext]_watchVars

-----------------------------------------------------------------------------
(* A page that shows something unfinished will ask again, unless the user  *)
(* stopped it from here, the load failed, or an old answer came last.      *)
UnfinishedIsWatched ==
  /\ watch \in {"workspaces", "workspace"} /\ up /\ (\A i \in AskId : asks[i] = Unknown) /\ ~lapsed =>
       ticking \/ \A x \in Thing : screen[x] \in Transient => x \in halted
  /\ watch = "invocation" /\ up /\ (\A i \in AskId : asks[i] = Unknown)
     /\ (\E x \in Thing : screen[x] # Unknown /\ ~Final(screen[x])) =>
       ticking \/ old
=============================================================================
