---------------------------- MODULE ProjectSocket ----------------------------
(***************************************************************************)
(* The shared WebSocket of a project's page (project-ws.ts) and the        *)
(* dashboards that reload on its notices (project-metrics.ts).             *)
(*                                                                         *)
(* The connection object of a project is created with its first listener   *)
(* and given up with its last.  A socket that was closed by then gives its *)
(* close event to the object that was given up, where it has no effect.    *)
(***************************************************************************)
EXTENDS Naturals, FiniteSets

CONSTANTS
  Project, Period,  \* projects, and periods a dashboard may show
  Viewer,           \* dashboards
  Line,             \* WebSockets, which also bounds how many there are
  NoLine,           \* no socket, no project, no answer
  MaxViews,         \* bound on what the users do
  MaxBreaks,        \* bound on broken sockets
  MaxRuns           \* bound on invocations that end

ASSUME ProjectAssumption ==
  /\ NoLine \notin Project \cup Line \cup Period
  /\ Project # {} /\ Period # {} /\ IsFiniteSet(Line) /\ MaxBreaks \in Nat

VARIABLES
  conn,       \* of a project: ws, and how many reconnect timers run
  lines,      \* of a socket: its state, its project and whether the server
              \* has its subscription
  view,       \* of a dashboard: project, period and spinner; the latest load
              \* and whether older ones are under way; what is shown, if that
              \* is the answer to the latest; and whether it heard of all runs
  views, breaks, runs

projectVars == <<conn, lines, view, views, breaks, runs>>

(* What was asked for, and whether the answer has all that happened.       *)
Request == [of : Project, period : Period, fresh : BOOLEAN]

Connection == [ws : Line \cup {NoLine}, timers : 0 .. MaxBreaks]
LineState == [state : {"unused", "connecting", "open", "closing"}, of : Project, subscribed : BOOLEAN]
Dashboard ==
  [of : Project \cup {NoLine}, period : Period, spinner : BOOLEAN, latest : Request \cup {NoLine},
   older : BOOLEAN, shown : Request \cup {NoLine}, told : BOOLEAN]

ProjectTypeOK ==
  /\ conn \in [Project -> Connection]
  /\ lines \in [Line -> LineState]
  /\ view \in [Viewer -> Dashboard]
  /\ {views, breaks, runs} \subseteq Nat

Away == [of |-> NoLine, period |-> CHOOSE p \in Period : TRUE, spinner |-> TRUE,
         shown |-> NoLine, latest |-> NoLine, older |-> FALSE, told |-> TRUE]

ProjectInit ==
  /\ conn = [p \in Project |-> [ws |-> NoLine, timers |-> 0]]
  /\ lines \in [Line -> {[state |-> "unused", of |-> CHOOSE p \in Project : TRUE, subscribed |-> FALSE]}]
  /\ view = [v \in Viewer |-> Away]
  /\ views = 0 /\ breaks = 0 /\ runs = 0

-----------------------------------------------------------------------------
(* project-ws.ts, on a state s of conn and lines.                          *)
Listeners(p) == {v \in Viewer : view[v].of = p}
Idle(s) == {l \in Line : s.lines[l].state = "unused"}

OpenLine(s, p) ==
  LET l == CHOOSE l \in Idle(s) : TRUE
  IN IF s.conn[p].ws # NoLine THEN s
     ELSE [s EXCEPT !.conn[p].ws = l,
                    !.lines[l] = [state |-> "connecting", of |-> p, subscribed |-> FALSE]]

(* Mutant: the connection is dropped and its socket is not closed.         *)
TeardownQuietly(s, p) == [s EXCEPT !.conn[p] = [ws |-> NoLine, timers |-> 0]]

(* A timer that a later one replaced is not cleared, but finds no listener.*)
Teardown(s, p) ==
  [s EXCEPT !.conn[p] = [ws |-> NoLine, timers |-> 0],
            !.lines = [l \in Line |-> IF l = s.conn[p].ws THEN [s.lines[l] EXCEPT !.state = "closing"]
                                      ELSE s.lines[l]]]

Unsubscribed(s, v) ==
  IF view[v].of # NoLine /\ Listeners(view[v].of) = {v} THEN Teardown(s, view[v].of) ELSE s

Becomes(s) == conn' = s.conn /\ lines' = s.lines
Current == [conn |-> conn, lines |-> lines]

-----------------------------------------------------------------------------
(* project-metrics.ts.                                                     *)
Asks(w) == [w EXCEPT !.spinner = TRUE, !.told = TRUE, !.shown = NoLine,
                     !.older = @ \/ w.latest # NoLine,
                     !.latest = [of |-> w.of, period |-> w.period, fresh |-> TRUE]]

Act == views < MaxViews /\ views' = views + 1 /\ UNCHANGED <<breaks, runs>>

(* connectedCallback subscribes; the first updated unsubscribes and        *)
(* subscribes again, through a second socket unless another one listens.   *)
MountMetrics(v, p) ==
  /\ Act /\ view[v].of = NoLine /\ (Listeners(p) # {} \/ Cardinality(Idle(Current)) >= 2)
  /\ Becomes(IF Listeners(p) = {} THEN OpenLine(Teardown(OpenLine(Current, p), p), p)
             ELSE IF Idle(Current) = {} THEN Current ELSE OpenLine(Current, p))
  /\ view' = [view EXCEPT ![v] = Asks([Away EXCEPT !.of = p])]

(* The property project-id changes.                                        *)
ShowProject(v, p) ==
  /\ Act /\ view[v].of \notin {NoLine, p} /\ Idle(Current) # {}
  /\ Becomes(OpenLine(Unsubscribed(Current, v), p))
  /\ view' = [view EXCEPT ![v] = Asks([@ EXCEPT !.of = p])]

UnmountMetrics(v) ==
  /\ Act /\ view[v].of # NoLine
  /\ Becomes(Unsubscribed(Current, v)) /\ view' = [view EXCEPT ![v] = Away]

OnPeriodChange(v, d) ==
  /\ Act /\ view[v].of # NoLine /\ view[v].period # d
  /\ view' = [view EXCEPT ![v] = Asks([@ EXCEPT !.period = d])]
  /\ UNCHANGED <<conn, lines>>

(* _load ends, with a summary or an error.  An older answer overwrites a   *)
(* later one.                                                              *)
LatestLoaded(v) ==
  /\ view[v].latest # NoLine
  /\ \E ok \in BOOLEAN :
       view' = [view EXCEPT ![v].latest = NoLine, ![v].spinner = FALSE,
                            ![v].shown = IF ok THEN view[v].latest ELSE @]
  /\ UNCHANGED <<conn, lines, views, breaks, runs>>

OlderLoaded(v) ==
  /\ view[v].older
  /\ \E ok, more \in BOOLEAN :
       view' = [view EXCEPT ![v].older = more, ![v].spinner = FALSE,
                            ![v].shown = IF ok THEN NoLine ELSE @]
  /\ UNCHANGED <<conn, lines, views, breaks, runs>>

-----------------------------------------------------------------------------
(* An invocation of project p ends: complete_invocation tells the sockets  *)
(* that subscribed; what is asked for before that may miss it.             *)
Missed(r) == IF r = NoLine THEN r ELSE [r EXCEPT !.fresh = FALSE]
Outdated(w) == [w EXCEPT !.latest = Missed(@), !.shown = Missed(@), !.told = FALSE]

Hears(p) == \E l \in Line : lines[l].of = p /\ lines[l].subscribed /\ lines[l].state = "open"

RunEnds(p) ==
  /\ runs < MaxRuns /\ runs' = runs + 1
  /\ view' = [v \in Viewer |-> IF view[v].of # p THEN view[v]
                               ELSE IF Hears(p) THEN Asks(Outdated(view[v])) ELSE Outdated(view[v])]
  /\ UNCHANGED <<conn, lines, views, breaks>>

LineOpens(l) ==
  /\ lines[l].state = "connecting"
  /\ lines' = [lines EXCEPT ![l].state = "open", ![l].subscribed = TRUE]
  /\ UNCHANGED <<conn, view, views, breaks, runs>>

LineCloses(l) ==
  /\ lines[l].state = "closing"
  /\ lines' = [lines EXCEPT ![l].state = "unused", ![l].subscribed = FALSE]
  /\ UNCHANGED <<conn, view, views, breaks, runs>>

(* The close event of a socket in use.                                     *)
Break(l) ==
  /\ lines[l].state \in {"connecting", "open"} /\ breaks < MaxBreaks /\ breaks' = breaks + 1
  /\ lines' = [lines EXCEPT ![l].state = "unused", ![l].subscribed = FALSE]
  /\ conn' = [conn EXCEPT ![lines[l].of] = [ws |-> NoLine, timers |-> @.timers + 1]]
  /\ UNCHANGED <<view, views, runs>>

ProjectTimer(p) ==
  /\ conn[p].timers > 0 /\ Idle(Current) # {}
  /\ Becomes(OpenLine([Current EXCEPT !.conn[p].timers = @ - 1], p))
  /\ UNCHANGED <<view, views, breaks, runs>>

ProjectNext ==
  \/ \E v \in Viewer, p \in Project : MountMetrics(v, p) \/ ShowProject(v, p)
  \/ \E v \in Viewer : UnmountMetrics(v) \/ LatestLoaded(v) \/ OlderLoaded(v) \/ \E d \in Period : OnPeriodChange(v, d)
  \/ \E p \in Project : RunEnds(p) \/ ProjectTimer(p)
  \/ \E l \in Line : LineOpens(l) \/ LineCloses(l) \/ Break(l)

ProjectSpec == ProjectInit /\ [][ProjectNext]_projectVars

(* The network and the timers go on.                                       *)
ProjectFairness ==
  /\ \A l \in Line : WF_projectVars(LineOpens(l) \/ LineCloses(l))
  /\ \A p \in Project : WF_projectVars(ProjectTimer(p))

-----------------------------------------------------------------------------
(* "The connection is opened lazily and closed when the last subscriber    *)
(* disconnects": whatever order subscribers, breaks and timers come in,    *)
(* the sockets in use are those of the connections, one each, and no       *)
(* project without a dashboard has one.                                    *)
OneLinePerProject ==
  \A l \in Line : lines[l].state \in {"connecting", "open"} =>
    conn[lines[l].of].ws = l /\ Listeners(lines[l].of) # {}

(* The answer to the last load is of the project and period selected, and  *)
(* of all runs that ended, unless one ended while the socket was away.     *)
DashboardCurrent ==
  \A v \in Viewer : LET w == view[v] IN
    w.of # NoLine /\ w.shown # NoLine =>
      w.shown.of = w.of /\ w.shown.period = w.period /\ (w.told => w.shown.fresh)

(* Dashboards hear of the runs of their project again.                     *)
HearsAgain == \A v \in Viewer : view[v].of # NoLine ~> view[v].of = NoLine \/ Hears(view[v].of)

(* Connections and figures follow the dashboards that are on the page.     *)
DashboardsFollowRuns == OneLinePerProject /\ DashboardCurrent
=============================================================================
