# Seam: verification of the server and its worker

Seam is a server (Rust, PostgreSQL) on which people and AI agents share
projects, sessions, tasks and plans, and which runs agents ("invocations") in
Coder workspaces. A second process, the worker, moves domain events to a
message queue, reacts to them, runs scheduled jobs and cleans up what the
server left behind. A browser frontend follows sessions over WebSockets, and
agents reach the server over MCP.

This directory holds TLA+ models of the parts where the hard behaviour is, TLC
configurations that check them, and proofs. Every definition is translated
from the source; `PROJECT.json` names the lines of each one.

## 1. Inventory

| Component | State it keeps | Operations | Hard behaviour | What makes it correct |
|---|---|---|---|---|
| Invocation dispatch (`server/src/dispatch.rs`, `routes/invocations.rs`) | `invocations` rows; one background task per request, in memory; the agent process behind `coder ssh` | resolve a workspace (locked phase, then wake or provision), stamp, dispatch, drain, reap, error paths | interleavings of tasks; crash loses the task; panics; agents that hang; timeouts against cleanup | one running invocation per workspace; pools do not mix; one verdict, not withdrawn; every request settles |
| Workspaces (`routes/workspaces.rs`) | `workspaces` rows | create, stop, destroy | every UPDATE is unconditional, with a Coder call between read and write | usable rows are known to Coder; destroyed rows are not picked again; no row stays in transition |
| Cleanup (`worker/cleanup.rs`) | none; selects rows by age | three sweeps every five minutes | acts on rows selected earlier | stuck rows get unstuck, live ones are left alone |
| Domain events (`events.rs`, migration 012) | `domain_events` | `emit` | ids are drawn before the commit; an emit is not part of the change it reports | every committed event is handled |
| Event bridge (`worker/bridge.rs`) | `event_bridge_cursor` | poll, publish, advance | crash between publish and advance; unconfirmed publishes | no event is skipped; repeats are bounded by faults |
| Reactions (`worker/reactions.rs`, `routes/automations.rs`) | `event_reactions`; queue `seam.reactions` | match, dispatch, ack; change and delete | redelivery, reactions switched on and off, lost connection | an enabled reaction fires for each event it wants, in order |
| Scheduler (`worker/scheduler.rs`, `routes/automations.rs`) | `scheduled_jobs` | poll, dispatch, write next run; create, change, delete | works on copies of rows that users change meanwhile | one dispatch per due instant; changes win in the end; no starvation |
| Actions (`worker/actions.rs`) | none | call MCP, invoke an agent, call a webhook | a call without a timeout | a failed or slow action does not lose others |
| Tasks (`routes/tasks.rs`, `frontend/src/components/tasks/`) | `tasks`, `task_dependencies`, `task_comments`; on the page a list, a detail, their filters and the address | create, update, delete, comment, depend, list; select, filter, batch, edit | read, check, then unconditional UPDATE; overlapping loads, notices, several tabs of work on one task | what a page shows at rest is what there is; closing has proof; no spinner without a request |
| Requests, requirements, plans (`routes/*.rs`, `components/plans`, `requests`, `requirements`) | one status column each; a table of moves on either side | create, update, move, list; the switch of automatic analysis | the move is checked on an earlier read; two tables; a failed load taken for an empty one | a move that is offered is refused only if the record has moved; one record per draft |
| Questions, notes, activity, console (`routes/questions.rs`, `notes.rs`, `activity.rs`, `messages.rs`, `shared/`, `session/`) | rows; one text box per panel, one list per panel | answer, dismiss, edit, filter, send | answers come after the user has gone on to another question, note or agent | a text reaches what it was written for; a list at rest is of what is selected |
| WebSockets and presence (`ws/`, `frontend/src/state/session-connection.ts`, `agent-stream.ts`, `project-ws.ts`, `app-state.ts`) | connection lists per session and project; one socket of each kind per page, with timers and subscriptions | join, subscribe, close, reconnect, leave | close events of sockets already replaced; messages missed while away; two tabs | one socket delivers, of the session joined last; who is shown online is online; whoever stays is served again |
| Pages of invocations, workspaces, agents (`components/invocations`, `workspaces`, `agents`) | what was loaded; an interval or timer | load, poll, stop, destroy, start an agent | answers overtaken by later ones; a dialog opened again while its request runs | an unfinished status is watched; what is started is what was shown |
| Pages of a project (`components/project`, `router.ts`) | tab, record, address | navigate, reload, join | three copies of "where am I", kept by hand | the address names what is shown |
| Dependency graph (`components/graph/dependency-graph.ts`) | per card: visible, ringed, dimmed; filters, search, selection | filter, search, select, hover, reload | each handler repaints only what it thinks has changed | what is shown is what was chosen |
| Settings, automations, hook bundles, credentials (`components/user`, `org`, `project/project-settings.ts`, `automations`) | rows; lists, dialogs and forms on the page | create, edit, switch, rotate, install, save | dialogs left open or reused while other requests are answered | what was entered for one record is stored in that one |
| Signing in (`state/auth-state.ts`, `components/auth`, the start of `app-shell.ts`) | the user, the router, three forms; storage of the tab | redirect, callback, login, consent, renewal | the user is known before the callback is over; a router that starts once | the router sees a page; nobody waits for nothing; one decision, the one that was meant |
| Mentions (`app-shell.ts`, `routes/tasks.rs`) | `unread_mentions`; the bell | mention, load, clear | answers of loads and clears in any order | the bell counts what is unread |
| Knowledge index (`indexer.rs`, `knowledge.rs`, `embeddings.rs`) | `knowledge_chunks`, `consumer_cursors` | index, delete, embed | events older than the row that is read again; delete announced before it happens | chunks of existing sources only; each chunk is embedded in the end |
| Metrics (`worker/aggregation.rs`, `routes/metrics.rs`) | hourly and daily snapshots | fill gaps, recompute the last two buckets | late results change a closed bucket | a snapshot equals the sum of its rows |
| Sessions, organisations, projects, agents (handlers) | rows | CRUD, join | check then insert | no duplicate rows |
| Credentials, auth, tokens | data keys, JWKS cache, token cache | encrypt, validate, refresh | two creators of one key; stale caches | one data key per owner |
| Model discovery, code search, log buffer | caches in memory | get, set, push | ring buffer and cache limits | the newest lines are kept |
| MCP tools (`mcp_handler.rs`) | the same rows | the same statements | as the HTTP handlers | as the HTTP handlers |
| Translations, rendering, agents, infrastructure | - | texts, prompts, deployment | - | - |

How they interact: handlers change rows and `emit` events into the same
database; PostgreSQL triggers NOTIFY the server, which broadcasts to
WebSockets; the bridge reads events by id and publishes them; the consumer and
the scheduler call actions, and one kind of action creates an invocation
through the server's API; the server's background task and the worker's
cleanup meet only in the `invocations` and `workspaces` rows. The database is
the only shared state of the two processes, and there is one transaction in the
server: the locked phase of workspace resolution. Everything else is single
statements with awaits in between, which is why the models give each statement
and each external call a step of its own.

Everything the browser shows was asked for by a request whose answer comes
later, in any order, or not at all; a page learns of the changes of others by a
socket or by asking again. Most of the frontend's hazards are the same one in
a new place: an answer is taken in by whatever the page has become meanwhile.

## 2. How the models are composed

| Group | Modules | Composed by |
|---|---|---|
| Agents in workspaces | `Workspaces`, `InvocationDispatch`; `WorkspaceSlots` (abstract); `InvocationDispatchProofs` | `MCInvocationDispatch`, `DispatchClaims` |
| Events and reactions | `EventPipeline`; `EventPipelineProofs` | `MCEventPipeline`, `EventClaims` |
| Schedule | `Scheduler`; `SchedulerProofs` | `MCScheduler` |
| Tasks, server and page together | `TaskClient` (requests, rows, notices), `TaskBoard`, `TaskDetail`, `TaskScreen` (the page); `TaskOutcomes`, `TaskScreenProofs` | `MCTaskScreen` |
| Sockets | `SessionConnection`, `AgentStream`, `ProjectSocket`; `ListenerProofs` | `MCLiveClient` |
| Pages and panels | `SessionPanels`, `WatchPages`, `RecordDetail`, `RecordLists`, `InvokeDialog`, `ProjectPages`, `SettingsPages`, `DependencyGraph`, `SignIn`, `MentionBell`; `PanelProofs`, `PageProofs` | `MCPages` |

The parts of `MCLiveClient` and of `MCPages` share no state. In a behaviour
only one of them moves, the one that `machine` names, so that a run looks at
the sum of their states and not at the product. The parts of the task page do
share state (rows, requests under way, the address), and are composed as such.

## 3. Modules

### Workspaces and InvocationDispatch

`Workspaces` holds the `workspaces` table and the three requests of users.
`InvocationDispatch` extends it with invocations. The state:

| Variable | In the code |
|---|---|
| `wsStatus`, `wsKey`, `wsCoder`, `wsAged` | `workspaces.status`, `pool_key`, `coder_workspace_id` present, `updated_at` older than the threshold |
| `opPc`, `opWs` | a create, stop or destroy request: which await it is at |
| `invStatus`, `invWs`, `invKey`, `invAged` | `invocations.status`, `workspace_id`, the key the request resolves with, age past the threshold |
| `pc`, `taskWs` | the spawned background task: which await it is at, the workspace it works on |
| `proc` | the agent: output open, output closed (`mute`), ended |
| `sweep`, `swept` | the cleanup pass and its selected rows not yet written |

The locked phase of `resolve_workspace_with_client` is one action with three
alternatives (`ResolveUseRunning`, `ResolveWake`, `ResolveCreate`), because it
is one transaction under an advisory lock; its slow phase is one step per
Coder call. Which row an `ORDER BY ... LIMIT 1` picks is left open. A Coder
call succeeds or fails. `Mark` carries the unique index of migration 046.
`ServerCrash` loses every task and handler, and an agent may survive it. `Ws`,
`Inv` and `Op` are ids; a behaviour uses each once, so their number bounds it.
`Parked` are workspaces that earlier work left stopped in a pool, so that two
requests can meet over the same stopped row from the start.

Ages are not clocks: `AgeWorkspace` and `AgeInvocation` make a row old at any
time. `Timely` restricts that to what the code's own timeouts allow: a task or
handler holds a pending row or a row in transition only while it calls Coder
(30 s a call, three tries) or polls it (60 s or 120 s), all far below the
thresholds of 10 and 30 minutes. Once the row is running nothing bounds the
task: the probes of the startup script and of the credentials are `coder ssh`
processes awaited without a timeout (dispatch.rs:1014, :1047; the deadline of
300 s is looked at between probes only), and so is the agent's output, so a
running row does age there. `dispatch_races` runs without `Timely`, for tasks
slower than any timeout.

`WorkspaceSlots` is the abstract specification: requests wait, take a free
workspace, and settle; a workspace has one taker at a time, a settled request
does not come back. `ImplementsSlots` is the refinement (`AbsPhase`,
`AbsRunning`).

### EventPipeline

An event is its id. `EmitDraw` draws it, `EmitCommit` makes it visible,
`EmitFail` leaves a gap. The bridge polls (`BridgePoll`), publishes one by one,
then writes the cursor. `wire` is what was published and has not reached the
broker, `queue` what is not acked. The consumer matches once, dispatches each
reaction, acks. Types and filters are the relation `Wants`; an action call is
one step that may never happen (it has no timeout). Faults: failed INSERT,
failed UPDATE of the cursor, failed match, worker crash, lost connection;
`MaxFaults` bounds them. INSERTs are statements of their own on a pool, so ids
become visible in any order, and a poll may read a later one first; no code
waits for a confirm, so the connection may break with messages on the wire,
before or after the cursor was written. Both skip events, and the model keeps
which: `overtaken` are the INSERTs that were open when a poll read a later id,
`lost` the messages that went down with the wire and were not published again,
`unmatched` those acked although the query for their reactions had failed. No
guard reads them. A lost connection stays lost until the worker restarts, which
somebody has to see to: that restart is no fault of its own and is never fair.

### Scheduler

Time is a cycle `0..Cycle-1` and a cron expression the set of its instants, the
empty set being an expression without an upcoming instant. `nextAt` and `wait`
are `next_run_at`; `late` is the set of pairs of due rows of which the first
became due before the second, which is what `ORDER BY next_run_at` needs. The loop works on copies
(`jobs`), as the code does. `UpdateJob` takes any body of the PATCH: a new
expression, a switch, or both. `repeats` and `overrun` are history variables:
they count dispatches and no guard reads them.

### TaskClient, TaskBoard, TaskDetail, TaskScreen

`rows` is what the database holds of each task, `flight` the requests under
way, `notice` the notice of `tasks-changed` that is still to be delivered,
`unseen` which component was not told of the last change. A page asks, the
server serves, the answer arrives: three steps, answers in any order. An
update is two steps of the server, because `update_task` reads the row and
later writes every column of it; a request that only reads is served at any
time until its answer arrives. `board` and `detail` are the fields of the two
elements, and each handler is one action. `fresh` is a history variable: the
list shown answers the latest load that was sent. `TaskScreen` joins the two
with the address, the router and the elements Lit creates and removes.
`ForeignUpdate`, `ForeignCreate` and `ForeignDelete` are other clients.

### SessionConnection, AgentStream, ProjectSocket

A socket is `connecting`, `open`, `closing` (closed by the client, whose close
event is still to come) or `closed`; the server learns of it later still
(`Forget`). In `SessionConnection`, `generation` is the counter by which a late
close event is told from a current one, `store` who is shown online, `served`
the server's list of connections, `inbox` what a socket has not delivered.
`AgentStream` is the singleton of `agent-stream.ts` with the panel that
subscribes and the history it loads. `ProjectSocket` is the connection object
per project, made by its first listener and given up by its last.

### Pages and panels

Each module keeps the fields of the elements it is about, the requests under
way, and of the server's rows what the answers depend on. `kind`, `watch`,
`sort`, `list`, `place`, `site`, `section`, `stage`, `document.at` and `frame`
say which page of a module moves, "none" being that none does.

| Module | Of the code |
|---|---|
| `SessionPanels` | `question-panel.ts` with `answer_question` in two steps, `notes-panel.ts`, `activity-feed.ts`, `activity-view.ts`, `agent-console.ts` with its messages, and their handlers |
| `WatchPages` | `invocation-detail.ts` (an interval of two seconds), `workspace-list.ts`, `workspace-detail.ts` (timers while a status is transient), `agent-detail.ts` and the overview, which watch nothing |
| `RecordDetail` | one plan, request or requirement: the page's table of moves, the handler's, and the read, check and write of the handler; saves and moves that fail before, while or after they are handled (`adrift` are those still to be handled once the page has its error) |
| `RecordLists` | seven lists, creation by a dialog, the switch of automatic analysis; requests of an element that has left the page still reach the server |
| `InvokeDialog` | the dialog that starts an agent, with the fields that no opening resets (branch, system prompt, model, budget), and the menus of twelve pages that open it; `written` says in which opening, and after how many started invocations, each text was entered |
| `ProjectPages` | tabs, records, addresses, and `router.ts` as the function from an address to a page |
| `SettingsPages` | reactions, jobs, bundles, credentials of users and organisations, members, the forms of a project and of model preferences |
| `DependencyGraph` | filters, search, selection, hover and reload of the graph |
| `SignIn` | `auth-state.ts`, the start of the router in `app-shell.ts`, `login-page.ts`, `consent-page.ts`, `error-page.ts`; Hydra and Kratos by their answers |
| `MentionBell` | the bell of `app-shell.ts` with `list_unread_mentions` and `clear_unread_mentions` |

Texts are represented by what they were written for, so that a text in the
wrong place is seen. `late`, `missed`, `behind`, `old`, `lapsed`, `doubt`,
`strayed`, `untold`, `unnoticed` and the like are history variables: the answer
that was taken in last was of another thing or was overtaken, a request failed,
or a change was never told to the page. The
properties except those cases where the code has nothing against them, and the
text of each property says so; without the exception TLC refutes it.

## 4. Runs

| Run | Asks | Bounds | States |
|---|---|---|---|
| `dispatch_races` | resolution, provisioning, dispatch, sweeps and a stop or destroy in any order, at any speed: one running row per workspace, rows known to Coder, pools apart, wakes exclusive, no agent orphaned, destroyed rows not picked | 2 invocations, 3 workspaces (1 stopped in a pool at the start), 2 pool keys, 1 user request | 990 k |
| `dispatch_faults` | the same with failed statements, panics, one crash, named and user-made workspaces: 'completed' only after the agent is over, verdicts not withdrawn, slots implemented | 2 invocations, 3 workspaces, 1 crash | 160 k |
| `dispatch_live` | every request gets a verdict for good, with statements and tasks of the server that fail and probes that hang | 2 invocations, 3 workspaces (1 stopped in the pool), 2 crashes | 92 k |
| `dispatch_unstuck` | no workspace stays in transition | 2 invocations, 2 workspaces, 1 stop, 1 crash | 216 k |
| `events` | only a late commit or a message lost with the wire skips an event, the others are first handled in order, repetitions need faults, an enabled reaction fires for each event it wants | 3 events, 2 reactions, batches of 2, 1 fault | 296 k |
| `scheduler` | `RepeatsBounded` (repetitions need faults, a disabled job runs at most once more), users' changes win, no starvation | 2 jobs, `LIMIT 1`, cycle of 3, 3 requests, 1 fault | 122 k |
| `tasks` | board and detail show what there is, spinners stand for requests, the address and what is open agree, a first closing has proof unless an update under way had read the row closed | 3 tasks (one the child of another), 2 acts of the user and of others together, 1 loss, 2 requests under way | 600 k |
| `live` | one socket per session and project, of the one that is shown; presence without ghosts; streams, dashboards and sessions that come back | 2 sessions, 3 sockets, 2 moves, 2 tabs, 1 drop; 2 agents, 4 sockets; 2 projects, 2 dashboards, 2 sockets | 159 k |
| `pages` | the ten modules of pages and panels | two things of each kind, two to four acts, one failure or change by others; the dialog on three pages that open it in all its ways | 750 k |

Why the bounds are enough: the properties relate two rows, or a row and a
workspace, or an event and its neighbours; two of each with a third party (a
user request, a crash, a sweep) already gives every pattern of "read by one,
changed by another, written by the first". A batch of two of three events
makes the last batch a partial one; `LIMIT 1` with two jobs makes one wait
behind the other. On the pages, two things of a kind are what it takes for an
answer to be about the other one, two requests under way for one to overtake
the other, and one failure for an error path. Three sockets are the one in
use, the one that is closing and the one the server has not forgotten.
Symmetry is used for safety runs only. What the user does is bounded by
counters (`MaxClicks`, `MaxUses`, `MaxMoves` and others, each named in its
module) that no code corresponds to.

Fairness. `InvocationDispatch`: `RuntimeStep` says that some task or handler of
the server takes a step whenever one can (their calls to Coder have timeouts;
no single task is favoured), `TimePasses` that rows grow old, `SweepStep` that
the worker goes on sweeping. The probes of the startup and draining owe nothing:
they wait for a process without a timeout, and a row that hangs there gets its
verdict from the sweep. `EventPipeline`: the worker's loops and the network go
on and an INSERT commits or fails; that an action call returns and that a worker
whose connection broke is restarted are not assumed but premises (`CallsReturn`,
`Reconnected`) of the property, since the code gives those calls no timeout and
connects only once. `Scheduler`: the
same (`CallReturns`). `live`: timers fire, a socket that was opened opens or
closes, the server serves what a socket sent, and a request to join is
answered one way or the other; each is the browser's or the server's own
doing. Crashes, users, agents, drops and faults are never fair. `tasks` and
`pages` have no liveness: a page that waits is in their invariants as a state
with a request under way.

### Where documents and code differ

Three runs take a sentence of the repository at its word and TLC refutes it:

| Run | The sentence | What happens |
|---|---|---|
| `claim_panic` | routes/invocations.rs:654, a panic does not leave the row pending | the handler updates running rows only |
| `claim_at_least_once` | plan-scheduler-queue.md:13, at-least-once by cursor | an id that commits late is below the cursor |
| `claim_project` | plan-scheduler-queue.md:15, reactions per project | the query does not compare projects |

Seen while modelling, without a run.

Server and worker:

- dispatch.rs:125-130: two invocations may be handed one workspace, as a task
  that has not marked its row is invisible to the next; the index of migration
  046 then fails one of them. The row inserted as 'creating' is not found by
  the next resolution, contrary to dispatch.rs:100 and 180, so a burst of
  requests makes a workspace each.
- dispatch.rs:1156: the timeout of two hours starts after the output was
  drained (1125-1156), which has no limit. dispatch.rs:1014 and :1047: a hung
  probe is never given up by its own task, as the deadline is tested between
  probes; the sweep fails the row after three hours and the task stays.
- bridge.rs:82 "wait for confirm" waits for nothing, as no channel is in
  confirm mode: what is lost between worker and broker is below the cursor and
  is not published again. reactions.rs:55: after a lost connection nothing connects again
  and the process does not end (plan-scheduler-queue.md:13).
- scheduler.rs:101 disables a job whose expression was repaired while its
  action was called.
- reactions.rs:91 logs a failed query and acks the message.
- workspaces.rs:146 and coder.rs:253: a crash after the INSERT, or a retry
  after a lost answer, leaves a row or a Coder workspace that nothing cleans.
- tasks.rs:340: a change and its event are separate statements. tasks.rs:738:
  a task that is reopened keeps `closed_at`, and closes again without proof.
  tasks.rs:691: an update that had read the row closed, and writes after one
  that had read it open, brings `closed_at` back, with or without proof.
  tasks.rs:963 cuts a preview at byte 100. tasks.rs:1090: two requests that add
  A-B and B-A find no cycle. ws/mod.rs:75: a list is removed and added to.
- messages.rs lists oldest first with a limit of 100: later messages of a long
  conversation do not appear. A message of an agent is told to nobody
  (mcp_handler.rs:3655) and found by the console's timer.
- indexer.rs:87, embeddings.rs:90: the source is read again, later than the
  event.

Sessions and the shell:

- app-shell.ts:381: leaving a session for /settings is redirected to the
  organisation by the listener of "session-disconnected". app-shell.ts:366:
  the router starts once, so that a user who is lost and comes back, or who
  comes home from the login page, sees an empty outlet. The participant of the
  console and the counted mentions are kept across sessions.
- The bell's click deletes mentions that it has not counted, and an answer for
  a former session is shown for the present one.
- login-page.ts:156 expects `skip` with `redirect_to`, and auth_bridge.rs:84
  answers a skipped challenge without `skip`: a remembered user is asked for a
  password (docs/ory-auth-guide.md:182). The guide's /auth/register is sent to
  the login page by router.ts. consent-page.ts: after a failed automatic
  acceptance, Approve grants no scopes. auth-state.ts: a profile that arrives
  after the user was cleared brings the user back.
- router.ts:139 leads an address of a task to the overview
  (docs/plan-frontend-router.md:21 says: its detail). project-workspace.ts:400:
  "invocations" is not among the tabs that an address may name; :624 leaves the
  address of a plan behind.

Pages:

- Enter or a second click sends twice in task-create-dialog.ts:104,
  agent-console.ts:743 and plan-list.ts:213. agent-console.ts:722 empties what
  was typed meanwhile, and shows a message twice if the load comes first.
- task-board.ts:911: a late `deleted` closes the detail of another task.
  notes-panel.ts:176 and :190, question-panel.ts:212, plan-detail.ts:254,
  task-metadata-panel.ts:232, invoke-dialog.ts:149, user-settings.ts:237 and
  :284, project-settings.ts:146 and :181, project-metrics.ts:268: an answer is
  taken in by what the page has become.
- invoke-dialog.ts:68-107 resets neither branch, system prompt, model nor budget,
  and show keeps the prompt too: what was entered in an opening that was
  cancelled is in the request of the next one (118-128), and the branch decides
  the pool of workspaces. Only a started invocation empties them.
- plan-detail.ts:260 and :274, and the same in the pages of requests and
  requirements: if the answer to a save or a move is lost after the UPDATE, the
  page reports an error and goes on showing the record as it was.
- agent-console.ts:683 and agent-activity-panel.ts:305-373 take the answer for
  another agent. workspace-detail.ts:267 and workspace-list.ts:210 write
  'stopping' whatever the server answered. project-overview.ts:338, :681: a
  failed join is silent, a status is loaded once.
- dependency-graph.ts: a card that was dimmed when it was filtered away comes
  back dimmed; filters set before the cards are drawn are not applied; the keys
  "v" and "r" before that throw; the tooltip stays up over a card that was
  dimmed, and comes back after the pointer has left.
- stream-parser.ts says that it removes consecutive equal events, and removes
  all equal ones of an output.

## 5. Proofs

### Dispatch

`InvocationDispatchProofs` proves, for any number of invocations,
workspaces, requests, keys and crashes:

| Theorem | Says | Assumes |
|---|---|---|
| `TypeCorrect` | `[]TypeOK` | |
| `UsableCorrect` | `[]UsableHasCoder` | |
| `PoolIsolated` | `[]PoolIsolation` | |
| `OneRunningCorrect` | `[]OneRunningPerWorkspace` | |
| `CompletedCorrect` | `[]CompletedIsOver` | |
| `NoOrphanCorrect` | `[]NoOrphan` | |
| `DestroyedStays` | `Spec => DestroyedNotReused` | |
| `WakersCorrect` | `[]WakersBoundedByStops` | |
| `NoReactivationCorrect` | verdicts are never withdrawn | `Timely` |
| `SlotsImplemented` | `Spec => ImplementsSlots` | `Timely` |

besides the named assumptions on the constants (`WorkspacesAssumption`,
`DispatchAssumption`). Five inductive invariants carry them:

- `PoolInv`. `UsableHasCoder` and `PoolIsolation` are not inductive: they need
  what a program counter knows of its workspace (the row exists and has the
  task's key; what is being woken, was created or is being stopped has an id).
- `VerdictInv`. A row is 'completed' only once its task is over and its agent
  has ended, and a task that is over never starts another one.
- `OrphanInv`. While nothing has failed, the program counter tells whether the
  task's row may be running and whether it has an agent.
- `WakeInv`. A task reads its workspace before it wakes it, so two may wake the
  same one: each waker beyond the first found the row stopped, and a stop
  request that is over has stopped it (`WakersPaid` counts both sides).
- `FreshInv`. A task that has not marked its row still has it pending: what a
  sweep selects is old, and with `Timely` an old pending row has no task. A
  sweep that came too early would settle a row which `Mark`, an unconditional
  UPDATE, then makes running again; that is what the assumption rules out.

The refinement has one lemma for steps that are invisible to the slots and one
for each abstract action.

### The page's sockets

`ListenerProofs` proves of the session's connection, for any number of sessions,
sockets, moves, tabs and drops, from `ConnectionAssumption` (the two
participants differ):

| Theorem | Says |
|---|---|
| `ConnectionTyped` | `[]ConnectionTypeOK` |
| `ConnectionFollows` | `[]ConnectionFollowsSession`: one socket delivers, it is of the session joined last, and a session always has a socket or a timer |
| `GhostFree` | `[]NoGhosts`: at rest nobody is shown online who has no connection |

`ConnectionFollowsSession` is not inductive: a close event starts a timer if its
socket is of the current generation, and nothing in the property says that a
socket which the client closed is not. `ConnectionInv` does: what delivers is the
active socket, of this generation and this session, what is closing is of an
earlier generation, and a timer runs only without a socket. It speaks of the
client's core state only (`CoreOnly`), so that the steps of server and peer are
one case.

`NoGhosts` speaks of rest, its invariant (`GhostInv`) of what comes before: while
the peer has no connection left and the client has missed nothing, the peer is
not shown, or one of the messages still to be read says that it left, and none
after that brings it back.

It does the same for the other two sockets, from `StreamAssumption` and `ProjectAssumption` (finitely many sockets, at least one
project and one period), and composes the types of the three:

| Theorem | Says |
|---|---|
| `StreamTyped`, `StreamFollows` | `[]StreamTypeOK`, `[]StreamFollowsPanel` |
| `ProjectTyped`, `DashboardsFollow` | `[]ProjectTypeOK`, `[]DashboardsFollowRuns` |
| `ListenersTyped` | `Spec => []LiveTypeOK` of `MCLiveClient` |

The service of `agent-stream.ts` is `Linked`: it is live or quiet, a live one
has a socket or a timer for the next one, its socket connects or is open, and an
open one has heard every subscription. Each function of the service (connect,
disconnect, subscribe, unsubscribe, the listeners of a socket, the timer) has a
lemma that it keeps this, and what a step of the page does is their composition.
For `project-ws.ts`, `Owned` says that sockets in use and connections belong to
each other, `Active` that a connection has a socket or a timer, for which there
must be a listener; `Answers` says of a dashboard that what it waits for, like
what it shows, is of the project and period selected now.

### Events

`EventPipelineProofs` proves, for any number of events, reactions and faults
and any batch size, from `EventAssumption`:

| Theorem | Says | Assumes |
|---|---|---|
| `TypeCorrect` | `[]TypeOK`, and the consumer acts on the head of its queue | |
| `NothingElseSkipped` | `[]SkippedForCause` | |
| `HandledInOrder` | `[]FirstHandlingInOrder` | |
| `RepeatsCounted` | `[]RepeatsNeedFaults` | |

Nothing is assumed of the order of commits or of the wire: that an event may be
skipped (`claim_at_least_once`, bridge.rs:82) is in the model, and the theorems
say that nothing else skips one. The inductive invariant of the two follows an
event through its stages: an INSERT that is open behind the last id read is
overtaken (`OpenIsOvertaken`), the batch holds the next rows of the ledger
without a gap but for those (`BatchIsNext`), what the poll has published is on
the wire, in the queue or acked unless it was lost or the poll will be repeated
(`OnItsWay`), what the cursor has passed is carried or gone for a cause
(`Delivered`), and before each message in wire and queue come all the earlier
events that are not gone (`WireInOrder`, `QueueInOrder`, `AckedInOrder`). A
message that is published again leaves `lost`, which is why order speaks of what
is lost at that time and not of what ever was.

`RepeatsCounted` needs an account (`DispatchesPaid`): the dispatches made for an
event, plus those that its copies in the queue, on the wire and in the ledger
beyond the cursor may still cause, never exceed one plus two for each fault. A
fault adds one for the batch that is read again and one for the message that is
delivered again.

### Schedule

`SchedulerProofs` proves, for any jobs, expressions, `LIMIT` and number of
requests and faults, from `SchedulerAssumption` (the run has `LIMIT 1`):

| Theorem | Says |
|---|---|
| `SchedulerTyped` | `[]TypeOK` |
| `RepeatsAreBounded` | `[]RepeatsBounded` |

That the next run of an expression is a time at all rests on the distances to
its instants having a least one. For `RepeatsBounded` a count alone is not
inductive: the invariant says who may still be called. The rows of a poll are
different jobs, those not yet called have repeated for faults only and have not
run since they were disabled, and the one that was called either gets its next
run written, which starts its count again, or is in no later poll unless a fault
let it go.

### Tasks

`TaskOutcomes` (what each step of page, server and other clients amounts to) and
`TaskScreenProofs` (what follows) prove, for any finite set of tasks, any parents,
any number of requests under way, clicks, foreign acts and losses, from
`TaskClientAssumption` and `TaskScreenAssumption`:

| Theorem | Says |
|---|---|
| `TaskScreenTyped` | `[]TypeOK` |
| `ScreenConsistent` | `[]ScreenIsConsistent` |
| `ScreenCurrent` | `[]ScreenIsCurrent` |
| `FirstClosing` | `Spec => FirstClosingHasProof` |

The page has many handlers, and requests leave the sequence `flight` in the
middle while new ones join its end (`Turn`). So the proof first sorts the steps
into seven kinds and shows of each handler which kind it is (`NextAmounts`): the
page acts on its own or on an answer, which changes board and detail and takes
and sends requests (`Acts`); a list, a task or the end of a batch is shown; the
page leaves; the server serves one request; or something happens elsewhere. Only
then is the invariant `Follows` shown for each kind:

- `Sound`: the types; the dialog counts the tasks it waits for (`Saving`); at
  most one load of the board and one of the detail is its latest (`OneLatest`);
  no detail is open at the board's address (`Addressed`); an answer that is heard
  has a detail to hear it (`Attended`); a spinner has its request (`Spinning`).
- `BoardFollows`, `DetailFollows`: if nothing was left unannounced, no notice is
  under way and no answer is still to cause a load, then the latest load carries
  what the server would return now, and so does, once it is shown, the page.

`ScreenIsCurrent` is the last of these at rest. `FirstClosingHasProof` is about
one step: the UPDATE writes what its request had read, and the proof splits on
whether that row was closed.

### Pages

`PanelProofs` (settings, panels of a session, signing in) and `PageProofs` (all
the others) prove, part by part from the part's own specification, for any number of things,
acts and failures:

| Theorem | Says | Assumes |
|---|---|---|
| `GraphTyped`, `GraphShowsChoices` | `[]GraphTypeOK`, `[]GraphFollows` | `GraphAssumption` |
| `SiteTyped`, `AddressNames` | `[]SiteTypeOK`, `[]AddressFollows` | `ItemAssumption` |
| `WatchTyped`, `UnfinishedWatched` | `[]WatchTypeOK`, `[]UnfinishedIsWatched` | `WatchAssumption` |
| `DialogTyped`, `DialogStartsWhatIsShown` | `[]DialogTypeOK`, `[]StartsWhatIsShown` | `DialogAssumption` |
| `DetailTyped`, `DetailFollows` | `[]DetailTypeOK`, `[]RecordFollows` | `RecordAssumption` |
| `ListsTyped`, `ListsShowWhatIs` | `[]ListsTypeOK`, `[]ListsFollow` | `ListsAssumption` |
| `SignInTyped`, `SignInArrives` | `[]SignInTypeOK`, `[]SignInFollows` | `SignInAssumption` |
| `BellTyped`, `BellCounts` | `[]BellTypeOK`, `[]BellFollows` | `BellAssumption` |
| `SettingsTyped`, `SettingsShowWhatIs` | `[]SettingsTypeOK`, `[]SettingsFollow` | `SettingsAssumption` |
| `PanelsTyped`, `PanelsMatch` | `[]PanelsTypeOK`, `[]EntriesMatch` | `PanelAssumption` |

and, at the end of `PageProofs`, from all of these for `Spec` of `MCPages`, where
a step is a step of one part and leaves the others alone (`PartsStep`,
`PartsSpecs`):

| Theorem | Says |
|---|---|
| `PagesTyped` | `[]PagesTypeOK` |
| `EntriesReach` | `[]EntriesReachTheirs` |
| `RecordPagesFollow` | `[]RecordsFollow` |
| `PagesShowWhatIs` | the other six invariants of the run |

The assumptions say that the bounds are natural numbers, that the values which
stand for "none" are not things, of the bell that there are finitely many
sessions, and of the panels that there are a note and an actor to speak of. None of the properties is inductive: each speaks of what is on the
screen at rest, and the invariant says how that comes about while requests are
under way.

- The graph marks cards on what was visible at the time; the marks outlive the
  filters. The invariant says of every card, hidden ones too, that it was not
  looked at or has a reason to be dimmed now.
- A record's page (`RecordDetail`) is given versions. The record's version is one
  that no answer told of, that of an answer that was taken in, or of one that is
  still to come; what a request has read is not newer than the record. A request
  that failed for the page and is still to be handled makes, once it is, a
  version no answer tells of, like a change by others (`LossesKeep`, `WrittenIs`).
- A watching page that asks no more has not loaded, or has shown that all is
  over and waits for one poll at most, or was given an older answer.
- An open dialog (`InvokeDialog`) holds the session it was opened for unless an
  answer to an earlier opening emptied it, and the button is locked while a
  request of this opening is under way. Whatever text the dialog holds was
  entered since the last invocation was started (`HoldsUnspent`), and a prompt
  since the opening gave one (`HoldsGiven`).
- On the lists, `RequestsFit` says that a draft was stored once, or is under way
  once, or neither, `SwitchFits` that whoever knows of a reaction knows the only
  one, and `RowsFit` what the last answer brought.
- `SignInFits` follows a sign-in through the documents of a tab: what step of
  which page is under way, with what in the store, and how many decisions were
  posted.
- The bell has two sequences, requests served and answers delivered in orders of
  their own. `NewsFits`: with nothing untold and no load to come for the session
  that is held, its rows are in the last answer of that session, or counted, or
  a later answer overtook them.
- In the settings, `DialogsFit` says that a dialog holds what was entered for the
  record it will change. `ListFits`: unless requests about one record met or one
  failed (`doubt`), there is one request about a record at a time, and none while
  a list is loaded; so the list has every record as the server does, but for
  those whose answer is on its way, and of these the request tells the
  difference (`Changing`). `TextsFit` says the same of a form: what was sent last
  is what it holds, unless it was typed into since.
- In a session's panels, what is in the box of the questions and in the editor of
  the notes was typed for the entry that is selected, and what is under way was
  typed for the entry it names. Activity and console show all there is, or an
  answer is on its way that does. After a message is added to the list by hand
  the list is longer than the server's until the load after it comes: `MailFits`
  counts the messages that are still to be stored against the user's steps.

### Only model-checked

Liveness (`EventuallySettled`, `WorkspacesUnstuck`, `EnabledReactionFires`,
`ScheduleConverges`, `EnabledKeepsRunning`, `ListenersCatchUp`), which the
prover does not reach. Every invariant and every action property that a passing
run checks is a theorem, where the run has an assumption under the same one.

## 6. Not modelled

Within the components that are modelled: payloads, log lines and their
buffers, titles, model and provider choice, credentials in the agent's
environment, wording, layout and rendering, as no property is about them.
Timestamps appear as ages only. Coder, Ory, RabbitMQ and the browser are their
answers. The MCP tools that write the same rows as the HTTP handlers are
represented by them. Of the graph, the camera, the physics and the brightness
of lines are sums of floating-point numbers.

Without a module:

- Knowledge index, embeddings: a cursor over the ledger that `EventPipeline`'s
  bridge reads in the same way, and text processing.
- Metrics: one statement per bucket, recomputed from the rows.
- Tokens, caches of keys, model discovery, code search, log buffer: caches with
  a lifetime, a wrapper of an index, a ring behind one lock.
- MCP tools: see above.
- `registration-page.ts`: the router sends its address to the login page and
  nothing else loads it. `consent-success-page.ts` is a text.
- Translations and `stream-parser.ts`: a table of texts and a parser of lines
  for display.
- The agents' prompt workflows, deployment and templates.
