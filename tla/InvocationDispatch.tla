------------------------- MODULE InvocationDispatch -------------------------
(***************************************************************************)
(* How an invocation gets a workspace and runs in it.                      *)
(*                                                                         *)
(*  - create_invocation (routes/invocations.rs) inserts a 'pending' row    *)
(*    and spawns a background task; the task resolves a workspace from the *)
(*    pool (dispatch.rs, resolve_workspace_with_client), stamps it on the  *)
(*    row and dispatches: marks the row 'running', waits for the           *)
(*    workspace's startup, runs the agent over `coder ssh`, drains its     *)
(*    output, reaps it and writes the verdict;                             *)
(*  - the worker's cleanup loop (worker/cleanup.rs), another process,      *)
(*    selects rows that look stuck and then fails them one by one;         *)
(*  - users create, stop and destroy workspaces (module Workspaces);       *)
(*  - the server or the worker may crash: background tasks and handlers    *)
(*    are in memory only and are lost, rows stay.                          *)
(*                                                                         *)
(* One program counter per background task, one step per await.  Domain    *)
(* events, log lines and timestamps are left out: no step here reads them, *)
(* except ages, which wsAged and invAged keep.                             *)
(***************************************************************************)
EXTENDS Workspaces

CONSTANTS
  Inv,         \* invocation ids; their number bounds a behaviour
  MaxCrashes,  \* bound on crashes of the server and the worker together
  Faults,      \* what goes wrong: subset of {"db", "panic"} inside the server,
               \*                  and "sweep" inside the worker
  Timely,      \* TRUE: no task or handler outlives the cleanup thresholds
               \*       while it holds a pending row (see AgeInvocation)
  Explicit     \* TRUE: requests may name a workspace themselves

ASSUME DispatchAssumption ==
  /\ MaxCrashes \in Nat
  /\ Faults \subseteq {"db", "panic", "sweep"}
  /\ Timely \in BOOLEAN /\ Explicit \in BOOLEAN
  /\ Ws \cap Inv = {}

VARIABLES
  invStatus,   \* invocations.status; "absent" before the INSERT
  invKey,      \* the pool key the request resolves with
  invWs,       \* invocations.workspace_id
  invAged,     \* rows older than the cleanup threshold of their status
  pc,          \* where the background task of each invocation is
  taskWs,      \* the workspace that task works on
  proc,        \* the agent process: output open, output closed, or ended
  sweep,       \* the cleanup pass under way
  swept,       \* the rows that pass selected and has not written yet
  crashes

invVars   == <<invStatus, invKey, invWs, invAged>>
taskVars  == <<pc, taskWs>>
sweepVars == <<sweep, swept>>
vars == <<wsVars, opVars, invVars, taskVars, proc, sweepVars, crashes>>

InvStatus == {"absent", "pending", "running", "completed", "failed"}
Terminal  == {"completed", "failed"}
ResolvePc == {"resolve", "wakeCall", "wakeReady", "template", "create",
              "createReady", "stamp"}
DispatchPc == {"load", "mark", "startup", "drain", "reap"}
TaskPc == {"none", "failPending", "failRunning", "dead"}
            \cup ResolvePc \cup DispatchPc

TypeOK ==
  /\ WorkspacesTypeOK
  /\ invStatus \in [Inv -> InvStatus]
  /\ invKey \in [Inv -> Key \cup {NoKey}]
  /\ invWs \in [Inv -> Ws \cup {NoWs}]
  /\ invAged \in SUBSET Inv
  /\ pc \in [Inv -> TaskPc]
  /\ taskWs \in [Inv -> Ws \cup {NoWs}]
  /\ proc \in [Inv -> {"none", "open", "mute", "ended"}]
  /\ sweep \in {"idle", "workspaces", "pending", "running"}
  /\ swept \in SUBSET (Ws \cup Inv)
  /\ crashes \in 0..MaxCrashes

Init ==
  /\ WorkspacesInit
  /\ invStatus = [i \in Inv |-> "absent"]
  /\ invKey = [i \in Inv |-> NoKey]
  /\ invWs = [i \in Inv |-> NoWs]
  /\ invAged = {}
  /\ pc = [i \in Inv |-> "none"]
  /\ taskWs = [i \in Inv |-> NoWs]
  /\ proc = [i \in Inv |-> "none"]
  /\ sweep = "idle" /\ swept = {}
  /\ crashes = 0

-----------------------------------------------------------------------------
Goto(i, label) == pc' = [pc EXCEPT ![i] = label] /\ UNCHANGED taskWs

GotoWith(i, label, w) ==
  /\ pc' = [pc EXCEPT ![i] = label]
  /\ taskWs' = [taskWs EXCEPT ![i] = w]

(* An unconditional UPDATE of the status; the new status starts young.     *)
SetInv(i, s) ==
  /\ invStatus' = [invStatus EXCEPT ![i] = s]
  /\ invAged' = invAged \ {i}
  /\ UNCHANGED <<invKey, invWs>>

(* UPDATE ... SET status = 'failed' WHERE id = i AND status = s            *)
FailIf(i, s) == IF invStatus[i] = s THEN SetInv(i, "failed")
                                    ELSE UNCHANGED invVars

(* ws.updated_at = NOW() (a row that looked stuck is young again).         *)
Touch(w) == wsAged' = wsAged \ {w} /\ UNCHANGED <<wsStatus, wsKey, wsCoder>>

Busy(w) == \E j \in Inv : invStatus[j] = "running" /\ invWs[j] = w

(* Mutant: destroyed rows are taken for stopped ones.                      *)
PooledWithDestroyed(s, k) ==
  {w \in Ws : /\ wsStatus[w] = s \/ (s = "stopped" /\ wsStatus[w] = "destroyed")
              /\ wsKey[w] = k}

Pooled(s, k) == {w \in Ws : wsStatus[w] = s /\ wsKey[w] = k}
(* Mutant: any idle running workspace, whatever its pool key.              *)
IdleRunningAnyKey(k) == {w \in Ws : wsStatus[w] = "running" /\ ~Busy(w)}

IdleRunning(k) == {w \in Pooled("running", k) : ~Busy(w)}

-----------------------------------------------------------------------------
(* create_invocation: INSERT, then spawn the background task.              *)
CreateInvocation(i, k) ==
  /\ pc[i] = "none"
  /\ invStatus' = [invStatus EXCEPT ![i] = "pending"]
  /\ invKey' = [invKey EXCEPT ![i] = k]
  /\ Goto(i, "resolve")
  /\ UNCHANGED <<wsVars, opVars, invWs, invAged, proc, sweepVars, crashes>>

(* ... with an explicit workspace: it only has to exist in the project.    *)
CreateInvocationIn(i, k, w) ==
  /\ Explicit
  /\ pc[i] = "none" /\ wsStatus[w] # "absent"
  /\ invStatus' = [invStatus EXCEPT ![i] = "pending"]
  /\ invKey' = [invKey EXCEPT ![i] = k]
  /\ invWs' = [invWs EXCEPT ![i] = w]
  /\ Goto(i, "load")
  /\ UNCHANGED <<wsVars, opVars, invAged, proc, sweepVars, crashes>>

(* The locked phase of resolve_workspace_with_client: one transaction      *)
(* under the advisory lock of the pool key.  Which of several candidates   *)
(* the ORDER BY picks is left open.                                        *)
ResolveUseRunning(i) ==
  /\ pc[i] = "resolve"
  /\ \E w \in IdleRunning(invKey[i]) : GotoWith(i, "stamp", w)
  /\ UNCHANGED <<wsVars, opVars, invVars, proc, sweepVars, crashes>>

(* Mutant: the row is not set to 'running' inside the lock.                *)
ResolveWakeLate(i) ==
  /\ pc[i] = "resolve"
  /\ IdleRunning(invKey[i]) = {}
  /\ \E w \in Pooled("stopped", invKey[i]) : wsCoder[w] /\ GotoWith(i, "wakeCall", w)
  /\ UNCHANGED <<wsVars, opVars, invVars, proc, sweepVars, crashes>>

ResolveWake(i) ==
  /\ pc[i] = "resolve"
  /\ IdleRunning(invKey[i]) = {}
  /\ \E w \in Pooled("stopped", invKey[i]) :
       /\ wsCoder[w]
       /\ SetStatus(w, "running")
       /\ GotoWith(i, "wakeCall", w)
  /\ UNCHANGED <<opVars, invVars, proc, sweepVars, crashes>>

(* A stopped row without a Coder id also falls through to this branch.     *)
ResolveCreate(i) ==
  /\ pc[i] = "resolve"
  /\ IdleRunning(invKey[i]) = {}
  /\ \/ Pooled("stopped", invKey[i]) = {}
     \/ \E w \in Pooled("stopped", invKey[i]) : ~wsCoder[w]
  /\ \E w \in Ws : /\ InsertRow(w, invKey[i], "creating")
                   /\ GotoWith(i, "template", w)
  /\ UNCHANGED <<opVars, invVars, proc, sweepVars, crashes>>

Resolve(i) == ResolveUseRunning(i) \/ ResolveWake(i) \/ ResolveCreate(i)

(* wake_workspace: start the Coder workspace, then poll until it is ready; *)
(* either failure puts the row back to 'stopped', whatever it is by then.  *)
WakeCall(i) ==
  /\ pc[i] = "wakeCall"
  /\ \/ Touch(taskWs[i]) /\ Goto(i, "wakeReady")
     \/ SetStatus(taskWs[i], "stopped") /\ Goto(i, "failPending")
  /\ UNCHANGED <<opVars, invVars, proc, sweepVars, crashes>>

WakeReady(i) ==
  /\ pc[i] = "wakeReady"
  /\ \/ UNCHANGED wsVars /\ Goto(i, "stamp")
     \/ SetStatus(taskWs[i], "stopped") /\ Goto(i, "failPending")
  /\ UNCHANGED <<opVars, invVars, proc, sweepVars, crashes>>

(* provision_pool_workspace: no template leaves the row 'creating'; the    *)
(* row is 'running' from the create call on, before the workspace is ready.*)
ProvisionPoolTemplate(i) ==
  /\ pc[i] = "template"
  /\ Goto(i, "create") \/ Goto(i, "failPending")
  /\ UNCHANGED <<wsVars, opVars, invVars, proc, sweepVars, crashes>>

ProvisionPoolCreate(i) ==
  /\ pc[i] = "create"
  /\ \/ SetCreated(taskWs[i]) /\ Goto(i, "createReady")
     \/ SetStatus(taskWs[i], "failed") /\ Goto(i, "failPending")
  /\ UNCHANGED <<opVars, invVars, proc, sweepVars, crashes>>

ProvisionPoolReady(i) ==
  /\ pc[i] = "createReady"
  /\ \/ UNCHANGED wsVars /\ Goto(i, "stamp")
     \/ SetStatus(taskWs[i], "failed") /\ Goto(i, "failPending")
  /\ UNCHANGED <<opVars, invVars, proc, sweepVars, crashes>>

(* UPDATE ... SET workspace_id WHERE status = 'pending', then dispatch     *)
(* whether or not a row matched.                                           *)
Stamp(i) ==
  /\ pc[i] = "stamp"
  /\ IF invStatus[i] = "pending"
       THEN invWs' = [invWs EXCEPT ![i] = taskWs[i]]
       ELSE UNCHANGED invWs
  /\ Goto(i, "load")
  /\ UNCHANGED <<wsVars, opVars, invStatus, invKey, invAged, proc, sweepVars,
                 crashes>>

(* The error path of phase 1.  The UPDATE itself may fail: it is logged.   *)
FailPending(i) ==
  /\ pc[i] = "failPending"
  /\ FailIf(i, "pending") \/ ("db" \in Faults /\ UNCHANGED invVars)
  /\ Goto(i, "dead")
  /\ UNCHANGED <<wsVars, opVars, proc, sweepVars, crashes>>

-----------------------------------------------------------------------------
(* dispatch_invocation: the row must have a workspace, and the workspace   *)
(* must be running and known to Coder; the row's own status is not looked  *)
(* at.                                                                     *)
Load(i) ==
  /\ pc[i] = "load"
  /\ LET w == invWs[i] IN
       IF w \in Ws /\ wsStatus[w] = "running" /\ wsCoder[w]
         THEN GotoWith(i, "mark", w)
         ELSE Goto(i, "failRunning")
  /\ UNCHANGED <<wsVars, opVars, invVars, proc, sweepVars, crashes>>

(* Mutant: no unique index on running rows.                                *)
MarkNoIndex(i) ==
  /\ pc[i] = "mark"
  /\ SetInv(i, "running") /\ Touch(taskWs[i]) /\ Goto(i, "startup")
  /\ UNCHANGED <<opVars, proc, sweepVars, crashes>>

(* UPDATE ... SET status = 'running' WHERE id = i: unconditional, but the  *)
(* index invocations_one_running_per_workspace rejects a second running    *)
(* row of a workspace.                                                     *)
Mark(i) ==
  /\ pc[i] = "mark"
  /\ IF \E j \in Inv \ {i} : invStatus[j] = "running" /\ invWs[j] = invWs[i]
       THEN Goto(i, "failRunning") /\ UNCHANGED <<wsVars, invVars>>
       ELSE SetInv(i, "running") /\ Touch(taskWs[i]) /\ Goto(i, "startup")
  /\ UNCHANGED <<opVars, proc, sweepVars, crashes>>

(* The probes for the startup sentinel and for the credentials, and the    *)
(* spawn of the agent; or the sentinel is not there after 300 s, or the    *)
(* spawn fails.  A probe is a `coder ssh` awaited without a timeout (the   *)
(* 300 s are looked at between probes only), so the step may never come.   *)
Startup(i) ==
  /\ pc[i] = "startup"
  /\ \/ proc' = [proc EXCEPT ![i] = "open"] /\ Goto(i, "drain")
     \/ UNCHANGED proc /\ Goto(i, "failRunning")
  /\ UNCHANGED <<wsVars, opVars, invVars, sweepVars, crashes>>

(* The loop over the output lines ends when stdout and stderr are closed;  *)
(* no timeout applies to it.                                               *)
Drain(i) ==
  /\ pc[i] = "drain"
  /\ proc[i] # "open"
  /\ Goto(i, "reap")
  /\ UNCHANGED <<wsVars, opVars, invVars, proc, sweepVars, crashes>>

(* Mutant: the verdict is written once the output is closed.               *)
ReapExitEarly(i) ==
  /\ pc[i] = "reap" /\ proc[i] # "open"
  /\ SetInv(i, "completed") \/ SetInv(i, "failed")
  /\ Touch(taskWs[i])
  /\ Goto(i, "dead")
  /\ UNCHANGED <<opVars, proc, sweepVars, crashes>>

(* Mutant: the timeout fails the row and leaves the child alone.           *)
ReapTimeoutNoKill(i) ==
  /\ pc[i] = "reap" /\ proc[i] = "mute"
  /\ SetInv(i, "failed")
  /\ Goto(i, "dead")
  /\ UNCHANGED <<wsVars, opVars, proc, sweepVars, crashes>>

(* child.wait() under DISPATCH_TIMEOUT, and the unconditional verdict.     *)
ReapExit(i) ==
  /\ pc[i] = "reap" /\ proc[i] = "ended"
  /\ SetInv(i, "completed") \/ SetInv(i, "failed")
  /\ Touch(taskWs[i])
  /\ Goto(i, "dead")
  /\ UNCHANGED <<opVars, proc, sweepVars, crashes>>

ReapTimeout(i) ==
  /\ pc[i] = "reap" /\ proc[i] = "mute"
  /\ proc' = [proc EXCEPT ![i] = "ended"]
  /\ SetInv(i, "failed")
  /\ Goto(i, "dead")
  /\ UNCHANGED <<wsVars, opVars, sweepVars, crashes>>

ReapIoError(i) ==
  /\ "db" \in Faults
  /\ pc[i] = "reap"
  /\ proc' = [proc EXCEPT ![i] = "ended"]
  /\ SetInv(i, "failed")
  /\ Goto(i, "failRunning")
  /\ UNCHANGED <<wsVars, opVars, sweepVars, crashes>>

(* dispatch_invocation returned an error or panicked: the row is failed    *)
(* only if it is running.                                                  *)
FailRunning(i) ==
  /\ pc[i] = "failRunning"
  /\ FailIf(i, "running") \/ ("db" \in Faults /\ UNCHANGED invVars)
  /\ Goto(i, "dead")
  /\ UNCHANGED <<wsVars, opVars, proc, sweepVars, crashes>>

(* A statement of the task fails (its `?` returns the error), or dispatch  *)
(* panics (caught by catch_unwind).  A child that runs is not killed.      *)
TaskFault(i) ==
  /\ \/ "db" \in Faults /\ pc[i] \in ResolvePc /\ Goto(i, "failPending")
     \/ Faults # {} /\ pc[i] \in DispatchPc /\ Goto(i, "failRunning")
  /\ UNCHANGED <<wsVars, opVars, invVars, proc, sweepVars, crashes>>

(* The steps that wait for nothing without a bound, but for Drain, whose   *)
(* guard says what it waits for; and those of the child processes.         *)
OwnStep(i) ==
  \/ Resolve(i) \/ WakeCall(i) \/ WakeReady(i)
  \/ ProvisionPoolTemplate(i) \/ ProvisionPoolCreate(i) \/ ProvisionPoolReady(i)
  \/ Stamp(i) \/ FailPending(i)
  \/ Load(i) \/ Mark(i) \/ Drain(i)
  \/ ReapExit(i) \/ ReapTimeout(i) \/ FailRunning(i)

TaskStep(i) == OwnStep(i) \/ Startup(i)

(* The agent closes its output, or ends; it need not do either.            *)
ProcStep(i) ==
  /\ \/ proc[i] = "open" /\ proc' = [proc EXCEPT ![i] = "mute"]
     \/ proc[i] \in {"open", "mute"} /\ proc' = [proc EXCEPT ![i] = "ended"]
  /\ UNCHANGED <<wsVars, opVars, invVars, taskVars, sweepVars, crashes>>

-----------------------------------------------------------------------------
(* Time passes until a row is older than the threshold cleanup compares it *)
(* with.  With Timely, only where the code's own timeouts let it: resolving*)
(* is bounded by the Coder client's timeouts and 60 s / 120 s of polling,  *)
(* far below 10 and 30 minutes; startup and draining are not bounded.      *)
TaskHolds(w) == \E i \in Inv : taskWs[i] = w /\ pc[i] \in ResolvePc

AgeWorkspace(w) ==
  /\ wsStatus[w] \in {"creating", "stopping"} /\ w \notin wsAged
  /\ Timely => ~OpHolds(w) /\ ~TaskHolds(w)
  /\ wsAged' = wsAged \cup {w}
  /\ UNCHANGED <<wsStatus, wsKey, wsCoder, opVars, invVars, taskVars, proc,
                 sweepVars, crashes>>

AgeInvocation(i) ==
  /\ i \notin invAged
  /\ \/ invStatus[i] = "pending" /\ (Timely => pc[i] = "dead")
     \/ invStatus[i] = "running" /\ (Timely => pc[i] \in {"startup", "drain", "reap", "dead"})
  /\ invAged' = invAged \cup {i}
  /\ UNCHANGED <<wsVars, opVars, invStatus, invKey, invWs, taskVars, proc,
                 sweepVars, crashes>>

(* Mutants: a pass that forgets 'creating'; one that only takes rows whose *)
(* workspace is still NULL; one that does not look at the age.             *)
StuckWorkspacesStopping == {w \in wsAged : wsStatus[w] = "stopping"}
StuckPendingUnresolved == {i \in invAged : invStatus[i] = "pending" /\ invWs[i] = NoWs}
StuckPendingAnyAge == {i \in Inv : invStatus[i] = "pending"}

(* The three passes of the cleanup loop.  A pass selects its rows in one   *)
(* statement and then updates them one at a time.                          *)
StuckWorkspaces == {w \in wsAged : wsStatus[w] \in {"creating", "stopping"}}
StuckPending == {i \in invAged : invStatus[i] = "pending"}
StuckRunning == {i \in invAged : invStatus[i] = "running"}

SweepBegin(pass, rows) ==
  /\ sweep = "idle" /\ rows # {}
  /\ sweep' = pass /\ swept' = rows
  /\ UNCHANGED <<wsVars, opVars, invVars, taskVars, proc, crashes>>

SweepSelect == \/ SweepBegin("workspaces", StuckWorkspaces)
               \/ SweepBegin("pending", StuckPending)
               \/ SweepBegin("running", StuckRunning)

SweepNext(r) ==
  /\ swept' = swept \ {r}
  /\ sweep' = IF swept = {r} THEN "idle" ELSE sweep

SweepWorkspace(w) ==
  /\ sweep = "workspaces" /\ w \in swept
  /\ SetStatus(w, "failed")
  /\ SweepNext(w)
  /\ UNCHANGED <<opVars, invVars, taskVars, proc, crashes>>

SweepPending(i) ==
  /\ sweep = "pending" /\ i \in swept
  /\ FailIf(i, "pending")
  /\ SweepNext(i)
  /\ UNCHANGED <<wsVars, opVars, taskVars, proc, crashes>>

SweepRunning(i) ==
  /\ sweep = "running" /\ i \in swept
  /\ SetInv(i, "failed")
  /\ SweepNext(i)
  /\ UNCHANGED <<wsVars, opVars, taskVars, proc, crashes>>

(* An UPDATE of the pass fails: logged, the next row is tried.             *)
SweepFault(r) ==
  /\ "sweep" \in Faults
  /\ r \in swept
  /\ SweepNext(r)
  /\ UNCHANGED <<wsVars, opVars, invVars, taskVars, proc, crashes>>

SweepStep == \/ SweepSelect
             \/ \E w \in Ws : SweepWorkspace(w)
             \/ \E i \in Inv : SweepPending(i) \/ SweepRunning(i)

-----------------------------------------------------------------------------
(* The server dies: background tasks and handlers are gone; the agents     *)
(* they spawned may survive (no kill_on_drop).                             *)
ServerCrash ==
  /\ crashes < MaxCrashes
  /\ crashes' = crashes + 1
  /\ pc' = [i \in Inv |-> IF pc[i] = "none" THEN "none" ELSE "dead"]
  /\ opPc' = [o \in Op |-> IF opPc[o] = "idle" THEN "idle" ELSE "done"]
  /\ \E S \in SUBSET {i \in Inv : proc[i] \in {"open", "mute"}} :
       proc' = [i \in Inv |-> IF i \in S THEN "ended" ELSE proc[i]]
  /\ UNCHANGED <<wsVars, opWs, invVars, taskWs, sweepVars>>

WorkerCrash ==
  /\ crashes < MaxCrashes /\ sweep # "idle"
  /\ crashes' = crashes + 1
  /\ sweep' = "idle" /\ swept' = {}
  /\ UNCHANGED <<wsVars, opVars, invVars, taskVars, proc>>

UserStep ==
  \/ \E i \in Inv, k \in Key : CreateInvocation(i, k)
  \/ \E i \in Inv, k \in Key, w \in Ws : CreateInvocationIn(i, k, w)
  \/ /\ \E o \in Op, w \in Ws : OpRequest(o, w)
     /\ UNCHANGED <<invVars, taskVars, proc, sweepVars, crashes>>

OpProgress(o) ==
  OpStep(o) /\ UNCHANGED <<invVars, taskVars, proc, sweepVars, crashes>>

(* Every task and handler has ended and no row is left to sweep.           *)
Quiet ==
  /\ \A i \in Inv : pc[i] = "dead" /\ proc[i] \in {"none", "ended"}
  /\ UNCHANGED vars

Next ==
  \/ UserStep
  \/ \E o \in Op : OpProgress(o)
  \/ \E i \in Inv : TaskStep(i) \/ ReapIoError(i) \/ TaskFault(i) \/ ProcStep(i)
  \/ \E w \in Ws : AgeWorkspace(w)
  \/ \E i \in Inv : AgeInvocation(i)
  \/ SweepStep
  \/ \E r \in Ws \cup Inv : SweepFault(r)
  \/ ServerCrash \/ WorkerCrash
  \/ Quiet

Spec == Init /\ [][Next]_vars

(* Some task or handler of the server takes a step whenever one can: their *)
(* calls to Coder have timeouts.  The probes of Startup owe nothing.       *)
RuntimeStep == \/ \E i \in Inv : OwnStep(i)
               \/ \E o \in Op : OpProgress(o)

TimePasses == \/ \E w \in Ws : AgeWorkspace(w)
              \/ \E i \in Inv : AgeInvocation(i)

(* The server runs, time passes and the worker keeps sweeping.  Probes,    *)
(* agents, users and crashes owe nothing, and no single task is favoured.  *)
Fairness == WF_vars(RuntimeStep) /\ WF_vars(TimePasses) /\ WF_vars(SweepStep)

FairSpec == Spec /\ Fairness

-----------------------------------------------------------------------------
(* At most one running invocation per workspace (migrations/046): the index*)
(* holds whatever order resolutions, dispatches and sweeps come in.        *)
OneRunningPerWorkspace ==
  \A i, j \in Inv : i # j /\ invStatus[i] = "running" /\ invStatus[j] = "running"
                      => invWs[i] # invWs[j]

(* A workspace that can be used, stopped or woken is known to Coder, so the*)
(* wake of a stopped row never meets a NULL id and dispatch never meets a  *)
(* running row without a name.                                             *)
UsableHasCoder ==
  \A w \in Ws : wsStatus[w] \in {"running", "stopping", "stopped"} => wsCoder[w]

(* The pool hands a task only workspaces of its own pool key (project, user*)
(* and branch), on each of its three branches (pool_key_for's comment).    *)
PoolIsolation ==
  \A i \in Inv : pc[i] \in ResolvePc \ {"resolve"} => wsKey[taskWs[i]] = invKey[i]

(* A row says 'completed' only when its agent is over, also after crashes, *)
(* panics and sweeps.                                                      *)
CompletedIsOver ==
  \A i \in Inv : invStatus[i] = "completed" => proc[i] = "ended"

(* Without faults and crashes every way out of the background task leaves  *)
(* its row not 'running' and its agent over.                               *)
NoOrphan ==
  Faults = {} /\ crashes = 0 =>
    \A i \in Inv : pc[i] = "dead" =>
      invStatus[i] # "running" /\ proc[i] \in {"none", "ended"}

(* A second task wakes the same workspace only after a stop request: the   *)
(* optimistic 'running' of the locked phase keeps the others off.          *)
Wakers(w) == {i \in Inv : pc[i] \in {"wakeCall", "wakeReady"} /\ taskWs[i] = w}
WakersBoundedByStops ==
  \A w \in Ws : Cardinality(Wakers(w)) <= 1 + Cardinality({o \in Op : opWs[o] = w})

(* A verdict is never withdrawn: an invocation that completed or failed is *)
(* not made pending or running again, although dispatch marks it 'running' *)
(* without looking at its status.  Verdicts may be corrected.              *)
NoReactivation ==
  [][\A i \in Inv : invStatus[i] \in Terminal => invStatus'[i] \in Terminal]_vars

(* A destroyed workspace comes back only at the hands of a task, handler or*)
(* sweep that had read it before; resolution never picks it.               *)
DestroyedNotReused ==
  [][\A w \in Ws : wsStatus[w] = "destroyed" /\ ~OpHolds(w) /\ ~TaskHolds(w)
                     /\ w \notin swept => wsStatus'[w] = "destroyed"]_vars

(* Every request ends in a verdict and stays there, through crashes, agents*)
(* that hang and dispatch errors that leave the row pending.               *)
EventuallySettled ==
  \A i \in Inv : invStatus[i] # "absent" ~> [](invStatus[i] \in Terminal)

(* No workspace stays 'creating' or 'stopping', whoever died over it.      *)
WorkspacesUnstuck ==
  \A w \in Ws : wsStatus[w] \in {"creating", "stopping"}
                  ~> wsStatus[w] \notin {"creating", "stopping"}
-----------------------------------------------------------------------------
(* The abstract view: a row's status gives its phase, the running rows give*)
(* who runs where.                                                         *)
AbsPhase == [i \in Inv |-> CASE invStatus[i] = "absent"  -> "none"
                             [] invStatus[i] = "pending" -> "waiting"
                             [] invStatus[i] = "running" -> "active"
                             [] OTHER                    -> "settled"]
AbsRunning ==
  {p \in Ws \X Inv : invStatus[p[2]] = "running" /\ invWs[p[2]] = p[1]}

Slots == INSTANCE WorkspaceSlots WITH phase <- AbsPhase, running <- AbsRunning

(* Dispatch, sweeps and crashes together implement exclusive slots with one*)
(* verdict per request.                                                    *)
ImplementsSlots == Slots!Spec
=============================================================================
