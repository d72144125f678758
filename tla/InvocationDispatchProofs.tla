---------------------- MODULE InvocationDispatchProofs ----------------------
(***************************************************************************)
(* Theorems about InvocationDispatch, for every number of workspaces, user *)
(* requests, invocations, keys and crashes.                                *)
(***************************************************************************)
EXTENDS InvocationDispatch, TLAPS, FiniteSetTheorems

-----------------------------------------------------------------------------
(* Every step keeps every variable within its type.                        *)
LEMMA TypeInit == Init => TypeOK
  BY DispatchAssumption DEF Init, TypeOK, WorkspacesInit, WorkspacesTypeOK,
     WsStatus, OpPc, InvStatus, TaskPc, ResolvePc, DispatchPc

LEMMA TypeNext == TypeOK /\ [Next]_vars => TypeOK'
<1> SUFFICES ASSUME TypeOK, [Next]_vars PROVE TypeOK'
  OBVIOUS
<1> USE DispatchAssumption
        DEF TypeOK, WorkspacesTypeOK, WsStatus, OpPc, InvStatus, TaskPc, ResolvePc,
            DispatchPc, wsVars, opVars, invVars, taskVars, sweepVars,
            SetStatus, SetCreated, InsertRow, Touch, Goto, GotoWith, SetInv, FailIf
<1>1. ASSUME NEW i \in Inv, NEW k \in Key,
             \/ CreateInvocation(i, k)
             \/ \E w \in Ws : CreateInvocationIn(i, k, w)
      PROVE TypeOK'
  BY <1>1 DEF CreateInvocation, CreateInvocationIn
<1>2. ASSUME NEW o \in Op, NEW w \in Ws, OpRequest(o, w),
             UNCHANGED <<invVars, taskVars, proc, sweepVars, crashes>>
      PROVE TypeOK'
  BY <1>2 DEF OpRequest, CreateWorkspace, StopRead, DestroyRead, OpBegin
<1>3. ASSUME NEW o \in Op, OpProgress(o) PROVE TypeOK'
  BY <1>3 DEF OpProgress, OpStep, OpGoto, ProvisionMark, ProvisionTemplate,
              ProvisionCreate, StopMark, StopCall, DestroyCall
<1>4. ASSUME NEW i \in Inv,
             \/ Resolve(i) \/ WakeCall(i) \/ WakeReady(i)
             \/ ProvisionPoolTemplate(i) \/ ProvisionPoolCreate(i)
             \/ ProvisionPoolReady(i)
      PROVE TypeOK'
  <2>1. CASE Resolve(i)
    BY <1>4, <2>1 DEF Resolve, ResolveUseRunning, ResolveWake, ResolveCreate,
                      IdleRunning, Pooled
  <2>2. CASE WakeCall(i) \/ WakeReady(i)
    BY <1>4, <2>2 DEF WakeCall, WakeReady
  <2>3. CASE ProvisionPoolTemplate(i) BY <2>3 DEF ProvisionPoolTemplate
  <2>4. CASE ProvisionPoolCreate(i)
    <3>1. pc' \in [Inv -> TaskPc] /\ UNCHANGED taskWs
      BY <2>4 DEF ProvisionPoolCreate
    <3>2. WorkspacesTypeOK'
      BY <2>4 DEF ProvisionPoolCreate
    <3> QED BY <2>4, <3>1, <3>2 DEF ProvisionPoolCreate
  <2>5. CASE ProvisionPoolReady(i) BY <2>5 DEF ProvisionPoolReady
  <2> QED BY <1>4, <2>1, <2>2, <2>3, <2>4, <2>5
<1>5. ASSUME NEW i \in Inv,
             \/ Stamp(i) \/ FailPending(i) \/ Load(i) \/ Mark(i) \/ Startup(i)
             \/ Drain(i) \/ FailRunning(i)
      PROVE TypeOK'
  <2>1. CASE Stamp(i)       BY <2>1 DEF Stamp
  <2>2. CASE FailPending(i) BY <2>2 DEF FailPending
  <2>3. CASE Load(i)        BY <2>3 DEF Load
  <2>4. CASE Mark(i)        BY <2>4 DEF Mark
  <2>5. CASE Startup(i)     BY <2>5 DEF Startup
  <2>6. CASE Drain(i)       BY <2>6 DEF Drain
  <2>7. CASE FailRunning(i) BY <2>7 DEF FailRunning
  <2> QED BY <1>5, <2>1, <2>2, <2>3, <2>4, <2>5, <2>6, <2>7
<1>6. ASSUME NEW i \in Inv,
             \/ ReapExit(i) \/ ReapTimeout(i) \/ ReapIoError(i) \/ TaskFault(i)
             \/ ProcStep(i)
      PROVE TypeOK'
  BY <1>6 DEF ReapExit, ReapTimeout, ReapIoError, TaskFault, ProcStep
<1>7. ASSUME NEW w \in Ws, AgeWorkspace(w) \/ SweepWorkspace(w) PROVE TypeOK'
  BY <1>7 DEF AgeWorkspace, SweepWorkspace, SweepNext
<1>8. ASSUME NEW i \in Inv, AgeInvocation(i) \/ SweepPending(i) \/ SweepRunning(i)
      PROVE TypeOK'
  BY <1>8 DEF AgeInvocation, SweepPending, SweepRunning, SweepNext
<1>9. CASE SweepSelect
  BY <1>9 DEF SweepSelect, SweepBegin, StuckWorkspaces, StuckPending, StuckRunning
<1>10. ASSUME NEW r \in Ws \cup Inv, SweepFault(r) PROVE TypeOK'
  BY <1>10 DEF SweepFault, SweepNext
<1>11. CASE ServerCrash
  BY <1>11 DEF ServerCrash
<1>12. CASE WorkerCrash
  BY <1>12 DEF WorkerCrash
<1>13. CASE UNCHANGED vars
  BY <1>13 DEF vars
<1> QED
  BY <1>1, <1>2, <1>3, <1>4, <1>5, <1>6, <1>7, <1>8, <1>9, <1>10, <1>11, <1>12,
     <1>13 DEF Next, UserStep, TaskStep, OwnStep, SweepStep, Quiet

(* TypeOK holds of every reachable state.                                  *)
THEOREM TypeCorrect == Spec => []TypeOK
  BY TypeInit, TypeNext, PTL DEF Spec

-----------------------------------------------------------------------------
(* What a task holds between resolution and stamp is an existing row of its*)
(* own pool key; what it wakes, has created or what a stop request works on*)
(* is known to Coder.  This makes UsableHasCoder and PoolIsolation         *)
(* inductive.                                                              *)
HoldPc == ResolvePc \ {"resolve"}

TaskOwns ==
  \A i \in Inv : pc[i] \in HoldPc =>
    /\ taskWs[i] \in Ws
    /\ wsStatus[taskWs[i]] # "absent"
    /\ wsKey[taskWs[i]] = invKey[i]

WakersKnown ==
  \A i \in Inv : pc[i] \in {"wakeCall", "wakeReady", "createReady"} => wsCoder[taskWs[i]]

StoppersKnown ==
  \A o \in Op : opPc[o] \in {"stopMark", "stopCall"} =>
    opWs[o] \in Ws /\ wsCoder[opWs[o]]

PoolInv == TypeOK /\ TaskOwns /\ WakersKnown /\ StoppersKnown /\ UsableHasCoder

LEMMA PoolInit == Init => PoolInv
<1> SUFFICES ASSUME Init PROVE PoolInv
  OBVIOUS
<1>1. TypeOK
  BY TypeInit
<1>2. UsableHasCoder
  BY DEF Init, WorkspacesInit, UsableHasCoder
<1>3. TaskOwns /\ WakersKnown /\ StoppersKnown
  BY DEF Init, WorkspacesInit, TaskOwns, WakersKnown, StoppersKnown, HoldPc, ResolvePc
<1> QED BY <1>1, <1>2, <1>3 DEF PoolInv

LEMMA PoolNext == PoolInv /\ [Next]_vars => PoolInv'
<1> SUFFICES ASSUME PoolInv, [Next]_vars PROVE PoolInv'
  OBVIOUS
<1> TypeOK /\ TypeOK'
  BY TypeNext DEF PoolInv
<1> USE DispatchAssumption, WorkspacesAssumption
        DEF PoolInv, TaskOwns, WakersKnown, StoppersKnown, UsableHasCoder, HoldPc,
            TypeOK, WorkspacesTypeOK, ResolvePc, DispatchPc,
            wsVars, opVars, invVars, taskVars, sweepVars,
            SetStatus, SetCreated, InsertRow, Touch, Goto, GotoWith, SetInv, FailIf
<1>1. ASSUME NEW i \in Inv, NEW k \in Key,
             \/ CreateInvocation(i, k)
             \/ \E w \in Ws : CreateInvocationIn(i, k, w)
      PROVE PoolInv'
  BY <1>1 DEF CreateInvocation, CreateInvocationIn
<1>2. ASSUME NEW o \in Op, NEW w \in Ws, OpRequest(o, w),
             UNCHANGED <<invVars, taskVars, proc, sweepVars, crashes>>
      PROVE PoolInv'
  BY <1>2 DEF OpRequest, CreateWorkspace, StopRead, DestroyRead, OpBegin
<1>3. ASSUME NEW o \in Op, OpProgress(o) PROVE PoolInv'
  <2>1. CASE ProvisionMark(o) \/ ProvisionTemplate(o)
    BY <1>3, <2>1 DEF OpProgress, OpGoto, ProvisionMark, ProvisionTemplate
  <2>2. CASE ProvisionCreate(o)
    BY <1>3, <2>2 DEF OpProgress, OpGoto, ProvisionCreate
  <2>3. CASE StopMark(o) \/ StopCall(o)
    BY <1>3, <2>3 DEF OpProgress, OpGoto, StopMark, StopCall
  <2>4. CASE DestroyCall(o)
    BY <1>3, <2>4 DEF OpProgress, OpGoto, DestroyCall
  <2> QED BY <1>3, <2>1, <2>2, <2>3, <2>4 DEF OpProgress, OpStep
<1>4. ASSUME NEW i \in Inv, TaskStep(i) PROVE PoolInv'
  <2>1. CASE ResolveUseRunning(i)
    BY <2>1 DEF ResolveUseRunning, IdleRunning, Pooled
  <2>2. CASE ResolveWake(i)
    BY <2>2 DEF ResolveWake, IdleRunning, Pooled
  <2>3. CASE ResolveCreate(i)
    <3>1. PICK w \in Ws : InsertRow(w, invKey[i], "creating") /\ GotoWith(i, "template", w)
      BY <2>3 DEF ResolveCreate
    <3>2. \A j \in Inv \ {i} : pc[j] \in HoldPc => taskWs[j] # w
      BY <3>1
    <3> QED BY <2>3, <3>1, <3>2 DEF ResolveCreate
  <2>4. CASE WakeCall(i)
    BY <2>4 DEF WakeCall
  <2>5. CASE WakeReady(i)
    BY <2>5 DEF WakeReady
  <2>6. CASE ProvisionPoolTemplate(i)
    BY <2>6 DEF ProvisionPoolTemplate
  <2>7. CASE ProvisionPoolCreate(i)
    <3>1. CASE SetCreated(taskWs[i]) /\ Goto(i, "createReady")
      BY <2>7, <3>1 DEF ProvisionPoolCreate
    <3>2. CASE SetStatus(taskWs[i], "failed") /\ Goto(i, "failPending")
      BY <2>7, <3>2 DEF ProvisionPoolCreate
    <3> QED BY <2>7, <3>1, <3>2 DEF ProvisionPoolCreate
  <2>8. CASE ProvisionPoolReady(i)
    BY <2>8 DEF ProvisionPoolReady
  <2>9. CASE Stamp(i) \/ FailPending(i)
    BY <2>9 DEF Stamp, FailPending
  <2>10. CASE Load(i) \/ Mark(i)
    BY <2>10 DEF Load, Mark
  <2>11. CASE Startup(i) \/ Drain(i) \/ FailRunning(i)
    BY <2>11 DEF Startup, Drain, FailRunning
  <2>12. CASE ReapExit(i) \/ ReapTimeout(i)
    BY <2>12 DEF ReapExit, ReapTimeout
  <2> QED BY <1>4, <2>1, <2>2, <2>3, <2>4, <2>5, <2>6, <2>7, <2>8, <2>9, <2>10, <2>11,
             <2>12 DEF TaskStep, OwnStep, Resolve
<1>5. ASSUME NEW i \in Inv, ReapIoError(i) \/ TaskFault(i) \/ ProcStep(i) PROVE PoolInv'
  BY <1>5 DEF ReapIoError, TaskFault, ProcStep
<1>6. ASSUME NEW w \in Ws, AgeWorkspace(w) \/ SweepWorkspace(w) PROVE PoolInv'
  BY <1>6 DEF AgeWorkspace, SweepWorkspace, SweepNext
<1>7. ASSUME NEW i \in Inv, AgeInvocation(i) \/ SweepPending(i) \/ SweepRunning(i)
      PROVE PoolInv'
  BY <1>7 DEF AgeInvocation, SweepPending, SweepRunning, SweepNext
<1>8. CASE SweepSelect \/ WorkerCrash \/ (\E r \in Ws \cup Inv : SweepFault(r))
  BY <1>8 DEF SweepSelect, SweepBegin, WorkerCrash, SweepFault
<1>9. CASE ServerCrash
  BY <1>9 DEF ServerCrash
<1>10. CASE UNCHANGED vars
  BY <1>10 DEF vars
<1> QED
  BY <1>1, <1>2, <1>3, <1>4, <1>5, <1>6, <1>7, <1>8, <1>9, <1>10
     DEF Next, UserStep, SweepStep, Quiet

(* A workspace in use is known to Coder.                                   *)
THEOREM UsableCorrect == Spec => []UsableHasCoder
<1>1. PoolInv => UsableHasCoder
  BY DEF PoolInv
<1> QED BY PoolInit, PoolNext, <1>1, PTL DEF Spec

(* No task is ever handed, wakes or provisions a workspace of another pool *)
(* key.                                                                    *)
THEOREM PoolIsolated == Spec => []PoolIsolation
<1>1. PoolInv => PoolIsolation
  BY DEF PoolInv, TaskOwns, PoolIsolation, HoldPc
<1> QED BY PoolInit, PoolNext, <1>1, PTL DEF Spec

-----------------------------------------------------------------------------
(* A row is 'completed' only by the last step of its task, when the agent  *)
(* is over; a task that has died never starts another.                     *)
VerdictInv ==
  /\ TypeOK
  /\ OneRunningPerWorkspace
  /\ \A i \in Inv : invStatus[i] = "completed" => pc[i] = "dead" /\ proc[i] = "ended"

LEMMA VerdictInit == Init => VerdictInv
  BY TypeInit DEF Init, VerdictInv, OneRunningPerWorkspace

LEMMA VerdictNext == VerdictInv /\ [Next]_vars => VerdictInv'
<1> SUFFICES ASSUME VerdictInv, [Next]_vars PROVE VerdictInv'
  OBVIOUS
<1> TypeOK /\ TypeOK'
  BY TypeNext DEF VerdictInv
<1> USE DEF VerdictInv, OneRunningPerWorkspace, TypeOK, ResolvePc, DispatchPc,
            wsVars, opVars, invVars, taskVars, sweepVars,
            Goto, GotoWith, SetInv, FailIf
<1>1. ASSUME NEW i \in Inv, NEW k \in Key,
             \/ CreateInvocation(i, k)
             \/ \E w \in Ws : CreateInvocationIn(i, k, w)
      PROVE VerdictInv'
  BY <1>1 DEF CreateInvocation, CreateInvocationIn
<1>2. ASSUME UNCHANGED <<invVars, taskVars, proc>> PROVE VerdictInv'
  BY <1>2
<1>3. ASSUME NEW i \in Inv, TaskStep(i) PROVE VerdictInv'
  <2>1. CASE Resolve(i) \/ WakeCall(i) \/ WakeReady(i) \/ ProvisionPoolTemplate(i)
             \/ ProvisionPoolCreate(i) \/ ProvisionPoolReady(i)
    BY <2>1 DEF Resolve, ResolveUseRunning, ResolveWake, ResolveCreate, WakeCall, WakeReady,
                ProvisionPoolTemplate, ProvisionPoolCreate, ProvisionPoolReady
  <2>2. CASE Stamp(i)
    BY <2>2 DEF Stamp
  <2>3. CASE FailPending(i)
    BY <2>3 DEF FailPending
  <2>4. CASE Load(i)
    BY <2>4 DEF Load
  <2>5. CASE Mark(i)
    BY <2>5 DEF Mark
  <2>6. CASE Startup(i) \/ Drain(i)
    BY <2>6 DEF Startup, Drain
  <2>7. CASE FailRunning(i)
    BY <2>7 DEF FailRunning
  <2>8. CASE ReapExit(i) \/ ReapTimeout(i)
    BY <2>8 DEF ReapExit, ReapTimeout
  <2> QED BY <1>3, <2>1, <2>2, <2>3, <2>4, <2>5, <2>6, <2>7, <2>8 DEF TaskStep, OwnStep
<1>4. ASSUME NEW i \in Inv, ReapIoError(i) \/ TaskFault(i) \/ ProcStep(i)
      PROVE VerdictInv'
  BY <1>4 DEF ReapIoError, TaskFault, ProcStep
<1>5. ASSUME NEW i \in Inv, AgeInvocation(i) \/ SweepPending(i) \/ SweepRunning(i)
      PROVE VerdictInv'
  BY <1>5 DEF AgeInvocation, SweepPending, SweepRunning
<1>6. CASE ServerCrash
  BY <1>6 DEF ServerCrash
<1> QED
  BY <1>1, <1>2, <1>3, <1>4, <1>5, <1>6
     DEF Next, UserStep, OpProgress, SweepStep, SweepSelect, SweepBegin, SweepWorkspace,
         SweepFault, AgeWorkspace, WorkerCrash, Quiet, vars

(* The index holds: at most one running invocation per workspace.          *)
THEOREM OneRunningCorrect == Spec => []OneRunningPerWorkspace
<1>1. VerdictInv => OneRunningPerWorkspace
  BY DEF VerdictInv
<1> QED BY VerdictInit, VerdictNext, <1>1, PTL DEF Spec

(* A completed invocation has no agent left, whatever fails or crashes.    *)
THEOREM CompletedCorrect == Spec => []CompletedIsOver
<1>1. VerdictInv => CompletedIsOver
  BY DEF VerdictInv, CompletedIsOver
<1> QED BY VerdictInit, VerdictNext, <1>1, PTL DEF Spec

-----------------------------------------------------------------------------
(* While nothing fails and no process dies, the program counter of a task  *)
(* tells whether its row may be running and whether it has an agent.       *)
OrphanInv ==
  /\ TypeOK
  /\ Faults = {} /\ crashes = 0 =>
       \A i \in Inv :
         /\ pc[i] \notin {"startup", "drain", "reap", "failRunning"} => invStatus[i] # "running"
         /\ pc[i] \notin {"drain", "reap", "dead"} => proc[i] = "none"
         /\ pc[i] = "dead" => proc[i] \in {"none", "ended"}

LEMMA OrphanInit == Init => OrphanInv
  BY TypeInit DEF Init, OrphanInv

LEMMA OrphanNext == OrphanInv /\ [Next]_vars => OrphanInv'
<1> SUFFICES ASSUME OrphanInv, [Next]_vars PROVE OrphanInv'
  OBVIOUS
<1> TypeOK /\ TypeOK'
  BY TypeNext DEF OrphanInv
<1> USE DEF OrphanInv, TypeOK, ResolvePc, DispatchPc,
            wsVars, opVars, invVars, taskVars, sweepVars,
            Goto, GotoWith, SetInv, FailIf
<1>1. ASSUME NEW i \in Inv, NEW k \in Key,
             \/ CreateInvocation(i, k)
             \/ \E w \in Ws : CreateInvocationIn(i, k, w)
      PROVE OrphanInv'
  BY <1>1 DEF CreateInvocation, CreateInvocationIn
<1>2. ASSUME UNCHANGED <<invVars, taskVars, proc, crashes>> PROVE OrphanInv'
  BY <1>2
<1>3. ASSUME NEW i \in Inv, TaskStep(i) PROVE OrphanInv'
  <2>1. CASE Resolve(i) \/ WakeCall(i) \/ WakeReady(i) \/ ProvisionPoolTemplate(i)
             \/ ProvisionPoolCreate(i) \/ ProvisionPoolReady(i)
    BY <2>1 DEF Resolve, ResolveUseRunning, ResolveWake, ResolveCreate, WakeCall, WakeReady,
                ProvisionPoolTemplate, ProvisionPoolCreate, ProvisionPoolReady
  <2>2. CASE Stamp(i)
    BY <2>2 DEF Stamp
  <2>3. CASE FailPending(i)
    BY <2>3 DEF FailPending
  <2>4. CASE Load(i)
    BY <2>4 DEF Load
  <2>5. CASE Mark(i)
    BY <2>5 DEF Mark
  <2>6. CASE Startup(i) \/ Drain(i)
    BY <2>6 DEF Startup, Drain
  <2>7. CASE FailRunning(i)
    BY <2>7 DEF FailRunning
  <2>8. CASE ReapExit(i) \/ ReapTimeout(i)
    BY <2>8 DEF ReapExit, ReapTimeout
  <2> QED BY <1>3, <2>1, <2>2, <2>3, <2>4, <2>5, <2>6, <2>7, <2>8 DEF TaskStep, OwnStep
<1>4. ASSUME NEW i \in Inv, ReapIoError(i) \/ TaskFault(i) \/ ProcStep(i)
      PROVE OrphanInv'
  BY <1>4 DEF ReapIoError, TaskFault, ProcStep
<1>5. ASSUME NEW i \in Inv, AgeInvocation(i) \/ SweepPending(i) \/ SweepRunning(i)
      PROVE OrphanInv'
  BY <1>5 DEF AgeInvocation, SweepPending, SweepRunning
<1>6. CASE ServerCrash \/ WorkerCrash
  BY <1>6 DEF ServerCrash, WorkerCrash
<1> QED
  BY <1>1, <1>2, <1>3, <1>4, <1>5, <1>6
     DEF Next, UserStep, OpProgress, SweepStep, SweepSelect, SweepBegin, SweepWorkspace,
         SweepFault, AgeWorkspace, Quiet, vars

(* Without faults and crashes a task that is over leaves neither a running *)
(* row nor an agent, whatever sweeps and users do meanwhile.               *)
THEOREM NoOrphanCorrect == Spec => []NoOrphan
<1>1. OrphanInv => NoOrphan
  BY DEF OrphanInv, NoOrphan
<1> QED BY OrphanInit, OrphanNext, <1>1, PTL DEF Spec

-----------------------------------------------------------------------------
(* A destroyed row is picked by nobody: who makes it something else had    *)
(* read it before.                                                         *)
LEMMA DestroyedStep ==
  ASSUME TypeOK, [Next]_vars, NEW w \in Ws, wsStatus[w] = "destroyed",
         ~ OpHolds(w), ~ TaskHolds(w), w \notin swept
  PROVE  wsStatus'[w] = "destroyed"
<1> USE DEF TypeOK, WorkspacesTypeOK, wsVars, SetStatus, SetCreated, InsertRow, Touch,
            Goto, GotoWith
<1>1. ASSUME UNCHANGED wsStatus PROVE wsStatus'[w] = "destroyed"
  BY <1>1
<1>2. ASSUME NEW o \in Op, NEW v \in Ws, OpRequest(o, v) PROVE wsStatus'[w] = "destroyed"
  BY <1>2 DEF OpRequest, CreateWorkspace, StopRead, DestroyRead
<1>3. ASSUME NEW o \in Op, OpStep(o) PROVE wsStatus'[w] = "destroyed"
  <2>1. opPc[o] \in {"idle", "done"} \/ opWs[o] # w
    BY DEF OpHolds
  <2> QED
    BY <1>3, <2>1 DEF OpStep, ProvisionMark, ProvisionTemplate, ProvisionCreate, StopMark,
       StopCall, DestroyCall
<1>4. ASSUME NEW i \in Inv, Resolve(i) PROVE wsStatus'[w] = "destroyed"
  BY <1>4 DEF Resolve, ResolveUseRunning, ResolveWake, ResolveCreate, Pooled
<1>5. ASSUME NEW i \in Inv,
             \/ WakeCall(i) \/ WakeReady(i)
             \/ ProvisionPoolTemplate(i) \/ ProvisionPoolCreate(i) \/ ProvisionPoolReady(i)
      PROVE wsStatus'[w] = "destroyed"
  <2>1. pc[i] \notin ResolvePc \/ taskWs[i] # w
    BY DEF TaskHolds
  <2> QED
    BY <1>5, <2>1 DEF WakeCall, WakeReady, ProvisionPoolTemplate, ProvisionPoolCreate,
       ProvisionPoolReady, ResolvePc
<1>6. ASSUME NEW i \in Inv,
             \/ Stamp(i) \/ FailPending(i) \/ Load(i) \/ Mark(i) \/ Startup(i) \/ Drain(i)
             \/ ReapExit(i) \/ ReapTimeout(i) \/ FailRunning(i)
             \/ ReapIoError(i) \/ TaskFault(i) \/ ProcStep(i)
      PROVE UNCHANGED wsStatus
  BY <1>6 DEF Stamp, FailPending, Load, Mark, Startup, Drain, ReapExit, ReapTimeout,
     FailRunning, ReapIoError, TaskFault, ProcStep
<1>7. ASSUME NEW v \in Ws, SweepWorkspace(v) PROVE wsStatus'[w] = "destroyed"
  BY <1>7 DEF SweepWorkspace
<1>8. CASE \/ \E i \in Inv, k \in Key : CreateInvocation(i, k)
           \/ \E i \in Inv, k \in Key, v \in Ws : CreateInvocationIn(i, k, v)
           \/ \E v \in Ws : AgeWorkspace(v)
           \/ \E i \in Inv : AgeInvocation(i) \/ SweepPending(i) \/ SweepRunning(i)
           \/ SweepSelect \/ (\E r \in Ws \cup Inv : SweepFault(r))
           \/ ServerCrash \/ WorkerCrash \/ UNCHANGED vars
  BY <1>8 DEF CreateInvocation, CreateInvocationIn, AgeWorkspace, AgeInvocation, SweepPending,
     SweepRunning, SweepSelect, SweepBegin, SweepFault, ServerCrash, WorkerCrash, vars
<1> QED
  BY <1>1, <1>2, <1>3, <1>4, <1>5, <1>6, <1>7, <1>8
     DEF Next, UserStep, OpProgress, TaskStep, OwnStep, SweepStep, Quiet

(* A destroyed workspace comes back only by a statement of a task, request *)
(* or sweep that had read the row before: resolution never picks it.       *)
THEOREM DestroyedStays == Spec => DestroyedNotReused
<1>1. TypeOK /\ [Next]_vars =>
        [\A w \in Ws : wsStatus[w] = "destroyed" /\ ~OpHolds(w) /\ ~TaskHolds(w)
                         /\ w \notin swept => wsStatus'[w] = "destroyed"]_vars
  BY DestroyedStep
<1> QED
  BY TypeCorrect, <1>1, PTL DEF Spec, DestroyedNotReused

-----------------------------------------------------------------------------
(* Every waker beyond the first found the row stopped by a stop request    *)
(* that had ended: a wake that failed is no longer one, and a wake that    *)
(* begins takes the row out of 'stopped' in the same transaction.          *)
OpsOn(w)  == {o \in Op : opWs[o] = w}
DoneOn(w) == {o \in Op : opWs[o] = w /\ opPc[o] = "done"}
Room(w)   == IF wsStatus[w] = "stopped" THEN 0 ELSE 1

WakersPaid(w) ==
  /\ IsFiniteSet(Wakers(w)) /\ IsFiniteSet(OpsOn(w))
  /\ Cardinality(Wakers(w)) <= Cardinality(DoneOn(w)) + Room(w)

WakeInv == TypeOK /\ \A w \in Ws : WakersPaid(w)

LEMMA WakeInit == Init => WakeInv
<1> SUFFICES ASSUME Init PROVE WakeInv
  OBVIOUS
<1>1. TypeOK
  BY TypeInit
<1>2. ASSUME NEW w \in Ws PROVE WakersPaid(w)
  <2>1. Wakers(w) = {} /\ OpsOn(w) = {} /\ DoneOn(w) = {}
    BY WorkspacesAssumption DEF Init, WorkspacesInit, Wakers, OpsOn, DoneOn
  <2> QED
    BY <2>1, FS_EmptySet DEF WakersPaid, Room
<1> QED
  BY <1>1, <1>2 DEF WakeInv

LEMMA DoneFinite ==
  ASSUME NEW w, WakersPaid(w)
  PROVE  /\ IsFiniteSet(DoneOn(w)) /\ Cardinality(DoneOn(w)) \in Nat
         /\ Cardinality(Wakers(w)) \in Nat /\ Room(w) \in {0, 1}
<1>1. DoneOn(w) \subseteq OpsOn(w)
  BY DEF DoneOn, OpsOn
<1>2. IsFiniteSet(DoneOn(w)) /\ IsFiniteSet(Wakers(w))
  BY <1>1, FS_Subset DEF WakersPaid
<1> QED
  BY <1>2, FS_CardinalityType DEF Room

(* No waker comes, no request is undone, the row does not become stopped.  *)
LEMMA PaidStill ==
  ASSUME NEW w \in Ws, WakersPaid(w), Wakers(w)' \subseteq Wakers(w),
         DoneOn(w) \subseteq DoneOn(w)', IsFiniteSet(OpsOn(w)'),
         wsStatus'[w] = "stopped" => wsStatus[w] = "stopped"
  PROVE  WakersPaid(w)'
<1>1. DoneOn(w)' \subseteq OpsOn(w)'
  BY DEF DoneOn, OpsOn
<1>2. IsFiniteSet(DoneOn(w)') /\ IsFiniteSet(Wakers(w)')
  BY <1>1, FS_Subset DEF WakersPaid
<1>3. Cardinality(Wakers(w)') <= Cardinality(Wakers(w))
  BY FS_Subset DEF WakersPaid
<1>4. Cardinality(DoneOn(w)) <= Cardinality(DoneOn(w)')
  BY <1>2, FS_Subset
<1>5. Cardinality(Wakers(w)') \in Nat /\ Cardinality(DoneOn(w)') \in Nat
  BY <1>2, FS_CardinalityType
<1>6. Room(w)' \in {0, 1} /\ Room(w) <= Room(w)'
  BY DEF Room
<1>7. Cardinality(Wakers(w)') <= Cardinality(DoneOn(w)') + Room(w)'
  BY <1>3, <1>4, <1>5, <1>6, DoneFinite DEF WakersPaid
<1> QED
  BY <1>2, <1>7 DEF WakersPaid

(* A wake fails: the row may be stopped again, with one waker less.        *)
LEMMA PaidFailed ==
  ASSUME NEW w \in Ws, WakersPaid(w), NEW i \in Wakers(w), Wakers(w)' = Wakers(w) \ {i},
         UNCHANGED <<DoneOn(w), OpsOn(w)>>
  PROVE  WakersPaid(w)'
<1>1. IsFiniteSet(Wakers(w)') /\ Cardinality(Wakers(w)') = Cardinality(Wakers(w)) - 1
  BY FS_RemoveElement DEF WakersPaid
<1>2. Room(w)' \in {0, 1}
  BY DEF Room
<1>3. Cardinality(Wakers(w)') <= Cardinality(DoneOn(w)') + Room(w)'
  BY <1>1, <1>2, DoneFinite DEF WakersPaid
<1> QED
  BY <1>1, <1>3 DEF WakersPaid

(* A stop request ends: the row may be stopped, for one request more.      *)
LEMMA PaidStopped ==
  ASSUME NEW w \in Ws, WakersPaid(w), NEW o, o \notin DoneOn(w),
         DoneOn(w)' = DoneOn(w) \cup {o}, UNCHANGED <<Wakers(w), OpsOn(w)>>
  PROVE  WakersPaid(w)'
<1>1. Cardinality(DoneOn(w)') = Cardinality(DoneOn(w)) + 1
  BY DoneFinite, FS_AddElement
<1>2. Room(w)' \in {0, 1}
  BY DEF Room
<1>3. Cardinality(Wakers(w)') <= Cardinality(DoneOn(w)') + Room(w)'
  BY <1>1, <1>2, DoneFinite DEF WakersPaid
<1> QED
  BY <1>3 DEF WakersPaid

(* A wake begins: one waker more, and the row is no longer stopped.        *)
LEMMA PaidWoken ==
  ASSUME NEW w \in Ws, WakersPaid(w), NEW i, i \notin Wakers(w), Wakers(w)' = Wakers(w) \cup {i},
         UNCHANGED <<DoneOn(w), OpsOn(w)>>,
         wsStatus[w] = "stopped", wsStatus'[w] # "stopped"
  PROVE  WakersPaid(w)'
<1>1. IsFiniteSet(Wakers(w)') /\ Cardinality(Wakers(w)') = Cardinality(Wakers(w)) + 1
  BY FS_AddElement DEF WakersPaid
<1>2. Room(w) = 0 /\ Room(w)' = 1
  BY DEF Room
<1>3. Cardinality(Wakers(w)') <= Cardinality(DoneOn(w)') + Room(w)'
  BY <1>1, <1>2, DoneFinite DEF WakersPaid
<1> QED
  BY <1>1, <1>3 DEF WakersPaid

LEMMA WakeNext == WakeInv /\ [Next]_vars => WakeInv'
<1> SUFFICES ASSUME WakeInv, [Next]_vars, NEW w \in Ws PROVE WakersPaid(w)'
  BY TypeNext DEF WakeInv
<1> TypeOK /\ TypeOK' /\ WakersPaid(w) /\ IsFiniteSet(OpsOn(w))
  BY TypeNext DEF WakeInv, WakersPaid
<1> USE DEF TypeOK, WorkspacesTypeOK, wsVars, opVars, taskVars, SetStatus, SetCreated, InsertRow,
            Touch, Goto, GotoWith, OpGoto, OpBegin
<1>1. ASSUME UNCHANGED opVars PROVE UNCHANGED <<DoneOn(w), OpsOn(w)>>
  BY <1>1 DEF DoneOn, OpsOn
<1>2. ASSUME UNCHANGED taskVars PROVE UNCHANGED Wakers(w)
  BY <1>2 DEF Wakers
<1>3. ASSUME UNCHANGED opVars, UNCHANGED taskVars,
             wsStatus'[w] = "stopped" => wsStatus[w] = "stopped"
      PROVE WakersPaid(w)'
  BY <1>1, <1>2, <1>3, PaidStill
<1>4. ASSUME NEW o \in Op, NEW v \in Ws, OpRequest(o, v), UNCHANGED taskVars
      PROVE WakersPaid(w)'
  <2>1. opPc[o] = "idle" /\ (\A q \in Op : q # o => opPc'[q] = opPc[q] /\ opWs'[q] = opWs[q])
    BY <1>4 DEF OpRequest, CreateWorkspace, StopRead, DestroyRead
  <2>2. wsStatus'[w] = "stopped" => wsStatus[w] = "stopped"
    BY <1>4 DEF OpRequest, CreateWorkspace, StopRead, DestroyRead
  <2>3. DoneOn(w) \subseteq DoneOn(w)' /\ OpsOn(w)' \subseteq OpsOn(w) \cup {o}
    BY <2>1 DEF DoneOn, OpsOn
  <2>4. IsFiniteSet(OpsOn(w)')
    BY <2>3, FS_AddElement, FS_Subset
  <2> QED
    BY <1>2, <1>4, <2>2, <2>3, <2>4, PaidStill
<1>5. ASSUME NEW o \in Op, OpStep(o), UNCHANGED taskVars PROVE WakersPaid(w)'
  <2>1. /\ opPc[o] # "done" /\ UNCHANGED opWs
        /\ \A q \in Op : q # o => opPc'[q] = opPc[q]
        /\ wsStatus'[w] = wsStatus[w] \/ wsStatus'[w] # "stopped" \/ (StopCall(o) /\ opWs[o] = w)
    BY <1>5 DEF OpStep, ProvisionMark, ProvisionTemplate, ProvisionCreate, StopMark, StopCall,
       DestroyCall
  <2>2. UNCHANGED OpsOn(w) /\ UNCHANGED Wakers(w)
    BY <1>2, <1>5, <2>1 DEF OpsOn
  <2>3. CASE StopCall(o) /\ opWs[o] = w
    <3>1. opPc' = [opPc EXCEPT ![o] = "done"]
      BY <2>3 DEF StopCall
    <3>2. o \notin DoneOn(w) /\ DoneOn(w)' = DoneOn(w) \cup {o}
      BY <2>1, <2>3, <3>1 DEF DoneOn
    <3> QED
      BY <2>2, <3>2, PaidStopped
  <2>4. CASE ~ (StopCall(o) /\ opWs[o] = w)
    <3>1. DoneOn(w) \subseteq DoneOn(w)'
      BY <2>1 DEF DoneOn
    <3> QED
      BY <2>1, <2>2, <2>4, <3>1, PaidStill
  <2> QED
    BY <2>3, <2>4
<1>6. ASSUME NEW i \in Inv, ResolveWake(i) PROVE WakersPaid(w)'
  <2>1. PICK v \in Pooled("stopped", invKey[i]) :
          /\ wsStatus' = [wsStatus EXCEPT ![v] = "running"]
          /\ pc' = [pc EXCEPT ![i] = "wakeCall"] /\ taskWs' = [taskWs EXCEPT ![i] = v]
    BY <1>6 DEF ResolveWake
  <2>2. v \in Ws /\ wsStatus[v] = "stopped" /\ pc[i] = "resolve"
    BY <1>6, <2>1 DEF Pooled, ResolveWake
  <2>3. UNCHANGED <<DoneOn(w), OpsOn(w)>>
    BY <1>1, <1>6 DEF ResolveWake
  <2>4. CASE v = w
    <3>1. i \notin Wakers(w) /\ Wakers(w)' = Wakers(w) \cup {i}
      BY <2>1, <2>2, <2>4 DEF Wakers
    <3>2. wsStatus'[w] = "running"
      BY <2>1, <2>4
    <3> QED
      BY <2>2, <2>3, <2>4, <3>1, <3>2, PaidWoken
  <2>5. CASE v # w
    <3>1. Wakers(w)' = Wakers(w) /\ wsStatus'[w] = wsStatus[w]
      BY <2>1, <2>2, <2>5 DEF Wakers
    <3> QED
      BY <2>3, <3>1, PaidStill
  <2> QED
    BY <2>4, <2>5
<1>7. ASSUME NEW i \in Inv, WakeCall(i) \/ WakeReady(i) PROVE WakersPaid(w)'
  <2>1. /\ pc[i] \in {"wakeCall", "wakeReady"} /\ UNCHANGED taskWs /\ UNCHANGED opVars
        /\ \A j \in Inv : j # i => pc'[j] = pc[j]
        /\ \/ pc'[i] \in {"wakeReady", "stamp"} /\ UNCHANGED wsStatus
           \/ pc'[i] = "failPending" /\ (taskWs[i] # w => wsStatus'[w] = wsStatus[w])
    BY <1>7 DEF WakeCall, WakeReady
  <2>2. Wakers(w)' \subseteq Wakers(w) /\ UNCHANGED <<DoneOn(w), OpsOn(w)>>
    BY <1>1, <2>1 DEF Wakers
  <2>3. CASE UNCHANGED wsStatus \/ taskWs[i] # w
    <3>1. wsStatus'[w] = wsStatus[w]
      BY <2>1, <2>3
    <3> QED
      BY <2>2, <3>1, PaidStill
  <2>4. CASE ~ UNCHANGED wsStatus /\ taskWs[i] = w
    <3>1. i \in Wakers(w) /\ Wakers(w)' = Wakers(w) \ {i}
      BY <2>1, <2>4 DEF Wakers
    <3> QED
      BY <2>2, <3>1, PaidFailed
  <2> QED
    BY <2>3, <2>4
<1>8. ASSUME NEW i \in Inv,
             \/ ResolveUseRunning(i) \/ ResolveCreate(i)
             \/ ProvisionPoolTemplate(i) \/ ProvisionPoolCreate(i) \/ ProvisionPoolReady(i)
             \/ Stamp(i) \/ FailPending(i) \/ Load(i) \/ Mark(i) \/ Startup(i) \/ Drain(i)
             \/ ReapExit(i) \/ ReapTimeout(i) \/ FailRunning(i) \/ ReapIoError(i) \/ TaskFault(i)
             \/ (\E k \in Key : CreateInvocation(i, k))
             \/ (\E k \in Key, v \in Ws : CreateInvocationIn(i, k, v))
      PROVE WakersPaid(w)'
  <2>1. /\ UNCHANGED opVars /\ pc'[i] \notin {"wakeCall", "wakeReady"}
        /\ \A j \in Inv : j # i => pc'[j] = pc[j] /\ taskWs'[j] = taskWs[j]
    BY <1>8 DEF ResolveUseRunning, ResolveCreate, ProvisionPoolTemplate, ProvisionPoolCreate,
       ProvisionPoolReady, Stamp, FailPending, Load, Mark, Startup, Drain, ReapExit, ReapTimeout,
       FailRunning, ReapIoError, TaskFault, CreateInvocation, CreateInvocationIn
  <2>2. wsStatus'[w] = "stopped" => wsStatus[w] = "stopped"
    BY <1>8 DEF ResolveUseRunning, ResolveCreate, ProvisionPoolTemplate, ProvisionPoolCreate,
       ProvisionPoolReady, Stamp, FailPending, Load, Mark, Startup, Drain, ReapExit, ReapTimeout,
       FailRunning, ReapIoError, TaskFault, CreateInvocation, CreateInvocationIn
  <2>3. Wakers(w)' \subseteq Wakers(w)
    BY <2>1 DEF Wakers
  <2> QED
    BY <1>1, <2>1, <2>2, <2>3, PaidStill
<1>9. CASE \/ \E i \in Inv : ProcStep(i) \/ AgeInvocation(i) \/ SweepPending(i) \/ SweepRunning(i)
           \/ \E v \in Ws : AgeWorkspace(v) \/ SweepWorkspace(v)
           \/ SweepSelect \/ (\E r \in Ws \cup Inv : SweepFault(r))
           \/ WorkerCrash \/ UNCHANGED vars
  BY <1>3, <1>9 DEF ProcStep, AgeWorkspace, AgeInvocation, SweepPending, SweepRunning,
     SweepWorkspace, SweepSelect, SweepBegin, SweepFault, WorkerCrash, vars
<1>10. CASE ServerCrash
  <2>1. Wakers(w)' \subseteq Wakers(w) /\ UNCHANGED OpsOn(w) /\ DoneOn(w) \subseteq DoneOn(w)'
    BY <1>10 DEF ServerCrash, Wakers, OpsOn, DoneOn
  <2> QED
    BY <1>10, <2>1, PaidStill DEF ServerCrash
<1> QED
  BY <1>3, <1>4, <1>5, <1>6, <1>7, <1>8, <1>9, <1>10
     DEF Next, UserStep, OpProgress, TaskStep, OwnStep, Resolve, SweepStep, Quiet

(* A second task wakes a workspace that is being woken only after a stop   *)
(* request has stopped it, whatever fails, crashes or is swept.            *)
THEOREM WakersCorrect == Spec => []WakersBoundedByStops
<1>1. WakeInv => WakersBoundedByStops
  <2> SUFFICES ASSUME WakeInv, NEW w \in Ws
               PROVE  Cardinality(Wakers(w)) <= 1 + Cardinality(OpsOn(w))
    BY DEF WakersBoundedByStops, OpsOn
  <2>1. WakersPaid(w)
    BY DEF WakeInv
  <2>2. DoneOn(w) \subseteq OpsOn(w) /\ IsFiniteSet(OpsOn(w))
    BY <2>1 DEF DoneOn, OpsOn, WakersPaid
  <2>3. Cardinality(DoneOn(w)) <= Cardinality(OpsOn(w)) /\ Cardinality(OpsOn(w)) \in Nat
    BY <2>2, FS_Subset, FS_CardinalityType
  <2> QED
    BY <2>1, <2>3, DoneFinite DEF WakersPaid
<1> QED
  BY WakeInit, WakeNext, <1>1, PTL DEF Spec

-----------------------------------------------------------------------------
(* When tasks respect their timeouts (Timely), a task that has not marked  *)
(* its row yet still has it pending, because what the sweeps select is old *)
(* and what is old has no such task.  This is what makes the unconditional *)
(* UPDATE of Mark safe.                                                    *)
Starting(i) == pc[i] \in ResolvePc \cup {"failPending", "load", "mark"}

FreshInv ==
  /\ TypeOK
  /\ \A i \in Inv : invStatus[i] = "absent" <=> pc[i] = "none"
  /\ \A i \in Inv : Starting(i) => invStatus[i] = "pending"
  /\ \A i \in invAged : invStatus[i] = "pending" => pc[i] = "dead"
  /\ \A i \in Inv : i \in invAged => invStatus[i] # "absent"
  /\ \A i \in Inv : i \in swept => ~Starting(i) /\ pc[i] # "none"
  /\ \A i \in Inv : pc[i] = "mark" => invWs[i] \in Ws

LEMMA FreshInit == Init => FreshInv
  BY TypeInit DEF Init, FreshInv, Starting, ResolvePc

LEMMA FreshNext == Timely /\ FreshInv /\ [Next]_vars => FreshInv'
<1> SUFFICES ASSUME Timely, FreshInv, [Next]_vars PROVE FreshInv'
  OBVIOUS
<1> TypeOK /\ TypeOK'
  BY TypeNext DEF FreshInv
<1> USE DispatchAssumption
        DEF FreshInv, Starting, TypeOK, ResolvePc, DispatchPc,
            wsVars, opVars, invVars, taskVars, sweepVars,
            Goto, GotoWith, SetInv, FailIf
<1>1. ASSUME NEW i \in Inv, NEW k \in Key,
             \/ CreateInvocation(i, k)
             \/ \E w \in Ws : CreateInvocationIn(i, k, w)
      PROVE FreshInv'
  BY <1>1 DEF CreateInvocation, CreateInvocationIn
<1>2. ASSUME UNCHANGED <<invVars, taskVars, proc>>,
             \A i \in Inv : i \in swept' => i \in swept
      PROVE FreshInv'
  BY <1>2
<1>3. ASSUME NEW i \in Inv, TaskStep(i) PROVE FreshInv'
  <2>1. CASE Resolve(i) \/ WakeCall(i) \/ WakeReady(i) \/ ProvisionPoolTemplate(i)
             \/ ProvisionPoolCreate(i) \/ ProvisionPoolReady(i)
    <3>1. /\ pc[i] \in ResolvePc
          /\ \E label \in ResolvePc \cup {"failPending"} : pc' = [pc EXCEPT ![i] = label]
          /\ UNCHANGED <<invVars, sweepVars>>
      BY <2>1 DEF Resolve, ResolveUseRunning, ResolveWake, ResolveCreate, WakeCall,
                  WakeReady, ProvisionPoolTemplate, ProvisionPoolCreate, ProvisionPoolReady
    <3> QED BY <3>1
  <2>2. CASE Stamp(i)
    BY <2>2 DEF Stamp
  <2>3. CASE FailPending(i)
    BY <2>3 DEF FailPending
  <2>4. CASE Load(i)
    BY <2>4 DEF Load
  <2>5. CASE Mark(i)
    BY <2>5 DEF Mark
  <2>6. CASE Startup(i) \/ Drain(i)
    BY <2>6 DEF Startup, Drain
  <2>7. CASE FailRunning(i)
    BY <2>7 DEF FailRunning
  <2>8. CASE ReapExit(i) \/ ReapTimeout(i)
    BY <2>8 DEF ReapExit, ReapTimeout
  <2> QED BY <1>3, <2>1, <2>2, <2>3, <2>4, <2>5, <2>6, <2>7, <2>8 DEF TaskStep, OwnStep
<1>4. ASSUME NEW i \in Inv, ReapIoError(i) \/ TaskFault(i) \/ ProcStep(i)
      PROVE FreshInv'
  BY <1>4 DEF ReapIoError, TaskFault, ProcStep
<1>5. ASSUME NEW i \in Inv, AgeInvocation(i) PROVE FreshInv'
  BY <1>5 DEF AgeInvocation
<1>6. ASSUME NEW i \in Inv, SweepPending(i) \/ SweepRunning(i) PROVE FreshInv'
  BY <1>6 DEF SweepPending, SweepRunning, SweepNext
<1>7. CASE SweepSelect
  BY <1>7 DEF SweepSelect, SweepBegin, StuckWorkspaces, StuckPending, StuckRunning,
              WorkspacesTypeOK
<1>8. CASE ServerCrash
  BY <1>8 DEF ServerCrash
<1> QED
  BY <1>1, <1>2, <1>3, <1>4, <1>5, <1>6, <1>7, <1>8
     DEF Next, UserStep, OpProgress, SweepStep, SweepWorkspace, SweepNext,
         SweepFault, AgeWorkspace, WorkerCrash, Quiet, vars

LEMMA ReactivationStep ==
  ASSUME FreshInv, [Next]_vars, NEW i \in Inv, invStatus[i] \in Terminal
  PROVE  invStatus'[i] \in Terminal
<1> USE DEF FreshInv, Starting, TypeOK, Terminal, ResolvePc, DispatchPc,
            wsVars, opVars, invVars, taskVars, sweepVars, SetInv, FailIf
<1>1. ASSUME NEW j \in Inv, NEW k \in Key,
             \/ CreateInvocation(j, k)
             \/ \E w \in Ws : CreateInvocationIn(j, k, w)
      PROVE invStatus'[i] \in Terminal
  BY <1>1 DEF CreateInvocation, CreateInvocationIn
<1>2. ASSUME UNCHANGED invStatus PROVE invStatus'[i] \in Terminal
  BY <1>2
<1>3. ASSUME NEW j \in Inv, Mark(j) PROVE invStatus'[i] \in Terminal
  BY <1>3 DEF Mark
<1>4. ASSUME NEW j \in Inv,
             \/ FailPending(j) \/ FailRunning(j) \/ ReapExit(j) \/ ReapTimeout(j)
             \/ ReapIoError(j) \/ SweepPending(j) \/ SweepRunning(j)
      PROVE invStatus'[i] \in Terminal
  BY <1>4 DEF FailPending, FailRunning, ReapExit, ReapTimeout, ReapIoError,
              SweepPending, SweepRunning
<1>5. ASSUME NEW j \in Inv,
             \/ Resolve(j) \/ WakeCall(j) \/ WakeReady(j) \/ ProvisionPoolTemplate(j)
             \/ ProvisionPoolCreate(j) \/ ProvisionPoolReady(j) \/ Stamp(j) \/ Load(j)
             \/ Startup(j) \/ Drain(j) \/ TaskFault(j) \/ ProcStep(j) \/ AgeInvocation(j)
      PROVE UNCHANGED invStatus
  BY <1>5 DEF Resolve, ResolveUseRunning, ResolveWake, ResolveCreate, WakeCall, WakeReady,
              ProvisionPoolTemplate, ProvisionPoolCreate, ProvisionPoolReady, Stamp, Load,
              Startup, Drain, TaskFault, ProcStep, AgeInvocation
<1> QED
  BY <1>1, <1>2, <1>3, <1>4, <1>5
     DEF Next, UserStep, TaskStep, OwnStep, OpProgress, SweepStep, SweepSelect, SweepBegin,
         SweepWorkspace, SweepFault, AgeWorkspace, ServerCrash, WorkerCrash, Quiet, vars

(* An invocation that has a verdict keeps one: whatever the interleaving of*)
(* tasks, sweeps and crashes, Mark does not bring a failed row back.       *)
THEOREM NoReactivationCorrect ==
  ASSUME Timely
  PROVE  Spec => NoReactivation
<1>1. FreshInv /\ [Next]_vars
        => [\A i \in Inv : invStatus[i] \in Terminal => invStatus'[i] \in Terminal]_vars
  BY ReactivationStep
<1>2. FreshInv /\ [Next]_vars => FreshInv'
  BY FreshNext
<1> QED BY FreshInit, <1>1, <1>2, PTL DEF Spec, NoReactivation

-----------------------------------------------------------------------------
(* InvocationDispatch implements WorkspaceSlots.  A step is invisible, or  *)
(* it is one of the three abstract actions of one invocation.              *)
AbsStep == [Slots!Next]_(Slots!vars)

LEMMA InvisibleStep ==
  ASSUME TypeOK, UNCHANGED invStatus,
         \A i \in Inv : invStatus[i] = "running" => invWs'[i] = invWs[i]
  PROVE  AbsStep
<1>1. AbsPhase' = AbsPhase
  BY DEF AbsPhase
<1>2. AbsRunning' = AbsRunning
  BY DEF AbsRunning
<1> QED BY <1>1, <1>2 DEF AbsStep, Slots!vars

LEMMA RequestStep ==
  ASSUME TypeOK, NEW i \in Inv, invStatus[i] = "absent",
         invStatus' = [invStatus EXCEPT ![i] = "pending"],
         \A j \in Inv \ {i} : invWs'[j] = invWs[j]
  PROVE  AbsStep
<1>1. Slots!Request(i)
  <2>1. AbsPhase[i] = "none" /\ AbsPhase' = [AbsPhase EXCEPT ![i] = "waiting"]
    BY DEF AbsPhase, TypeOK
  <2>2. AbsRunning' = AbsRunning
    BY DEF AbsRunning, TypeOK
  <2> QED BY <2>1, <2>2 DEF Slots!Request
<1> QED BY <1>1 DEF AbsStep, Slots!Next

LEMMA StartStep ==
  ASSUME TypeOK, NEW i \in Inv, invStatus[i] = "pending", invWs[i] \in Ws,
         ~ \E j \in Inv \ {i} : invStatus[j] = "running" /\ invWs[j] = invWs[i],
         invStatus' = [invStatus EXCEPT ![i] = "running"], UNCHANGED invWs
  PROVE  AbsStep
<1>1. Slots!Start(i, invWs[i])
  <2>1. AbsPhase[i] = "waiting" /\ AbsPhase' = [AbsPhase EXCEPT ![i] = "active"]
    BY DEF AbsPhase, TypeOK
  <2>2. Slots!Free(invWs[i])
    BY DEF Slots!Free, AbsRunning
  <2>3. AbsRunning' = AbsRunning \cup {<<invWs[i], i>>}
    BY DEF AbsRunning, TypeOK
  <2> QED BY <2>1, <2>2, <2>3 DEF Slots!Start
<1> QED BY <1>1 DEF AbsStep, Slots!Next

LEMMA SettleStep ==
  ASSUME TypeOK, NEW i \in Inv, invStatus[i] # "absent", NEW s \in Terminal,
         invStatus' = [invStatus EXCEPT ![i] = s], UNCHANGED invWs
  PROVE  AbsStep
<1>1. CASE invStatus[i] \in Terminal
  <2>1. AbsPhase' = AbsPhase
    BY <1>1 DEF AbsPhase, TypeOK, Terminal
  <2>2. AbsRunning' = AbsRunning
    BY <1>1 DEF AbsRunning, TypeOK, Terminal
  <2> QED BY <2>1, <2>2 DEF AbsStep, Slots!vars
<1>2. CASE invStatus[i] \in {"pending", "running"}
  <2>1. /\ AbsPhase[i] \in {"waiting", "active"}
        /\ AbsPhase' = [AbsPhase EXCEPT ![i] = "settled"]
    BY <1>2 DEF AbsPhase, TypeOK, Terminal
  <2>2. AbsRunning' = {p \in AbsRunning : p[2] # i}
    BY <1>2 DEF AbsRunning, TypeOK, Terminal
  <2>3. Slots!Settle(i)
    BY <2>1, <2>2 DEF Slots!Settle
  <2> QED BY <2>3 DEF AbsStep, Slots!Next
<1> QED BY <1>1, <1>2 DEF TypeOK, InvStatus, Terminal

LEMMA SlotsInit == Init => Slots!Init
  BY DEF Init, Slots!Init, AbsPhase, AbsRunning

LEMMA SlotsNext == FreshInv /\ [Next]_vars => AbsStep
<1> SUFFICES ASSUME FreshInv, [Next]_vars PROVE AbsStep
  OBVIOUS
<1> TypeOK
  BY DEF FreshInv
<1> USE DEF wsVars, opVars, invVars, taskVars, sweepVars
<1>1. ASSUME NEW i \in Inv, NEW k \in Key,
             \/ CreateInvocation(i, k)
             \/ \E w \in Ws : CreateInvocationIn(i, k, w)
      PROVE AbsStep
  BY <1>1, RequestStep DEF CreateInvocation, CreateInvocationIn, FreshInv, TypeOK
<1>2. ASSUME UNCHANGED <<invStatus, invWs>> PROVE AbsStep
  BY <1>2, InvisibleStep
<1>3. ASSUME NEW i \in Inv, Stamp(i) PROVE AbsStep
  BY <1>3, InvisibleStep DEF Stamp, TypeOK
<1>4. ASSUME NEW i \in Inv, Mark(i) PROVE AbsStep
  BY <1>2, <1>4, StartStep DEF Mark, SetInv, FreshInv, Starting
<1>5. ASSUME NEW i \in Inv,
             \/ FailPending(i) \/ FailRunning(i) \/ ReapExit(i) \/ ReapTimeout(i)
             \/ ReapIoError(i) \/ SweepPending(i) \/ SweepRunning(i)
      PROVE AbsStep
  <2>1. \/ UNCHANGED <<invStatus, invWs>>
        \/ \E s \in Terminal : SetInv(i, s)
    BY <1>5 DEF FailPending, FailRunning, ReapExit, ReapTimeout, ReapIoError,
                SweepPending, SweepRunning, FailIf, SetInv, Terminal
  <2>2. invStatus[i] # "absent"
    BY <1>5 DEF FailPending, FailRunning, ReapExit, ReapTimeout, ReapIoError,
                SweepPending, SweepRunning, FreshInv
  <2> QED BY <1>2, <2>1, <2>2, SettleStep DEF SetInv
<1>6. ASSUME NEW i \in Inv,
             \/ Resolve(i) \/ WakeCall(i) \/ WakeReady(i) \/ ProvisionPoolTemplate(i)
             \/ ProvisionPoolCreate(i) \/ ProvisionPoolReady(i) \/ Load(i) \/ Startup(i)
             \/ Drain(i) \/ TaskFault(i) \/ ProcStep(i) \/ AgeInvocation(i)
      PROVE UNCHANGED <<invStatus, invWs>>
  BY <1>6 DEF Resolve, ResolveUseRunning, ResolveWake, ResolveCreate, WakeCall, WakeReady,
              ProvisionPoolTemplate, ProvisionPoolCreate, ProvisionPoolReady, Load, Startup,
              Drain, TaskFault, ProcStep, AgeInvocation
<1> QED
  BY <1>1, <1>2, <1>3, <1>4, <1>5, <1>6
     DEF Next, UserStep, TaskStep, OwnStep, OpProgress, SweepStep, SweepSelect, SweepBegin,
         SweepWorkspace, SweepFault, AgeWorkspace, ServerCrash, WorkerCrash, Quiet, vars

(* Dispatch gives exclusive slots and one verdict per request: its every   *)
(* behaviour, seen through AbsPhase and AbsRunning, is one of              *)
(* WorkspaceSlots.                                                         *)
THEOREM SlotsImplemented ==
  ASSUME Timely
  PROVE  Spec => ImplementsSlots
<1>1. FreshInv /\ [Next]_vars => FreshInv'
  BY FreshNext
<1>2. FreshInv /\ [Next]_vars => [Slots!Next]_(Slots!vars)
  BY SlotsNext DEF AbsStep
<1> QED BY FreshInit, SlotsInit, <1>1, <1>2, PTL DEF Spec, ImplementsSlots, Slots!Spec
=============================================================================
