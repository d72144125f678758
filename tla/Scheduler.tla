----------------------------- MODULE Scheduler -----------------------------
(***************************************************************************)
(* Scheduled jobs: the worker's cron loop (worker/scheduler.rs) against the*)
(* handlers that create, change and delete jobs (routes/automations.rs).   *)
(*                                                                         *)
(* The loop reads the due rows, then works on its copies: it calls the     *)
(* job's action and writes the next run, computed from the copy's cron     *)
(* expression, without a condition on the row.                             *)
(*                                                                         *)
(* Time goes round in a cycle 0..Cycle-1, which is enough for cron         *)
(* expressions: an expression is the set of instants of the cycle at which *)
(* it fires, the empty set one with no upcoming instant.  next_run_at is   *)
(* the instant (nextAt) and how far ahead it is (wait); rows that are due  *)
(* have wait 0, and it is kept which of them became due first (late).      *)
(* Instants missed while a row is due are not made up for.                 *)
(***************************************************************************)
EXTENDS Naturals, Sequences, FiniteSets, SequencesExt, FiniteSetsExt

CONSTANTS
  Job,        \* ids of scheduled_jobs
  Cron,       \* the expressions in use: sets of instants
  Cycle,      \* length of the cycle of time
  Limit,      \* LIMIT of the query for due jobs
  Absent,     \* a field that the body of a PATCH leaves out
  MaxEdits,   \* bound on the users' requests
  MaxFaults   \* bound on worker crashes and failed UPDATEs

Instant == 0..(Cycle - 1)

ASSUME SchedulerAssumption ==
  /\ Cycle \in Nat \ {0} /\ Limit \in Nat \ {0}
  /\ MaxEdits \in Nat /\ MaxFaults \in Nat
  /\ Cron \subseteq SUBSET Instant /\ Absent \notin BOOLEAN

VARIABLES
  clock,
  exists, gone,  \* ids of rows, and of rows that were deleted
  enabled, cron, \* columns of the rows
  nextAt, wait,            \* next_run_at of the rows
  late,                    \* pairs of rows that are due, of which the first
                           \* has the older next_run_at
  worker,    \* "idle", "call" or "update"
  jobs,      \* the rows of the poll still to work on, with their copies
  overrun,   \* dispatches of a job since it was last disabled or deleted
  repeats,   \* dispatches of a job since its next run was last written or
             \* it was last enabled
  edits, faults

timeVars   == <<nextAt, wait, late>>
rowVars    == <<exists, gone, enabled, cron, timeVars>>
workerVars == <<worker, jobs>>
countVars  == <<overrun, repeats>>
vars == <<clock, rowVars, workerVars, countVars, edits, faults>>

Copy == [job : Job, cron : Cron]

TypeOK ==
  /\ clock \in Instant
  /\ exists \subseteq Job /\ gone \subseteq Job \ exists /\ enabled \subseteq exists
  /\ cron \in [Job -> Cron] /\ nextAt \in [Job -> Instant] /\ wait \in [Job -> 0..Cycle]
  /\ late \subseteq Job \X Job
  /\ worker \in {"idle", "call", "update"}
  /\ jobs \in Seq(Copy) /\ Len(jobs) <= Limit
  /\ overrun \in [Job -> Nat] /\ repeats \in [Job -> Nat]
  /\ edits \in 0..MaxEdits /\ faults \in 0..MaxFaults

Init ==
  /\ clock = 0
  /\ exists = {} /\ gone = {} /\ enabled = {}
  /\ \E c \in Cron : cron = [j \in Job |-> c]
  /\ nextAt = [j \in Job |-> 0] /\ wait = [j \in Job |-> 0] /\ late = {}
  /\ worker = "idle" /\ jobs = <<>>
  /\ overrun = [j \in Job |-> 0] /\ repeats = [j \in Job |-> 0]
  /\ edits = 0 /\ faults = 0

-----------------------------------------------------------------------------
(* compute_next_run: the first instant strictly after now.                 *)
Delay(c) == Min({d \in 1..Cycle : (clock + d) % Cycle \in c})

Without(j) == late \cap ((Job \ {j}) \X (Job \ {j}))

(* Mutant: a whole cycle later, whatever the expression says.              *)
SetNextCycle(j, c) ==
  /\ wait' = [wait EXCEPT ![j] = Cycle]
  /\ late' = Without(j)
  /\ nextAt' = [nextAt EXCEPT ![j] = clock]
  /\ repeats' = [repeats EXCEPT ![j] = 0]

SetNext(j, c) ==
  /\ wait' = [wait EXCEPT ![j] = Delay(c)]
  /\ late' = Without(j)
  /\ nextAt' = [nextAt EXCEPT ![j] = (clock + Delay(c)) % Cycle]
  /\ repeats' = [repeats EXCEPT ![j] = 0]

Edit == edits < MaxEdits /\ edits' = edits + 1

(* POST: an expression without an upcoming instant is refused.             *)
CreateJob(j, c) ==
  /\ Edit /\ j \notin exists \cup gone /\ c # {}
  /\ exists' = exists \cup {j} /\ enabled' = enabled \cup {j}
  /\ cron' = [cron EXCEPT ![j] = c]
  /\ SetNext(j, c)
  /\ overrun' = [overrun EXCEPT ![j] = 0]
  /\ UNCHANGED <<clock, gone, workerVars, faults>>

(* PATCH: any of the columns in one UPDATE.  A new expression takes the    *)
(* next run with it; a change of enabled alone leaves the next run as it   *)
(* is, even if long past.                                                  *)
Patch == {p \in [cron : (Cron \ {{}}) \cup {Absent}, enabled : BOOLEAN \cup {Absent}] :
            p.cron # Absent \/ p.enabled # Absent}

UpdateJob(j, p) ==
  /\ Edit /\ j \in exists
  /\ \/ p.cron # Absent /\ SetNext(j, p.cron) /\ cron' = [cron EXCEPT ![j] = p.cron]
     \/ /\ p.cron = Absent /\ UNCHANGED <<cron, timeVars>>
        /\ repeats' = IF p.enabled = TRUE THEN [repeats EXCEPT ![j] = 0] ELSE repeats
  /\ enabled' = CASE p.enabled = TRUE -> enabled \cup {j}
                  [] p.enabled = FALSE -> enabled \ {j}
                  [] OTHER -> enabled
  /\ overrun' = IF p.enabled = Absent THEN overrun ELSE [overrun EXCEPT ![j] = 0]
  /\ UNCHANGED <<clock, exists, gone, workerVars, faults>>

DeleteJob(j) ==
  /\ Edit /\ j \in exists
  /\ exists' = exists \ {j} /\ gone' = gone \cup {j} /\ enabled' = enabled \ {j}
  /\ late' = Without(j)
  /\ overrun' = [overrun EXCEPT ![j] = 0]
  /\ UNCHANGED <<clock, cron, nextAt, wait, repeats, workerVars, faults>>

-----------------------------------------------------------------------------
(* The query of the poll: enabled rows that are due, oldest first.         *)
Due == {j \in enabled : wait[j] = 0}

(* Mutant: no ORDER BY.                                                    *)
InAnyOrder(rows) == TRUE
InOrder(rows) == \A m, n \in 1..Len(rows) : m < n => <<rows[n], rows[m]>> \notin late

(* Mutant: no LIMIT.                                                       *)
PollAll ==
  /\ worker = "idle" /\ Due # {}
  /\ \E rows \in SetToSeqs(Due) :
       /\ InOrder(rows)
       /\ jobs' = [n \in 1..Len(rows) |-> [job |-> rows[n], cron |-> cron[rows[n]]]]
  /\ worker' = "call"
  /\ UNCHANGED <<clock, rowVars, countVars, edits, faults>>

Poll ==
  /\ worker = "idle" /\ Due # {}
  /\ \E rows \in SetToSeqs(Due) :
       /\ InOrder(rows)
       /\ jobs' = [n \in 1..Min({Limit, Len(rows)}) |->
                    [job |-> rows[n], cron |-> cron[rows[n]]]]
  /\ worker' = "call"
  /\ UNCHANGED <<clock, rowVars, countVars, edits, faults>>

Current == Head(jobs)

(* dispatch_job_action; an error is logged and the next run computed all   *)
(* the same.                                                               *)
Call ==
  /\ worker = "call"
  /\ worker' = "update"
  /\ overrun' = IF Current.job \in enabled THEN overrun
                ELSE [overrun EXCEPT ![Current.job] = @ + 1]
  /\ repeats' = [repeats EXCEPT ![Current.job] = @ + 1]
  /\ UNCHANGED <<clock, rowVars, jobs, edits, faults>>

NextJob == /\ jobs' = Tail(jobs)
           /\ worker' = IF Len(jobs) = 1 THEN "idle" ELSE "call"

(* Mutant: a job whose action failed keeps its next run.                   *)
UpdateNextOrNot ==
  /\ worker = "update" /\ Current.cron # {}
  /\ \/ Current.job \in exists /\ SetNext(Current.job, Current.cron)
     \/ UNCHANGED <<timeVars, repeats>>
  /\ NextJob
  /\ UNCHANGED <<clock, exists, gone, enabled, cron, overrun, edits, faults>>

(* UPDATE ... SET next_run_at WHERE id: from the copy's expression.        *)
UpdateNext ==
  /\ worker = "update" /\ Current.cron # {}
  /\ IF Current.job \in exists
       THEN SetNext(Current.job, Current.cron)
       ELSE UNCHANGED <<timeVars, repeats>>
  /\ NextJob
  /\ UNCHANGED <<clock, exists, gone, enabled, cron, overrun, edits, faults>>

(* No upcoming instant: the row is disabled.                               *)
UpdateDisable ==
  /\ worker = "update" /\ Current.cron = {}
  /\ enabled' = enabled \ {Current.job}
  /\ NextJob
  /\ UNCHANGED <<clock, exists, gone, cron, timeVars, countVars, edits, faults>>

(* A failed UPDATE ends the poll (`?`), a crash ends the worker; both      *)
(* forget the rest of the rows, and the next poll reads them again.        *)
Abort ==
  /\ worker # "idle" /\ faults < MaxFaults
  /\ faults' = faults + 1
  /\ worker' = "idle" /\ jobs' = <<>>
  /\ UNCHANGED <<clock, rowVars, countVars, edits>>

(* Time passes.  An expression whose last year has come has no upcoming    *)
(* instant any more.                                                       *)
Tick ==
  /\ clock' = (clock + 1) % Cycle
  /\ wait' = [j \in Job |-> IF wait[j] = 0 THEN 0 ELSE wait[j] - 1]
  /\ late' = late \cup ({j \in exists : wait[j] = 0} \X {j \in exists : wait[j] = 1})
  /\ UNCHANGED <<exists, gone, enabled, cron, nextAt, workerVars, countVars, edits, faults>>

CronEnds(j) ==
  /\ {} \in Cron
  /\ Edit /\ j \in exists
  /\ cron' = [cron EXCEPT ![j] = {}]
  /\ UNCHANGED <<clock, exists, gone, enabled, timeVars, workerVars, countVars, faults>>

WorkerStep == Poll \/ Call \/ UpdateNext \/ UpdateDisable

Next ==
  \/ \E j \in Job, c \in Cron : CreateJob(j, c)
  \/ \E j \in Job, p \in Patch : UpdateJob(j, p)
  \/ \E j \in Job : DeleteJob(j) \/ CronEnds(j)
  \/ WorkerStep \/ Abort \/ Tick

Spec == Init /\ [][Next]_vars

(* Time passes and the loop goes on.  That the action's call returns is not*)
(* assumed (it has no timeout): see CallReturns.                           *)
Fairness == /\ WF_vars(Tick) /\ WF_vars(Poll)
            /\ WF_vars(UpdateNext) /\ WF_vars(UpdateDisable)
FairSpec == Spec /\ Fairness

-----------------------------------------------------------------------------
(* One due instant is dispatched once; each crash or failed UPDATE adds at *)
(* most one repetition.                                                    *)
OncePerInstant == \A j \in Job : repeats[j] <= 1 + faults

(* A job that was disabled or deleted is dispatched at most once more: from*)
(* the copy of the poll under way.                                         *)
DisabledRunsOnceMore == \A j \in Job : overrun[j] <= 1

(* The loop dispatches no job more often than its schedule and its owner   *)
(* asked for, up to these repetitions.                                     *)
RepeatsBounded == OncePerInstant /\ DisabledRunsOnceMore

(* A user's change of the schedule wins in the end: a next run written from*)
(* a stale copy of the expression does not last.                           *)
Stale(j) == j \in enabled /\ cron[j] # {} /\ nextAt[j] \notin cron[j]
CallReturns == WF_vars(Call)
ScheduleConverges == CallReturns => \A j \in Job : <>[](~Stale(j))

(* An enabled job keeps running, whatever happened to it before: from some *)
(* point on it is due again and again, and dispatched each time.           *)
Runs(j) == worker = "update" /\ Current.job = j
EnabledKeepsRunning ==
  CallReturns =>
    \A j \in Job : <>[](j \in enabled /\ cron[j] # {}) => []<>Runs(j)
=============================================================================
