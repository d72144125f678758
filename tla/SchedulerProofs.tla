-------------------------- MODULE SchedulerProofs --------------------------
(***************************************************************************)
(* How often the scheduler's loop repeats a job, for any number of jobs,   *)
(* any expressions, any LIMIT and any number of requests and faults.       *)
(***************************************************************************)
EXTENDS Scheduler, TLAPS, FiniteSetTheorems, SequenceTheorems

USE SchedulerAssumption DEF SchedulerAssumption

(* What of the types the argument needs.                                   *)
RowsTyped ==
  /\ exists \subseteq Job /\ IsFiniteSet(exists) /\ enabled \subseteq exists
  /\ overrun \in [Job -> Nat] /\ repeats \in [Job -> Nat] /\ faults \in Nat
  /\ worker \in {"idle", "call", "update"}
  /\ jobs \in Seq([job : Job, cron : Cron]) /\ cron \in [Job -> Cron]
  /\ worker # "idle" => jobs # <<>>

(* A poll's rows are different jobs.                                       *)
RowsDiffer ==
  \A m, n \in 1..Len(jobs) : jobs[m].job = jobs[n].job => m = n

(* The job that was called and whose next run is not yet written.          *)
Called(j) == worker = "update" /\ Head(jobs).job = j

(* The rows of the poll that are still to be called.                       *)
ToCall == {n \in 1..Len(jobs) : worker = "update" => n # 1}

(* Each repetition so far is due to a fault, except for the job that was   *)
(* called last, and for jobs that no poll will find.                       *)
RepeatsExplained ==
  /\ \A j \in Job : repeats[j] <= 1 + faults
  /\ \A j \in enabled : ~ Called(j) => repeats[j] <= faults
  /\ \A n \in ToCall : repeats[jobs[n].job] <= faults

(* Only the copy of a poll runs a job that is disabled or deleted.         *)
OverrunExplained ==
  /\ \A j \in Job : overrun[j] <= 1
  /\ \A j \in enabled : overrun[j] = 0
  /\ \A n \in ToCall : overrun[jobs[n].job] = 0

Inv == RowsTyped /\ RowsDiffer /\ RepeatsExplained /\ OverrunExplained

-----------------------------------------------------------------------------
LEMMA MinOfTwo ==
  ASSUME NEW a \in Nat, NEW b \in Nat
  PROVE  Min({a, b}) \in {a, b} /\ Min({a, b}) <= a /\ Min({a, b}) <= b
<1>1. \E x \in {a, b} : \A y \in {a, b} : x <= y
  OBVIOUS
<1> QED
  BY <1>1 DEF Min

LEMMA InvInit == Init => Inv
<1> SUFFICES ASSUME Init PROVE Inv
  OBVIOUS
<1>1. IsFiniteSet({}) /\ Len(jobs) = 0 /\ ToCall = {}
  BY FS_EmptySet DEF Init, ToCall
<1>2. jobs \in Seq([job : Job, cron : Cron])
  BY DEF Init
<1>3. RowsTyped
  BY <1>1, <1>2 DEF Init, RowsTyped
<1> QED
  BY <1>1, <1>3 DEF Init, Inv, RowsDiffer, RepeatsExplained, OverrunExplained, Called

(* The requests leave the worker alone and reset the counts of their job.  *)
LEMMA InvRequest ==
  ASSUME Inv, NEW j \in Job,
         exists' \subseteq exists \cup {j}, enabled' \subseteq exists',
         enabled' \subseteq enabled \cup {j},
         cron' \in [Job -> Cron], UNCHANGED <<worker, jobs, faults>>,
         \/ repeats' = [repeats EXCEPT ![j] = 0]
         \/ repeats' = repeats /\ (j \in enabled' => j \in enabled),
         \/ overrun' = [overrun EXCEPT ![j] = 0]
         \/ overrun' = overrun /\ (j \in enabled' => j \in enabled)
  PROVE  Inv'
<1> USE DEF Inv
<1>1. /\ \A i \in Job : repeats'[i] = 0 \/ repeats'[i] = repeats[i]
      /\ \A i \in enabled' : repeats'[i] = 0 \/ (repeats'[i] = repeats[i] /\ i \in enabled)
      /\ repeats' \in [Job -> Nat]
  <2>1. repeats \in [Job -> Nat] /\ \A i \in enabled' : i \in Job
    BY DEF RowsTyped
  <2>2. CASE repeats' = [repeats EXCEPT ![j] = 0]
    <3>1. repeats' \in [Job -> Nat] /\ \A i \in Job : repeats'[i] = IF i = j THEN 0 ELSE repeats[i]
      BY <2>1, <2>2
    <3>2. ASSUME NEW i \in enabled'
          PROVE  repeats'[i] = 0 \/ (repeats'[i] = repeats[i] /\ i \in enabled)
      <4>1. CASE i = j
        BY <3>1, <4>1
      <4>2. CASE i # j
        BY <2>1, <3>1, <4>2
      <4> QED
        BY <4>1, <4>2
    <3> QED
      BY <3>1, <3>2
  <2>3. CASE repeats' = repeats /\ (j \in enabled' => j \in enabled)
    BY <2>1, <2>3
  <2> QED
    BY <2>2, <2>3
<1>2. /\ \A i \in Job : overrun'[i] = 0 \/ overrun'[i] = overrun[i]
      /\ \A i \in enabled' : overrun'[i] = 0 \/ (overrun'[i] = overrun[i] /\ i \in enabled)
      /\ overrun' \in [Job -> Nat]
  <2>1. overrun \in [Job -> Nat] /\ \A i \in enabled' : i \in Job
    BY DEF RowsTyped
  <2>2. CASE overrun' = [overrun EXCEPT ![j] = 0]
    <3>1. overrun' \in [Job -> Nat] /\ \A i \in Job : overrun'[i] = IF i = j THEN 0 ELSE overrun[i]
      BY <2>1, <2>2
    <3>2. ASSUME NEW i \in enabled'
          PROVE  overrun'[i] = 0 \/ (overrun'[i] = overrun[i] /\ i \in enabled)
      <4>1. CASE i = j
        BY <3>1, <4>1
      <4>2. CASE i # j
        BY <2>1, <3>1, <4>2
      <4> QED
        BY <4>1, <4>2
    <3> QED
      BY <3>1, <3>2
  <2>3. CASE overrun' = overrun /\ (j \in enabled' => j \in enabled)
    BY <2>1, <2>3
  <2> QED
    BY <2>2, <2>3
<1>3. IsFiniteSet(exists')
  <2>1. IsFiniteSet(exists \cup {j})
    BY FS_AddElement DEF RowsTyped
  <2> QED
    BY <2>1, FS_Subset
<1>4. RowsTyped' /\ RowsDiffer'
  BY <1>1, <1>2, <1>3 DEF RowsTyped, RowsDiffer
<1>5. ToCall' = ToCall /\ \A n \in ToCall : jobs[n].job \in Job
  <2>1. \A n \in 1..Len(jobs) : jobs[n] \in [job : Job, cron : Cron]
    BY ElementOfSeq DEF RowsTyped
  <2> QED
    BY <2>1 DEF ToCall
<1>6. \A i : Called(i)' <=> Called(i)
  BY DEF Called
<1>7. RepeatsExplained'
  <2>1. \A i \in Job : repeats'[i] <= 1 + faults'
    BY <1>1 DEF RepeatsExplained, RowsTyped
  <2>2. \A i \in enabled' : ~ Called(i)' => repeats'[i] <= faults'
    BY <1>1, <1>6 DEF RepeatsExplained, RowsTyped
  <2>3. \A n \in ToCall : repeats'[jobs[n].job] <= faults'
    <3> SUFFICES ASSUME NEW n \in ToCall PROVE repeats'[jobs[n].job] <= faults
      OBVIOUS
    <3>1. repeats[jobs[n].job] <= faults /\ faults \in Nat /\ jobs[n].job \in Job
      BY <1>5 DEF RepeatsExplained, RowsTyped
    <3> QED
      BY <1>1, <3>1
  <2> QED
    BY <1>5, <2>1, <2>2, <2>3 DEF RepeatsExplained
<1>8. OverrunExplained'
  BY <1>2, <1>5 DEF OverrunExplained
<1> QED
  BY <1>4, <1>7, <1>8

-----------------------------------------------------------------------------
(* A poll takes different enabled jobs: nothing is called for them yet.    *)
LEMMA InvPoll == Inv /\ Poll => Inv'
<1> SUFFICES ASSUME Inv, Poll PROVE Inv'
  OBVIOUS
<1>1. PICK rows \in SetToSeqs(Due) :
        jobs' = [n \in 1..Min({Limit, Len(rows)}) |-> [job |-> rows[n], cron |-> cron[rows[n]]]]
  BY DEF Poll
<1>2. worker = "idle" /\ worker' = "call" /\ Due # {}
  BY DEF Poll
<1>3. UNCHANGED <<exists, enabled, cron, overrun, repeats, faults>>
  BY DEF Poll, rowVars, countVars
<1>4. Due \subseteq enabled /\ Due \subseteq Job
  BY DEF Due, Inv, RowsTyped
<1>5. Cardinality(Due) \in Nat \ {0}
  <2>1. IsFiniteSet(Due)
    BY <1>4, FS_Subset DEF Inv, RowsTyped
  <2> QED
    BY <1>2, <2>1, FS_CardinalityType, FS_EmptySet
<1>6. /\ Len(rows) = Cardinality(Due)
      /\ \A n \in 1..Len(rows) : rows[n] \in Due
      /\ \A m, n \in 1..Len(rows) : m # n => rows[m] # rows[n]
  <2>1. /\ rows \in [1..Cardinality(Due) -> Due]
        /\ \A m, n \in 1..Cardinality(Due) : m # n => rows[m] # rows[n]
    BY DEF SetToSeqs
  <2>2. rows \in Seq(Due) /\ Len(rows) = Cardinality(Due)
    BY <1>5, <2>1, IsASeq
  <2> QED
    BY <2>1, <2>2
<1> DEFINE k == Min({Limit, Len(rows)})
<1>7. k \in Nat \ {0} /\ k <= Len(rows)
  BY <1>5, <1>6, MinOfTwo
<1>8. \A n \in 1..k : n \in 1..Len(rows)
  BY <1>5, <1>6, <1>7
<1> HIDE DEF k
<1>9. \A n \in 1..k : [job |-> rows[n], cron |-> cron[rows[n]]] \in [job : Job, cron : Cron]
  <2> SUFFICES ASSUME NEW n \in 1..k
               PROVE  [job |-> rows[n], cron |-> cron[rows[n]]] \in [job : Job, cron : Cron]
    OBVIOUS
  <2>1. rows[n] \in Job
    BY <1>4, <1>6, <1>8
  <2> QED
    BY <2>1 DEF Inv, RowsTyped
<1>10. jobs' = [n \in 1..k |-> [job |-> rows[n], cron |-> cron[rows[n]]]]
  BY <1>1 DEF k
<1>11. jobs' \in Seq([job : Job, cron : Cron]) /\ Len(jobs') = k
  BY <1>7, <1>9, <1>10, IsASeq
<1>12. \A n \in 1..Len(jobs') : jobs'[n].job = rows[n] /\ rows[n] \in enabled
  BY <1>4, <1>6, <1>8, <1>10, <1>11
<1>13. RowsTyped'
  BY <1>2, <1>3, <1>7, <1>11 DEF Inv, RowsTyped
<1>14. RowsDiffer'
  BY <1>6, <1>8, <1>11, <1>12 DEF RowsDiffer
<1>15. \A n \in 1..Len(jobs') : repeats[jobs'[n].job] <= faults /\ overrun[jobs'[n].job] = 0
  BY <1>2, <1>12 DEF Inv, RepeatsExplained, OverrunExplained, Called
<1>16. RepeatsExplained'
  BY <1>2, <1>3, <1>15 DEF Inv, RepeatsExplained, ToCall, Called
<1>17. OverrunExplained'
  BY <1>3, <1>15 DEF Inv, OverrunExplained, ToCall
<1> QED
  BY <1>13, <1>14, <1>16, <1>17 DEF Inv

LEMMA FirstRow ==
  ASSUME Inv, worker # "idle"
  PROVE  /\ jobs # <<>> /\ Len(jobs) \in Nat \ {0} /\ Head(jobs) = jobs[1]
         /\ 1 \in 1..Len(jobs) /\ jobs[1].job \in Job
         /\ \A n \in 1..Len(jobs) : jobs[n].job \in Job
<1>1. jobs \in Seq([job : Job, cron : Cron]) /\ jobs # <<>>
  BY DEF Inv, RowsTyped
<1>2. Len(jobs) \in Nat \ {0} /\ Head(jobs) = jobs[1]
  BY <1>1
<1>3. \A n \in 1..Len(jobs) : jobs[n] \in [job : Job, cron : Cron]
  BY <1>1, ElementOfSeq
<1> QED
  BY <1>1, <1>2, <1>3

LEMMA InvCall == Inv /\ Call => Inv'
<1> SUFFICES ASSUME Inv, Call PROVE Inv'
  OBVIOUS
<1> DEFINE c == jobs[1].job
<1>1. /\ worker = "call" /\ worker' = "update"
      /\ UNCHANGED <<exists, enabled, cron, jobs, faults>>
  BY DEF Call, rowVars
<1>2. /\ jobs # <<>> /\ Len(jobs) \in Nat \ {0} /\ Head(jobs) = jobs[1] /\ 1 \in 1..Len(jobs)
      /\ c \in Job /\ \A n \in 1..Len(jobs) : jobs[n].job \in Job
  BY <1>1, FirstRow
<1>3. /\ overrun' = IF c \in enabled THEN overrun ELSE [overrun EXCEPT ![c] = @ + 1]
      /\ repeats' = [repeats EXCEPT ![c] = @ + 1]
  BY <1>2 DEF Call, Current
<1> HIDE DEF c
<1>4. /\ repeats' \in [Job -> Nat] /\ repeats'[c] = repeats[c] + 1
      /\ \A j \in Job : j # c => repeats'[j] = repeats[j]
  BY <1>2, <1>3 DEF Inv, RowsTyped
<1>5. /\ overrun' \in [Job -> Nat] /\ overrun'[c] <= overrun[c] + 1
      /\ c \in enabled => overrun'[c] = overrun[c]
      /\ \A j \in Job : j # c => overrun'[j] = overrun[j]
  <2>1. overrun \in [Job -> Nat]
    BY DEF Inv, RowsTyped
  <2>2. CASE c \in enabled
    BY <1>2, <1>3, <2>1, <2>2
  <2>3. CASE c \notin enabled
    BY <1>2, <1>3, <2>1, <2>3
  <2> QED
    BY <2>2, <2>3
<1>6. repeats[c] <= faults /\ overrun[c] = 0
  BY <1>1, <1>2 DEF Inv, RepeatsExplained, OverrunExplained, ToCall, c
<1>7. \A n \in 1..Len(jobs) : n # 1 => jobs[n].job # c
  BY <1>2 DEF Inv, RowsDiffer, c
<1>8. \A j : Called(j)' <=> j = c
  BY <1>1, <1>2 DEF Called, c
<1>9. RowsTyped' /\ RowsDiffer'
  BY <1>1, <1>2, <1>4, <1>5 DEF Inv, RowsTyped, RowsDiffer
<1>10. \A n \in ToCall' : /\ n \in ToCall /\ jobs[n].job # c /\ jobs[n].job \in Job
  BY <1>1, <1>2, <1>7 DEF ToCall
<1>11. RepeatsExplained'
  <2>1. \A j \in Job : repeats'[j] <= 1 + faults
    <3> SUFFICES ASSUME NEW j \in Job PROVE repeats'[j] <= 1 + faults
      OBVIOUS
    <3>1. CASE j = c
      BY <1>4, <1>6, <3>1 DEF Inv, RowsTyped
    <3>2. CASE j # c
      BY <1>4, <3>2 DEF Inv, RepeatsExplained
    <3> QED
      BY <3>1, <3>2
  <2>2. \A j \in enabled : j # c => repeats'[j] <= faults
    BY <1>1, <1>4 DEF Inv, RepeatsExplained, Called, RowsTyped
  <2>3. \A n \in ToCall' : repeats'[jobs[n].job] <= faults
    BY <1>4, <1>10 DEF Inv, RepeatsExplained
  <2> QED
    BY <1>1, <1>8, <2>1, <2>2, <2>3 DEF RepeatsExplained
<1>12. OverrunExplained'
  <2>1. \A j \in Job : overrun'[j] <= 1
    <3> SUFFICES ASSUME NEW j \in Job PROVE overrun'[j] <= 1
      OBVIOUS
    <3>1. CASE j = c
      BY <1>2, <1>5, <1>6, <3>1
    <3>2. CASE j # c
      BY <1>5, <3>2 DEF Inv, OverrunExplained
    <3> QED
      BY <3>1, <3>2
  <2>2. \A j \in enabled : overrun'[j] = 0
    BY <1>5, <1>6 DEF Inv, OverrunExplained, RowsTyped
  <2>3. \A n \in ToCall' : overrun'[jobs[n].job] = 0
    BY <1>5, <1>10 DEF Inv, OverrunExplained
  <2> QED
    BY <1>1, <2>1, <2>2, <2>3 DEF OverrunExplained
<1> QED
  BY <1>9, <1>11, <1>12 DEF Inv

(* On to the next row: what was to be called is still to be called.        *)
LEMMA InvNextJob ==
  ASSUME Inv, worker = "update", NextJob, enabled' \subseteq enabled,
         UNCHANGED <<exists, cron, overrun, faults>>,
         \/ repeats' = [repeats EXCEPT ![jobs[1].job] = 0]
         \/ repeats' = repeats /\ jobs[1].job \notin enabled'
  PROVE  Inv'
<1> DEFINE c == jobs[1].job
<1>1. /\ jobs # <<>> /\ Len(jobs) \in Nat \ {0} /\ Head(jobs) = jobs[1]
      /\ c \in Job /\ \A n \in 1..Len(jobs) : jobs[n].job \in Job
  BY FirstRow
<1>2. jobs' = Tail(jobs) /\ worker' = IF Len(jobs) = 1 THEN "idle" ELSE "call"
  BY DEF NextJob
<1>3. jobs \in Seq([job : Job, cron : Cron])
  BY DEF Inv, RowsTyped
<1>4. /\ jobs' \in Seq([job : Job, cron : Cron]) /\ Len(jobs') = Len(jobs) - 1
      /\ \A n \in 1..Len(jobs') : jobs'[n] = jobs[n + 1]
  BY <1>1, <1>2, <1>3, HeadTailProperties
<1>5. /\ repeats' \in [Job -> Nat] /\ \A j \in Job : repeats'[j] = 0 \/ repeats'[j] = repeats[j]
      /\ c \in enabled' => repeats'[c] = 0
  <2>1. repeats \in [Job -> Nat]
    BY DEF Inv, RowsTyped
  <2>2. CASE repeats' = [repeats EXCEPT ![c] = 0]
    BY <1>1, <2>1, <2>2
  <2>3. CASE repeats' = repeats /\ c \notin enabled'
    BY <2>1, <2>3
  <2> QED
    BY <2>2, <2>3
<1>6. worker' # "idle" => jobs' # <<>>
  <2> SUFFICES ASSUME worker' # "idle" PROVE Len(jobs') # 0
    BY EmptySeq
  <2>1. Len(jobs) # 1
    BY <1>2
  <2> QED
    BY <1>1, <1>4, <2>1
<1>7. RowsTyped'
  BY <1>2, <1>4, <1>5, <1>6 DEF Inv, RowsTyped
<1>8. \A n \in 1..Len(jobs') : n + 1 \in 1..Len(jobs) /\ n + 1 \in ToCall
  BY <1>1, <1>4 DEF ToCall
<1>9. RowsDiffer'
  <2> SUFFICES ASSUME NEW m \in 1..Len(jobs'), NEW n \in 1..Len(jobs'),
                      jobs'[m].job = jobs'[n].job
               PROVE  m = n
    BY DEF RowsDiffer
  <2>1. m + 1 = n + 1
    BY <1>4, <1>8 DEF Inv, RowsDiffer
  <2> QED
    BY <2>1
<1>10. \A n \in ToCall' :
         /\ n + 1 \in ToCall /\ jobs'[n] = jobs[n + 1] /\ jobs[n + 1].job \in Job
  BY <1>1, <1>4, <1>8 DEF ToCall
<1>11. \A j : ~ Called(j)'
  BY <1>2 DEF Called
<1> HIDE DEF c
<1>12. RepeatsExplained'
  <2>1. faults \in Nat /\ repeats \in [Job -> Nat] /\ enabled' \subseteq Job
    BY DEF Inv, RowsTyped
  <2>2. \A j \in Job : repeats'[j] <= 1 + faults
    BY <1>5, <2>1 DEF Inv, RepeatsExplained
  <2>3. \A j \in enabled' : repeats'[j] <= faults
    <3> SUFFICES ASSUME NEW j \in enabled' PROVE repeats'[j] <= faults
      OBVIOUS
    <3>1. CASE j = c
      BY <1>5, <2>1, <3>1
    <3>2. CASE j # c
      <4>1. ~ Called(j)
        BY <1>1, <3>2 DEF Called, c
      <4>2. repeats[j] <= faults /\ j \in Job
        BY <2>1, <4>1 DEF Inv, RepeatsExplained
      <4> QED
        BY <1>5, <2>1, <4>2
    <3> QED
      BY <3>1, <3>2
  <2>4. \A n \in ToCall' : repeats'[jobs'[n].job] <= faults
    <3> SUFFICES ASSUME NEW n \in ToCall' PROVE repeats'[jobs'[n].job] <= faults
      OBVIOUS
    <3>1. repeats[jobs[n + 1].job] <= faults
      BY <1>10 DEF Inv, RepeatsExplained
    <3> QED
      BY <1>5, <1>10, <2>1, <3>1
  <2> QED
    BY <1>11, <2>2, <2>3, <2>4 DEF RepeatsExplained
<1>13. OverrunExplained'
  <2>1. \A n \in ToCall' : overrun[jobs'[n].job] = 0
    BY <1>10 DEF Inv, OverrunExplained
  <2> QED
    BY <2>1 DEF Inv, OverrunExplained
<1> QED
  BY <1>7, <1>9, <1>12, <1>13 DEF Inv

LEMMA InvUpdateNext == Inv /\ UpdateNext => Inv'
<1> SUFFICES ASSUME Inv, UpdateNext PROVE Inv'
  OBVIOUS
<1>1. worker = "update" /\ NextJob /\ UNCHANGED <<exists, enabled, cron, overrun, faults>>
  BY DEF UpdateNext
<1>2. Current = jobs[1]
  BY <1>1, FirstRow DEF Current
<1>3. \/ repeats' = [repeats EXCEPT ![jobs[1].job] = 0]
      \/ repeats' = repeats /\ jobs[1].job \notin enabled'
  <2>1. CASE jobs[1].job \in exists
    BY <1>2, <2>1 DEF UpdateNext, SetNext
  <2>2. CASE jobs[1].job \notin exists
    BY <1>1, <1>2, <2>2 DEF UpdateNext, Inv, RowsTyped
  <2> QED
    BY <2>1, <2>2
<1> QED
  BY <1>1, <1>3, InvNextJob

LEMMA InvUpdateDisable == Inv /\ UpdateDisable => Inv'
<1> SUFFICES ASSUME Inv, UpdateDisable PROVE Inv'
  OBVIOUS
<1>1. /\ worker = "update" /\ NextJob /\ enabled' = enabled \ {Current.job}
      /\ UNCHANGED <<exists, cron, overrun, repeats, faults>>
  BY DEF UpdateDisable, countVars
<1>2. Current = jobs[1]
  BY <1>1, FirstRow DEF Current
<1> QED
  BY <1>1, <1>2, InvNextJob

LEMMA InvAbort == Inv /\ Abort => Inv'
<1> SUFFICES ASSUME Inv, Abort PROVE Inv'
  OBVIOUS
<1>1. /\ faults' = faults + 1 /\ worker' = "idle" /\ jobs' = <<>>
      /\ UNCHANGED <<exists, enabled, cron, overrun, repeats>>
  BY DEF Abort, rowVars, countVars
<1>2. Len(jobs') = 0 /\ ToCall' = {} /\ jobs' \in Seq([job : Job, cron : Cron])
  BY <1>1 DEF ToCall
<1>3. RowsTyped' /\ RowsDiffer'
  BY <1>1, <1>2 DEF Inv, RowsTyped, RowsDiffer
<1>4. \A j \in Job : repeats[j] <= faults' /\ repeats[j] <= 1 + faults'
  BY <1>1 DEF Inv, RepeatsExplained, RowsTyped
<1>5. RepeatsExplained' /\ OverrunExplained'
  BY <1>1, <1>2, <1>4 DEF Inv, RepeatsExplained, OverrunExplained, RowsTyped
<1> QED
  BY <1>3, <1>5 DEF Inv

LEMMA InvStill ==
  ASSUME Inv, UNCHANGED <<exists, enabled, cron, worker, jobs, overrun, repeats, faults>>
  PROVE  Inv'
BY DEF Inv, RowsTyped, RowsDiffer, RepeatsExplained, OverrunExplained, Called, ToCall

LEMMA InvUpdateJob ==
  ASSUME Inv, NEW j \in Job, NEW p \in Patch, UpdateJob(j, p)
  PROVE  Inv'
<1>1. j \in exists /\ UNCHANGED <<exists, worker, jobs, faults>>
  BY DEF UpdateJob, workerVars
<1>2. enabled \subseteq exists /\ cron \in [Job -> Cron]
  BY DEF Inv, RowsTyped
<1>3. p.enabled \in BOOLEAN \cup {Absent} /\ p.cron \in Cron \cup {Absent}
  BY DEF Patch
<1>4. /\ p.enabled = TRUE => enabled' = enabled \cup {j}
      /\ p.enabled = FALSE => enabled' = enabled \ {j}
      /\ p.enabled = Absent => enabled' = enabled
  BY <1>3 DEF UpdateJob
<1>5. enabled' \subseteq exists' /\ enabled' \subseteq enabled \cup {j}
  BY <1>1, <1>2, <1>3, <1>4
<1>6. p.enabled # TRUE /\ j \in enabled' => j \in enabled
  BY <1>3, <1>4
<1>7. cron' \in [Job -> Cron]
  <2>1. CASE p.cron = Absent /\ UNCHANGED cron
    BY <1>2, <2>1
  <2>2. CASE p.cron # Absent /\ cron' = [cron EXCEPT ![j] = p.cron]
    BY <1>2, <1>3, <2>2
  <2> QED
    BY <2>1, <2>2 DEF UpdateJob
<1>8. \/ repeats' = [repeats EXCEPT ![j] = 0]
      \/ repeats' = repeats /\ (j \in enabled' => j \in enabled)
  BY <1>6 DEF UpdateJob, SetNext
<1>9. \/ overrun' = [overrun EXCEPT ![j] = 0]
      \/ overrun' = overrun /\ (j \in enabled' => j \in enabled)
  BY <1>4 DEF UpdateJob
<1> QED
  BY <1>1, <1>5, <1>7, <1>8, <1>9, InvRequest

LEMMA InvStep == Inv /\ [Next]_vars => Inv'
<1> SUFFICES ASSUME Inv, [Next]_vars PROVE Inv'
  OBVIOUS
<1>1. ASSUME NEW j \in Job, NEW c \in Cron, CreateJob(j, c) PROVE Inv'
  <2>1. /\ exists' = exists \cup {j} /\ enabled' = enabled \cup {j}
        /\ cron' = [cron EXCEPT ![j] = c] /\ repeats' = [repeats EXCEPT ![j] = 0]
        /\ overrun' = [overrun EXCEPT ![j] = 0] /\ UNCHANGED <<worker, jobs, faults>>
    BY <1>1 DEF CreateJob, SetNext, workerVars
  <2>2. enabled' \subseteq exists' /\ cron' \in [Job -> Cron]
    BY <2>1 DEF Inv, RowsTyped
  <2> QED
    BY <2>1, <2>2, InvRequest
<1>2. ASSUME NEW j \in Job, NEW p \in Patch, UpdateJob(j, p) PROVE Inv'
  BY <1>2, InvUpdateJob
<1>3. ASSUME NEW j \in Job, DeleteJob(j) PROVE Inv'
  <2>1. /\ exists' = exists \ {j} /\ enabled' = enabled \ {j}
        /\ overrun' = [overrun EXCEPT ![j] = 0]
        /\ UNCHANGED <<cron, repeats, worker, jobs, faults>>
    BY <1>3 DEF DeleteJob, workerVars
  <2>2. enabled' \subseteq exists' /\ cron' \in [Job -> Cron]
    BY <2>1 DEF Inv, RowsTyped
  <2> QED
    BY <2>1, <2>2, InvRequest
<1>4. ASSUME NEW j \in Job, CronEnds(j) PROVE Inv'
  <2>1. /\ cron' = [cron EXCEPT ![j] = {}] /\ {} \in Cron
        /\ UNCHANGED <<exists, enabled, overrun, repeats, worker, jobs, faults>>
    BY <1>4 DEF CronEnds, workerVars, countVars
  <2>2. enabled' \subseteq exists' /\ cron' \in [Job -> Cron]
    BY <2>1 DEF Inv, RowsTyped
  <2> QED
    BY <2>1, <2>2, InvRequest
<1>5. CASE Poll
  BY <1>5, InvPoll
<1>6. CASE Call
  BY <1>6, InvCall
<1>7. CASE UpdateNext
  BY <1>7, InvUpdateNext
<1>8. CASE UpdateDisable
  BY <1>8, InvUpdateDisable
<1>9. CASE Abort
  BY <1>9, InvAbort
<1>10. CASE Tick
  BY <1>10, InvStill DEF Tick, workerVars, countVars
<1>11. CASE UNCHANGED vars
  BY <1>11, InvStill DEF vars, rowVars, workerVars, countVars
<1> QED
  BY <1>1, <1>2, <1>3, <1>4, <1>5, <1>6, <1>7, <1>8, <1>9, <1>10, <1>11 DEF Next, WorkerStep

(* The loop dispatches no job more often than its schedule and its owner   *)
(* asked for, up to one repetition for each crash or failed UPDATE and one *)
(* run of a job that was disabled or deleted during the poll.              *)
THEOREM RepeatsAreBounded == Spec => []RepeatsBounded
<1>1. Inv => RepeatsBounded
  BY DEF Inv, RepeatsExplained, OverrunExplained, RepeatsBounded, OncePerInstant,
     DisabledRunsOnceMore
<1> QED
  BY <1>1, InvInit, InvStep, PTL DEF Spec

-----------------------------------------------------------------------------
(* A nonempty set of numbers up to a bound has a least one: the shortest   *)
(* of its initial parts is empty.                                          *)
LEMMA LeastElement ==
  ASSUME NEW N \in Nat, NEW S \in SUBSET (1..N), S # {}
  PROVE  Min(S) \in S
<1> DEFINE Below(x) == {y \in S : y < x}
<1> DEFINE F == {Below(x) : x \in S}
<1>1. IsFiniteSet(S)
  <2>1. IsFiniteSet(1..N)
    BY FS_Interval
  <2> QED
    BY <2>1, FS_Subset
<1>2. F \subseteq FiniteSubsetsOf(S) /\ F # {}
  <2>1. FiniteSubsetsOf(S) = SUBSET S
    BY <1>1, FS_FiniteSubsetsOfFinite
  <2>2. \A x \in S : Below(x) \in SUBSET S
    OBVIOUS
  <2>3. PICK x \in S : TRUE
    OBVIOUS
  <2>4. Below(x) \in F
    BY <2>3
  <2>5. ASSUME NEW B \in F PROVE B \in SUBSET S
    <3>1. PICK z \in S : B = Below(z)
      OBVIOUS
    <3> QED
      BY <2>2, <3>1
  <2> QED
    BY <2>1, <2>4, <2>5
<1>3. IsWellFoundedOn(StrictSubsetOrdering(S), FiniteSubsetsOf(S))
  BY FS_StrictSubsetOrderingWellFounded
<1>4. PICK M \in F : \A B \in F : <<B, M>> \notin StrictSubsetOrdering(S)
  <2> HIDE DEF F
  <2> QED
    BY <1>2, <1>3, WFMin
<1>5. PICK x \in S : M = Below(x)
  OBVIOUS
<1>6. ASSUME NEW y \in S, y < x PROVE FALSE
  <2>1. x \in Nat /\ \A z \in S : z \in Nat
    OBVIOUS
  <2>2. y \in Below(x) /\ y \notin Below(y)
    BY <1>6, <2>1
  <2>3. ASSUME NEW z \in Below(y) PROVE z \in Below(x)
    <3>1. z \in S /\ z \in Nat /\ z < y
      BY <2>1
    <3> QED
      BY <1>6, <2>1, <3>1
  <2>4. <<Below(y), Below(x)>> \in StrictSubsetOrdering(S)
    BY <2>2, <2>3 DEF StrictSubsetOrdering
  <2> QED
    BY <1>4, <1>5, <2>4
<1>7. \A y \in S : x <= y
  BY <1>6
<1> QED
  BY <1>7 DEF Min

(* The next instant of an expression is at most one cycle away.            *)
LEMMA DelayTyped ==
  ASSUME clock \in Instant, NEW c \in Cron, c # {}
  PROVE  Delay(c) \in 1..Cycle /\ (clock + Delay(c)) % Cycle \in Instant
<1>1. PICK k \in Instant : k \in c
  OBVIOUS
<1>2. \A a \in Nat : a % Cycle \in Instant
  BY DEF Instant
<1>3. \A a \in Instant : (a + Cycle) % Cycle = a /\ a % Cycle = a
  BY DEF Instant
<1>4. \E d \in 1..Cycle : (clock + d) % Cycle = k
  <2>1. CASE k > clock
    <3>1. k - clock \in 1..Cycle /\ clock + (k - clock) = k
      BY <2>1 DEF Instant
    <3> QED
      BY <1>3, <3>1
  <2>2. CASE k <= clock
    <3>1. k + Cycle - clock \in 1..Cycle /\ clock + (k + Cycle - clock) = k + Cycle
      BY <2>2 DEF Instant
    <3> QED
      BY <1>3, <3>1
  <2> QED
    BY <2>1, <2>2 DEF Instant
<1> DEFINE D == {d \in 1..Cycle : (clock + d) % Cycle \in c}
<1>5. Delay(c) \in D
  <2>1. D \in SUBSET (1..Cycle) /\ D # {}
    BY <1>1, <1>4
  <2> HIDE DEF D
  <2>2. Min(D) \in D
    BY <2>1, LeastElement
  <2> QED
    BY <2>2 DEF Delay, D
<1> QED
  BY <1>2, <1>5 DEF Instant

(* What remains of the types: next_run_at of the rows, and the bounds.     *)
Timed ==
  /\ clock \in Instant
  /\ nextAt \in [Job -> Instant] /\ wait \in [Job -> 0..Cycle] /\ late \subseteq Job \X Job
Bounded ==
  /\ exists \subseteq Job /\ gone \subseteq Job \ exists
  /\ jobs \in Seq(Copy) /\ Len(jobs) <= Limit
  /\ edits \in 0..MaxEdits /\ faults \in 0..MaxFaults

LEMMA SetNextTimed ==
  ASSUME Timed, NEW j \in Job, NEW c \in Cron, c # {}, SetNext(j, c), clock' = clock
  PROVE  Timed'
BY DelayTyped DEF Timed, SetNext, Without

LEMMA TimedStep == Inv /\ Timed /\ [Next]_vars => Timed'
<1> SUFFICES ASSUME Inv, Timed, [Next]_vars PROVE Timed'
  OBVIOUS
<1>1. ASSUME NEW j \in Job, NEW c \in Cron, CreateJob(j, c) PROVE Timed'
  BY <1>1, SetNextTimed DEF CreateJob
<1>2. ASSUME NEW j \in Job, NEW p \in Patch, UpdateJob(j, p) PROVE Timed'
  <2>1. CASE p.cron # Absent /\ SetNext(j, p.cron)
    <3>1. p.cron \in Cron /\ p.cron # {} /\ clock' = clock
      BY <1>2, <2>1 DEF Patch, UpdateJob
    <3> QED
      BY <2>1, <3>1, SetNextTimed
  <2>2. CASE UNCHANGED timeVars
    BY <1>2, <2>2 DEF UpdateJob, Timed, timeVars
  <2> QED
    BY <1>2, <2>1, <2>2 DEF UpdateJob
<1>3. ASSUME NEW j \in Job, DeleteJob(j) PROVE Timed'
  BY <1>3 DEF DeleteJob, Timed, Without
<1>4. ASSUME NEW j \in Job, CronEnds(j) PROVE Timed'
  BY <1>4 DEF CronEnds, Timed, timeVars
<1>5. CASE Poll \/ Call \/ UpdateDisable \/ Abort \/ UNCHANGED vars
  BY <1>5 DEF Poll, Call, UpdateDisable, Abort, vars, rowVars, timeVars, Timed
<1>6. CASE UpdateNext
  <2>1. CASE Current.job \in exists
    <3>1. Current.job \in Job /\ Current.cron \in Cron /\ Current.cron # {}
      <4>1. jobs \in Seq([job : Job, cron : Cron]) /\ jobs # <<>>
        BY <1>6 DEF UpdateNext, Inv, RowsTyped
      <4>2. Head(jobs) \in [job : Job, cron : Cron]
        BY <4>1, HeadTailProperties
      <4> QED
        BY <1>6, <4>2 DEF UpdateNext, Current
    <3> QED
      BY <1>6, <2>1, <3>1, SetNextTimed DEF UpdateNext
  <2>2. CASE Current.job \notin exists
    BY <1>6, <2>2 DEF UpdateNext, timeVars, Timed
  <2> QED
    BY <2>1, <2>2
<1>7. CASE Tick
  <2>1. clock' \in Instant
    BY <1>7 DEF Tick, Timed, Instant
  <2>2. wait' \in [Job -> 0..Cycle]
    BY <1>7 DEF Tick, Timed
  <2>3. late' \subseteq Job \X Job
    BY <1>7 DEF Tick, Timed, Inv, RowsTyped
  <2> QED
    BY <1>7, <2>1, <2>2, <2>3 DEF Tick, Timed
<1> QED
  BY <1>1, <1>2, <1>3, <1>4, <1>5, <1>6, <1>7 DEF Next, WorkerStep

LEMMA BoundedStep == Inv /\ Bounded /\ [Next]_vars => Bounded'
<1> SUFFICES ASSUME Inv, Bounded, [Next]_vars PROVE Bounded'
  OBVIOUS
<1>1. ASSUME NEW j \in Job, NEW c \in Cron, CreateJob(j, c) PROVE Bounded'
  BY <1>1 DEF CreateJob, Edit, workerVars, Bounded
<1>2. ASSUME NEW j \in Job, NEW p \in Patch, UpdateJob(j, p) PROVE Bounded'
  BY <1>2 DEF UpdateJob, Edit, workerVars, Bounded
<1>3. ASSUME NEW j \in Job, DeleteJob(j) \/ CronEnds(j) PROVE Bounded'
  BY <1>3 DEF DeleteJob, CronEnds, Edit, workerVars, Bounded
<1>4. CASE Poll
  <2>1. UNCHANGED <<exists, gone, edits, faults>>
    BY <1>4 DEF Poll, rowVars
  <2>2. jobs' \in Seq(Copy) /\ Len(jobs') <= Limit
    <3>1. PICK rows \in SetToSeqs(Due) :
            jobs' = [n \in 1..Min({Limit, Len(rows)}) |->
                       [job |-> rows[n], cron |-> cron[rows[n]]]]
      BY <1>4 DEF Poll
    <3>2. jobs' \in Seq(Copy)
      BY <1>4, InvPoll DEF Inv, RowsTyped, Copy
    <3>3. Len(rows) \in Nat
      <4>1. IsFiniteSet(Due)
        BY FS_Subset DEF Due, Inv, RowsTyped
      <4>2. Cardinality(Due) \in Nat /\ rows \in [1..Cardinality(Due) -> Due]
        BY <4>1, FS_CardinalityType DEF SetToSeqs
      <4> QED
        BY <4>2, IsASeq
    <3> DEFINE k == Min({Limit, Len(rows)})
    <3>4. k \in Nat /\ k <= Limit
      BY <3>3, MinOfTwo
    <3> HIDE DEF k
    <3>5. DOMAIN jobs' = 1..k
      BY <3>1 DEF k
    <3>6. Len(jobs') = k
      BY <3>2, <3>4, <3>5, LenProperties
    <3> QED
      BY <3>2, <3>4, <3>6
  <2> QED
    BY <2>1, <2>2 DEF Bounded
<1>5. CASE Call
  BY <1>5 DEF Call, rowVars, Bounded
<1>6. CASE UpdateNext \/ UpdateDisable
  <2>1. NextJob /\ worker = "update" /\ UNCHANGED <<exists, gone, edits, faults>>
    BY <1>6 DEF UpdateNext, UpdateDisable
  <2>2. jobs' = Tail(jobs) /\ jobs # <<>> /\ jobs \in Seq(Copy)
    BY <2>1 DEF NextJob, Inv, RowsTyped, Bounded
  <2>3. jobs' \in Seq(Copy) /\ Len(jobs') = Len(jobs) - 1
    BY <2>2, HeadTailProperties
  <2> QED
    BY <2>1, <2>2, <2>3 DEF Bounded
<1>7. CASE Abort
  BY <1>7 DEF Abort, rowVars, Bounded
<1>8. CASE Tick
  BY <1>8 DEF Tick, workerVars, Bounded
<1>9. CASE UNCHANGED vars
  BY <1>9 DEF vars, rowVars, workerVars, Bounded
<1> QED
  BY <1>1, <1>2, <1>3, <1>4, <1>5, <1>6, <1>7, <1>8, <1>9 DEF Next, WorkerStep

(* The rows of scheduled_jobs, their next runs and the rows of a poll have *)
(* their types; in particular a next run that the loop or a handler writes *)
(* is one of the instants of a cycle, and a poll keeps to its LIMIT.       *)
THEOREM SchedulerTyped == Spec => []TypeOK
<1>1. Init => Timed /\ Bounded
  BY DEF Init, Timed, Bounded, Instant, Copy
<1>2. Inv /\ Timed /\ Bounded => TypeOK
  BY DEF Inv, RowsTyped, Timed, Bounded, TypeOK
<1> QED
  BY <1>1, <1>2, InvInit, InvStep, TimedStep, BoundedStep, PTL DEF Spec
=============================================================================
