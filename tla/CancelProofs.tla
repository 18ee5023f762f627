------------------------------- MODULE CancelProofs ------------------------------
(***************************************************************************)
(* Proofs about the cancels of JobManager, where the only API calls are    *)
(* requests and cancels: without a retry, a row and the task that serves   *)
(* it agree about each other, so a verdict is final and a cancelled job is *)
(* quiet; within one life of the process an accepted cancel is obeyed.     *)
(***************************************************************************)
EXTENDS JobManagerProofs

USE DEF Download, Transcode, Organize, Import, Done, Steps, SlotSteps

---------------------------------------------------------------------------
(* A row and its task                                                      *)

\* A task whose verdict is not written yet.
Busy(t) == pc[t] \notin {"idle", "tail"}

\* A job's entry in the registry is its one task, and every task has an entry.
Registered ==
    /\ \A t \in Tasks : pc[t] # "idle" => registry[JobOf(t)] = t
    /\ \A j \in Jobs : registry[j] # NoTask =>
          pc[registry[j]] # "idle" /\ JobOf(registry[j]) = j

\* The row says whether the task has written its verdict.
RowTells ==
    \A t \in Tasks :
        /\ Busy(t) => status[JobOf(t)] \in ActiveStatuses
        /\ pc[t] = "tail" => status[JobOf(t)] \in TerminalStatuses

\* The inductive invariant of this section.
CalmInv == IInv /\ Registered /\ RowTells

\* What every step of a task does but the write of its verdict and its end: it stays
\* busy, it leaves the other tasks alone, and it writes at most an active status, to
\* the row of its own job.
Serves(t) ==
    /\ Busy(t) /\ Busy(t)'
    /\ UNCHANGED registry
    /\ \A u \in Tasks : JobOf(u)' = JobOf(u) /\ (u # t => pc'[u] = pc[u])
    /\ \A j \in Jobs :
          status'[j] = status[j] \/ (JobOf(t) = j /\ status'[j] \in ActiveStatuses)

\* Every step of a task but Settle and Forget is one of those, as long as its job has an
\* entry in the registry: without one the first step would be the last.
LEMMA StepServes ==
  ASSUME TypeOK, TaskShape, NEW t \in Tasks, registry[JobOf(t)] # NoTask,
         \/ AtStep(t) \/ SlotTaken(t) \/ PostProcess(t) \/ PostWrite(t) \/ Work(t)
         \/ Checkpoint(t) \/ Tidy(t) \/ Wipe(t)
  PROVE  Serves(t)
<1> USE DEF rowVars, fileVars, loopVars, taskVars, Serves, Busy
<1>1. CASE AtStep(t)
  <2>1. CASE SetStatus(t)
    <3>1. \A j \in Jobs :
            status'[j] = status[j] \/ (JobOf(t) = j /\ status'[j] \in ActiveStatuses)
      BY <2>1 DEF SetStatus, WriteStatus, StepStatus, ActiveStatuses, TypeOK
    <3> QED
      BY <2>1, <3>1 DEF SetStatus, Goto, JobOf, TypeOK
  <2>2. CASE GateCancelled(t) \/ NoFinalPath(t) \/ NoMoreSteps(t)
    BY <2>2 DEF GateCancelled, NoFinalPath, NoMoreSteps, AtGate, End, Goto, JobOf, TypeOK
  <2>3. CASE SkipStep(t)
    BY <2>3, SameJob DEF SkipStep, AtGate, Goto, TypeOK
  <2>4. CASE EnterStep(t)
    BY <2>4, SameJob DEF EnterStep, AtGate, Goto, TypeOK
  <2>5. CASE RunJob(t)
    BY <2>5 DEF RunJob, Goto, JobOf, TypeOK
  <2> QED
    BY <1>1, <2>1, <2>2, <2>3, <2>4, <2>5 DEF AtStep
<1>2. CASE PostWrite(t)
  <2>1. \A j \in Jobs :
          status'[j] = status[j] \/ (JobOf(t) = j /\ status'[j] \in ActiveStatuses)
    BY <1>2 DEF PostWrite, WriteStatus, ActiveStatuses, TypeOK
  <2>2. Busy(t)
    BY <1>2 DEF PostWrite, TaskShape
  <2> QED
    BY <1>2, <2>1, <2>2 DEF PostWrite, JobOf
<1>3. CASE SlotTaken(t) \/ PostProcess(t) \/ Checkpoint(t) \/ Tidy(t) \/ Wipe(t)
  BY <1>3 DEF SlotTaken, PostProcess, Checkpoint, Tidy, Wipe, End, Goto, JobOf, TypeOK
<1>4. CASE Work(t)
  <2>1. CASE DownloadOk(t)
    BY <2>1, SameJob DEF DownloadOk, Goto, TypeOK
  <2>2. CASE OrganizeOk(t)
    BY <2>2, SameJob DEF OrganizeOk, Goto, TypeOK
  <2>3. CASE WorkCancelled(t) \/ WorkFailed(t) \/ TranscodeOk(t) \/ ImportOk(t)
    BY <2>3 DEF WorkCancelled, WorkFailed, TranscodeOk, ImportOk, End, Goto, JobOf, TypeOK
  <2> QED
    BY <1>4, <2>1, <2>2, <2>3 DEF Work
<1> QED
  BY <1>1, <1>2, <1>3, <1>4

\* A job that nobody is working on has no entry, and an entry means a task.
LEMMA TaskOfRow ==
  ASSUME CalmInv, NEW t \in Tasks, pc[t] # "idle"
  PROVE  /\ JobOf(t) \in Jobs
         /\ status[JobOf(t)] \in ActiveStatuses \cup TerminalStatuses
         /\ registry[JobOf(t)] = t /\ t # NoTask
  BY TasksAssumption DEF CalmInv, IInv, TaskShape, Registered, RowTells, Busy

\* The task of a step is its job's entry.
LEMMA MoverHasEntry ==
  ASSUME CalmInv, NEW t \in Tasks, Task(t)
  PROVE  pc[t] # "idle" /\ registry[JobOf(t)] = t /\ t # NoTask
<1>1. pc[t] # "idle"
  BY DEF Task, AtStep, RunJob, GateCancelled, SkipStep, EnterStep, NoFinalPath, NoMoreSteps,
     AtGate, SetStatus, SlotTaken, PostProcess, PostWrite, Work, WorkCancelled, WorkFailed,
     DownloadOk, TranscodeOk, OrganizeOk, ImportOk, AfterStep, Checkpoint, Tidy, Wipe,
     Settle, Forget, TaskShape, CalmInv, IInv
<1> QED
  BY <1>1, TaskOfRow

\* Those steps keep the row and its task in agreement.
LEMMA ServingKeepsCalm ==
  ASSUME CalmInv, NEW t \in Tasks, Serves(t)
  PROVE  Registered' /\ RowTells'
<1>1. JobOf(t) \in Jobs /\ registry[JobOf(t)] = t /\ registry \in [Jobs -> Tasks \cup {NoTask}]
  BY TaskOfRow DEF Serves, Busy, CalmInv, IInv, TypeOK
<1>2. \A u \in Tasks : pc'[u] # "idle" <=> pc[u] # "idle"
  BY DEF Serves, Busy
<1>3. Registered'
  <2>1. ASSUME NEW u \in Tasks, pc'[u] # "idle"
        PROVE  registry'[JobOf(u)'] = u
    BY <1>2, <2>1 DEF CalmInv, Registered, Serves
  <2>2. ASSUME NEW j \in Jobs, NEW u \in Tasks, registry'[j] = u
        PROVE  pc'[u] # "idle" /\ JobOf(u)' = j
    <3>1. registry[j] = u
      BY <2>2 DEF Serves
    <3>2. pc[u] # "idle" /\ JobOf(u) = j
      BY <3>1, TasksAssumption DEF CalmInv, Registered
    <3> QED
      BY <1>2, <3>2 DEF Serves
  <2>3. \A j \in Jobs : registry'[j] \in Tasks \cup {NoTask}
    BY <1>1 DEF Serves
  <2> QED
    BY <2>1, <2>2, <2>3 DEF Registered, JobOf
<1>4. ASSUME NEW u \in Tasks, pc'[u] # "idle"
      PROVE  /\ Busy(u)' => status'[JobOf(u)'] \in ActiveStatuses
             /\ pc'[u] = "tail" => status'[JobOf(u)'] \in TerminalStatuses
  <2>1. pc[u] # "idle" /\ JobOf(u)' = JobOf(u) /\ JobOf(u) \in Jobs
    BY <1>2, <1>4, TaskOfRow DEF Serves
  <2>2. CASE u = t
    BY <2>1, <2>2 DEF Serves, Busy, CalmInv, RowTells
  <2>3. CASE u # t
    <3>1. JobOf(u) # JobOf(t)
      BY <1>1, <2>1, <2>3, TaskOfRow
    <3>2. status'[JobOf(u)] = status[JobOf(u)] /\ pc'[u] = pc[u]
      BY <2>1, <2>3, <3>1 DEF Serves
    <3> QED
      BY <2>1, <3>2 DEF Busy, CalmInv, RowTells
  <2> QED
    BY <2>2, <2>3
<1>5. RowTells'
  BY <1>4 DEF RowTells, Busy
<1> QED
  BY <1>3, <1>5

\* The two that are left of a task: the verdict, and the end.
LEMMA EndKeepsCalm ==
  ASSUME CalmInv, NEW t \in Tasks, Settle(t) \/ Forget(t)
  PROVE  Registered' /\ RowTells'
<1> USE DEF rowVars, fileVars, loopVars, taskVars
<1>1. TypeOK /\ TaskShape /\ pc[t] # "idle"
  BY DEF CalmInv, IInv, Settle, Forget
<1>2. JobOf(t) \in Jobs /\ registry[JobOf(t)] = t /\ t # NoTask
  BY <1>1, TaskOfRow
<1>3. ASSUME NEW u \in Tasks \ {t}, pc[u] # "idle"
      PROVE  JobOf(u) \in Jobs /\ JobOf(u) # JobOf(t) /\ registry[JobOf(u)] = u
  BY <1>2, <1>3, TaskOfRow
<1>4. CASE Settle(t)
  <2>1. /\ pc' = [pc EXCEPT ![t] = "tail"] /\ UNCHANGED <<registry, ctx>>
        /\ status' \in [Jobs -> JobStatuses \cup NoRow]
        /\ \A j \in Jobs \ {JobOf(t)} : status'[j] = status[j]
    BY <1>1, <1>4 DEF Settle, End, Goto, WriteStatus, TaskShape, TypeOK, JobStatuses,
       TerminalStatuses, Verdicts
  <2>2. status'[JobOf(t)] \in TerminalStatuses
    <3>1. Busy(t) /\ result[t] \in Verdicts
      BY <1>1, <1>4 DEF Settle, Busy, TaskShape
    <3>2. HasRow(JobOf(t))
      BY <3>1 DEF CalmInv, RowTells, HasRow, ActiveStatuses, NoRow
    <3> QED
      BY <1>1, <1>2, <1>4, <3>1, <3>2 DEF Settle, WriteStatus, TypeOK, Verdicts,
         TerminalStatuses
  <2>3. \A u \in Tasks : JobOf(u)' = JobOf(u) /\ (pc'[u] # "idle" <=> pc[u] # "idle")
    BY <1>1, <2>1 DEF JobOf, TypeOK
  <2>4. Registered'
    BY <2>1, <2>3 DEF CalmInv, Registered, JobOf
  <2>5. ASSUME NEW u \in Tasks, u # t, pc[u] # "idle"
        PROVE  status'[JobOf(u)] = status[JobOf(u)] /\ pc'[u] = pc[u]
    BY <1>1, <1>3, <2>1, <2>5 DEF TypeOK
  <2>6. pc'[t] = "tail"
    BY <1>1, <2>1 DEF TypeOK
  <2>7. ASSUME NEW u \in Tasks
        PROVE  /\ Busy(u)' => status'[JobOf(u)] \in ActiveStatuses
               /\ pc'[u] = "tail" => status'[JobOf(u)] \in TerminalStatuses
    BY <2>2, <2>3, <2>5, <2>6 DEF Busy, CalmInv, RowTells
  <2> QED
    BY <2>3, <2>4, <2>7 DEF RowTells, Busy
<1>5. CASE Forget(t)
  <2>1. /\ pc' = [pc EXCEPT ![t] = "idle"] /\ UNCHANGED status
        /\ registry' = [registry EXCEPT ![JobOf(t)] = NoTask]
        /\ ctx' = [ctx EXCEPT ![t] = NoCtx]
    BY <1>5 DEF Forget, Goto
  <2>2. \A u \in Tasks : u # t => JobOf(u)' = JobOf(u) /\ pc'[u] = pc[u]
    BY <1>1, <2>1 DEF JobOf, TypeOK
  <2>3. pc'[t] = "idle"
    BY <1>1, <2>1 DEF TypeOK
  <2>4. RowTells'
    <3>1. ASSUME NEW u \in Tasks, pc'[u] # "idle"
          PROVE  /\ Busy(u)' => status'[JobOf(u)'] \in ActiveStatuses
                 /\ pc'[u] = "tail" => status'[JobOf(u)'] \in TerminalStatuses
      BY <2>1, <2>2, <2>3, <3>1 DEF Busy, CalmInv, RowTells
    <3> QED
      BY <3>1 DEF RowTells, Busy
  <2>5. ASSUME NEW u \in Tasks, pc'[u] # "idle"
        PROVE  registry'[JobOf(u)'] = u
    BY <1>1, <1>3, <2>1, <2>2, <2>3, <2>5 DEF TypeOK
  <2>6. ASSUME NEW j \in Jobs, NEW u \in Tasks, registry'[j] = u
        PROVE  pc'[u] # "idle" /\ JobOf(u)' = j
    <3>1. j # JobOf(t) /\ registry[j] = u
      BY <1>1, <2>1, <2>6, TasksAssumption DEF TypeOK
    <3>2. pc[u] # "idle" /\ JobOf(u) = j
      BY <3>1, TasksAssumption DEF CalmInv, Registered
    <3> QED
      BY <2>2, <3>1, <3>2
  <2>7. registry' \in [Jobs -> Tasks \cup {NoTask}]
    BY <1>1, <2>1 DEF TypeOK
  <2> QED
    BY <2>4, <2>5, <2>6, <2>7 DEF Registered, JobOf
<1> QED
  BY <1>4, <1>5

\* _claim takes a row that has no task, and gives it one.
LEMMA ClaimKeepsCalm ==
  ASSUME CalmInv, NEW j \in Jobs, NEW t \in Tasks, Claim(j, t)
  PROVE  Registered' /\ RowTells'
<1>1. TypeOK /\ pc[t] = "idle" /\ status[j] = "queued"
  BY DEF CalmInv, IInv, Claim
<1>2. ASSUME NEW u \in Tasks, pc[u] # "idle"
      PROVE  u # t /\ JobOf(u) \in Jobs \ {j} /\ registry[JobOf(u)] = u
  BY <1>1, <1>2, TaskOfRow DEF ActiveStatuses, TerminalStatuses
<1>3. /\ pc' = [pc EXCEPT ![t] = "start"] /\ status' = [status EXCEPT ![j] = "starting"]
      /\ registry' = [registry EXCEPT ![j] = t]
      /\ \A u \in Tasks : u # t => ctx'[u] = ctx[u] /\ JobOf(u)' = JobOf(u)
      /\ ctx'[t] = [job |-> j, path |-> path[j], imp |-> imp[j], video |-> FALSE]
  BY <1>1 DEF Claim, JobOf, TypeOK
<1>4. JobOf(t)' = j
  BY <1>3 DEF JobOf
<1>5. /\ pc'[t] = "start" /\ status'[j] = "starting" /\ registry'[j] = t
      /\ \A u \in Tasks : u # t => pc'[u] = pc[u]
      /\ \A i \in Jobs : i # j => status'[i] = status[i] /\ registry'[i] = registry[i]
  BY <1>1, <1>3 DEF TypeOK
<1>6. ASSUME NEW u \in Tasks, pc'[u] # "idle"
      PROVE  /\ registry'[JobOf(u)'] = u
             /\ Busy(u)' => status'[JobOf(u)'] \in ActiveStatuses
             /\ pc'[u] = "tail" => status'[JobOf(u)'] \in TerminalStatuses
  <2>1. CASE u = t
    BY <1>4, <1>5, <2>1 DEF Busy, ActiveStatuses
  <2>2. CASE u # t
    <3>1. pc[u] # "idle" /\ pc'[u] = pc[u] /\ JobOf(u)' = JobOf(u)
      BY <1>3, <1>5, <1>6, <2>2
    <3>2. JobOf(u) \in Jobs /\ JobOf(u) # j /\ registry[JobOf(u)] = u
      BY <1>2, <3>1
    <3> QED
      BY <1>5, <3>1, <3>2 DEF Busy, CalmInv, RowTells
  <2> QED
    BY <2>1, <2>2
<1>7. ASSUME NEW i \in Jobs, NEW u \in Tasks, registry'[i] = u
      PROVE  pc'[u] # "idle" /\ JobOf(u)' = i
  <2>1. CASE i = j
    BY <1>4, <1>5, <1>7, <2>1
  <2>2. CASE i # j
    <3>1. registry[i] = u
      BY <1>5, <1>7, <2>2
    <3>2. pc[u] # "idle" /\ JobOf(u) = i
      BY <3>1, TasksAssumption DEF CalmInv, Registered
    <3> QED
      BY <1>2, <1>3, <1>5, <3>2
  <2> QED
    BY <2>1, <2>2
<1>8. registry' \in [Jobs -> Tasks \cup {NoTask}]
  BY <1>1, <1>3 DEF TypeOK
<1> QED
  BY <1>6, <1>7, <1>8 DEF Registered, RowTells, Busy, JobOf

\* What a row may do when no task of the job is there: appear, or be finished by a
\* cancel that finds nobody to signal.
LEMMA IdleRowsOnly ==
  ASSUME CalmInv, UserOps \subseteq {"cancel"}, NEW i \in Jobs, Api(i)
  PROVE  /\ UNCHANGED <<pc, ctx, registry>>
         /\ \A j \in Jobs : status'[j] = status[j]
              \/ (registry[j] = NoTask /\ status[j] \notin TerminalStatuses)
<1> USE DEF rowVars, fileVars, loopVars, taskVars
<1>1. TypeOK
  BY DEF CalmInv, IInv
<1>2. CASE Create(i)
  <2>1. ASSUME registry[i] # NoTask
        PROVE  FALSE
    <3>1. registry[i] \in Tasks /\ pc[registry[i]] # "idle" /\ JobOf(registry[i]) = i
      BY <1>1, <2>1 DEF TypeOK, CalmInv, Registered
    <3>2. status[i] \in ActiveStatuses \cup TerminalStatuses
      BY <3>1, TaskOfRow
    <3> QED
      BY <1>2, <3>2 DEF Create, ActiveStatuses, TerminalStatuses
  <2> QED
    BY <1>1, <1>2, <2>1 DEF Create, Requeue, TerminalStatuses, TypeOK
<1>3. CASE Cancel(i)
  BY <1>1, <1>3 DEF Cancel, Signalled, CancellableStatuses, TerminalStatuses, TypeOK
<1>4. CASE CancelRmtree(i)
  BY <1>4 DEF CancelRmtree
<1> QED
  BY <1>2, <1>3, <1>4 DEF Api, Retry, RetryImport, DeleteFiles, DeleteRow

\* recover() and a stop find no task, or leave none.
LEMMA RestartKeepsCalm ==
  ASSUME CalmInv, LoopWake \/ ClaimNothing \/ Crash \/ Recover \/ UNCHANGED vars
  PROVE  Registered' /\ RowTells'
<1> USE DEF rowVars, fileVars, loopVars, taskVars
<1>1. CASE LoopWake \/ ClaimNothing \/ UNCHANGED vars
  BY <1>1 DEF LoopWake, ClaimNothing, vars, CalmInv, Registered, RowTells, Busy, JobOf
<1>2. CASE Crash
  BY <1>2 DEF Crash, EachTask, Registered, RowTells, Busy
<1>3. CASE Recover
  <2>1. \A t \in Tasks : pc[t] = "idle"
    BY <1>3 DEF Recover, CalmInv, IInv, DownIsEmpty
  <2> QED
    BY <1>3, <2>1 DEF Recover, CalmInv, Registered, RowTells, Busy, JobOf
<1> QED
  BY <1>1, <1>2, <1>3

\* Every step keeps CalmInv.
LEMMA CalmStep ==
  ASSUME CalmInv, UserOps \subseteq {"cancel"}, [Next]_vars
  PROVE  CalmInv'
<1>1. IInv' /\ TypeOK /\ TaskShape
  BY InvStep DEF CalmInv, IInv
<1>2. ASSUME NEW t \in Tasks, Task(t)
      PROVE  Registered' /\ RowTells'
  <2>1. CASE Settle(t) \/ Forget(t)
    BY <2>1, EndKeepsCalm
  <2>2. CASE ~(Settle(t) \/ Forget(t))
    <3>1. registry[JobOf(t)] # NoTask
      BY <1>2, MoverHasEntry
    <3>2. Serves(t)
      BY <1>1, <1>2, <2>2, <3>1, StepServes DEF Task, AfterStep
    <3> QED
      BY <3>2, ServingKeepsCalm
  <2> QED
    BY <2>1, <2>2
<1>3. ASSUME NEW i \in Jobs, Api(i)
      PROVE  Registered' /\ RowTells'
  <2>1. UNCHANGED <<pc, ctx, registry>>
    BY <1>3, IdleRowsOnly
  <2>2. ASSUME NEW u \in Tasks, pc[u] # "idle"
        PROVE  status'[JobOf(u)] = status[JobOf(u)]
    BY <1>3, <2>2, IdleRowsOnly, TaskOfRow
  <2> QED
    BY <2>1, <2>2 DEF CalmInv, Registered, RowTells, Busy, JobOf
<1>4. ASSUME LoopWake \/ ClaimNothing \/ Crash \/ Recover \/ UNCHANGED vars
      PROVE  Registered' /\ RowTells'
  BY <1>4, RestartKeepsCalm
<1>5. ASSUME NEW i \in Jobs, NEW t \in Tasks, Claim(i, t)
      PROVE  Registered' /\ RowTells'
  BY <1>5, ClaimKeepsCalm
<1>6. Registered' /\ RowTells'
  BY <1>2, <1>3, <1>4, <1>5 DEF Next, Loop
<1> QED
  BY <1>1, <1>6 DEF CalmInv

\* It holds at the start.
LEMMA CalmInit == Init => CalmInv
  BY InvInit DEF CalmInv, Init, EachTask, Registered, RowTells, Busy

\* Without retries and deletes, a row and the task that serves it agree (_run_job,
\* _finish, the done-callback of _start), through cancels and restarts.
THEOREM CalmInvariant ==
  ASSUME UserOps \subseteq {"cancel"}
  PROVE  Spec => []CalmInv
<1>1. CalmInv /\ [Next]_vars => CalmInv'
  BY CalmStep
<1> QED
  BY <1>1, CalmInit, PTL DEF Spec

\* Without retries, nobody works on a job whose row says cancelled (JobService.cancel,
\* _cancelled).
THEOREM CancelledJobsAreQuiet ==
  ASSUME UserOps \subseteq {"cancel"}
  PROVE  Spec => []CancelledIsQuiet
<1>1. CalmInv => CancelledIsQuiet
  <2> SUFFICES ASSUME CalmInv, NEW t \in Tasks, Worker(t)
               PROVE  status[JobOf(t)] # "cancelled"
    BY DEF CancelledIsQuiet
  <2>1. Busy(t)
    BY DEF Worker, Working, Busy
  <2> QED
    BY <2>1 DEF CalmInv, RowTells, ActiveStatuses
<1> QED
  BY <1>1, CalmInvariant, PTL

\* Without retries, no step writes over a verdict: neither the background write of
\* `postprocessing`, nor a second cancel, nor recovery.
LEMMA VerdictStays ==
  ASSUME CalmInv, UserOps \subseteq {"cancel"}, [Next]_vars,
         NEW j \in Jobs, status[j] \in TerminalStatuses
  PROVE  status'[j] = status[j]
<1> USE DEF rowVars, fileVars, loopVars, taskVars
<1>1. TypeOK /\ TaskShape
  BY DEF CalmInv, IInv
<1>2. ASSUME NEW t \in Tasks, Busy(t)
      PROVE  JobOf(t) # j
  BY <1>2 DEF CalmInv, RowTells, ActiveStatuses, TerminalStatuses
<1>3. ASSUME NEW t \in Tasks, Task(t)
      PROVE  status'[j] = status[j]
  <2>1. CASE Settle(t)
    <3>1. JobOf(t) # j
      BY <1>2, <2>1 DEF Settle, Busy
    <3> QED
      BY <1>1, <2>1, <3>1 DEF Settle, WriteStatus, TypeOK
  <2>2. CASE Forget(t)
    BY <2>2 DEF Forget
  <2>3. CASE ~(Settle(t) \/ Forget(t))
    <3>1. registry[JobOf(t)] # NoTask
      BY <1>3, MoverHasEntry
    <3>2. Serves(t)
      BY <1>1, <1>3, <2>3, <3>1, StepServes DEF Task, AfterStep
    <3> QED
      BY <1>2, <3>2 DEF Serves
  <2> QED
    BY <2>1, <2>2, <2>3
<1>4. ASSUME NEW i \in Jobs, Api(i)
      PROVE  status'[j] = status[j]
  BY <1>4, IdleRowsOnly
<1>5. CASE Loop \/ Crash \/ Recover \/ UNCHANGED vars
  BY <1>1, <1>5 DEF Loop, LoopWake, ClaimNothing, Claim, Crash, Recover, Interrupted, vars,
     ActiveStatuses, TerminalStatuses, TypeOK
<1> QED
  BY <1>3, <1>4, <1>5 DEF Next

\* A verdict is final, for every interleaving of cancels, late writes and restarts.
THEOREM VerdictsAreFinal ==
  ASSUME UserOps \subseteq {"cancel"}
  PROVE  Spec => TerminalIsFinal
<1>1. CalmInv /\ [Next]_vars =>
        [\A j \in Jobs : status[j] \in TerminalStatuses => status'[j] = status[j]]_vars
  BY VerdictStays
<1> QED
  BY <1>1, CalmInvariant, PTL DEF Spec, TerminalIsFinal

\* Without retries and deletes, a row that JobService.cancel finishes on the spot, because
\* the registry has no task for it, is run by no task.
THEOREM OnlyWaitingIsFinished ==
  ASSUME UserOps \subseteq {"cancel"}
  PROVE  Spec => NothingToSignal
<1>1. ASSUME CalmInv, [Next]_vars, NEW j \in Jobs, <<j, "rmtree">> \in calls' \ calls,
             NEW t \in Tasks, Worker(t)
      PROVE  JobOf(t) # j
  <2>1. Cancel(j) /\ ~Signalled(j)
    <3>1. \A u \in Tasks : Task(u) => calls' = calls
      BY DEF Task, AtStep, RunJob, GateCancelled, SkipStep, EnterStep, NoFinalPath, NoMoreSteps,
         SetStatus, SlotTaken, PostProcess, PostWrite, Work, WorkCancelled, WorkFailed,
         DownloadOk, TranscodeOk, OrganizeOk, ImportOk, AfterStep, Checkpoint, Tidy, Wipe,
         Settle, Forget, rowVars, fileVars, loopVars, taskVars
    <3>2. Loop \/ Crash \/ Recover \/ UNCHANGED vars => calls' \subseteq calls
      BY DEF Loop, LoopWake, Claim, ClaimNothing, Crash, Recover, rowVars, fileVars, loopVars,
         taskVars, vars
    <3>3. ASSUME NEW i \in Jobs, Api(i)
          PROVE  Cancel(j) /\ ~Signalled(j)
      BY <1>1, <3>3 DEF Api, Create, Cancel, CancelRmtree, Retry, RetryImport, DeleteFiles,
         DeleteRow, rowVars, fileVars, loopVars, taskVars
    <3> QED
      BY <1>1, <3>1, <3>2, <3>3 DEF Next
  <2> QED
    BY <1>1, <2>1, TasksAssumption DEF Signalled, Worker, Working, CalmInv, Registered
<1>2. CalmInv /\ [Next]_vars =>
        [\A j \in Jobs : <<j, "rmtree">> \in calls' \ calls =>
             \A t \in Tasks : Worker(t) => JobOf(t) # j]_vars
  BY <1>1
<1> QED
  BY <1>2, CalmInvariant, PTL DEF Spec, NothingToSignal

---------------------------------------------------------------------------
(* A claimed row has its task                                              *)

\* While the process is up the job of each active row has an entry in the registry.
HasEntry == Up => \A j \in Jobs : status[j] \in ActiveStatuses => registry[j] # NoTask

\* Every step keeps that, if nothing is retried: no old task's done-callback can take the
\* entry of a new one.
LEMMA EntryStep ==
  ASSUME CalmInv, HasEntry, UserOps \subseteq {"cancel"}, [Next]_vars
  PROVE  HasEntry'
<1> USE DEF rowVars, fileVars, loopVars, taskVars
<1>1. TypeOK /\ TaskShape
  BY DEF CalmInv, IInv
<1>2. ASSUME NEW t \in Tasks, Task(t)
      PROVE  HasEntry'
  <2>1. UNCHANGED loop
    BY <1>2 DEF Task, AtStep, RunJob, GateCancelled, SkipStep, EnterStep, NoFinalPath,
       NoMoreSteps, SetStatus, SlotTaken, PostProcess, PostWrite, Work, WorkCancelled,
       WorkFailed, DownloadOk, TranscodeOk, OrganizeOk, ImportOk, AfterStep, Checkpoint,
       Tidy, Wipe, Settle, Forget
  <2>2. CASE Settle(t)
    <3>1. status' = status \/ (UNCHANGED registry /\ JobOf(t) \in Jobs /\
             status' = [status EXCEPT ![JobOf(t)] = result[t]])
      BY <1>1, <2>2 DEF Settle, WriteStatus, TaskShape
    <3>2. UNCHANGED registry /\ result[t] \notin ActiveStatuses
      BY <1>1, <2>2 DEF Settle, TaskShape, Verdicts, ActiveStatuses
    <3> QED
      BY <1>1, <2>1, <3>1, <3>2 DEF HasEntry, Up, TypeOK
  <2>3. CASE Forget(t)
    <3>1. JobOf(t) \in Jobs /\ status[JobOf(t)] \in TerminalStatuses
      BY <2>3, TaskOfRow DEF Forget, CalmInv, RowTells
    <3>2. \A j \in Jobs : j # JobOf(t) => registry'[j] = registry[j]
      BY <1>1, <2>3 DEF Forget, TypeOK
    <3> QED
      BY <2>1, <2>3, <3>1, <3>2 DEF Forget, HasEntry, Up, ActiveStatuses, TerminalStatuses
  <2>4. CASE ~(Settle(t) \/ Forget(t))
    <3>1. registry[JobOf(t)] # NoTask
      BY <1>2, MoverHasEntry
    <3>2. Serves(t)
      BY <1>1, <1>2, <2>4, <3>1, StepServes DEF Task, AfterStep
    <3> QED
      BY <2>1, <3>1, <3>2 DEF Serves, HasEntry, Up
  <2> QED
    BY <2>2, <2>3, <2>4
<1>3. ASSUME NEW i \in Jobs, Api(i)
      PROVE  HasEntry'
  <2>1. UNCHANGED <<registry, loop>>
    BY <1>3 DEF Api, Create, Cancel, CancelRmtree, Retry, RetryImport, DeleteFiles, DeleteRow
  <2>2. ASSUME NEW j \in Jobs, status'[j] \in ActiveStatuses
        PROVE  status[j] \in ActiveStatuses
    BY <1>1, <1>3, <2>2 DEF Api, Create, Cancel, CancelRmtree, Retry, RetryImport,
       DeleteFiles, DeleteRow, Requeue, ActiveStatuses, TypeOK
  <2> QED
    BY <2>1, <2>2 DEF HasEntry, Up
<1>4. ASSUME NEW i \in Jobs, NEW t \in Tasks, Claim(i, t)
      PROVE  HasEntry'
  BY <1>1, <1>4, TasksAssumption DEF Claim, HasEntry, Up, TypeOK
<1>5. CASE Recover
  <2>1. \A j \in Jobs : status'[j] \notin ActiveStatuses
    BY <1>1, <1>5 DEF Recover, Interrupted, ActiveStatuses, TypeOK
  <2> QED
    BY <2>1 DEF HasEntry
<1>6. CASE LoopWake \/ ClaimNothing \/ Crash \/ UNCHANGED vars
  BY <1>6 DEF LoopWake, ClaimNothing, Crash, vars, HasEntry, Up
<1> QED
  BY <1>2, <1>3, <1>4, <1>5, <1>6 DEF Next, Loop

\* Where nothing is retried, a row that says `starting` has a task that is to run it: what
\* LostStart.cfg refutes needs a retry while the old task's done-callback is due.
THEOREM StartingIsOwned ==
  ASSUME UserOps \subseteq {"cancel"}
  PROVE  Spec => []StartingHasTask
<1>1. CalmInv /\ HasEntry => StartingHasTask
  <2> SUFFICES ASSUME CalmInv, HasEntry, Up, NEW j \in Jobs, status[j] = "starting"
               PROVE  \E t \in Tasks : Running(t) /\ JobOf(t) = j
    BY DEF StartingHasTask, Tended
  <2>1. registry[j] \in Tasks /\ pc[registry[j]] # "idle" /\ JobOf(registry[j]) = j
    BY DEF CalmInv, IInv, TypeOK, Registered, HasEntry, ActiveStatuses
  <2>2. pc[registry[j]] # "tail"
    BY <2>1 DEF CalmInv, RowTells, TerminalStatuses
  <2>3. Running(registry[j])
    BY <2>1, <2>2 DEF Running, Working, Ending, Pcs, CalmInv, IInv, TypeOK
  <2> QED
    BY <2>1, <2>3
<1>2. CalmInv /\ HasEntry /\ [Next]_vars => (CalmInv /\ HasEntry)'
  BY CalmStep, EntryStep
<1>3. Init => CalmInv /\ HasEntry
  BY CalmInit DEF Init, HasEntry, ActiveStatuses
<1> QED
  BY <1>1, <1>2, <1>3, PTL DEF Spec

---------------------------------------------------------------------------
(* An accepted cancel is obeyed                                            *)

\* A run that has the organize step before it has not moved the video.
NotYetMoved(t) ==
    step[t] = Organize /\ pc[t] \in {"start", "gate", "status", "work"} =>
        disk[JobOf(t)] \notin Organized

\* From the commit of `organizing` on the row refuses a cancel.
TooLate(t) ==
    \/ step[t] = Organize /\ pc[t] \in {"work", "checkpoint"}
    \/ step[t] >= Import /\ Busy(t)
RefusesCancel(t) == TooLate(t) => status[JobOf(t)] \in {"organizing", "importing"}

\* Past the check before the import nobody looks at the event, and it is not set.
PastLastLook(t) ==
    \/ step[t] = Import /\ pc[t] \in {"status", "work", "checkpoint"}
    \/ step[t] = Done /\ Busy(t)
LastLook(t) == PastLastLook(t) => ~cancelled[t]

Looks(t) == NotYetMoved(t) /\ RefusesCancel(t) /\ LastLook(t)

\* A cancel that was accepted and is not over has set the event of the job's task.
EventSet(j) ==
    cancelReq[j] /\ status[j] \notin TerminalStatuses =>
        registry[j] # NoTask /\ cancelled[registry[j]]

\* A job that was never claimed starts with the download.
Unclaimed(j) == status[j] \in {"absent", "queued"} => lcs[j] = 0

\* A completed job was not cancelled.
Obeyed(j) == status[j] = "completed" => ~cancelReq[j]

\* The inductive invariant of this section.
ObeyInv ==
    /\ PlacedInv
    /\ CalmInv
    /\ Up
    /\ \A t \in Tasks : Looks(t)
    /\ \A j \in Jobs : EventSet(j) /\ Unclaimed(j) /\ Obeyed(j)

\* The environment of this section: requests and cancels, in one life of the process.
OneLife == UserOps \subseteq {"cancel"} /\ ~Crashes

\* What ObeyInv says of one task, and of its row.
LEMMA ObeyTask ==
  ASSUME ObeyInv, NEW t \in Tasks, pc[t] # "idle"
  PROVE  /\ TypeOK /\ TaskShape
         /\ JobOf(t) \in Jobs /\ registry[JobOf(t)] = t
         /\ HasRow(JobOf(t))
         /\ Busy(t) => status[JobOf(t)] \in ActiveStatuses
         /\ Looks(t)
<1>1. CalmInv /\ Looks(t)
  BY DEF ObeyInv
<1>2. HasRow(JobOf(t))
  BY <1>1, TaskOfRow DEF HasRow, NoRow, ActiveStatuses, TerminalStatuses
<1> QED
  BY <1>1, <1>2, TaskOfRow DEF CalmInv, IInv, RowTells

\* A step of another task changes neither a task nor its row and files.
LEMMA OtherRow ==
  ASSUME ObeyInv, NEW t \in Tasks, Task(t), NEW u \in Tasks \ {t}, pc[u] # "idle"
  PROVE  /\ pc'[u] = pc[u] /\ step'[u] = step[u] /\ JobOf(u)' = JobOf(u)
         /\ post'[u] = post[u] /\ cancelled'[u] = cancelled[u]
         /\ status'[JobOf(u)] = status[JobOf(u)] /\ disk'[JobOf(u)] = disk[JobOf(u)]
<1> USE DEF rowVars, fileVars, loopVars, taskVars
<1>1. TypeOK /\ TaskShape /\ JobOf(u) \in Jobs /\ registry[JobOf(u)] = u
  BY ObeyTask
<1>2. pc[t] # "idle"
  BY <1>1 DEF Task, AtStep, RunJob, GateCancelled, SkipStep, EnterStep, NoFinalPath, NoMoreSteps,
     AtGate, SetStatus, SlotTaken, PostProcess, PostWrite, Work, WorkCancelled, WorkFailed,
     DownloadOk, TranscodeOk, OrganizeOk, ImportOk, AfterStep, Checkpoint, Tidy, Wipe,
     Settle, Forget, TaskShape
<1>3. JobOf(u) # JobOf(t)
  BY <1>1, <1>2, ObeyTask
<1>4. pc'[u] = pc[u] /\ step'[u] = step[u] /\ JobOf(u)' = JobOf(u)
  BY <1>1, OthersSteady DEF Steady
<1>5. post'[u] = post[u] /\ cancelled'[u] = cancelled[u]
  BY <1>1 DEF Task, AtStep, RunJob, GateCancelled, SkipStep, EnterStep, NoFinalPath, NoMoreSteps,
     SetStatus, SlotTaken, PostProcess, PostWrite, Work, WorkCancelled, WorkFailed,
     DownloadOk, TranscodeOk, OrganizeOk, ImportOk, AfterStep, Checkpoint, Tidy, Wipe,
     Settle, Forget, TypeOK
<1>6. status'[JobOf(u)] = status[JobOf(u)]
  BY <1>1, <1>3 DEF Task, AtStep, RunJob, GateCancelled, SkipStep, EnterStep, NoFinalPath,
     NoMoreSteps, SetStatus, SlotTaken, PostProcess, PostWrite, Work, WorkCancelled,
     WorkFailed, DownloadOk, TranscodeOk, OrganizeOk, ImportOk, AfterStep, Checkpoint, Tidy,
     Wipe, Settle, Forget, WriteStatus, TypeOK
<1>7. disk'[JobOf(u)] = disk[JobOf(u)]
  BY <1>1, <1>3 DEF Task, AtStep, RunJob, GateCancelled, SkipStep, EnterStep, NoFinalPath,
     NoMoreSteps, SetStatus, SlotTaken, PostProcess, PostWrite, Work, WorkCancelled,
     WorkFailed, DownloadOk, TranscodeOk, OrganizeOk, ImportOk, AfterStep, Checkpoint, Tidy,
     Wipe, Settle, Forget, TypeOK
<1> QED
  BY <1>4, <1>5, <1>6, <1>7

\* So it keeps what the other tasks know.
LEMMA OtherLooks ==
  ASSUME ObeyInv, NEW t \in Tasks, Task(t), NEW u \in Tasks \ {t}
  PROVE  Looks(u)'
<1>1. CASE pc[u] = "idle"
  <2>1. TypeOK /\ TaskShape
    BY DEF ObeyInv, CalmInv, IInv
  <2>2. pc'[u] = "idle" /\ step'[u] = 0
    BY <1>1, <2>1, OthersSteady DEF Steady, TaskShape
  <2>3. post'[u] = "no"
    BY <1>1, <2>1 DEF rowVars, fileVars, loopVars, taskVars, Task, AtStep, RunJob, GateCancelled,
       SkipStep, EnterStep, NoFinalPath, NoMoreSteps, SetStatus, SlotTaken, PostProcess,
       PostWrite, Work, WorkCancelled, WorkFailed, DownloadOk, TranscodeOk, OrganizeOk,
       ImportOk, AfterStep, Checkpoint, Tidy, Wipe, Settle, Forget, TypeOK, TaskShape
  <2> QED
    BY <2>2, <2>3 DEF Looks, NotYetMoved, RefusesCancel, TooLate, LastLook,
       PastLastLook, Busy
<1>2. CASE pc[u] # "idle"
  BY <1>2, OtherRow, ObeyTask DEF Looks, NotYetMoved, RefusesCancel, TooLate,
     LastLook, PastLastLook, Busy
<1> QED
  BY <1>1, <1>2

\* What a step of a task changes of what that task knows, action by action.
LEMMA MoverLooks ==
  ASSUME ObeyInv, NEW t \in Tasks, Task(t)
  PROVE  Looks(t)'
<1> USE DEF rowVars, fileVars, loopVars, taskVars, Looks, NotYetMoved,
            RefusesCancel, TooLate, LastLook, PastLastLook
<1> DEFINE j == JobOf(t)
<1>1. pc[t] # "idle"
  BY DEF Task, AtStep, RunJob, GateCancelled, SkipStep, EnterStep, NoFinalPath, NoMoreSteps,
     AtGate, SetStatus, SlotTaken, PostProcess, PostWrite, Work, WorkCancelled, WorkFailed,
     DownloadOk, TranscodeOk, OrganizeOk, ImportOk, AfterStep, Checkpoint, Tidy, Wipe,
     Settle, Forget, TaskShape, ObeyInv, CalmInv, IInv
<1>2. TypeOK /\ TaskShape /\ j \in Jobs /\ HasRow(j) /\ Looks(t)
  BY <1>1, ObeyTask
<1>3. step[t] \in Steps \cup {Done}
  BY <1>1, <1>2 DEF TaskShape
<1>4. CASE SkipStep(t) \/ EnterStep(t)
  <2>1. /\ Busy(t) /\ Busy(t)' /\ JobOf(t)' = j /\ pc[t] = "gate" /\ ~cancelled[t]
        /\ pc'[t] \in {"checkpoint", "slot", "status"}
        /\ UNCHANGED <<step, cancelled, post, status, disk>>
    BY <1>2, <1>4, SameJob DEF SkipStep, EnterStep, AtGate, CancelSeen, Goto, Busy, TypeOK
  <2>2. ~(step[t] = Organize /\ pc'[t] = "checkpoint")
    <3>1. CASE SkipStep(t) /\ step[t] = Organize
      <4>1. disk[j] \notin Organized
        BY <1>2, <2>1, <3>1
      <4> QED
        BY <3>1, <4>1 DEF SkipStep, StepDone, IsOrganized, Organized
    <3>2. CASE EnterStep(t)
      BY <1>2, <3>2 DEF EnterStep, Goto, TypeOK
    <3> QED
      BY <1>4, <3>1, <3>2
  <2> QED
    BY <1>2, <2>1, <2>2
<1>5. CASE SetStatus(t)
  <2>1. /\ Busy(t) /\ Busy(t)' /\ JobOf(t)' = j /\ pc[t] = "status" /\ pc'[t] = "work"
        /\ UNCHANGED <<step, cancelled, post, disk>>
    BY <1>2, <1>5 DEF SetStatus, Goto, Busy, TypeOK, JobOf
  <2>2. status'[j] = StepStatus(step[t])
    BY <1>2, <1>5 DEF SetStatus, WriteStatus, TypeOK
  <2>3. step[t] >= Organize => status'[j] \in {"organizing", "importing"}
    BY <1>3, <2>2 DEF StepStatus
  <2>4. step[t] # Done
    BY <1>2, <2>1 DEF TaskShape
  <2> QED
    BY <1>2, <1>3, <2>1, <2>3, <2>4
<1>6. CASE PostProcess(t) \/ PostWrite(t)
  <2>1. /\ JobOf(t)' = j /\ UNCHANGED <<pc, step, cancelled, disk>>
        /\ step[t] = Download
    BY <1>2, <1>6 DEF PostProcess, PostWrite, JobOf, TaskShape
  <2> QED
    BY <2>1
<1>7. CASE Checkpoint(t)
  <2>1. /\ JobOf(t)' = j /\ pc[t] = "checkpoint" /\ pc'[t] \in {"tidy", "gate"}
        /\ step'[t] = step[t] + 1 /\ UNCHANGED <<cancelled, post, status, disk>>
        /\ post[t] # "due" /\ step[t] \in Steps /\ Busy(t) /\ Worker(t)
    BY <1>2, <1>7 DEF Checkpoint, Goto, TaskShape, NoWriteDue, Busy, Worker, Working, TypeOK,
       JobOf
  <2>2. step[t] = Transcode => disk[j] \notin Organized
    BY <2>1 DEF ObeyInv, CalmInv, IInv, VideoAfterTranscode
  <2> QED
    BY <1>2, <2>1, <2>2
<1>8. CASE Forget(t)
  <2>1. pc'[t] = "idle" /\ post'[t] = "no"
    BY <1>2, <1>8 DEF Forget, Goto, TypeOK
  <2> QED
    BY <2>1 DEF Busy
<1>9. CASE Settle(t)
  <2>1. pc'[t] = "tail" /\ UNCHANGED <<post, step>>
    BY <1>2, <1>9 DEF Settle, End, Goto, TypeOK
  <2> QED
    BY <1>2, <2>1 DEF Busy
<1>10. CASE GateCancelled(t) \/ NoFinalPath(t) \/ NoMoreSteps(t) \/ WorkFailed(t) \/ Wipe(t)
  <2>1. pc'[t] \in {"wipe", "settle"} /\ Busy(t)
    BY <1>2, <1>10 DEF GateCancelled, NoFinalPath, NoMoreSteps, AtGate, WorkFailed, Wipe,
       End, Goto, TypeOK, Busy
  <2>2. JobOf(t)' = j /\ UNCHANGED <<step, cancelled, post, status>>
    BY <1>10 DEF GateCancelled, NoFinalPath, NoMoreSteps, WorkFailed, Wipe, JobOf
  <2> QED
    BY <1>2, <2>1, <2>2
<1>11. CASE SlotTaken(t) \/ WorkCancelled(t) \/ DownloadOk(t) \/ TranscodeOk(t)
  <2>1. step[t] \in SlotSteps /\ UNCHANGED <<step, post>>
    BY <1>2, <1>11 DEF SlotTaken, WorkCancelled, DownloadOk, TranscodeOk, TaskShape
  <2> QED
    BY <1>2, <2>1
<1>12. CASE OrganizeOk(t) \/ ImportOk(t)
  <2>1. JobOf(t)' = j
    BY <1>2, <1>12, SameJob DEF OrganizeOk, ImportOk, JobOf
  <2>2. /\ pc[t] = "work" /\ pc'[t] = "checkpoint" /\ step[t] \in {Organize, Import}
        /\ UNCHANGED <<step, cancelled, post, status>>
    BY <1>2, <1>12 DEF OrganizeOk, ImportOk, Goto, TypeOK
  <2> QED
    BY <1>2, <2>1, <2>2 DEF Busy
<1>13. CASE Tidy(t)
  <2>1. /\ JobOf(t)' = j /\ pc[t] = "tidy" /\ pc'[t] = "gate" /\ step[t] = Import
        /\ UNCHANGED <<step, cancelled, post, status>>
    BY <1>2, <1>13 DEF Tidy, Goto, TaskShape, TypeOK, JobOf
  <2> QED
    BY <1>2, <2>1 DEF Busy
<1>14. CASE RunJob(t)
  <2>1. registry[j] # NoTask
    BY MoverHasEntry DEF ObeyInv
  <2>2. /\ JobOf(t)' = j /\ pc[t] = "start" /\ pc'[t] = "gate" /\ Busy(t) /\ Busy(t)'
        /\ UNCHANGED <<step, cancelled, post, status, disk>>
    BY <1>2, <1>14, <2>1 DEF RunJob, Goto, JobOf, Busy, TypeOK
  <2> QED
    BY <1>2, <2>2
<1> QED
  BY <1>4, <1>5, <1>6, <1>7, <1>8, <1>9, <1>10, <1>11, <1>12, <1>13, <1>14
     DEF Task, AtStep, Work, AfterStep

\* A queued row has no task, and so no pending cancel.
LEMMA QueuedIsFree ==
  ASSUME ObeyInv, NEW j \in Jobs, status[j] \in {"queued", "absent"}
  PROVE  registry[j] = NoTask /\ ~cancelReq[j]
<1>1. registry[j] = NoTask
  <2> SUFFICES ASSUME registry[j] # NoTask
               PROVE  FALSE
    OBVIOUS
  <2>1. registry[j] \in Tasks /\ pc[registry[j]] # "idle" /\ JobOf(registry[j]) = j
    BY DEF ObeyInv, CalmInv, IInv, TypeOK, Registered
  <2>2. status[j] \in ActiveStatuses \cup TerminalStatuses
    BY <2>1, TaskOfRow DEF ObeyInv
  <2> QED
    BY <2>2 DEF ActiveStatuses, TerminalStatuses
<1>2. ~cancelReq[j]
  BY <1>1 DEF ObeyInv, EventSet, TerminalStatuses
<1> QED
  BY <1>1, <1>2

\* A claim starts a run at the download: no run of the job was there before.
LEMMA ClaimObeys ==
  ASSUME ObeyInv, NEW j \in Jobs, NEW t \in Tasks, Claim(j, t)
  PROVE  /\ \A u \in Tasks : Looks(u)'
         /\ \A i \in Jobs : EventSet(i)' /\ Unclaimed(i)' /\ Obeyed(i)'
<1> USE DEF rowVars, fileVars, loopVars, taskVars
<1>1. TypeOK /\ TaskShape /\ status[j] = "queued" /\ pc[t] = "idle"
  BY DEF ObeyInv, CalmInv, IInv, Claim
<1>2. registry[j] = NoTask /\ ~cancelReq[j] /\ lcs[j] = 0
  BY <1>1, QueuedIsFree DEF ObeyInv, Unclaimed
<1>3. Looks(t)'
  <2>1. /\ step'[t] = Download /\ pc'[t] = "start"
    BY <1>1, <1>2 DEF Claim, ResumeAt, TypeOK
  <2> QED
    BY <2>1 DEF Looks, NotYetMoved, RefusesCancel, TooLate, LastLook, PastLastLook
<1>4. ASSUME NEW u \in Tasks, u # t
      PROVE  Looks(u)'
  <2>1. /\ pc'[u] = pc[u] /\ step'[u] = step[u] /\ JobOf(u)' = JobOf(u)
        /\ UNCHANGED <<post, cancelled, disk>>
    BY <1>1, <1>4 DEF Claim, TypeOK, JobOf
  <2>2. CASE pc[u] = "idle"
    BY <1>1, <2>1, <2>2 DEF Looks, NotYetMoved, RefusesCancel, TooLate, LastLook,
       PastLastLook, Busy, TaskShape
  <2>3. CASE pc[u] # "idle"
    <3>1. JobOf(u) \in Jobs /\ registry[JobOf(u)] = u /\ u # NoTask /\ Looks(u)
      BY <2>3, ObeyTask, TasksAssumption
    <3>2. status'[JobOf(u)] = status[JobOf(u)]
      BY <1>1, <1>2, <3>1 DEF Claim, TypeOK
    <3> QED
      BY <2>1, <3>1, <3>2 DEF Looks, NotYetMoved, RefusesCancel, TooLate, LastLook,
         PastLastLook, Busy
  <2> QED
    BY <2>2, <2>3
<1>5. ASSUME NEW i \in Jobs
      PROVE  EventSet(i)' /\ Unclaimed(i)' /\ Obeyed(i)'
  <2>1. UNCHANGED <<cancelReq, cancelled, lcs>>
    BY DEF Claim
  <2>2. CASE i = j
    BY <1>1, <1>2, <2>1, <2>2 DEF Claim, TypeOK, EventSet, Unclaimed, Obeyed
  <2>3. CASE i # j
    <3>1. status'[i] = status[i] /\ registry'[i] = registry[i]
      BY <1>1, <2>3 DEF Claim, TypeOK
    <3> QED
      BY <2>1, <3>1 DEF ObeyInv, EventSet, Unclaimed, Obeyed
  <2> QED
    BY <2>2, <2>3
<1> QED
  BY <1>3, <1>4, <1>5

\* The calls of the API: a cancel sets the event of the one task, and is refused where
\* the task no longer looks.
LEMMA ApiObeys ==
  ASSUME ObeyInv, UserOps \subseteq {"cancel"}, NEW j \in Jobs, Api(j)
  PROVE  /\ \A u \in Tasks : Looks(u)'
         /\ \A i \in Jobs : EventSet(i)' /\ Unclaimed(i)' /\ Obeyed(i)'
<1> USE DEF rowVars, fileVars, loopVars, taskVars
<1>1. TypeOK /\ TaskShape /\ CalmInv
  BY DEF ObeyInv, CalmInv, IInv
<1>2. Create(j) \/ Cancel(j) \/ CancelRmtree(j)
  BY DEF Api, Retry, RetryImport, DeleteFiles, DeleteRow
<1>3. /\ UNCHANGED <<pc, step, post, ctx, registry, lcs>>
      /\ \A u \in Tasks : JobOf(u)' = JobOf(u)
  BY <1>2 DEF Create, Cancel, CancelRmtree, JobOf
<1>4. ASSUME NEW u \in Tasks
      PROVE  Looks(u)'
  <2>1. CASE pc[u] = "idle"
    BY <1>1, <1>3, <2>1 DEF Looks, NotYetMoved, RefusesCancel, TooLate, LastLook,
       PastLastLook, Busy, TaskShape
  <2>2. CASE pc[u] # "idle"
    <3>1. JobOf(u) \in Jobs /\ registry[JobOf(u)] = u /\ Looks(u)
      BY <2>2, ObeyTask
    <3>2. status'[JobOf(u)] = status[JobOf(u)]
      BY <1>1, <2>2, IdleRowsOnly, TaskOfRow
    <3>3. disk[JobOf(u)] \notin Organized => disk'[JobOf(u)] \notin Organized
      BY <1>1, <1>2, <3>1 DEF Create, Cancel, CancelRmtree, Rmtree, Organized, TypeOK
    <3>4. PastLastLook(u) => cancelled'[u] = cancelled[u]
      <4> SUFFICES ASSUME PastLastLook(u)
                   PROVE  cancelled'[u] = cancelled[u]
        OBVIOUS
      <4>1. status[JobOf(u)] \notin CancellableStatuses
        BY <3>1 DEF PastLastLook, Looks, RefusesCancel, TooLate, Busy, CancellableStatuses
      <4>2. CASE Cancel(j) /\ Signalled(j)
        <5>1. registry[j] \in Tasks /\ JobOf(registry[j]) = j
          BY <1>1, <4>2 DEF Signalled, TypeOK, CalmInv, Registered
        <5>2. registry[j] # u
          BY <4>1, <4>2, <5>1 DEF Cancel
        <5> QED
          BY <1>1, <4>2, <5>1, <5>2 DEF Cancel, TypeOK
      <4>3. CASE ~(Cancel(j) /\ Signalled(j))
        BY <1>2, <4>3 DEF Create, Cancel, CancelRmtree
      <4> QED
        BY <4>2, <4>3
    <3>5. PastLastLook(u)' <=> PastLastLook(u)
      BY <1>3 DEF PastLastLook, Busy
    <3>6. LastLook(u)'
      BY <3>1, <3>4, <3>5 DEF Looks, LastLook
    <3>7. RefusesCancel(u)'
      BY <1>3, <3>1, <3>2 DEF Looks, RefusesCancel, TooLate, Busy
    <3> QED
      BY <1>3, <3>1, <3>3, <3>6, <3>7 DEF Looks, NotYetMoved
  <2> QED
    BY <2>1, <2>2
<1>5. ASSUME NEW i \in Jobs
      PROVE  EventSet(i)' /\ Unclaimed(i)' /\ Obeyed(i)'
  <2>1. EventSet(i) /\ Unclaimed(i) /\ Obeyed(i)
    BY DEF ObeyInv
  <2>2. CASE Create(j)
    BY <1>1, <1>3, <2>1, <2>2, QueuedIsFree DEF Create, Requeue, TypeOK, EventSet,
       Unclaimed, Obeyed
  <2>3. CASE CancelRmtree(j)
    BY <1>3, <2>1, <2>3 DEF CancelRmtree, EventSet, Unclaimed, Obeyed
  <2>4. CASE Cancel(j) /\ Signalled(j)
    <3>1. registry[j] \in Tasks
      BY <1>1, <2>4 DEF Signalled, TypeOK
    <3>2. UNCHANGED status /\ status[j] # "completed"
      BY <2>4 DEF Cancel, Signalled, CancellableStatuses
    <3>3. cancelReq' = [cancelReq EXCEPT ![j] = TRUE]
      BY <2>4 DEF Cancel
    <3>4. cancelled' = [cancelled EXCEPT ![registry[j]] = TRUE]
      BY <2>4 DEF Cancel
    <3>5. registry[i] # NoTask /\ cancelled[registry[i]] => cancelled'[registry[i]]
      BY <1>1, <3>4 DEF TypeOK
    <3>6. EventSet(i)'
      BY <1>1, <1>3, <2>1, <2>4, <3>1, <3>2, <3>3, <3>4, <3>5 DEF EventSet, Signalled, TypeOK
    <3> QED
      BY <1>1, <1>3, <2>1, <3>2, <3>3, <3>6 DEF Unclaimed, Obeyed, TypeOK
  <2>5. CASE Cancel(j) /\ ~Signalled(j)
    BY <1>1, <1>3, <2>1, <2>5 DEF Cancel, Signalled, TypeOK, EventSet, Unclaimed, Obeyed,
       TerminalStatuses
  <2> QED
    BY <1>2, <2>2, <2>3, <2>4, <2>5
<1> QED
  BY <1>4, <1>5

\* The steps of a task, on the rows: a completed verdict is written by a task that has
\* passed its last look, so its job was not cancelled.
LEMMA TaskObeys ==
  ASSUME ObeyInv, NEW t \in Tasks, Task(t), NEW i \in Jobs
  PROVE  EventSet(i)' /\ Unclaimed(i)' /\ Obeyed(i)'
<1> USE DEF rowVars, fileVars, loopVars, taskVars
<1>1. TypeOK /\ TaskShape /\ EventSet(i) /\ Unclaimed(i) /\ Obeyed(i)
  BY DEF ObeyInv, CalmInv, IInv
<1>2. CASE Settle(t)
  <2>1. /\ Busy(t) /\ JobOf(t) \in Jobs /\ HasRow(JobOf(t))
        /\ status[JobOf(t)] \in ActiveStatuses /\ registry[JobOf(t)] = t
        /\ result[t] \in Verdicts /\ Looks(t)
    BY <1>1, <1>2, ObeyTask DEF Settle, Busy, TaskShape
  <2>2. status' = [status EXCEPT ![JobOf(t)] = result[t]]
    BY <1>2, <2>1 DEF Settle, WriteStatus
  <2>3. UNCHANGED <<registry, cancelled, lcs>>
    BY <1>2 DEF Settle
  <2>4. CASE i = JobOf(t)
    <3>1. status'[i] = result[t] /\ status'[i] \in TerminalStatuses
      BY <1>1, <2>1, <2>2, <2>4 DEF TypeOK, Verdicts, TerminalStatuses
    <3>2. ASSUME result[t] = "completed"
          PROVE  ~cancelReq'[i]
      <4>2. step[t] = Done
        BY <1>1, <3>2 DEF TaskShape
      <4>3. ~cancelled[t]
        BY <2>1, <4>2 DEF Looks, LastLook, PastLastLook
      <4>4. ~cancelReq[i]
        BY <1>1, <2>1, <2>4, <4>3 DEF EventSet, ActiveStatuses, TerminalStatuses
      <4>5. UNCHANGED cancelReq
        BY <1>2, <3>2 DEF Settle
      <4> QED
        BY <4>4, <4>5
    <3> QED
      BY <3>1, <3>2 DEF EventSet, Unclaimed, Obeyed, TerminalStatuses
  <2>5. CASE i # JobOf(t)
    <3>1. status'[i] = status[i] /\ cancelReq'[i] = cancelReq[i]
      BY <1>1, <1>2, <2>2, <2>5 DEF Settle, TypeOK
    <3> QED
      BY <1>1, <2>3, <3>1 DEF EventSet, Unclaimed, Obeyed
  <2> QED
    BY <2>4, <2>5
<1>3. CASE Forget(t)
  <2>1. /\ JobOf(t) \in Jobs /\ status[JobOf(t)] \in TerminalStatuses
    BY <1>3, ObeyTask DEF Forget, ObeyInv, CalmInv, RowTells
  <2>2. UNCHANGED <<status, cancelReq, lcs>>
    BY <1>3 DEF Forget
  <2>3. CASE i = JobOf(t)
    BY <1>1, <2>1, <2>2, <2>3 DEF EventSet, Unclaimed, Obeyed
  <2>4. CASE i # JobOf(t)
    <3>1. registry'[i] = registry[i]
      BY <1>1, <1>3, <2>4 DEF Forget, TypeOK
    <3>2. registry[i] \in Tasks => registry[i] # t
      BY <2>4, TasksAssumption DEF ObeyInv, CalmInv, Registered
    <3>3. registry[i] \in Tasks => cancelled'[registry[i]] = cancelled[registry[i]]
      BY <1>1, <1>3, <3>2 DEF Forget, TypeOK
    <3> QED
      BY <1>1, <2>2, <3>1, <3>3 DEF EventSet, Unclaimed, Obeyed, TypeOK
  <2> QED
    BY <2>3, <2>4
<1>4. CASE ~(Settle(t) \/ Forget(t))
  <2>1. Serves(t)
    <3>1. registry[JobOf(t)] # NoTask
      BY MoverHasEntry DEF ObeyInv
    <3> QED
      BY <1>1, <1>4, <3>1, StepServes DEF Task, AfterStep
  <2>2. UNCHANGED <<cancelReq, cancelled, registry>>
    BY <1>4 DEF Task, AtStep, RunJob, GateCancelled, SkipStep, EnterStep, NoFinalPath, NoMoreSteps,
       SetStatus, SlotTaken, PostProcess, PostWrite, Work, WorkCancelled, WorkFailed,
       DownloadOk, TranscodeOk, OrganizeOk, ImportOk, AfterStep, Checkpoint, Tidy, Wipe
  <2>3. status[JobOf(t)] \in ActiveStatuses
    BY <2>1, ObeyTask DEF Serves, Busy
  <2>4. \/ status'[i] = status[i]
        \/ status[i] \in ActiveStatuses /\ status'[i] \in ActiveStatuses
    BY <2>1, <2>3 DEF Serves
  <2>5. lcs'[i] # lcs[i] => JobOf(t) = i
    BY <1>1, <1>4 DEF Task, AtStep, RunJob, GateCancelled, SkipStep, EnterStep, NoFinalPath,
       NoMoreSteps, SetStatus, SlotTaken, PostProcess, PostWrite, Work, WorkCancelled,
       WorkFailed, DownloadOk, TranscodeOk, OrganizeOk, ImportOk, AfterStep, Checkpoint, Tidy,
       Wipe, TypeOK
  <2>6. EventSet(i)'
    BY <1>1, <2>2, <2>4 DEF EventSet, ActiveStatuses, TerminalStatuses
  <2>7. Obeyed(i)'
    BY <1>1, <2>2, <2>4 DEF Obeyed, ActiveStatuses
  <2>8. Unclaimed(i)'
    BY <1>1, <2>3, <2>4, <2>5 DEF Unclaimed, ActiveStatuses
  <2> QED
    BY <2>6, <2>7, <2>8
<1> QED
  BY <1>2, <1>3, <1>4

\* Every step in one life of the process keeps ObeyInv.
LEMMA ObeyStep ==
  ASSUME ObeyInv, OneLife, [Next]_vars
  PROVE  ObeyInv'
<1>1. PlacedInv'
  BY InvStep, PlacedStep DEF ObeyInv, PlacedInv, OneLife
<1>2. CalmInv'
  BY CalmStep DEF ObeyInv, OneLife
<1>3. ~Crash /\ ~Recover
  BY DEF OneLife, Crash, Recover, ObeyInv, Up
<1>4. Up'
  BY <1>3 DEF rowVars, fileVars, loopVars, taskVars, ObeyInv, Up, Next, Loop, LoopWake,
     ClaimNothing, Claim, Task, AtStep, RunJob, GateCancelled, SkipStep, EnterStep, NoFinalPath,
     NoMoreSteps, SetStatus, SlotTaken, PostProcess, PostWrite, Work, WorkCancelled,
     WorkFailed, DownloadOk, TranscodeOk, OrganizeOk, ImportOk, AfterStep, Checkpoint, Tidy,
     Wipe, Settle, Forget, Api, Create, Cancel, CancelRmtree, Retry, RetryImport,
     DeleteFiles, DeleteRow, vars
<1> DEFINE Rest == /\ \A u \in Tasks : Looks(u)
                   /\ \A i \in Jobs : EventSet(i) /\ Unclaimed(i) /\ Obeyed(i)
<1>5. ASSUME NEW t \in Tasks, Task(t)
      PROVE  Rest'
  BY <1>5, MoverLooks, OtherLooks, TaskObeys
<1>6. ASSUME NEW j \in Jobs, Api(j)
      PROVE  Rest'
  BY <1>6, ApiObeys DEF OneLife
<1>7. ASSUME NEW j \in Jobs, NEW t \in Tasks, Claim(j, t)
      PROVE  Rest'
  BY <1>7, ClaimObeys
<1>8. ASSUME LoopWake \/ ClaimNothing \/ UNCHANGED vars
      PROVE  Rest'
  BY <1>8 DEF LoopWake, ClaimNothing, rowVars, fileVars, loopVars, taskVars, vars, ObeyInv,
     Looks, NotYetMoved, RefusesCancel, TooLate, LastLook, PastLastLook, Busy,
     EventSet, Unclaimed, Obeyed, JobOf
<1>9. Rest'
  BY <1>3, <1>5, <1>6, <1>7, <1>8 DEF Next, Loop
<1> QED
  BY <1>1, <1>2, <1>4, <1>9 DEF ObeyInv

\* It holds when the process starts on an empty database.
LEMMA ObeyInit == Init => ObeyInv
<1> SUFFICES ASSUME Init
             PROVE  ObeyInv
  OBVIOUS
<1>1. PlacedInv
  BY InvInit DEF Init, EachTask, PlacedInv, PlacedByOrganize, PlacedTask, CompletedHasVideo
<1>2. CalmInv /\ Up
  BY CalmInit DEF Init, Up
<1>3. \A t \in Tasks : Looks(t)
  BY DEF Init, EachTask, Looks, NotYetMoved, RefusesCancel, TooLate, LastLook,
     PastLastLook, Busy
<1>4. \A j \in Jobs : EventSet(j) /\ Unclaimed(j) /\ Obeyed(j)
  BY DEF Init, EventSet, Unclaimed, Obeyed
<1> QED
  BY <1>1, <1>2, <1>3, <1>4 DEF ObeyInv

\* Within one life of the process and without retries, a job whose cancel was accepted is
\* never reported completed, however the cancel interleaves with the steps and with the
\* background write: each way to a completed verdict passes a look at the event after the
\* last moment the row accepts a cancel (CANCELLABLE_STATUSES, _raise_if_cancelled).
THEOREM CancelsAreObeyed ==
  ASSUME UserOps \subseteq {"cancel"}, ~Crashes
  PROVE  Spec => []CancelNotIgnored
<1>1. ObeyInv /\ [Next]_vars => ObeyInv'
  BY ObeyStep DEF OneLife
<1>2. ObeyInv => CancelNotIgnored
  BY DEF ObeyInv, Obeyed, CancelNotIgnored
<1> QED
  BY <1>1, <1>2, ObeyInit, PTL DEF Spec
=============================================================================
