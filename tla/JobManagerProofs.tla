---------------------------- MODULE JobManagerProofs ----------------------------
(***************************************************************************)
(* Proofs about JobManager, for every number of jobs, tasks and slots and  *)
(* every choice of the environment switches. The argument is one inductive *)
(* invariant, IInv of JobManagerInv; each of its conjuncts has a lemma     *)
(* that every step keeps it, and the theorems at the end follow from it.   *)
(***************************************************************************)
EXTENDS JobManagerInv, TLAPS, FiniteSetTheorems

USE DEF Download, Transcode, Organize, Import, Done, Steps, SlotSteps

---------------------------------------------------------------------------
(* Types                                                                   *)

\* The context of a task that has no job is well typed.
LEMMA NoCtxType == NoCtx \in Ctx
  BY NJobsAssumption DEF NoCtx, Ctx, ImportStatuses

\* MAX_CONCURRENT_DOWNLOADS and MAX_CONCURRENT_TRANSCODES are naturals.
LEMMA CapacityType == Capacity \in [SlotSteps -> Nat]
  BY SlotsAssumption DEF Capacity

\* What a task takes from the row when it is claimed.
LEMMA ClaimedType ==
  ASSUME TypeOK, NEW j \in Jobs
  PROVE  [job |-> j, path |-> path[j], imp |-> imp[j], video |-> FALSE] \in Ctx
<1>1. j \in 0 .. NJobs /\ path[j] \in BOOLEAN /\ imp[j] \in ImportStatuses
  BY NJobsAssumption DEF TypeOK, Jobs
<1> QED
  BY <1>1 DEF Ctx

\* The two updates of a context keep its type and its job.
LEMMA CtxUpdate ==
  ASSUME TypeOK, NEW t \in Tasks, NEW b \in BOOLEAN
  PROVE  /\ [ctx EXCEPT ![t].video = b] \in [Tasks -> Ctx]
         /\ [ctx EXCEPT ![t].path = b] \in [Tasks -> Ctx]
<1>1. ctx \in [Tasks -> Ctx] /\ ctx[t] \in Ctx
  BY DEF TypeOK
<1>2. [ctx[t] EXCEPT !.video = b] \in Ctx /\ [ctx[t] EXCEPT !.path = b] \in Ctx
  BY <1>1 DEF Ctx
<1> QED
  BY <1>1, <1>2

\* The flag a SkipStep or an EnterStep updates is a Boolean.
LEMMA VideoIsBoolean == ASSUME TypeOK, NEW t \in Tasks PROVE ctx[t].video \in BOOLEAN
  BY DEF TypeOK, Ctx

\* Every step keeps the type invariant.
LEMMA TypeStep == TypeOK /\ TaskShape /\ [Next]_vars => TypeOK'
<1> SUFFICES ASSUME TypeOK, TaskShape, [Next]_vars
             PROVE  TypeOK'
  OBVIOUS
<1> USE DEF rowVars, fileVars, loopVars, taskVars
<1>1. CASE Loop
  <2>1. CASE LoopWake
    BY <2>1 DEF LoopWake, TypeOK
  <2>2. CASE ClaimNothing
    BY <2>2 DEF ClaimNothing, TypeOK
  <2>3. ASSUME NEW j \in Jobs, NEW t \in Tasks, Claim(j, t)
        PROVE  TypeOK'
    <3>1. status' \in [Jobs -> JobStatuses \cup NoRow]
      BY <2>3 DEF Claim, TypeOK, JobStatuses, ActiveStatuses
    <3>2. registry' \in [Jobs -> Tasks \cup {NoTask}]
      BY <2>3 DEF Claim, TypeOK
    <3>3. pc' \in [Tasks -> Pcs] /\ step' \in [Tasks -> 0 .. Done]
      BY <2>3 DEF Claim, TypeOK, ResumeAt, Pcs, Working
    <3>4. ctx' \in [Tasks -> Ctx]
      BY <2>3, ClaimedType DEF Claim, TypeOK
    <3> QED
      BY <2>3, <3>1, <3>2, <3>3, <3>4 DEF Claim, TypeOK
  <2> QED
    BY <1>1, <2>1, <2>2, <2>3 DEF Loop
<1>2. ASSUME NEW t \in Tasks, AtStep(t)
      PROVE  TypeOK'
  <2>0. CASE RunJob(t)
    BY <2>0 DEF RunJob, Goto, TypeOK, Pcs, Working
  <2>1. CASE GateCancelled(t)
    BY <2>1 DEF GateCancelled, End, Goto, TypeOK, Pcs, Ending, Results, Verdicts
  <2>2. CASE SkipStep(t)
    <3>1. ctx' \in [Tasks -> Ctx]
      BY <2>2, CtxUpdate, VideoIsBoolean DEF SkipStep
    <3>2. pc' \in [Tasks -> Pcs]
      BY <2>2 DEF SkipStep, Goto, TypeOK, Pcs, Working
    <3> QED
      BY <2>2, <3>1, <3>2 DEF SkipStep, TypeOK
  <2>3. CASE EnterStep(t)
    <3>1. ctx' \in [Tasks -> Ctx]
      BY <2>3, CtxUpdate, VideoIsBoolean DEF EnterStep
    <3>2. pc' \in [Tasks -> Pcs]
      BY <2>3 DEF EnterStep, Goto, TypeOK, Pcs, Working
    <3> QED
      BY <2>3, <3>1, <3>2 DEF EnterStep, TypeOK
  <2>4. CASE NoFinalPath(t)
    BY <2>4 DEF NoFinalPath, End, Goto, TypeOK, Pcs, Ending, Results, Verdicts
  <2>5. CASE NoMoreSteps(t)
    BY <2>5 DEF NoMoreSteps, End, Goto, TypeOK, Pcs, Ending, Results, Verdicts
  <2>6. CASE SetStatus(t)
    <3>1. status' \in [Jobs -> JobStatuses \cup NoRow]
      BY <2>6 DEF SetStatus, WriteStatus, StepStatus, TypeOK, JobStatuses, ActiveStatuses
    <3>2. pc' \in [Tasks -> Pcs]
      BY <2>6 DEF SetStatus, Goto, TypeOK, Pcs, Working
    <3> QED
      BY <2>6, <3>1, <3>2 DEF SetStatus, TypeOK
  <2> QED
    BY <1>2, <2>0, <2>1, <2>2, <2>3, <2>4, <2>5, <2>6 DEF AtStep
<1>3. ASSUME NEW t \in Tasks, SlotTaken(t)
      PROVE  TypeOK'
  <2>1. step[t] \in SlotSteps
    BY <1>3 DEF SlotTaken, TaskShape
  <2> QED
    BY <1>3, <2>1 DEF SlotTaken, SlotFree, End, Goto, TypeOK, Pcs, Working, Ending,
                      Results, Verdicts
<1>4. ASSUME NEW t \in Tasks, PostProcess(t)
      PROVE  TypeOK'
  BY <1>4 DEF PostProcess, TypeOK
<1>5. ASSUME NEW t \in Tasks, PostWrite(t)
      PROVE  TypeOK'
  <2>1. status' \in [Jobs -> JobStatuses \cup NoRow]
    BY <1>5 DEF PostWrite, WriteStatus, TypeOK, JobStatuses, ActiveStatuses
  <2> QED
    BY <1>5, <2>1 DEF PostWrite, TypeOK
<1>6. ASSUME NEW t \in Tasks, Work(t)
      PROVE  TypeOK'
  <2>1. ASSUME Release(t)
        PROVE  free' \in [SlotSteps -> Nat]
    BY <2>1 DEF Release, TypeOK
  <2>2. CASE WorkCancelled(t)
    BY <2>1, <2>2 DEF WorkCancelled, End, Goto, TypeOK, Pcs, Ending, Results, Verdicts
  <2>3. CASE WorkFailed(t)
    BY <2>1, <2>3 DEF WorkFailed, End, Goto, TypeOK, Pcs, Ending, Results, Verdicts
  <2>4. CASE DownloadOk(t)
    <3>1. ctx' \in [Tasks -> Ctx]
      BY <2>4, CtxUpdate DEF DownloadOk
    <3>2. disk' \in [Jobs -> DiskStates] /\ pc' \in [Tasks -> Pcs]
      BY <2>4 DEF DownloadOk, Goto, TypeOK, DiskStates, Pcs, Working
    <3> QED
      BY <2>1, <2>4, <3>1, <3>2 DEF DownloadOk, TypeOK
  <2>5. CASE TranscodeOk(t)
    <3>1. disk' \in [Jobs -> DiskStates] /\ pc' \in [Tasks -> Pcs]
      BY <2>5 DEF TranscodeOk, Goto, TypeOK, DiskStates, Pcs, Working
    <3> QED
      BY <2>1, <2>5, <3>1 DEF TranscodeOk, TypeOK
  <2>6. CASE OrganizeOk(t)
    <3>1. ctx' \in [Tasks -> Ctx]
      BY <2>6, CtxUpdate DEF OrganizeOk
    <3>2. disk' \in [Jobs -> DiskStates] /\ pc' \in [Tasks -> Pcs]
      BY <2>6 DEF OrganizeOk, Goto, TypeOK, DiskStates, Pcs, Working
    <3>3. result' \in [Tasks -> Results]
      BY <2>6 DEF OrganizeOk, TypeOK, Results
    <3> QED
      BY <2>6, <3>1, <3>2, <3>3 DEF OrganizeOk, TypeOK
  <2>7. CASE ImportOk(t)
    <3>1. result' \in [Tasks -> Results]
      BY <2>7 DEF ImportOk, TypeOK, Results
    <3>2. pc' \in [Tasks -> Pcs]
      BY <2>7 DEF ImportOk, Goto, TypeOK, Pcs, Working
    <3> QED
      BY <2>7, <3>1, <3>2 DEF ImportOk, TypeOK
  <2> QED
    BY <1>6, <2>2, <2>3, <2>4, <2>5, <2>6, <2>7 DEF Work
<1>7. ASSUME NEW t \in Tasks, AfterStep(t)
      PROVE  TypeOK'
  <2>1. CASE Checkpoint(t)
    <3> step[t] \in Steps
      BY <2>1 DEF Checkpoint, TaskShape
    <3>1. lcs' \in [Jobs -> 0 .. Import]
      BY <2>1 DEF Checkpoint, TypeOK
    <3>2. path' \in [Jobs -> BOOLEAN]
      <4>1. path \in [Jobs -> BOOLEAN]
        BY DEF TypeOK
      <4>2. (path[JobOf(t)] \/ result[t] = "path") \in BOOLEAN
        OBVIOUS
      <4> QED
        BY <2>1, <4>1, <4>2, Zenon DEF Checkpoint
    <3>3. imp' \in [Jobs -> ImportStatuses]
      BY <2>1 DEF Checkpoint, TypeOK
    <3>4. pc' \in [Tasks -> Pcs] /\ step' \in [Tasks -> 0 .. Done]
      BY <2>1 DEF Checkpoint, Goto, TypeOK, Pcs, Working
    <3>5. result' \in [Tasks -> Results]
      BY <2>1 DEF Checkpoint, TypeOK, Results
    <3> QED
      BY <2>1, <3>1, <3>2, <3>3, <3>4, <3>5 DEF Checkpoint, TypeOK
  <2>2. CASE Tidy(t)
    <3>1. disk' \in [Jobs -> DiskStates] /\ pc' \in [Tasks -> Pcs]
      BY <2>2 DEF Tidy, Rmtree, Goto, TypeOK, DiskStates, Pcs, Working
    <3> QED
      BY <2>2, <3>1 DEF Tidy, TypeOK
  <2>3. CASE Wipe(t)
    <3>1. disk' \in [Jobs -> DiskStates] /\ pc' \in [Tasks -> Pcs]
      BY <2>3 DEF Wipe, Rmtree, Goto, TypeOK, DiskStates, Pcs, Ending
    <3> QED
      BY <2>3, <3>1 DEF Wipe, TypeOK
  <2>4. CASE Settle(t)
    <3>1. result[t] \in Verdicts
      BY <2>4 DEF Settle, TaskShape
    <3>2. status' \in [Jobs -> JobStatuses \cup NoRow]
      BY <2>4, <3>1 DEF Settle, WriteStatus, TypeOK, JobStatuses, TerminalStatuses, Verdicts
    <3>3. cancelReq' \in [Jobs -> BOOLEAN]
      BY <2>4 DEF Settle, TypeOK
    <3>4. pc' \in [Tasks -> Pcs] /\ result' \in [Tasks -> Results]
      BY <2>4 DEF Settle, End, Goto, TypeOK, Pcs, Results
    <3> QED
      BY <2>4, <3>2, <3>3, <3>4 DEF Settle, TypeOK
  <2>5. CASE Forget(t)
    <3>1. registry' \in [Jobs -> Tasks \cup {NoTask}] /\ ctx' \in [Tasks -> Ctx]
      BY <2>5, NoCtxType DEF Forget, TypeOK
    <3>2. pc' \in [Tasks -> Pcs] /\ step' \in [Tasks -> 0 .. Done]
      BY <2>5 DEF Forget, Goto, TypeOK, Pcs
    <3>3. cancelled' \in [Tasks -> BOOLEAN] /\ post' \in [Tasks -> {"no", "due", "done"}]
      BY <2>5 DEF Forget, TypeOK
    <3> QED
      BY <2>5, <3>1, <3>2, <3>3 DEF Forget, TypeOK
  <2> QED
    BY <1>7, <2>1, <2>2, <2>3, <2>4, <2>5 DEF AfterStep
<1>8. ASSUME NEW j \in Jobs, Api(j)
      PROVE  TypeOK'
  <2>1. ASSUME Requeue(j)
        PROVE  status' \in [Jobs -> JobStatuses \cup NoRow] /\ wake' \in BOOLEAN
    BY <2>1 DEF Requeue, TypeOK, JobStatuses
  <2>2. CASE Create(j)
    BY <2>1, <2>2 DEF Create, TypeOK
  <2>3. CASE Cancel(j)
    <3>1. status' \in [Jobs -> JobStatuses \cup NoRow] /\ cancelReq' \in [Jobs -> BOOLEAN]
      BY <2>3 DEF Cancel, TypeOK, JobStatuses, TerminalStatuses
    <3>2. calls' \in SUBSET (Jobs \X {"rmtree", "delete"})
      BY <2>3 DEF Cancel, TypeOK
    <3>3. cancelled' \in [Tasks -> BOOLEAN]
      BY <2>3 DEF Cancel, TypeOK
    <3> QED
      BY <2>3, <3>1, <3>2, <3>3 DEF Cancel, TypeOK
  <2>4. CASE CancelRmtree(j)
    <3>1. disk' \in [Jobs -> DiskStates]
      BY <2>4 DEF CancelRmtree, Rmtree, TypeOK, DiskStates
    <3> QED
      BY <2>4, <3>1 DEF CancelRmtree, TypeOK
  <2>5. CASE Retry(j)
    BY <2>1, <2>5 DEF Retry, TypeOK
  <2>6. CASE RetryImport(j)
    <3>1. lcs' \in [Jobs -> 0 .. Import] /\ imp' \in [Jobs -> ImportStatuses]
      BY <2>6 DEF RetryImport, TypeOK, ImportStatuses
    <3> QED
      BY <2>1, <2>6, <3>1 DEF RetryImport, TypeOK
  <2>7. CASE DeleteFiles(j)
    <3>1. disk' \in [Jobs -> DiskStates]
      BY <2>7 DEF DeleteFiles, Rmtree, TypeOK, DiskStates
    <3>2. calls' \in SUBSET (Jobs \X {"rmtree", "delete"})
      BY <2>7 DEF DeleteFiles, TypeOK
    <3> QED
      BY <2>7, <3>1, <3>2 DEF DeleteFiles, TypeOK
  <2>8. CASE DeleteRow(j)
    <3>1. status' \in [Jobs -> JobStatuses \cup NoRow]
      BY <2>8 DEF DeleteRow, TypeOK, NoRow
    <3> QED
      BY <2>8, <3>1 DEF DeleteRow, TypeOK
  <2> QED
    BY <1>8, <2>2, <2>3, <2>4, <2>5, <2>6, <2>7, <2>8 DEF Api
<1>9. CASE Crash
  <2>1. pc' \in [Tasks -> Pcs] /\ step' \in [Tasks -> 0 .. Done] /\ ctx' \in [Tasks -> Ctx]
    BY <1>9, NoCtxType DEF Crash, EachTask, Pcs
  <2>2. /\ cancelled' \in [Tasks -> BOOLEAN]
        /\ post' \in [Tasks -> {"no", "due", "done"}]
        /\ result' \in [Tasks -> Results]
    BY <1>9 DEF Crash, EachTask, Results
  <2>3. registry' \in [Jobs -> Tasks \cup {NoTask}] /\ free' \in [SlotSteps -> Nat]
    BY <1>9, CapacityType DEF Crash
  <2> QED
    BY <1>9, <2>1, <2>2, <2>3 DEF Crash, TypeOK
<1>10. CASE Recover
  <2>1. status' \in [Jobs -> JobStatuses \cup NoRow]
    BY <1>10 DEF Recover, TypeOK, JobStatuses, TerminalStatuses
  <2>2. cancelReq' \in [Jobs -> BOOLEAN] /\ disk' \in [Jobs -> DiskStates]
    BY <1>10 DEF Recover, Rmtree, TypeOK, DiskStates
  <2> QED
    BY <1>10, <2>1, <2>2 DEF Recover, TypeOK
<1>11. CASE UNCHANGED vars
  BY <1>11 DEF vars, TypeOK
<1> QED
  BY <1>1, <1>2, <1>3, <1>4, <1>5, <1>6, <1>7, <1>8, <1>9, <1>10, <1>11 DEF Next, Task

---------------------------------------------------------------------------
(* The shape of a task                                                     *)

\* A context update other than Claim and Forget keeps the job of every task.
LEMMA SameJob ==
  ASSUME TypeOK, NEW t \in Tasks, NEW b,
         \/ ctx' = [ctx EXCEPT ![t].video = b]
         \/ ctx' = [ctx EXCEPT ![t].path = b]
  PROVE  \A u \in Tasks : JobOf(u)' = JobOf(u)
<1>1. ctx \in [Tasks -> Ctx] /\ ctx[t] \in Ctx
  BY DEF TypeOK
<1>2. [ctx[t] EXCEPT !.video = b].job = ctx[t].job /\ [ctx[t] EXCEPT !.path = b].job = ctx[t].job
  BY <1>1 DEF Ctx
<1>3. ctx'[t].job = ctx[t].job
  BY <1>1, <1>2
<1>4. \A u \in Tasks \ {t} : ctx'[u] = ctx[u]
  BY <1>1
<1> QED
  BY <1>3, <1>4 DEF JobOf

\* Every step keeps the shape of every task.
LEMMA ShapeStep == TypeOK /\ TaskShape /\ [Next]_vars => TaskShape'
<1> SUFFICES ASSUME TypeOK, TaskShape, [Next]_vars
             PROVE  TaskShape'
  OBVIOUS
<1> USE DEF rowVars, fileVars, loopVars, taskVars
<1>1. CASE Loop
  <2>1. CASE LoopWake \/ ClaimNothing
    BY <2>1 DEF LoopWake, ClaimNothing, TaskShape, JobOf
  <2>2. ASSUME NEW j \in Jobs, NEW t \in Tasks, Claim(j, t)
        PROVE  TaskShape'
    <3>1. step'[t] \in Steps \cup {Done}
      BY <2>2 DEF Claim, ResumeAt, TypeOK
    <3> QED
      BY <2>2, <3>1 DEF Claim, TypeOK, TaskShape, JobOf, Ending
  <2> QED
    BY <1>1, <2>1, <2>2 DEF Loop
<1>2. ASSUME NEW t \in Tasks, AtStep(t)
      PROVE  TaskShape'
  <2>0. CASE RunJob(t)
    BY <2>0 DEF RunJob, Goto, TypeOK, TaskShape, JobOf, Ending
  <2>1. CASE GateCancelled(t)
    BY <2>1 DEF GateCancelled, AtGate, End, Goto, TypeOK, TaskShape, JobOf, Ending, Verdicts
  <2>2. CASE SkipStep(t)
    BY <2>2, SameJob DEF SkipStep, AtGate, Goto, TypeOK, TaskShape, Ending
  <2>3. CASE EnterStep(t)
    BY <2>3, SameJob DEF EnterStep, AtGate, Goto, TypeOK, TaskShape, Ending
  <2>4. CASE NoFinalPath(t)
    BY <2>4 DEF NoFinalPath, AtGate, End, Goto, TypeOK, TaskShape, JobOf, Ending, Verdicts
  <2>5. CASE NoMoreSteps(t)
    BY <2>5 DEF NoMoreSteps, End, Goto, TypeOK, TaskShape, JobOf, Ending, Verdicts
  <2>6. CASE SetStatus(t)
    BY <2>6 DEF SetStatus, Goto, TypeOK, TaskShape, JobOf, Ending
  <2> QED
    BY <1>2, <2>0, <2>1, <2>2, <2>3, <2>4, <2>5, <2>6 DEF AtStep
<1>3. ASSUME NEW t \in Tasks, SlotTaken(t)
      PROVE  TaskShape'
  BY <1>3 DEF SlotTaken, End, Goto, TypeOK, TaskShape, JobOf, Ending, Verdicts
<1>4. ASSUME NEW t \in Tasks, PostProcess(t) \/ PostWrite(t)
      PROVE  TaskShape'
  BY <1>4 DEF PostProcess, PostWrite, TypeOK, TaskShape, JobOf
<1>5. ASSUME NEW t \in Tasks, Work(t)
      PROVE  TaskShape'
  <2>1. CASE WorkCancelled(t)
    BY <2>1 DEF WorkCancelled, End, Goto, TypeOK, TaskShape, JobOf, Ending, Verdicts
  <2>2. CASE WorkFailed(t)
    BY <2>2 DEF WorkFailed, End, Goto, TypeOK, TaskShape, JobOf, Ending, Verdicts
  <2>3. CASE DownloadOk(t)
    BY <2>3, SameJob DEF DownloadOk, Goto, TypeOK, TaskShape, Ending
  <2>4. CASE TranscodeOk(t)
    BY <2>4 DEF TranscodeOk, Goto, TypeOK, TaskShape, JobOf, Ending
  <2>5. CASE OrganizeOk(t)
    BY <2>5, SameJob DEF OrganizeOk, Goto, TypeOK, TaskShape, Ending
  <2>6. CASE ImportOk(t)
    BY <2>6 DEF ImportOk, ImportDone, ImportAgain, Goto, TypeOK, TaskShape, JobOf, Ending
  <2> QED
    BY <1>5, <2>1, <2>2, <2>3, <2>4, <2>5, <2>6 DEF Work
<1>6. ASSUME NEW t \in Tasks, AfterStep(t)
      PROVE  TaskShape'
  <2>1. CASE Checkpoint(t)
    <3>1. \A u \in Tasks \ {t} : pc'[u] = pc[u] /\ step'[u] = step[u] /\ result'[u] = result[u]
      BY <2>1 DEF Checkpoint, Goto, TypeOK
    <3>2. step[t] \in Steps /\ (result[t] = "path" => step[t] = Organize)
      BY <2>1 DEF Checkpoint, TaskShape, ImportDone, ImportAgain
    <3>3. /\ pc'[t] = IF result[t] = "path" THEN "tidy" ELSE "gate"
          /\ step'[t] = step[t] + 1
          /\ result'[t] = "none"
      BY <2>1 DEF Checkpoint, Goto, TypeOK
    <3>4. UNCHANGED <<ctx, post>>
      BY <2>1 DEF Checkpoint
    <3>5. pc[t] = "checkpoint" /\ post[t] # "due"
      BY <2>1 DEF Checkpoint, NoWriteDue
    <3> QED
      BY <3>1, <3>2, <3>3, <3>4, <3>5 DEF TaskShape, JobOf, Ending
  <2>2. CASE Tidy(t)
    BY <2>2 DEF Tidy, Goto, TypeOK, TaskShape, JobOf, Ending
  <2>3. CASE Wipe(t)
    BY <2>3 DEF Wipe, Goto, TypeOK, TaskShape, JobOf, Ending, Verdicts
  <2>4. CASE Settle(t)
    BY <2>4 DEF Settle, NoWriteDue, End, Goto, TypeOK, TaskShape, JobOf, Ending
  <2>5. CASE Forget(t)
    BY <2>5 DEF Forget, Goto, TypeOK, TaskShape, JobOf, Ending
  <2> QED
    BY <1>6, <2>1, <2>2, <2>3, <2>4, <2>5 DEF AfterStep
<1>7. ASSUME NEW j \in Jobs, Api(j)
      PROVE  TaskShape'
  BY <1>7 DEF Api, Create, Cancel, CancelRmtree, Retry, RetryImport, DeleteFiles, DeleteRow,
              TaskShape, JobOf
<1>8. CASE Crash
  BY <1>8 DEF Crash, EachTask, TaskShape, Ending
<1>9. CASE Recover \/ UNCHANGED vars
  BY <1>9 DEF Recover, vars, TaskShape, JobOf
<1> QED
  BY <1>1, <1>2, <1>3, <1>4, <1>5, <1>6, <1>7, <1>8, <1>9 DEF Next, Task

---------------------------------------------------------------------------
(* Who works on what                                                       *)

\* What the steps of a task other than its checkpoint, its verdict and its end leave
\* alone: no task comes to life, goes on to another step or job, or ends; the row of
\* a job changes only to an active status, and only by its live task.
Quiet ==
    /\ UNCHANGED <<lcs, imp, loop>>
    /\ \A u \in Tasks :
          /\ JobOf(u)' = JobOf(u)
          /\ Live(u)' => Live(u)
          /\ Worker(u)' => Worker(u) /\ step'[u] = step[u]
          /\ Running(u) => Running(u)' \/ pc[u] = "start"
          /\ pc'[u] = "idle" <=> pc[u] = "idle"
          /\ pc'[u] = "start" => pc[u] = "start"
    /\ \A j \in Jobs :
          \/ status'[j] = status[j]
          \/ /\ HasRow(j) /\ status'[j] \in ActiveStatuses
             /\ \E t \in Tasks : Live(t) /\ pc[t] # "start" /\ Running(t)' /\ JobOf(t) = j

\* All steps of a task but Checkpoint, Settle and Forget are quiet.
LEMMA QuietStep ==
  ASSUME TypeOK, TaskShape, NEW t \in Tasks,
         \/ AtStep(t) \/ SlotTaken(t) \/ PostProcess(t) \/ PostWrite(t) \/ Work(t)
         \/ Tidy(t) \/ Wipe(t)
  PROVE  Quiet
<1> USE DEF rowVars, fileVars, loopVars, taskVars
<1>0. CASE RunJob(t)
  BY <1>0 DEF RunJob, Goto, TypeOK, Quiet, Live, Worker, Running, Working, Ending, JobOf
<1>1. CASE GateCancelled(t)
  BY <1>1 DEF GateCancelled, AtGate, End, Goto, TypeOK, Quiet, Live, Worker, Running,
              Working, Ending, JobOf
<1>2. CASE SkipStep(t)
  BY <1>2, SameJob DEF SkipStep, AtGate, Goto, TypeOK, Quiet, Live, Worker, Running,
                       Working, Ending
<1>3. CASE EnterStep(t)
  BY <1>3, SameJob DEF EnterStep, AtGate, Goto, TypeOK, Quiet, Live, Worker, Running,
                       Working, Ending
<1>4. CASE NoFinalPath(t)
  BY <1>4 DEF NoFinalPath, AtGate, End, Goto, TypeOK, Quiet, Live, Worker, Running,
              Working, Ending, JobOf
<1>5. CASE NoMoreSteps(t)
  BY <1>5 DEF NoMoreSteps, End, Goto, TypeOK, Quiet, Live, Worker, Running,
              Working, Ending, JobOf
<1>6. CASE SetStatus(t)
  <2>1. \A j \in Jobs : \/ status'[j] = status[j]
                        \/ HasRow(j) /\ status'[j] \in ActiveStatuses /\ JobOf(t) = j
    BY <1>6 DEF SetStatus, WriteStatus, StepStatus, ActiveStatuses, TypeOK
  <2> QED
    BY <1>6, <2>1 DEF SetStatus, Goto, TaskShape, TypeOK, Quiet, Live, Worker, Running,
                      Working, Ending, JobOf
<1>7. CASE SlotTaken(t)
  BY <1>7 DEF SlotTaken, End, Goto, TaskShape, TypeOK, Quiet, Live, Worker, Running,
              Working, Ending, JobOf
<1>8. CASE PostProcess(t)
  BY <1>8 DEF PostProcess, Quiet, Live, Worker, Running, JobOf
<1>9. CASE PostWrite(t)
  <2>1. \A j \in Jobs : \/ status'[j] = status[j]
                        \/ HasRow(j) /\ status'[j] \in ActiveStatuses /\ JobOf(t) = j
    BY <1>9 DEF PostWrite, WriteStatus, ActiveStatuses, TypeOK
  <2>2. Live(t) /\ pc[t] # "start" /\ Running(t)
    BY <1>9 DEF PostWrite, TaskShape, TypeOK, Pcs, Live, Worker, Running
  <2> QED
    BY <1>9, <2>1, <2>2 DEF PostWrite, Quiet, Live, Worker, JobOf, Running
<1>10. CASE WorkCancelled(t)
  BY <1>10 DEF WorkCancelled, End, Goto, TaskShape, TypeOK, Quiet, Live, Worker, Running,
               Working, Ending, JobOf
<1>11. CASE WorkFailed(t)
  BY <1>11 DEF WorkFailed, End, Goto, TaskShape, TypeOK, Quiet, Live, Worker, Running,
               Working, Ending, JobOf
<1>12. CASE DownloadOk(t)
  BY <1>12, SameJob DEF DownloadOk, Goto, TypeOK, Quiet, Live, Worker, Running,
                        Working, Ending
<1>13. CASE TranscodeOk(t)
  BY <1>13 DEF TranscodeOk, Goto, TypeOK, Quiet, Live, Worker, Running, Working, Ending, JobOf
<1>14. CASE OrganizeOk(t)
  BY <1>14, SameJob DEF OrganizeOk, Goto, TypeOK, Quiet, Live, Worker, Running,
                        Working, Ending
<1>15. CASE ImportOk(t)
  BY <1>15 DEF ImportOk, Goto, TypeOK, Quiet, Live, Worker, Running, Working, Ending, JobOf
<1>16. CASE Tidy(t)
  BY <1>16 DEF Tidy, Goto, TaskShape, TypeOK, Quiet, Live, Worker, Running, Working, Ending,
               JobOf
<1>17. CASE Wipe(t)
  BY <1>17 DEF Wipe, Goto, TaskShape, TypeOK, Quiet, Live, Worker, Running, Working, Ending,
               JobOf
<1> QED
  BY <1>0, <1>1, <1>2, <1>3, <1>4, <1>5, <1>6, <1>7, <1>8, <1>9, <1>10, <1>11, <1>12, <1>13,
     <1>14, <1>15, <1>16, <1>17 DEF AtStep, Work

\* The parts of IInv about tasks and the rows of their jobs.
Core ==
    /\ DownIsEmpty
    /\ OneLiveTask
    /\ LiveRow
    /\ VerdictIsLast

\* A live or running task is not idle.
LEMMA LiveNotIdle ==
  ASSUME NEW t \in Tasks, Live(t) \/ Worker(t) \/ Running(t)
  PROVE  pc[t] # "idle"
  BY DEF Live, Worker, Running, Working, Ending

\* A task with a step to run can still write to its job.
LEMMA WorkerIsLive == \A t : Worker(t) => Live(t)
  BY DEF Live

\* The API, the loop's own moves and recovery change no task.
TasksStill == UNCHANGED <<pc, step, ctx, result>>

\* A task that a step leaves alone counts as it did before.
LEMMA StillMeansSame ==
  ASSUME TasksStill
  PROVE  \A t \in Tasks : /\ JobOf(t)' = JobOf(t)
                          /\ Live(t)' <=> Live(t)
                          /\ Worker(t)' <=> Worker(t)
                          /\ Running(t)' <=> Running(t)
  BY DEF TasksStill, JobOf, Live, Worker, Running

\* The steps of a task that record nothing keep the claims, rows and verdicts consistent.
LEMMA QuietKeepsCore ==
  ASSUME TypeOK, TaskShape, Core, Quiet
  PROVE  Core'
<1>1. DownIsEmpty'
  BY DEF Quiet, Core, DownIsEmpty
<1>2. OneLiveTask'
  BY DEF Quiet, Core, OneLiveTask
<1>3. LiveRow'
  <2> SUFFICES ASSUME NEW t \in Tasks
               PROVE  /\ pc'[t] # "idle" => status'[JobOf(t)] # "absent"
                      /\ Live(t)' /\ HasRow(JobOf(t))' =>
                            /\ status'[JobOf(t)] \notin {"queued", "failed"}
                            /\ lcs'[JobOf(t)] < Import
                      /\ Worker(t)' /\ HasRow(JobOf(t))' => lcs'[JobOf(t)] = step'[t] - 1
    BY DEF Quiet, LiveRow, HasRow
  <2>1. CASE pc[t] = "idle"
    BY <2>1, LiveNotIdle, WorkerIsLive DEF Quiet
  <2>2. CASE pc[t] # "idle"
    <3>1. JobOf(t) \in Jobs
      BY <2>2 DEF TaskShape
    <3>2. \/ status'[JobOf(t)] = status[JobOf(t)]
          \/ HasRow(JobOf(t)) /\ status'[JobOf(t)] \in ActiveStatuses
      BY <3>1 DEF Quiet
    <3>3. HasRow(JobOf(t))' => HasRow(JobOf(t))
      BY <3>2 DEF HasRow, Quiet
    <3> QED
      BY <3>2, <3>3 DEF Quiet, Core, LiveRow, ActiveStatuses
  <2> QED
    BY <2>1, <2>2
<1>4. VerdictIsLast'
  BY DEF Quiet, Core, VerdictIsLast
<1> QED
  BY <1>1, <1>2, <1>3, <1>4 DEF Core

\* _claim: the queued row it takes had no live task, so the new one is the only one.
LEMMA ClaimKeepsCore ==
  ASSUME TypeOK, TaskShape, Core, NEW j \in Jobs, NEW t \in Tasks, Claim(j, t)
  PROVE  Core'
<1> USE DEF rowVars, fileVars
<1>1. /\ HasRow(j) /\ status[j] = "queued"
      /\ status' = [status EXCEPT ![j] = "starting"]
      /\ UNCHANGED <<lcs, imp, loop, result>>
      /\ loop = "claiming"
  BY DEF Claim, HasRow, NoRow
<1>2. /\ pc[t] = "idle" /\ pc'[t] = "start" /\ step'[t] = lcs[j] + 1 /\ JobOf(t)' = j
  BY DEF Claim, ResumeAt, TypeOK, JobOf
<1>3. \A u \in Tasks \ {t} : /\ pc'[u] = pc[u] /\ step'[u] = step[u] /\ JobOf(u)' = JobOf(u)
                             /\ Live(u)' <=> Live(u)
                             /\ Worker(u)' <=> Worker(u)
  BY DEF Claim, TypeOK, JobOf, Live, Worker
<1>4. \A u \in Tasks : Live(u) => JobOf(u) # j
  BY <1>1 DEF Core, LiveRow
<1>5. DownIsEmpty'
  BY <1>1 DEF DownIsEmpty
<1>6. OneLiveTask'
  BY <1>2, <1>3, <1>4 DEF Core, OneLiveTask
<1>7. LiveRow'
  <2>1. /\ status'[j] = "starting"
        /\ \A i \in Jobs \ {j} : status'[i] = status[i]
    BY <1>1 DEF TypeOK
  <2>2. ASSUME NEW u \in Tasks \ {t}, pc[u] # "idle", JobOf(u) # j
        PROVE  HasRow(JobOf(u))' <=> HasRow(JobOf(u))
    BY <1>3, <2>1, <2>2 DEF HasRow, TaskShape
  <2>3. Live(t)' => lcs[j] < Import
    BY <1>2 DEF Live, Worker, Ending, TypeOK
  <2>4. ASSUME NEW u \in Tasks \ {t}
        PROVE  /\ pc'[u] # "idle" => status'[JobOf(u)'] # "absent"
               /\ Live(u)' /\ HasRow(JobOf(u))' =>
                     /\ status'[JobOf(u)'] \notin {"queued", "failed"}
                     /\ lcs'[JobOf(u)'] < Import
               /\ Worker(u)' /\ HasRow(JobOf(u))' => lcs'[JobOf(u)'] = step'[u] - 1
    <3>1. CASE pc[u] = "idle"
      BY <3>1, <1>3, LiveNotIdle
    <3>2. CASE pc[u] # "idle" /\ JobOf(u) = j
      BY <3>2, <1>3, <1>4, <2>1, WorkerIsLive
    <3>3. CASE pc[u] # "idle" /\ JobOf(u) # j
      BY <3>3, <1>1, <1>3, <2>1, <2>2 DEF Core, LiveRow, TaskShape
    <3> QED
      BY <3>1, <3>2, <3>3
  <2> QED
    BY <1>1, <1>2, <2>1, <2>3, <2>4 DEF LiveRow, TypeOK
<1>8. VerdictIsLast'
  BY <1>1 DEF Core, VerdictIsLast
<1> QED
  BY <1>5, <1>6, <1>7, <1>8 DEF Core

\* _checkpoint: the row moves on together with its task.
LEMMA CheckpointKeepsCore ==
  ASSUME TypeOK, TaskShape, Core, NEW t \in Tasks, Checkpoint(t)
  PROVE  Core'
<1> DEFINE j == JobOf(t)
<1> USE DEF rowVars, fileVars, loopVars, taskVars
<1>1. /\ j \in Jobs /\ step[t] \in Steps /\ Worker(t) /\ Live(t)
      /\ result[t] \in ImportAgain => step[t] = Import
      /\ UNCHANGED <<status, loop, ctx>>
  BY DEF Checkpoint, TaskShape, Worker, Live, Working, ImportAgain, ImportDone
<1>2. HasRow(j) => lcs[j] = step[t] - 1 /\ imp[j] \notin ImportAgain
  BY <1>1 DEF Core, LiveRow, VerdictIsLast
<1>3. /\ \A i \in Jobs \ {j} : lcs'[i] = lcs[i] /\ imp'[i] = imp[i]
      /\ HasRow(j) => /\ lcs'[j] = step[t]
                      /\ imp'[j] = IF result[t] \in ImportStatuses THEN result[t] ELSE imp[j]
      /\ ~HasRow(j) => lcs' = lcs /\ imp' = imp
  BY <1>1 DEF Checkpoint, TypeOK
<1>4. /\ pc'[t] \in {"gate", "tidy"} /\ step'[t] = step[t] + 1
  BY DEF Checkpoint, Goto, TypeOK
<1>5. \A u \in Tasks : JobOf(u)' = JobOf(u)
  BY <1>1 DEF JobOf
<1>6. \A u \in Tasks \ {t} : /\ pc'[u] = pc[u] /\ step'[u] = step[u]
                             /\ Live(u)' <=> Live(u)
                             /\ Worker(u)' <=> Worker(u)
  BY DEF Checkpoint, Goto, TypeOK, Live, Worker
<1>7. \A u \in Tasks \ {t} : Live(u) => JobOf(u) # j
  BY <1>1 DEF Core, OneLiveTask
<1>8. DownIsEmpty'
  BY <1>1, <1>4, LiveNotIdle DEF Core, DownIsEmpty
<1>9. OneLiveTask'
  BY <1>1, <1>5, <1>6 DEF Core, OneLiveTask
<1>10. LiveRow'
  <2> SUFFICES ASSUME NEW u \in Tasks
               PROVE  /\ pc'[u] # "idle" => status'[JobOf(u)'] # "absent"
                      /\ Live(u)' /\ HasRow(JobOf(u))' =>
                            /\ status'[JobOf(u)'] \notin {"queued", "failed"}
                            /\ lcs'[JobOf(u)'] < Import
                      /\ Worker(u)' /\ HasRow(JobOf(u))' => lcs'[JobOf(u)'] = step'[u] - 1
    BY DEF LiveRow, HasRow
  <2>1. HasRow(JobOf(u))' <=> HasRow(JobOf(u))
    BY <1>1, <1>5 DEF HasRow
  <2>2. CASE u = t
    <3>1. Live(t)' => step[t] < Import
      BY <1>1, <1>4 DEF Live, Worker, Ending
    <3>2. pc[t] # "idle"
      BY <1>1, LiveNotIdle
    <3> QED
      BY <2>1, <2>2, <3>1, <3>2, <1>1, <1>2, <1>3, <1>4, <1>5 DEF Core, LiveRow
  <2>3. CASE u # t /\ pc[u] = "idle"
    BY <2>3, <1>6, LiveNotIdle
  <2>4. CASE u # t /\ pc[u] # "idle"
    <3>1. JobOf(u) \in Jobs
      BY <2>4 DEF TaskShape
    <3> QED
      BY <2>1, <2>4, <3>1, <1>1, <1>3, <1>5, <1>6, <1>7, WorkerIsLive DEF Core, LiveRow
  <2> QED
    BY <2>2, <2>3, <2>4
<1>11. VerdictIsLast'
  BY <1>1, <1>2, <1>3 DEF Core, VerdictIsLast
<1> QED
  BY <1>8, <1>9, <1>10, <1>11 DEF Core

\* _finish and _cancelled: the verdict comes from a task that then does nothing more.
LEMMA SettleKeepsCore ==
  ASSUME TypeOK, TaskShape, Core, NEW t \in Tasks, Settle(t)
  PROVE  Core'
<1> DEFINE j == JobOf(t)
<1> USE DEF rowVars, fileVars, loopVars, taskVars
<1>1. /\ j \in Jobs /\ pc[t] = "settle" /\ result[t] \in Verdicts
      /\ UNCHANGED <<lcs, imp, loop, ctx, step>>
  BY DEF Settle, TaskShape
<1>2. /\ \A i \in Jobs \ {j} : status'[i] = status[i]
      /\ status'[j] = IF HasRow(j) THEN result[t] ELSE status[j]
  BY <1>1 DEF Settle, WriteStatus, TypeOK
<1>3. pc'[t] = "tail" /\ ~Live(t)' /\ ~Worker(t)'
  BY DEF Settle, End, Goto, TypeOK, Live, Worker, Working, Ending
<1>4. \A u \in Tasks \ {t} : /\ pc'[u] = pc[u] /\ step'[u] = step[u]
                             /\ Live(u)' <=> Live(u)
                             /\ Worker(u)' <=> Worker(u)
  BY DEF Settle, End, Goto, TypeOK, Live, Worker
<1>5. \A u \in Tasks : JobOf(u)' = JobOf(u)
  BY <1>1 DEF JobOf
<1>6. ASSUME NEW u \in Tasks \ {t}, Live(u), JobOf(u) = j
      PROVE  result[t] = "completed"
  BY <1>1, <1>6 DEF Core, OneLiveTask, Live, Ending
<1>7. DownIsEmpty'
  BY <1>1, <1>3 DEF Core, DownIsEmpty
<1>8. OneLiveTask'
  BY <1>3, <1>4, <1>5 DEF Core, OneLiveTask
<1>9. LiveRow'
  <2> SUFFICES ASSUME NEW u \in Tasks
               PROVE  /\ pc'[u] # "idle" => status'[JobOf(u)'] # "absent"
                      /\ Live(u)' /\ HasRow(JobOf(u))' =>
                            /\ status'[JobOf(u)'] \notin {"queued", "failed"}
                            /\ lcs'[JobOf(u)'] < Import
                      /\ Worker(u)' /\ HasRow(JobOf(u))' => lcs'[JobOf(u)'] = step'[u] - 1
    BY DEF LiveRow, HasRow
  <2>1. CASE pc[u] = "idle"
    BY <2>1, <1>1, <1>4, LiveNotIdle
  <2>2. CASE pc[u] # "idle"
    <3>1. JobOf(u) \in Jobs /\ status[JobOf(u)] # "absent"
      BY <2>2 DEF TaskShape, Core, LiveRow
    <3>2. status'[JobOf(u)] # "absent" /\ (HasRow(JobOf(u))' <=> HasRow(JobOf(u)))
      BY <3>1, <1>1, <1>2, <1>5 DEF HasRow, NoRow, Verdicts
    <3>3. CASE u = t
      BY <3>2, <3>3, <1>3, <1>5
    <3>4. CASE u # t /\ JobOf(u) # j
      BY <3>1, <3>2, <3>4, <1>1, <1>2, <1>4, <1>5 DEF Core, LiveRow
    <3>5. CASE u # t /\ JobOf(u) = j
      BY <3>1, <3>2, <3>5, <1>1, <1>2, <1>4, <1>5, <1>6, WorkerIsLive DEF Core, LiveRow
    <3> QED
      BY <3>3, <3>4, <3>5
  <2> QED
    BY <2>1, <2>2
<1>10. VerdictIsLast'
  BY <1>1 DEF Core, VerdictIsLast
<1> QED
  BY <1>7, <1>8, <1>9, <1>10 DEF Core

\* _forget: the task it ends was done with its job.
LEMMA ForgetKeepsCore ==
  ASSUME TypeOK, TaskShape, Core, NEW t \in Tasks, Forget(t)
  PROVE  Core'
<1> USE DEF rowVars, fileVars
<1>1. pc[t] = "tail" /\ ~Live(t) /\ UNCHANGED <<status, lcs, imp, loop>>
  BY DEF Forget, Live, Worker, Working, Ending
<1>2. pc'[t] = "idle" /\ ~Live(t)' /\ ~Worker(t)'
  BY DEF Forget, Goto, TypeOK, Live, Worker, Working, Ending
<1>3. \A u \in Tasks \ {t} : /\ pc'[u] = pc[u] /\ step'[u] = step[u] /\ JobOf(u)' = JobOf(u)
                             /\ Live(u)' <=> Live(u)
                             /\ Worker(u)' <=> Worker(u)
  BY DEF Forget, Goto, TypeOK, JobOf, Live, Worker
<1>4. DownIsEmpty'
  BY <1>1, <1>2, <1>3 DEF Core, DownIsEmpty
<1>5. OneLiveTask'
  BY <1>2, <1>3 DEF Core, OneLiveTask
<1>6. LiveRow'
  <2> SUFFICES ASSUME NEW u \in Tasks
               PROVE  /\ pc'[u] # "idle" => status'[JobOf(u)'] # "absent"
                      /\ Live(u)' /\ HasRow(JobOf(u))' =>
                            /\ status'[JobOf(u)'] \notin {"queued", "failed"}
                            /\ lcs'[JobOf(u)'] < Import
                      /\ Worker(u)' /\ HasRow(JobOf(u))' => lcs'[JobOf(u)'] = step'[u] - 1
    BY DEF LiveRow, HasRow
  <2>1. CASE u = t
    BY <2>1, <1>2
  <2>2. CASE u # t
    BY <2>2, <1>1, <1>3 DEF Core, LiveRow, HasRow
  <2> QED
    BY <2>1, <2>2
<1>7. VerdictIsLast'
  BY <1>1 DEF Core, VerdictIsLast
<1> QED
  BY <1>4, <1>5, <1>6, <1>7 DEF Core

\* The calls of the API. A retry finds no live task: the row of one is not failed, and
\* has no verdict that can be retried.
LEMMA ApiKeepsCore ==
  ASSUME TypeOK, TaskShape, Core, NEW j \in Jobs, Api(j)
  PROVE  Core'
<1> USE DEF rowVars, fileVars, loopVars, taskVars
<1>1. TasksStill /\ UNCHANGED loop
  BY DEF Api, Create, Cancel, CancelRmtree, Retry, RetryImport, DeleteFiles, DeleteRow, TasksStill
<1>2. \A t \in Tasks : /\ JobOf(t)' = JobOf(t)
                       /\ Live(t)' <=> Live(t)
                       /\ Worker(t)' <=> Worker(t)
  BY <1>1, StillMeansSame
<1>3. DownIsEmpty' /\ OneLiveTask'
  BY <1>1, <1>2 DEF TasksStill, Core, DownIsEmpty, OneLiveTask
<1>4. /\ \A i \in Jobs \ {j} : status'[i] = status[i] /\ lcs'[i] = lcs[i] /\ imp'[i] = imp[i]
      /\ \/ UNCHANGED <<lcs, imp>>
         \/ lcs'[j] = Organize /\ imp'[j] = "pending"
  BY DEF Api, Create, Requeue, Cancel, CancelRmtree, Retry, RetryImport, DeleteFiles,
         DeleteRow, ActiveStatuses, TypeOK
<1>5. VerdictIsLast'
  BY <1>4 DEF Core, VerdictIsLast, ImportAgain
<1>6. LiveRow'
  <2> SUFFICES ASSUME NEW u \in Tasks
               PROVE  /\ pc'[u] # "idle" => status'[JobOf(u)'] # "absent"
                      /\ Live(u)' /\ HasRow(JobOf(u))' =>
                            /\ status'[JobOf(u)'] \notin {"queued", "failed"}
                            /\ lcs'[JobOf(u)'] < Import
                      /\ Worker(u)' /\ HasRow(JobOf(u))' => lcs'[JobOf(u)'] = step'[u] - 1
    BY DEF LiveRow, HasRow
  <2>1. CASE pc[u] = "idle"
    BY <2>1, <1>1, <1>2, LiveNotIdle DEF TasksStill
  <2>2. CASE pc[u] # "idle" /\ JobOf(u) # j
    <3>1. JobOf(u) \in Jobs
      BY <2>2 DEF TaskShape
    <3> QED
      BY <2>2, <3>1, <1>1, <1>2, <1>4 DEF TasksStill, Core, LiveRow, HasRow
  <2>3. CASE pc[u] # "idle" /\ JobOf(u) = j
    <3>1. status[j] # "absent"
      BY <2>3 DEF Core, LiveRow
    <3>2. status'[j] # "absent"
      BY <3>1 DEF Api, Create, Requeue, Cancel, CancelRmtree, Retry, RetryImport,
                  DeleteFiles, DeleteRow, TypeOK
    <3>3. CASE ~HasRow(j)'
      BY <2>3, <3>2, <3>3, <1>2
    <3>4. CASE HasRow(j)' /\ ~Live(u)
      BY <2>3, <3>2, <3>4, <1>2, WorkerIsLive
    <3>5. CASE HasRow(j)' /\ Live(u)
      <4>1. HasRow(j)
        BY <3>1, <3>5 DEF Api, Create, Requeue, Cancel, CancelRmtree, Retry, CanRetry,
                          RetryImport, DeleteFiles, DeleteRow, HasRow, NoRow, TypeOK,
                          CancellableStatuses
      <4>2. status[j] \notin {"queued", "failed"} /\ lcs[j] < Import
        BY <2>3, <3>5, <4>1 DEF Core, LiveRow
      <4>3. ~Retry(j) /\ ~RetryImport(j) /\ ~Create(j)
        BY <3>1, <4>2 DEF Retry, CanRetry, RetryImport, CanRetryImport, Create, Core,
                          VerdictIsLast
      <4>4. /\ status'[j] = status[j] \/ status'[j] \in {"cancelled", "deleted"}
            /\ UNCHANGED lcs
        BY <4>3 DEF Api, Cancel, CancelRmtree, DeleteFiles, DeleteRow, TypeOK
      <4> QED
        BY <2>3, <3>2, <3>5, <4>1, <4>2, <4>4, <1>1, <1>2 DEF TasksStill, Core, LiveRow
    <3> QED
      BY <3>3, <3>4, <3>5
  <2> QED
    BY <2>1, <2>2, <2>3
<1> QED
  BY <1>3, <1>5, <1>6 DEF Core

\* stop and recover: no task is left.
LEMMA RestartKeepsCore ==
  ASSUME TypeOK, TaskShape, Core, Crash \/ Recover
  PROVE  Core'
<1> USE DEF rowVars, fileVars, loopVars, taskVars
<1>1. /\ \A t \in Tasks : pc'[t] = "idle"
      /\ UNCHANGED <<lcs, imp>>
  BY DEF Crash, Recover, EachTask, Core, DownIsEmpty
<1>2. \A t \in Tasks : ~Live(t)' /\ ~Worker(t)'
  BY <1>1 DEF Live, Worker, Working, Ending
<1>3. DownIsEmpty' /\ OneLiveTask' /\ LiveRow'
  BY <1>1, <1>2 DEF DownIsEmpty, OneLiveTask, LiveRow
<1>4. VerdictIsLast'
  BY <1>1 DEF Core, VerdictIsLast
<1> QED
  BY <1>3, <1>4 DEF Core

\* Every step keeps the claims, rows and verdicts consistent.
LEMMA CoreStep == TypeOK /\ TaskShape /\ Core /\ [Next]_vars => Core'
<1> SUFFICES ASSUME TypeOK, TaskShape, Core, [Next]_vars
             PROVE  Core'
  OBVIOUS
<1>1. CASE LoopWake \/ ClaimNothing \/ UNCHANGED vars
  <2>1. /\ TasksStill /\ UNCHANGED <<status, lcs, imp>>
        /\ loop' = "down" => loop = "down"
    BY <1>1 DEF LoopWake, ClaimNothing, vars, rowVars, fileVars, loopVars, taskVars,
                TasksStill
  <2>2. \A t \in Tasks : /\ JobOf(t)' = JobOf(t)
                         /\ Live(t)' <=> Live(t)
                         /\ Worker(t)' <=> Worker(t)
    BY <2>1, StillMeansSame
  <2>3. \A t \in Tasks : HasRow(JobOf(t))' <=> HasRow(JobOf(t))
    BY <2>1, <2>2 DEF HasRow
  <2> QED
    BY <2>1, <2>2, <2>3 DEF TasksStill, Core, DownIsEmpty, OneLiveTask, LiveRow, VerdictIsLast
<1>2. ASSUME NEW j \in Jobs, NEW t \in Tasks, Claim(j, t)
      PROVE  Core'
  BY <1>2, ClaimKeepsCore
<1>3. ASSUME NEW t \in Tasks, Task(t)
      PROVE  Core'
  <2>1. CASE Checkpoint(t)
    BY <2>1, CheckpointKeepsCore
  <2>2. CASE Settle(t)
    BY <2>2, SettleKeepsCore
  <2>3. CASE Forget(t)
    BY <2>3, ForgetKeepsCore
  <2>4. CASE ~(Checkpoint(t) \/ Settle(t) \/ Forget(t))
    BY <1>3, <2>4, QuietStep, QuietKeepsCore DEF Task, AfterStep
  <2> QED
    BY <2>1, <2>2, <2>3, <2>4
<1>4. ASSUME NEW j \in Jobs, Api(j)
      PROVE  Core'
  BY <1>4, ApiKeepsCore
<1>5. CASE Crash \/ Recover
  BY <1>5, RestartKeepsCore
<1> QED
  BY <1>1, <1>2, <1>3, <1>4, <1>5 DEF Next, Loop

---------------------------------------------------------------------------
(* Rows and tasks                                                          *)

\* What a step that claims nothing does to the tasks and the statuses of rows: a running
\* task stops only before its first step or with a verdict, and a row turns to the status of
\* a step by its live task only.
Tends ==
    /\ Up' => Up
    /\ \A u \in Tasks :
          /\ pc'[u] # "idle" => JobOf(u)' = JobOf(u)
          /\ Live(u)' => Live(u)
          /\ pc'[u] = "start" => pc[u] = "start"
          /\ Running(u) => \/ Running(u)'
                           \/ pc[u] = "start"
                           \/ status'[JobOf(u)] \notin ActiveStatuses
    /\ \A j \in Jobs : status'[j] \in ActiveStatuses =>
          \/ status'[j] = status[j]
          \/ \E t \in Tasks : Live(t) /\ pc[t] # "start" /\ Running(t)' /\ JobOf(t) = j

LEMMA TendsKeepsTask ==
  ASSUME TaskShape, FirstStep, ActiveHasTask, Tends
  PROVE  FirstStep' /\ ActiveHasTask'
<1>1. \A u \in Tasks : Running(u)' \/ Live(u)' => pc'[u] # "idle"
  BY DEF Running, Live, Worker, Working, Ending
<1>2. ASSUME NEW t \in Tasks, pc'[t] = "start"
      PROVE  /\ status'[JobOf(t)'] \notin ActiveStatuses \ {"starting"}
             /\ \A u \in Tasks : Live(u)' /\ JobOf(u)' = JobOf(t)' => u = t
  <2>1. /\ pc[t] = "start" /\ JobOf(t)' = JobOf(t) /\ JobOf(t) \in Jobs
        /\ status[JobOf(t)] \notin ActiveStatuses \ {"starting"}
        /\ \A u \in Tasks : Live(u) /\ JobOf(u) = JobOf(t) => u = t
    BY <1>2 DEF Tends, FirstStep, TaskShape
  <2>2. status'[JobOf(t)] \notin ActiveStatuses \ {"starting"}
    BY <2>1 DEF Tends
  <2>3. ASSUME NEW u \in Tasks, Live(u)', JobOf(u)' = JobOf(t)'
        PROVE  u = t
    BY <2>1, <2>3, <1>1 DEF Tends
  <2> QED
    BY <2>1, <2>2, <2>3
<1>3. ASSUME Up', NEW j \in Jobs, status'[j] \in ActiveStatuses \ {"starting"}
      PROVE  \E t \in Tasks : Running(t)' /\ JobOf(t)' = j
  <2>1. CASE status'[j] = status[j]
    <3>1. PICK t \in Tasks : Running(t) /\ JobOf(t) = j
      BY <1>3, <2>1 DEF Tends, ActiveHasTask, Tended
    <3>2. pc[t] # "start"
      BY <1>3, <2>1, <3>1 DEF FirstStep
    <3>3. Running(t)'
      BY <1>3, <3>1, <3>2 DEF Tends
    <3> QED
      BY <3>1, <3>3, <1>1 DEF Tends
  <2>2. CASE status'[j] # status[j]
    <3>1. PICK t \in Tasks : Running(t)' /\ JobOf(t) = j
      BY <1>3, <2>2 DEF Tends
    <3> QED
      BY <3>1, <1>1 DEF Tends
  <2> QED
    BY <2>1, <2>2
<1>4. FirstStep'
  BY <1>2 DEF FirstStep
<1>5. ActiveHasTask'
  BY <1>3 DEF ActiveHasTask, Tended, Up
<1> QED
  BY <1>4, <1>5

\* The steps of a task tend its row.
LEMMA TaskTends ==
  ASSUME TypeOK, TaskShape, NEW t \in Tasks, Task(t)
  PROVE  Tends
<1> USE DEF rowVars, fileVars, loopVars, taskVars
<1>1. CASE Checkpoint(t)
  <2>1. /\ UNCHANGED <<status, loop, ctx>> /\ Worker(t)
        /\ \A u \in Tasks \ {t} : pc'[u] = pc[u] /\ step'[u] = step[u] /\ result'[u] = result[u]
    BY <1>1 DEF Checkpoint, Goto, TypeOK, TaskShape, Worker, Working
  <2>2. pc'[t] \in {"gate", "tidy"}
    BY <1>1 DEF Checkpoint, Goto, TypeOK
  <2> QED
    BY <2>1, <2>2 DEF Tends, Up, JobOf, Live, Worker, Running, Working, Ending
<1>2. CASE Settle(t)
  <2>1. /\ UNCHANGED <<loop, ctx>> /\ pc'[t] = "tail"
        /\ \A u \in Tasks \ {t} : pc'[u] = pc[u] /\ step'[u] = step[u] /\ result'[u] = result[u]
    BY <1>2 DEF Settle, End, Goto, TypeOK
  <2>2. /\ JobOf(t) \in Jobs /\ status'[JobOf(t)] \notin ActiveStatuses
        /\ \A j \in Jobs : status'[j] \in ActiveStatuses => status'[j] = status[j]
    BY <1>2 DEF Settle, WriteStatus, HasRow, NoRow, TaskShape, TypeOK, Verdicts, ActiveStatuses
  <2> QED
    BY <2>1, <2>2 DEF Tends, Up, JobOf, Live, Worker, Running, Working, Ending
<1>3. CASE Forget(t)
  <2>1. /\ UNCHANGED <<status, loop, result>> /\ pc[t] = "tail" /\ pc'[t] = "idle"
        /\ \A u \in Tasks \ {t} : pc'[u] = pc[u] /\ step'[u] = step[u] /\ ctx'[u] = ctx[u]
    BY <1>3 DEF Forget, Goto, TypeOK
  <2> QED
    BY <2>1 DEF Tends, Up, JobOf, Live, Worker, Running, Working, Ending
<1>4. CASE ~(Checkpoint(t) \/ Settle(t) \/ Forget(t))
  <2>1. Quiet
    BY <1>4, QuietStep DEF Task, AfterStep
  <2> QED
    BY <2>1 DEF Quiet, Tends, Up
<1> QED
  BY <1>1, <1>2, <1>3, <1>4

\* Every step keeps a task at each row that says a step is at work.
LEMMA TendedStep ==
  TypeOK /\ TaskShape /\ Core /\ FirstStep /\ ActiveHasTask /\ [Next]_vars
    => FirstStep' /\ ActiveHasTask'
<1> SUFFICES ASSUME TypeOK, TaskShape, Core, FirstStep, ActiveHasTask, [Next]_vars
             PROVE  FirstStep' /\ ActiveHasTask'
  OBVIOUS
<1> USE DEF rowVars, fileVars, loopVars, taskVars
<1>1. CASE LoopWake \/ ClaimNothing \/ UNCHANGED vars \/ \E j \in Jobs : Api(j)
  <2>1. /\ TasksStill /\ (Up' => Up)
        /\ \A j \in Jobs : status'[j] \in ActiveStatuses => status'[j] = status[j]
    BY <1>1 DEF LoopWake, ClaimNothing, vars, Api, Create, Requeue, Cancel, CancelRmtree, Retry,
                RetryImport, DeleteFiles, DeleteRow, TasksStill, Up, TypeOK, ActiveStatuses
  <2>2. Tends
    BY <2>1, StillMeansSame DEF Tends, TasksStill
  <2> QED
    BY <2>2, TendsKeepsTask
<1>2. ASSUME NEW j \in Jobs, NEW t \in Tasks, Claim(j, t)
      PROVE  FirstStep' /\ ActiveHasTask'
  <2>1. /\ HasRow(j) /\ status[j] = "queued" /\ loop = "claiming" /\ UNCHANGED <<loop, result>>
        /\ status'[j] = "starting" /\ \A i \in Jobs \ {j} : status'[i] = status[i]
        /\ pc[t] = "idle" /\ pc'[t] = "start" /\ JobOf(t)' = j
        /\ \A u \in Tasks : pc[u] # "start"
    BY <1>2 DEF Claim, HasRow, NoRow, JobOf, TypeOK
  <2>2. \A u \in Tasks \ {t} : /\ pc'[u] = pc[u] /\ JobOf(u)' = JobOf(u)
                               /\ Live(u)' <=> Live(u)
                               /\ Running(u)' <=> Running(u)
    BY <1>2 DEF Claim, TypeOK, JobOf, Live, Worker, Running
  <2>3. \A u \in Tasks : Live(u) => JobOf(u) # j
    BY <2>1 DEF Core, LiveRow
  <2>4. FirstStep'
    BY <2>1, <2>2, <2>3 DEF FirstStep
  <2>5. ASSUME NEW i \in Jobs, status'[i] \in ActiveStatuses \ {"starting"}
        PROVE  \E u \in Tasks : Running(u)' /\ JobOf(u)' = i
    <3>1. status[i] \in ActiveStatuses \ {"starting"}
      BY <2>1, <2>5
    <3>2. PICK u \in Tasks : Running(u) /\ JobOf(u) = i
      BY <2>1, <3>1 DEF ActiveHasTask, Tended, Up
    <3>3. u # t
      BY <2>1, <3>2, LiveNotIdle
    <3> QED
      BY <2>2, <3>2, <3>3
  <2> QED
    BY <2>4, <2>5 DEF ActiveHasTask, Tended
<1>3. ASSUME NEW t \in Tasks, Task(t)
      PROVE  FirstStep' /\ ActiveHasTask'
  BY <1>3, TaskTends, TendsKeepsTask
<1>4. CASE Crash \/ Recover
  <2>1. \A t \in Tasks : pc'[t] = "idle"
    BY <1>4 DEF Crash, Recover, EachTask, Core, DownIsEmpty
  <2>2. Up' => \A j \in Jobs : status'[j] \notin ActiveStatuses
    BY <1>4 DEF Crash, Recover, Up, Interrupted, ActiveStatuses
  <2> QED
    BY <2>1, <2>2 DEF FirstStep, ActiveHasTask
<1> QED
  BY <1>1, <1>2, <1>3, <1>4 DEF Next, Loop

---------------------------------------------------------------------------
(* The claim loop, the files, the slots                                    *)

\* A row only becomes queued by a step that sets the wake event.
LEMMA WakeStep == TypeOK /\ NoLostWakeup /\ [Next]_vars => NoLostWakeup'
<1> SUFFICES ASSUME TypeOK, NoLostWakeup, [Next]_vars
             PROVE  NoLostWakeup'
  OBVIOUS
<1> USE DEF rowVars, fileVars, loopVars, taskVars, NoLostWakeup
<1>1. CASE Loop
  BY <1>1 DEF Loop, LoopWake, Claim, ClaimNothing, TypeOK
<1>2. ASSUME NEW t \in Tasks, Task(t)
      PROVE  NoLostWakeup'
  <2>1. CASE SetStatus(t) \/ PostWrite(t)
    <3>1. \A j \in Jobs : status'[j] = "queued" => status[j] = "queued"
      BY <2>1 DEF SetStatus, PostWrite, WriteStatus, StepStatus, TypeOK
    <3> QED
      BY <2>1, <3>1 DEF SetStatus, PostWrite
  <2>2. CASE Settle(t)
    <3>1. \A j \in Jobs : status'[j] = "queued" => status[j] = "queued" \/ result[t] = "queued"
      BY <2>2 DEF Settle, WriteStatus, TypeOK
    <3>2. result[t] # "queued"
      BY DEF TypeOK, Results, Verdicts, ImportDone, ImportAgain
    <3> QED
      BY <2>2, <3>1, <3>2 DEF Settle
  <2>3. CASE ~(SetStatus(t) \/ PostWrite(t) \/ Settle(t))
    <3>1. UNCHANGED <<status, loop, wake>>
      BY <1>2, <2>3 DEF Task, AtStep, RunJob, GateCancelled, SkipStep, EnterStep, NoFinalPath,
           NoMoreSteps, SlotTaken, PostProcess, Work, WorkCancelled, WorkFailed, DownloadOk,
           TranscodeOk, OrganizeOk, ImportOk, AfterStep, Checkpoint, Tidy, Wipe, Forget
    <3> QED
      BY <3>1
  <2> QED
    BY <2>1, <2>2, <2>3
<1>3. ASSUME NEW j \in Jobs, Api(j)
      PROVE  NoLostWakeup'
  BY <1>3 DEF Api, Create, Requeue, Cancel, CancelRmtree, Retry, RetryImport, DeleteFiles,
              DeleteRow, TypeOK
<1>4. CASE Crash \/ Recover \/ UNCHANGED vars
  BY <1>4 DEF Crash, Recover, vars
<1> QED
  BY <1>1, <1>2, <1>3, <1>4 DEF Next

\* Only organize puts a video into completed/, and it runs after two checkpoints.
LEMMA VideoStep ==
  TypeOK /\ TaskShape /\ Core /\ VideoAfterTranscode /\ [Next]_vars => VideoAfterTranscode'
<1> SUFFICES ASSUME TypeOK, TaskShape, Core, VideoAfterTranscode, [Next]_vars
             PROVE  VideoAfterTranscode'
  OBVIOUS
<1> USE DEF rowVars, fileVars, loopVars, taskVars
<1>1. CASE LoopWake \/ ClaimNothing \/ UNCHANGED vars
  BY <1>1 DEF LoopWake, ClaimNothing, vars, VideoAfterTranscode, Worker, JobOf
<1>2. ASSUME NEW j \in Jobs, NEW t \in Tasks, Claim(j, t)
      PROVE  VideoAfterTranscode'
  <2>1. \A i \in Jobs : status'[i] # "deleted" => status[i] # "deleted"
    BY <1>2 DEF Claim, TypeOK
  <2>2. /\ UNCHANGED <<lcs, disk>>
        /\ status[j] # "deleted" /\ JobOf(t)' = j /\ step'[t] = lcs[j] + 1
        /\ \A u \in Tasks \ {t} : /\ JobOf(u)' = JobOf(u) /\ step'[u] = step[u]
                                  /\ Worker(u)' <=> Worker(u)
    BY <1>2 DEF Claim, ResumeAt, TypeOK, JobOf, Worker
  <2>3. step'[t] \in SlotSteps => disk'[j] \notin Organized
    BY <2>2 DEF VideoAfterTranscode, TypeOK
  <2> QED
    BY <2>1, <2>2, <2>3 DEF VideoAfterTranscode
<1>3. ASSUME NEW t \in Tasks,
             \/ AtStep(t) \/ SlotTaken(t) \/ PostProcess(t) \/ PostWrite(t) \/ Work(t)
             \/ Tidy(t) \/ Wipe(t)
      PROVE  VideoAfterTranscode'
  <2>1. Quiet
    BY <1>3, QuietStep
  <2>2. \A j \in Jobs : status'[j] # "deleted" => status[j] # "deleted"
    BY <2>1 DEF Quiet, HasRow, NoRow
  <2>3. CASE OrganizeOk(t)
    <3>1. /\ Worker(t) /\ Live(t) /\ JobOf(t) \in Jobs /\ step[t] = Organize
          /\ \A j \in Jobs \ {JobOf(t)} : disk'[j] = disk[j]
      BY <2>3 DEF OrganizeOk, TaskShape, TypeOK, Worker, Live, Working
    <3>2. status[JobOf(t)] # "deleted" => lcs[JobOf(t)] >= Transcode
      BY <3>1, LiveNotIdle DEF Core, LiveRow, HasRow, NoRow
    <3>3. \A u \in Tasks : Worker(u) /\ step[u] \in SlotSteps => JobOf(u) # JobOf(t)
      BY <3>1, WorkerIsLive DEF Core, OneLiveTask
    <3>4. \A u \in Tasks : Worker(u) => JobOf(u) \in Jobs
      BY LiveNotIdle DEF TaskShape
    <3> QED
      BY <2>1, <2>2, <3>1, <3>2, <3>3, <3>4 DEF VideoAfterTranscode, Quiet
  <2>4. CASE ~OrganizeOk(t)
    <3>1. \A j \in Jobs : disk'[j] \in Organized => disk[j] \in Organized
      BY <1>3, <2>4 DEF AtStep, RunJob, GateCancelled, SkipStep, EnterStep, NoFinalPath,
           NoMoreSteps, SetStatus, SlotTaken, PostProcess, PostWrite, Work, WorkCancelled,
           WorkFailed, DownloadOk, TranscodeOk, ImportOk, Tidy, Wipe, Rmtree, Organized, TypeOK
    <3>2. \A u \in Tasks : Worker(u) => JobOf(u) \in Jobs
      BY LiveNotIdle DEF TaskShape
    <3> QED
      BY <2>1, <2>2, <3>1, <3>2 DEF VideoAfterTranscode, Quiet
  <2> QED
    BY <2>3, <2>4
<1>4. ASSUME NEW t \in Tasks, Checkpoint(t)
      PROVE  VideoAfterTranscode'
  <2>1. /\ Worker(t) /\ step[t] \in Steps /\ UNCHANGED <<status, disk>>
        /\ JobOf(t) \in Jobs
        /\ \A u \in Tasks : JobOf(u)' = JobOf(u)
    BY <1>4 DEF Checkpoint, Worker, Working, TaskShape, JobOf
  <2>2. /\ step'[t] = step[t] + 1
        /\ \A u \in Tasks \ {t} : step'[u] = step[u] /\ (Worker(u)' <=> Worker(u))
    BY <1>4 DEF Checkpoint, Goto, TypeOK, Worker
  <2>3. \A j \in Jobs : lcs'[j] >= lcs[j]
    <3>1. HasRow(JobOf(t)) => lcs[JobOf(t)] = step[t] - 1
      BY <2>1 DEF Core, LiveRow
    <3> QED
      BY <1>4, <2>1, <3>1 DEF Checkpoint, TypeOK
  <2>4. step'[t] \in SlotSteps => disk[JobOf(t)] \notin Organized
    BY <2>1, <2>2 DEF VideoAfterTranscode
  <2>5. \A j \in Jobs : status'[j] # "deleted" /\ disk'[j] \in Organized => lcs'[j] >= Transcode
    <3> SUFFICES ASSUME NEW j \in Jobs, status[j] # "deleted", disk[j] \in Organized
                 PROVE  lcs'[j] >= Transcode
      BY <2>1
    <3>1. lcs[j] >= Transcode /\ lcs'[j] >= lcs[j] /\ lcs[j] \in Nat /\ lcs'[j] \in Nat
      BY <2>3, TypeStep DEF VideoAfterTranscode, TypeOK
    <3> QED
      BY <3>1
  <2> QED
    BY <2>1, <2>2, <2>4, <2>5 DEF VideoAfterTranscode
<1>5. ASSUME NEW t \in Tasks, Settle(t)
      PROVE  VideoAfterTranscode'
  <2>1. \A j \in Jobs : status'[j] # "deleted" => status[j] # "deleted"
    BY <1>5 DEF Settle, WriteStatus, HasRow, NoRow, TypeOK
  <2>2. \A u \in Tasks : Worker(u)' => Worker(u)
    BY <1>5 DEF Settle, End, Goto, TypeOK, Worker, Working
  <2> QED
    BY <1>5, <2>1, <2>2 DEF Settle, VideoAfterTranscode, JobOf
<1>6. ASSUME NEW t \in Tasks, Forget(t)
      PROVE  VideoAfterTranscode'
  <2>1. /\ ~Worker(t)'
        /\ \A u \in Tasks \ {t} : /\ JobOf(u)' = JobOf(u) /\ step'[u] = step[u]
                                  /\ Worker(u)' <=> Worker(u)
    BY <1>6 DEF Forget, Goto, TypeOK, JobOf, Worker, Working
  <2> QED
    BY <1>6, <2>1 DEF Forget, VideoAfterTranscode
<1>7. ASSUME NEW j \in Jobs, Api(j)
      PROVE  VideoAfterTranscode'
  <2>1. \A u \in Tasks : JobOf(u)' = JobOf(u) /\ step'[u] = step[u] /\ (Worker(u)' <=> Worker(u))
    BY <1>7 DEF Api, Create, Cancel, CancelRmtree, Retry, RetryImport, DeleteFiles, DeleteRow,
                Worker, JobOf
  <2>2. \A i \in Jobs : disk'[i] \in Organized => disk[i] \in Organized
    BY <1>7 DEF Api, Create, Cancel, CancelRmtree, Retry, RetryImport, DeleteFiles, DeleteRow,
                Rmtree, Organized, TypeOK
  <2>3. \A i \in Jobs : status'[i] # "deleted" => status[i] # "deleted"
    BY <1>7 DEF Api, Create, Requeue, Cancel, CancelRmtree, Retry, CanRetry, RetryImport,
                DeleteFiles, DeleteRow, HasRow, NoRow, CancellableStatuses, TypeOK
  <2>4. \A i \in Jobs : lcs'[i] = lcs[i] \/ lcs'[i] = Organize
    BY <1>7 DEF Api, Create, Cancel, CancelRmtree, Retry, RetryImport, DeleteFiles, DeleteRow,
                TypeOK
  <2>5. \A u \in Tasks : Worker(u) => JobOf(u) \in Jobs
    BY LiveNotIdle DEF TaskShape
  <2> QED
    BY <2>1, <2>2, <2>3, <2>4, <2>5 DEF VideoAfterTranscode
<1>8. CASE Crash \/ Recover
  <2>1. \A t \in Tasks : ~Worker(t)'
    BY <1>8 DEF Crash, Recover, EachTask, Core, DownIsEmpty, Worker, Working
  <2>2. \A j \in Jobs : /\ lcs'[j] = lcs[j]
                        /\ status'[j] # "deleted" => status[j] # "deleted"
                        /\ disk'[j] \in Organized => disk[j] \in Organized
    BY <1>8 DEF Crash, Recover, Interrupted, ActiveStatuses, Rmtree, Organized
  <2> QED
    BY <2>1, <2>2 DEF VideoAfterTranscode
<1> QED
  BY <1>1, <1>2, <1>3, <1>4, <1>5, <1>6, <1>7, <1>8 DEF Next, Loop, Task, AfterStep

\* The tasks that hold a slot are finitely many.
LEMMA SomeTasks ==
  ASSUME NEW S \in SUBSET Tasks
  PROVE  IsFiniteSet(S) /\ Cardinality(S) \in Nat
BY TasksAssumption, FS_Subset, FS_CardinalityType

\* SlotsConserved in the next state: the capacity is a constant.
LEMMA SlotsSum ==
  ASSUME \A k \in SlotSteps : free'[k] + Cardinality(Holders(k)') = Capacity[k]
  PROVE  SlotsConserved'
BY DEF SlotsConserved, Capacity

\* A step that leaves the slots and the tasks that hold one alone.
LEMMA SlotsStill ==
  ASSUME SlotsConserved, UNCHANGED free, \A k \in SlotSteps : Holders(k)' = Holders(k)
  PROVE  SlotsConserved'
BY DEF SlotsConserved, Capacity

\* A slot is given back by the task that held it.
LEMMA SlotsRelease ==
  ASSUME TypeOK, SlotsConserved, NEW t \in Tasks, Release(t),
         pc[t] = "work", pc'[t] \notin {"status", "work"}, UNCHANGED step,
         \A u \in Tasks \ {t} : pc'[u] = pc[u]
  PROVE  SlotsConserved'
<1>1. CASE step[t] \notin SlotSteps
  <2>1. UNCHANGED free /\ \A k \in SlotSteps : Holders(k)' = Holders(k)
    BY <1>1 DEF Release, Holders
  <2> QED
    BY <2>1, SlotsStill
<1>2. CASE step[t] \in SlotSteps
  <2>1. \A k \in SlotSteps \ {step[t]} : free'[k] = free[k] /\ Holders(k)' = Holders(k)
    BY <1>2 DEF Release, Holders, TypeOK
  <2>2. free'[step[t]] = free[step[t]] + 1 /\ free[step[t]] \in Nat
    BY <1>2 DEF Release, TypeOK
  <2> DEFINE S == Holders(step[t])
  <2>3. S \in SUBSET Tasks /\ t \in S /\ Holders(step[t])' = S \ {t}
    BY DEF Holders
  <2>4. Cardinality(S \ {t}) = Cardinality(S) - 1 /\ Cardinality(S) \in Nat
    BY <2>3, SomeTasks, FS_RemoveElement
  <2>5. free'[step[t]] + Cardinality(Holders(step[t])') = Capacity[step[t]]
    <3>1. free[step[t]] + Cardinality(S) = Capacity[step[t]]
      BY <1>2 DEF SlotsConserved
    <3> HIDE DEF S
    <3>2. (free[step[t]] + 1) + (Cardinality(S) - 1) = Capacity[step[t]]
      BY <3>1, <2>2, <2>4
    <3> QED
      BY <3>2, <2>2, <2>3, <2>4
  <2>6. \A k \in SlotSteps \ {step[t]} : free'[k] + Cardinality(Holders(k)') = Capacity[k]
    <3> HIDE DEF S
    <3> QED
      BY <2>1 DEF SlotsConserved
  <2>7. \A k \in SlotSteps : free'[k] + Cardinality(Holders(k)') = Capacity[k]
    <3> HIDE DEF S
    <3> QED
      BY <2>5, <2>6
  <2> QED
    BY <2>7, SlotsSum
<1> QED
  BY <1>1, <1>2

\* A slot is taken by a task that held none.
LEMMA SlotsTake ==
  ASSUME TypeOK, TaskShape, SlotsConserved, NEW t \in Tasks, SlotTaken(t)
  PROVE  SlotsConserved'
<1>1. step[t] \in SlotSteps /\ UNCHANGED step /\ pc[t] = "slot"
  BY DEF SlotTaken, TaskShape
<1>2. \A u \in Tasks \ {t} : pc'[u] = pc[u]
  BY DEF SlotTaken, End, Goto, TypeOK
<1>3. CASE CancelSeen(t)
  <2>1. UNCHANGED free /\ pc'[t] = "wipe"
    BY <1>3 DEF SlotTaken, End, Goto, TypeOK
  <2>2. \A k \in SlotSteps : Holders(k)' = Holders(k)
    BY <1>1, <1>2, <2>1 DEF Holders
  <2> QED
    BY <2>1, <2>2, SlotsStill
<1>4. CASE ~CancelSeen(t)
  <2>1. \A k \in SlotSteps \ {step[t]} : free'[k] = free[k] /\ Holders(k)' = Holders(k)
    BY <1>1, <1>2, <1>4 DEF SlotTaken, Goto, Holders, TypeOK
  <2>2. free'[step[t]] = free[step[t]] - 1 /\ free[step[t]] \in Nat /\ pc'[t] = "status"
    BY <1>1, <1>4 DEF SlotTaken, Goto, TypeOK
  <2> DEFINE S == Holders(step[t])
  <2>3. S \in SUBSET Tasks /\ t \notin S /\ Holders(step[t])' = S \cup {t}
    BY <1>1, <1>2, <2>2 DEF Holders
  <2>4. Cardinality(S \cup {t}) = Cardinality(S) + 1 /\ Cardinality(S) \in Nat
    BY <2>3, SomeTasks, FS_AddElement
  <2>5. free'[step[t]] + Cardinality(Holders(step[t])') = Capacity[step[t]]
    <3>1. free[step[t]] + Cardinality(S) = Capacity[step[t]]
      BY <1>1 DEF SlotsConserved
    <3> HIDE DEF S
    <3>2. (free[step[t]] - 1) + (Cardinality(S) + 1) = Capacity[step[t]]
      BY <3>1, <2>2, <2>4
    <3> QED
      BY <3>2, <2>2, <2>3, <2>4
  <2>6. \A k \in SlotSteps \ {step[t]} : free'[k] + Cardinality(Holders(k)') = Capacity[k]
    <3> HIDE DEF S
    <3> QED
      BY <2>1 DEF SlotsConserved
  <2>7. \A k \in SlotSteps : free'[k] + Cardinality(Holders(k)') = Capacity[k]
    <3> HIDE DEF S
    <3> QED
      BY <1>1, <2>5, <2>6
  <2> QED
    BY <2>7, SlotsSum
<1> QED
  BY <1>3, <1>4

\* Every step keeps the count: only SlotTaken and Release touch the semaphores.
LEMMA SlotsStep == TypeOK /\ TaskShape /\ SlotsConserved /\ [Next]_vars => SlotsConserved'
<1> SUFFICES ASSUME TypeOK, TaskShape, SlotsConserved, [Next]_vars
             PROVE  SlotsConserved'
  OBVIOUS
<1> USE DEF rowVars, fileVars, loopVars, taskVars
<1>1. CASE LoopWake \/ ClaimNothing \/ Recover \/ UNCHANGED vars
  <2>1. UNCHANGED <<free, pc, step>>
    BY <1>1 DEF LoopWake, ClaimNothing, Recover, vars
  <2> QED
    BY <2>1, SlotsStill DEF Holders
<1>2. ASSUME NEW j \in Jobs, NEW t \in Tasks, Claim(j, t)
      PROVE  SlotsConserved'
  <2>1. /\ UNCHANGED free /\ pc[t] = "idle" /\ pc'[t] = "start"
        /\ \A u \in Tasks \ {t} : pc'[u] = pc[u] /\ step'[u] = step[u]
    BY <1>2 DEF Claim, TypeOK
  <2>2. \A k \in SlotSteps : Holders(k)' = Holders(k)
    BY <2>1 DEF Holders
  <2> QED
    BY <2>1, <2>2, SlotsStill
<1>3. ASSUME NEW t \in Tasks,
             AtStep(t) \/ PostProcess(t) \/ PostWrite(t) \/ OrganizeOk(t) \/ ImportOk(t)
      PROVE  SlotsConserved'
  <2> DEFINE Kept == /\ UNCHANGED <<free, step>>
                     /\ \A u \in Tasks \ {t} : pc'[u] = pc[u]
                     /\ \/ pc[t] \in {"status", "work"} <=> pc'[t] \in {"status", "work"}
                        \/ step[t] \notin SlotSteps
  <2>0. ASSUME RunJob(t)
        PROVE  Kept
    BY <2>0 DEF RunJob, Goto, TypeOK
  <2>1. ASSUME GateCancelled(t) \/ NoFinalPath(t) \/ NoMoreSteps(t)
        PROVE  Kept
    BY <2>1 DEF GateCancelled, NoFinalPath, NoMoreSteps, AtGate, End, Goto, TypeOK
  <2>2. ASSUME SkipStep(t) \/ EnterStep(t)
        PROVE  Kept
    BY <2>2 DEF SkipStep, EnterStep, AtGate, Goto, TypeOK
  <2>3. ASSUME SetStatus(t) \/ PostProcess(t) \/ PostWrite(t)
        PROVE  Kept
    BY <2>3 DEF SetStatus, PostProcess, PostWrite, Goto, TypeOK
  <2>4. ASSUME OrganizeOk(t) \/ ImportOk(t)
        PROVE  Kept
    BY <2>4 DEF OrganizeOk, ImportOk, Goto, TypeOK
  <2>5. Kept
    BY <1>3, <2>0, <2>1, <2>2, <2>3, <2>4 DEF AtStep
  <2>6. \A k \in SlotSteps : Holders(k)' = Holders(k)
    BY <2>5 DEF Holders
  <2> QED
    BY <2>5, <2>6, SlotsStill
<1>4. ASSUME NEW t \in Tasks, SlotTaken(t)
      PROVE  SlotsConserved'
  BY <1>4, SlotsTake
<1>5. ASSUME NEW t \in Tasks,
             WorkCancelled(t) \/ WorkFailed(t) \/ DownloadOk(t) \/ TranscodeOk(t)
      PROVE  SlotsConserved'
  <2>1. /\ Release(t) /\ UNCHANGED step
        /\ pc[t] = "work" /\ pc'[t] \notin {"status", "work"}
        /\ \A u \in Tasks \ {t} : pc'[u] = pc[u]
    BY <1>5 DEF WorkCancelled, WorkFailed, DownloadOk, TranscodeOk, End, Goto, TypeOK
  <2> QED
    BY <2>1, SlotsRelease
<1>6. ASSUME NEW t \in Tasks, AfterStep(t)
      PROVE  SlotsConserved'
  <2>1. /\ UNCHANGED free
        /\ pc[t] \notin {"status", "work"} /\ pc'[t] \notin {"status", "work"}
        /\ \A u \in Tasks \ {t} : pc'[u] = pc[u] /\ step'[u] = step[u]
    BY <1>6 DEF AfterStep, Checkpoint, Tidy, Wipe, Settle, Forget, End, Goto, TypeOK
  <2>2. \A k \in SlotSteps : Holders(k)' = Holders(k)
    BY <2>1 DEF Holders
  <2> QED
    BY <2>1, <2>2, SlotsStill
<1>7. ASSUME NEW j \in Jobs, Api(j)
      PROVE  SlotsConserved'
  <2>1. UNCHANGED <<free, pc, step>>
    BY <1>7 DEF Api, Create, Cancel, CancelRmtree, Retry, RetryImport, DeleteFiles, DeleteRow
  <2> QED
    BY <2>1, SlotsStill DEF Holders
<1>8. CASE Crash
  <2>1. free' = Capacity /\ \A k \in SlotSteps : Holders(k)' = {}
    BY <1>8 DEF Crash, EachTask, Holders
  <2>2. Cardinality({}) = 0 /\ \A k \in SlotSteps : Capacity[k] \in Nat
    BY FS_EmptySet, CapacityType
  <2> QED
    BY <2>1, <2>2 DEF SlotsConserved, Capacity
<1> QED
  BY <1>1, <1>2, <1>3, <1>4, <1>5, <1>6, <1>7, <1>8 DEF Next, Loop, Task, Work

---------------------------------------------------------------------------
(* The inductive invariant                                                 *)

\* It holds when the server starts on an empty database.
LEMMA InvInit == Init => IInv
<1> SUFFICES ASSUME Init
             PROVE  IInv
  OBVIOUS
<1>1. TypeOK
  <2>1. /\ ctx \in [Tasks -> Ctx] /\ free \in [SlotSteps -> Nat]
        /\ pc \in [Tasks -> Pcs] /\ step \in [Tasks -> 0 .. Done]
    BY NoCtxType, CapacityType DEF Init, EachTask, Pcs
  <2>2. /\ imp \in [Jobs -> ImportStatuses] /\ disk \in [Jobs -> DiskStates]
        /\ status \in [Jobs -> JobStatuses \cup NoRow]
        /\ result \in [Tasks -> Results]
    BY DEF Init, EachTask, ImportStatuses, DiskStates, NoRow, Results
  <2> QED
    BY <2>1, <2>2 DEF Init, EachTask, TypeOK
<1>2. \A t \in Tasks : pc[t] = "idle" /\ step[t] = 0 /\ post[t] = "no" /\ result[t] = "none"
  BY DEF Init, EachTask
<1>3. TaskShape /\ DownIsEmpty
  BY <1>2 DEF TaskShape, DownIsEmpty, Ending
<1>4. \A t \in Tasks : ~Live(t) /\ ~Worker(t)
  BY <1>2 DEF Live, Worker, Working, Ending
<1>5. OneLiveTask /\ LiveRow /\ FirstStep
  BY <1>2, <1>4 DEF OneLiveTask, LiveRow, FirstStep
<1>6. VerdictIsLast /\ VideoAfterTranscode
  BY <1>4 DEF Init, VerdictIsLast, VideoAfterTranscode, ImportAgain, Organized
<1>7. ActiveHasTask /\ NoLostWakeup
  BY DEF Init, ActiveHasTask, ActiveStatuses, NoLostWakeup
<1>8. SlotsConserved
  <2>1. \A k \in SlotSteps : Holders(k) = {}
    BY <1>2 DEF Holders
  <2>2. Cardinality({}) = 0 /\ \A k \in SlotSteps : Capacity[k] \in Nat
    BY FS_EmptySet, CapacityType
  <2> QED
    BY <2>1, <2>2 DEF Init, SlotsConserved
<1> QED
  BY <1>1, <1>3, <1>5, <1>6, <1>7, <1>8 DEF IInv

\* Every step of every actor keeps it.
LEMMA InvStep == IInv /\ [Next]_vars => IInv'
BY TypeStep, ShapeStep, CoreStep, TendedStep, WakeStep, VideoStep, SlotsStep DEF IInv, Core

\* Every reachable state satisfies the inductive invariant.
THEOREM Invariant == Spec => []IInv
<1>1. Init => IInv
  BY InvInit
<1>2. IInv /\ [Next]_vars => IInv'
  BY InvStep
<1> QED
  BY <1>1, <1>2, PTL DEF Spec

---------------------------------------------------------------------------
(* Theorems                                                                *)

\* Type correctness of rows, files, semaphores and tasks.
THEOREM TypeCorrect == Spec => []TypeOK
<1>1. IInv => TypeOK
  BY DEF IInv
<1> QED
  BY <1>1, Invariant, PTL

\* JobManager._claim, cancel, retry, retry_import and recover together never give a
\* job two tasks that run its steps.
THEOREM OneWorker == Spec => []OneWorkerPerJob
<1>1. IInv => OneWorkerPerJob
  BY WorkerIsLive DEF IInv, OneLiveTask, OneWorkerPerJob
<1> QED
  BY <1>1, Invariant, PTL

\* A queued or failed row is not being worked on: the claim and the retry are safe.
THEOREM QueuedIsIdle == Spec => []QueuedHasNoWorker
<1>1. IInv => QueuedHasNoWorker
  BY WorkerIsLive DEF IInv, LiveRow, HasRow, NoRow, QueuedHasNoWorker
<1> QED
  BY <1>1, Invariant, PTL

\* While the process is up, no row is left at the status of a step with nobody working on
\* it: the claim sets `starting` only, and no late write reaches a row without its task.
THEOREM ActiveIsOwned == Spec => []ActiveHasTask
<1>1. IInv => ActiveHasTask
  BY DEF IInv
<1> QED
  BY <1>1, Invariant, PTL

\* The clear-then-claim order of _run_loop loses no wake-up.
THEOREM NoWakeupIsLost == Spec => []NoLostWakeup
<1>1. IInv => NoLostWakeup
  BY DEF IInv
<1> QED
  BY <1>1, Invariant, PTL

\* The download and transcode semaphores neither leak nor gain slots.
THEOREM SlotsAreConserved == Spec => []SlotsConserved
<1>1. IInv => SlotsConserved
  BY DEF IInv
<1> QED
  BY <1>1, Invariant, PTL

\* The recorded step only goes back when an import verdict is retried.
LEMMA CheckpointsHoldStep ==
  ASSUME IInv, [Next]_vars, NEW j \in Jobs, lcs'[j] < lcs[j]
  PROVE  lcs[j] = Import /\ lcs'[j] = Organize /\ imp[j] \in ImportAgain
<1> USE DEF rowVars, fileVars, loopVars, taskVars
<1>1. TypeOK /\ lcs[j] \in 0 .. Import
  BY DEF IInv, TypeOK
<1>2. CASE RetryImport(j)
  <2>1. imp[j] \in ImportAgain /\ lcs'[j] = Organize
    BY <1>1, <1>2 DEF RetryImport, CanRetryImport, TypeOK
  <2>2. lcs[j] = Import
    BY <2>1 DEF IInv, VerdictIsLast
  <2> QED
    BY <2>1, <2>2
<1>3. ASSUME NEW t \in Tasks, Checkpoint(t)
      PROVE  FALSE
  <2>1. Worker(t) /\ JobOf(t) \in Jobs
    BY <1>3 DEF Checkpoint, Worker, Working, IInv, TaskShape
  <2>2. HasRow(JobOf(t)) => lcs[JobOf(t)] = step[t] - 1
    BY <2>1 DEF IInv, LiveRow
  <2>3. step[t] \in 0 .. Done
    BY <1>1 DEF TypeOK
  <2> QED
    BY <1>1, <1>3, <2>2, <2>3 DEF Checkpoint, TypeOK
<1>4. CASE ~RetryImport(j) /\ ~\E t \in Tasks : Checkpoint(t)
  <2>1. lcs'[j] = lcs[j]
    <3>1. CASE \E t \in Tasks : Task(t)
      BY <1>4, <3>1 DEF Task, AtStep, RunJob, GateCancelled, SkipStep, EnterStep, NoFinalPath,
         NoMoreSteps, SetStatus, SlotTaken, PostProcess, PostWrite, Work, WorkCancelled,
         WorkFailed, DownloadOk, TranscodeOk, OrganizeOk, ImportOk, AfterStep, Tidy, Wipe,
         Settle, Forget
    <3>2. CASE \E i \in Jobs : Api(i)
      BY <1>1, <1>4, <3>2 DEF Api, Create, Cancel, CancelRmtree, Retry, RetryImport,
         DeleteFiles, DeleteRow, TypeOK
    <3>3. CASE Loop \/ Crash \/ Recover \/ UNCHANGED vars
      BY <3>3 DEF Loop, LoopWake, Claim, ClaimNothing, Crash, Recover, vars
    <3> QED
      BY <3>1, <3>2, <3>3 DEF Next
  <2> QED
    BY <1>1, <2>1
<1> QED
  BY <1>2, <1>3, <1>4

\* No restart, retry or late task schedules a recorded step again (_checkpoint).
THEOREM CheckpointsAreDurable == Spec => CheckpointsHold
<1>1. IInv /\ [Next]_vars =>
        [\A j \in Jobs : lcs'[j] < lcs[j] =>
            lcs[j] = Import /\ lcs'[j] = Organize /\ imp[j] \in ImportAgain]_vars
  BY CheckpointsHoldStep
<1> QED
  BY <1>1, Invariant, PTL DEF Spec, CheckpointsHold

\* Only a delete takes a video out of completed/.
LEMMA VideoStaysStep ==
  ASSUME IInv, [Next]_vars, NEW j \in Jobs, disk[j] \in Organized, ~DeleteFiles(j)
  PROVE  disk'[j] \in Organized
<1> USE DEF rowVars, fileVars, loopVars, taskVars
<1>1. TypeOK
  BY DEF IInv
<1>2. ASSUME NEW t \in Tasks, Task(t)
      PROVE  disk'[j] \in Organized
  <2>1. CASE DownloadOk(t) \/ TranscodeOk(t)
    <3>1. Worker(t) /\ step[t] \in SlotSteps
      BY <2>1 DEF DownloadOk, TranscodeOk, Worker, Working
    <3>2. JobOf(t) # j
      BY <3>1 DEF IInv, VideoAfterTranscode
    <3> QED
      BY <1>1, <2>1, <3>2 DEF DownloadOk, TranscodeOk, TypeOK
  <2>2. CASE OrganizeOk(t) \/ Tidy(t) \/ Wipe(t)
    BY <1>1, <2>2 DEF OrganizeOk, Tidy, Wipe, Rmtree, Organized, TypeOK
  <2>3. CASE UNCHANGED disk
    BY <2>3
  <2> QED
    BY <1>2, <2>1, <2>2, <2>3 DEF Task, AtStep, RunJob, GateCancelled, SkipStep, EnterStep,
       NoFinalPath, NoMoreSteps, SetStatus, SlotTaken, PostProcess, PostWrite, Work,
       WorkCancelled, WorkFailed, ImportOk, AfterStep, Checkpoint, Settle, Forget
<1>3. ASSUME NEW i \in Jobs, Api(i)
      PROVE  disk'[j] \in Organized
  BY <1>1, <1>3 DEF Api, Create, Cancel, CancelRmtree, Retry, RetryImport, DeleteFiles,
     DeleteRow, Rmtree, Organized, TypeOK
<1>4. CASE Loop \/ Crash \/ Recover \/ UNCHANGED vars
  BY <1>4 DEF Loop, LoopWake, Claim, ClaimNothing, Crash, Recover, Rmtree, Organized, vars
<1> QED
  BY <1>2, <1>3, <1>4 DEF Next

\* The rmtrees, the resumed runs and the restarts never take an organized video away.
THEOREM VideosStay == Spec => VideoStays
<1>1. IInv /\ [Next]_vars =>
        [\A j \in Jobs : disk[j] \in Organized /\ <<j, "delete">> \notin calls' =>
            disk'[j] \in Organized]_vars
  <2>1. ASSUME NEW j \in Jobs, DeleteFiles(j)
        PROVE  <<j, "delete">> \in calls'
    BY <2>1 DEF DeleteFiles
  <2> QED
    BY <2>1, VideoStaysStep
<1> QED
  BY <1>1, Invariant, PTL DEF Spec, VideoStays

\* What a step of one task may do to itself and must leave alone in the others.
Steady(u) == /\ pc'[u] = pc[u] /\ step'[u] = step[u] /\ result'[u] = result[u]
             /\ JobOf(u)' = JobOf(u)

\* Without deletes a step keeps PlacedByOrganize for the tasks it leaves alone.
LEMMA SteadyKeepsPlaced ==
  ASSUME IInv, PlacedByOrganize, [Next]_vars, "delete" \notin UserOps,
         NEW u \in Tasks, Steady(u)
  PROVE  PlacedTask(u)'
<1>1. pc[u] # "idle" => JobOf(u) \in Jobs
  BY DEF IInv, TaskShape
<1>2. ~DeleteFiles(JobOf(u))
  BY DEF DeleteFiles
<1> QED
  BY <1>1, <1>2, VideoStaysStep DEF Steady, PlacedByOrganize, PlacedTask

\* Without deletes every step of a task keeps PlacedByOrganize for that task.
LEMMA MoverKeepsPlaced ==
  ASSUME IInv, PlacedByOrganize, [Next]_vars, "delete" \notin UserOps,
         NEW t \in Tasks, Task(t)
  PROVE  PlacedTask(t)'
<1> USE DEF rowVars, fileVars, loopVars, taskVars, PlacedTask
<1> DEFINE j == JobOf(t)
<1>1. TypeOK /\ TaskShape
  BY DEF IInv
<1>2. ~DeleteFiles(j)
  BY DEF DeleteFiles
<1>3. CASE Checkpoint(t)
  <2>1. /\ j \in Jobs /\ step[t] \in Steps
        /\ UNCHANGED disk /\ JobOf(t)' = j /\ result'[t] = "none"
        /\ step'[t] = step[t] + 1 /\ pc'[t] # "checkpoint"
    BY <1>1, <1>3 DEF Checkpoint, Goto, TypeOK, TaskShape, JobOf
  <2>2. step[t] >= Organize => disk[j] \in Organized
    BY <1>3, <2>1 DEF Checkpoint, PlacedByOrganize
  <2> QED
    BY <2>1, <2>2
<1>4. CASE Forget(t)
  <2>1. pc'[t] = "idle" /\ result'[t] = "none"
    BY <1>1, <1>4 DEF Forget, Goto, TypeOK, TaskShape, Ending
  <2> QED
    BY <2>1
<1>5. CASE PostProcess(t) \/ PostWrite(t)
  <2>1. Steady(t)
    BY <1>5 DEF PostProcess, PostWrite, Steady, JobOf
  <2> QED
    BY <2>1, SteadyKeepsPlaced
<1>6. CASE AtStep(t) \/ SlotTaken(t) \/ Work(t) \/ Tidy(t) \/ Wipe(t) \/ Settle(t)
  <2>1. pc[t] \notin {"idle", "tail"} /\ j \in Jobs /\ step'[t] = step[t]
    BY <1>1, <1>6 DEF AtStep, RunJob, GateCancelled, SkipStep, EnterStep, NoFinalPath, NoMoreSteps,
       AtGate, SetStatus, SlotTaken, Work, WorkCancelled, WorkFailed, DownloadOk, TranscodeOk,
       OrganizeOk, ImportOk, Tidy, Wipe, Settle, TaskShape
  <2>2. JobOf(t)' = j
    BY <1>1, <1>6, SameJob DEF AtStep, RunJob, GateCancelled, SkipStep, EnterStep, NoFinalPath,
       NoMoreSteps, SetStatus, SlotTaken, Work, WorkCancelled, WorkFailed, DownloadOk,
       TranscodeOk, OrganizeOk, ImportOk, Tidy, Wipe, Settle, JobOf
  <2>3. step[t] >= Import => disk'[j] \in Organized
    BY <1>2, <2>1, VideoStaysStep DEF PlacedByOrganize
  <2>4. pc'[t] = "checkpoint" /\ step[t] = Organize => disk'[j] \in Organized
    <3>1. CASE SkipStep(t)
      BY <2>1, <3>1 DEF SkipStep, StepDone, IsOrganized, Organized
    <3>2. CASE OrganizeOk(t)
      BY <1>1, <2>1, <3>2 DEF OrganizeOk, Organized, TypeOK
    <3>3. CASE ~(SkipStep(t) \/ OrganizeOk(t))
      BY <1>1, <1>6, <3>3 DEF AtStep, RunJob, GateCancelled, EnterStep, NoFinalPath, NoMoreSteps,
         SetStatus, SlotTaken, Work, WorkCancelled, WorkFailed, DownloadOk, TranscodeOk,
         ImportOk, Tidy, Wipe, Settle, End, Goto, TypeOK
    <3> QED
      BY <3>1, <3>2, <3>3
  <2> QED
    BY <2>1, <2>2, <2>3, <2>4
<1> QED
  BY <1>3, <1>4, <1>5, <1>6 DEF Task, AfterStep

\* A step of one task leaves the others alone.
LEMMA OthersSteady ==
  ASSUME TypeOK, NEW t \in Tasks, Task(t), NEW u \in Tasks \ {t}
  PROVE  Steady(u)
<1> USE DEF rowVars, fileVars, loopVars, taskVars
<1>1. CASE AtStep(t) \/ SlotTaken(t) \/ PostProcess(t) \/ PostWrite(t)
  BY <1>1 DEF AtStep, RunJob, GateCancelled, SkipStep, EnterStep, NoFinalPath, NoMoreSteps,
     SetStatus, SlotTaken, PostProcess, PostWrite, End, Goto, TypeOK, Steady, JobOf
<1>2. CASE Work(t)
  BY <1>2 DEF Work, WorkCancelled, WorkFailed, DownloadOk, TranscodeOk, OrganizeOk, ImportOk,
     End, Goto, TypeOK, Steady, JobOf
<1>3. CASE AfterStep(t)
  BY <1>3 DEF AfterStep, Checkpoint, Tidy, Wipe, Settle, Forget, End, Goto, TypeOK, Steady, JobOf
<1> QED
  BY <1>1, <1>2, <1>3 DEF Task

\* Without deletes every step keeps PlacedByOrganize and CompletedHasVideo.
LEMMA PlacedStep ==
  ASSUME IInv, PlacedByOrganize, CompletedHasVideo, [Next]_vars, "delete" \notin UserOps
  PROVE  PlacedByOrganize' /\ CompletedHasVideo'
<1> USE DEF rowVars, fileVars, loopVars, taskVars, PlacedTask
<1>1. TypeOK /\ TaskShape /\ VerdictIsLast
  BY DEF IInv
<1>2. ASSUME NEW j \in Jobs, disk[j] \in Organized
      PROVE  disk'[j] \in Organized
  BY <1>2, VideoStaysStep DEF DeleteFiles
<1>3. ASSUME NEW j \in Jobs, lcs'[j] >= Organize
      PROVE  disk'[j] \in Organized
  <2>1. CASE \E t \in Tasks : Checkpoint(t) /\ JobOf(t) = j /\ lcs'[j] = step[t]
    <3>1. disk[j] \in Organized
      BY <1>1, <1>3, <2>1 DEF Checkpoint, PlacedByOrganize, TaskShape
    <3> QED
      BY <1>2, <3>1
  <2>2. CASE lcs'[j] = lcs[j] \/ RetryImport(j)
    <3>1. lcs[j] >= Organize
      BY <1>1, <1>3, <2>2 DEF RetryImport, CanRetryImport, VerdictIsLast
    <3> QED
      BY <1>2, <3>1 DEF PlacedByOrganize
  <2>3. CASE \E t \in Tasks : Task(t) /\ ~(Checkpoint(t) /\ JobOf(t) = j /\ lcs'[j] = step[t])
    <3>1. lcs'[j] = lcs[j]
      BY <1>1, <2>3 DEF Task, AtStep, RunJob, GateCancelled, SkipStep, EnterStep, NoFinalPath,
         NoMoreSteps, SetStatus, SlotTaken, PostProcess, PostWrite, Work, WorkCancelled,
         WorkFailed, DownloadOk, TranscodeOk, OrganizeOk, ImportOk, AfterStep, Checkpoint,
         Tidy, Wipe, Settle, Forget, TypeOK
    <3> QED
      BY <2>2, <3>1
  <2>4. CASE \E i \in Jobs : Api(i) /\ ~RetryImport(j)
    <3>1. lcs'[j] = lcs[j]
      BY <1>1, <2>4 DEF Api, Create, Cancel, CancelRmtree, Retry, RetryImport, DeleteFiles,
         DeleteRow, TypeOK
    <3> QED
      BY <2>2, <3>1
  <2>5. CASE Loop \/ Crash \/ Recover \/ UNCHANGED vars
    <3>1. lcs'[j] = lcs[j]
      BY <2>5 DEF Loop, LoopWake, Claim, ClaimNothing, Crash, Recover, vars
    <3> QED
      BY <2>2, <3>1
  <2> QED
    BY <2>1, <2>2, <2>3, <2>4, <2>5 DEF Next
<1>4. ASSUME NEW u \in Tasks
      PROVE  PlacedTask(u)'
  <2>1. CASE \E t \in Tasks : Task(t)
    BY <1>1, <2>1, MoverKeepsPlaced, OthersSteady, SteadyKeepsPlaced
  <2>2. ASSUME NEW j \in Jobs, NEW t \in Tasks, Claim(j, t)
        PROVE  PlacedTask(u)'
    <3>1. CASE u # t
      BY <1>1, <2>2, <3>1, SteadyKeepsPlaced DEF Claim, Steady, JobOf, TypeOK
    <3>2. CASE u = t
      <4>1. /\ pc'[u] = "start" /\ step'[u] = lcs[j] + 1 /\ JobOf(u)' = j
            /\ result'[u] = "none" /\ UNCHANGED <<disk, lcs>>
        BY <1>1, <2>2, <3>2 DEF Claim, ResumeAt, TypeOK, JobOf, TaskShape, Ending
      <4> QED
        BY <1>1, <4>1 DEF PlacedByOrganize, TypeOK
    <3> QED
      BY <3>1, <3>2
  <2>3. CASE LoopWake \/ ClaimNothing \/ Recover \/ UNCHANGED vars \/ \E j \in Jobs : Api(j)
    <3>1. Steady(u)
      BY <2>3 DEF LoopWake, ClaimNothing, Recover, vars, Api, Create, Cancel, CancelRmtree,
         Retry, RetryImport, DeleteFiles, DeleteRow, Steady, JobOf
    <3> QED
      BY <3>1, SteadyKeepsPlaced
  <2>4. CASE Crash
    BY <2>4 DEF Crash, EachTask
  <2> QED
    BY <2>1, <2>2, <2>3, <2>4 DEF Next, Loop
<1>5. ASSUME NEW j \in Jobs, status'[j] = "completed"
      PROVE  disk'[j] \in Organized
  <2>1. CASE status[j] = "completed"
    BY <1>2, <2>1 DEF CompletedHasVideo
  <2>2. CASE \E t \in Tasks : Settle(t) /\ JobOf(t) = j /\ result[t] = "completed"
    <3>1. disk[j] \in Organized
      BY <1>1, <2>2 DEF Settle, PlacedByOrganize, PlacedTask, TaskShape
    <3> QED
      BY <1>2, <3>1
  <2>3. ASSUME NEW t \in Tasks, Task(t), ~(JobOf(t) = j /\ result[t] = "completed")
        PROVE  status[j] = "completed"
    BY <1>1, <1>5, <2>3 DEF Task, AtStep, RunJob, GateCancelled, SkipStep, EnterStep, NoFinalPath,
       NoMoreSteps, SetStatus, SlotTaken, PostProcess, PostWrite, Work, WorkCancelled,
       WorkFailed, DownloadOk, TranscodeOk, OrganizeOk, ImportOk, AfterStep, Checkpoint,
       Tidy, Wipe, Settle, Forget, WriteStatus, StepStatus, TypeOK
  <2>4. ASSUME NEW t \in Tasks, Task(t), ~Settle(t)
        PROVE  status[j] = "completed"
    BY <1>1, <1>5, <2>4 DEF Task, AtStep, RunJob, GateCancelled, SkipStep, EnterStep, NoFinalPath,
       NoMoreSteps, SetStatus, SlotTaken, PostProcess, PostWrite, Work, WorkCancelled,
       WorkFailed, DownloadOk, TranscodeOk, OrganizeOk, ImportOk, AfterStep, Checkpoint,
       Tidy, Wipe, Forget, WriteStatus, StepStatus, TypeOK
  <2>5. CASE \E i \in Jobs : Api(i)
    <3>1. status[j] = "completed"
      BY <1>1, <1>5, <2>5 DEF Api, Create, Requeue, Cancel, CancelRmtree, Retry, RetryImport,
         DeleteFiles, DeleteRow, TypeOK
    <3> QED
      BY <2>1, <3>1
  <2>6. CASE Loop \/ Crash \/ Recover \/ UNCHANGED vars
    <3>1. status[j] = "completed"
      BY <1>1, <1>5, <2>6 DEF Loop, LoopWake, Claim, ClaimNothing, Crash, Recover, vars, TypeOK
    <3> QED
      BY <2>1, <3>1
  <2> QED
    BY <2>1, <2>2, <2>3, <2>4, <2>5, <2>6 DEF Next
<1> QED
  BY <1>3, <1>4, <1>5 DEF PlacedByOrganize, CompletedHasVideo

\* PlacedByOrganize and CompletedHasVideo are inductive together, on top of IInv.
PlacedInv == IInv /\ PlacedByOrganize /\ CompletedHasVideo

\* Where nobody deletes files, every reachable state satisfies all three.
LEMMA PlacedInvariant ==
  ASSUME "delete" \notin UserOps
  PROVE  Spec => []PlacedInv
<1>1. Init => PlacedInv
  <2>1. Init => IInv
    BY InvInit
  <2>2. Init => PlacedByOrganize /\ CompletedHasVideo
    BY DEF Init, EachTask, PlacedByOrganize, PlacedTask, CompletedHasVideo
  <2> QED
    BY <2>1, <2>2 DEF PlacedInv
<1>2. PlacedInv /\ [Next]_vars => PlacedInv'
  BY InvStep, PlacedStep DEF PlacedInv
<1> QED
  BY <1>1, <1>2, PTL DEF Spec

\* Where nobody deletes files, a row or a task that has the organize step behind it
\* has a video in completed/, whatever restarts and rmtrees came in between.
THEOREM OrganizedIsPlaced ==
  ASSUME "delete" \notin UserOps
  PROVE  Spec => []PlacedByOrganize
<1>1. PlacedInv => PlacedByOrganize
  BY DEF PlacedInv
<1> QED
  BY <1>1, PlacedInvariant, PTL

\* Where nobody deletes files, a job the row calls completed has its video in
\* completed/, whatever was cancelled, resumed, retried or restarted before (_finish).
THEOREM CompletedIsPlaced ==
  ASSUME "delete" \notin UserOps
  PROVE  Spec => []CompletedHasVideo
<1>1. PlacedInv => CompletedHasVideo
  BY DEF PlacedInv
<1> QED
  BY <1>1, PlacedInvariant, PTL

---------------------------------------------------------------------------
(* The contract                                                            *)

Doing  == [j \in Jobs |-> StepsOf(j)]
Videos == [j \in Jobs |-> VideoOf(j)]
Seen   == <<WaitingJobs, Doing, lcs, Videos>>

NoneDeleted == \A j \in Jobs : status[j] # "deleted"

\* The inductive invariant of this section. What deletes leave of a video is not known.
ContractInv ==
    /\ IInv
    /\ "delete" \notin UserOps => PlacedByOrganize /\ CompletedHasVideo /\ NoneDeleted

\* Only a delete takes a row away.
LEMMA NoneDeletedStep ==
  ASSUME IInv, NoneDeleted, [Next]_vars, "delete" \notin UserOps
  PROVE  NoneDeleted'
<1> USE DEF rowVars, fileVars, loopVars, taskVars, NoneDeleted
<1>1. TypeOK /\ TaskShape
  BY DEF IInv
<1>2. ASSUME NEW t \in Tasks, Task(t)
      PROVE  NoneDeleted'
  <2>1. CASE Settle(t)
    BY <1>1, <2>1 DEF Settle, WriteStatus, TaskShape, Verdicts, TypeOK
  <2>2. CASE SetStatus(t) \/ PostWrite(t)
    BY <1>1, <2>2 DEF SetStatus, PostWrite, WriteStatus, StepStatus, TypeOK
  <2>3. CASE UNCHANGED status
    BY <2>3
  <2> QED
    BY <1>2, <2>1, <2>2, <2>3 DEF Task, AtStep, RunJob, GateCancelled, SkipStep, EnterStep,
       NoFinalPath, NoMoreSteps, SlotTaken, PostProcess, Work, WorkCancelled, WorkFailed,
       DownloadOk, TranscodeOk, OrganizeOk, ImportOk, AfterStep, Checkpoint, Tidy, Wipe, Forget
<1>3. ASSUME NEW j \in Jobs, Api(j)
      PROVE  NoneDeleted'
  BY <1>1, <1>3 DEF Api, Create, Requeue, Cancel, CancelRmtree, Retry, RetryImport,
     DeleteFiles, DeleteRow, TypeOK
<1>4. CASE Loop \/ Crash \/ Recover \/ UNCHANGED vars
  BY <1>1, <1>4 DEF Loop, LoopWake, Claim, ClaimNothing, Crash, Recover, vars, TypeOK
<1> QED
  BY <1>2, <1>3, <1>4 DEF Next

\* The invariant of this section holds throughout.
LEMMA ContractInvariant == Spec => []ContractInv
<1>1. Init => ContractInv
  <2>1. Init => NoneDeleted
    BY DEF Init, NoneDeleted
  <2>2. Init => PlacedByOrganize /\ CompletedHasVideo
    BY DEF Init, EachTask, PlacedByOrganize, PlacedTask, CompletedHasVideo
  <2> QED
    BY <2>1, <2>2, InvInit DEF ContractInv
<1>2. ContractInv /\ [Next]_vars => ContractInv'
  <2> SUFFICES ASSUME ContractInv, [Next]_vars PROVE ContractInv'
    OBVIOUS
  <2>1. IInv'
    BY InvStep DEF ContractInv
  <2>2. "delete" \notin UserOps => (PlacedByOrganize /\ CompletedHasVideo /\ NoneDeleted)'
    BY PlacedStep, NoneDeletedStep DEF ContractInv
  <2> QED
    BY <2>1, <2>2 DEF ContractInv
<1> QED
  BY <1>1, <1>2, PTL DEF Spec

\* Where no task moves, no step does.
LEMMA StepsStay ==
  ASSUME TasksStill
  PROVE  Doing' = Doing
<1>1. \A j \in Jobs : StepsOf(j)' = StepsOf(j)
  BY StillMeansSame DEF TasksStill, StepsOf, JobOf, Worker
<1> QED
  BY <1>1 DEF Doing

\* A job without a worker is at no step, one with a worker is at the worker's.
LEMMA WorkersStep ==
  ASSUME OneLiveTask, NEW t \in Tasks, Worker(t)
  PROVE  StepsOf(JobOf(t)) = {step[t]}
<1>1. \A u \in Tasks : Worker(u) /\ JobOf(u) = JobOf(t) => u = t
  BY WorkerIsLive DEF OneLiveTask
<1> QED
  BY <1>1 DEF StepsOf

\* A step of another task leaves a task's step and job alone.
LEMMA OthersStay ==
  ASSUME TypeOK, NEW t \in Tasks, Task(t), NEW u \in Tasks, u # t
  PROVE  JobOf(u)' = JobOf(u) /\ step'[u] = step[u] /\ (Worker(u)' <=> Worker(u))
<1>1. Steady(u)
  BY OthersSteady
<1> QED
  BY <1>1 DEF Steady, Worker

\* A task without a step before and after its own step changes no job's steps.
LEMMA IdlerMoves ==
  ASSUME TypeOK, NEW t \in Tasks, Task(t), ~Worker(t), ~Worker(t)'
  PROVE  Doing' = Doing
<1>1. ASSUME NEW i \in Jobs, NEW u \in Tasks
      PROVE  /\ Worker(u)' /\ JobOf(u)' = i <=> Worker(u) /\ JobOf(u) = i
             /\ Worker(u) => step'[u] = step[u]
  <2>1. CASE u = t
    BY <2>1
  <2>2. CASE u # t
    BY <2>2, OthersStay
  <2> QED
    BY <2>1, <2>2
<1> QED
  BY <1>1 DEF Doing, StepsOf

\* A worker's step moves no job but its own; that job is where the worker is, before and
\* after, or without a step if the worker has none left.
LEMMA WorkerMoves ==
  ASSUME TypeOK, OneLiveTask, NEW t \in Tasks, Task(t), Worker(t),
         NEW j \in Jobs, JobOf(t) = j, JobOf(t)' = j
  PROVE  /\ Doing[j] = {step[t]}
         /\ Worker(t)' => Doing' = [Doing EXCEPT ![j] = {step'[t]}]
         /\ ~Worker(t)' => Doing' = [Doing EXCEPT ![j] = {}]
<1>1. \A i \in Jobs \ {j} : StepsOf(i)' = StepsOf(i)
  <2> SUFFICES ASSUME NEW i \in Jobs \ {j}
               PROVE  StepsOf(i)' = StepsOf(i)
    OBVIOUS
  <2>1. ASSUME NEW u \in Tasks
        PROVE  /\ Worker(u)' /\ JobOf(u)' = i <=> Worker(u) /\ JobOf(u) = i
               /\ JobOf(u) = i => step'[u] = step[u]
    <3>1. CASE u = t
      BY <3>1
    <3>2. CASE u # t
      BY <3>2, OthersStay
    <3> QED
      BY <3>1, <3>2
  <2> QED
    BY <2>1 DEF StepsOf
<1>2. StepsOf(j) = {step[t]}
  BY WorkersStep
<1>3. ASSUME NEW u \in Tasks, Worker(u)', JobOf(u)' = j
      PROVE  u = t
  <2> SUFFICES ASSUME u # t PROVE FALSE
    OBVIOUS
  <2>1. Worker(u) /\ JobOf(u) = j
    BY <1>3, OthersStay
  <2> QED
    BY <2>1, WorkerIsLive DEF OneLiveTask
<1>4. Worker(t)' => StepsOf(j)' = {step'[t]}
  BY <1>3 DEF StepsOf
<1>5. ~Worker(t)' => StepsOf(j)' = {}
  BY <1>3 DEF StepsOf
<1> QED
  BY <1>1, <1>2, <1>4, <1>5 DEF Doing

---------------------------------------------------------------------------
(* The steps of the contract, from what they do to what the jobs see       *)

\* A worker gone, and nothing else, is seen as Leave.
LEMMA SeenLeave ==
  ASSUME NEW j \in Jobs, Doing[j] # {}, Doing' = [Doing EXCEPT ![j] = {}],
         UNCHANGED <<WaitingJobs, lcs, Videos>>
  PROVE  Contract!Next
<1>1. Contract!Leave(j)
  BY DEF Contract!Leave, Doing, Videos
<1> QED
  BY <1>1 DEF Contract!Next

\* A job out of the queue, and nothing else, is seen as Withdraw.
LEMMA SeenWithdraw ==
  ASSUME NEW j \in WaitingJobs, WaitingJobs' = WaitingJobs \ {j},
         UNCHANGED <<Doing, lcs, Videos>>
  PROVE  Contract!Next
<1>1. Contract!Withdraw(j)
  BY DEF Contract!Withdraw, WaitingJobs, Doing, Videos
<1> QED
  BY <1>1 DEF Contract!Next, WaitingJobs

\* A job without a worker put into the queue is seen as Enqueue.
LEMMA SeenEnqueue ==
  ASSUME NEW j \in Jobs, Doing[j] = {}, WaitingJobs' = WaitingJobs \cup {j},
         \/ UNCHANGED lcs
         \/ lcs[j] = Import /\ lcs' = [lcs EXCEPT ![j] = Organize],
         UNCHANGED <<Doing, Videos>>
  PROVE  Contract!Next
<1>1. Contract!Enqueue(j)
  BY DEF Contract!Enqueue, Contract!Last, Contract!Organize, Doing, Videos
<1> QED
  BY <1>1 DEF Contract!Next

\* A waiting job that gets a worker at its next step is seen as Begin.
LEMMA SeenBegin ==
  ASSUME NEW j \in WaitingJobs, Doing[j] = {}, WaitingJobs' = WaitingJobs \ {j},
         Doing' = [Doing EXCEPT ![j] = {lcs[j] + 1} \cap Steps],
         UNCHANGED <<lcs, Videos>>
  PROVE  Contract!Next
<1>1. Contract!Begin(j)
  BY DEF Contract!Begin, Contract!After, Contract!Steps, Contract!Download,
     Contract!Last, WaitingJobs, Doing, Videos
<1> QED
  BY <1>1 DEF Contract!Next, WaitingJobs

\* A video one place further on, by the worker at that step, is seen as Work.
LEMMA SeenWork ==
  ASSUME NEW j \in Jobs,
         \/ /\ Download \in Doing[j] /\ Videos[j] = "none"
            /\ Videos' = [Videos EXCEPT ![j] = "folder"]
         \/ /\ Organize \in Doing[j] /\ Videos[j] = "folder"
            /\ Videos' = [Videos EXCEPT ![j] = "library"],
         UNCHANGED <<WaitingJobs, lcs, Doing>>
  PROVE  Contract!Next
<1>1. Contract!Work(j)
  BY DEF Contract!Work, Contract!Download, Contract!Organize, Doing, Videos
<1> QED
  BY <1>1 DEF Contract!Next

\* A recorded step and the worker at the next one are seen as Record.
LEMMA SeenRecord ==
  ASSUME NEW j \in Jobs, NEW k \in Doing[j],
         k = Organize => Videos[j] = "library" \/ "delete" \in UserOps,
         \/ lcs' = [lcs EXCEPT ![j] = k]
         \/ "delete" \in UserOps /\ UNCHANGED lcs,
         Doing' = [Doing EXCEPT ![j] = {k + 1} \cap Steps],
         UNCHANGED <<WaitingJobs, Videos>>
  PROVE  Contract!Next
<1>1. Contract!Record(j)
  BY DEF Contract!Record, Contract!After, Contract!Steps, Contract!Download,
     Contract!Last, Contract!Organize, Doing, Videos
<1> QED
  BY <1>1 DEF Contract!Next

\* A video gone from the folder, or deleted, is seen as Clean.
LEMMA SeenClean ==
  ASSUME NEW j \in Jobs, Videos[j] = "folder" \/ "delete" \in UserOps,
         Videos' = [Videos EXCEPT ![j] = "none"],
         UNCHANGED <<WaitingJobs, lcs, Doing>>
  PROVE  Contract!Next
<1>1. Contract!Clean(j)
  BY DEF Contract!Clean, Doing, Videos
<1> QED
  BY <1>1 DEF Contract!Next

---------------------------------------------------------------------------
(* Each step of the queue is a step of the contract, or is not seen        *)

\* A video stays where it is seen while its job's files do.
LEMMA VideosStill ==
  ASSUME UNCHANGED disk
  PROVE  UNCHANGED Videos
  BY DEF Videos, VideoOf

\* A task that can still write to its job finds a row that does not wait.
LEMMA LiveIsNotWaiting ==
  ASSUME IInv, NEW t \in Tasks, Live(t)
  PROVE  JobOf(t) \notin WaitingJobs
  BY DEF IInv, LiveRow, WaitingJobs, HasRow, NoRow

\* A write of a status other than `queued` to a row that does not wait moves no job
\* into the queue or out of it.
LEMMA WriteIsNotSeen ==
  ASSUME TypeOK, NEW j, j \notin WaitingJobs, NEW s, s # "queued", WriteStatus(j, s)
  PROVE  UNCHANGED WaitingJobs
  BY DEF WriteStatus, WaitingJobs, TypeOK

\* The steps at the gate, for a slot and for the status, and those beside the download.
LEMMA AtStepKeepsContract ==
  ASSUME IInv, NEW t \in Tasks, AtStep(t) \/ SlotTaken(t) \/ PostProcess(t) \/ PostWrite(t)
  PROVE  Contract!Next \/ UNCHANGED Seen
<1> USE DEF rowVars, fileVars, loopVars, taskVars
<1>1. TypeOK /\ TaskShape /\ OneLiveTask /\ Task(t)
  BY DEF IInv, Task
<1>2. UNCHANGED <<lcs, disk>>
  BY DEF AtStep, RunJob, GateCancelled, SkipStep, EnterStep, NoFinalPath, NoMoreSteps, SetStatus,
     SlotTaken, PostProcess, PostWrite
<1>3. UNCHANGED <<lcs, Videos>>
  BY <1>2, VideosStill
<1>4. JobOf(t)' = JobOf(t) /\ step'[t] = step[t] /\ pc[t] # "idle" /\ JobOf(t) \in Jobs
  <2>1. JobOf(t)' = JobOf(t)
    BY <1>1, SameJob DEF AtStep, RunJob, GateCancelled, SkipStep, EnterStep, NoFinalPath,
       NoMoreSteps, SetStatus, SlotTaken, PostProcess, PostWrite, JobOf
  <2>2. pc[t] # "idle"
    BY <1>1 DEF AtStep, RunJob, GateCancelled, SkipStep, EnterStep, NoFinalPath, NoMoreSteps,
       AtGate, SetStatus, SlotTaken, PostProcess, PostWrite, TaskShape
  <2>3. step'[t] = step[t]
    BY DEF AtStep, RunJob, GateCancelled, SkipStep, EnterStep, NoFinalPath, NoMoreSteps,
       SetStatus, SlotTaken, PostProcess, PostWrite
  <2> QED
    BY <1>1, <2>1, <2>2, <2>3 DEF TaskShape
<1>5. CASE Worker(t) /\ ~Worker(t)' /\ UNCHANGED status
  <2>1. Doing[JobOf(t)] # {} /\ Doing' = [Doing EXCEPT ![JobOf(t)] = {}]
    BY <1>1, <1>4, <1>5, WorkerMoves
  <2>2. UNCHANGED WaitingJobs
    BY <1>5 DEF WaitingJobs
  <2> QED
    BY <1>3, <1>4, <2>1, <2>2, SeenLeave
<1>6. CASE (Worker(t)' <=> Worker(t)) /\ UNCHANGED WaitingJobs
  <2>1. CASE Worker(t)
    <3>1. Doing[JobOf(t)] = {step[t]} /\ Doing' = [Doing EXCEPT ![JobOf(t)] = {step[t]}]
      BY <1>1, <1>4, <1>6, <2>1, WorkerMoves
    <3>2. Doing' = Doing
      BY <3>1 DEF Doing
    <3> QED
      BY <1>3, <1>6, <3>2 DEF Seen
  <2>2. CASE ~Worker(t)
    BY <1>1, <1>3, <1>6, <2>2, IdlerMoves DEF Seen
  <2> QED
    BY <2>1, <2>2
<1>0. CASE RunJob(t)
  <2>1. UNCHANGED status /\ (Worker(t)' => Worker(t))
    BY <1>1, <1>0 DEF RunJob, Goto, TypeOK, Worker, Working
  <2> QED
    BY <1>5, <1>6, <2>1 DEF WaitingJobs
<1>7. CASE GateCancelled(t) \/ NoFinalPath(t)
  <2>1. Worker(t) /\ ~Worker(t)' /\ UNCHANGED status
    BY <1>1, <1>7 DEF GateCancelled, NoFinalPath, AtGate, End, Goto, TypeOK, Worker, Working
  <2> QED
    BY <1>5, <2>1
<1>8. CASE SkipStep(t) \/ EnterStep(t) \/ NoMoreSteps(t) \/ PostProcess(t)
  <2>1. (Worker(t)' <=> Worker(t)) /\ UNCHANGED status
    BY <1>1, <1>8 DEF SkipStep, EnterStep, NoMoreSteps, PostProcess, AtGate, End, Goto, TypeOK,
       Worker, Working
  <2> QED
    BY <1>6, <2>1 DEF WaitingJobs
<1>9. CASE SlotTaken(t)
  <2>1. Worker(t) /\ UNCHANGED status
    BY <1>1, <1>9 DEF SlotTaken, TaskShape, Worker, Working
  <2> QED
    BY <1>5, <1>6, <2>1 DEF WaitingJobs
<1>10. CASE SetStatus(t)
  <2>1. Worker(t) /\ Worker(t)'
    BY <1>1, <1>10 DEF SetStatus, Goto, TypeOK, TaskShape, Worker, Working
  <2>2. UNCHANGED WaitingJobs
    BY <1>1, <1>10, <2>1, WorkerIsLive, LiveIsNotWaiting, WriteIsNotSeen DEF SetStatus, StepStatus
  <2> QED
    BY <1>6, <2>1, <2>2
<1>11. CASE PostWrite(t)
  <2>1. Worker(t)' <=> Worker(t)
    BY <1>11 DEF PostWrite, Worker
  <2>2. Live(t)
    <3>1. post[t] = "due" /\ step[t] = Download
      BY <1>1, <1>11 DEF PostWrite, TaskShape
    <3>2. pc[t] \in Working \cup Ending
      BY <1>1, <3>1 DEF TaskShape, TypeOK, Pcs
    <3> QED
      BY <1>1, <3>1, <3>2 DEF Live, Worker, TaskShape
  <2>3. UNCHANGED WaitingJobs
    BY <1>1, <1>11, <2>2, LiveIsNotWaiting, WriteIsNotSeen DEF PostWrite
  <2> QED
    BY <1>6, <2>1, <2>3
<1> QED
  BY <1>0, <1>7, <1>8, <1>9, <1>10, <1>11 DEF AtStep

\* The work of a step: it fails or sees a cancel, or brings the video one place on.
LEMMA WorkKeepsContract ==
  ASSUME IInv, NEW t \in Tasks, Work(t)
  PROVE  Contract!Next \/ UNCHANGED Seen
<1> USE DEF rowVars, fileVars, loopVars, taskVars
<1> DEFINE j == JobOf(t)
<1>1. TypeOK /\ TaskShape /\ OneLiveTask /\ Task(t)
  BY DEF IInv, Task
<1>2. Worker(t) /\ pc[t] = "work" /\ j \in Jobs /\ UNCHANGED <<step, lcs, status>>
  BY <1>1 DEF Work, WorkCancelled, WorkFailed, DownloadOk, TranscodeOk, OrganizeOk, ImportOk,
     TaskShape, Worker, Working
<1>3. JobOf(t)' = j
  BY <1>1, SameJob DEF Work, WorkCancelled, WorkFailed, DownloadOk, TranscodeOk, OrganizeOk,
     ImportOk, JobOf
<1>4. UNCHANGED WaitingJobs
  BY <1>2 DEF WaitingJobs
<1>5. CASE WorkCancelled(t) \/ WorkFailed(t)
  <2>1. ~Worker(t)' /\ UNCHANGED disk
    BY <1>1, <1>5 DEF WorkCancelled, WorkFailed, End, Goto, TypeOK, Worker, Working
  <2>2. Doing[j] # {} /\ Doing' = [Doing EXCEPT ![j] = {}]
    BY <1>1, <1>2, <1>3, <2>1, WorkerMoves
  <2> QED
    BY <1>2, <1>4, <2>1, <2>2, SeenLeave, VideosStill
<1>6. CASE DownloadOk(t) \/ TranscodeOk(t) \/ OrganizeOk(t) \/ ImportOk(t)
  <2>1. Worker(t)'
    BY <1>1, <1>2, <1>6 DEF DownloadOk, TranscodeOk, OrganizeOk, ImportOk, Goto, TypeOK,
       Worker, Working
  <2>2. Doing[j] = {step[t]} /\ Doing' = [Doing EXCEPT ![j] = {step[t]}]
    BY <1>1, <1>2, <1>3, <2>1, WorkerMoves
  <2>3. Doing' = Doing
    BY <2>2 DEF Doing
  <2>4. CASE DownloadOk(t)
    <3>1. step[t] = Download /\ disk[j] \notin Organized
      BY <1>2, <2>4 DEF DownloadOk, IInv, VideoAfterTranscode
    <3>2. Videos[j] \in {"none", "folder"}
      BY <1>2, <3>1 DEF Videos, VideoOf
    <3>3. Videos' = [Videos EXCEPT ![j] = "folder"]
      BY <1>1, <1>2, <2>4 DEF DownloadOk, Videos, VideoOf, Organized, TypeOK
    <3>4. Videos[j] = "folder" => Videos' = Videos
      BY <3>3 DEF Videos
    <3> QED
      BY <1>2, <1>4, <2>2, <2>3, <3>1, <3>2, <3>3, <3>4, SeenWork DEF Seen
  <2>5. CASE TranscodeOk(t)
    <3>1. Videos' = Videos
      BY <1>1, <1>2, <2>5 DEF TranscodeOk, Videos, VideoOf, Organized, TypeOK
    <3> QED
      BY <1>2, <1>4, <2>3, <3>1 DEF Seen
  <2>6. CASE OrganizeOk(t)
    <3>1. step[t] = Organize /\ Videos[j] \in {"folder", "library"}
      BY <1>2, <2>6 DEF OrganizeOk, Videos, VideoOf, Organized
    <3>2. Videos' = [Videos EXCEPT ![j] = "library"]
      BY <1>1, <1>2, <2>6 DEF OrganizeOk, Videos, VideoOf, Organized, TypeOK
    <3>3. Videos[j] = "library" => Videos' = Videos
      BY <3>2 DEF Videos
    <3> QED
      BY <1>2, <1>4, <2>2, <2>3, <3>1, <3>2, <3>3, SeenWork DEF Seen
  <2>7. CASE ImportOk(t)
    <3>1. Videos' = Videos
      BY <2>7, VideosStill DEF ImportOk
    <3> QED
      BY <1>2, <1>4, <2>3, <3>1 DEF Seen
  <2> QED
    BY <1>6, <2>4, <2>5, <2>6, <2>7
<1> QED
  BY <1>5, <1>6 DEF Work

\* An rmtree of a job's folder is seen where the video was in it.
LEMMA RmtreeIsSeen ==
  ASSUME TypeOK, NEW j \in Jobs, disk' = [disk EXCEPT ![j] = Rmtree(@)],
         UNCHANGED <<WaitingJobs, lcs, Doing>>
  PROVE  Contract!Next \/ UNCHANGED Seen
<1>1. disk[j] \in Organized => Videos' = Videos
  BY DEF Videos, VideoOf, Rmtree, Organized, TypeOK
<1>2. disk[j] \notin Organized => Videos' = [Videos EXCEPT ![j] = "none"]
  BY DEF Videos, VideoOf, Rmtree, Organized, TypeOK
<1>3. disk[j] = "empty" => Videos' = Videos
  BY <1>2 DEF Videos, VideoOf, Organized
<1>4. disk[j] \notin Organized \cup {"empty"} => Videos[j] = "folder"
  BY DEF Videos, VideoOf
<1> QED
  BY <1>1, <1>2, <1>3, <1>4, SeenClean DEF Seen

\* The checkpoint records the step its task is at: an organize that is recorded has put
\* the video in the library, and a row that takes no record was deleted.
LEMMA CheckpointKeepsContract ==
  ASSUME ContractInv, NEW t \in Tasks, Checkpoint(t)
  PROVE  Contract!Next
<1> USE DEF rowVars, fileVars, loopVars, taskVars
<1> DEFINE j == JobOf(t)
           k == step[t]
<1>1. TypeOK /\ TaskShape /\ OneLiveTask /\ LiveRow /\ Task(t)
  BY DEF ContractInv, IInv, Task, AfterStep
<1>2. Worker(t) /\ j \in Jobs /\ k \in Steps /\ JobOf(t)' = j
  BY <1>1 DEF Checkpoint, TaskShape, Worker, Working, JobOf
<1>3. step'[t] = k + 1 /\ pc'[t] \in Working
  BY <1>1 DEF Checkpoint, Goto, TypeOK, Working
<1>4. Doing[j] = {k}
  BY <1>1, <1>2, WorkerMoves
<1>5. Doing' = [Doing EXCEPT ![j] = {k + 1} \cap Steps]
  <2>1. CASE k + 1 \in Steps
    <3>1. Worker(t)'
      BY <1>3, <2>1 DEF Worker
    <3>2. {k + 1} \cap Steps = {step'[t]}
      BY <1>3, <2>1
    <3> QED
      BY <1>1, <1>2, <3>1, <3>2, WorkerMoves
  <2>2. CASE k + 1 \notin Steps
    <3>1. ~Worker(t)'
      BY <1>3, <2>2 DEF Worker
    <3>2. {k + 1} \cap Steps = {}
      BY <2>2
    <3> QED
      BY <1>1, <1>2, <3>1, <3>2, WorkerMoves
  <2> QED
    BY <2>1, <2>2
<1>6. UNCHANGED <<WaitingJobs, Videos>>
  BY VideosStill DEF Checkpoint, WaitingJobs
<1>7. k = Organize => Videos[j] = "library" \/ "delete" \in UserOps
  BY <1>2 DEF Checkpoint, ContractInv, PlacedByOrganize, PlacedTask, Videos, VideoOf
<1>8. \/ lcs' = [lcs EXCEPT ![j] = k]
      \/ "delete" \in UserOps /\ UNCHANGED lcs
  <2>1. CASE HasRow(j)
    BY <2>1 DEF Checkpoint
  <2>2. CASE ~HasRow(j)
    <3>1. status[j] # "absent"
      BY <1>1 DEF Checkpoint, LiveRow
    <3>2. status[j] = "deleted"
      BY <2>2, <3>1 DEF HasRow, NoRow
    <3> QED
      BY <1>2, <2>2, <3>2 DEF Checkpoint, ContractInv, NoneDeleted
  <2> QED
    BY <2>1, <2>2
<1> QED
  BY <1>2, <1>4, <1>5, <1>6, <1>7, <1>8, SeenRecord

\* After a step: its record, the rmtrees, the verdict and the end of the task.
LEMMA AfterStepKeepsContract ==
  ASSUME ContractInv, NEW t \in Tasks, AfterStep(t)
  PROVE  Contract!Next \/ UNCHANGED Seen
<1> USE DEF rowVars, fileVars, loopVars, taskVars
<1> DEFINE j == JobOf(t)
<1>1. IInv /\ TypeOK /\ TaskShape /\ OneLiveTask /\ Task(t)
  BY DEF ContractInv, IInv, Task
<1>2. CASE Checkpoint(t)
  BY <1>2, CheckpointKeepsContract
<1>3. CASE Tidy(t) \/ Wipe(t)
  <2>1. j \in Jobs /\ JobOf(t)' = j /\ step'[t] = step[t] /\ UNCHANGED <<lcs, status>>
    BY <1>1, <1>3 DEF Tidy, Wipe, TaskShape, JobOf
  <2>2. Worker(t)' <=> Worker(t)
    BY <1>1, <1>3 DEF Tidy, Wipe, Goto, TypeOK, Worker, Working
  <2>3. Doing' = Doing
    <3>1. CASE Worker(t)
      <4>1. Doing[j] = {step[t]} /\ Doing' = [Doing EXCEPT ![j] = {step[t]}]
        BY <1>1, <2>1, <2>2, <3>1, WorkerMoves
      <4> QED
        BY <4>1 DEF Doing
    <3>2. CASE ~Worker(t)
      BY <1>1, <2>2, <3>2, IdlerMoves
    <3> QED
      BY <3>1, <3>2
  <2>4. UNCHANGED WaitingJobs
    BY <2>1 DEF WaitingJobs
  <2>5. disk' = [disk EXCEPT ![j] = Rmtree(@)]
    BY <1>3 DEF Tidy, Wipe
  <2> QED
    BY <1>1, <2>1, <2>3, <2>4, <2>5, RmtreeIsSeen
<1>4. CASE Settle(t)
  <2>1. ~Worker(t) /\ ~Worker(t)'
    BY <1>1, <1>4 DEF Settle, End, Goto, TypeOK, Worker, Working
  <2>2. UNCHANGED <<Doing, lcs, Videos>>
    BY <1>1, <1>4, <2>1, IdlerMoves, VideosStill DEF Settle
  <2>3. j \in Jobs /\ result[t] # "queued" /\ WriteStatus(j, result[t])
    BY <1>1, <1>4 DEF Settle, TaskShape, Verdicts
  <2>4. CASE j \in WaitingJobs
    <3>1. WaitingJobs' = WaitingJobs \ {j}
      BY <1>1, <2>3, <2>4 DEF WaitingJobs, WriteStatus, TypeOK, HasRow, NoRow
    <3> QED
      BY <2>2, <2>4, <3>1, SeenWithdraw
  <2>5. CASE j \notin WaitingJobs
    BY <1>1, <2>2, <2>3, <2>5, WriteIsNotSeen DEF Seen
  <2> QED
    BY <2>4, <2>5
<1>5. CASE Forget(t)
  <2>1. ~Worker(t) /\ ~Worker(t)'
    BY <1>1, <1>5 DEF Forget, Goto, TypeOK, Worker, Working
  <2>2. UNCHANGED <<Doing, lcs, Videos, WaitingJobs>>
    BY <1>1, <1>5, <2>1, IdlerMoves, VideosStill DEF Forget, WaitingJobs
  <2> QED
    BY <2>2 DEF Seen
<1> QED
  BY <1>2, <1>3, <1>4, <1>5 DEF AfterStep

\* A claim begins the step after the last that was recorded, on a job without a worker.
LEMMA LoopKeepsContract ==
  ASSUME IInv, Loop
  PROVE  Contract!Next \/ UNCHANGED Seen
<1> USE DEF rowVars, fileVars, loopVars, taskVars
<1>1. CASE LoopWake \/ ClaimNothing
  <2>1. TasksStill /\ UNCHANGED <<status, lcs, disk>>
    BY <1>1 DEF LoopWake, ClaimNothing, TasksStill
  <2> QED
    BY <2>1, StepsStay, VideosStill DEF Seen, WaitingJobs
<1>2. ASSUME NEW j \in Jobs, NEW t \in Tasks, Claim(j, t)
      PROVE  Contract!Next
  <2>1. TypeOK /\ TaskShape /\ LiveRow
    BY DEF IInv
  <2>2. j \in WaitingJobs /\ WaitingJobs' = WaitingJobs \ {j}
    BY <1>2, <2>1 DEF Claim, WaitingJobs, TypeOK
  <2>3. \A u \in Tasks : Worker(u) => JobOf(u) # j
    BY <1>2, <2>2, WorkerIsLive, LiveIsNotWaiting
  <2>4. ~Worker(t) /\ JobOf(t)' = j /\ step'[t] = lcs[j] + 1 /\ pc'[t] = "start"
    BY <1>2, <2>1 DEF Claim, ResumeAt, TypeOK, Worker, Working, JobOf
  <2>5. ASSUME NEW u \in Tasks, u # t
        PROVE  JobOf(u)' = JobOf(u) /\ step'[u] = step[u] /\ (Worker(u)' <=> Worker(u))
    BY <1>2, <2>1, <2>5 DEF Claim, TypeOK, Worker, JobOf
  <2>6. StepsOf(j) = {}
    BY <2>3 DEF StepsOf
  <2>7. \A i \in Jobs \ {j} : StepsOf(i)' = StepsOf(i)
    <3> SUFFICES ASSUME NEW i \in Jobs \ {j}
                 PROVE  StepsOf(i)' = StepsOf(i)
      OBVIOUS
    <3>1. ASSUME NEW u \in Tasks
          PROVE  /\ Worker(u)' /\ JobOf(u)' = i <=> Worker(u) /\ JobOf(u) = i
                 /\ Worker(u) => step'[u] = step[u]
      BY <2>4, <2>5
    <3> QED
      BY <3>1 DEF StepsOf
  <2>8. StepsOf(j)' = {lcs[j] + 1} \cap Steps
    <3>1. ASSUME NEW u \in Tasks
          PROVE  Worker(u)' /\ JobOf(u)' = j <=> u = t /\ lcs[j] + 1 \in Steps
      <4>1. CASE u = t
        BY <2>4, <4>1 DEF Worker, Working
      <4>2. CASE u # t
        BY <2>3, <2>5, <4>2
      <4> QED
        BY <4>1, <4>2
    <3> QED
      BY <2>4, <3>1 DEF StepsOf
  <2>9. Doing[j] = {} /\ Doing' = [Doing EXCEPT ![j] = {lcs[j] + 1} \cap Steps]
    BY <2>6, <2>7, <2>8 DEF Doing
  <2>10. UNCHANGED <<lcs, Videos>>
    BY <1>2, VideosStill DEF Claim
  <2> QED
    BY <2>2, <2>9, <2>10, SeenBegin
<1> QED
  BY <1>1, <1>2 DEF Loop

\* The calls of the API: what enters the queue has no worker.
LEMMA ApiKeepsContract ==
  ASSUME IInv, NEW j \in Jobs, Api(j)
  PROVE  Contract!Next \/ UNCHANGED Seen
<1> USE DEF rowVars, fileVars, loopVars, taskVars
<1>1. TypeOK /\ TaskShape /\ LiveRow /\ VerdictIsLast
  BY DEF IInv
<1>2. TasksStill
  BY DEF Api, Create, Cancel, CancelRmtree, Retry, RetryImport, DeleteFiles, DeleteRow,
     TasksStill
<1>3. Doing' = Doing
  BY <1>2, StepsStay
<1>4. ASSUME Requeue(j), \A u \in Tasks : Worker(u) => JobOf(u) # j
      PROVE  Doing[j] = {} /\ WaitingJobs' = WaitingJobs \cup {j}
  <2>1. Doing[j] = {}
    BY <1>4 DEF Doing, StepsOf
  <2>2. WaitingJobs' = WaitingJobs \cup {j}
    BY <1>1, <1>4 DEF Requeue, WaitingJobs, TypeOK
  <2> QED
    BY <2>1, <2>2
<1>5. CASE Create(j) \/ Retry(j)
  <2>1. \A u \in Tasks : Worker(u) => JobOf(u) # j
    BY <1>1, <1>5, WorkerIsLive DEF Create, Retry, CanRetry, LiveRow, HasRow, NoRow, Worker,
       Working
  <2>2. Requeue(j) /\ UNCHANGED <<lcs, Videos>>
    BY <1>5, VideosStill DEF Create, Retry
  <2> QED
    BY <1>3, <1>4, <2>1, <2>2, SeenEnqueue
<1>6. CASE RetryImport(j)
  <2>1. lcs[j] = Import /\ HasRow(j)
    BY <1>1, <1>6 DEF RetryImport, CanRetryImport, VerdictIsLast
  <2>2. \A u \in Tasks : Worker(u) => JobOf(u) # j
    BY <1>1, <2>1, WorkerIsLive DEF LiveRow
  <2>3. Requeue(j) /\ lcs' = [lcs EXCEPT ![j] = Organize] /\ UNCHANGED Videos
    BY <1>6, VideosStill DEF RetryImport
  <2> QED
    BY <1>3, <1>4, <2>1, <2>2, <2>3, SeenEnqueue
<1>7. ASSUME UNCHANGED <<lcs, Videos>>,
             UNCHANGED WaitingJobs \/ (j \in WaitingJobs /\ WaitingJobs' = WaitingJobs \ {j})
      PROVE  Contract!Next \/ UNCHANGED Seen
  BY <1>3, <1>7, SeenWithdraw DEF Seen
<1>8. CASE Cancel(j) \/ DeleteRow(j)
  <2>1. UNCHANGED <<lcs, Videos>>
    BY <1>8, VideosStill DEF Cancel, DeleteRow
  <2>2. UNCHANGED status \/ status' \in {[status EXCEPT ![j] = s] : s \in {"cancelled", "deleted"}}
    BY <1>8 DEF Cancel, DeleteRow
  <2>3. CASE j \in WaitingJobs
    <3>1. UNCHANGED WaitingJobs \/ WaitingJobs' = WaitingJobs \ {j}
      BY <1>1, <2>2 DEF WaitingJobs, TypeOK
    <3> QED
      BY <1>7, <2>1, <2>3, <3>1
  <2>4. CASE j \notin WaitingJobs
    <3>1. UNCHANGED WaitingJobs
      BY <1>1, <2>2, <2>4 DEF WaitingJobs, TypeOK
    <3> QED
      BY <1>7, <2>1, <3>1
  <2> QED
    BY <2>3, <2>4
<1>9. CASE CancelRmtree(j)
  <2>1. disk' = [disk EXCEPT ![j] = Rmtree(@)] /\ UNCHANGED <<lcs, WaitingJobs>>
    BY <1>9 DEF CancelRmtree, WaitingJobs
  <2> QED
    BY <1>1, <1>3, <2>1, RmtreeIsSeen
<1>10. CASE DeleteFiles(j)
  <2>1. "delete" \in UserOps /\ UNCHANGED <<lcs, WaitingJobs>>
    BY <1>10 DEF DeleteFiles, WaitingJobs
  <2>2. CASE path[j]
    <3>1. Videos' = [Videos EXCEPT ![j] = "none"]
      BY <1>1, <1>10, <2>2 DEF DeleteFiles, Videos, VideoOf, Organized, TypeOK
    <3> QED
      BY <1>3, <2>1, <3>1, SeenClean
  <2>3. CASE ~path[j]
    <3>1. disk' = [disk EXCEPT ![j] = Rmtree(@)]
      BY <1>10, <2>3 DEF DeleteFiles
    <3> QED
      BY <1>1, <1>3, <2>1, <3>1, RmtreeIsSeen
  <2> QED
    BY <2>2, <2>3
<1> QED
  BY <1>5, <1>6, <1>8, <1>9, <1>10 DEF Api

\* A stop takes every worker away, and nothing else that the jobs see.
LEMMA CrashKeepsContract ==
  ASSUME Crash
  PROVE  Contract!Next
<1>1. \A u \in Tasks : ~Worker(u)'
  BY DEF Crash, EachTask, Worker, Working
<1>2. Doing' = [j \in Jobs |-> {}]
  BY <1>1 DEF Doing, StepsOf
<1>3. UNCHANGED <<WaitingJobs, lcs, Videos>>
  BY VideosStill DEF Crash, rowVars, WaitingJobs
<1>4. Contract!Stop
  BY <1>2, <1>3 DEF Contract!Stop, Doing, Videos
<1> QED
  BY <1>4 DEF Contract!Next

\* A start puts jobs into the queue, and empties folders, while there is no worker.
LEMMA RecoverKeepsContract ==
  ASSUME IInv, Recover
  PROVE  Contract!Next
<1> DEFINE cleaned == {j \in Jobs : Interrupted(j) /\ cancelReq[j] /\ Videos[j] = "folder"}
<1>1. TypeOK
  BY DEF IInv
<1>2. \A u \in Tasks : ~Worker(u)
  BY LiveNotIdle DEF Recover, IInv, DownIsEmpty
<1>3. Doing = [j \in Jobs |-> {}]
  BY <1>2 DEF Doing, StepsOf
<1>4. TasksStill /\ UNCHANGED lcs
  BY DEF Recover, taskVars, TasksStill
<1>5. Doing' = Doing
  BY <1>4, StepsStay
<1>6. WaitingJobs' \in SUBSET Jobs /\ WaitingJobs \subseteq WaitingJobs'
  BY <1>1 DEF Recover, WaitingJobs, Interrupted, ActiveStatuses, TypeOK
<1>7. Videos' = [j \in Jobs |-> IF j \in cleaned THEN "none" ELSE Videos[j]]
  <2>1. ASSUME NEW j \in Jobs
        PROVE  VideoOf(j)' = IF j \in cleaned THEN "none" ELSE Videos[j]
    <3>1. disk'[j] = IF Interrupted(j) /\ cancelReq[j] THEN Rmtree(disk[j]) ELSE disk[j]
      BY <1>1 DEF Recover, TypeOK
    <3>2. Videos[j] = VideoOf(j)
      BY DEF Videos
    <3> QED
      BY <3>1, <3>2 DEF VideoOf, Rmtree, Organized
  <2> QED
    BY <2>1 DEF Videos
<1>8. cleaned \in SUBSET {j \in Jobs : Videos[j] = "folder"}
  OBVIOUS
<1>9. Contract!Restart
  BY <1>3, <1>4, <1>5, <1>6, <1>7, <1>8 DEF Contract!Restart, Doing, Videos
<1> QED
  BY <1>9 DEF Contract!Next

\* Every step of the queue is a step of the contract, or changes nothing that the jobs see.
LEMMA NextKeepsContract == ContractInv /\ [Next]_vars => [Contract!Next]_Seen
<1> SUFFICES ASSUME ContractInv, [Next]_vars
             PROVE  Contract!Next \/ UNCHANGED Seen
  OBVIOUS
<1>1. IInv
  BY DEF ContractInv
<1>2. CASE UNCHANGED vars
  <2>1. TasksStill /\ UNCHANGED <<status, lcs, disk>>
    BY <1>2 DEF vars, rowVars, fileVars, taskVars, TasksStill
  <2> QED
    BY <2>1, StepsStay, VideosStill DEF Seen, WaitingJobs
<1> QED
  BY <1>1, <1>2, AtStepKeepsContract, WorkKeepsContract, AfterStepKeepsContract,
     LoopKeepsContract, ApiKeepsContract, CrashKeepsContract, RecoverKeepsContract
     DEF Next, Task

\* The queue keeps its contract with every job, for every number of jobs and tasks,
\* every choice of the users' operations and every sequence of stops and starts: one
\* worker at a time, the steps in order from the checkpoint, each recorded after it is
\* done, a worker only for a job that waited (_claim, execute, _checkpoint, recover).
THEOREM QueueKeepsContract == Spec => KeepsContract
<1>1. Init => Contract!Init
  <2>1. Init => WaitingJobs = {} /\ lcs = [j \in Jobs |-> 0]
    BY DEF Init, WaitingJobs
  <2>2. Init => \A j \in Jobs : StepsOf(j) = {} /\ VideoOf(j) = "none"
    BY DEF Init, EachTask, StepsOf, Worker, Working, VideoOf, Organized
  <2> QED
    BY <2>1, <2>2 DEF Contract!Init
<1>2. ContractInv /\ [Next]_vars => [Contract!Next]_Contract!vars
  BY NextKeepsContract DEF Seen, Doing, Videos, Contract!vars
<1> QED
  BY <1>1, <1>2, ContractInvariant, PTL DEF Spec, KeepsContract, Contract!Spec
---------------------------------------------------------------------------
(* Where the comments about imports and paths hold                         *)

\* An import verdict that was recorded is never taken back to `pending`; before a run
\* records its last step it has one, unless the job has no import.
VerdictKnown ==
    /\ \A j \in Jobs :
          /\ j \notin Imports => imp[j] # "pending"
          /\ lcs[j] = Import => imp[j] # "pending"
          /\ status[j] = "completed" => imp[j] # "pending"
    /\ \A t \in Tasks : pc[t] # "idle" /\ status[JobOf(t)] # "deleted" =>
          /\ ctx[t].imp \in ImportDone => imp[JobOf(t)] # "pending"
          /\ pc[t] = "checkpoint" /\ step[t] = Import =>
                result[t] \in ImportDone \cup ImportAgain \/ imp[JobOf(t)] # "pending"
          /\ pc[t] # "tail" /\ step[t] = Done => imp[JobOf(t)] # "pending"

\* A run that has moved the video and not recorded its path yet.
RecordsPath(t) == pc[t] = "checkpoint" /\ step[t] = Organize /\ result[t] = "path"

\* A video in completed/ has its path in the row, or in the checkpoint of its run.
PathKnown ==
    /\ \A j \in Jobs : status[j] # "deleted" =>
          /\ lcs[j] >= Organize => path[j]
          /\ disk[j] \in Organized =>
                path[j] \/ \E t \in Tasks : JobOf(t) = j /\ RecordsPath(t)
    /\ \A t \in Tasks : pc[t] # "idle" /\ status[JobOf(t)] # "deleted" =>
          /\ ctx[t].path => path[JobOf(t)] \/ RecordsPath(t)
          /\ pc[t] = "checkpoint" /\ step[t] = Organize => path[JobOf(t)] \/ RecordsPath(t)

\* What a step of a task does to what the tasks took from their rows: only the one that
\* moved a video learns its path.
LEMMA CtxStep ==
  ASSUME TypeOK, NEW t \in Tasks, Task(t), NEW u \in Tasks, ~Forget(u)
  PROVE  /\ JobOf(u)' = JobOf(u) /\ ctx'[u].imp = ctx[u].imp
         /\ ~OrganizeOk(u) => ctx'[u].path = ctx[u].path
<1> USE DEF rowVars, fileVars, loopVars, taskVars, JobOf
<1>1. ctx \in [Tasks -> Ctx] /\ ctx[t] \in Ctx /\ ctx[u] \in Ctx
  BY DEF TypeOK
<1>2. ASSUME NEW b, ctx' = [ctx EXCEPT ![t].video = b]
      PROVE  ctx'[u].job = ctx[u].job /\ ctx'[u].imp = ctx[u].imp /\ ctx'[u].path = ctx[u].path
  <2>1. ctx'[u] = IF u = t THEN [ctx[t] EXCEPT !.video = b] ELSE ctx[u]
    BY <1>1, <1>2
  <2> QED
    BY <1>1, <2>1 DEF Ctx
<1>3. ASSUME NEW b, ctx' = [ctx EXCEPT ![t].path = b]
      PROVE  /\ ctx'[u].job = ctx[u].job /\ ctx'[u].imp = ctx[u].imp
             /\ u # t => ctx'[u].path = ctx[u].path
  <2>1. ctx'[u] = IF u = t THEN [ctx[t] EXCEPT !.path = b] ELSE ctx[u]
    BY <1>1, <1>3
  <2> QED
    BY <1>1, <2>1 DEF Ctx
<1>4. CASE SkipStep(t) \/ EnterStep(t) \/ DownloadOk(t)
  BY <1>2, <1>4 DEF SkipStep, EnterStep, DownloadOk
<1>5. CASE OrganizeOk(t)
  BY <1>3, <1>5 DEF OrganizeOk
<1>6. CASE Forget(t)
  BY <1>1, <1>6 DEF Forget
<1>7. CASE UNCHANGED ctx
  BY <1>7
<1> QED
  BY <1>4, <1>5, <1>6, <1>7 DEF Task, AtStep, RunJob, GateCancelled, NoFinalPath, NoMoreSteps,
     SetStatus, SlotTaken, PostProcess, PostWrite, Work, WorkCancelled, WorkFailed, TranscodeOk,
     ImportOk, AfterStep, Checkpoint, Tidy, Wipe, Settle

\* Who writes the checkpoint: a checkpoint of the job's task, or an import retry.
LEMMA LcsStep ==
  ASSUME TypeOK, [Next]_vars, NEW j \in Jobs
  PROVE  \/ lcs'[j] = lcs[j]
         \/ RetryImport(j) /\ lcs'[j] = Organize
         \/ \E t \in Tasks : Checkpoint(t) /\ JobOf(t) = j /\ HasRow(j) /\ lcs'[j] = step[t]
<1> USE DEF rowVars, fileVars, loopVars, taskVars
<1>1. CASE \E t \in Tasks : Task(t)
  BY <1>1 DEF Task, AtStep, RunJob, GateCancelled, SkipStep, EnterStep, NoFinalPath, NoMoreSteps,
     SetStatus, SlotTaken, PostProcess, PostWrite, Work, WorkCancelled, WorkFailed, DownloadOk,
     TranscodeOk, OrganizeOk, ImportOk, AfterStep, Checkpoint, Tidy, Wipe, Settle, Forget, TypeOK
<1>2. CASE \E i \in Jobs : Api(i)
  BY <1>2 DEF Api, Create, Cancel, CancelRmtree, Retry, RetryImport, DeleteFiles, DeleteRow,
     TypeOK
<1>3. CASE Loop \/ Crash \/ Recover \/ UNCHANGED vars
  BY <1>3 DEF Loop, LoopWake, Claim, ClaimNothing, Crash, Recover, vars
<1> QED
  BY <1>1, <1>2, <1>3 DEF Next

\* Only the verdict of a task that is through reports a job completed, and a row that is
\* gone stays so.
LEMMA StatusStep ==
  ASSUME TypeOK, TaskShape, [Next]_vars, NEW j \in Jobs
  PROVE  /\ status'[j] = "completed" =>
               \/ status[j] = "completed"
               \/ \E t \in Tasks : Settle(t) /\ JobOf(t) = j /\ HasRow(j) /\ result[t] = "completed"
         /\ status[j] = "deleted" => status'[j] = "deleted"
<1> USE DEF rowVars, fileVars, loopVars, taskVars
<1>1. ASSUME NEW t \in Tasks, Settle(t)
      PROVE  /\ status'[j] = "completed" =>
                   status[j] = "completed" \/ (JobOf(t) = j /\ HasRow(j) /\ result[t] = "completed")
             /\ status[j] = "deleted" => status'[j] = "deleted"
  BY <1>1 DEF Settle, WriteStatus, HasRow, NoRow, TypeOK
<1>2. ASSUME NEW t \in Tasks, Task(t), ~Settle(t)
      PROVE  /\ status'[j] = "completed" => status[j] = "completed"
             /\ status[j] = "deleted" => status'[j] = "deleted"
  BY <1>2 DEF Task, AtStep, RunJob, GateCancelled, SkipStep, EnterStep, NoFinalPath, NoMoreSteps,
     SetStatus, SlotTaken, PostProcess, PostWrite, Work, WorkCancelled, WorkFailed, DownloadOk,
     TranscodeOk, OrganizeOk, ImportOk, AfterStep, Checkpoint, Tidy, Wipe, Forget, WriteStatus,
     StepStatus, HasRow, NoRow, TypeOK
<1>3. ASSUME NEW i \in Jobs, Api(i)
      PROVE  /\ status'[j] = "completed" => status[j] = "completed"
             /\ status[j] = "deleted" => status'[j] = "deleted"
  BY <1>3 DEF Api, Create, Requeue, Cancel, CancellableStatuses, CancelRmtree, Retry, CanRetry,
     RetryImport, DeleteFiles, DeleteRow, HasRow, NoRow, TypeOK
<1>4. CASE Loop \/ Crash \/ Recover \/ UNCHANGED vars
  BY <1>4 DEF Loop, LoopWake, Claim, ClaimNothing, Crash, Recover, Interrupted, ActiveStatuses,
     vars, TypeOK
<1> QED
  BY <1>1, <1>2, <1>3, <1>4 DEF Next

\* Without import retries a verdict is not taken back, and a recorded path never is.
LEMMA RecordsStay ==
  ASSUME TypeOK, [Next]_vars, NEW j \in Jobs
  PROVE  /\ "retry_import" \notin UserOps /\ imp[j] # "pending" => imp'[j] # "pending"
         /\ path[j] => path'[j]
<1> USE DEF rowVars, fileVars, loopVars, taskVars
<1>1. ASSUME NEW t \in Tasks, Checkpoint(t)
      PROVE  (imp[j] # "pending" => imp'[j] # "pending") /\ (path[j] => path'[j])
  <2>1. result[t] # "pending"
    BY DEF TypeOK, Results, ImportDone, ImportAgain, Verdicts
  <2>2. imp[j] # "pending" => imp'[j] # "pending"
    BY <1>1, <2>1 DEF Checkpoint, TypeOK
  <2>3. path[j] => path'[j]
    BY <1>1 DEF Checkpoint, TypeOK
  <2> QED
    BY <2>2, <2>3
<1>2. ASSUME NEW t \in Tasks, Task(t), ~Checkpoint(t)
      PROVE  UNCHANGED <<imp, path>>
  BY <1>2 DEF Task, AtStep, RunJob, GateCancelled, SkipStep, EnterStep, NoFinalPath, NoMoreSteps,
     SetStatus, SlotTaken, PostProcess, PostWrite, Work, WorkCancelled, WorkFailed, DownloadOk,
     TranscodeOk, OrganizeOk, ImportOk, AfterStep, Tidy, Wipe, Settle, Forget
<1>3. ASSUME NEW i \in Jobs, Api(i)
      PROVE  path' = path /\ ("retry_import" \notin UserOps => imp' = imp)
  BY <1>3 DEF Api, Create, Cancel, CancelRmtree, Retry, RetryImport, DeleteFiles, DeleteRow
<1>4. CASE Loop \/ Crash \/ Recover \/ UNCHANGED vars
  BY <1>4 DEF Loop, LoopWake, Claim, ClaimNothing, Crash, Recover, vars
<1> QED
  BY <1>1, <1>2, <1>3, <1>4 DEF Next

\* A task that was there before a step was at work for the same row.
LEMMA TaskHadRow ==
  ASSUME IInv, [Next]_vars, NEW t \in Tasks, pc[t] # "idle", status'[JobOf(t)] # "deleted"
  PROVE  JobOf(t) \in Jobs /\ status[JobOf(t)] # "deleted" /\ HasRow(JobOf(t))
<1>1. TypeOK /\ TaskShape /\ JobOf(t) \in Jobs /\ status[JobOf(t)] # "absent"
  BY DEF IInv, TaskShape, LiveRow
<1>2. status[JobOf(t)] # "deleted"
  BY <1>1, StatusStep
<1> QED
  BY <1>1, <1>2 DEF HasRow, NoRow

\* Without import retries every step keeps VerdictKnown for a task that it leaves alone.
LEMMA SteadyKeepsVerdict ==
  ASSUME IInv, VerdictKnown, [Next]_vars, "retry_import" \notin UserOps,
         NEW u \in Tasks, Steady(u), ctx'[u].imp = ctx[u].imp,
         pc'[u] # "idle", status'[JobOf(u)'] # "deleted"
  PROVE  /\ ctx'[u].imp \in ImportDone => imp'[JobOf(u)'] # "pending"
         /\ pc'[u] = "checkpoint" /\ step'[u] = Import =>
                result'[u] \in ImportDone \cup ImportAgain \/ imp'[JobOf(u)'] # "pending"
         /\ pc'[u] # "tail" /\ step'[u] = Done => imp'[JobOf(u)'] # "pending"
<1>1. pc[u] # "idle" /\ JobOf(u)' = JobOf(u)
  BY DEF Steady
<1>2. JobOf(u) \in Jobs /\ status[JobOf(u)] # "deleted"
  BY <1>1, TaskHadRow
<1>3. imp[JobOf(u)] # "pending" => imp'[JobOf(u)] # "pending"
  BY <1>2, RecordsStay DEF IInv
<1> QED
  BY <1>1, <1>2, <1>3 DEF Steady, VerdictKnown

\* And for the task that makes the step.
LEMMA MoverKeepsVerdict ==
  ASSUME IInv, VerdictKnown, [Next]_vars, "retry_import" \notin UserOps,
         NEW t \in Tasks, Task(t), pc'[t] # "idle", status'[JobOf(t)'] # "deleted"
  PROVE  /\ ctx'[t].imp \in ImportDone => imp'[JobOf(t)'] # "pending"
         /\ pc'[t] = "checkpoint" /\ step'[t] = Import =>
                result'[t] \in ImportDone \cup ImportAgain \/ imp'[JobOf(t)'] # "pending"
         /\ pc'[t] # "tail" /\ step'[t] = Done => imp'[JobOf(t)'] # "pending"
<1> USE DEF rowVars, fileVars, loopVars, taskVars
<1> DEFINE j == JobOf(t)
<1>1. TypeOK /\ TaskShape
  BY DEF IInv
<1>2. ~Forget(t) /\ pc[t] # "idle"
  BY <1>1 DEF Task, AtStep, RunJob, GateCancelled, SkipStep, EnterStep, NoFinalPath, NoMoreSteps,
     AtGate, SetStatus, SlotTaken, PostProcess, PostWrite, Work, WorkCancelled, WorkFailed,
     DownloadOk, TranscodeOk, OrganizeOk, ImportOk, AfterStep, Checkpoint, Tidy, Wipe, Settle,
     Forget, Goto, TypeOK, TaskShape
<1>3. JobOf(t)' = j /\ ctx'[t].imp = ctx[t].imp
  BY <1>1, <1>2, CtxStep
<1>4. j \in Jobs /\ status[j] # "deleted" /\ HasRow(j)
  BY <1>2, <1>3, TaskHadRow
<1>5. imp[j] # "pending" => imp'[j] # "pending"
  BY <1>1, <1>4, RecordsStay
<1>6. ctx'[t].imp \in ImportDone => imp'[JobOf(t)'] # "pending"
  BY <1>2, <1>3, <1>4, <1>5 DEF VerdictKnown
<1>7. CASE Checkpoint(t)
  <2>1. pc'[t] # "checkpoint" /\ step'[t] = step[t] + 1
    BY <1>1, <1>7 DEF Checkpoint, Goto, TypeOK
  <2>2. step[t] = Import => imp'[j] # "pending"
    <3>1. CASE result[t] \in ImportDone \cup ImportAgain
      BY <1>1, <1>4, <1>7, <3>1 DEF Checkpoint, ImportDone, ImportAgain, ImportStatuses, TypeOK
    <3>2. CASE result[t] \notin ImportDone \cup ImportAgain
      BY <1>4, <1>5, <1>7, <3>2 DEF Checkpoint, VerdictKnown
    <3> QED
      BY <3>1, <3>2
  <2>3. step[t] \in 0 .. Done
    BY <1>1 DEF TypeOK
  <2> QED
    BY <1>3, <1>6, <2>1, <2>2, <2>3
<1>8. CASE SkipStep(t)
  <2>1. step'[t] = step[t] /\ UNCHANGED imp /\ step[t] \in Steps
    BY <1>8 DEF SkipStep, AtGate
  <2>2. step[t] = Import => imp[j] # "pending"
    BY <1>2, <1>4, <1>8 DEF SkipStep, StepDone, VerdictKnown
  <2> QED
    BY <1>3, <1>6, <2>1, <2>2
<1>9. CASE ImportOk(t)
  <2>1. step'[t] = step[t] /\ result'[t] \in ImportDone \cup ImportAgain /\ step[t] = Import
    BY <1>1, <1>9 DEF ImportOk, TypeOK
  <2> QED
    BY <1>6, <2>1
<1>10. CASE ~(Checkpoint(t) \/ SkipStep(t) \/ ImportOk(t))
  <2>1. /\ step'[t] = step[t]
        /\ pc'[t] # "tail" => pc[t] # "tail"
        /\ pc'[t] = "checkpoint" /\ step[t] = Import =>
              pc[t] = "checkpoint" /\ result'[t] = result[t]
    BY <1>1, <1>2, <1>10 DEF Task, AtStep, RunJob, GateCancelled, EnterStep, NoFinalPath,
       NoMoreSteps, AtGate, SetStatus, SlotTaken, PostProcess, PostWrite, Work, WorkCancelled,
       WorkFailed, DownloadOk, TranscodeOk, OrganizeOk, AfterStep, Tidy, Wipe, Settle, End, Goto,
       TypeOK
  <2> QED
    BY <1>2, <1>3, <1>4, <1>5, <1>6, <2>1 DEF VerdictKnown
<1> QED
  BY <1>7, <1>8, <1>9, <1>10

\* Without import retries VerdictKnown is inductive, on top of IInv.
LEMMA VerdictKnownStep ==
  ASSUME IInv, VerdictKnown, [Next]_vars, "retry_import" \notin UserOps
  PROVE  VerdictKnown'
<1> USE DEF rowVars, fileVars, loopVars, taskVars
<1>1. TypeOK /\ TaskShape
  BY DEF IInv
<1>2. ASSUME NEW j \in Jobs
      PROVE  /\ j \notin Imports => imp'[j] # "pending"
             /\ lcs'[j] = Import => imp'[j] # "pending"
             /\ status'[j] = "completed" => imp'[j] # "pending"
  <2>1. imp[j] # "pending" => imp'[j] # "pending"
    BY <1>1, RecordsStay
  <2>2. lcs'[j] = Import => imp'[j] # "pending"
    <3>1. CASE lcs'[j] = lcs[j]
      BY <2>1, <3>1 DEF VerdictKnown
    <3>2. CASE RetryImport(j)
      BY <3>2 DEF RetryImport
    <3>3. ASSUME NEW t \in Tasks, Checkpoint(t), JobOf(t) = j, HasRow(j), lcs'[j] = step[t],
                 lcs'[j] = Import
          PROVE  imp'[j] # "pending"
      <4>1. status[j] # "deleted" /\ pc[t] = "checkpoint" /\ step[t] = Import
        BY <3>3 DEF HasRow, NoRow, Checkpoint
      <4>2. CASE result[t] \in ImportDone \cup ImportAgain
        BY <1>1, <3>3, <4>2 DEF Checkpoint, ImportDone, ImportAgain, ImportStatuses, TypeOK
      <4>3. CASE result[t] \notin ImportDone \cup ImportAgain
        BY <2>1, <3>3, <4>1, <4>3 DEF VerdictKnown
      <4> QED
        BY <4>2, <4>3
    <3> QED
      BY <1>1, <3>1, <3>2, <3>3, LcsStep
  <2>3. status'[j] = "completed" => imp'[j] # "pending"
    <3>1. CASE status[j] = "completed"
      BY <2>1, <3>1 DEF VerdictKnown
    <3>2. ASSUME NEW t \in Tasks, Settle(t), JobOf(t) = j, HasRow(j), result[t] = "completed"
          PROVE  imp[j] # "pending"
      BY <1>1, <3>2 DEF Settle, HasRow, NoRow, TaskShape, VerdictKnown
    <3> QED
      BY <1>1, <2>1, <3>1, <3>2, StatusStep
  <2> QED
    BY <2>1, <2>2, <2>3 DEF VerdictKnown
<1>3. ASSUME NEW u \in Tasks, pc'[u] # "idle", status'[JobOf(u)'] # "deleted"
      PROVE  /\ ctx'[u].imp \in ImportDone => imp'[JobOf(u)'] # "pending"
             /\ pc'[u] = "checkpoint" /\ step'[u] = Import =>
                   result'[u] \in ImportDone \cup ImportAgain \/ imp'[JobOf(u)'] # "pending"
             /\ pc'[u] # "tail" /\ step'[u] = Done => imp'[JobOf(u)'] # "pending"
  <2>1. ASSUME NEW t \in Tasks, Task(t), u # t
        PROVE  Steady(u) /\ ctx'[u].imp = ctx[u].imp
    <3>1. Steady(u)
      BY <1>1, <2>1, OthersSteady
    <3>2. ~Forget(u)
      BY <1>1, <1>3 DEF Forget, Goto, TypeOK
    <3> QED
      BY <1>1, <2>1, <3>1, <3>2, CtxStep
  <2>2. CASE \E t \in Tasks : Task(t)
    BY <1>3, <2>1, <2>2, SteadyKeepsVerdict, MoverKeepsVerdict
  <2>3. ASSUME NEW j \in Jobs, NEW t \in Tasks, Claim(j, t)
        PROVE  (Steady(u) /\ ctx'[u].imp = ctx[u].imp) \/ u = t
    BY <1>1, <2>3 DEF Claim, Steady, JobOf, TypeOK
  <2>4. ASSUME NEW j \in Jobs, Claim(j, u)
        PROVE  /\ ctx'[u].imp \in ImportDone => imp'[JobOf(u)'] # "pending"
               /\ pc'[u] # "checkpoint"
               /\ step'[u] = Done => imp'[JobOf(u)'] # "pending"
    <3>1. /\ pc'[u] = "start" /\ step'[u] = lcs[j] + 1 /\ ctx'[u].job = j /\ ctx'[u].imp = imp[j]
          /\ UNCHANGED imp /\ lcs[j] \in 0 .. Import
      BY <1>1, <2>4 DEF Claim, ResumeAt, TypeOK
    <3> QED
      BY <3>1 DEF JobOf, VerdictKnown, ImportDone
  <2>5. CASE LoopWake \/ ClaimNothing \/ Recover \/ UNCHANGED vars \/ \E j \in Jobs : Api(j)
    <3>1. Steady(u) /\ ctx'[u].imp = ctx[u].imp
      BY <2>5 DEF LoopWake, ClaimNothing, Recover, vars, Api, Create, Cancel, CancelRmtree,
         Retry, RetryImport, DeleteFiles, DeleteRow, Steady, JobOf
    <3> QED
      BY <1>3, <3>1, SteadyKeepsVerdict
  <2>6. ~Crash
    BY <1>3 DEF Crash, EachTask
  <2>7. CASE Loop
    BY <1>3, <2>3, <2>4, <2>5, <2>7, SteadyKeepsVerdict DEF Loop
  <2> QED
    BY <2>2, <2>5, <2>6, <2>7 DEF Next
<1> QED
  BY <1>2, <1>3 DEF VerdictKnown, JobOf

\* Where nobody retries imports, a completed job is never waiting for its import: what
\* the run LostImport shows needs the retry (JobService.retry_import).
THEOREM CompletedIsImported ==
  ASSUME "retry_import" \notin UserOps
  PROVE  Spec => []CompletedHasImportVerdict
<1> DEFINE I == IInv /\ VerdictKnown
<1>1. Init => I
  <2>1. Init => VerdictKnown
    BY DEF Init, EachTask, VerdictKnown
  <2> QED
    BY <2>1, InvInit
<1>2. I /\ [Next]_vars => I'
  BY InvStep, VerdictKnownStep
<1>3. I => CompletedHasImportVerdict
  BY DEF VerdictKnown, CompletedHasImportVerdict
<1> QED
  BY <1>1, <1>2, <1>3, PTL DEF Spec

\* What PathKnown says of one task.
PathTask(t) ==
    pc[t] # "idle" /\ status[JobOf(t)] # "deleted" =>
        /\ ctx[t].path => path[JobOf(t)] \/ RecordsPath(t)
        /\ pc[t] = "checkpoint" /\ step[t] = Organize => path[JobOf(t)] \/ RecordsPath(t)

\* A step keeps it for a task that it leaves alone.
LEMMA SteadyKeepsPath ==
  ASSUME IInv, PathKnown, [Next]_vars, NEW u \in Tasks, Steady(u), ctx'[u].path = ctx[u].path
  PROVE  PathTask(u)'
<1> SUFFICES ASSUME pc'[u] # "idle", status'[JobOf(u)'] # "deleted"
             PROVE  /\ ctx'[u].path => path'[JobOf(u)'] \/ RecordsPath(u)'
                    /\ pc'[u] = "checkpoint" /\ step'[u] = Organize =>
                          path'[JobOf(u)'] \/ RecordsPath(u)'
  BY DEF PathTask, JobOf, RecordsPath
<1>1. pc[u] # "idle" /\ JobOf(u)' = JobOf(u)
  BY DEF Steady
<1>2. JobOf(u) \in Jobs /\ status[JobOf(u)] # "deleted"
  BY <1>1, TaskHadRow
<1>3. path[JobOf(u)] => path'[JobOf(u)]
  BY <1>2, RecordsStay DEF IInv
<1>4. RecordsPath(u)' <=> RecordsPath(u)
  BY DEF Steady, RecordsPath
<1> QED
  BY <1>1, <1>2, <1>3, <1>4 DEF Steady, PathKnown

\* And for the task that makes the step: it finds the organize step done only if its path
\* is recorded, for nobody else can be about to record it.
LEMMA MoverKeepsPath ==
  ASSUME IInv, PathKnown, [Next]_vars, NEW t \in Tasks, Task(t)
  PROVE  PathTask(t)'
<1> USE DEF rowVars, fileVars, loopVars, taskVars
<1> DEFINE j == JobOf(t)
<1> SUFFICES ASSUME pc'[t] # "idle", status'[JobOf(t)'] # "deleted"
             PROVE  /\ ctx'[t].path => path'[JobOf(t)'] \/ RecordsPath(t)'
                    /\ pc'[t] = "checkpoint" /\ step'[t] = Organize =>
                          path'[JobOf(t)'] \/ RecordsPath(t)'
  BY DEF PathTask, JobOf, RecordsPath
<1>1. TypeOK /\ TaskShape
  BY DEF IInv
<1>2. ~Forget(t) /\ pc[t] # "idle"
  BY <1>1 DEF Task, AtStep, RunJob, GateCancelled, SkipStep, EnterStep, NoFinalPath, NoMoreSteps,
     AtGate, SetStatus, SlotTaken, PostProcess, PostWrite, Work, WorkCancelled, WorkFailed,
     DownloadOk, TranscodeOk, OrganizeOk, ImportOk, AfterStep, Checkpoint, Tidy, Wipe, Settle,
     Forget, Goto, TypeOK, TaskShape
<1>3. JobOf(t)' = j /\ (~OrganizeOk(t) => ctx'[t].path = ctx[t].path)
  BY <1>1, <1>2, CtxStep
<1>4. j \in Jobs /\ status[j] # "deleted" /\ HasRow(j)
  BY <1>2, <1>3, TaskHadRow
<1>5. path[j] => path'[j]
  BY <1>1, <1>4, RecordsStay
<1>6. CASE OrganizeOk(t)
  BY <1>1, <1>6 DEF OrganizeOk, Goto, RecordsPath, TypeOK
<1>7. CASE Checkpoint(t)
  <2>1. pc'[t] # "checkpoint"
    BY <1>1, <1>7 DEF Checkpoint, Goto, TypeOK
  <2>2. RecordsPath(t) => path'[j]
    BY <1>1, <1>4, <1>7 DEF Checkpoint, RecordsPath, TypeOK
  <2>3. ~OrganizeOk(t)
    BY <1>7 DEF OrganizeOk, Checkpoint
  <2> QED
    BY <1>2, <1>3, <1>4, <1>5, <2>1, <2>2, <2>3 DEF PathKnown
<1>8. CASE SkipStep(t)
  <2>1. pc[t] = "gate" /\ step[t] \in Steps /\ step'[t] = step[t]
        /\ ~OrganizeOk(t) /\ ~RecordsPath(t)
    BY <1>8 DEF SkipStep, AtGate, OrganizeOk, RecordsPath
  <2>2. ctx[t].path => path[j]
    BY <1>2, <1>4, <2>1 DEF PathKnown
  <2>3. ASSUME step[t] = Organize
        PROVE  path[j]
    <3>1. disk[j] \in Organized
      BY <1>8, <2>3 DEF SkipStep, StepDone, IsOrganized, Organized
    <3>2. ASSUME NEW u \in Tasks, JobOf(u) = j, RecordsPath(u)
          PROVE  FALSE
      <4>1. Worker(u) /\ Worker(t)
        BY <2>1, <3>2 DEF RecordsPath, Worker, Working
      <4>2. u = t
        BY <3>2, <4>1, WorkerIsLive DEF IInv, OneLiveTask
      <4> QED
        BY <2>1, <3>2, <4>2
    <3> QED
      BY <1>4, <3>1, <3>2 DEF PathKnown
  <2> QED
    BY <1>3, <1>5, <2>1, <2>2, <2>3
<1>9. CASE ~(OrganizeOk(t) \/ Checkpoint(t) \/ SkipStep(t))
  <2>1. /\ step'[t] = step[t]
        /\ pc'[t] = "checkpoint" /\ step[t] = Organize => pc[t] = "checkpoint"
    BY <1>1, <1>2, <1>9 DEF Task, AtStep, RunJob, GateCancelled, EnterStep, NoFinalPath,
       NoMoreSteps, AtGate, SetStatus, SlotTaken, PostProcess, PostWrite, Work, WorkCancelled,
       WorkFailed, DownloadOk, TranscodeOk, ImportOk, AfterStep, Tidy, Wipe, Settle, End, Goto,
       TypeOK
  <2>2. RecordsPath(t) => RecordsPath(t)'
    BY <1>1, <1>9 DEF Task, AtStep, RunJob, GateCancelled, EnterStep, NoFinalPath, NoMoreSteps,
       AtGate, SetStatus, SlotTaken, PostProcess, PostWrite, Work, WorkCancelled, WorkFailed,
       DownloadOk, TranscodeOk, ImportOk, AfterStep, Tidy, Wipe, Settle, Forget, RecordsPath
  <2> QED
    BY <1>2, <1>3, <1>4, <1>5, <1>9, <2>1, <2>2 DEF PathKnown
<1> QED
  BY <1>6, <1>7, <1>8, <1>9

\* Who brings a video to completed/.
LEMMA DiskStep ==
  ASSUME TypeOK, [Next]_vars, NEW j \in Jobs, disk'[j] \in Organized
  PROVE  disk[j] \in Organized \/ \E t \in Tasks : OrganizeOk(t) /\ JobOf(t) = j
<1> USE DEF rowVars, fileVars, loopVars, taskVars
<1>1. ASSUME NEW t \in Tasks, Task(t), ~(OrganizeOk(t) /\ JobOf(t) = j)
      PROVE  disk[j] \in Organized
  BY <1>1 DEF Task, AtStep, RunJob, GateCancelled, SkipStep, EnterStep, NoFinalPath, NoMoreSteps,
     SetStatus, SlotTaken, PostProcess, PostWrite, Work, WorkCancelled, WorkFailed, DownloadOk,
     TranscodeOk, OrganizeOk, ImportOk, AfterStep, Checkpoint, Tidy, Wipe, Settle, Forget,
     Rmtree, Organized, TypeOK
<1>2. ASSUME NEW i \in Jobs, Api(i)
      PROVE  disk[j] \in Organized
  BY <1>2 DEF Api, Create, Cancel, CancelRmtree, Retry, RetryImport, DeleteFiles, DeleteRow,
     Rmtree, Organized, TypeOK
<1>3. CASE Loop \/ Crash \/ Recover \/ UNCHANGED vars
  BY <1>3 DEF Loop, LoopWake, Claim, ClaimNothing, Crash, Recover, Rmtree, Organized, vars, TypeOK
<1> QED
  BY <1>1, <1>2, <1>3 DEF Next

\* Without restarts PathKnown is inductive, on top of IInv.
LEMMA PathKnownStep ==
  ASSUME IInv, PathKnown, [Next]_vars, ~Crashes
  PROVE  PathKnown'
<1> USE DEF rowVars, fileVars, loopVars, taskVars
<1>1. TypeOK /\ TaskShape
  BY DEF IInv
<1>2. ASSUME NEW t \in Tasks, RecordsPath(t), ~RecordsPath(t)', HasRow(JobOf(t))
      PROVE  path'[JobOf(t)]
  <2>1. pc[t] = "checkpoint" /\ ~Steady(t) /\ JobOf(t) \in Jobs
    BY <1>1, <1>2 DEF RecordsPath, Steady, TaskShape
  <2>2. CASE Checkpoint(t)
    BY <1>1, <1>2, <2>1, <2>2 DEF Checkpoint, RecordsPath, TypeOK
  <2>3. CASE PostProcess(t) \/ PostWrite(t)
    BY <2>1, <2>3 DEF PostProcess, PostWrite, Steady, JobOf
  <2>4. ASSUME NEW u \in Tasks, Task(u), ~(Checkpoint(t) \/ PostProcess(t) \/ PostWrite(t))
        PROVE  FALSE
    <3>1. u # t
      BY <2>1, <2>4 DEF Task, AtStep, RunJob, GateCancelled, SkipStep, EnterStep, NoFinalPath,
         NoMoreSteps, AtGate, SetStatus, SlotTaken, Work, WorkCancelled, WorkFailed, DownloadOk,
         TranscodeOk, OrganizeOk, ImportOk, AfterStep, Tidy, Wipe, Settle, Forget
    <3> QED
      BY <1>1, <2>1, <2>4, <3>1, OthersSteady
  <2>5. CASE \E i \in Jobs, u \in Tasks : Claim(i, u)
    BY <1>1, <2>1, <2>5 DEF Claim, Steady, JobOf, TypeOK
  <2>6. CASE LoopWake \/ ClaimNothing \/ Recover \/ UNCHANGED vars \/ \E i \in Jobs : Api(i)
    BY <2>1, <2>6 DEF LoopWake, ClaimNothing, Recover, vars, Api, Create, Cancel, CancelRmtree,
       Retry, RetryImport, DeleteFiles, DeleteRow, Steady, JobOf
  <2> QED
    BY <2>2, <2>3, <2>4, <2>5, <2>6 DEF Next, Loop, Crash
<1>3. ASSUME NEW j \in Jobs, status'[j] # "deleted"
      PROVE  /\ lcs'[j] >= Organize => path'[j]
             /\ disk'[j] \in Organized =>
                   path'[j] \/ \E t \in Tasks : JobOf(t)' = j /\ RecordsPath(t)'
  <2>1. status[j] # "deleted"
    BY <1>1, <1>3, StatusStep
  <2>2. path[j] => path'[j]
    BY <1>1, RecordsStay
  <2>3. lcs'[j] >= Organize => path'[j]
    <3>1. CASE lcs'[j] = lcs[j]
      BY <2>1, <2>2, <3>1 DEF PathKnown
    <3>2. CASE RetryImport(j)
      <4>1. lcs[j] >= Organize
        BY <3>2 DEF RetryImport, CanRetryImport, IInv, VerdictIsLast
      <4> QED
        BY <2>1, <2>2, <4>1 DEF PathKnown
    <3>3. ASSUME NEW t \in Tasks, Checkpoint(t), JobOf(t) = j, HasRow(j), lcs'[j] = step[t],
                 lcs'[j] >= Organize
          PROVE  path'[j]
      <4>1. Worker(t) /\ pc[t] = "checkpoint" /\ step[t] \in {Organize, Import}
        BY <1>1, <3>3 DEF Checkpoint, Worker, Working, TaskShape
      <4>2. CASE step[t] = Organize
        <5>1. RecordsPath(t) => path'[j]
          BY <1>1, <3>3 DEF Checkpoint, RecordsPath, TypeOK
        <5> QED
          BY <2>1, <2>2, <3>3, <4>1, <4>2, <5>1 DEF PathKnown
      <4>3. CASE step[t] = Import
        <5>1. lcs[j] = Organize
          BY <3>3, <4>1, <4>3 DEF IInv, LiveRow
        <5> QED
          BY <2>1, <2>2, <5>1 DEF PathKnown
      <4> QED
        BY <4>1, <4>2, <4>3
    <3> QED
      BY <1>1, <3>1, <3>2, <3>3, LcsStep
  <2>4. ASSUME disk'[j] \in Organized, ~path'[j]
        PROVE  \E t \in Tasks : JobOf(t)' = j /\ RecordsPath(t)'
    <3>1. ASSUME NEW t \in Tasks, OrganizeOk(t), JobOf(t) = j
          PROVE  JobOf(t)' = j /\ RecordsPath(t)'
      <4>1. JobOf(t)' = j
        BY <1>1, <3>1, SameJob DEF OrganizeOk
      <4> QED
        BY <1>1, <3>1, <4>1 DEF OrganizeOk, Goto, RecordsPath, TypeOK
    <3>2. CASE disk[j] \in Organized
      <4>1. PICK t \in Tasks : JobOf(t) = j /\ RecordsPath(t)
        BY <2>1, <2>2, <2>4, <3>2 DEF PathKnown
      <4>2. HasRow(j)
        BY <2>1, <4>1 DEF IInv, LiveRow, RecordsPath, HasRow, NoRow
      <4>3. RecordsPath(t)'
        BY <1>2, <2>4, <4>1, <4>2
      <4>4. JobOf(t)' = j
        <5>1. pc[t] = "checkpoint"
          BY <4>1 DEF RecordsPath
        <5>2. ASSUME NEW u \in Tasks, Task(u)
              PROVE  JobOf(t)' = j
          <6>1. ~Forget(t)
            BY <5>1 DEF Forget
          <6> QED
            BY <1>1, <4>1, <5>2, <6>1, CtxStep
        <5>3. CASE \E i \in Jobs, u \in Tasks : Claim(i, u)
          BY <1>1, <4>1, <5>1, <5>3 DEF Claim, JobOf, TypeOK
        <5>4. CASE LoopWake \/ ClaimNothing \/ Recover \/ UNCHANGED vars \/ \E i \in Jobs : Api(i)
          BY <4>1, <5>4 DEF LoopWake, ClaimNothing, Recover, vars, Api, Create, Cancel,
             CancelRmtree, Retry, RetryImport, DeleteFiles, DeleteRow, JobOf
        <5> QED
          BY <5>2, <5>3, <5>4 DEF Next, Loop, Crash
      <4> QED
        BY <4>3, <4>4
    <3> QED
      BY <1>1, <2>4, <3>1, <3>2, DiskStep
  <2> QED
    BY <2>3, <2>4
<1>4. ASSUME NEW u \in Tasks
      PROVE  PathTask(u)'
  <2>1. ASSUME NEW t \in Tasks, Task(t), u # t, pc'[u] # "idle"
        PROVE  Steady(u) /\ ctx'[u].path = ctx[u].path
    <3>1. Steady(u)
      BY <1>1, <2>1, OthersSteady
    <3>2. ~Forget(u)
      BY <1>1, <2>1 DEF Forget, Goto, TypeOK
    <3>3. CASE OrganizeOk(u)
      BY <1>1, <3>1, <3>3 DEF OrganizeOk, Goto, Steady, TypeOK
    <3> QED
      BY <1>1, <2>1, <3>1, <3>2, <3>3, CtxStep
  <2>2. pc'[u] = "idle" => PathTask(u)'
    BY DEF PathTask
  <2>3. CASE \E t \in Tasks : Task(t)
    BY <2>1, <2>2, <2>3, SteadyKeepsPath, MoverKeepsPath
  <2>4. ASSUME NEW j \in Jobs, NEW t \in Tasks, Claim(j, t), u # t
        PROVE  Steady(u) /\ ctx'[u].path = ctx[u].path
    BY <1>1, <2>4 DEF Claim, Steady, JobOf, TypeOK
  <2>5. ASSUME NEW j \in Jobs, Claim(j, u)
        PROVE  PathTask(u)'
    <3>1. pc'[u] = "start" /\ ctx'[u].job = j /\ ctx'[u].path = path[j] /\ UNCHANGED path
      BY <1>1, <2>5 DEF Claim, TypeOK
    <3> QED
      BY <3>1 DEF PathTask, JobOf
  <2>6. CASE Loop
    <3>1. CASE LoopWake \/ ClaimNothing
      <4>1. Steady(u) /\ ctx'[u].path = ctx[u].path
        BY <3>1 DEF LoopWake, ClaimNothing, Steady, JobOf
      <4> QED
        BY <4>1, SteadyKeepsPath
    <3> QED
      BY <2>4, <2>5, <2>6, <3>1, SteadyKeepsPath DEF Loop
  <2>7. CASE Recover \/ UNCHANGED vars \/ \E j \in Jobs : Api(j)
    <3>1. Steady(u) /\ ctx'[u].path = ctx[u].path
      BY <2>7 DEF Recover, vars, Api, Create, Cancel, CancelRmtree, Retry, RetryImport,
         DeleteFiles, DeleteRow, Steady, JobOf
    <3> QED
      BY <3>1, SteadyKeepsPath
  <2> QED
    BY <2>3, <2>6, <2>7 DEF Next, Crash
<1> QED
  BY <1>3, <1>4 DEF PathKnown, PathTask, JobOf, RecordsPath

\* Within one life of the process, a job that is past its organize checkpoint has the path
\* of its video in its row, as `_import` expects: a crash between the move and the
\* checkpoint is the only way to lose it.
THEOREM OrganizeRecords ==
  ASSUME ~Crashes
  PROVE  Spec => []OrganizeRecordsPath
<1> DEFINE I == IInv /\ PathKnown /\ OrganizeRecordsPath
<1>1. Init => I
  <2>1. Init => PathKnown /\ OrganizeRecordsPath
    BY DEF Init, EachTask, PathKnown, OrganizeRecordsPath, Organized
  <2> QED
    BY <2>1, InvInit
<1>2. I /\ [Next]_vars => I'
  <2> SUFFICES ASSUME I, [Next]_vars
               PROVE  I'
    OBVIOUS
  <2>1. IInv' /\ PathKnown'
    BY InvStep, PathKnownStep
  <2>2. ASSUME NEW j \in Jobs, lcs'[j] >= Organize
        PROVE  path'[j]
    <3>1. CASE status'[j] # "deleted"
      BY <2>1, <2>2, <3>1 DEF PathKnown
    <3>2. CASE status'[j] = "deleted"
      <4>1. ~RetryImport(j)
        BY <3>2 DEF RetryImport, Requeue, IInv, TypeOK
      <4>2. ASSUME NEW t \in Tasks, Checkpoint(t), JobOf(t) = j, HasRow(j)
            PROVE  FALSE
        BY <3>2, <4>2 DEF Checkpoint, HasRow, NoRow
      <4>3. lcs'[j] = lcs[j] /\ (path[j] => path'[j])
        BY <4>1, <4>2, LcsStep, RecordsStay DEF IInv
      <4> QED
        BY <2>2, <4>3 DEF OrganizeRecordsPath
    <3> QED
      BY <3>1, <3>2
  <2> QED
    BY <2>1, <2>2 DEF OrganizeRecordsPath
<1> QED
  BY <1>1, <1>2, PTL DEF Spec
=============================================================================
