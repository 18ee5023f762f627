------------------------------- MODULE JobManager -------------------------------
(***************************************************************************)
(* The durable job queue of fetcharr (backend/app/jobs): rows in SQLite, a *)
(* claim loop, one asyncio task per claimed job, and the calls of the REST *)
(* API that change a row while its task runs.                              *)
(*                                                                         *)
(* The grain of atomicity is the code's: one write session (they are       *)
(* serialised by the writer lock, backend/app/db/session.py) together with *)
(* the code that follows its commit up to the next await; one filesystem   *)
(* call in a thread; one wait on a semaphore or on a subprocess.           *)
(***************************************************************************)
EXTENDS Integers, FiniteSets

CONSTANTS
    NJobs,          \* number of jobs ever created (bound)
    Tasks,          \* asyncio tasks the claim loop can have alive at once (bound)
    NoTask,         \* "no entry" in the manager's registry of running jobs
    DownloadSlots,  \* MAX_CONCURRENT_DOWNLOADS
    TranscodeSlots, \* MAX_CONCURRENT_TRANSCODES
    Imports,        \* the movie and tv jobs; the rest are `other` and skip the import
    Transcodes,     \* the jobs whose options ask for a transcode profile
    AutoResume,     \* AUTO_RESUME
    UserOps,        \* the API calls that occur (environment switch)
    Crashes         \* whether the process may stop and start again (environment switch)

Jobs == 1 .. NJobs

ASSUME NJobsAssumption == NJobs \in Nat \ {0}
ASSUME TasksAssumption == IsFiniteSet(Tasks) /\ NoTask \notin Tasks
ASSUME SlotsAssumption == DownloadSlots \in Nat \ {0} /\ TranscodeSlots \in Nat \ {0}
ASSUME OptionsAssumption ==
    /\ Imports \subseteq Jobs
    /\ Transcodes \subseteq Jobs
    /\ AutoResume \in BOOLEAN
    /\ UserOps \subseteq {"cancel", "retry", "retry_import", "delete"}
    /\ Crashes \in BOOLEAN

---------------------------------------------------------------------------
(* Vocabulary (backend/app/jobs/constants.py)                              *)

ActiveStatuses == {"starting", "downloading", "postprocessing", "transcoding",
                   "organizing", "importing"}
CancellableStatuses == {"queued", "starting", "downloading", "postprocessing", "transcoding"}
TerminalStatuses == {"completed", "failed", "cancelled"}
JobStatuses == {"queued"} \cup ActiveStatuses \cup TerminalStatuses
\* "absent": not created yet; "deleted": the row is gone and its id never comes back.
NoRow == {"absent", "deleted"}

\* STEPS, by position: `last_completed_step` is the number of the step, 0 for none.
Download  == 1
Transcode == 2
Organize  == 3
Import    == 4
Steps == Download .. Import
Done  == Import + 1

ImportStatuses == {"n/a", "pending", "imported", "not_imported", "error"}
ImportDone  == {"imported", "not_imported"}
ImportAgain == {"not_imported", "error"}

\* How far a job's files are: nothing in its folder, the video, the video and the
\* transcode marker, the video moved to completed/ with the folder still there
\* (it holds the destination marker), the video moved and the folder removed. What arr
\* does with a moved video later is not tracked.
DiskStates == {"empty", "downloaded", "transcoded", "moved", "placed"}
Organized == {"moved", "placed"}

VARIABLES
    status, lcs, cancelReq, imp, path,   \* the row of each job
    disk,       \* the files of each job
    calls,      \* API calls that still have something to do after an await
    registry,   \* JobManager._cancels / _jobs: the task registered for each job
    free,       \* the free slots of the download and of the transcode semaphore
    loop,       \* the claim loop: "down" (no process), "parked", "claiming"
    wake,       \* the claim loop's event
    pc,         \* where each task is
    step,       \* the step it is in
    ctx,        \* what the task took from the row, or learnt on the way
    cancelled,  \* its cancel event
    post,       \* its background write of `postprocessing`: "no", "due", "done"
    result      \* the fields of its next checkpoint, or its verdict

rowVars  == <<status, lcs, cancelReq, imp, path>>
fileVars == <<disk, calls>>
loopVars == <<registry, loop, wake>>
taskVars == <<pc, step, ctx, cancelled, post, result>>
vars == <<rowVars, fileVars, loopVars, free, taskVars>>

Up == loop # "down"
HasRow(j) == status[j] \notin NoRow

\* The job of a task, and the two steps that hold a slot.
JobOf(t) == ctx[t].job
SlotSteps == {Download, Transcode}
Capacity == [k \in SlotSteps |-> IF k = Download THEN DownloadSlots ELSE TranscodeSlots]

Verdicts == {"completed", "failed", "cancelled"}
Results  == {"none", "path"} \cup ImportDone \cup ImportAgain \cup Verdicts
Working  == {"start", "gate", "slot", "status", "work", "checkpoint", "tidy"}
Ending   == {"wipe", "settle"}
Pcs      == {"idle", "tail"} \cup Working \cup Ending

NoCtx == [job |-> 0, path |-> FALSE, imp |-> "n/a", video |-> FALSE]
Ctx   == [job : 0 .. NJobs, path : BOOLEAN, imp : ImportStatuses, video : BOOLEAN]

TypeOK ==
    /\ status \in [Jobs -> JobStatuses \cup NoRow]
    /\ lcs \in [Jobs -> 0 .. Import]
    /\ cancelReq \in [Jobs -> BOOLEAN]
    /\ imp \in [Jobs -> ImportStatuses]
    /\ path \in [Jobs -> BOOLEAN]
    /\ disk \in [Jobs -> DiskStates]
    /\ calls \in SUBSET (Jobs \X {"rmtree", "delete"})
    /\ registry \in [Jobs -> Tasks \cup {NoTask}]
    /\ free \in [SlotSteps -> Nat]
    /\ loop \in {"down", "parked", "claiming"}
    /\ wake \in BOOLEAN
    /\ pc \in [Tasks -> Pcs]
    /\ step \in [Tasks -> 0 .. Done]
    /\ ctx \in [Tasks -> Ctx]
    /\ cancelled \in [Tasks -> BOOLEAN]
    /\ post \in [Tasks -> {"no", "due", "done"}]
    /\ result \in [Tasks -> Results]

EachTask(value) == [t \in Tasks |-> value]

Init ==
    /\ status = [j \in Jobs |-> "absent"]
    /\ lcs = [j \in Jobs |-> 0]
    /\ cancelReq = [j \in Jobs |-> FALSE]
    /\ imp = [j \in Jobs |-> IF j \in Imports THEN "pending" ELSE "n/a"]
    /\ path = [j \in Jobs |-> FALSE]
    /\ disk = [j \in Jobs |-> "empty"]
    /\ calls = {}
    /\ registry = [j \in Jobs |-> NoTask]
    /\ free = Capacity
    /\ loop = "parked"
    /\ wake = TRUE
    /\ pc = EachTask("idle")
    /\ step = EachTask(0)
    /\ ctx = EachTask(NoCtx)
    /\ cancelled = EachTask(FALSE)
    /\ post = EachTask("no")
    /\ result = EachTask("none")

---------------------------------------------------------------------------
(* Helpers                                                                 *)

\* rmtree(job_dir): what is left of a job's files.
Rmtree(d) == IF d \in Organized THEN "placed" ELSE "empty"

\* An UPDATE ... WHERE id = j: it finds no row once the job is deleted.
WriteStatus(j, s) == status' = IF HasRow(j) THEN [status EXCEPT ![j] = s] ELSE status

\* A task's own writes queue behind the one it spawned: the writer lock is FIFO.
NoWriteDue_Unordered(t) == TRUE
NoWriteDue(t) == post[t] # "due"

\* _raise_if_cancelled: before each step, and once a slot is held.
CancelSeen_NotAtImport(t) == cancelled[t] /\ step[t] # Import
CancelSeen(t) == cancelled[t]

\* A row goes (back) to the queue, and the claim loop is told.
Requeue_NoWake(j) == status' = [status EXCEPT ![j] = "queued"] /\ UNCHANGED wake
Requeue(j) == status' = [status EXCEPT ![j] = "queued"] /\ wake' = TRUE

Goto(t, p) == pc' = [pc EXCEPT ![t] = p]
End(t, p, verdict) == Goto(t, p) /\ result' = [result EXCEPT ![t] = verdict]

Release_DownloadOnly(t) ==
    free' = IF step[t] = Download THEN [free EXCEPT ![step[t]] = @ + 1] ELSE free
Release_UnlessCancelled(t) ==
    free' = IF step[t] \in SlotSteps /\ ~cancelled[t]
              THEN [free EXCEPT ![step[t]] = @ + 1] ELSE free
Release(t) ==
    free' = IF step[t] \in SlotSteps THEN [free EXCEPT ![step[t]] = @ + 1] ELSE free

---------------------------------------------------------------------------
(* The claim loop                                                          *)

\* RequestService.create commits a queued row and wakes the loop (a request with several
\* items is several of these in a row).
Create(j) ==
    /\ Up
    /\ status[j] = "absent"
    /\ \A i \in 1 .. j - 1 : status[i] # "absent"
    /\ Requeue(j)
    /\ UNCHANGED <<lcs, cancelReq, imp, path, fileVars, registry, loop, free, taskVars>>

LoopWake ==
    /\ loop = "parked"
    /\ wake
    /\ wake' = FALSE
    /\ loop' = "claiming"
    /\ UNCHANGED <<rowVars, fileVars, registry, free, taskVars>>

\* execute: STEPS.index(last_completed_step) + 1.
ResumeAt_First(j) == Download
ResumeAt(j) == lcs[j] + 1

\* _claim and _start: the oldest queued row, read into the context of a task that is
\* created and registered. It runs in the next iteration of the event loop; the loop's next
\* claim has to wait for the database and comes later.
Claim(j, t) ==
    /\ loop = "claiming"
    /\ \A u \in Tasks : pc[u] # "start"
    /\ status[j] = "queued"
    /\ \A i \in 1 .. j - 1 : status[i] # "queued"
    /\ pc[t] = "idle"
    /\ status' = [status EXCEPT ![j] = "starting"]
    /\ registry' = [registry EXCEPT ![j] = t]
    /\ pc' = [pc EXCEPT ![t] = "start"]
    /\ step' = [step EXCEPT ![t] = ResumeAt(j)]
    /\ ctx' = [ctx EXCEPT ![t] =
                 [job |-> j, path |-> path[j], imp |-> imp[j], video |-> FALSE]]
    /\ UNCHANGED <<lcs, cancelReq, imp, path, fileVars, loop, wake, free,
                   cancelled, post, result>>

ClaimNothing ==
    /\ loop = "claiming"
    /\ \A j \in Jobs : status[j] # "queued"
    /\ loop' = "parked"
    /\ UNCHANGED <<rowVars, fileVars, registry, wake, free, taskVars>>

---------------------------------------------------------------------------
(* One job's task: pipeline.execute inside JobManager._run_job             *)

\* The first step of _run_job looks its cancel event up. When the done-callback of the job's
\* last task has come in between, there is none: the task dies of a KeyError outside the
\* `try`, without a verdict.
RunJob(t) ==
    /\ pc[t] = "start"
    /\ Goto(t, IF registry[JobOf(t)] # NoTask THEN "gate" ELSE "tail")
    /\ UNCHANGED <<rowVars, fileVars, loopVars, free, step, ctx, cancelled, post, result>>

\* A resumed run knows the video's name only from final_path, in the job's folder.
FinalPathLost(t) ==
    /\ step[t] \in {Transcode, Organize}
    /\ ~ctx[t].video
    /\ disk[JobOf(t)] \in {"empty", "placed"}

\* is_organized: the destination exists and the video is gone from the folder.
IsOrganized_GoneIsEnough(t) == disk[JobOf(t)] \notin {"downloaded", "transcoded"}
IsOrganized(t) ==
    disk[JobOf(t)] = "moved" \/ (ctx[t].path /\ disk[JobOf(t)] = "placed")

\* Each step's own done-check.
StepDone(t) ==
    LET j == JobOf(t) IN
    \/ step[t] = Download /\ disk[j] \in {"downloaded", "transcoded"}
    \/ step[t] = Transcode /\ (j \notin Transcodes \/ disk[j] \in {"transcoded", "moved"})
    \/ step[t] = Organize /\ ~FinalPathLost(t) /\ IsOrganized(t)
    \/ step[t] = Import /\ (j \notin Imports \/ ctx[t].imp \in ImportDone)

AtGate(t) == pc[t] = "gate" /\ step[t] \in Steps

GateCancelled(t) ==
    /\ AtGate(t)
    /\ CancelSeen(t)
    /\ End(t, "wipe", "cancelled")
    /\ UNCHANGED <<rowVars, fileVars, loopVars, free, step, ctx, cancelled, post>>

SkipStep(t) ==
    /\ AtGate(t)
    /\ ~CancelSeen(t)
    /\ StepDone(t)
    /\ Goto(t, "checkpoint")
    /\ ctx' = [ctx EXCEPT ![t].video = @ \/ step[t] = Download]
    /\ UNCHANGED <<rowVars, fileVars, loopVars, free, step, cancelled, post, result>>

EnterStep(t) ==
    /\ AtGate(t)
    /\ ~CancelSeen(t)
    /\ ~StepDone(t)
    /\ ~FinalPathLost(t)
    /\ Goto(t, IF step[t] \in SlotSteps THEN "slot" ELSE "status")
    /\ ctx' = [ctx EXCEPT ![t].video = @ \/ step[t] \in {Transcode, Organize}]
    /\ UNCHANGED <<rowVars, fileVars, loopVars, free, step, cancelled, post, result>>

NoFinalPath(t) ==
    /\ AtGate(t)
    /\ ~CancelSeen(t)
    /\ ~StepDone(t)
    /\ FinalPathLost(t)
    /\ End(t, "settle", "failed")
    /\ UNCHANGED <<rowVars, fileVars, loopVars, free, step, ctx, cancelled, post>>

NoMoreSteps(t) ==
    /\ pc[t] = "gate"
    /\ step[t] = Done
    /\ End(t, "settle", "completed")
    /\ UNCHANGED <<rowVars, fileVars, loopVars, free, step, ctx, cancelled, post>>

SlotFree_Unlimited(t) == TRUE
SlotFree(t) == free[step[t]] > 0

\* `async with slot:` and the check that follows it: a cancel that came while the
\* job waited is noticed only here, and the slot goes straight back.
SlotTaken(t) ==
    /\ pc[t] = "slot"
    /\ SlotFree(t)
    /\ \/ /\ CancelSeen(t)
          /\ End(t, "wipe", "cancelled")
          /\ UNCHANGED free
       \/ /\ ~CancelSeen(t)
          /\ free' = [free EXCEPT ![step[t]] = @ - 1]
          /\ Goto(t, "status")
          /\ UNCHANGED result
    /\ UNCHANGED <<rowVars, fileVars, loopVars, step, ctx, cancelled, post>>

StepStatus(k) ==
    CASE k = Download  -> "downloading"
      [] k = Transcode -> "transcoding"
      [] k = Organize  -> "organizing"
      [] OTHER         -> "importing"

SetStatus(t) ==
    /\ pc[t] = "status"
    /\ NoWriteDue(t)
    /\ WriteStatus(JobOf(t), StepStatus(step[t]))
    /\ Goto(t, "work")
    /\ UNCHANGED <<lcs, cancelReq, imp, path, fileVars, loopVars, free,
                   step, ctx, cancelled, post, result>>

\* on_progress sees yt-dlp merge, and spawns the write of `postprocessing`, once a run.
PostProcess(t) ==
    /\ pc[t] = "work"
    /\ step[t] = Download
    /\ post[t] = "no"
    /\ post' = [post EXCEPT ![t] = "due"]
    /\ UNCHANGED <<rowVars, fileVars, loopVars, free, pc, step, ctx, cancelled, result>>

PostWrite(t) ==
    /\ post[t] = "due"
    /\ WriteStatus(JobOf(t), "postprocessing")
    /\ post' = [post EXCEPT ![t] = "done"]
    /\ UNCHANGED <<lcs, cancelReq, imp, path, fileVars, loopVars, free,
                   pc, step, ctx, cancelled, result>>

\* yt-dlp or ffmpeg is killed when the event is set. Organize and import never look.
WorkCancelled(t) ==
    /\ pc[t] = "work"
    /\ step[t] \in SlotSteps
    /\ cancelled[t]
    /\ Release(t)
    /\ End(t, "wipe", "cancelled")
    /\ UNCHANGED <<rowVars, fileVars, loopVars, step, ctx, cancelled, post>>

\* Any other exception out of a step (the subprocess, a full disk, an unreadable
\* video, a collision under `ask`, an import that has no completed path).
WorkFailed(t) ==
    /\ pc[t] = "work"
    /\ Release(t)
    /\ End(t, "settle", "failed")
    /\ UNCHANGED <<rowVars, fileVars, loopVars, step, ctx, cancelled, post>>

DownloadOk(t) ==
    /\ pc[t] = "work" /\ step[t] = Download
    /\ ~cancelled[t]
    /\ disk' = [disk EXCEPT ![JobOf(t)] = "downloaded"]
    /\ ctx' = [ctx EXCEPT ![t].video = TRUE]
    /\ Release(t)
    /\ Goto(t, "checkpoint")
    /\ UNCHANGED <<rowVars, calls, loopVars, step, cancelled, post, result>>

\* _replace_source: one rename, then the marker.
TranscodeOk(t) ==
    /\ pc[t] = "work" /\ step[t] = Transcode
    /\ ~cancelled[t]
    /\ disk[JobOf(t)] = "downloaded"
    /\ disk' = [disk EXCEPT ![JobOf(t)] = "transcoded"]
    /\ Release(t)
    /\ Goto(t, "checkpoint")
    /\ UNCHANGED <<rowVars, calls, loopVars, step, ctx, cancelled, post, result>>

\* organize: the video is at its destination; only this branch hands its path on.
OrganizeOk(t) ==
    /\ pc[t] = "work" /\ step[t] = Organize
    /\ disk[JobOf(t)] \in {"downloaded", "transcoded", "moved"}
    /\ disk' = [disk EXCEPT ![JobOf(t)] = "moved"]
    /\ ctx' = [ctx EXCEPT ![t].path = TRUE]
    /\ result' = [result EXCEPT ![t] = "path"]
    /\ Goto(t, "checkpoint")
    /\ UNCHANGED <<rowVars, calls, loopVars, free, step, cancelled, post>>

\* _import: arr's verdict, an error that outlived the retries, or no arr configured.
ImportOk(t) ==
    /\ pc[t] = "work" /\ step[t] = Import
    /\ ctx[t].path
    /\ \E verdict \in ImportDone \cup ImportAgain :
          result' = [result EXCEPT ![t] = verdict]
    /\ Goto(t, "checkpoint")
    /\ UNCHANGED <<rowVars, fileVars, loopVars, free, step, ctx, cancelled, post>>

\* _checkpoint: last_completed_step and the step's fields, in one transaction.
Checkpoint(t) ==
    LET j == JobOf(t) IN
    /\ pc[t] = "checkpoint"
    /\ NoWriteDue(t)
    /\ IF HasRow(j)
         THEN /\ lcs' = [lcs EXCEPT ![j] = step[t]]
              /\ path' = [path EXCEPT ![j] = @ \/ result[t] = "path"]
              /\ imp' = [imp EXCEPT ![j] = IF result[t] \in ImportStatuses THEN result[t] ELSE @]
         ELSE UNCHANGED <<lcs, path, imp>>
    /\ Goto(t, IF result[t] = "path" THEN "tidy" ELSE "gate")
    /\ step' = [step EXCEPT ![t] = @ + 1]
    /\ result' = [result EXCEPT ![t] = "none"]
    /\ UNCHANGED <<status, cancelReq, fileVars, loopVars, free, ctx, cancelled, post>>

\* The rmtree after the organize checkpoint.
Tidy(t) ==
    /\ pc[t] = "tidy"
    /\ disk' = [disk EXCEPT ![JobOf(t)] = Rmtree(@)]
    /\ Goto(t, "gate")
    /\ UNCHANGED <<rowVars, calls, loopVars, free, step, ctx, cancelled, post, result>>

\* The rmtree at the start of _cancelled.
Wipe(t) ==
    /\ pc[t] = "wipe"
    /\ disk' = [disk EXCEPT ![JobOf(t)] = Rmtree(@)]
    /\ Goto(t, "settle")
    /\ UNCHANGED <<rowVars, calls, loopVars, free, step, ctx, cancelled, post, result>>

\* The write of _finish or of _cancelled. Only the latter clears cancel_requested.
Settle(t) ==
    /\ pc[t] = "settle"
    /\ NoWriteDue(t)
    /\ WriteStatus(JobOf(t), result[t])
    /\ cancelReq' = IF HasRow(JobOf(t)) /\ result[t] = "cancelled"
                      THEN [cancelReq EXCEPT ![JobOf(t)] = FALSE] ELSE cancelReq
    /\ End(t, "tail", "none")
    /\ UNCHANGED <<lcs, imp, path, fileVars, loopVars, free, step, ctx, cancelled, post>>

\* The task is over, after _publish_summary or by that KeyError: the done-callback drops the
\* entry of the JOB, whoever holds it.
Forget(t) ==
    /\ pc[t] = "tail"
    /\ registry' = [registry EXCEPT ![JobOf(t)] = NoTask]
    /\ Goto(t, "idle")
    /\ step' = [step EXCEPT ![t] = 0]
    /\ ctx' = [ctx EXCEPT ![t] = NoCtx]
    /\ cancelled' = [cancelled EXCEPT ![t] = FALSE]
    /\ post' = [post EXCEPT ![t] = "no"]
    /\ UNCHANGED <<rowVars, fileVars, loop, wake, free, result>>

---------------------------------------------------------------------------
(* The API (JobService)                                                   *)

\* request_cancel: this manager runs the job.
Signalled_ByStatus(j) == registry[j] # NoTask /\ status[j] \notin {"queued", "starting"}
Signalled(j) == registry[j] # NoTask

\* A registered task is signalled; a job without one is finished on the spot.
Cancel(j) ==
    /\ "cancel" \in UserOps
    /\ Up
    /\ status[j] \in CancellableStatuses
    /\ \/ /\ Signalled(j)
          /\ cancelReq' = [cancelReq EXCEPT ![j] = TRUE]
          /\ cancelled' = [cancelled EXCEPT ![registry[j]] = TRUE]
          /\ UNCHANGED <<status, calls>>
       \/ /\ ~Signalled(j)
          /\ status' = [status EXCEPT ![j] = "cancelled"]
          /\ cancelReq' = [cancelReq EXCEPT ![j] = FALSE]
          /\ calls' = calls \cup {<<j, "rmtree">>}
          /\ UNCHANGED cancelled
    /\ UNCHANGED <<lcs, imp, path, disk, loopVars, free, pc, step, ctx, post, result>>

\* The rmtree that follows the commit of such a cancel.
CancelRmtree(j) ==
    /\ <<j, "rmtree">> \in calls
    /\ calls' = calls \ {<<j, "rmtree">>}
    /\ disk' = [disk EXCEPT ![j] = Rmtree(@)]
    /\ UNCHANGED <<rowVars, loopVars, free, taskVars>>

CanRetry_AlsoCancelled(j) == status[j] \in {"failed", "cancelled"}
CanRetry(j) == status[j] = "failed"

Retry(j) ==
    /\ "retry" \in UserOps
    /\ Up
    /\ CanRetry(j)
    /\ Requeue(j)
    /\ UNCHANGED <<lcs, cancelReq, imp, path, fileVars, registry, loop, free, taskVars>>

CanRetryImport_NotImported(j) == imp[j] \notin {"n/a", "imported"}
CanRetryImport(j) == imp[j] \in ImportAgain

RetryImport(j) ==
    /\ "retry_import" \in UserOps
    /\ Up
    /\ HasRow(j)
    /\ CanRetryImport(j)
    /\ imp' = [imp EXCEPT ![j] = "pending"]
    /\ lcs' = [lcs EXCEPT ![j] = Organize]
    /\ Requeue(j)
    /\ UNCHANGED <<cancelReq, path, fileVars, registry, loop, free, taskVars>>

\* delete(delete_file=True): first the files, whatever the job is doing ...
DeleteFiles(j) ==
    /\ "delete" \in UserOps
    /\ Up
    /\ HasRow(j)
    /\ <<j, "delete">> \notin calls
    /\ calls' = calls \cup {<<j, "delete">>}
    /\ disk' = [disk EXCEPT ![j] = IF path[j] THEN "empty" ELSE Rmtree(@)]
    /\ UNCHANGED <<rowVars, loopVars, free, taskVars>>

\* ... then the rows. With delete_file=False the call is only this.
DeleteRow(j) ==
    /\ "delete" \in UserOps
    /\ Up
    /\ HasRow(j)
    /\ calls' = calls \ {<<j, "delete">>}
    /\ status' = [status EXCEPT ![j] = "deleted"]
    /\ UNCHANGED <<lcs, cancelReq, imp, path, disk, loopVars, free, taskVars>>

---------------------------------------------------------------------------
(* Stop and start                                                          *)

\* stop(), or the process dies: rows and files stay, everything in memory is gone.
Crash ==
    /\ Crashes
    /\ Up
    /\ loop' = "down"
    /\ wake' = FALSE
    /\ registry' = [j \in Jobs |-> NoTask]
    /\ free' = Capacity
    /\ calls' = {}
    /\ pc' = EachTask("idle")
    /\ step' = EachTask(0)
    /\ ctx' = EachTask(NoCtx)
    /\ cancelled' = EachTask(FALSE)
    /\ post' = EachTask("no")
    /\ result' = EachTask("none")
    /\ UNCHANGED <<rowVars, disk>>

Interrupted(j) == status[j] \in ActiveStatuses

\* recover() in one transaction, its rmtrees, then the loop and its first wake.
Recover ==
    /\ loop = "down"
    /\ status' = [j \in Jobs |->
          IF ~Interrupted(j) THEN status[j]
          ELSE IF cancelReq[j] THEN "cancelled"
          ELSE IF AutoResume THEN "queued" ELSE "failed"]
    /\ cancelReq' = [j \in Jobs |-> cancelReq[j] /\ ~Interrupted(j)]
    /\ disk' = [j \in Jobs |->
          IF Interrupted(j) /\ cancelReq[j] THEN Rmtree(disk[j]) ELSE disk[j]]
    /\ loop' = "parked"
    /\ wake' = TRUE
    /\ UNCHANGED <<lcs, imp, path, calls, registry, free, taskVars>>

---------------------------------------------------------------------------
Loop == LoopWake \/ ClaimNothing \/ \E j \in Jobs, t \in Tasks : Claim(j, t)

AtStep(t) ==
    \/ RunJob(t) \/ GateCancelled(t) \/ SkipStep(t) \/ EnterStep(t) \/ NoFinalPath(t)
    \/ NoMoreSteps(t) \/ SetStatus(t)
Work(t) ==
    \/ WorkCancelled(t) \/ WorkFailed(t)
    \/ DownloadOk(t) \/ TranscodeOk(t) \/ OrganizeOk(t) \/ ImportOk(t)
AfterStep(t) ==
    \/ Checkpoint(t) \/ Tidy(t) \/ Wipe(t) \/ Settle(t) \/ Forget(t)

Task(t) ==
    AtStep(t) \/ SlotTaken(t) \/ PostProcess(t) \/ PostWrite(t) \/ Work(t) \/ AfterStep(t)
Api(j) ==
    \/ Create(j) \/ Cancel(j) \/ CancelRmtree(j) \/ Retry(j) \/ RetryImport(j)
    \/ DeleteFiles(j) \/ DeleteRow(j)

Next ==
    \/ Loop
    \/ \E t \in Tasks : Task(t)
    \/ \E j \in Jobs : Api(j)
    \/ Crash
    \/ Recover

Spec == Init /\ [][Next]_vars

(***************************************************************************)
(* Fairness. The event loop runs every ready coroutine; asyncio.Semaphore  *)
(* wakes its waiters in order, so one that is free again and again is      *)
(* granted (SF). yt-dlp, ffmpeg, a file move and the bounded import retry  *)
(* end one way or another. Users, crashes and yt-dlp's progress lines owe  *)
(* nothing.                                                                *)
(***************************************************************************)
Fairness ==
    /\ WF_vars(Loop)
    /\ WF_vars(Recover)
    /\ \A t \in Tasks :
          /\ WF_vars(AtStep(t)) /\ WF_vars(Work(t)) /\ WF_vars(AfterStep(t))
          /\ WF_vars(PostWrite(t))
          /\ SF_vars(SlotTaken(t))
    /\ \A j \in Jobs : WF_vars(CancelRmtree(j))

FairSpec == Spec /\ Fairness
---------------------------------------------------------------------------
(* Correctness                                                             *)

\* A task that still has a step to run, and one that still has a bad end to record.
Worker(t) == pc[t] \in Working /\ step[t] \in Steps
Running(t) == pc[t] \in Working \cup Ending

\* However cancels, retries, import retries and restarts interleave, no two tasks
\* ever run steps of the same job: they would share its folder and its destination.
OneWorkerPerJob ==
    \A t, u \in Tasks : Worker(t) /\ Worker(u) /\ JobOf(t) = JobOf(u) => t = u

\* A job waiting to be claimed, or failed and so offered for a retry, has no task
\* that is still running its steps: claiming or retrying it starts the only one.
QueuedHasNoWorker ==
    \A t \in Tasks : Worker(t) => status[JobOf(t)] \notin {"queued", "failed"}

\* While the process is up, a row that says a step of its job is at work is telling the
\* truth: some task has the job and has yet to write its verdict. Without one the job would
\* stay so, and could not be retried, until the next restart.
Tended(j) == \E t \in Tasks : Running(t) /\ JobOf(t) = j
ActiveHasTask ==
    Up => \A j \in Jobs : status[j] \in ActiveStatuses \ {"starting"} => Tended(j)

\* No lost wake-up: the claim loop never sleeps on an empty event with a row queued.
NoLostWakeup ==
    loop = "parked" /\ (\E j \in Jobs : status[j] = "queued") => wake

\* The tasks inside `async with slot` of a step.
Holders(k) == {t \in Tasks : step[t] = k /\ pc[t] \in {"status", "work"}}

\* Every way out of a step returns its slot once: the free slots and the tasks that
\* hold one add up to the configured number, so slots neither leak nor multiply.
SlotsConserved ==
    \A k \in SlotSteps : free[k] + Cardinality(Holders(k)) = Capacity[k]

\* A job is reported completed only if its video reached completed/, whatever was
\* cancelled, resumed or wiped on the way (where nobody deletes the files).
CompletedHasVideo ==
    \A j \in Jobs : status[j] = "completed" =>
        disk[j] \in Organized

\* The checkpoint is durable: no step already recorded is ever scheduled again,
\* except the import alone, and that only when its verdict allows a retry.
CheckpointsHold ==
    [][\A j \in Jobs : lcs'[j] < lcs[j] =>
          lcs[j] = Import /\ lcs'[j] = Organize /\ imp[j] \in ImportAgain]_vars

\* Once a job's video has reached completed/, no resumed, retried or late task downloads
\* or encodes it again, and no rmtree of its folder takes it away; only a delete does.
VideoStays ==
    [][\A j \in Jobs : disk[j] \in Organized /\ <<j, "delete">> \notin calls' =>
          disk'[j] \in Organized]_vars

\* A job whose cancel was accepted (JobService.cancel set its event)
\* is never reported completed. Holds within one life of the process and without
\* retries; a job resumed at the import step ignores its cancel.
CancelNotIgnored ==
    \A j \in Jobs : status[j] = "completed" => ~cancelReq[j]

\* Without retries, a job reported cancelled has no task that goes on working on it.
CancelledIsQuiet ==
    \A t \in Tasks : Worker(t) => status[JobOf(t)] # "cancelled"

\* A verdict is final: without a retry or a delete nothing late (a background write,
\* a second task, recovery) overwrites it.
TerminalIsFinal ==
    [][\A j \in Jobs : status[j] \in TerminalStatuses => status'[j] = status[j]]_vars

\* Every queued job is claimed and ends with a verdict: no slot is lost, no wake-up
\* is missed, and no job waits forever behind others.
QueuedSettles ==
    \A j \in Jobs : status[j] = "queued" ~> status[j] \in TerminalStatuses

\* An accepted cancel takes effect: the job ends.
CancelEnds ==
    \A j \in Jobs : cancelReq[j] ~> status[j] \in TerminalStatuses

---------------------------------------------------------------------------
(* The contract: what the queue does, seen from the jobs                   *)

WaitingJobs == {j \in Jobs : status[j] = "queued"}
StepsOf(j)  == {step[t] : t \in {u \in Tasks : Worker(u) /\ JobOf(u) = j}}
VideoOf(j)  ==
    IF disk[j] \in Organized THEN "library"
    ELSE IF disk[j] = "empty" THEN "none" ELSE "folder"

Contract == INSTANCE JobContract WITH
    Deletes  <- "delete" \in UserOps,
    waiting  <- WaitingJobs,
    doing    <- [j \in Jobs |-> StepsOf(j)],
    recorded <- lcs,
    video    <- [j \in Jobs |-> VideoOf(j)]

\* Whatever users, restarts and late writes do, the jobs see one worker at a time, which
\* takes their steps in order from the checkpoint, records none before it is done, and
\* starts only from the queue (_claim, _start, execute, _checkpoint, recover).
KeepsContract == Contract!Spec

---------------------------------------------------------------------------
(* What the comments and docstrings of the code say, where runs of the     *)
(* model disagree with them (README, "Disagreements").                     *)

\* jobs/constants.py, "Cancel is only possible before the organize step starts": a
\* cancelled job has left nothing in completed/.
CancelledNeverOrganized ==
    \A j \in Jobs : status[j] = "cancelled" => disk[j] \notin Organized

\* JobService.cancel, "Nothing to signal: it never left the queue, so finish it here":
\* a job finished there is run by no task.
NothingToSignal ==
    [][\A j \in Jobs : <<j, "rmtree">> \in calls' \ calls =>
          \A t \in Tasks : Worker(t) => JobOf(t) # j]_vars

\* JobService.retry_import, "The checkpoint stays at `organize`, so the claim loop
\* resumes at `import`": an import that was put back to pending is waited for, and the
\* job is not reported completed without it.
CompletedHasImportVerdict ==
    \A j \in Jobs : status[j] = "completed" => imp[j] # "pending"

\* jobs/constants.py on ACTIVE_STATUSES, "A job the JobManager still owns; a restart resumes
\* or fails these": also a claimed row has a task (where nothing is retried, it does).
StartingHasTask ==
    Up => \A j \in Jobs : status[j] = "starting" => Tended(j)

\* pipeline.py, "organize always records it": past the organize checkpoint the row
\* knows where the video is.
OrganizeRecordsPath ==
    \A j \in Jobs : lcs[j] >= Organize => path[j]

=============================================================================
