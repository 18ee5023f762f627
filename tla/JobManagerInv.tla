------------------------------ MODULE JobManagerInv -----------------------------
(***************************************************************************)
(* The inductive invariant behind the safety properties of JobManager, as  *)
(* named parts. TLC checks it (MCJobManager, Delete.cfg), JobManagerProofs *)
(* proves it for every number of jobs and tasks.                           *)
(***************************************************************************)
EXTENDS JobManager

\* Where a task is determines its step, its job and what it has to record.
TaskShape ==
    \A t \in Tasks :
        /\ pc[t] = "idle" => step[t] = 0
        /\ pc[t] \in {"idle", "start"} => post[t] = "no"
        /\ pc[t] = "tail" => post[t] # "due"
        /\ post[t] = "due" => step[t] = Download
        /\ pc[t] # "idle" => JobOf(t) \in Jobs /\ step[t] \in Steps \cup {Done}
        /\ pc[t] = "slot" => step[t] \in SlotSteps
        /\ pc[t] \in {"status", "work", "checkpoint"} => step[t] \in Steps
        /\ pc[t] = "tidy" => step[t] = Import
        /\ pc[t] = "wipe" => result[t] = "cancelled"
        /\ pc[t] = "settle" => result[t] \in Verdicts
        /\ result[t] = "completed" => step[t] = Done
        /\ pc[t] \notin Ending \cup {"checkpoint"} => result[t] = "none"
        /\ pc[t] = "checkpoint" =>
              \/ result[t] = "none"
              \/ step[t] = Organize /\ result[t] = "path"
              \/ step[t] = Import /\ result[t] \in ImportDone \cup ImportAgain

\* No process, no tasks.
DownIsEmpty == loop = "down" => \A t \in Tasks : pc[t] = "idle"

\* A task that can still write to its job other than "completed".
Live(t) == Worker(t) \/ (pc[t] \in Ending /\ result[t] # "completed")

OneLiveTask ==
    \A t, u \in Tasks : Live(t) /\ Live(u) /\ JobOf(t) = JobOf(u) => t = u

\* What the row of a live task says: it is neither queued nor failed, so nobody can
\* claim or retry it, and its import has no verdict, so nobody can retry that.
LiveRow ==
    \A t \in Tasks :
        /\ pc[t] # "idle" => status[JobOf(t)] # "absent"
        /\ Live(t) /\ HasRow(JobOf(t)) =>
              /\ status[JobOf(t)] \notin {"queued", "failed"}
              /\ lcs[JobOf(t)] < Import
        /\ Worker(t) /\ HasRow(JobOf(t)) => lcs[JobOf(t)] = step[t] - 1

\* Until a task's first step its job has no other live task, and its row is as the claim
\* left it, or ended since.
FirstStep ==
    \A t \in Tasks : pc[t] = "start" =>
        /\ status[JobOf(t)] \notin ActiveStatuses \ {"starting"}
        /\ \A u \in Tasks : Live(u) /\ JobOf(u) = JobOf(t) => u = t

\* The only import verdicts that can be retried are recorded with the last step.
VerdictIsLast == \A j \in Jobs : imp[j] \in ImportAgain => lcs[j] = Import

\* The video is moved by the organize step, so never before the second checkpoint.
VideoAfterTranscode ==
    /\ \A j \in Jobs : status[j] # "deleted" /\ disk[j] \in Organized =>
                          lcs[j] >= Transcode
    /\ \A t \in Tasks : Worker(t) /\ step[t] \in SlotSteps =>
                          disk[JobOf(t)] \notin Organized

IInv ==
    /\ TypeOK
    /\ TaskShape
    /\ DownIsEmpty
    /\ OneLiveTask
    /\ LiveRow
    /\ FirstStep
    /\ VerdictIsLast
    /\ VideoAfterTranscode
    /\ ActiveHasTask
    /\ NoLostWakeup
    /\ SlotsConserved

\* A task that has organize behind it has a video in completed/.
PlacedTask(t) ==
    /\ pc[t] \notin {"idle", "tail"} /\ step[t] >= Import => disk[JobOf(t)] \in Organized
    /\ pc[t] = "checkpoint" /\ step[t] = Organize => disk[JobOf(t)] \in Organized

\* Where the video is known to be in completed/, as long as nobody deletes files.
\* Inductive together with IInv and CompletedHasVideo, if "delete" \notin UserOps.
PlacedByOrganize ==
    /\ \A j \in Jobs : lcs[j] >= Organize => disk[j] \in Organized
    /\ \A t \in Tasks : PlacedTask(t)
=============================================================================
