------------------------------- MODULE JobFolder -------------------------------
(***************************************************************************)
(* One job's folder in incomplete/ and its video in completed/: what a run *)
(* leaves there (download attempts, a transcode, the organize step), and   *)
(* what clears it: a cancel, History's "delete file" and the nightly sweep *)
(* (run_maintenance of backend/app/jobs/manager.py, sweep_incomplete of    *)
(* jobs/utils.py). delete_file and the sweep look at the row first and     *)
(* remove files later, with no lock in between. Each step may fail before  *)
(* and after what it does to the files, and the process may stop at any    *)
(* point. Organizer has the file operations of the move.                   *)
(***************************************************************************)
EXTENDS Naturals

CONSTANT Retries    \* options.retries

ASSUME FolderAssumption == Retries \in Nat

\* Contents of the folder: a video is as downloaded, or encoded once or twice; transcode's
\* marker, and organize's, which has the destination. A missing folder is an empty one; it
\* is fresh until it is older than the sweep's cutoff.
Videos  == {"none", "whole", "encoded", "twice"}
Removed == [fresh |-> FALSE, part |-> FALSE, final |-> FALSE, video |-> "none",
            temp |-> FALSE, marked |-> FALSE, placing |-> FALSE]
Encoded(v) == IF v = "whole" THEN "encoded" ELSE "twice"

VARIABLES
    profile,      \* the transcode the job asks for (never changes)
    status,       \* in the row; every active status is "running"
    lastStep,     \* last_completed_step in the row
    folder,       \* what the job's folder holds
    path,         \* whether the row has a completed_path
    delivered,    \* whether the video is in completed/
    stage,        \* where the job's run is
    tries,        \* which download attempt it is at
    deleting,     \* where delete_file is, and whether it read a completed_path
    fileDeleted,  \* file_deleted_at in the row
    taken,        \* whether delete_file removed the video from completed/
    sweep         \* where the nightly sweep is, and whether it keeps this folder

folderVars == <<profile, status, lastStep, path, folder, delivered, stage, tries, deleting,
                fileDeleted, taken, sweep>>
rowAndRun  == <<profile, status, lastStep, path, stage, tries>>
others     == <<deleting, fileDeleted, taken, sweep>>

Stages == {"download", "attempt", "downloaded", "transcode", "encode", "fallback", "replace",
           "mark", "transcoded", "organize", "place", "organized", "moved", "tidy", "finish"}

FolderTypeOK ==
    /\ profile \in {"off", "hardware", "software"}
    /\ status \in {"queued", "running", "completed", "failed", "cancelled"}
    /\ lastStep \in {"none", "download", "transcode", "organize"}
    /\ folder \in [fresh : BOOLEAN, part : BOOLEAN, final : BOOLEAN, video : Videos,
                   temp : BOOLEAN, marked : BOOLEAN, placing : BOOLEAN]
    /\ path \in BOOLEAN /\ delivered \in BOOLEAN
    /\ stage \in Stages \cup {"none"}
    /\ tries \in 0 .. Retries + 1
    /\ deleting \in {"no", "checked", "checked with path", "removed"}
    /\ fileDeleted \in BOOLEAN /\ taken \in BOOLEAN
    /\ sweep \in {"no", "keep", "sweep", "remove"}

FolderInit ==
    /\ profile \in {"off", "hardware", "software"}
    /\ status = "queued" /\ lastStep = "none" /\ path = FALSE
    /\ folder = Removed /\ delivered = FALSE
    /\ stage = "none" /\ tries = 0
    /\ deleting = "no" /\ fileDeleted = FALSE /\ taken = FALSE
    /\ sweep = "no"

At(s) == stage = s /\ status = "running"

\* The run ends and its verdict is written.
EndRun(verdict) == status' = verdict /\ stage' = "none"
Failed == EndRun("failed") /\ UNCHANGED <<lastStep, delivered>>

\* A run ends by a cancel: its folder goes.
Cancelled ==
    /\ EndRun("cancelled")
    /\ folder' = Removed
    /\ UNCHANGED <<profile, lastStep, delivered, tries, path, others>>

---------------------------------------------------------------------------
(* The run                                                                 *)

\* Claimed: the folder is made, and the step after the last completed one is next.
ClaimFolder ==
    /\ status = "queued"
    /\ status' = "running"
    /\ stage' = CASE lastStep = "none" -> "download" [] lastStep = "download" -> "transcode"
                  [] lastStep = "transcode" -> "organize" [] OTHER -> "finish"
    /\ folder' = IF folder = Removed THEN [folder EXCEPT !.fresh = TRUE] ELSE folder
    /\ UNCHANGED <<profile, lastStep, delivered, tries, path, others>>

DownloadCheck ==
    /\ At("download")
    /\ IF folder.final /\ folder.video # "none"
       THEN stage' = "downloaded" /\ UNCHANGED tries
       ELSE stage' = "attempt" /\ tries' = 1
    /\ UNCHANGED <<profile, status, lastStep, path, folder, delivered, others>>

\* One yt-dlp run: a video, an error worth another attempt, or the end. Leftovers stay for
\* the next attempt and go when the step fails.
Attempt ==
    /\ At("attempt")
    /\ \/ /\ stage' = "downloaded"
          /\ folder' = [folder EXCEPT !.fresh = TRUE, !.final = TRUE, !.video = "whole"]
          /\ UNCHANGED <<profile, status, lastStep, delivered, tries, path, others>>
       \/ /\ tries <= Retries
          /\ tries' = tries + 1
          /\ folder' = [folder EXCEPT !.fresh = TRUE, !.part = TRUE]
          /\ UNCHANGED <<profile, status, lastStep, stage, delivered, path, others>>
       \/ /\ Failed
          /\ folder' = [folder EXCEPT !.fresh = TRUE, !.part = FALSE]
          /\ UNCHANGED <<profile, tries, path, others>>
       \/ Cancelled

\* The cancel event is looked at before each step.
CancelledBeforeStep ==
    /\ At("download") \/ At("transcode") \/ At("organize") \/ At("finish")
    /\ Cancelled

\* The checkpoint is committed, or its transaction fails and the run with it.
CheckpointStep(from, done, next) ==
    /\ At(from)
    /\ \/ /\ lastStep' = done /\ stage' = next
          /\ path' = (path \/ from = "moved")
          /\ UNCHANGED <<status, delivered>>
       \/ /\ Failed
          /\ UNCHANGED path
    /\ UNCHANGED <<profile, folder, tries, others>>

\* Nothing asked for, or the marker is there. A run that resumes here reads final_path.
TranscodeDone_NoMarker == profile = "off"
TranscodeDone == profile = "off" \/ folder.marked

TranscodeCheck ==
    /\ At("transcode")
    /\ IF TranscodeDone
       THEN stage' = "transcoded" /\ UNCHANGED <<status, lastStep, delivered, folder>>
       ELSE IF ~folder.final THEN Failed /\ UNCHANGED folder
       ELSE /\ stage' = "encode"
            /\ folder' = [folder EXCEPT !.temp = FALSE]
            /\ UNCHANGED <<status, lastStep, delivered>>
    /\ UNCHANGED <<profile, tries, path, others>>

\* ffmpeg, by the profile's encoder and once more in software when that was hardware.
Encode ==
    /\ At("encode") \/ At("fallback")
    /\ \/ /\ folder.video # "none"
          /\ stage' = "replace"
          /\ folder' = [folder EXCEPT !.fresh = TRUE, !.temp = TRUE]
          /\ UNCHANGED <<profile, status, lastStep, delivered, tries, path, others>>
       \/ /\ IF stage = "encode" /\ profile = "hardware"
             THEN /\ stage' = "fallback"
                  /\ folder' = [folder EXCEPT !.temp = FALSE]
                  /\ UNCHANGED <<status, lastStep, delivered>>
             ELSE /\ Failed
                  /\ folder' = [folder EXCEPT !.temp = (folder # Removed)]
          /\ UNCHANGED <<profile, tries, path, others>>
       \/ Cancelled

\* os.replace, and then the marker: both need the folder.
Replace ==
    /\ At("replace")
    /\ IF folder.temp
       THEN /\ stage' = "mark"
            /\ folder' = [folder EXCEPT !.temp = FALSE, !.video = Encoded(folder.video)]
            /\ UNCHANGED <<status, lastStep, delivered>>
       ELSE Failed /\ UNCHANGED folder
    /\ UNCHANGED <<profile, tries, path, others>>

MarkTranscoded ==
    /\ At("mark")
    /\ IF folder # Removed
       THEN /\ stage' = "transcoded"
            /\ folder' = [folder EXCEPT !.marked = TRUE]
            /\ UNCHANGED <<status, lastStep, delivered>>
       ELSE Failed /\ UNCHANGED folder
    /\ UNCHANGED <<profile, tries, path, others>>

\* The organize step: skipped when its marker's destination is there and the video gone from
\* the folder. Else the video is probed and named, and the marker goes down, or it fails: no
\* video, an unreadable one, a collision under `ask`, a full disk.
IsOrganized_SourceGone == folder.video = "none"
IsOrganized == folder.placing /\ folder.video = "none" /\ delivered

Organize ==
    /\ At("organize")
    /\ \/ /\ IsOrganized
          /\ stage' = "organized"
          /\ UNCHANGED <<status, lastStep, folder, delivered>>
       \/ /\ ~IsOrganized /\ folder.final /\ folder.video # "none"
          /\ stage' = "place"
          /\ folder' = [folder EXCEPT !.placing = TRUE]
          /\ UNCHANGED <<status, lastStep, delivered>>
       \/ /\ ~IsOrganized
          /\ Failed
          /\ UNCHANGED folder
    /\ UNCHANGED <<profile, tries, path, others>>

\* _move: a video that is gone from the folder must be at its destination. Only this way
\* gives a path to record and a folder to remove.
MoveVideo ==
    /\ At("place")
    /\ \/ /\ folder.video # "none" \/ delivered
          /\ stage' = "moved"
          /\ delivered' = TRUE
          /\ folder' = [folder EXCEPT !.video = "none"]
          /\ UNCHANGED <<status, lastStep>>
       \/ /\ Failed
          /\ UNCHANGED folder
    /\ UNCHANGED <<profile, tries, path, others>>

\* The folder is disposable once the checkpoint is there.
TidyFolder ==
    /\ At("tidy")
    /\ stage' = "finish"
    /\ folder' = Removed
    /\ UNCHANGED <<profile, status, lastStep, delivered, tries, path, others>>

\* The import step, which leaves these files alone here, and the verdict.
FinishRun ==
    /\ At("finish")
    /\ EndRun("completed") \/ EndRun("failed")
    /\ UNCHANGED <<profile, lastStep, folder, delivered, tries, path, others>>

RunStep ==
    \/ ClaimFolder \/ DownloadCheck \/ Attempt \/ TranscodeCheck \/ Encode \/ Replace
    \/ MarkTranscoded \/ Organize \/ MoveVideo \/ TidyFolder \/ FinishRun
    \/ CancelledBeforeStep
    \/ CheckpointStep("downloaded", "download", "transcode")
    \/ CheckpointStep("transcoded", "transcode", "organize")
    \/ CheckpointStep("organized", "organize", "finish")
    \/ CheckpointStep("moved", "organize", "tidy")

---------------------------------------------------------------------------
(* Around the run                                                          *)

\* JobService.retry and retry_import: a failed job, or a completed one whose import arr
\* refused, goes back to the queue with its checkpoint.
Retry ==
    /\ status = "failed" \/ (status = "completed" /\ path)
    /\ status' = "queued"
    /\ UNCHANGED <<profile, lastStep, folder, delivered, stage, tries, path, others>>

\* JobService.cancel of a job that waits.
CancelQueued ==
    /\ status = "queued"
    /\ status' = "cancelled"
    /\ folder' = Removed
    /\ UNCHANGED <<profile, lastStep, delivered, stage, tries, path, others>>

\* delete_file reads the row, then removes the files, then writes the row.
DeleteFileCheck ==
    /\ deleting = "no" /\ status \in {"completed", "failed", "cancelled"}
    /\ deleting' = IF path THEN "checked with path" ELSE "checked"
    /\ UNCHANGED <<rowAndRun, folder, delivered, fileDeleted, taken, sweep>>

DeleteFileRemove ==
    /\ deleting \in {"checked", "checked with path"}
    /\ deleting' = "removed"
    /\ delivered' = (delivered /\ deleting = "checked")
    /\ taken' = (taken \/ (delivered /\ deleting = "checked with path"))
    /\ folder' = Removed
    /\ UNCHANGED <<rowAndRun, fileDeleted, sweep>>

DeleteFileMark ==
    /\ deleting = "removed"
    /\ deleting' = "no"
    /\ fileDeleted' = TRUE
    /\ UNCHANGED <<rowAndRun, folder, delivered, taken, sweep>>

\* The nightly tick: the ids to keep are read, then the folders are looked at one by one.
SweepRead ==
    /\ sweep = "no"
    /\ sweep' = IF status \in {"failed", "cancelled"} THEN "sweep" ELSE "keep"
    /\ UNCHANGED <<rowAndRun, folder, delivered, deleting, fileDeleted, taken>>

SweepLook ==
    /\ sweep \in {"keep", "sweep"}
    /\ sweep' = IF sweep = "sweep" /\ folder # Removed /\ ~folder.fresh THEN "remove" ELSE "no"
    /\ UNCHANGED <<rowAndRun, folder, delivered, deleting, fileDeleted, taken>>

SweepRemove ==
    /\ sweep = "remove"
    /\ sweep' = "no"
    /\ folder' = Removed
    /\ UNCHANGED <<rowAndRun, delivered, deleting, fileDeleted, taken>>

\* Days pass while nothing writes to the folder.
Age ==
    /\ folder.fresh /\ status # "running"
    /\ folder' = [folder EXCEPT !.fresh = FALSE]
    /\ UNCHANGED <<rowAndRun, delivered, others>>

\* The process stops and starts again: a running job is queued, or failed without auto_resume;
\* delete_file and the sweep are gone.
StopAndResume ==
    /\ status' \in IF status = "running" THEN {"queued", "failed"} ELSE {status}
    /\ stage' = "none"
    /\ deleting' = "no" /\ sweep' = "no"
    /\ UNCHANGED <<profile, lastStep, folder, delivered, tries, path, fileDeleted, taken>>

FolderNext ==
    \/ RunStep \/ Retry \/ CancelQueued \/ Age \/ StopAndResume
    \/ DeleteFileCheck \/ DeleteFileRemove \/ DeleteFileMark
    \/ SweepRead \/ SweepLook \/ SweepRemove

FolderSpec == FolderInit /\ [][FolderNext]_folderVars
---------------------------------------------------------------------------
(* Properties                                                              *)

\* A job is only completed with its video in completed/, unless delete_file took it from
\* there: also when the sweep, or a "delete file" that looked before a retry, empties the
\* folder under the run, when a step fails and is retried, or when the process stopped
\* after the move.
CompletedHasFile == status = "completed" => delivered \/ taken

\* Once its marker is down, a video is not encoded again: not after a restart or a failure
\* before the checkpoint, a failed organize, a retry or a fallback.
MarkedIsFinal ==
    [][folder.marked => folder'.video \in {folder.video, "none"}]_folderVars
=============================================================================
