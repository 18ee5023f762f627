# fetcharr in TLA+

fetcharr is a self-hosted web UI around yt-dlp: a user pastes a link, fetcharr downloads
the video into a work folder, re-encodes it if asked, moves it to `completed/` under a
library name and asks Radarr or Sonarr to import it. Everything runs in one asyncio process
over SQLite. These modules model the parts of it where order matters: the durable job queue, the
organizer that moves the files, the import into Radarr and Sonarr, and the services around them
(cookies, work folders, the live page, sessions, settings, backups and so on). TLC checks them on
small instances and TLAPS proves the main safety properties for all sizes.

    cd tla
    tlc -config OneJob.cfg MCJobManager.tla     # TwoJobs, Delete, Liveness, LostImport, LostStart
    tlc -config OneVideo.cfg MCOrganizer.tla    # TwoVideos, KeepBothRace
    tlc -config Import.cfg MCImportStep.tla     # TypedTitle
    tlc -config Services.cfg MCServices.tla
    tlapm JobManagerProofs.tla                  # some minutes from nothing; so are CancelProofs,
                                                # OrganizerProofs, DeliveryProofs, ImportProofs,
                                                # ServiceProofs, StoreProofs, MCServicesProofs

Source paths below are relative to `backend/app/`.

## Inventory

| Component | State it keeps | Operations | Hard behaviour | What makes it correct |
|---|---|---|---|---|
| job manager (`jobs/manager.py`) | claim loop, wake event, registry of tasks and cancel events, two semaphores | claim, start, forget, set status, checkpoint, finish, cancelled, recover, maintenance | tasks, API calls and background writes interleave at every await; restart in the middle | one worker per job, no status of a step without a task, verdicts final, no lost wake-up, slots conserved |
| pipeline (`jobs/pipeline.py`) | a run's context | download, transcode, organize, import, each behind a done-check | cancel between two checks; crash between a step's effect and its checkpoint; import retries | steps neither repeated nor skipped; a completed job has its video |
| job API (`jobs/service.py`) | the rows | cancel, retry, retry_import, delete, delete_file | each runs beside the job's task | accepted calls take effect, refused ones change nothing |
| organizer (`library/organizer.py`) | destination marker, files | organize, is_organized, sidecars, collisions | crash between moves; two jobs, one destination | no file lost or overwritten; every path recorded |
| arr client (`integrations/arr.py`, `arr/service.py`) | connection, import lock, library cache | command, poll, verify, rejections, pickers | timeouts, lost answers, commands that outlive their poll, slow readers of one cache | one sender at a time, no false `imported`, every import ends, a list no older than promised |
| yt-dlp runner (`ytdlp/runner.py`) | a subprocess | attempts, retries, kill on cancel | cancel against exit, retry schedule | bounded attempts, fatal errors end it |
| transcoder (`transcode/runner.py`) | a subprocess, a marker | encode, fall back, replace the source | crash between rename and marker | source replaced at most once |
| database (`db/session.py`) | one writer lock | read and write sessions | FIFO order of writers | writes are serial |
| retention (`jobs/utils.py`, manager) | folders under `incomplete/` | nightly sweep | reads rows, then deletes folders | never a folder in use |
| backup (`db/backup.py`) | dated copies | nightly, pre-migration | removes today's copy first | newest copies survive |
| sites and cookies (`sites/`), inspections | one encrypted file per site, a cache | upload, use, write back, flag, purge | overlapping runs with old cookies | an upload is not undone |
| event hub (`events/service.py`) | snapshots, bounded queues | publish, subscribe, forget | slow subscribers | a reader converges |
| requests (`requests/`), naming (`library/naming.py`) | request and job rows | inspect, preview, create, claim, place | a path is built twice, from different rows, with inspections and settings changing in between | the file goes where the preview said; every name is legal and fits |
| settings (`settings/`) | key-value rows, environment, SECRET_KEY | PATCH, read | overlapping merges, a refusal half-way, a lost key | no accepted value is undone |
| presets (`presets/`) | rows | create, update, delete | an update that changes the media type of a default | one default per type |
| authentication (`auth/`) | one user row, sessions, an in-memory login window | setup, login, slide, logout, password change, hit | a request slides a session that was signed out; window boundary | signed out stays out; the limit holds |
| live page (`frontend/src/features/jobs/`) | the list a page fetched, its stream | fetch, merge | an event overtakes an answer | an open page converges |
| system pages (`system/`) | none | disk and path checks | none | none |

Interactions: the API services and the manager share the rows (through the writer lock) and
call `wake` and `request_cancel` on the manager; the manager runs the pipeline as one task
per job; the pipeline calls the runners, the organizer and the arr client and reports back
through `checkpoint` and `set_status`; everybody publishes to the event hub.

## Modules

| Module | What it is |
|---|---|
| `JobContract` | what the queue promises of every job: one worker, from the queue, its steps in order and recorded when done, the video kept |
| `JobManager` | the job queue: manager, pipeline control, job API, crash and recovery; its properties; implements `JobContract` |
| `JobManagerInv` | the inductive invariant `IInv` and `PlacedByOrganize`, in named parts |
| `MCJobManager` | the instance for TLC: adds the symmetry of the tasks |
| `JobManagerProofs` | TLAPS proofs for any environment |
| `CancelProofs` | TLAPS proofs about cancels, where nobody retries or deletes |
| `Delivery` | what the organizer promises: each file in one place, whole, moving on only |
| `Organizer` | the organize step, one action per file operation, for jobs of one name; implements `Delivery` |
| `MCOrganizer` | the starting cases for TLC |
| `OrganizerProofs` | TLAPS proofs: folders and names |
| `DeliveryProofs` | TLAPS proofs: whole files, and the refinement of `Delivery` |
| `ImportStep` | the import step of the jobs of one arr app: lock, commands, polling, verification, attempts, with arr as an external actor |
| `MCImportStep` | its starting cases for TLC |
| `ImportProofs` | TLAPS proofs |
| `JobFolder` | one job's folder: download attempts, transcode, organize, against cancel, delete_file and the nightly sweep |
| `SiteCookies` | the cookie file of a site, its users, and the inspection cache |
| `LiveView` | commits, the event hub and one queue page |
| `Account`, `LoginLimit` | sessions; the login window |
| `Presets`, `SettingsStore` | the default per media type; overlapping PATCHes |
| `Backup` | nightly and pre-migration copies |
| `Pickers` | the cached arr lists |
| `Requests`, `Names` | from inspect to a placed file; one file or folder name |
| `MCServices` | one run for the eleven modules above from `JobFolder` on |
| `ServiceProofs` | TLAPS proofs about `Presets`, `Account`, `SiteCookies`, `JobFolder`, `Names` |
| `StoreProofs` | TLAPS proofs about `SettingsStore`, `Backup`, `LiveView`, `Pickers`, `Requests`, `LoginLimit` |
| `MCServicesProofs` | TLAPS proofs that each service moves alone in `MCServices`, and keeps its types and its properties |

### How JobManager corresponds to the code

| Variables | Code |
|---|---|
| `status`, `lcs`, `cancelReq`, `imp`, `path` | `jobs` row: status, last_completed_step (as a position in STEPS, 0 for none), cancel_requested, import_status, whether completed_path is set |
| `disk` | what the job's folder and its destination hold |
| `calls` | API calls that still have a part to do after an await |
| `registry` | `JobManager._cancels` and `_jobs`, both keyed by job id |
| `free` | `_slot` and `_transcode_slot` |
| `loop`, `wake` | `_run_loop` and its event |
| `pc`, `step`, `ctx`, `cancelled`, `post`, `result` | one asyncio task: its place in `_run_job`/`execute`, its step, what `_Claimed` took from the row, its cancel event, its spawned `postprocessing` write, the fields of its next checkpoint or its verdict |

A task is created and registered by the claim (`start`) and begins with an iteration of the event
loop of its own (`RunJob`): its first step looks up its cancel event, and where the done-callback of the
job's last task has come in between it finds none and dies (`LostStart`). After that it goes `gate`
(check the cancel event, then the step's done-check) → `slot` (wait for the semaphore, download and
transcode only) → `status` (commit the step's status) → `work` →
`checkpoint` → `gate` of the next step, with `tidy` (rmtree) after the organize checkpoint.
It ends in `settle` (the verdict), for a cancel by way of `wipe` (rmtree), and then in `tail`
(`_publish_summary`, still registered) until `Forget`, the done-callback. Each arrow is one
action; the API calls and restarts are actions of their own. The claim loop's next claim needs the
database, so it comes after that first step.

**The contract.** `Contract` in `JobManager` reads the state of `JobContract` off the queue: `waiting` is
the rows that say `queued`, `doing` the steps that live tasks of the job are at (a set, so that a second
worker would show), `recorded` the checkpoint, `video` none, in the work folder or in the library.
`KeepsContract` says that what is read off is a behaviour of the contract. Its one freedom beyond the
order of steps is a retry of the import; its `Deletes` is whether users delete, since after that
neither a row nor a video can be asked for.

**Grain.** An action is one write session with the code that follows it up to the next await,
or one filesystem call, or the end of one wait. Write sessions are serialised by
`Database._write_lock`, which is FIFO: a write a task spawns comes before the writes the task
itself makes later (`NoWriteDue`). `JobService.cancel` calls `request_cancel` inside its write
session, so it is one action; its rmtree (`CancelRmtree`) is another. Recovery finishes before
the application serves requests, so it is one action.

**Left out of JobManager.** Progress numbers, log lines, published events, timings and error
texts: no property is about them. Database errors: no write fails. What arr does with a video
after it was moved: `disk` says the video *reached* `completed/`. The inside of the organizer
(`OrganizeOk`; module `Organizer`), of a transcode's last step (rename and marker), and
of the import (one action with every verdict; module `ImportStep`). The files of a download and a
transcode are `JobFolder`.

### How Organizer corresponds to the code

| Variables | Code |
|---|---|
| `files` | what is in each job's folder, under each name in `completed/` (0 is the plain name, n is ` (n)`), in `_replaced/<job>/`, and in the `.fetcharr-partial` of each of these |
| `marker` | `organize_target` in the job's folder |
| `pc`, `dest`, `found`, `todo` | a run of `_organize`: its place, its destination, its sidecars, the moves still to make |
| `moving`, `held` | a copying `_move`: its file and phase, the content it read |
| `original`, `policy`, `oneVolume` | the files there were at first, each job's policy, whether a move is a rename; they never change |

The two modules meet at the organize step. `JobManager` gives `Organizer` what it relies on, one
run per job at a time (`OneWorkerPerJob`) and no run after the organize checkpoint
(`CheckpointsHold`); `Organizer` refines its `OrganizeOk`, `IsOrganized` and `Tidy` into file
operations. `Name` ... `Pin` are `organize` and `_resolve_collision`; `MovedBefore` ...
`UnlinkSource` are `_move`, as one rename or as a copy in four steps; `Return` ... `Tidy` are the
rest of `_organize`. Every failure ends a run as it stands (`Fail`), and `Crash` ends them all.

**Grain.** One file operation with the tests before it. A file being written is `Half(j)` under
whatever name it has; an unlinked, truncated or renamed partial therefore behaves as on a POSIX
file system, and when its writer stops it is `Torn` for good.

**Left out.** More than one sidecar; the folders created on the way; escapes through symlinks
(`_guard`); the names themselves (jobs of different names share no file); users and arr taking
files out of `completed/`. Two different whole files of a kind are taken to differ in size, which
`_move` uses to recognise its own work. Only the plain name can be taken at first.

### How ImportStep corresponds to the code

| Variables | Code |
|---|---|
| `file`, `open` | external: where each job's file is, and the commands arr has taken and not finished |
| `imp` | `import_status` in the job's row |
| `lock` | `import_lock` of the arr client |
| `pc`, `attempt`, `command`, `outcome` | one `_import`: its place, its attempt (tenacity), the command it polls, the verdict it will checkpoint |
| `setup` | which app, whether it is configured, which titles were picked (and so have an arr id), which it had a file of before |

`exists` → `lookup` is `_verify`, once before the lock is taken and once under it; `lock` → `send`
(→ `fallback`, the folder for a refused episode) → `poll` is the command; `rejections` asks why the
file is still there; `sleep` is the wait between attempts; `checkpoint` the one write at the end. An
error (`Fail`) leaves the lock on every way out and is tried again when it is transport or 5xx.

arr is not trusted: it may take a command and answer an error, finish any command at any time, or
never, move the file or leave it; a restart of fetcharr ends nothing in arr. `JobManager` relies on
what this module shows of its import action: that it ends (`ImportEnds`) and that its verdict is
one of the three.

### How the services correspond to the code

| Module | Variables | Code, and the steps that are split |
|---|---|---|
| `SiteCookies` | `cookies`, `site` rows; `at`, `took`, `plain` of each run; `cached`; `blamed` and `overlap` for the properties | `sites/service.py`, `_download` and `_run_with_cookies`, the cache of `inspections/service.py`. Reading the cookies, writing them down, yt-dlp, writing back or flagging, and caching are separate transactions; an upload is filtered before it is saved |
| `JobFolder` | `folder`, `delivered`, `path`; `stage`, `tries` of the run; `deleting`; `sweep`; `taken` for the property | the steps of `pipeline.py`, `ytdlp/runner.py` and `transcode/runner.py`; organize as its marker and its move, each of which may fail with the video where it is, and every checkpoint may fail too; a retry or an import retry takes the job up again; `delete_file`: check, remove, mark; the sweep: ids, look, rmtree |
| `LiveView` | `stored`, `owed`; `link`, `queue`; `page`, `fetch` | a commit and its publish; `events/`; `features/jobs/events.ts`. A fetch is asked, answered, received, or fails. `Refetch` is `invalidateQueries`: it repeats a fetch that is on its way only when the page already has a list; the very first fetch is joined (TanStack Query) |
| `Account` | `expires`, `verified`, `sliding` | `auth/service.py`: the password is verified before the session is written, a session is read before it is slid |
| `LoginLimit` | `attempts`, with `granted`, `refusal` for the property | `LoginRateLimiter`, in fractions of a second as `time.monotonic` counts them |
| `Presets` | `presets` | one transaction per call |
| `SettingsStore` | `rows`, `body`, `read`; `fromEnv`, `lostKey` | `update` in its write session, with the lock that makes the next PATCH wait |
| `Backup` | `nightly`, `premigrate`, `copying` | `db/backup.py`: unlink, copy, prune; a failing or stopped copy leaves a damaged file |
| `Pickers` | `app`; `cache`, `calls`; `picker`, the list the step answered; `library` is arr's | `arr/service.py` and the two clients' caches: the clock, the request, the answer, and how it is narrowed: "missing" (Radarr: monitored and without a file; Sonarr: without files, monitored or not), the query, then the limit |
| `Requests` | `inspections`, `naming`, `media`, `items`, `request`, `jobs`, `placed` | preview and create of `requests/service.py`, `_Claimed.target`, `build_path`, and what `_resolve_collision` makes of a name that is taken. A path has the quality it is rendered with: `Estimated` in the preview, what ffprobe reads in `Place` |
| `Names` | `title`, `name`, `writing` | `_name` of `library/naming.py` with `sanitize`: texts are short sequences over the characters the code tells apart |

The services share no state and no property relates two of them, so `MCServices` checks them in
one run: `focus` picks the one that moves in a behaviour and the others stand still. Its state
space is the sum of theirs and not the product.

### Bounds and environment

* `NJobs`, `Tasks`: jobs ever created, tasks alive at once. Two jobs are enough for contention
  on a semaphore and for the queue order; three tasks for one job are enough for a task that is
  ending, one that is running and one more.
* `UserOps`, `Crashes`: which API calls and whether restarts happen in a run. They switch the
  environment only; each run names those its question needs.
* `Jobs`, `MaxNumber`: one job for what a restart may do, two for what they do to each other; a
  name per job and one for the old file are all the numbers that can be taken.
* `Starts`: which files of that name `completed/` holds, with which policies. `OneVideo` takes all
  but a replaced video with a subtitle, the case of the lost subtitle below.
* `Import.cfg`: two jobs for the lock, two attempts so that there is one to repeat and one that is
  the last, one unfinished command per job. `MaxOpen` makes arr answer 5xx beyond it, which it may
  do at any time. All titles: picked or typed, with an older file in arr or not.
* `SiteCookies`: two downloads and an inspection, two uploads: one file to be replaced and one that
  replaces it, with two runs that hold old cookies.
* `JobFolder`: one retry, so a download has a first and a last attempt; every transcode profile.
* `LiveView`: a queue of two overflows with the events of one job.
* `Account`, `LoginLimit`: the clock passes the lifetime and the window with ticks to spare;
  half-second ticks make the rounding of the wait visible.
* `Backup`: one more day and start than are kept, twice over.
* `Pickers`: more titles than the limit, more seconds than the cache's time, a query that all titles
  match and one that some do (`Queries`). One title of the library changes in a second
  (`OneChange`): a stale answer needs one title that changes while a call is on its way.
* `Names`: limits of four and six bytes with titles of up to three characters, some of two bytes,
  over one ordinary letter (`Letters`) and the characters that a rule is about; the proof is for
  any letters.
* `Requests`: two videos, two namings, two qualities so that the guess can be wrong, one inspection
  more than the request needs when it has one item; references to episodes with and without a
  season, a number and an air date. No inspection starts or expires once the request is made
  (`NoMoreInspections`): nothing reads one after that.
* `OneChange` and `NoMoreInspections` are bounds of `MCServices` only: `StoreProofs` proves the
  properties of both modules without them.
* Rows are created, and so claimed, in the order of their ids (`_claim` orders by creation).
* A request with several items creates its rows in one transaction; the model creates them one
  after the other.

## Runs

States are distinct states.

| Run | Instance | Checks | States |
|---|---|---|---|
| `OneJob` | 1 movie with transcode, 3 tasks, cancel, retry, retry_import, restarts | `OneWorkerPerJob`, `QueuedHasNoWorker`, `ActiveHasTask`, `CompletedHasVideo`, `KeepsContract`, `CheckpointsHold` | 775 k |
| `TwoJobs` | 2 jobs, 2 tasks, 1+1 slots, cancel, restarts | `SlotsConserved`, `NoLostWakeup`, `CancelledIsQuiet`, `TerminalIsFinal` | 302 k |
| `Delete` | 1 job, 2 tasks, all calls, restarts, AUTO_RESUME off | `IInv` (with `TypeOK`), `VideoStays` | 298 k |
| `Liveness` | 2 jobs, 2 tasks, cancel, no restart, fairness | `CancelNotIgnored`, `QueuedSettles`, `CancelEnds` | 161 k |
| `OneVideo` | 1 job, renames or copies, all policies, failures, restarts | `TypeOK`, `FinalNamesAreWhole`, `KeepsPromise` | 1 k |
| `TwoVideos` | 2 jobs of one name, renames or copies, all policies, restarts | `OneName`, `FolderIsSpent` | 623 k |
| `Import` | 2 imports, 2 attempts, arr that does anything, retries, deletes, restarts, fairness | `TypeOK`, `ImportedHasLeft`, `LockIsReturned`, `ImportEnds`, `ArrsFileIsFound` | 223 k |
| `Services` | each service alone | `ServicesTypes` and the properties below | 1 170 k |

What `Services` shows, one service at a time:

| Property | Says |
|---|---|
| `FreshStart` | with uploads and runs one after the other, the stored cookies are of the last upload and flagged only for their own failures |
| `PlaintextEndsWithRun` | a plaintext cookie file is on disk only while its run needs it |
| `CompletedHasFile` | a completed job's video is in `completed/`, unless delete_file took it from there; a delete_file that looked before a retry, or the sweep, may cost the job its folder, but never gives a false `completed` |
| `MarkedIsFinal` | a marked video is not encoded again, also when organize fails after the marker and the job is retried |
| `PageIsCurrent` | an open page shows the row once all was merged, unless its queue overflowed or an answer crossed a status; the first answer also not when it was read before the stream opened |
| `SignedOutStaysOut`, `ActiveStaysSignedIn` | no late slide revives a session; one that is used lasts |
| `WindowIsExact` | never too many logins in any window; the wait that is told is enough |
| `OneDefaultPerType` | one default preset per media type |
| `SettingsCompose` | overlapping PATCHes undo nothing, a refused one changes nothing |
| `BackupsStay` | a finished copy stays whole until enough newer ones of its kind were begun |
| `PickerIsRecent` | a picker is no older than the cache allows, a refresh not older than its call; a title that the query matches, and that was missing if only the missing are asked for, is left out for the limit alone |
| `NameFits` | a name fits, is legal, and loses the episode title first |
| `PreviewIsKept` | the file is of the video that was inspected, and goes to the folder and name the preview said, but for the quality and the number of `keep_both`; only a collision under `ask` refuses it |

`KeepsContract` and `KeepsPromise` are the refinements. `JobManager` seen through `Contract` is a behaviour
of `JobContract`: with retries, restarts and up to three tasks overlapping, the job sees one worker,
which begins from the queue after the last record. `Organizer` with `place` read off the file system is a behaviour
of `Delivery`, so no file is lost or comes back, and a video is never in `completed/` with its
subtitle still in the folder. A copied file counts as delivered once it has its final name, while
its source is still to be removed.

`CHECK_DEADLOCK FALSE` appears where all jobs can be done for good, or where restarts
are switched off: a server whose jobs have all ended waits for the next request. In `Services` a
placed request, a written name and a used-up bound end a behaviour in the same way.

**Fairness** (`Fairness`). Weak fairness on the claim loop, recovery, every step of a task, its
background write and the rmtree of a cancel: the event loop runs what is ready, and yt-dlp,
ffmpeg, a move and an import end (subprocess exit or kill, bounded retries and timeouts).
Strong fairness on taking a slot: `asyncio.Semaphore` wakes waiters in order, so one that is
free again and again is granted. Nothing is assumed of users, restarts or progress lines.
`Liveness` allows no restarts because a process that restarts for ever finishes nothing.

`ImportStep`'s `FairSpec` has weak fairness on every step of an import (requests and polls have
timeouts, so each goes on to some outcome) and strong fairness on taking the lock: `asyncio.Lock`
serves its waiters in turn, and whoever waits is next after those already in line. Nothing is
assumed of arr, of users or of restarts; `ImportEnds` and `ArrsFileIsFound` except behaviours with
restarts for ever, in which no import need come to its end.

## Disagreements

Where a comment, docstring or test says one thing and the code does another. Each was met while
writing the models. Four have a run that expects the violation, with a shortest trace in TLC's
output:

| Run | Says | What happens |
|---|---|---|
| `LostImport` | `jobs/service.py:135` "The checkpoint stays at `organize`, so the claim loop resumes at `import`." | An import retry between the import checkpoint and the verdict is overwritten by `completed`; the import stays pending and cannot be retried. |
| `KeepBothRace` | `tests/library/test_organizer.py:216` "test_other_always_keeps_both" | Nothing keeps two jobs of one name apart: both find the name free, and the second rename replaces the first video. |
| `TypedTitle` | `jobs/pipeline.py:497` "The file is still there, so arr refused it." | arr takes the file of a title that was typed, so there is no arr id to look up (`jobs/pipeline.py:557`): the import ends `not_imported`, and does so on every retry. |
| `LostStart` | `jobs/constants.py:36` "A job the JobManager still owns; a restart resumes or fails these (§6.1)." | A failed job is retried and claimed while its old task still publishes its summary. `_forget` removes by job id, so that task's callback can take the new task's event before its first step (`jobs/manager.py:313`), which raises KeyError outside the `try`: the row stays `starting`, with no task, until a restart. |

The others are stated as properties in their modules, which a run can be pointed at:

| Property | Says | What happens |
|---|---|---|
| `CancelledNeverOrganized` (`JobManager`) | `jobs/constants.py:46` "Cancel is only possible before the organize step starts (§6.1)." | The step starts (last check) before its status is committed. A cancel in between is accepted, the video is moved, and the next gate reports the job cancelled. |
| `NothingToSignal` (`JobManager`) | `jobs/service.py:94` "Nothing to signal: it never left the queue, so finish it here." | `_forget` removes by job id: the old task's callback drops the entry of the new one, and a cancel then finishes a job that is running. |
| `OrganizeRecordsPath` (`JobManager`) | `jobs/pipeline.py:414` "organize always records it" | Stop between the move and the organize checkpoint: the resumed run finds the step done and records no path, so the import step fails. |
| `SafeToRunAgain` (`Organizer`) | `library/organizer.py:81` "Safe to run again after any crash." | Under `replace`, a stop after the old video was put aside and before its subtitle was: the next run sees no collision, and the new subtitle overwrites the old one. |
| `NextInspectSeesUpload` (`SiteCookies`) | `sites/service.py:105` "Cached inspections ran without these cookies; the next inspect must see them." | An inspection made before its custom site existed has no site to be purged by; one that still runs during the upload is cached after the purge. |

How far the claims do hold is proved (*Proofs*):

| Claim | Holds | Theorem |
|---|---|---|
| `CompletedHasImportVerdict` | where no import is retried, with every other call and with restarts | `CompletedIsImported` |
| `OrganizeRecordsPath` | within one life of the process, with every call | `OrganizeRecords` |
| `NothingToSignal` | where the calls are requests and cancels, with restarts | `OnlyWaitingIsFinished` |
| `StartingHasTask` | where the calls are requests and cancels, with restarts | `StartingIsOwned` |
| `SafeToRunAgain` | for a job on its own, whatever the library starts with but a subtitle without a video, or one that is to be replaced | `LoneJobLosesNothing` |

One more is outside the modules: "Every (re)connect refetches, so nothing missed while disconnected stays
stale" (`frontend/src/features/jobs/events.ts:37`). A connect while the page's first list is on its
way does not: `invalidateQueries` joins a fetch of a query that has no data yet, and an answer that was
read before the subscription stays on the page. `LiveView` has that step, and `PageIsCurrent` leaves
it out through `missed`.

The stale registry entry of `NothingToSignal` and `LostStart` has one more effect: a cancel of the requeued
row signals the finished task, and the row stays queued. And after a restart a job with only its
import left is `starting`, so cancellable, while the import never looks at the event
(`CancelNotIgnored` fails in `Liveness.cfg` with `Crashes = TRUE`).

The properties that pass are stated around these. Without a lock two jobs of one name can also
expose a half-written file or a video without its subtitle, so `KeepsPromise` and
`FinalNamesAreWhole` are promises about a job on its own, and `TwoVideos` checks what is left.
Where uploads and runs overlap, a run with old cookies flags the new file or writes its own over it,
so `FreshStart` is about calls one after the other. "Import commands to one arr app run one at a
time" (`integrations/arr.py:167`) holds of what fetcharr sends and polls (`LockIsReturned`), not of
what arr runs: after a polling timeout or a lost answer the next command follows while arr still
works on the first. A file the user deleted through delete_file counts as gone from `completed/`, so
an import retry can then say `imported` when arr has another file of the title.
`CancelNotIgnored` is checked within one life of the process and without retries,
`CancelledIsQuiet` and `TerminalIsFinal` without retries, `CompletedHasVideo` without deletes (a deleted row or file has no video to ask for).

## Proofs

The assumptions on constants are named in the component modules, and TLC evaluates them in the runs.
What a theorem assumes beyond them is in its statement and in the tables here.

### Jobs

`JobManagerProofs` and `CancelProofs`, for every `NJobs`, finite `Tasks`, positive slot counts and every
choice of `Imports`, `Transcodes` and `AutoResume` (`NJobsAssumption`, `TasksAssumption`,
`SlotsAssumption`, `OptionsAssumption`):

| Theorem | Says | Where |
|---|---|---|
| `Invariant` | `Spec => []IInv` | any `UserOps`, `Crashes` |
| `TypeCorrect`, `OneWorker`, `QueuedIsIdle`, `ActiveIsOwned`, `NoWakeupIsLost`, `SlotsAreConserved` | the invariants of the runs, from `IInv` | any |
| `CheckpointsAreDurable`, `VideosStay` | the action properties of `OneJob` and `Delete` | any |
| `QueueKeepsContract` | `KeepsContract`, the refinement of `JobContract` | any |
| `CompletedIsPlaced`, `OrganizedIsPlaced` | `CompletedHasVideo`, `PlacedByOrganize` | no deletes |
| `CompletedIsImported` | `CompletedHasImportVerdict` | no import retries |
| `OrganizeRecords` | `OrganizeRecordsPath` | no restarts |
| `CancelledJobsAreQuiet`, `VerdictsAreFinal`, `OnlyWaitingIsFinished`, `StartingIsOwned` | `CancelledIsQuiet`, `TerminalIsFinal`, `NothingToSignal`, `StartingHasTask` | no retries or deletes |
| `CancelsAreObeyed` | `CancelNotIgnored` | no retries or deletes, no restart |

The restrictions are the code's. A retry takes back a verdict on purpose, and through the stale
registry entry of `NothingToSignal` it may leave a task on a job whose row says cancelled, or a claimed row without
one; a restart
forgets the event of a cancel (*Disagreements*); a deleted video is not there, and a deleted row has
no verdict. So the last group is stated with `UserOps \subseteq {"cancel"}`.

**Why IInv looks as it does.** `OneWorkerPerJob` is not inductive: a claim is safe
because a queued row has no worker (`QueuedHasNoWorker`), a retry because a failed one has
none, and an import retry because its verdict is only recorded with the last step. So the
induction is over tasks that can still write to their job, `Live`: those with a step to run,
and those about to record `failed` or `cancelled`. A task about to record `completed` is left
out on purpose, since an import retry may requeue the row under it (the run `LostImport`).
`LiveRow` says that the row of a live task is neither queued nor failed and has not finished
its last step, and that a worker's step follows the row's checkpoint; `FirstStep` that a task which has
not begun is its job's only live one and its row still `starting` or ended, so that its death by a KeyError
leaves no other status without a task; `VerdictIsLast` that a
retryable import verdict comes with the last step; `OneLiveTask` then follows for each action.
`VideoAfterTranscode` (a video in `completed/` means two checkpoints are behind it) excludes a
second download. `SlotsConserved` needs the shape of a task only, and cardinalities of the set
of holders. `PlacedByOrganize` and `CompletedHasVideo` are inductive together on top of it
(`PlacedInv`). The steps are grouped: `QuietStep` treats all that record nothing, and `Claim`,
`Checkpoint`, `Settle`, `Forget`, the API and restart have a lemma each.

**The contract.** `QueueKeepsContract` shows each step of `JobManager` to be one step of `JobContract` or a
stutter (`NextKeepsContract`, by group of actions). One lemma per action of the contract says what a step of
the queue must do to be seen as it (`SeenEnqueue`, `SeenBegin`, `SeenRecord` and so on); the others say which steps
change nothing that is seen. `IInv` is not enough: a late `postprocessing` write must not take a
row out of the queue or put one in, so it must belong to a task at its download, and a `completed`
verdict to one with no step left (`Late`); that the organize step is recorded only with the video
in the library is `PlacedByOrganize`, which holds without deletes. `ContractInv` joins them, and says
nothing of videos where `Deletes`.

**Verdicts and paths.** `VerdictKnown` says that a task through with its import, by its own checkpoint or by
what it took from the row, finds the import decided; `PathKnown` that a moved video has its path in the
row or in the checkpoint its task is about to write. The first is inductive without import retries, the
second without restarts; what breaks each is the step that *Disagreements* shows.

**Cancels.** `IInv` leaves out tasks about to complete, so it cannot say that a verdict is final. Without
retries more is true, and `CalmInv` adds it: a registry entry is its job's one task (`Registered`),
and the row says by its status whether that task has written its verdict (`RowTells`). Every active row
has an entry (`HasEntry`), so a task's first step finds its event: `StartingIsOwned`. A late
`postprocessing` write then meets an active row, and a cancel finds a task that will see its event.
`ObeyInv` follows the event: an accepted cancel of a claimed job sets it (`EventSet`), one of an
unclaimed job ends it (`Unclaimed`), and a task with its event set and a cancellable row has a look
ahead of it before any completed verdict (`Looks`). It stands on `PlacedInv` because the import step
looks at no event: the row must be past cancelling by then.

### Files

`OrganizerProofs` and `DeliveryProofs`, from `JobsAssumption`, `SwitchAssumption` and
`StartsAssumption`, with failures and restarts at any point:

| Theorem | Says | Where |
|---|---|---|
| `TypeCorrect`, `NothingIsSwept`, `VideoHasOneName` | `TypeOK`, `FolderIsSpent`, `OneName` | any set of jobs of one name, any policies and starting files, one or two volumes |
| `FinalFilesAreWhole` | `FinalNamesAreWhole` | any jobs on one volume, or one job |
| `PromiseKept` | `KeepsPromise`, the refinement of `Delivery` | one job, `PairedStarts` |
| `LoneJobLosesNothing` | `SafeToRunAgain` | one job, `PairedStarts` |

Two jobs of one name that are copied share a partial file, and one may rename what the other is writing
(`KeepBothRace` without the rename); so wholeness is proved where no two copies meet. `PairedStarts`
excludes a library that starts with a subtitle without a video, or with one and the policy
`replace`: there a stop loses the old subtitle (`SafeToRunAgain`), so the refinement is false. It
allows every other start, among them all those of `OneVideo`.

* `FolderKnown` says that a run accounts for everything in its folder: as a found sidecar before
  the marker is written, then as a move still to make. It is inductive because a folder only ever loses
  files (`MoveShrinks`, `OtherShrinks`) and a move leaves `todo` only when its source is gone
  (`MoveKnown`).
* `OneName` needs `NameInv`: the marker, while it is there, is the job's destination
  (`MarkerIsDest`); a file of the job in `completed/`, finished or not, is under that number, which
  is settled by then (`Named`); and a folder holds files of its own job only (`OwnFolder`).
* `WholeInv` says what a copy has written at each of its four phases (`Writing`): it opens a partial
  that is not there, and renames one that is whole.
* `SoloInv` says where a job on its own has every file at every moment: each that there was at first is
  in the library, aside or in the folder (`AllThere`), twice only while a copy waits for its unlink
  (`Copying`, `HalfAt`), and the library never has the job's video before its subtitle (`LibraryPair`).
  Under it every step of `Organizer` is a step of `Delivery` or a stutter (`NextDelivered`).

### Import

`ImportProofs`, for any jobs, attempts, unfinished commands and setups, with or without
restarts (`JobsAssumption`, `BoundAssumption`, `SwitchAssumption`, `SetupAssumption`):

| Theorem | Says |
|---|---|
| `ImportInvariant` | `Spec => []IInv` |
| `ImportTypes`, `ImportedIsTrue`, `LockReturns` | the invariants of the run; an import never makes more attempts than the policy |
| `OneSenderAtATime` | two jobs of an app never send or poll together |
| `FoundIsNeverRefused` | an import that starts when arr has taken the file of a picked title is never `not_imported`, nor is a later one: the safety half of `ArrsFileIsFound` |

`ImportedHasLeft` is not inductive: a verdict is recorded a step after it was found, and found a step
after the file was looked for. `GoneWhenLooking` says that the lookup is only asked when the file has
left `completed/`, `VerdictIsTrue` that a verdict waiting to be written is still true (nothing
brings a file back), and `SleepsForMore` bounds the attempts. `FoundIsNeverRefused` starts its
induction in the middle of a behaviour: `KnowsItIsThere` holds where `StartsAfterImport` does,
and every step keeps it.

### Services

`ServiceProofs`, `StoreProofs` and `MCServicesProofs`, each theorem of a service's own specification,
for any sizes, bounds and times the named assumptions allow (`AccountAssumption` and so on; they say
that these are numbers, and how they are ordered):

| Theorem | Property | Its invariant adds |
|---|---|---|
| `OneDefault` | `OneDefaultPerType` | nothing but types |
| `SignedOutIsOut` | `SignedOutStaysOut` | session ids are only ever new (`SessionsOpened`) |
| `ActiveIsSignedIn` | `ActiveStaysSignedIn` | a session's row outlives its last use, less the sliding interval, unless a request has still to slide it (`ActiveInv`) |
| `PlaintextIsShortLived` | `PlaintextEndsWithRun` | only a run that took a file has one in the clear (`PlainInv`) |
| `UploadIsFresh` | `FreshStart` | without overlap a run has the last upload or none, and the flag to be set is of that file (`FreshInv`) |
| `CompletedIsDelivered` | `CompletedHasFile` | whatever is past organize, by its run or by its checkpoint, is in `completed/` or was taken from there by delete_file (`DeliveredInv`) |
| `MarkedStaysEncoded` | `MarkedIsFinal` | a marker has the download's checkpoint behind it and no run before the end of transcode (`MarkedInv`) |
| `SettingsAreComposed` | `SettingsCompose` | one call is in its transaction, and what it read is still stored (`ComposeInv`) |
| `BackupsAreKept` | `BackupsStay` | every file is of a copy that was begun, so fewer newer files than the limit means fewer newer copies (`HeldInv`) |
| `PageCatchesUp` | `PageIsCurrent` | the stored row is on its way: the last status event in the queue, the answer of the fetch, or shown (`ViewInv`) |
| `PickersAreRecent` | `PickerIsRecent` | a cached list is the library of some second between its time stamp and now (`PickersInv`) |
| `PlacedAsPreviewed` | `PreviewIsKept` | what a client, a preview and a row know of an inspection agrees while its id is held (`RequestsInv`); whether a path exists does not depend on its quality |
| `WindowsAreExact` | `WindowIsExact` | the deque is a tail of what was granted, and everything before it has left the window (`LimitInv`) |
| `NamesFit` | `NameFits` | the values are clean, what is left of the episode title is a prefix of it, and a folder that has nothing else never loses all of it (`LoopInv`) |
| `ServicesKeepTypes` | `ServicesTypes` | each service's types (of all but `Names` and `Requests`, whose values are only made and compared) |
| `ServicesKeepPromises` | all the properties above | nothing: by `EachOnItsOwn` |

`EachOnItsOwn` is the argument behind `MCServices`: a behaviour of the composition satisfies the
specification of each service, since every step is a step of one and leaves the variables of
the others. So each theorem above holds of what the `Services` run checks.

**Names.** `Names` replaces, removes and collapses characters by folds (`FlattenSeq`), and what a fold
computes is induction. `UpTo` stands in for it: what holds at 0 and is kept from i to i + 1 holds up
to n, of a set of numbers, from `LeastOf`. `FlattenSteps` unfolds a fold into the sequence of its
intermediate texts, and the lemmas go along those: what `Collapse` leaves has no run of spaces
(`CollapseIsSingle`) and is the text itself as far as it had none (`CollapseKeeps`), no colon mode
leaves a colon (`ColonsGo`), `Strip` takes a span (`StripSpan`), a span has no more bytes than its text
(`SpanIsSmaller`, by an injection between the wide characters). Three facts carry the invariant:
sanitising the front of a clean title only trims it (`SanitizeKeeps`), so what is left stays a
prefix; a rendered name starts with the whole main title (`TitleIsKept`); and a folder without one takes
two bytes more than its bracket (`UntitledIsSmall`), so with a limit of four at least one
character of the bracket survives each cut, and a name is refused only where there was nothing.

Rows that a limit cuts off, and the newest copies of a kind, are about least and greatest numbers
of sets. The induction theorems of the library cannot be used (below); `LeastOf` takes the fact from
its well-foundedness of `<`, which is stated of a set, and `GreatestOf` and the lemmas about the
first `k` rows follow from it and from cardinalities.

### What failing proofs showed

* `Organizer.Place`, the refinement mapping, was a CASE with overlapping conditions. While a copy waits
  for its unlink the file is in two places, and TLA+ leaves open which of them such a CASE chooses; TLC
  takes the first. It is now a chain of IFs in which the library comes first.
* `LoginLimit` kept the attempts in the window wherever they stood; `hit` pops from the left of its
  deque while the first is too old. They agree on sorted times only, so `Recent` is now the suffix
  that popleft leaves, and that the times are sorted is part of `LimitInv`.
* `Names` stated its letters nowhere, so nothing could be proved of every text. The alphabet is now a
  constant, `Letters`, with the characters that have a rule. `NameFits` needs the lower bound
  on `Limits`: with three bytes a bracket could be cut to nothing, and a name refused that had something
  to say (the code's limits are 255 bytes and 215).
* Bounds that were assumed to be numbers without saying so are now named assumptions of `Account`,
  `Backup`, `SiteCookies`, `JobFolder`, `LiveView`, `Pickers` and `LoginLimit`.

### Only model-checked

* Liveness: `QueuedSettles`, `CancelEnds`, `ImportEnds`, and that the import of `ArrsFileIsFound` ends
  (fairness and ENABLED are out of the prover's reach).
* The violations: a counterexample is TLC's.

## Plan

Every module comes with its properties and mutants, and is written so that it can be proved about
(no RECURSIVE operators). The plan is carried out: all modules and runs above, the proofs of every safety
property of the passing runs, both refinements, and the conditions under which the claims of
*Disagreements* do hold. What would come next is where the code may grow: another step of the
pipeline is a new position in `JobContract`, another app a new `ImportStep`.

## Not modelled

* System pages: disk, path and version checks at the moment of the call; no state of their own.
* Pages of the frontend other than the queue, and the container scripts but for the copy before a
  migration: clients of the API and single commands.
* Migrations (schema text that runs once), `prune_empty_dirs`, the API key (one column), yt-dlp's
  update of itself.
* Arguments and parsing: yt-dlp and ffmpeg command lines, their output, probes, quality labels and
  the query of a search, which are pure functions over text covered by golden tests.
* Encryption and password hashing (libraries).
* Log and progress rows, which no code reads back; the progress snapshot of the hub.
* Database errors: no write fails but for a refused foreign key and, in `JobFolder`, a checkpoint; nor do
  the reads of `_run_job` before its `try` (`jobs/manager.py:332-345`), which would also leave a row
  `starting`.

Effects of the code that no property claims away, because nothing in it says what should
happen:

* A transcode that stops between the rename and its marker encodes the video twice
  (`MarkedIsFinal` starts at the marker).
* delete_file of a failed job that is then retried leaves `file_deleted_at` set, also when that retry
  delivers the file; a run that found its video already organized has no `completed_path`, so delete_file
  leaves the video.
* The nightly sweep takes the folders of failed jobs on purpose (`INCOMPLETE_RETENTION_DAYS`), also after
  their download was recorded: a retry then resumes after the download and fails, again on every retry.
* A download whose custom site was deleted meanwhile fails when it writes refreshed cookies
  back; plaintext left by a stop is outside `SiteCookies`.
* create, retry and retry_import publish nothing: a page waits for the claim (`PageIsCurrent` allows
  it). An answer older than a merged event overwrites it, and a dropped event leaves the page
  stale until it reconnects.
* A login whose password was verified before a password change still gets its session.
* A damaged copy counts among the newest, and a second, failing run on one day leaves none for it.
* A picker's cache is not kept per connection: after a change of address it answers from the old app's
  list until it expires. A slow older read may replace a newer list, which `PickerIsRecent` allows
  within the cache's time.
* create accepts an episode without the number or air date that preview asks for, and puts it under
  specials; a title that sanitises to nothing is refused by preview, accepted by create, and fails
  at organize (`PreviewIsKept` is about items that were previewed).

The status of every component, and its reasons, are in `PROJECT.json`.
