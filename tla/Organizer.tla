------------------------------- MODULE Organizer -------------------------------
(***************************************************************************)
(* The organize step (backend/app/library/organizer.py and _organize of    *)
(* backend/app/jobs/pipeline.py): jobs that carry the same library name    *)
(* move a video and at most one subtitle from their folders to completed/, *)
(* by renames or, between two volumes, by copies. The process may stop     *)
(* between any two file operations, a copy may fail, and jobs overlap.     *)
(*                                                                         *)
(* A job has one run at a time (OneWorkerPerJob of JobManager). An action  *)
(* is one file operation with the tests that precede it. Two different     *)
(* whole files of a kind differ in size.                                   *)
(***************************************************************************)
EXTENDS Naturals, FiniteSets

CONSTANTS
    Jobs,       \* jobs with the same target, quality and extension
    Old,        \* the owner of the files that were in completed/ before
    Nobody,     \* the owner of no file, or of one that nobody can tell
    MaxNumber,  \* bound on the ` (n)` of a kept-both name; 0 is the plain name
    Volumes,    \* the values of oneVolume to start with
    Crashes,    \* whether the process may stop and start again (environment switch)
    Starts      \* initial cases: [existing |-> kinds in completed/, policies |-> ...]

Policies == {"ask", "replace", "keep_both"}
Kinds    == {"sub", "video"}
Numbers  == 0 .. MaxNumber
NoMarker == MaxNumber + 1

ASSUME JobsAssumption ==
    IsFiniteSet(Jobs) /\ Old \notin Jobs /\ Nobody \notin Jobs \cup {Old}
ASSUME SwitchAssumption ==
    MaxNumber \in Nat /\ Volumes \subseteq BOOLEAN /\ Crashes \in BOOLEAN
ASSUME StartsAssumption ==
    Starts \subseteq [existing : SUBSET Kinds, policies : SUBSET Policies]

\* Where a file can be: a job's folder, completed/, _replaced/<job>/, and the
\* .fetcharr-partial of a file in the last two.
Paths == {"job", "aside", "aside.partial"} \X Jobs \X Kinds
         \cup {"done", "done.partial"} \X Numbers \X Kinds

\* What is there: a whole file of an owner, one that an owner is still writing, a part
\* that nobody will complete (or two wrote at once), or nothing.
Whole(o) == <<o, "whole">>
Half(j)  == <<j, "half">>
Torn     == <<Nobody, "half">>
NoFile   == <<Nobody, "none">>
Contents == {Whole(o) : o \in Jobs \cup {Old}} \cup {Half(j) : j \in Jobs} \cup {Torn, NoFile}

VARIABLES
    original,   \* the files there were at first, <<owner, kind>> (never changes)
    policy,     \* the collision policy of each job (never changes)
    oneVolume,  \* whether INCOMPLETE_DIR and COMPLETED_DIR share a volume (never changes)
    files,      \* the file system
    marker,     \* organize_target in each job's folder
    pc,         \* where each job's run is
    dest,       \* the number of its destination
    found,      \* the sidecars it found in its folder
    todo,       \* the files it still has to move (aside, or to completed/)
    moving,     \* the file a copying move is at, and how far it is
    held        \* the content of the source it opened

inputs  == <<original, policy, oneVolume>>
runVars == <<pc, dest, found, todo, moving, held>>
vars    == <<inputs, files, marker, runVars>>

NotMoving == [kind |-> "none", at |-> "none"]
Running   == {"named", "aside", "pin", "move", "checkpoint", "tidy"}

TypeOK ==
    /\ original \subseteq (Jobs \cup {Old}) \X Kinds
    /\ policy \in [Jobs -> Policies]
    /\ oneVolume \in BOOLEAN
    /\ files \in [Paths -> Contents]
    /\ marker \in [Jobs -> Numbers \cup {NoMarker}]
    /\ pc \in [Jobs -> Running \cup {"waiting", "done", "failed"}]
    /\ dest \in [Jobs -> Numbers]
    /\ found \in [Jobs -> SUBSET {"sub"}]
    /\ todo \in [Jobs -> SUBSET Kinds]
    /\ moving \in [Jobs -> [kind : Kinds, at : {"open", "copy", "rename", "unlink"}]
                           \cup {NotMoving}]
    /\ held \in [Jobs -> Contents]

Present(p) == files[p] # NoFile

Init ==
    /\ \E s \in Starts, subs \in SUBSET Jobs :
          /\ policy \in [Jobs -> s.policies]
          /\ original = (Jobs \X {"video"}) \cup (subs \X {"sub"}) \cup ({Old} \X s.existing)
    /\ oneVolume \in Volumes
    /\ files = [p \in Paths |->
                  CASE p[1] = "job" /\ <<p[2], p[3]>> \in original -> Whole(p[2])
                    [] p[1] = "done" /\ p[2] = 0 /\ <<Old, p[3]>> \in original -> Whole(Old)
                    [] OTHER -> NoFile]
    /\ marker = [j \in Jobs |-> NoMarker]
    /\ pc = [j \in Jobs |-> "waiting"]
    /\ dest = [j \in Jobs |-> 0]
    /\ found = [j \in Jobs |-> {}]
    /\ todo = [j \in Jobs |-> {}]
    /\ moving = [j \in Jobs |-> NotMoving]
    /\ held = [j \in Jobs |-> NoFile]

Goto(j, p) == pc' = [pc EXCEPT ![j] = p]

\* What a stopped writer leaves: its unfinished file stays unfinished.
Torns(writers) ==
    [p \in Paths |-> IF \E j \in writers : files[p] = Half(j) THEN Torn ELSE files[p]]

\* An exception out of the step: the job fails, its files stay as they are.
Fail(j) ==
    /\ Goto(j, "failed")
    /\ moving' = [moving EXCEPT ![j] = NotMoving]
    /\ files' = Torns({j})
    /\ UNCHANGED <<inputs, marker, dest, found, todo, held>>

---------------------------------------------------------------------------
(* Naming                                                                  *)

ReadMarker_Never(j) == NoMarker
ReadMarker(j) == marker[j]
FirstRun(j) == ReadMarker(j) = NoMarker

\* find_sidecars, if the options ask for subtitles beside the video.
FindSidecars_FirstRunOnly(j) == {k \in {"sub"} : Present(<<"job", j, k>>) /\ FirstRun(j)}
FindSidecars_AllFiles(j) == {k \in Kinds : Present(<<"job", j, k>>)}
FindSidecars(j) == {k \in {"sub"} : Present(<<"job", j, k>>)}

IsOrganized(j) ==
    /\ ReadMarker(j) # NoMarker
    /\ Present(<<"done", ReadMarker(j), "video">>)
    /\ ~Present(<<"job", j, "video">>)

\* The done-check: a checkpoint without fields, and the folder stays.
AlreadyOrganized(j) ==
    /\ pc[j] = "waiting"
    /\ IsOrganized(j)
    /\ Goto(j, "done")
    /\ UNCHANGED <<inputs, files, marker, dest, found, todo, moving, held>>

\* organize: the name of an earlier run, or a new one from the probed video.
Name(j) ==
    /\ pc[j] = "waiting"
    /\ ~IsOrganized(j)
    /\ Goto(j, "named")
    /\ dest' = [dest EXCEPT ![j] = IF FirstRun(j) THEN 0 ELSE ReadMarker(j)]
    /\ found' = [found EXCEPT ![j] = FindSidecars(j)]
    /\ UNCHANGED <<inputs, files, marker, todo, moving, held>>

\* The first run probes the video: unreadable, without a picture, or without a name.
NotAVideo(j) ==
    /\ pc[j] = "waiting"
    /\ ~IsOrganized(j)
    /\ FirstRun(j)
    /\ Fail(j)

Collision(j) == FirstRun(j) /\ Present(<<"done", dest[j], "video">>)

NoCollision(j) ==
    /\ pc[j] = "named"
    /\ ~Collision(j)
    /\ Goto(j, "pin")
    /\ UNCHANGED <<inputs, files, marker, dest, found, todo, moving, held>>

AskFirst(j) ==
    /\ pc[j] = "named"
    /\ Collision(j)
    /\ policy[j] = "ask"
    /\ Fail(j)

\* The listing of the existing video and its sidecars, in no particular order.
Replace(j) ==
    /\ pc[j] = "named"
    /\ Collision(j)
    /\ policy[j] = "replace"
    /\ Goto(j, "aside")
    /\ todo' = [todo EXCEPT ![j] = {k \in Kinds : Present(<<"done", dest[j], k>>)}]
    /\ UNCHANGED <<inputs, files, marker, dest, found, moving, held>>

Free(n) == ~Present(<<"done", n, "video">>)

KeepBoth(j) ==
    /\ pc[j] = "named"
    /\ Collision(j)
    /\ policy[j] = "keep_both"
    /\ \E n \in Numbers \ {0} :
          /\ Free(n)
          /\ \A m \in 1 .. n - 1 : ~Free(m)
          /\ dest' = [dest EXCEPT ![j] = n]
    /\ Goto(j, "pin")
    /\ UNCHANGED <<inputs, files, marker, found, todo, moving, held>>

AllAside(j) ==
    /\ pc[j] = "aside"
    /\ todo[j] = {}
    /\ Goto(j, "pin")
    /\ UNCHANGED <<inputs, files, marker, dest, found, todo, moving, held>>

\* _write_marker, then the moves: what was found, and the video.
Pin(j) ==
    /\ pc[j] = "pin"
    /\ marker' = [marker EXCEPT ![j] = dest[j]]
    /\ todo' = [todo EXCEPT ![j] = found[j] \cup {"video"}]
    /\ Goto(j, "move")
    /\ UNCHANGED <<inputs, files, dest, found, moving, held>>

---------------------------------------------------------------------------
(* _move: one file, aside or to completed/                                 *)

Source(j, k) == IF pc[j] = "aside" THEN <<"done", dest[j], k>> ELSE <<"job", j, k>>
Target(j, k) == IF pc[j] = "aside" THEN <<"aside", j, k>> ELSE <<"done", dest[j], k>>

Partial_InPlace(j, k) == Target(j, k)
Partial(j, k) ==
    IF pc[j] = "aside" THEN <<"aside.partial", j, k>> ELSE <<"done.partial", dest[j], k>>

\* "Sidecars first, video last"; files go aside in the order of the listing.
MayMove_AnyOrder(j, k) == k \in todo[j]
MayMove(j, k) ==
    /\ k \in todo[j]
    /\ pc[j] = "move" /\ k = "video" => todo[j] = {"video"}

Ready(j, k) ==
    /\ pc[j] \in {"aside", "move"}
    /\ moving[j] = NotMoving
    /\ MayMove(j, k)

Moved(j, k) == todo' = [todo EXCEPT ![j] = @ \ {k}]

\* The file system without the partial that an earlier move has left.
Cleared(j, k) == [files EXCEPT ![Partial(j, k)] = NoFile]

\* "Moved by an earlier run", or the target has the size of the source: nothing to copy.
MovedBefore(j, k) ==
    /\ Ready(j, k)
    /\ Present(Target(j, k))
    /\ files[Source(j, k)] \in {NoFile, files[Target(j, k)]}
    /\ files' = [Cleared(j, k) EXCEPT ![Source(j, k)] = NoFile]
    /\ Moved(j, k)
    /\ UNCHANGED <<inputs, marker, pc, dest, found, moving, held>>

NothingToMove(j, k) ==
    /\ Ready(j, k)
    /\ ~Present(Source(j, k))
    /\ ~Present(Target(j, k))
    /\ files' = Cleared(j, k)
    /\ Goto(j, "failed")
    /\ UNCHANGED <<inputs, marker, dest, found, todo, moving, held>>

ToMove(j, k) ==
    /\ Ready(j, k)
    /\ Present(Source(j, k))
    /\ files[Source(j, k)] # files[Target(j, k)]

Rename(j, k) ==
    /\ ToMove(j, k)
    /\ oneVolume
    /\ files' = [Cleared(j, k) EXCEPT ![Target(j, k)] = files[Source(j, k)],
                                      ![Source(j, k)] = NoFile]
    /\ Moved(j, k)
    /\ UNCHANGED <<inputs, marker, pc, dest, found, moving, held>>

\* EXDEV: a copy through the partial file, in four steps.
BeginCopy(j, k) ==
    /\ ToMove(j, k)
    /\ ~oneVolume
    /\ files' = Cleared(j, k)
    /\ moving' = [moving EXCEPT ![j] = [kind |-> k, at |-> "open"]]
    /\ UNCHANGED <<inputs, marker, pc, dest, found, todo, held>>

CopyAt(j, k, phase) == moving[j] = [kind |-> k, at |-> phase]
Advance(j, k, phase) == moving' = [moving EXCEPT ![j] = [kind |-> k, at |-> phase]]

\* Opened for writing, an existing partial is truncated under its other writer.
OpenPartial(j, k) ==
    /\ CopyAt(j, k, "open")
    /\ LET s == Source(j, k) p == Partial(j, k) IN
       IF Present(s)
         THEN /\ held' = [held EXCEPT ![j] = IF files[s][2] = "whole" THEN files[s] ELSE Torn]
              /\ files' = [files EXCEPT ![p] = IF Present(p) THEN Torn ELSE Half(j)]
              /\ Advance(j, k, "copy")
              /\ UNCHANGED <<inputs, marker, pc, dest, found, todo>>
         ELSE Fail(j)

\* fsync: the file written is complete, whatever its name is by now.
CopyOk(j, k) ==
    /\ CopyAt(j, k, "copy")
    /\ files' = [p \in Paths |-> IF files[p] = Half(j) THEN held[j] ELSE files[p]]
    /\ Advance(j, k, "rename")
    /\ UNCHANGED <<inputs, marker, pc, dest, found, todo, held>>

\* A full disk, an I/O error.
CopyFails(j, k) ==
    /\ CopyAt(j, k, "copy")
    /\ Fail(j)

RenamePartial(j, k) ==
    /\ CopyAt(j, k, "rename")
    /\ LET p == Partial(j, k) IN
       IF Present(p)
         THEN /\ files' = [files EXCEPT ![Target(j, k)] = files[p], ![p] = NoFile]
              /\ Advance(j, k, "unlink")
              /\ UNCHANGED <<inputs, marker, pc, dest, found, todo, held>>
         ELSE Fail(j)

UnlinkSource(j, k) ==
    /\ CopyAt(j, k, "unlink")
    /\ IF Present(Source(j, k))
         THEN /\ files' = [files EXCEPT ![Source(j, k)] = NoFile]
              /\ moving' = [moving EXCEPT ![j] = NotMoving]
              /\ Moved(j, k)
              /\ UNCHANGED <<inputs, marker, pc, dest, found, held>>
         ELSE Fail(j)

---------------------------------------------------------------------------
(* The end of the step, failures and restarts                              *)

\* Organized: the last call takes the size of the video, where it should be.
Return(j) ==
    /\ pc[j] = "move"
    /\ todo[j] = {}
    /\ IF Present(<<"done", dest[j], "video">>)
         THEN /\ Goto(j, "checkpoint")
              /\ UNCHANGED <<inputs, files, marker, dest, found, todo, moving, held>>
         ELSE Fail(j)

\* The organize checkpoint: from here on the step is not run again.
Checkpoint(j) ==
    /\ pc[j] = "checkpoint"
    /\ Goto(j, "tidy")
    /\ UNCHANGED <<inputs, files, marker, dest, found, todo, moving, held>>

Tidy(j) ==
    /\ pc[j] = "tidy"
    /\ files' = [p \in Paths |-> IF p[1] = "job" /\ p[2] = j THEN NoFile ELSE files[p]]
    /\ marker' = [marker EXCEPT ![j] = NoMarker]
    /\ Goto(j, "done")
    /\ UNCHANGED <<inputs, dest, found, todo, moving, held>>

Retry(j) ==
    /\ pc[j] = "failed"
    /\ Goto(j, "waiting")
    /\ UNCHANGED <<inputs, files, marker, dest, found, todo, moving, held>>

\* The process stops and starts again; a run before its checkpoint starts over.
Crash ==
    /\ Crashes
    /\ \E j \in Jobs : pc[j] \in Running
    /\ pc' = [j \in Jobs |-> CASE pc[j] = "tidy" -> "done"
                               [] pc[j] \in Running \ {"tidy"} -> "waiting"
                               [] OTHER -> pc[j]]
    /\ files' = Torns(Jobs)
    /\ moving' = [j \in Jobs |-> NotMoving]
    /\ UNCHANGED <<inputs, marker, dest, found, todo, held>>

Move(j, k) ==
    \/ MovedBefore(j, k) \/ NothingToMove(j, k) \/ Rename(j, k)
    \/ BeginCopy(j, k) \/ OpenPartial(j, k) \/ CopyOk(j, k) \/ CopyFails(j, k)
    \/ RenamePartial(j, k) \/ UnlinkSource(j, k)

Run(j) ==
    \/ AlreadyOrganized(j) \/ NotAVideo(j) \/ Name(j)
    \/ NoCollision(j) \/ AskFirst(j) \/ Replace(j) \/ KeepBoth(j) \/ AllAside(j)
    \/ Pin(j) \/ Return(j) \/ Checkpoint(j) \/ Tidy(j)
    \/ \E k \in Kinds : Move(j, k)

Next == (\E j \in Jobs : Run(j) \/ Retry(j)) \/ Crash

Spec == Init /\ [][Next]_vars

---------------------------------------------------------------------------
(* Properties                                                              *)

InLibrary(o, k) == \E n \in Numbers : files[<<"done", n, k>>] = Whole(o)
IsAside(o, k)   == \E j \in Jobs : files[<<"aside", j, k>>] = Whole(o)
InFolder(o, k)  == o \in Jobs /\ files[<<"job", o, k>>] = Whole(o)

\* A copy has the file in two places until it unlinks the source: the library comes first.
Place(o, k) ==
    IF InLibrary(o, k) THEN "library"
    ELSE IF IsAside(o, k) THEN "aside"
    ELSE IF InFolder(o, k) THEN "folder"
    ELSE IF <<o, k>> \in original THEN "lost" ELSE "absent"

Promise == INSTANCE Delivery WITH
    place <- [f \in (Jobs \cup {Old}) \X Kinds |-> Place(f[1], f[2])]

\* The organizer keeps its promise for a job on its own, through crashes at every point,
\* failed copies and retries: no file of the job or of the library is lost, none goes
\* back, and no video is in completed/ while its subtitle is still in the folder.
KeepsPromise == Promise!Spec

\* What is under its final name, in completed/ or in _replaced/, is whole: a copy that
\* stops half-way leaves only a .fetcharr-partial behind.
FinalNamesAreWhole ==
    \A p \in Paths : p[1] \in {"done", "aside"} => files[p] = NoFile \/ files[p][2] = "whole"

\* The marker pins the destination: however often a job is interrupted and run again, its
\* video does not turn up under two names in completed/.
OneName ==
    \A j \in Jobs, n, m \in Numbers :
        files[<<"done", n, "video">>] = Whole(j) /\ files[<<"done", m, "video">>] = Whole(j)
            => n = m

\* The rmtree that follows the organize checkpoint takes away no video or subtitle: all
\* that the folder held has been moved, in this run or in an earlier one.
FolderIsSpent ==
    \A j \in Jobs : pc[j] = "tidy" => \A k \in Kinds : ~Present(<<"job", j, k>>)

---------------------------------------------------------------------------
(* What the comments and tests of the code say, where runs of the model    *)
(* disagree with them (README, "Disagreements").                           *)

\* organize, "Safe to run again after any crash": no file is lost.
SafeToRunAgain ==
    \A f \in original : Place(f[1], f[2]) # "lost"

\* test_other_always_keeps_both: with the policy of `other` videos, a video that reached
\* completed/ under a name stays there when another of the same name arrives.
AlwaysKeepsBoth ==
    [][\A j \in Jobs, n \in Numbers :
          files[<<"done", n, "video">>] = Whole(j)
              => files'[<<"done", n, "video">>] = Whole(j)]_vars

=============================================================================
