----------------------------- MODULE OrganizerProofs -----------------------------
(***************************************************************************)
(* TLAPS proofs about Organizer, for every set of jobs and every starting  *)
(* case: its types; FolderIsSpent, from an inductive invariant about what  *)
(* a run still knows of the files in its folder; and OneName, from one     *)
(* about the number that a file of a job is under.                         *)
(***************************************************************************)
EXTENDS Organizer, TLAPS

\* A run accounts for what its folder holds: before the marker is written the subtitle
\* is among its sidecars, then every file is one it still has to move.
FolderKnown ==
    \A j \in Jobs, k \in Kinds : Present(<<"job", j, k>>) =>
        /\ pc[j] \in {"named", "aside", "pin"} /\ k = "sub" => k \in found[j]
        /\ pc[j] = "move" => k \in todo[j]
        /\ pc[j] \notin {"checkpoint", "tidy"}

IInv == TypeOK /\ FolderKnown

---------------------------------------------------------------------------
(* Facts about contents and paths                                          *)

\* The labels of files are contents, and each but NoFile is a file.
LEMMA ContentsFacts ==
    /\ \A o \in Jobs \cup {Old} : Whole(o) \in Contents
    /\ \A j \in Jobs : Half(j) \in Contents /\ Half(j) # NoFile
    /\ Torn \in Contents /\ Torn # NoFile
    /\ NoFile \in Contents
BY DEF Contents, Whole, Half, Torn, NoFile

\* A move reads a job's folder or completed/, and writes only outside the folders.
LEMMA MovePaths ==
    ASSUME TypeOK, NEW j \in Jobs, NEW k \in Kinds
    PROVE  /\ Source(j, k) \in Paths
           /\ Target(j, k) \in Paths
           /\ Partial(j, k) \in Paths
           /\ \A i \in Jobs, m \in Kinds :
                 Target(j, k) # <<"job", i, m>> /\ Partial(j, k) # <<"job", i, m>>
           /\ pc[j] # "aside" => Source(j, k) = <<"job", j, k>>
<1>1. dest[j] \in Numbers
  BY DEF TypeOK
<1> QED
  BY <1>1 DEF Source, Target, Partial, Paths

\* A job's folder and its files are paths.
LEMMA FolderPaths == \A j \in Jobs, k \in Kinds : <<"job", j, k>> \in Paths
BY DEF Paths

\* Torns is a file system, and it has the same files as before.
LEMMA TornsFacts ==
    ASSUME TypeOK, NEW W \in SUBSET Jobs
    PROVE  /\ Torns(W) \in [Paths -> Contents]
           /\ \A p \in Paths : Torns(W)[p] # NoFile => Present(p)
<1>1. \A p \in Paths : files[p] \in Contents
  BY DEF TypeOK
<1> QED
  BY <1>1, ContentsFacts DEF Torns, Present

---------------------------------------------------------------------------
(* Types                                                                   *)

\* The initial states are of the declared types.
LEMMA InitType == Init => TypeOK
<1> SUFFICES ASSUME Init PROVE TypeOK
  OBVIOUS
<1>1. original \subseteq (Jobs \cup {Old}) \X Kinds
  <2>1. PICK s \in Starts, subs \in SUBSET Jobs :
           /\ policy \in [Jobs -> s.policies]
           /\ original = (Jobs \X {"video"}) \cup (subs \X {"sub"}) \cup ({Old} \X s.existing)
    BY DEF Init
  <2>2. s.existing \subseteq Kinds
    BY StartsAssumption
  <2> QED
    BY <2>1, <2>2 DEF Kinds
<1>2. policy \in [Jobs -> Policies]
  <2>1. PICK s \in Starts : policy \in [Jobs -> s.policies]
    BY DEF Init
  <2>2. s.policies \subseteq Policies
    BY StartsAssumption
  <2> QED
    BY <2>1, <2>2
<1>7. oneVolume \in BOOLEAN
  BY SwitchAssumption DEF Init
<1>3. files \in [Paths -> Contents]
  <2>1. \A p \in Paths : p[1] = "job" => p[2] \in Jobs
    BY DEF Paths
  <2> QED
    BY <2>1, ContentsFacts DEF Init
<1>4. marker \in [Jobs -> Numbers \cup {NoMarker}]
  BY DEF Init
<1>5. dest \in [Jobs -> Numbers]
  BY SwitchAssumption DEF Init, Numbers
<1>6. held \in [Jobs -> Contents]
  BY ContentsFacts DEF Init
<1> QED
  BY <1>1, <1>2, <1>3, <1>4, <1>5, <1>6, <1>7 DEF Init, TypeOK

\* A failing run keeps the types.
LEMMA FailType ==
    ASSUME TypeOK, NEW j \in Jobs, Fail(j)
    PROVE  TypeOK'
<1>1. files' \in [Paths -> Contents]
  BY TornsFacts DEF Fail
<1> QED
  BY <1>1 DEF Fail, Goto, TypeOK, inputs

\* Naming, collisions, the marker and the end of a run keep the types.
LEMMA NamingType ==
    ASSUME TypeOK, NEW j \in Jobs,
           \/ AlreadyOrganized(j) \/ Name(j) \/ NoCollision(j) \/ Replace(j) \/ KeepBoth(j)
           \/ AllAside(j) \/ Pin(j) \/ Checkpoint(j) \/ Tidy(j) \/ Retry(j)
    PROVE  TypeOK'
<1> USE DEF TypeOK, inputs, Goto, Running
<1>1. CASE AlreadyOrganized(j) \/ NoCollision(j) \/ AllAside(j) \/ Checkpoint(j) \/ Retry(j)
  BY <1>1 DEF AlreadyOrganized, NoCollision, AllAside, Checkpoint, Retry
<1>2. CASE Name(j)
  <2>1. dest' \in [Jobs -> Numbers]
    BY <1>2, SwitchAssumption DEF Name, FirstRun, ReadMarker, Numbers
  <2>2. found' \in [Jobs -> SUBSET {"sub"}]
    BY <1>2 DEF Name, FindSidecars
  <2> QED
    BY <1>2, <2>1, <2>2 DEF Name
<1>3. CASE Replace(j)
  BY <1>3 DEF Replace
<1>4. CASE KeepBoth(j)
  BY <1>4 DEF KeepBoth
<1>5. CASE Pin(j)
  BY <1>5 DEF Pin, Kinds
<1>6. CASE Tidy(j)
  <2>1. files' \in [Paths -> Contents]
    BY <1>6, ContentsFacts DEF Tidy
  <2>2. marker' \in [Jobs -> Numbers \cup {NoMarker}]
    BY <1>6 DEF Tidy
  <2> QED
    BY <1>6, <2>1, <2>2 DEF Tidy
<1> QED
  BY <1>1, <1>2, <1>3, <1>4, <1>5, <1>6

\* A move keeps the types.
LEMMA MoveType ==
    ASSUME TypeOK, NEW j \in Jobs, NEW k \in Kinds, Move(j, k)
    PROVE  TypeOK'
<1>0. /\ Source(j, k) \in Paths /\ Target(j, k) \in Paths /\ Partial(j, k) \in Paths
      /\ \A p \in Paths : files[p] \in Contents
      /\ Cleared(j, k) \in [Paths -> Contents]
  BY MovePaths, ContentsFacts DEF TypeOK, Cleared
<1>1. CASE MovedBefore(j, k)
  <2>1. files' \in [Paths -> Contents]
    BY <1>1, <1>0, ContentsFacts DEF MovedBefore
  <2> QED
    BY <1>1, <2>1 DEF MovedBefore, Moved, TypeOK, inputs
<1>2. CASE NothingToMove(j, k)
  <2>1. files' \in [Paths -> Contents]
    BY <1>2, <1>0 DEF NothingToMove
  <2> QED
    BY <1>2, <2>1 DEF NothingToMove, Goto, TypeOK, inputs
<1>3. CASE Rename(j, k)
  <2>1. files' \in [Paths -> Contents]
    BY <1>3, <1>0, ContentsFacts DEF Rename
  <2> QED
    BY <1>3, <2>1 DEF Rename, Moved, TypeOK, inputs
<1>4. CASE BeginCopy(j, k)
  <2>1. files' \in [Paths -> Contents]
    BY <1>4, <1>0 DEF BeginCopy
  <2> QED
    BY <1>4, <2>1 DEF BeginCopy, TypeOK, inputs
<1>5. CASE OpenPartial(j, k) /\ ~Fail(j)
  <2>1. /\ held' = [held EXCEPT ![j] = IF files[Source(j, k)][2] = "whole"
                                         THEN files[Source(j, k)] ELSE Torn]
        /\ files' = [files EXCEPT ![Partial(j, k)] =
                                         IF Present(Partial(j, k)) THEN Torn ELSE Half(j)]
        /\ CopyAt(j, k, "open")
        /\ Advance(j, k, "copy")
        /\ UNCHANGED <<inputs, marker, pc, dest, found, todo>>
    BY <1>5 DEF OpenPartial
  <2>2. files' \in [Paths -> Contents] /\ held' \in [Jobs -> Contents]
    BY <2>1, <1>0, ContentsFacts DEF TypeOK
  <2>3. moving' = [moving EXCEPT ![j] = [kind |-> k, at |-> "copy"]]
    BY <2>1 DEF CopyAt, Advance, TypeOK
  <2> QED
    BY <2>1, <2>2, <2>3 DEF TypeOK, inputs
<1>6. CASE CopyOk(j, k)
  <2>1. files' \in [Paths -> Contents]
    BY <1>6, <1>0 DEF CopyOk, TypeOK
  <2>2. moving' = [moving EXCEPT ![j] = [kind |-> k, at |-> "rename"]]
    BY <1>6 DEF CopyOk, CopyAt, Advance, TypeOK
  <2> QED
    BY <1>6, <2>1, <2>2 DEF CopyOk, TypeOK, inputs
<1>7. CASE RenamePartial(j, k) /\ ~Fail(j)
  <2>1. /\ files' = [files EXCEPT ![Target(j, k)] = files[Partial(j, k)],
                                  ![Partial(j, k)] = NoFile]
        /\ CopyAt(j, k, "rename")
        /\ Advance(j, k, "unlink")
        /\ UNCHANGED <<inputs, marker, pc, dest, found, todo, held>>
    BY <1>7 DEF RenamePartial
  <2>2. files' \in [Paths -> Contents]
    BY <2>1, <1>0, ContentsFacts DEF TypeOK
  <2>3. moving' = [moving EXCEPT ![j] = [kind |-> k, at |-> "unlink"]]
    BY <2>1 DEF CopyAt, Advance, TypeOK
  <2> QED
    BY <2>1, <2>2, <2>3 DEF TypeOK, inputs
<1>8. CASE UnlinkSource(j, k) /\ ~Fail(j)
  <2>1. files' \in [Paths -> Contents]
    BY <1>8, <1>0, ContentsFacts DEF UnlinkSource, TypeOK
  <2> QED
    BY <1>8, <2>1 DEF UnlinkSource, Moved, TypeOK, inputs
<1>9. CASE Fail(j)
  BY <1>9, FailType
<1>10. CopyFails(j, k) => Fail(j)
  BY DEF CopyFails
<1> QED
  BY <1>1, <1>2, <1>3, <1>4, <1>5, <1>6, <1>7, <1>8, <1>9, <1>10 DEF Move

\* Every step keeps the types.
LEMMA NextType == TypeOK /\ [Next]_vars => TypeOK'
<1> SUFFICES ASSUME TypeOK, [Next]_vars PROVE TypeOK'
  OBVIOUS
<1>1. ASSUME NEW j \in Jobs, Run(j) \/ Retry(j) PROVE TypeOK'
  <2>1. CASE Fail(j)
    BY <2>1, FailType
  <2>2. CASE \E k \in Kinds : Move(j, k)
    BY <2>2, MoveType
  <2>3. CASE Return(j) /\ ~Fail(j)
    BY <2>3 DEF Return, Goto, TypeOK, inputs, Running
  <2>4. NotAVideo(j) \/ AskFirst(j) => Fail(j)
    BY DEF NotAVideo, AskFirst
  <2> QED
    BY <1>1, <2>1, <2>2, <2>3, <2>4, NamingType DEF Run
<1>2. CASE Crash
  <2>1. files' \in [Paths -> Contents]
    BY <1>2, TornsFacts DEF Crash
  <2>2. pc' \in [Jobs -> Running \cup {"waiting", "done", "failed"}]
    BY <1>2 DEF Crash, TypeOK, Running
  <2> QED
    BY <1>2, <2>1, <2>2 DEF Crash, TypeOK, inputs
<1>3. CASE UNCHANGED vars
  BY <1>3 DEF vars, inputs, runVars, TypeOK
<1> QED
  BY <1>1, <1>2, <1>3 DEF Next

---------------------------------------------------------------------------
(* The folder                                                              *)

\* A move brings no file into a folder.
LEMMA MoveShrinks ==
    ASSUME TypeOK, NEW j \in Jobs, NEW k \in Kinds, Move(j, k),
           NEW i \in Jobs, NEW m \in Kinds, Present(<<"job", i, m>>)'
    PROVE  Present(<<"job", i, m>>)
<1>0. /\ <<"job", i, m>> \in Paths
      /\ Source(j, k) \in Paths /\ Target(j, k) \in Paths /\ Partial(j, k) \in Paths
      /\ Target(j, k) # <<"job", i, m>> /\ Partial(j, k) # <<"job", i, m>>
      /\ files \in [Paths -> Contents]
      /\ Cleared(j, k) \in [Paths -> Contents]
      /\ Cleared(j, k)[<<"job", i, m>>] = files[<<"job", i, m>>]
  BY MovePaths, FolderPaths, ContentsFacts DEF TypeOK, Cleared
<1>1. CASE MovedBefore(j, k) \/ NothingToMove(j, k) \/ BeginCopy(j, k)
  BY <1>1, <1>0 DEF MovedBefore, NothingToMove, BeginCopy, Present
<1>2. CASE Rename(j, k)
  BY <1>2, <1>0 DEF Rename, Present
<1>3. CASE Fail(j)
  BY <1>3, <1>0, TornsFacts DEF Fail, Present
<1>4. CASE OpenPartial(j, k) /\ ~Fail(j)
  <2>1. files' = [files EXCEPT ![Partial(j, k)] =
                                 IF Present(Partial(j, k)) THEN Torn ELSE Half(j)]
    BY <1>4 DEF OpenPartial
  <2> QED
    BY <2>1, <1>0 DEF Present
<1>5. CASE CopyOk(j, k)
  BY <1>5, <1>0, ContentsFacts DEF CopyOk, Present
<1>6. CASE RenamePartial(j, k) /\ ~Fail(j)
  <2>1. files' = [files EXCEPT ![Target(j, k)] = files[Partial(j, k)],
                               ![Partial(j, k)] = NoFile]
    BY <1>6 DEF RenamePartial
  <2> QED
    BY <2>1, <1>0 DEF Present
<1>7. CASE UnlinkSource(j, k) /\ ~Fail(j)
  BY <1>7, <1>0 DEF UnlinkSource, Present
<1>8. CopyFails(j, k) => Fail(j)
  BY DEF CopyFails
<1> QED
  BY <1>1, <1>2, <1>3, <1>4, <1>5, <1>6, <1>7, <1>8 DEF Move

\* A file that a run no longer has to move has left its folder; nothing else it knows of
\* its folder changes while it moves files.
LEMMA MoveKnown ==
    ASSUME TypeOK, NEW j \in Jobs, NEW k \in Kinds, Move(j, k)
    PROVE  /\ found' = found
           /\ pc' = pc \/ pc' = [pc EXCEPT ![j] = "failed"]
           /\ \/ todo' = todo
              \/ /\ todo' = [todo EXCEPT ![j] = @ \ {k}]
                 /\ pc[j] # "aside" => ~Present(<<"job", j, k>>)'
<1>0. /\ Source(j, k) \in Paths /\ Target(j, k) \in Paths /\ Partial(j, k) \in Paths
      /\ pc[j] # "aside" => Source(j, k) = <<"job", j, k>>
      /\ files \in [Paths -> Contents]
      /\ Cleared(j, k) \in [Paths -> Contents]
  BY MovePaths, ContentsFacts DEF TypeOK, Cleared
<1>1. CASE MovedBefore(j, k)
  BY <1>1, <1>0 DEF MovedBefore, Moved, Present
<1>2. CASE Rename(j, k)
  BY <1>2, <1>0 DEF Rename, Moved, Present
<1>3. CASE UnlinkSource(j, k)
  BY <1>3, <1>0 DEF UnlinkSource, Moved, Present, Fail, Goto
<1>4. CASE NothingToMove(j, k) \/ BeginCopy(j, k) \/ OpenPartial(j, k) \/ CopyOk(j, k)
            \/ CopyFails(j, k) \/ RenamePartial(j, k)
  BY <1>4 DEF NothingToMove, BeginCopy, OpenPartial, CopyOk, CopyFails, RenamePartial,
              Fail, Goto
<1> QED
  BY <1>1, <1>2, <1>3, <1>4 DEF Move

\* A step of a run that moves no file brings none into a folder either.
LEMMA OtherShrinks ==
    ASSUME TypeOK, NEW j \in Jobs, Run(j) \/ Retry(j), ~ \E k \in Kinds : Move(j, k)
    PROVE  \A i \in Jobs, m \in Kinds :
              Present(<<"job", i, m>>)' => Present(<<"job", i, m>>)
<1> SUFFICES ASSUME NEW i \in Jobs, NEW m \in Kinds, Present(<<"job", i, m>>)'
             PROVE  Present(<<"job", i, m>>)
  OBVIOUS
<1>1. <<"job", i, m>> \in Paths
  BY FolderPaths
<1>2. CASE Fail(j)
  BY <1>1, <1>2, TornsFacts DEF Fail, Present
<1>3. CASE Tidy(j)
  BY <1>1, <1>3 DEF Tidy, Present
<1>4. CASE UNCHANGED files
  BY <1>4 DEF Present
<1> QED
  BY <1>2, <1>3, <1>4 DEF Run, Retry, AlreadyOrganized, NotAVideo, Name, NoCollision,
     AskFirst, Replace, KeepBoth, AllAside, Pin, Return, Checkpoint

\* FolderKnown is inductive.
LEMMA NextKnown == IInv /\ [Next]_vars => FolderKnown'
<1> SUFFICES ASSUME IInv, [Next]_vars,
                    NEW i \in Jobs, NEW m \in Kinds, Present(<<"job", i, m>>)'
             PROVE  /\ pc'[i] \in {"named", "aside", "pin"} /\ m = "sub" => m \in found'[i]
                    /\ pc'[i] = "move" => m \in todo'[i]
                    /\ pc'[i] \notin {"checkpoint", "tidy"}
  BY DEF FolderKnown
<1> USE DEF IInv
<1>1. ASSUME NEW j \in Jobs, NEW k \in Kinds, Move(j, k)
      PROVE  /\ pc'[i] \in {"named", "aside", "pin"} /\ m = "sub" => m \in found'[i]
             /\ pc'[i] = "move" => m \in todo'[i]
             /\ pc'[i] \notin {"checkpoint", "tidy"}
  <2>1. Present(<<"job", i, m>>)
    BY <1>1, MoveShrinks
  <2>2. pc'[i] = pc[i] \/ pc'[i] = "failed"
    BY <1>1, MoveKnown DEF TypeOK
  <2>3. found'[i] = found[i]
    BY <1>1, MoveKnown
  <2>4. ASSUME pc[i] = "move" PROVE m \in todo'[i]
    <3>1. m \in todo[i]
      BY <2>1, <2>4 DEF FolderKnown
    <3>2. CASE todo' = todo
      BY <3>1, <3>2
    <3>3. CASE /\ todo' = [todo EXCEPT ![j] = @ \ {k}]
               /\ pc[j] # "aside" => ~Present(<<"job", j, k>>)'
      <4>1. CASE i = j
        <5>1. ~Present(<<"job", i, k>>)'
          BY <2>4, <3>3, <4>1
        <5>2. m # k
          BY <5>1
        <5> QED
          BY <3>1, <3>3, <4>1, <5>2 DEF TypeOK
      <4>2. CASE i # j
        BY <3>1, <3>3, <4>2 DEF TypeOK
      <4> QED
        BY <4>1, <4>2
    <3> QED
      BY <1>1, <3>2, <3>3, MoveKnown
  <2> QED
    BY <2>1, <2>2, <2>3, <2>4 DEF FolderKnown
<1>2. ASSUME NEW j \in Jobs, Run(j) \/ Retry(j), ~ \E k \in Kinds : Move(j, k)
      PROVE  /\ pc'[i] \in {"named", "aside", "pin"} /\ m = "sub" => m \in found'[i]
             /\ pc'[i] = "move" => m \in todo'[i]
             /\ pc'[i] \notin {"checkpoint", "tidy"}
  <2>1. Present(<<"job", i, m>>)
    BY <1>2, OtherShrinks
  <2>2. CASE Fail(j)
    BY <2>1, <2>2 DEF FolderKnown, Fail, Goto, TypeOK
  <2>3. CASE Name(j)
    BY <2>1, <2>3 DEF FolderKnown, Name, Goto, FindSidecars, TypeOK
  <2>4. CASE Replace(j)
    BY <2>1, <2>4 DEF FolderKnown, Replace, Goto, TypeOK
  <2>5. CASE Pin(j)
    BY <2>1, <2>5 DEF FolderKnown, Pin, Goto, TypeOK, Kinds
  <2>6. CASE NoCollision(j) \/ KeepBoth(j) \/ AllAside(j)
    BY <2>1, <2>6 DEF FolderKnown, NoCollision, KeepBoth, AllAside, Goto, TypeOK
  <2>7. CASE AlreadyOrganized(j) \/ Retry(j) \/ Tidy(j)
    BY <2>1, <2>7 DEF FolderKnown, AlreadyOrganized, Retry, Tidy, Goto, TypeOK
  <2>8. CASE Return(j) /\ ~Fail(j)
    BY <2>1, <2>8 DEF FolderKnown, Return, Goto, TypeOK
  <2>9. CASE Checkpoint(j)
    BY <2>1, <2>9 DEF FolderKnown, Checkpoint, Goto, TypeOK
  <2>10. NotAVideo(j) \/ AskFirst(j) => Fail(j)
    BY DEF NotAVideo, AskFirst
  <2> QED
    BY <1>2, <2>2, <2>3, <2>4, <2>5, <2>6, <2>7, <2>8, <2>9, <2>10 DEF Run
<1>3. CASE Crash
  BY <1>3 DEF Crash, TypeOK, Running
<1>4. CASE UNCHANGED vars
  BY <1>4 DEF FolderKnown, Present, vars, inputs, runVars
<1> QED
  BY <1>1, <1>2, <1>3, <1>4 DEF Next, Run

---------------------------------------------------------------------------
(* Theorems                                                                *)

\* IInv is an invariant of the organizer, for any number of jobs that share a name.
THEOREM Invariant == Spec => []IInv
<1>1. Init => IInv
  <2>1. Init => FolderKnown
    BY DEF Init, FolderKnown
  <2> QED
    BY <2>1, InitType DEF IInv
<1>2. IInv /\ [Next]_vars => IInv'
  BY NextType, NextKnown DEF IInv
<1> QED
  BY <1>1, <1>2, PTL DEF Spec

\* Type correctness.
THEOREM TypeCorrect == Spec => []TypeOK
<1>1. IInv => TypeOK
  BY DEF IInv
<1> QED
  BY <1>1, Invariant, PTL

\* The rmtree after the organize checkpoint destroys no video and no subtitle, however
\* many jobs share the name, whatever the policies, the volumes, failures and restarts.
THEOREM NothingIsSwept == Spec => []FolderIsSpent
<1>1. IInv => FolderIsSpent
  BY DEF IInv, FolderKnown, FolderIsSpent
<1> QED
  BY <1>1, Invariant, PTL

---------------------------------------------------------------------------
(* One name                                                                *)

\* The number of the destination is settled: by the marker, or because the run is over.
Pinned(j) == marker[j] # NoMarker \/ pc[j] = "done"

\* The marker is the destination, and it is there while files go to completed/.
MarkerIsDest ==
    \A j \in Jobs :
        /\ marker[j] # NoMarker => dest[j] = marker[j]
        /\ pc[j] \in {"move", "checkpoint", "tidy"} => marker[j] # NoMarker

\* A copy belongs to a run that moves files, and is of one that it still has to move; what
\* is copied to completed/ is the whole file of the folder.
MovingShape ==
    \A j \in Jobs :
        /\ moving[j] # NotMoving => pc[j] \in {"aside", "move"} /\ moving[j].kind \in todo[j]
        /\ moving[j].at = "copy" /\ pc[j] = "move" => held[j] = Whole(j)
        /\ \A i \in Jobs : held[j] # Half(i)

\* A folder holds files of its job.
OwnFolder == \A j \in Jobs, k \in Kinds : files[<<"job", j, k>>] \in {Whole(j), NoFile}

\* A file of a job in completed/, finished or not, is under the job's settled number.
Named ==
    \A p \in Paths, j \in Jobs :
        /\ files[p] = Whole(j) /\ p[1] \in {"done", "done.partial"} => p[2] = dest[j] /\ Pinned(j)
        /\ files[p] = Half(j) =>
              /\ moving[j].at = "copy"
              /\ p[1] \in {"done", "done.partial"} => pc[j] = "move" /\ p[2] = dest[j]

NameInv == TypeOK /\ MarkerIsDest /\ MovingShape /\ OwnFolder /\ Named

\* The labels of contents are told apart.
LEMMA ContentsDiffer ==
    /\ \A i, j \in Jobs : Whole(i) = Whole(j) => i = j
    /\ \A i, j \in Jobs : Half(i) = Half(j) => i = j
    /\ \A o \in Jobs \cup {Old}, j \in Jobs : Whole(o) # Half(j)
    /\ \A o \in Jobs \cup {Old} : Whole(o) \notin {Torn, NoFile}
    /\ \A j \in Jobs : Half(j) \notin {Torn, NoFile} /\ Whole(j) # Whole(Old)
    /\ \A o \in Jobs \cup {Old} : Whole(o)[2] = "whole"
    /\ \A j \in Jobs : Half(j)[2] = "half"
    /\ Torn[2] = "half" /\ NoFile[2] = "none"
BY JobsAssumption DEF Whole, Half, Torn, NoFile

\* What a failing run does to a file: a half-written one of its own is torn.
LEMMA FailEffect ==
    ASSUME NEW j \in Jobs, Fail(j), NEW p \in Paths
    PROVE  /\ files[p] = Half(j) => files'[p] = Torn
           /\ files[p] # Half(j) => files'[p] = files[p]
BY DEF Fail, Torns

\* What a move does to one path: it keeps it, empties it, tears it, or puts there what it
\* moves; a half-written file is its own, at the partial name it has just opened.
LEMMA MoveEffect ==
    ASSUME NameInv, NEW j \in Jobs, NEW k \in Kinds, Move(j, k), NEW p \in Paths
    PROVE  /\ UNCHANGED <<marker, dest>>
           /\ pc[j] \in {"aside", "move"}
           /\ pc' = pc \/ pc' = [pc EXCEPT ![j] = "failed"]
           /\ \A i \in Jobs \ {j} : moving'[i] = moving[i]
           /\ \/ files'[p] = files[p] /\ files'[p] # Half(j)
              \/ files'[p] = NoFile
              \/ files'[p] = Torn /\ (p = Partial(j, k) \/ files[p] = Half(j))
              \/ /\ p = Target(j, k)
                 /\ files'[p] \in {files[Source(j, k)], files[Partial(j, k)]}
                 /\ files'[p] # Half(j)
              \/ /\ p = Partial(j, k)
                 /\ files'[p] = Half(j)
                 /\ moving'[j].at = "copy"
                 /\ pc' = pc
              \/ files[p] = Half(j) /\ files'[p] = held[j]
<1>0. /\ files \in [Paths -> Contents] /\ files[p] \in Contents
      /\ moving \in [Jobs -> [kind : Kinds, at : {"open", "copy", "rename", "unlink"}]
                           \cup {NotMoving}]
      /\ pc \in [Jobs -> Running \cup {"waiting", "done", "failed"}]
      /\ Source(j, k) \in Paths /\ Target(j, k) \in Paths /\ Partial(j, k) \in Paths
      /\ Cleared(j, k) \in [Paths -> Contents]
      /\ \A q \in Paths : Cleared(j, k)[q] \in {files[q], NoFile}
      /\ moving[j] # NotMoving => pc[j] \in {"aside", "move"}
      /\ \A q \in Paths : files[q] = Half(j) => moving[j].at = "copy"
  BY MovePaths, ContentsFacts DEF NameInv, TypeOK, Cleared, MovingShape, Named
<1>1. CASE MovedBefore(j, k) \/ NothingToMove(j, k) \/ BeginCopy(j, k) \/ Rename(j, k)
  <2>1. Ready(j, k)
    BY <1>1 DEF MovedBefore, NothingToMove, BeginCopy, Rename, ToMove
  <2>2. pc[j] \in {"aside", "move"} /\ \A q \in Paths : files[q] # Half(j)
    BY <2>1, <1>0 DEF Ready, NotMoving
  <2>3. CASE MovedBefore(j, k)
    BY <2>3, <2>2, <1>0 DEF MovedBefore
  <2>4. CASE NothingToMove(j, k)
    BY <2>4, <2>2, <1>0 DEF NothingToMove, Goto
  <2>5. CASE BeginCopy(j, k)
    BY <2>5, <2>2, <1>0 DEF BeginCopy
  <2>6. CASE Rename(j, k)
    BY <2>6, <2>2, <1>0 DEF Rename
  <2> QED
    BY <1>1, <2>3, <2>4, <2>5, <2>6
<1>2. CASE Fail(j) /\ moving[j] # NotMoving
  BY <1>2, <1>0, FailEffect DEF Fail, Goto
<1>3. CASE OpenPartial(j, k) /\ ~Fail(j)
  <2>1. /\ files' = [files EXCEPT ![Partial(j, k)] =
                                 IF Present(Partial(j, k)) THEN Torn ELSE Half(j)]
        /\ moving' = [moving EXCEPT ![j] = [kind |-> k, at |-> "copy"]]
        /\ moving[j] = [kind |-> k, at |-> "open"]
        /\ UNCHANGED <<marker, pc, dest>>
    BY <1>3 DEF OpenPartial, CopyAt, Advance
  <2>2. moving[j] # NotMoving /\ moving[j].at = "open" /\ moving'[j].at = "copy"
    BY <2>1, <1>0 DEF NotMoving
  <2>3. \A q \in Paths : files[q] # Half(j)
    BY <2>2, <1>0
  <2>4. CASE p = Partial(j, k)
    BY <2>1, <2>2, <2>4, <1>0
  <2> QED
    BY <2>1, <2>2, <2>3, <2>4, <1>0
<1>4. CASE CopyOk(j, k)
  <2>1. moving[j] # NotMoving
    BY <1>4 DEF CopyOk, CopyAt, NotMoving
  <2> QED
    BY <2>1, <1>4, <1>0 DEF CopyOk, Advance
<1>5. CASE RenamePartial(j, k) /\ ~Fail(j)
  <2>1. /\ files' = [files EXCEPT ![Target(j, k)] = files[Partial(j, k)],
                                  ![Partial(j, k)] = NoFile]
        /\ moving' = [moving EXCEPT ![j] = [kind |-> k, at |-> "unlink"]]
        /\ moving[j] = [kind |-> k, at |-> "rename"]
        /\ UNCHANGED <<marker, pc, dest>>
    BY <1>5 DEF RenamePartial, CopyAt, Advance
  <2>2. moving[j] # NotMoving /\ moving[j].at = "rename"
    BY <2>1 DEF NotMoving
  <2>3. \A q \in Paths : files[q] # Half(j)
    BY <2>2, <1>0
  <2> QED
    BY <2>1, <2>2, <2>3, <1>0
<1>6. CASE UnlinkSource(j, k) /\ ~Fail(j)
  <2>1. /\ files' = [files EXCEPT ![Source(j, k)] = NoFile]
        /\ moving' = [moving EXCEPT ![j] = NotMoving]
        /\ moving[j] = [kind |-> k, at |-> "unlink"]
        /\ UNCHANGED <<marker, pc, dest>>
    BY <1>6 DEF UnlinkSource, CopyAt
  <2>2. moving[j] # NotMoving /\ moving[j].at = "unlink"
    BY <2>1 DEF NotMoving
  <2>3. \A q \in Paths : files[q] # Half(j)
    BY <2>2, <1>0
  <2> QED
    BY <2>1, <2>2, <2>3, <1>0
<1>7. OpenPartial(j, k) \/ CopyFails(j, k) \/ RenamePartial(j, k) \/ UnlinkSource(j, k)
        => moving[j] # NotMoving
  BY DEF OpenPartial, CopyFails, RenamePartial, UnlinkSource, CopyAt, NotMoving
<1>8. CopyFails(j, k) => Fail(j)
  BY DEF CopyFails
<1> QED
  BY <1>1, <1>2, <1>3, <1>4, <1>5, <1>6, <1>7, <1>8 DEF Move

\* A copy goes through its phases only in a run that moves files, and what a run that
\* fills completed/ has opened is its own.
LEMMA MoveShape ==
    ASSUME NameInv, NEW j \in Jobs, NEW k \in Kinds, Move(j, k)
    PROVE  MovingShape'
<1>0. /\ moving \in [Jobs -> [kind : Kinds, at : {"open", "copy", "rename", "unlink"}]
                           \cup {NotMoving}]
      /\ pc \in [Jobs -> Running \cup {"waiting", "done", "failed"}]
      /\ held \in [Jobs -> Contents] /\ todo \in [Jobs -> SUBSET Kinds]
      /\ Source(j, k) \in Paths /\ files[Source(j, k)] \in Contents
      /\ MovingShape
  BY MovePaths DEF NameInv, TypeOK
<1>1. CASE MovedBefore(j, k) \/ Rename(j, k)
  <2>1. /\ moving[j] = NotMoving
        /\ todo' = [todo EXCEPT ![j] = @ \ {k}]
        /\ UNCHANGED <<pc, moving, held>>
    BY <1>1 DEF MovedBefore, Rename, ToMove, Ready, Moved
  <2> QED
    BY <2>1, <1>0 DEF MovingShape
<1>2. CASE NothingToMove(j, k)
  BY <1>2, <1>0 DEF NothingToMove, Ready, Goto, MovingShape, NotMoving
<1>3. CASE BeginCopy(j, k)
  <2>1. pc[j] \in {"aside", "move"} /\ k \in todo[j]
    BY <1>3 DEF BeginCopy, ToMove, Ready, MayMove
  <2> QED
    BY <1>3, <2>1, <1>0 DEF BeginCopy, MovingShape
<1>4. CASE Fail(j)
  BY <1>4, <1>0 DEF Fail, Goto, MovingShape, NotMoving
<1>5. CASE OpenPartial(j, k) /\ ~Fail(j)
  <2>1. /\ held' = [held EXCEPT ![j] = IF files[Source(j, k)][2] = "whole"
                                         THEN files[Source(j, k)] ELSE Torn]
        /\ Present(Source(j, k))
        /\ moving' = [moving EXCEPT ![j] = [kind |-> k, at |-> "copy"]]
        /\ moving[j] = [kind |-> k, at |-> "open"]
        /\ UNCHANGED <<pc, todo>>
    BY <1>5 DEF OpenPartial, CopyAt, Advance
  <2>4. pc[j] \in {"aside", "move"} /\ k \in todo[j]
    BY <2>1, <1>0 DEF MovingShape, NotMoving
  <2>2. \A i \in Jobs : held'[j] # Half(i)
    BY <2>1, <1>0, ContentsDiffer
  <2>3. pc[j] = "move" => held'[j] = Whole(j)
    <3>1. pc[j] = "move" => files[Source(j, k)] = Whole(j)
      BY <2>1 DEF Source, Present, NameInv, OwnFolder
    <3> QED
      BY <2>1, <3>1, <1>0, ContentsDiffer
  <2> QED
    BY <2>1, <2>2, <2>3, <2>4, <1>0 DEF MovingShape
<1>6. CASE CopyOk(j, k) \/ (RenamePartial(j, k) /\ ~Fail(j))
  <2>1. PICK phase \in {"rename", "unlink"} :
           moving' = [moving EXCEPT ![j] = [kind |-> k, at |-> phase]]
    BY <1>6 DEF CopyOk, RenamePartial, Advance
  <2>2. PICK old \in {"copy", "rename"} :
           moving[j] = [kind |-> k, at |-> old] /\ UNCHANGED <<pc, held, todo>>
    BY <1>6 DEF CopyOk, RenamePartial, CopyAt
  <2>3. pc[j] \in {"aside", "move"} /\ k \in todo[j]
    BY <2>2, <1>0 DEF MovingShape, NotMoving
  <2> QED
    BY <2>1, <2>2, <2>3, <1>0 DEF MovingShape
<1>7. CASE UnlinkSource(j, k) /\ ~Fail(j)
  BY <1>7, <1>0 DEF UnlinkSource, Moved, MovingShape, NotMoving
<1>8. CopyFails(j, k) => Fail(j)
  BY DEF CopyFails
<1> QED
  BY <1>1, <1>2, <1>3, <1>4, <1>5, <1>6, <1>7, <1>8 DEF Move

\* A move leaves each folder to its job, and puts files only under settled numbers.
LEMMA MoveNamed ==
    ASSUME NameInv, NEW j \in Jobs, NEW k \in Kinds, Move(j, k)
    PROVE  MarkerIsDest' /\ OwnFolder' /\ Named'
<1>0. /\ pc \in [Jobs -> Running \cup {"waiting", "done", "failed"}]
      /\ files \in [Paths -> Contents]
      /\ marker \in [Jobs -> Numbers \cup {NoMarker}]
      /\ held \in [Jobs -> Contents]
      /\ dest[j] \in Numbers
      /\ MarkerIsDest /\ MovingShape /\ OwnFolder /\ Named
  BY DEF NameInv, TypeOK
<1>1. /\ UNCHANGED <<marker, dest>>
      /\ pc[j] \in {"aside", "move"}
      /\ pc' = pc \/ pc' = [pc EXCEPT ![j] = "failed"]
      /\ \A i \in Jobs \ {j} : moving'[i] = moving[i]
  <2>1. PICK p \in Paths : p = Target(j, k)
    BY MovePaths DEF NameInv
  <2> QED
    BY <2>1, MoveEffect
<1>2. MarkerIsDest'
  BY <1>0, <1>1 DEF MarkerIsDest
<1>3. \A i \in Jobs : Pinned(i) => Pinned(i)'
  BY <1>0, <1>1 DEF Pinned
<1>4. OwnFolder'
  <2> SUFFICES ASSUME NEW i \in Jobs, NEW m \in Kinds
               PROVE  files'[<<"job", i, m>>] \in {Whole(i), NoFile}
    BY DEF OwnFolder
  <2>1. <<"job", i, m>> \in Paths
    BY FolderPaths
  <2>2. <<"job", i, m>> # Target(j, k) /\ <<"job", i, m>> # Partial(j, k)
    BY MovePaths DEF NameInv
  <2>3. files[<<"job", i, m>>] \in {Whole(i), NoFile} /\ files[<<"job", i, m>>] # Half(j)
    BY <1>0, ContentsDiffer DEF OwnFolder
  <2>4. files'[<<"job", i, m>>] \in {files[<<"job", i, m>>], NoFile}
    BY <2>1, <2>2, <2>3, MoveEffect
  <2> QED
    BY <2>3, <2>4
<1>5. ASSUME NEW p \in Paths, NEW i \in Jobs, files'[p] = Whole(i),
             p[1] \in {"done", "done.partial"}
      PROVE  p[2] = dest'[i] /\ Pinned(i)'
  <2>1. CASE files'[p] = files[p]
    <3>1. files[p] = Whole(i)
      BY <1>5, <2>1
    <3>2. p[2] = dest[i]
      BY <1>0, <1>5, <3>1 DEF Named
    <3>3. Pinned(i)
      BY <1>0, <1>5, <3>1 DEF Named
    <3> QED
      BY <1>1, <1>3, <3>2, <3>3
  <2>2. CASE p = Target(j, k) /\ files'[p] \in {files[Source(j, k)], files[Partial(j, k)]}
    <3>1. pc[j] = "move" /\ p = <<"done", dest[j], k>>
      BY <1>1, <1>5, <2>2 DEF Target
    <3>2. Source(j, k) = <<"job", j, k>> /\ Partial(j, k) = <<"done.partial", dest[j], k>>
      BY <3>1 DEF Source, Partial
    <3>3. CASE files'[p] = files[Source(j, k)]
      <4>0. Whole(i) \in {Whole(j), NoFile}
        BY <1>0, <1>5, <3>2, <3>3 DEF OwnFolder
      <4>1. i = j
        BY <4>0, ContentsDiffer
      <4>2. Pinned(j)
        BY <1>0, <3>1 DEF Pinned, MarkerIsDest
      <4> QED
        BY <1>1, <1>3, <3>1, <4>1, <4>2
    <3>4. CASE files'[p] = files[Partial(j, k)]
      <4>1. Partial(j, k) \in Paths
        BY MovePaths DEF NameInv
      <4>3. files[Partial(j, k)] = Whole(i) /\ Partial(j, k)[1] = "done.partial"
        BY <1>5, <3>2, <3>4
      <4>4. Partial(j, k)[2] = dest[i]
        BY <1>0, <4>1, <4>3 DEF Named
      <4>2. Pinned(i)
        BY <1>0, <4>1, <4>3 DEF Named
      <4> QED
        BY <1>1, <1>3, <3>1, <3>2, <4>2, <4>4
    <3> QED
      BY <2>2, <3>3, <3>4
  <2>3. CASE files[p] = Half(j) /\ files'[p] = held[j]
    <3>1. moving[j].at = "copy" /\ pc[j] = "move" /\ p[2] = dest[j]
      BY <1>0, <1>5, <2>3 DEF Named
    <3>2. Whole(i) = Whole(j)
      BY <1>0, <1>5, <2>3, <3>1 DEF MovingShape
    <3>4. i = j
      BY <3>2, ContentsDiffer
    <3>3. Pinned(j)
      BY <1>0, <3>1 DEF Pinned, MarkerIsDest
    <3> QED
      BY <1>1, <1>3, <3>1, <3>4, <3>3
  <2>4. files'[p] \notin {NoFile, Torn, Half(j)}
    BY <1>5, ContentsDiffer
  <2> QED
    BY <2>1, <2>2, <2>3, <2>4, MoveEffect
<1>6. ASSUME NEW p \in Paths, NEW i \in Jobs, files'[p] = Half(i)
      PROVE  /\ moving'[i].at = "copy"
             /\ p[1] \in {"done", "done.partial"} => pc'[i] = "move" /\ p[2] = dest'[i]
  <2>1. CASE i = j
    <3>1. p = Partial(j, k) /\ moving'[j].at = "copy" /\ pc' = pc
      BY <1>0, <1>6, <2>1, MoveEffect, ContentsDiffer DEF MovingShape, Named
    <3> QED
      BY <1>1, <2>1, <3>1 DEF Partial
  <2>2. CASE i # j
    <3>1. \A q \in Paths : files[q] = Half(i) =>
            /\ moving'[i].at = "copy"
            /\ q[1] \in {"done", "done.partial"} => pc'[i] = "move" /\ q[2] = dest'[i]
      BY <1>0, <1>1, <2>2 DEF Named
    <3>2. CASE files'[p] = files[p]
      BY <1>6, <3>1, <3>2
    <3>3. CASE p = Target(j, k) /\ files'[p] \in {files[Source(j, k)], files[Partial(j, k)]}
      <4>1. CASE pc[j] = "aside"
        <5>1. p[1] \notin {"done", "done.partial"}
          BY <3>3, <4>1 DEF Target
        <5> QED
          BY <1>6, <3>1, <3>3, <5>1, MovePaths DEF NameInv
      <4>2. CASE pc[j] = "move"
        <5>1. /\ p = <<"done", dest[j], k>>
              /\ Source(j, k) = <<"job", j, k>>
              /\ Partial(j, k) = <<"done.partial", dest[j], k>>
          BY <3>3, <4>2 DEF Target, Source, Partial
        <5>2. files[Source(j, k)] # Half(i)
          BY <1>0, <5>1, ContentsDiffer DEF OwnFolder
        <5>3. files[Partial(j, k)] = Half(i) /\ Partial(j, k) \in Paths
          BY <1>6, <3>3, <5>2, MovePaths DEF NameInv
        <5> QED
          BY <3>1, <5>1, <5>3
      <4> QED
        BY <1>1, <4>1, <4>2
    <3>4. files'[p] \notin {NoFile, Torn, Half(j), held[j]}
      BY <1>0, <1>6, <2>2, ContentsDiffer DEF MovingShape
    <3> QED
      BY <3>2, <3>3, <3>4, MoveEffect
  <2> QED
    BY <2>1, <2>2
<1> QED
  BY <1>2, <1>4, <1>5, <1>6 DEF Named

\* The steps of a run that move no file, other than its failures, keep the invariant.
LEMMA OtherNamed ==
    ASSUME NameInv, NEW j \in Jobs,
           \/ AlreadyOrganized(j) \/ Name(j) \/ NoCollision(j) \/ Replace(j) \/ KeepBoth(j)
           \/ AllAside(j) \/ Pin(j) \/ Return(j) \/ Checkpoint(j) \/ Tidy(j) \/ Retry(j),
           ~Fail(j)
    PROVE  MarkerIsDest' /\ MovingShape' /\ OwnFolder' /\ Named'
<1>0. /\ pc \in [Jobs -> Running \cup {"waiting", "done", "failed"}]
      /\ files \in [Paths -> Contents]
      /\ marker \in [Jobs -> Numbers \cup {NoMarker}]
      /\ dest \in [Jobs -> Numbers]
      /\ NoMarker \notin Numbers
      /\ \A q \in Paths : files[q] \in Contents
      /\ MarkerIsDest /\ MovingShape /\ OwnFolder /\ Named
  BY SwitchAssumption DEF NameInv, TypeOK, Numbers, NoMarker
<1>1. /\ moving[j] = NotMoving
      /\ UNCHANGED <<moving, held>>
      /\ \A p \in Paths : files'[p] \in {files[p], NoFile}
  BY <1>0 DEF AlreadyOrganized, Name, NoCollision, Replace, KeepBoth, AllAside, Pin, Return,
     Checkpoint, Tidy, Retry, Goto, MovingShape
<1>2. \E p \in Running \cup {"waiting", "done", "failed"} :
         /\ pc' = [pc EXCEPT ![j] = p]
         /\ p = "done" => marker[j] # NoMarker
         /\ p \in {"move", "checkpoint", "tidy"} => marker'[j] # NoMarker
  BY <1>0 DEF AlreadyOrganized, Name, NoCollision, Replace, KeepBoth, AllAside, Pin, Return,
     Checkpoint, Tidy, Retry, Goto, Running, MarkerIsDest, IsOrganized, ReadMarker
<1>3. MarkerIsDest'
  <2>1. CASE Name(j)
    BY <1>0, <1>2, <2>1 DEF Name, FirstRun, ReadMarker, MarkerIsDest
  <2>2. CASE KeepBoth(j)
    BY <1>0, <1>2, <2>2 DEF KeepBoth, Collision, FirstRun, ReadMarker, MarkerIsDest
  <2>3. CASE Pin(j)
    BY <1>0, <1>2, <2>3 DEF Pin, MarkerIsDest
  <2>4. CASE Tidy(j)
    BY <1>0, <1>2, <2>4 DEF Tidy, Goto, MarkerIsDest
  <2>5. CASE UNCHANGED <<marker, dest>>
    BY <1>0, <1>2, <2>5 DEF MarkerIsDest
  <2> QED
    BY <2>1, <2>2, <2>3, <2>4, <2>5 DEF AlreadyOrganized, NoCollision, Replace, AllAside,
       Return, Checkpoint, Retry
<1>4. MovingShape'
  <2>1. \A i \in Jobs \ {j} : todo'[i] = todo[i] /\ pc'[i] = pc[i]
    BY <1>0, <1>2 DEF NameInv, TypeOK, AlreadyOrganized, Name, NoCollision, Replace, KeepBoth,
       AllAside, Pin, Return, Checkpoint, Tidy, Retry
  <2> QED
    BY <1>0, <1>1, <2>1 DEF MovingShape, NotMoving
<1>5. OwnFolder'
  BY <1>0, <1>1, FolderPaths DEF OwnFolder
<1>6. Named'
  <2>1. ASSUME NEW p \in Paths, NEW i \in Jobs, i # j
        PROVE  /\ UNCHANGED <<dest[i], moving[i], pc[i]>>
               /\ Pinned(i)' = Pinned(i)
    BY <1>0, <1>1, <1>2, <2>1 DEF Pinned, AlreadyOrganized, Name, NoCollision, Replace,
       KeepBoth, AllAside, Pin, Return, Checkpoint, Tidy, Retry
  <2>2. ASSUME NEW p \in Paths, NEW i \in Jobs, files'[p] = Whole(i),
               p[1] \in {"done", "done.partial"}
        PROVE  p[2] = dest'[i] /\ Pinned(i)'
    <3>1. files[p] = Whole(i)
      BY <1>1, <2>2, ContentsDiffer
    <3>2. p[2] = dest[i]
      BY <1>0, <2>2, <3>1 DEF Named
    <3>3. Pinned(i)
      BY <1>0, <2>2, <3>1 DEF Named
    <3>4. CASE i # j
      BY <2>1, <3>2, <3>3, <3>4
    <3>5. CASE i = j
      <4>1. Pinned(j)'
        <5>1. CASE Tidy(j)
          BY <1>0, <5>1 DEF Tidy, Goto, Pinned
        <5>2. CASE AlreadyOrganized(j)
          BY <1>0, <5>2 DEF AlreadyOrganized, Goto, Pinned
        <5>3. CASE Pin(j)
          BY <1>0, <5>3 DEF Pin, Pinned
        <5>4. CASE UNCHANGED marker /\ pc[j] # "done"
          BY <3>3, <3>5, <5>4 DEF Pinned
        <5> QED
          BY <5>1, <5>2, <5>3, <5>4 DEF Name, NoCollision, Replace, KeepBoth, AllAside,
             Return, Checkpoint, Retry
      <4>2. dest'[j] = dest[j]
        <5>1. CASE Name(j)
          BY <1>0, <3>3, <3>5, <5>1 DEF Name, FirstRun, ReadMarker, MarkerIsDest, Pinned
        <5>2. CASE KeepBoth(j)
          BY <3>3, <3>5, <5>2 DEF KeepBoth, Collision, FirstRun, ReadMarker, Pinned
        <5> QED
          BY <5>1, <5>2 DEF AlreadyOrganized, NoCollision, Replace, AllAside, Pin,
             Return, Checkpoint, Tidy, Retry
      <4> QED
        BY <3>2, <3>5, <4>1, <4>2
    <3> QED
      BY <3>4, <3>5
  <2>3. ASSUME NEW p \in Paths, NEW i \in Jobs, files'[p] = Half(i)
        PROVE  /\ moving'[i].at = "copy"
               /\ p[1] \in {"done", "done.partial"} => pc'[i] = "move" /\ p[2] = dest'[i]
    <3>1. files[p] = Half(i)
      BY <1>1, <2>3, ContentsDiffer
    <3>2. i # j
      BY <1>0, <1>1, <3>1 DEF Named, NotMoving
    <3> QED
      BY <1>0, <2>1, <3>1, <3>2 DEF Named
  <2> QED
    BY <2>2, <2>3 DEF Named
<1> QED
  BY <1>3, <1>4, <1>5, <1>6

\* A failing run, and a stop of the process, tear what was half-written; nothing else.
LEMMA StopNamed ==
    ASSUME NameInv, (\E j \in Jobs : Fail(j) /\ pc[j] # "done") \/ Crash
    PROVE  MarkerIsDest' /\ MovingShape' /\ OwnFolder' /\ Named'
<1>0. /\ pc \in [Jobs -> Running \cup {"waiting", "done", "failed"}]
      /\ files \in [Paths -> Contents]
      /\ moving \in [Jobs -> [kind : Kinds, at : {"open", "copy", "rename", "unlink"}]
                           \cup {NotMoving}]
      /\ MarkerIsDest /\ MovingShape /\ OwnFolder /\ Named
  BY DEF NameInv, TypeOK
<1>1. PICK W \in SUBSET Jobs :
         /\ files' = Torns(W)
         /\ \A j \in W : moving'[j] = NotMoving
         /\ \A j \in Jobs \ W : moving'[j] = moving[j] /\ pc'[j] = pc[j]
         /\ \A j \in Jobs : \/ pc'[j] = pc[j]
                            \/ pc'[j] \in {"failed", "waiting"} /\ pc[j] # "done"
                            \/ pc'[j] = "done" /\ pc[j] = "tidy"
         /\ UNCHANGED <<marker, dest, todo, held>>
  <2>1. CASE Crash
    <3>1. \A j \in Jobs : \/ pc'[j] = pc[j]
                          \/ pc'[j] = "waiting" /\ pc[j] # "done"
                          \/ pc'[j] = "done" /\ pc[j] = "tidy"
      <4>1. \A j \in Jobs : pc'[j] = CASE pc[j] = "tidy" -> "done"
                                      [] pc[j] \in Running \ {"tidy"} -> "waiting"
                                      [] OTHER -> pc[j]
        BY <2>1 DEF Crash
      <4>2. "done" \notin Running
        BY DEF Running
      <4> QED
        BY <4>1, <4>2
    <3>2. files' = Torns(Jobs) /\ \A j \in Jobs : moving'[j] = NotMoving
      BY <2>1 DEF Crash
    <3> QED
      BY <2>1, <3>1, <3>2 DEF Crash
  <2>2. CASE \E j \in Jobs : Fail(j) /\ pc[j] # "done"
    <3>1. PICK j \in Jobs : Fail(j) /\ pc[j] # "done"
      BY <2>2
    <3>2. /\ files' = Torns({j}) /\ moving'[j] = NotMoving
          /\ \A i \in Jobs \ {j} : moving'[i] = moving[i] /\ pc'[i] = pc[i]
          /\ pc'[j] = "failed"
      BY <1>0, <3>1 DEF Fail, Goto
    <3>3. UNCHANGED <<marker, dest, todo, held>> /\ {j} \in SUBSET Jobs
      BY <3>1 DEF Fail
    <3> QED
      BY <3>1, <3>2, <3>3
  <2> QED
    BY <2>1, <2>2
<1>2. MarkerIsDest'
  BY <1>0, <1>1 DEF MarkerIsDest
<1>3. MovingShape'
  <2> SUFFICES ASSUME NEW j \in Jobs
               PROVE  /\ moving'[j] # NotMoving =>
                            pc'[j] \in {"aside", "move"} /\ moving'[j].kind \in todo'[j]
                      /\ moving'[j].at = "copy" /\ pc'[j] = "move" => held'[j] = Whole(j)
                      /\ \A i \in Jobs : held'[j] # Half(i)
    BY DEF MovingShape
  <2>1. CASE j \in W
    BY <1>0, <1>1, <2>1 DEF MovingShape, NotMoving
  <2>2. CASE j \notin W
    BY <1>0, <1>1, <2>2 DEF MovingShape
  <2> QED
    BY <2>1, <2>2
<1>4. ASSUME NEW p \in Paths
      PROVE  /\ \A i \in W : files'[p] # Half(i)
             /\ files'[p] # Torn => files'[p] = files[p]
             /\ files'[p] = files[p] \/ \E i \in W : files[p] = Half(i)
  BY <1>1, ContentsDiffer DEF Torns
<1>5. OwnFolder'
  <2> SUFFICES ASSUME NEW j \in Jobs, NEW k \in Kinds
               PROVE  files'[<<"job", j, k>>] \in {Whole(j), NoFile}
    BY DEF OwnFolder
  <2>1. files[<<"job", j, k>>] \in {Whole(j), NoFile}
    BY <1>0 DEF OwnFolder
  <2>2. files[<<"job", j, k>>] # Torn /\ \A i \in Jobs : files[<<"job", j, k>>] # Half(i)
    BY <2>1, ContentsDiffer
  <2>3. files'[<<"job", j, k>>] = files[<<"job", j, k>>]
    <3>1. <<"job", j, k>> \in Paths
      BY FolderPaths
    <3> QED
      BY <1>4, <2>2, <3>1
  <2> QED
    BY <2>1, <2>3
<1>6. Named'
  <2>1. ASSUME NEW p \in Paths, NEW i \in Jobs, files'[p] = Whole(i),
               p[1] \in {"done", "done.partial"}
        PROVE  p[2] = dest'[i] /\ Pinned(i)'
    <3>0. Whole(i) # Torn
      BY ContentsDiffer
    <3>1. files[p] = Whole(i)
      BY <1>4, <2>1, <3>0
    <3>2. p[2] = dest[i]
      BY <1>0, <2>1, <3>1 DEF Named
    <3>3. Pinned(i)
      BY <1>0, <2>1, <3>1 DEF Named
    <3>4. Pinned(i)'
      BY <1>1, <3>3 DEF Pinned
    <3> QED
      BY <1>1, <3>2, <3>4
  <2>2. ASSUME NEW p \in Paths, NEW i \in Jobs, files'[p] = Half(i)
        PROVE  /\ moving'[i].at = "copy"
               /\ p[1] \in {"done", "done.partial"} => pc'[i] = "move" /\ p[2] = dest'[i]
    <3>0. Half(i) # Torn
      BY ContentsDiffer
    <3>1. files[p] = Half(i) /\ i \notin W
      BY <1>4, <2>2, <3>0
    <3> QED
      BY <1>0, <1>1, <3>1 DEF Named
  <2> QED
    BY <2>1, <2>2 DEF Named
<1> QED
  BY <1>2, <1>3, <1>5, <1>6

\* Every step keeps the invariant.
LEMMA NextNamed == NameInv /\ [Next]_vars => NameInv'
<1> SUFFICES ASSUME NameInv, [Next]_vars PROVE MarkerIsDest' /\ MovingShape' /\ OwnFolder' /\ Named'
  BY NextType DEF NameInv
<1>1. ASSUME NEW j \in Jobs, Run(j) \/ Retry(j)
      PROVE  MarkerIsDest' /\ MovingShape' /\ OwnFolder' /\ Named'
  <2>1. CASE \E k \in Kinds : Move(j, k)
    BY <2>1, MoveShape, MoveNamed
  <2>2. CASE Fail(j) /\ ~ \E k \in Kinds : Move(j, k)
    <3>1. pc[j] # "done"
      BY <1>1, <2>2 DEF Run, Retry, AlreadyOrganized, NotAVideo, Name, NoCollision, AskFirst,
         Replace, KeepBoth, AllAside, Pin, Return, Checkpoint, Tidy
    <3> QED
      BY <2>2, <3>1, StopNamed
  <2>3. NotAVideo(j) \/ AskFirst(j) => Fail(j)
    BY DEF NotAVideo, AskFirst
  <2> QED
    BY <1>1, <2>1, <2>2, <2>3, OtherNamed DEF Run
<1>2. CASE Crash
  BY <1>2, StopNamed
<1>3. CASE UNCHANGED vars
  BY <1>3 DEF NameInv, MarkerIsDest, MovingShape, OwnFolder, Named, Pinned, vars, inputs, runVars
<1> QED
  BY <1>1, <1>2, <1>3 DEF Next

\* The initial states satisfy the invariant.
LEMMA InitNamed == Init => NameInv
<1> SUFFICES ASSUME Init PROVE MarkerIsDest /\ MovingShape /\ OwnFolder /\ Named
  BY InitType DEF NameInv
<1>1. \A p \in Paths : files[p] = CASE p[1] = "job" /\ <<p[2], p[3]>> \in original -> Whole(p[2])
                         [] p[1] = "done" /\ p[2] = 0 /\ <<Old, p[3]>> \in original -> Whole(Old)
                         [] OTHER -> NoFile
  BY DEF Init
<1>2. MarkerIsDest
  BY DEF Init, MarkerIsDest
<1>3. MovingShape
  BY ContentsDiffer DEF Init, MovingShape, NotMoving
<1>4. OwnFolder
  BY <1>1, FolderPaths DEF OwnFolder
<1>5. Named
  <2>1. \A p \in Paths : p[1] = "job" => p[2] \in Jobs
    BY DEF Paths
  <2> QED
    BY <1>1, <2>1, ContentsDiffer DEF Named
<1> QED
  BY <1>2, <1>3, <1>4, <1>5

\* NameInv is an invariant of the organizer, for any jobs, volumes, failures and restarts.
THEOREM NamesInvariant == Spec => []NameInv
BY InitNamed, NextNamed, PTL DEF Spec

\* However often a job is interrupted and run again, and whatever other jobs of the same
\* name do meanwhile, its video does not turn up under two names in completed/.
THEOREM VideoHasOneName == Spec => []OneName
<1>1. NameInv => OneName
  <2> SUFFICES ASSUME NameInv, NEW j \in Jobs, NEW n \in Numbers,
                      files[<<"done", n, "video">>] = Whole(j)
               PROVE  n = dest[j]
    BY DEF OneName
  <2>1. <<"done", n, "video">> \in Paths
    BY DEF Paths, Kinds
  <2> QED
    BY <2>1 DEF NameInv, Named
<1> QED
  BY <1>1, NamesInvariant, PTL
=============================================================================
