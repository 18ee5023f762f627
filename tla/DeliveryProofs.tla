----------------------------- MODULE DeliveryProofs -----------------------------
(***************************************************************************)
(* TLAPS proofs about what Organizer delivers: what is under final names   *)
(* is whole where no two copies meet, and a job on its own implements the  *)
(* promise of Delivery.                                                    *)
(***************************************************************************)
EXTENDS OrganizerProofs

---------------------------------------------------------------------------
(* Whole files                                                             *)

\* No two copies meet: the files are renamed, or there is one job.
Apart == oneVolume \/ \E j \in Jobs : Jobs = {j}

\* A copy is written from nothing, and is renamed when it is whole.
Writing ==
    \A j \in Jobs, k \in Kinds, at \in {"open", "copy", "rename", "unlink"} :
        CopyAt(j, k, at) =>
            /\ ~oneVolume
            /\ at = "open" => ~Present(Partial(j, k))
            /\ at = "copy" => files[Partial(j, k)] = Half(j) /\ held[j][2] = "whole"
            /\ at = "rename" => files[Partial(j, k)][2] = "whole"

WholeInv == NameInv /\ Apart /\ FinalNamesAreWhole /\ Writing

\* No step changes the inputs.
LEMMA InputsStay == [Next]_vars => UNCHANGED inputs
<1> SUFFICES ASSUME [Next]_vars PROVE UNCHANGED inputs
  OBVIOUS
<1>1. ASSUME NEW j \in Jobs, NEW k \in Kinds, Move(j, k) PROVE UNCHANGED inputs
  BY <1>1 DEF Move, MovedBefore, NothingToMove, Rename, BeginCopy, OpenPartial, CopyOk, CopyFails,
     RenamePartial, UnlinkSource, Fail
<1>2. ASSUME NEW j \in Jobs, Run(j) \/ Retry(j), ~ \E k \in Kinds : Move(j, k)
      PROVE  UNCHANGED inputs
  BY <1>2 DEF Run, Retry, AlreadyOrganized, NotAVideo, Name, NoCollision, AskFirst, Replace,
     KeepBoth, AllAside, Pin, Return, Checkpoint, Tidy, Fail
<1> QED
  BY <1>1, <1>2 DEF Next, Crash, vars

\* What a move reads is whole; its partial is a third path, which is no final name.
LEMMA MoveReads ==
    ASSUME WholeInv, NEW j \in Jobs, NEW k \in Kinds, pc[j] \in {"aside", "move"}
    PROVE  /\ Source(j, k) \in Paths /\ Target(j, k) \in Paths /\ Partial(j, k) \in Paths
           /\ Source(j, k) # Partial(j, k) /\ Target(j, k) # Partial(j, k)
           /\ Partial(j, k)[1] \notin {"done", "aside"}
           /\ files[Source(j, k)] = NoFile \/ files[Source(j, k)][2] = "whole"
<1>1. Source(j, k) \in Paths /\ Target(j, k) \in Paths /\ Partial(j, k) \in Paths
  BY MovePaths DEF WholeInv, NameInv
<1>2. CASE pc[j] = "aside"
  <2>1. Source(j, k)[1] = "done"
    BY <1>2 DEF Source
  <2> QED
    BY <1>1, <1>2, <2>1 DEF WholeInv, FinalNamesAreWhole, Source, Target, Partial
<1>3. CASE pc[j] = "move"
  <2>1. files[Source(j, k)] \in {Whole(j), NoFile}
    BY <1>3 DEF Source, WholeInv, NameInv, OwnFolder
  <2> QED
    BY <1>1, <1>3, <2>1, ContentsDiffer DEF Source, Target, Partial
<1> QED
  BY <1>2, <1>3

\* A move leaves what is under final names whole, and its copy where the next phase needs it.
LEMMA MoveWhole ==
    ASSUME WholeInv, NEW j \in Jobs, NEW k \in Kinds, Move(j, k)
    PROVE  FinalNamesAreWhole' /\ Writing'
<1> DEFINE S == Source(j, k)
           T == Target(j, k)
           Q == Partial(j, k)
<1>0. PICK p \in Paths : p = Target(j, k)
  BY MovePaths DEF WholeInv, NameInv
<1>1. pc[j] \in {"aside", "move"}
  BY <1>0, MoveEffect DEF WholeInv
<1>2. /\ S \in Paths /\ T \in Paths /\ Q \in Paths
      /\ S # Q /\ T # Q /\ Q[1] \notin {"done", "aside"}
      /\ files[S] = NoFile \/ files[S][2] = "whole"
  BY <1>1, MoveReads
<1>3. /\ files \in [Paths -> Contents]
      /\ held \in [Jobs -> Contents]
      /\ moving \in [Jobs -> [kind : Kinds, at : {"open", "copy", "rename", "unlink"}]
                           \cup {NotMoving}]
      /\ Cleared(j, k) \in [Paths -> Contents]
      /\ Cleared(j, k)[Q] = NoFile
      /\ \A q \in Paths \ {Q} : Cleared(j, k)[q] = files[q]
  BY <1>2, ContentsFacts DEF WholeInv, NameInv, TypeOK, Cleared
<1>4. \A q \in Paths : q[1] \in {"done", "aside"} => q # Q /\ files[q] # Half(j)
                         /\ (files[q] = NoFile \/ files[q][2] = "whole")
  BY <1>2, ContentsDiffer DEF WholeInv, FinalNamesAreWhole
<1>5. ASSUME UNCHANGED <<pc, dest>>
      PROVE  \A m \in Kinds : Partial(j, m)' = Partial(j, m)
  BY <1>5 DEF Partial
<1>6. ASSUME NEW at \in {"open", "copy", "rename", "unlink"}, CopyAt(j, k, at)
      PROVE  /\ ~oneVolume
             /\ at = "open" => ~Present(Q)
             /\ at = "copy" => files[Q] = Half(j) /\ held[j][2] = "whole"
             /\ at = "rename" => files[Q][2] = "whole"
  BY <1>6 DEF WholeInv, Writing
<1>7. ASSUME ~oneVolume PROVE Jobs = {j}
  BY <1>7 DEF WholeInv, Apart
<1>8. ASSUME NEW at \in {"open", "copy", "rename", "unlink"},
             moving' = [moving EXCEPT ![j] = [kind |-> k, at |-> at]],
             UNCHANGED <<pc, dest, oneVolume>>, ~oneVolume,
             at = "open" => files'[Q] = NoFile,
             at = "copy" => files'[Q] = Half(j) /\ held'[j][2] = "whole",
             at = "rename" => files'[Q][2] = "whole"
      PROVE  Writing'
  <2> SUFFICES ASSUME NEW m \in Kinds, NEW ph \in {"open", "copy", "rename", "unlink"},
                      CopyAt(j, m, ph)'
               PROVE  /\ ~oneVolume
                      /\ ph = "open" => ~Present(Partial(j, m))'
                      /\ ph = "copy" => (files[Partial(j, m)] = Half(j) /\ held[j][2] = "whole")'
                      /\ ph = "rename" => (files[Partial(j, m)][2] = "whole")'
    BY <1>7, <1>8 DEF Writing
  <2>1. m = k /\ ph = at
    BY <1>3, <1>8 DEF CopyAt
  <2> QED
    BY <1>5, <1>8, <2>1 DEF Present
<1>9. ASSUME moving'[j] = NotMoving, oneVolume' = oneVolume,
             \A i \in Jobs \ {j} : moving'[i] = moving[i]
      PROVE  Writing'
  <2>1. ASSUME NEW i \in Jobs, NEW m \in Kinds, NEW at \in {"open", "copy", "rename", "unlink"},
               CopyAt(i, m, at)'
        PROVE  FALSE
    <3>1. i # j
      BY <1>9, <2>1 DEF CopyAt, NotMoving
    <3>2. CopyAt(i, m, at)
      BY <1>9, <2>1, <3>1 DEF CopyAt
    <3>3. ~oneVolume
      BY <3>2 DEF WholeInv, Writing
    <3> QED
      BY <1>7, <3>1, <3>3
  <2> QED
    BY <2>1 DEF Writing
<1> HIDE DEF S, T, Q
<1>10. CASE MovedBefore(j, k) \/ NothingToMove(j, k)
  <2>1. /\ moving'[j] = NotMoving /\ UNCHANGED <<oneVolume, moving>>
        /\ \A q \in Paths : files'[q] \in {files[q], NoFile}
    BY <1>3, <1>10 DEF MovedBefore, NothingToMove, Ready, inputs, S, Q
  <2>2. FinalNamesAreWhole'
    BY <1>4, <2>1 DEF FinalNamesAreWhole
  <2> QED
    BY <1>9, <2>1, <2>2
<1>11. CASE Rename(j, k)
  <2>1. /\ moving'[j] = NotMoving /\ UNCHANGED <<oneVolume, moving>>
        /\ files' = [Cleared(j, k) EXCEPT ![T] = files[S], ![S] = NoFile]
    BY <1>11 DEF Rename, ToMove, Ready, inputs, S, T
  <2>2. \A q \in Paths : files'[q] \in {files[q], NoFile, files[S]}
    BY <1>2, <1>3, <2>1
  <2>3. FinalNamesAreWhole'
    BY <1>2, <1>4, <2>2 DEF FinalNamesAreWhole
  <2> QED
    BY <1>9, <2>1, <2>3
<1>12. CASE Fail(j)
  <2>1. /\ moving'[j] = NotMoving /\ oneVolume' = oneVolume
        /\ \A i \in Jobs \ {j} : moving'[i] = moving[i]
        /\ \A q \in Paths : files[q] # Half(j) => files'[q] = files[q]
    BY <1>3, <1>12, FailEffect DEF Fail, inputs
  <2>2. FinalNamesAreWhole'
    BY <1>4, <2>1 DEF FinalNamesAreWhole
  <2> QED
    BY <1>9, <2>1, <2>2
<1>13. CASE BeginCopy(j, k)
  <2>1. /\ moving' = [moving EXCEPT ![j] = [kind |-> k, at |-> "open"]]
        /\ files' = Cleared(j, k) /\ UNCHANGED <<pc, dest, oneVolume>> /\ ~oneVolume
    BY <1>13 DEF BeginCopy, inputs
  <2>2. FinalNamesAreWhole'
    BY <1>3, <1>4, <2>1 DEF FinalNamesAreWhole
  <2> QED
    BY <1>3, <1>8, <2>1, <2>2
<1>14. CASE OpenPartial(j, k) /\ ~Fail(j)
  <2>1. /\ CopyAt(j, k, "open") /\ UNCHANGED <<pc, dest, oneVolume>> /\ Present(S)
        /\ held' = [held EXCEPT ![j] = IF files[S][2] = "whole" THEN files[S] ELSE Torn]
        /\ files' = [files EXCEPT ![Q] = IF Present(Q) THEN Torn ELSE Half(j)]
        /\ moving' = [moving EXCEPT ![j] = [kind |-> k, at |-> "copy"]]
    BY <1>14 DEF OpenPartial, Advance, inputs, S, Q
  <2>2. ~oneVolume /\ ~Present(Q) /\ files[S][2] = "whole"
    BY <1>2, <1>6, <2>1 DEF Present
  <2>3. /\ files'[Q] = Half(j) /\ held'[j][2] = "whole"
        /\ \A q \in Paths \ {Q} : files'[q] = files[q]
    BY <1>2, <1>3, <2>1, <2>2
  <2>4. FinalNamesAreWhole'
    BY <1>4, <2>3 DEF FinalNamesAreWhole
  <2> QED
    BY <1>8, <2>1, <2>2, <2>3, <2>4
<1>15. CASE CopyOk(j, k)
  <2>1. /\ CopyAt(j, k, "copy") /\ UNCHANGED <<pc, dest, oneVolume>>
        /\ files' = [q \in Paths |-> IF files[q] = Half(j) THEN held[j] ELSE files[q]]
        /\ moving' = [moving EXCEPT ![j] = [kind |-> k, at |-> "rename"]]
    BY <1>15 DEF CopyOk, Advance, inputs
  <2>2. ~oneVolume /\ files[Q] = Half(j) /\ held[j][2] = "whole"
    BY <1>6, <2>1
  <2>3. files'[Q][2] = "whole"
    BY <1>2, <2>1, <2>2
  <2>4. FinalNamesAreWhole'
    BY <1>4, <2>1 DEF FinalNamesAreWhole
  <2> QED
    BY <1>8, <2>1, <2>2, <2>3, <2>4
<1>16. CASE RenamePartial(j, k) /\ ~Fail(j)
  <2>1. /\ CopyAt(j, k, "rename") /\ UNCHANGED <<pc, dest, oneVolume>>
        /\ files' = [files EXCEPT ![T] = files[Q], ![Q] = NoFile]
        /\ moving' = [moving EXCEPT ![j] = [kind |-> k, at |-> "unlink"]]
    BY <1>16 DEF RenamePartial, Advance, inputs, T, Q
  <2>2. ~oneVolume /\ files[Q][2] = "whole"
    BY <1>6, <2>1
  <2>3. \A q \in Paths \ {Q} : files'[q] \in {files[q], files[Q]}
    BY <1>3, <2>1
  <2>4. FinalNamesAreWhole'
    BY <1>4, <2>2, <2>3 DEF FinalNamesAreWhole
  <2> QED
    BY <1>8, <2>1, <2>2, <2>4
<1>17. CASE UnlinkSource(j, k) /\ ~Fail(j)
  <2>1. /\ moving' = [moving EXCEPT ![j] = NotMoving] /\ oneVolume' = oneVolume
        /\ files' = [files EXCEPT ![S] = NoFile]
    BY <1>17 DEF UnlinkSource, inputs, S
  <2>2. \A q \in Paths : files'[q] \in {files[q], NoFile}
    BY <1>3, <2>1
  <2>3. FinalNamesAreWhole'
    BY <1>4, <2>2 DEF FinalNamesAreWhole
  <2> QED
    BY <1>3, <1>9, <2>1, <2>3
<1>18. CopyFails(j, k) => Fail(j)
  BY DEF CopyFails
<1> QED
  BY <1>10, <1>11, <1>12, <1>13, <1>14, <1>15, <1>16, <1>17, <1>18 DEF Move

\* The other steps, and a stop, leave what is under final names as it is or remove it, and
\* begin no copy.
LEMMA OtherWhole ==
    ASSUME WholeInv, [Next]_vars, ~ \E j \in Jobs, k \in Kinds : Move(j, k)
    PROVE  FinalNamesAreWhole' /\ Writing'
<1>1. \A q \in Paths : q[1] \in {"done", "aside"} =>
         /\ \A i \in Jobs : files[q] # Half(i)
         /\ files[q] = NoFile \/ files[q][2] = "whole"
  BY ContentsDiffer DEF WholeInv, FinalNamesAreWhole
<1>2. moving \in [Jobs -> [kind : Kinds, at : {"open", "copy", "rename", "unlink"}]
                        \cup {NotMoving}]
  BY DEF WholeInv, NameInv, TypeOK
<1>3. ASSUME NEW j \in Jobs, Run(j) \/ Retry(j) PROVE FinalNamesAreWhole' /\ Writing'
  <2>1. /\ moving'[j] = NotMoving /\ oneVolume' = oneVolume
        /\ \A i \in Jobs \ {j} : moving'[i] = moving[i]
        /\ \A q \in Paths : q[1] \in {"done", "aside"} => files'[q] = files[q]
    <3>1. CASE Fail(j)
      BY <1>1, <1>2, <3>1, FailEffect DEF Fail, inputs
    <3>2. CASE ~Fail(j)
      BY <1>3, <3>2 DEF WholeInv, NameInv, MovingShape, Run, Retry, AlreadyOrganized, NotAVideo,
         Name, NoCollision, AskFirst, Replace, KeepBoth, AllAside, Pin, Return, Checkpoint, Tidy,
         inputs
    <3> QED
      BY <3>1, <3>2
  <2>2. FinalNamesAreWhole'
    BY <1>1, <2>1 DEF FinalNamesAreWhole
  <2>3. ASSUME NEW i \in Jobs, NEW m \in Kinds, NEW at \in {"open", "copy", "rename", "unlink"},
               CopyAt(i, m, at)'
        PROVE  FALSE
    <3>1. i # j
      BY <2>1, <2>3 DEF CopyAt, NotMoving
    <3>2. CopyAt(i, m, at)
      BY <2>1, <2>3, <3>1 DEF CopyAt
    <3> QED
      BY <3>1, <3>2 DEF WholeInv, Writing, Apart
  <2> QED
    BY <2>2, <2>3 DEF Writing
<1>4. CASE Crash
  <2>1. /\ \A j \in Jobs : moving'[j] = NotMoving
        /\ \A q \in Paths : q[1] \in {"done", "aside"} => files'[q] = files[q]
    BY <1>1, <1>4 DEF Crash, Torns
  <2>2. FinalNamesAreWhole'
    BY <1>1, <2>1 DEF FinalNamesAreWhole
  <2> QED
    BY <2>1, <2>2 DEF Writing, CopyAt, NotMoving
<1>5. CASE UNCHANGED vars
  <2>1. UNCHANGED <<files, pc, dest, moving, held, oneVolume>>
    BY <1>5 DEF vars, inputs, runVars
  <2>2. \A i \in Jobs, m \in Kinds, at \in {"open", "copy", "rename", "unlink"} :
           Partial(i, m)' = Partial(i, m) /\ (CopyAt(i, m, at)' <=> CopyAt(i, m, at))
    BY <2>1 DEF Partial, CopyAt
  <2>3. Writing'
    BY <2>1, <2>2 DEF WholeInv, Writing, Present
  <2>4. FinalNamesAreWhole'
    BY <2>1 DEF WholeInv, FinalNamesAreWhole
  <2> QED
    BY <2>3, <2>4
<1> QED
  BY <1>3, <1>4, <1>5 DEF Next

\* However a copy ends, what is under its final name, in completed/ or in _replaced/, is
\* whole: for any number of jobs when files are renamed, for one job when they are copied.
THEOREM FinalFilesAreWhole ==
    ASSUME Volumes \subseteq {TRUE} \/ \E j \in Jobs : Jobs = {j}
    PROVE  Spec => []FinalNamesAreWhole
<1>1. Init => WholeInv
  <2> SUFFICES ASSUME Init PROVE WholeInv
    OBVIOUS
  <2>1. Apart
    BY DEF Init, Apart
  <2>2. FinalNamesAreWhole
    BY ContentsDiffer DEF Init, FinalNamesAreWhole
  <2>3. Writing
    BY DEF Init, Writing, CopyAt, NotMoving
  <2> QED
    BY <2>1, <2>2, <2>3, InitNamed DEF WholeInv
<1>2. WholeInv /\ [Next]_vars => WholeInv'
  <2> SUFFICES ASSUME WholeInv, [Next]_vars PROVE WholeInv'
    OBVIOUS
  <2>1. NameInv'
    BY NextNamed DEF WholeInv
  <2>2. Apart'
    BY InputsStay DEF WholeInv, Apart, inputs
  <2>3. FinalNamesAreWhole' /\ Writing'
    BY MoveWhole, OtherWhole
  <2> QED
    BY <2>1, <2>2, <2>3 DEF WholeInv
<1>3. WholeInv => FinalNamesAreWhole
  BY DEF WholeInv
<1> QED
  BY <1>1, <1>2, <1>3, PTL DEF Spec

---------------------------------------------------------------------------
(* A job on its own                                                        *)

\* completed/ holds files of the jobs and, under the plain name, the ones that were there
\* before; only these are put aside.
FinalContents ==
    \A p \in Paths :
        /\ p[1] = "done" => \/ files[p] \in {Whole(j) : j \in Jobs} \cup {NoFile}
                            \/ files[p] = Whole(Old) /\ p[2] = 0
        /\ p[1] = "aside" => files[p] \in {Whole(Old), NoFile}

\* A run that puts files aside is a first one, at the plain name, and knows all of them.
Replacing ==
    \A j \in Jobs :
        /\ pc[j] \in {"named", "aside"} /\ marker[j] = NoMarker => dest[j] = 0
        /\ pc[j] = "aside" =>
              /\ marker[j] = NoMarker
              /\ policy[j] = "replace"
              /\ \A k \in Kinds : Present(<<"done", 0, k>>) => k \in todo[j]

\* No video of the library is in the way once the name is settled.
OldGone ==
    \A j \in Jobs : marker[j] # NoMarker \/ pc[j] = "pin" =>
        files[<<"done", dest[j], "video">>] # Whole(Old)

\* A subtitle of the library is beside its video, and is not replaced.
LibraryPair ==
    files[<<"done", 0, "sub">>] = Whole(Old) =>
        /\ files[<<"done", 0, "video">>] = Whole(Old)
        /\ \A j \in Jobs : policy[j] # "replace"

\* What a copy has reached: the source stays until the target is a whole copy of it.
Copying ==
    \A j \in Jobs, k \in Kinds, at \in {"open", "copy", "rename", "unlink"} :
        CopyAt(j, k, at) =>
            /\ MayMove(j, k)
            /\ Present(Source(j, k))
            /\ at = "open" => ~Present(Partial(j, k))
            /\ at = "copy" => files[Partial(j, k)] = Half(j) /\ held[j] = files[Source(j, k)]
            /\ at = "rename" => files[Partial(j, k)] = files[Source(j, k)]
            /\ at = "unlink" => files[Target(j, k)] = files[Source(j, k)]

\* A half-written file is at the partial name of the copy that writes it.
HalfAt ==
    \A p \in Paths, j \in Jobs :
        files[p] = Half(j) => \E k \in Kinds : p = Partial(j, k) /\ CopyAt(j, k, "copy")

\* Every file there was is whole in completed/, in _replaced/ or in its job's folder.
AllThere ==
    \A o \in Jobs \cup {Old}, k \in Kinds :
        <<o, k>> \in original <=> InLibrary(o, k) \/ IsAside(o, k) \/ InFolder(o, k)

SoloInv ==
    /\ NameInv /\ FolderKnown
    /\ FinalContents /\ Replacing /\ OldGone /\ LibraryPair /\ Copying /\ HalfAt /\ AllThere

\* No file changes at a final name, other than those of a set of paths.
StayBut(S) ==
    \A p \in Paths \ S : p[1] \in {"job", "done", "aside"} => files'[p] = files[p]

\* What a run moves: files of the library aside, its own to completed/.
Cargo(j) == IF pc[j] = "aside" THEN Whole(Old) ELSE Whole(j)

\* A whole file arrives at its target, or its source goes once it has arrived.
Transfers(j, k) ==
    /\ pc[j] \in {"aside", "move"} /\ MayMove(j, k)
    /\ files[Source(j, k)] = Cargo(j) /\ files'[Source(j, k)] \in {Cargo(j), NoFile}
    /\ files[Target(j, k)] \in {Cargo(j), NoFile} /\ files'[Target(j, k)] = Cargo(j)
    /\ StayBut({Source(j, k), Target(j, k)})

\* Source, target and partial of a move: three paths, the first two final names, where
\* there is nothing but what the run moves.
LEMMA MoveCargo ==
    ASSUME SoloInv, NEW j \in Jobs, Jobs = {j}, NEW k \in Kinds, pc[j] \in {"aside", "move"}
    PROVE  /\ Source(j, k) \in Paths /\ Target(j, k) \in Paths /\ Partial(j, k) \in Paths
           /\ Source(j, k) # Target(j, k)
           /\ Source(j, k) # Partial(j, k) /\ Target(j, k) # Partial(j, k)
           /\ Partial(j, k)[1] \notin {"job", "done", "aside"}
           /\ files[Source(j, k)] \in {Cargo(j), NoFile}
           /\ files[Target(j, k)] \in {Cargo(j), NoFile}
           /\ pc[j] = "aside" => Source(j, k) = <<"done", 0, k>>
<1>1. Source(j, k) \in Paths /\ Target(j, k) \in Paths /\ Partial(j, k) \in Paths
  BY MovePaths DEF SoloInv, NameInv
<1>2. CASE pc[j] = "aside"
  <2>1. /\ Source(j, k) = <<"done", 0, k>> /\ Target(j, k) = <<"aside", j, k>>
        /\ Partial(j, k) = <<"aside.partial", j, k>>
    BY <1>2 DEF Source, Target, Partial, SoloInv, Replacing
  <2>2. ~Pinned(j)
    BY <1>2 DEF Pinned, SoloInv, Replacing
  <2>3. files[Source(j, k)] # Whole(j)
    BY <1>1, <2>1, <2>2 DEF SoloInv, NameInv, Named
  <2>4. files[Source(j, k)] \in {Whole(Old), NoFile} /\ files[Target(j, k)] \in {Whole(Old), NoFile}
    BY <1>1, <2>1, <2>3 DEF SoloInv, FinalContents
  <2> QED
    BY <1>1, <1>2, <2>1, <2>4 DEF Cargo
<1>3. CASE pc[j] = "move"
  <2>1. /\ Source(j, k) = <<"job", j, k>> /\ Target(j, k) = <<"done", dest[j], k>>
        /\ Partial(j, k) = <<"done.partial", dest[j], k>>
    BY <1>3 DEF Source, Target, Partial
  <2>2. marker[j] # NoMarker
    BY <1>3 DEF SoloInv, NameInv, MarkerIsDest
  <2>3. files[<<"done", dest[j], "video">>] # Whole(Old)
    BY <2>2 DEF SoloInv, OldGone
  <2>4. files[Target(j, k)] # Whole(Old)
    <3>1. CASE k = "video"
      BY <2>1, <2>3, <3>1
    <3>2. CASE k = "sub" /\ files[Target(j, k)] = Whole(Old)
      <4>1. dest[j] = 0
        BY <1>1, <2>1, <3>2, ContentsDiffer DEF SoloInv, FinalContents
      <4> QED
        BY <2>1, <2>3, <3>2, <4>1 DEF SoloInv, LibraryPair
    <3> QED
      BY <3>1, <3>2 DEF Kinds
  <2>5. files[Target(j, k)] \in {Whole(j), NoFile}
    BY <1>1, <2>1, <2>4 DEF SoloInv, FinalContents
  <2>6. files[Source(j, k)] \in {Whole(j), NoFile}
    BY <2>1 DEF SoloInv, NameInv, OwnFolder
  <2> QED
    BY <1>1, <1>3, <2>1, <2>5, <2>6 DEF Cargo
<1> QED
  BY <1>2, <1>3

\* A move whose files are not at a final name changes none; the others transfer a file.
LEMMA MoveTransfers ==
    ASSUME SoloInv, NEW j \in Jobs, Jobs = {j}, NEW k \in Kinds, Move(j, k)
    PROVE  /\ pc[j] \in {"aside", "move"} /\ MayMove(j, k)
           /\ StayBut({}) \/ Transfers(j, k)
<1>0. PICK p \in Paths : p = Target(j, k)
  BY MovePaths DEF SoloInv, NameInv
<1>1. pc[j] \in {"aside", "move"}
  BY <1>0, MoveEffect DEF SoloInv
<1> DEFINE S == Source(j, k)
           T == Target(j, k)
           Q == Partial(j, k)
<1>2. /\ S \in Paths /\ T \in Paths /\ Q \in Paths
      /\ S # T /\ S # Q /\ T # Q
      /\ Q[1] \notin {"job", "done", "aside"}
      /\ files[S] \in {Cargo(j), NoFile}
      /\ files[T] \in {Cargo(j), NoFile}
  BY <1>1, MoveCargo
<1>3. Cargo(j) \notin {NoFile, Torn, Half(j)}
  BY ContentsDiffer DEF Cargo
<1>4. /\ files \in [Paths -> Contents]
      /\ Cleared(j, k) \in [Paths -> Contents]
      /\ \A q \in Paths \ {Q} : Cleared(j, k)[q] = files[q]
  BY <1>2, ContentsFacts DEF SoloInv, NameInv, TypeOK, Cleared
<1>5. \A q \in Paths : q[1] \in {"job", "done", "aside"} => q # Q /\ files[q] # Half(j)
  BY <1>2 DEF SoloInv, HalfAt, Partial
<1> HIDE DEF S, T, Q
<1>6. ASSUME Ready(j, k) PROVE MayMove(j, k)
  BY <1>6 DEF Ready
<1>7. ASSUME NEW at \in {"open", "copy", "rename", "unlink"}, CopyAt(j, k, at)
      PROVE  /\ MayMove(j, k) /\ files[S] = Cargo(j)
             /\ at = "rename" => files[Q] = files[S]
             /\ at = "unlink" => files[T] = files[S]
  BY <1>2, <1>7 DEF SoloInv, Copying, Present, S, T, Q
<1>8. CASE MovedBefore(j, k)
  <2>1. MayMove(j, k) /\ files[T] = Cargo(j)
    BY <1>2, <1>8 DEF MovedBefore, Ready, Present, T
  <2>2. files' = [Cleared(j, k) EXCEPT ![S] = NoFile]
    BY <1>8 DEF MovedBefore, S
  <2>3. /\ files'[S] = NoFile /\ files'[T] = files[T]
        /\ \A q \in Paths \ {S, Q} : files'[q] = files[q]
    BY <1>2, <1>4, <2>2
  <2>4. CASE files[S] = NoFile
    BY <1>1, <1>5, <2>1, <2>3, <2>4 DEF StayBut
  <2>5. CASE files[S] = Cargo(j)
    BY <1>1, <1>5, <2>1, <2>3, <2>5 DEF StayBut, Transfers, S, T
  <2> QED
    BY <1>2, <2>4, <2>5
<1>9. CASE NothingToMove(j, k) \/ BeginCopy(j, k)
  <2>1. files' = Cleared(j, k) /\ MayMove(j, k)
    BY <1>9 DEF NothingToMove, BeginCopy, ToMove, Ready
  <2> QED
    BY <1>1, <1>4, <1>5, <2>1 DEF StayBut
<1>10. CASE Rename(j, k)
  <2>1. MayMove(j, k) /\ files[S] = Cargo(j)
    BY <1>2, <1>10 DEF Rename, ToMove, Ready, Present, S
  <2>2. files' = [Cleared(j, k) EXCEPT ![T] = files[S], ![S] = NoFile]
    BY <1>10 DEF Rename, S, T
  <2>3. /\ files'[S] = NoFile /\ files'[T] = files[S]
        /\ \A q \in Paths \ {S, T, Q} : files'[q] = files[q]
    BY <1>2, <1>4, <2>2
  <2> QED
    BY <1>1, <1>2, <1>5, <2>1, <2>3 DEF StayBut, Transfers, S, T
<1>11. CASE Fail(j) /\ \E at \in {"open", "copy", "rename", "unlink"} : CopyAt(j, k, at)
  <2>1. \A q \in Paths : files[q] # Half(j) => files'[q] = files[q]
    BY <1>11, FailEffect
  <2> QED
    BY <1>1, <1>5, <1>7, <1>11, <2>1 DEF StayBut
<1>12. CASE OpenPartial(j, k) /\ ~Fail(j)
  <2>1. files' = [files EXCEPT ![Q] = IF Present(Q) THEN Torn ELSE Half(j)] /\ CopyAt(j, k, "open")
    BY <1>12 DEF OpenPartial, Q
  <2> QED
    BY <1>1, <1>4, <1>5, <1>7, <2>1 DEF StayBut
<1>13. CASE CopyOk(j, k)
  BY <1>1, <1>5, <1>7, <1>13 DEF CopyOk, StayBut
<1>14. CASE RenamePartial(j, k) /\ ~Fail(j)
  <2>1. files' = [files EXCEPT ![T] = files[Q], ![Q] = NoFile] /\ CopyAt(j, k, "rename")
    BY <1>14 DEF RenamePartial, T, Q
  <2>2. /\ files'[S] = files[S] /\ files'[T] = files[Q]
        /\ \A q \in Paths \ {T, Q} : files'[q] = files[q]
    BY <1>2, <1>4, <2>1
  <2>3. MayMove(j, k) /\ files[S] = Cargo(j) /\ files[Q] = files[S]
    BY <1>7, <2>1
  <2> QED
    BY <1>1, <1>2, <1>5, <2>2, <2>3 DEF StayBut, Transfers, S, T
<1>15. CASE UnlinkSource(j, k) /\ ~Fail(j)
  <2>1. files' = [files EXCEPT ![S] = NoFile] /\ CopyAt(j, k, "unlink")
    BY <1>15 DEF UnlinkSource, S
  <2>2. /\ files'[S] = NoFile /\ files'[T] = files[T]
        /\ \A q \in Paths \ {S} : files'[q] = files[q]
    BY <1>2, <1>4, <2>1
  <2>3. MayMove(j, k) /\ files[S] = Cargo(j) /\ files[T] = files[S]
    BY <1>7, <2>1
  <2> QED
    BY <1>1, <1>2, <1>5, <2>2, <2>3 DEF StayBut, Transfers, S, T
<1>16. /\ CopyFails(j, k) => Fail(j)
       /\ OpenPartial(j, k) \/ CopyFails(j, k) \/ RenamePartial(j, k) \/ UnlinkSource(j, k)
            => \E at \in {"open", "copy", "rename", "unlink"} : CopyAt(j, k, at)
  BY DEF OpenPartial, CopyFails, RenamePartial, UnlinkSource
<1> QED
  BY <1>8, <1>9, <1>10, <1>11, <1>12, <1>13, <1>14, <1>15, <1>16 DEF Move

\* The steps of a job on its own, or of the process, that are no move change no final name.
LEMMA OtherStays ==
    ASSUME SoloInv, NEW j \in Jobs, Jobs = {j}, [Next]_vars, ~ \E k \in Kinds : Move(j, k)
    PROVE  StayBut({})
<1>1. \A q \in Paths : q[1] \in {"job", "done", "aside"} => files[q] # Half(j)
  BY DEF SoloInv, HalfAt, Partial
<1>2. CASE Fail(j) \/ Crash
  <2>1. PICK W \in SUBSET {j} : files' = Torns(W)
    BY <1>2 DEF Fail, Crash
  <2> QED
    BY <1>1, <2>1 DEF StayBut, Torns
<1>3. CASE Tidy(j)
  <2>1. \A q \in Paths : q[1] = "job" => files[q] = NoFile
    <3>1. \A q \in Paths : q[1] = "job" => \E k \in Kinds : q = <<"job", j, k>>
      BY DEF Paths
    <3>2. \A k \in Kinds : ~Present(<<"job", j, k>>)
      BY <1>3 DEF Tidy, SoloInv, FolderKnown
    <3> QED
      BY <3>1, <3>2 DEF Present
  <2> QED
    BY <1>3, <2>1 DEF Tidy, StayBut
<1>4. CASE UNCHANGED files
  BY <1>4 DEF StayBut
<1> QED
  BY <1>2, <1>3, <1>4 DEF Next, Run, Retry, AlreadyOrganized, NotAVideo, Name, NoCollision,
     AskFirst, Replace, KeepBoth, AllAside, Pin, Return, Checkpoint, vars

\* So every step changes no final name, or transfers a file.
LEMMA StepTransfers ==
    ASSUME SoloInv, NEW j \in Jobs, Jobs = {j}, [Next]_vars
    PROVE  StayBut({}) \/ \E k \in Kinds : Transfers(j, k)
BY OtherStays, MoveTransfers

\* The paths of final names.
LEMMA FinalPaths ==
    /\ \A i \in Jobs, m \in Kinds : <<"job", i, m>> \in Paths /\ <<"aside", i, m>> \in Paths
    /\ \A n \in Numbers, m \in Kinds : <<"done", n, m>> \in Paths
BY DEF Paths

\* A step that changes no final name keeps what is said of them.
LEMMA StayContents ==
    ASSUME SoloInv, StayBut({}), UNCHANGED inputs
    PROVE  /\ FinalContents' /\ LibraryPair' /\ AllThere'
           /\ \A o \in Jobs \cup {Old}, m \in Kinds : Place(o, m)' = Place(o, m)
<1>1. \A p \in Paths : p[1] \in {"job", "done", "aside"} => files'[p] = files[p]
  BY DEF StayBut
<1>2. FinalContents'
  BY <1>1 DEF SoloInv, FinalContents
<1>3. LibraryPair'
  <2>1. 0 \in Numbers
    BY SwitchAssumption DEF Numbers
  <2> QED
    BY <1>1, <2>1, FinalPaths DEF SoloInv, LibraryPair, Kinds, inputs
<1>4. ASSUME NEW o \in Jobs \cup {Old}, NEW m \in Kinds
      PROVE  /\ InLibrary(o, m)' <=> InLibrary(o, m)
             /\ IsAside(o, m)' <=> IsAside(o, m)
             /\ InFolder(o, m)' <=> InFolder(o, m)
  BY <1>1, FinalPaths DEF InLibrary, IsAside, InFolder
<1>5. AllThere'
  BY <1>4 DEF SoloInv, AllThere, inputs
<1>6. \A o \in Jobs \cup {Old}, m \in Kinds : Place(o, m)' = Place(o, m)
  BY <1>4 DEF Place, inputs
<1> QED
  BY <1>2, <1>3, <1>5, <1>6

\* Whose file a run moves.
Owner(j) == IF pc[j] = "aside" THEN Old ELSE j

\* A transfer takes a file of the library aside, or one of the folder to completed/, and
\* concerns no other file.
LEMMA TransferOwner ==
    ASSUME SoloInv, NEW j \in Jobs, Jobs = {j}, NEW k \in Kinds, Transfers(j, k)
    PROVE  /\ \A o \in Jobs \cup {Old}, m \in Kinds : o # Owner(j) \/ m # k =>
                 /\ InLibrary(o, m)' <=> InLibrary(o, m)
                 /\ IsAside(o, m)' <=> IsAside(o, m)
                 /\ InFolder(o, m)' <=> InFolder(o, m)
           /\ pc[j] = "aside" => InLibrary(Old, k) /\ IsAside(Old, k)' /\ policy[j] = "replace"
           /\ pc[j] = "move" => InFolder(j, k) /\ InLibrary(j, k)'
           /\ \A m \in Kinds : ~IsAside(j, m) /\ ~InFolder(Old, m)
<1> DEFINE S == Source(j, k)
           T == Target(j, k)
<1>1. /\ S \in Paths /\ T \in Paths /\ S # T
      /\ pc[j] = "aside" => S = <<"done", 0, k>> /\ T = <<"aside", j, k>>
      /\ pc[j] = "move" => S = <<"job", j, k>> /\ T = <<"done", dest[j], k>>
  BY MoveCargo DEF Transfers, Source, Target
<1>2. /\ pc[j] \in {"aside", "move"}
      /\ files[S] = Whole(Owner(j)) /\ files'[S] \in {Whole(Owner(j)), NoFile}
      /\ files[T] \in {Whole(Owner(j)), NoFile} /\ files'[T] = Whole(Owner(j))
      /\ \A p \in Paths \ {S, T} : p[1] \in {"job", "done", "aside"} => files'[p] = files[p]
  BY DEF Transfers, Cargo, Owner, StayBut
<1>3. 0 \in Numbers /\ dest[j] \in Numbers /\ Owner(j) \in Jobs \cup {Old}
  BY SwitchAssumption DEF Numbers, SoloInv, NameInv, TypeOK, Owner
<1> HIDE DEF S, T
<1>4. \A o1, o2 \in Jobs \cup {Old} : Whole(o1) = Whole(o2) => o1 = o2
  BY DEF Whole
<1>5. ASSUME NEW o \in Jobs \cup {Old}, NEW m \in Kinds, o # Owner(j) \/ m # k,
             NEW p \in Paths, p[1] \in {"job", "done", "aside"}, p[3] = m
      PROVE  files'[p] = Whole(o) <=> files[p] = Whole(o)
  <2>1. CASE p \in {S, T}
    <3>1. m = k
      BY <1>1, <1>2, <1>5, <2>1
    <3>2. Whole(o) # Whole(Owner(j)) /\ Whole(o) # NoFile
      BY <1>3, <1>4, <1>5, <3>1, ContentsDiffer
    <3> QED
      BY <1>2, <2>1, <3>2
  <2>2. CASE p \notin {S, T}
    BY <1>2, <1>5, <2>2
  <2> QED
    BY <2>1, <2>2
<1>6. ASSUME NEW o \in Jobs \cup {Old}, NEW m \in Kinds, o # Owner(j) \/ m # k
      PROVE  /\ InLibrary(o, m)' <=> InLibrary(o, m)
             /\ IsAside(o, m)' <=> IsAside(o, m)
             /\ InFolder(o, m)' <=> InFolder(o, m)
  <2>1. \A n \in Numbers :
           files'[<<"done", n, m>>] = Whole(o) <=> files[<<"done", n, m>>] = Whole(o)
    BY <1>5, <1>6, FinalPaths
  <2>2. \A i \in Jobs :
           /\ files'[<<"aside", i, m>>] = Whole(o) <=> files[<<"aside", i, m>>] = Whole(o)
           /\ files'[<<"job", i, m>>] = Whole(o) <=> files[<<"job", i, m>>] = Whole(o)
    BY <1>5, <1>6, FinalPaths
  <2> QED
    BY <2>1, <2>2 DEF InLibrary, IsAside, InFolder
<1>7. pc[j] = "aside" => InLibrary(Old, k) /\ IsAside(Old, k)' /\ policy[j] = "replace"
  BY <1>1, <1>2, <1>3 DEF Owner, InLibrary, IsAside, SoloInv, Replacing
<1>8. pc[j] = "move" => InFolder(j, k) /\ InLibrary(j, k)'
  BY <1>1, <1>2, <1>3 DEF Owner, InLibrary, InFolder
<1>9. \A m \in Kinds : ~IsAside(j, m) /\ ~InFolder(Old, m)
  <2>1. Whole(j) \notin {Whole(Old), NoFile}
    BY ContentsDiffer
  <2> QED
    BY <2>1, FinalPaths, JobsAssumption DEF IsAside, InFolder, SoloInv, FinalContents
<1> QED
  BY <1>2, <1>6, <1>7, <1>8, <1>9

\* A transfer keeps what is said of the files at final names.
LEMMA TransferContents ==
    ASSUME SoloInv, NEW j \in Jobs, Jobs = {j}, NEW k \in Kinds, Transfers(j, k), UNCHANGED inputs
    PROVE  FinalContents' /\ LibraryPair' /\ AllThere'
<1> DEFINE S == Source(j, k)
           T == Target(j, k)
<1>1. /\ S \in Paths /\ T \in Paths /\ S # T
      /\ pc[j] = "aside" => S = <<"done", 0, k>> /\ T = <<"aside", j, k>>
      /\ pc[j] = "move" => S = <<"job", j, k>> /\ T = <<"done", dest[j], k>>
  BY MoveCargo DEF Transfers, Source, Target
<1>2. /\ pc[j] \in {"aside", "move"}
      /\ files[S] = Cargo(j) /\ files'[S] \in {Cargo(j), NoFile}
      /\ files[T] \in {Cargo(j), NoFile} /\ files'[T] = Cargo(j)
      /\ \A p \in Paths \ {S, T} : p[1] \in {"job", "done", "aside"} => files'[p] = files[p]
  BY DEF Transfers, StayBut
<1> HIDE DEF S, T
<1>3. FinalContents'
  <2> SUFFICES ASSUME NEW p \in Paths
               PROVE  /\ p[1] = "done" => \/ files'[p] \in {Whole(i) : i \in Jobs} \cup {NoFile}
                                          \/ files'[p] = Whole(Old) /\ p[2] = 0
                      /\ p[1] = "aside" => files'[p] \in {Whole(Old), NoFile}
    BY DEF FinalContents
  <2>1. CASE p \notin {S, T}
    BY <1>2, <2>1 DEF SoloInv, FinalContents
  <2>2. CASE p \in {S, T}
    BY <1>1, <1>2, <2>2 DEF Cargo
  <2> QED
    BY <2>1, <2>2
<1>4. LibraryPair'
  <2> SUFFICES ASSUME files'[<<"done", 0, "sub">>] = Whole(Old)
               PROVE  /\ files'[<<"done", 0, "video">>] = Whole(Old)
                      /\ \A i \in Jobs : policy[i] # "replace"
    BY DEF LibraryPair, inputs
  <2>1. <<"done", 0, "sub">> \in Paths /\ <<"done", 0, "video">> \in Paths
    BY SwitchAssumption, FinalPaths DEF Numbers, Kinds
  <2>2. Whole(Old) # Whole(j) /\ Whole(Old) # NoFile
    BY ContentsDiffer
  <2>3. files[<<"done", 0, "sub">>] = Whole(Old)
    BY <1>1, <1>2, <2>1, <2>2 DEF Cargo
  <2>4. files[<<"done", 0, "video">>] = Whole(Old) /\ \A i \in Jobs : policy[i] # "replace"
    BY <2>3 DEF SoloInv, LibraryPair
  <2>5. pc[j] = "move"
    BY <1>2, <2>4 DEF SoloInv, Replacing
  <2>6. files'[<<"done", 0, "video">>] = Whole(Old)
    BY <1>1, <1>2, <2>1, <2>2, <2>4, <2>5 DEF Cargo
  <2> QED
    BY <2>4, <2>6
<1>5. AllThere'
  <2> SUFFICES ASSUME NEW o \in Jobs \cup {Old}, NEW m \in Kinds
               PROVE  <<o, m>> \in original <=>
                         InLibrary(o, m)' \/ IsAside(o, m)' \/ InFolder(o, m)'
    BY DEF AllThere, inputs
  <2>1. CASE o # Owner(j) \/ m # k
    BY <2>1, TransferOwner DEF SoloInv, AllThere
  <2>2. CASE o = Owner(j) /\ m = k
    <3>1. CASE pc[j] = "aside"
      BY <2>2, <3>1, TransferOwner DEF Owner, SoloInv, AllThere
    <3>2. CASE pc[j] = "move"
      BY <2>2, <3>2, TransferOwner DEF Owner, SoloInv, AllThere
    <3> QED
      BY <1>2, <3>1, <3>2
  <2> QED
    BY <2>1, <2>2
<1> QED
  BY <1>3, <1>4, <1>5

\* A file that a run no longer has to move has left the place it was moved from.
LEMMA MoveSpent ==
    ASSUME NameInv, NEW j \in Jobs, NEW k \in Kinds, Move(j, k)
    PROVE  \/ todo' = todo
           \/ todo' = [todo EXCEPT ![j] = @ \ {k}] /\ files'[Source(j, k)] = NoFile
<1>0. /\ Source(j, k) \in Paths /\ files \in [Paths -> Contents]
      /\ Cleared(j, k) \in [Paths -> Contents]
  BY MovePaths, ContentsFacts DEF NameInv, TypeOK, Cleared
<1>1. CASE MovedBefore(j, k) \/ Rename(j, k) \/ UnlinkSource(j, k)
  BY <1>0, <1>1 DEF MovedBefore, Rename, UnlinkSource, Moved, Fail
<1>2. CASE NothingToMove(j, k) \/ BeginCopy(j, k) \/ OpenPartial(j, k) \/ CopyOk(j, k)
           \/ CopyFails(j, k) \/ RenamePartial(j, k)
  BY <1>2 DEF NothingToMove, BeginCopy, OpenPartial, CopyOk, CopyFails, RenamePartial, Fail
<1> QED
  BY <1>1, <1>2 DEF Move

\* A move leaves what is known of the library: what is in the way of the destination.
LEMMA MoveSettled ==
    ASSUME SoloInv, NEW j \in Jobs, Jobs = {j}, NEW k \in Kinds, Move(j, k)
    PROVE  Replacing' /\ OldGone'
<1>0. PICK p \in Paths : p = Target(j, k)
  BY MovePaths DEF SoloInv, NameInv
<1>1. /\ UNCHANGED <<marker, dest, policy>>
      /\ pc[j] \in {"aside", "move"}
      /\ pc' = pc \/ pc' = [pc EXCEPT ![j] = "failed"]
  BY <1>0, MoveEffect DEF SoloInv, Move, MovedBefore, NothingToMove, Rename, BeginCopy,
     OpenPartial, CopyOk, CopyFails, RenamePartial, UnlinkSource, Fail, inputs
<1>2. StayBut({}) \/ Transfers(j, k)
  BY MoveTransfers
<1>3. /\ pc \in [Jobs -> Running \cup {"waiting", "done", "failed"}]
      /\ todo \in [Jobs -> SUBSET Kinds]
      /\ 0 \in Numbers /\ dest[j] \in Numbers
  BY SwitchAssumption DEF SoloInv, NameInv, TypeOK, Numbers
<1>4. \A q \in Paths : q[1] = "done" =>
         /\ pc[j] = "aside" /\ files'[q] # NoFile => files[q] # NoFile
         /\ pc[j] = "move" /\ files'[q] = Whole(Old) => files[q] = Whole(Old)
  <2>1. CASE StayBut({})
    BY <2>1 DEF StayBut
  <2>2. CASE Transfers(j, k)
    <3>1. Whole(Old) \notin {Whole(j), NoFile}
      BY ContentsDiffer
    <3>2. pc[j] = "aside" => Target(j, k)[1] = "aside"
      BY DEF Target
    <3> QED
      BY <2>2, <3>1, <3>2 DEF Transfers, Cargo, StayBut
  <2> QED
    BY <1>2, <2>1, <2>2
<1>5. Replacing'
  <2> SUFFICES ASSUME pc[j] = "aside", pc' = pc
               PROVE  \A m \in Kinds : Present(<<"done", 0, m>>)' => m \in todo'[j]
    BY <1>1, <1>3 DEF SoloInv, Replacing
  <2>1. Source(j, k) = <<"done", 0, k>>
    BY MoveCargo
  <2> SUFFICES ASSUME NEW m \in Kinds, Present(<<"done", 0, m>>)'
               PROVE  m \in todo'[j]
    OBVIOUS
  <2>2. m \in todo[j]
    BY <1>3, <1>4, FinalPaths DEF Present, SoloInv, Replacing
  <2>3. files'[Source(j, k)] = NoFile => m # k
    BY <2>1 DEF Present
  <2> QED
    BY <1>3, <2>2, <2>3, MoveSpent DEF SoloInv
<1>6. OldGone'
  <2> SUFFICES ASSUME marker[j] # NoMarker
               PROVE  files'[<<"done", dest[j], "video">>] # Whole(Old)
    BY <1>1, <1>3 DEF OldGone
  <2>1. pc[j] = "move" /\ files[<<"done", dest[j], "video">>] # Whole(Old)
    BY <1>1 DEF SoloInv, Replacing, OldGone
  <2> QED
    BY <1>3, <1>4, <2>1, FinalPaths DEF Kinds
<1> QED
  BY <1>5, <1>6

\* A copy moves from phase to phase with the files where the next phase needs them.
LEMMA MoveCopying ==
    ASSUME SoloInv, NEW j \in Jobs, Jobs = {j}, NEW k \in Kinds, Move(j, k)
    PROVE  Copying' /\ HalfAt'
<1> DEFINE S == Source(j, k)
           T == Target(j, k)
           Q == Partial(j, k)
<1>1. pc[j] \in {"aside", "move"} /\ MayMove(j, k)
  BY MoveTransfers
<1>2. /\ S \in Paths /\ T \in Paths /\ Q \in Paths
      /\ S # T /\ S # Q /\ T # Q
      /\ files[S] \in {Cargo(j), NoFile}
  BY <1>1, MoveCargo
<1>3. Cargo(j) \notin {NoFile, Torn, Half(j)} /\ Cargo(j)[2] = "whole"
  BY ContentsDiffer DEF Cargo
<1>4. /\ files \in [Paths -> Contents]
      /\ held \in [Jobs -> Contents]
      /\ moving \in [Jobs -> [kind : Kinds, at : {"open", "copy", "rename", "unlink"}]
                           \cup {NotMoving}]
      /\ Cleared(j, k) \in [Paths -> Contents]
      /\ Cleared(j, k)[Q] = NoFile
      /\ \A q \in Paths \ {Q} : Cleared(j, k)[q] = files[q]
  BY <1>2, ContentsFacts DEF SoloInv, NameInv, TypeOK, Cleared
<1>5. \A q \in Paths : files'[q] = Half(j) => moving'[j].at = "copy"
  BY MoveNamed DEF SoloInv, Named
<1>6. ASSUME UNCHANGED <<pc, dest>>
      PROVE  \A m \in Kinds : /\ Source(j, m)' = Source(j, m)
                             /\ Target(j, m)' = Target(j, m)
                             /\ Partial(j, m)' = Partial(j, m)
  BY <1>6 DEF Source, Target, Partial
<1>7. ASSUME NEW at \in {"open", "copy", "rename", "unlink"}, CopyAt(j, k, at)
      PROVE  /\ files[S] = Cargo(j)
             /\ at = "open" => ~Present(Q)
             /\ at = "copy" => files[Q] = Half(j) /\ held[j] = files[S]
             /\ at = "rename" => files[Q] = files[S]
  BY <1>2, <1>7 DEF SoloInv, Copying, Present
<1>8. ASSUME NEW at \in {"open", "copy", "rename", "unlink"},
             moving' = [moving EXCEPT ![j] = [kind |-> k, at |-> at]],
             UNCHANGED <<pc, dest, todo>>,
             files'[S] = Cargo(j),
             at = "open" => files'[Q] = NoFile,
             at = "copy" => files'[Q] = Half(j) /\ held'[j] = files'[S],
             at = "rename" => files'[Q] = files'[S],
             at = "unlink" => files'[T] = files'[S]
      PROVE  Copying'
  <2> SUFFICES ASSUME NEW m \in Kinds, NEW ph \in {"open", "copy", "rename", "unlink"},
                      CopyAt(j, m, ph)'
               PROVE  /\ MayMove(j, m)'
                      /\ Present(Source(j, m))'
                      /\ ph = "open" => ~Present(Partial(j, m))'
                      /\ ph = "copy" => (files[Partial(j, m)] = Half(j) /\ held[j] = files[Source(j, m)])'
                      /\ ph = "rename" => (files[Partial(j, m)] = files[Source(j, m)])'
                      /\ ph = "unlink" => (files[Target(j, m)] = files[Source(j, m)])'
    BY DEF Copying
  <2>1. m = k /\ ph = at
    BY <1>4, <1>8 DEF CopyAt
  <2>2. MayMove(j, k)'
    BY <1>1, <1>8 DEF MayMove
  <2> QED
    BY <1>3, <1>6, <1>8, <2>1, <2>2 DEF Present
<1>9. ASSUME moving'[j] = NotMoving PROVE Copying' /\ HalfAt'
  BY <1>5, <1>9 DEF Copying, HalfAt, CopyAt, NotMoving
<1> HIDE DEF S, T, Q
<1>10. CASE MovedBefore(j, k) \/ NothingToMove(j, k) \/ Rename(j, k)
  BY <1>9, <1>10 DEF MovedBefore, NothingToMove, Rename, ToMove, Ready
<1>11. CASE Fail(j)
  BY <1>4, <1>9, <1>11 DEF Fail
<1>12. CASE BeginCopy(j, k)
  <2>1. /\ moving' = [moving EXCEPT ![j] = [kind |-> k, at |-> "open"]]
        /\ files' = Cleared(j, k) /\ UNCHANGED <<pc, dest, todo>>
        /\ files[S] = Cargo(j)
    BY <1>2, <1>12 DEF BeginCopy, ToMove, Present, S
  <2>2. files'[S] = Cargo(j) /\ files'[Q] = NoFile
    BY <1>2, <1>4, <2>1
  <2>3. Copying'
    BY <1>8, <2>1, <2>2
  <2>4. moving'[j].at # "copy"
    BY <1>4, <2>1
  <2> QED
    BY <1>5, <2>3, <2>4 DEF HalfAt
<1>13. CASE OpenPartial(j, k) /\ ~Fail(j)
  <2>1. /\ CopyAt(j, k, "open") /\ UNCHANGED <<pc, dest, todo>>
        /\ held' = [held EXCEPT ![j] = IF files[S][2] = "whole" THEN files[S] ELSE Torn]
        /\ files' = [files EXCEPT ![Q] = IF Present(Q) THEN Torn ELSE Half(j)]
        /\ moving' = [moving EXCEPT ![j] = [kind |-> k, at |-> "copy"]]
    BY <1>13 DEF OpenPartial, Advance, S, Q
  <2>2. files[S] = Cargo(j) /\ ~Present(Q)
    BY <1>7, <2>1
  <2>3. /\ files'[S] = Cargo(j) /\ files'[Q] = Half(j) /\ held'[j] = Cargo(j)
        /\ \A q \in Paths \ {Q} : files'[q] = files[q]
    BY <1>2, <1>3, <1>4, <2>1, <2>2
  <2>4. Copying'
    BY <1>8, <2>1, <2>3
  <2>5. \A q \in Paths : files[q] # Half(j)
    BY <2>1 DEF SoloInv, NameInv, Named, CopyAt
  <2>6. CopyAt(j, k, "copy")' /\ Partial(j, k)' = Q
    BY <1>4, <1>6, <2>1 DEF CopyAt, Q
  <2>7. HalfAt'
    BY <2>3, <2>5, <2>6 DEF HalfAt
  <2> QED
    BY <2>4, <2>7
<1>14. CASE CopyOk(j, k)
  <2>1. /\ CopyAt(j, k, "copy") /\ UNCHANGED <<pc, dest, todo, held>>
        /\ files' = [p \in Paths |-> IF files[p] = Half(j) THEN held[j] ELSE files[p]]
        /\ moving' = [moving EXCEPT ![j] = [kind |-> k, at |-> "rename"]]
    BY <1>14 DEF CopyOk, Advance
  <2>2. files[S] = Cargo(j) /\ files[Q] = Half(j) /\ held[j] = files[S]
    BY <1>7, <2>1
  <2>3. files'[S] = Cargo(j) /\ files'[Q] = files'[S]
    BY <1>2, <1>3, <2>1, <2>2
  <2>4. moving'[j].at # "copy"
    BY <1>4, <2>1
  <2> QED
    BY <1>5, <1>8, <2>1, <2>3, <2>4 DEF HalfAt
<1>15. CASE RenamePartial(j, k) /\ ~Fail(j)
  <2>1. /\ CopyAt(j, k, "rename") /\ UNCHANGED <<pc, dest, todo, held>>
        /\ files' = [files EXCEPT ![T] = files[Q], ![Q] = NoFile]
        /\ moving' = [moving EXCEPT ![j] = [kind |-> k, at |-> "unlink"]]
    BY <1>15 DEF RenamePartial, Advance, T, Q
  <2>2. files[S] = Cargo(j) /\ files[Q] = files[S]
    BY <1>7, <2>1
  <2>3. files'[S] = Cargo(j) /\ files'[T] = files'[S]
    BY <1>2, <1>4, <2>1, <2>2
  <2>4. moving'[j].at # "copy"
    BY <1>4, <2>1
  <2> QED
    BY <1>5, <1>8, <2>1, <2>3, <2>4 DEF HalfAt
<1>16. CASE UnlinkSource(j, k) /\ ~Fail(j)
  BY <1>4, <1>9, <1>16 DEF UnlinkSource
<1>17. CopyFails(j, k) => Fail(j)
  BY DEF CopyFails
<1> QED
  BY <1>10, <1>11, <1>12, <1>13, <1>14, <1>15, <1>16, <1>17 DEF Move

\* The other steps of a run, and a stop, leave no copy under way.
LEMMA OtherCopying ==
    ASSUME SoloInv, NEW j \in Jobs, Jobs = {j}, [Next]_vars, ~ UNCHANGED vars,
           ~ \E k \in Kinds : Move(j, k)
    PROVE  /\ moving'[j] = NotMoving
           /\ \A p \in Paths : files'[p] # Half(j)
<1>1. NameInv'
  BY NextNamed DEF SoloInv
<1>2. moving'[j] = NotMoving
  <2>1. CASE Fail(j) \/ Crash
    BY <2>1 DEF Fail, Crash, SoloInv, NameInv, TypeOK
  <2>2. CASE ~Fail(j) /\ (Run(j) \/ Retry(j))
    <3>1. UNCHANGED moving /\ moving[j] = NotMoving
      BY <2>2 DEF SoloInv, NameInv, MovingShape, Run, Retry, AlreadyOrganized, NotAVideo, Name,
         NoCollision, AskFirst, Replace, KeepBoth, AllAside, Pin, Return, Checkpoint, Tidy
    <3> QED
      BY <3>1
  <2> QED
    BY <2>1, <2>2 DEF Next
<1> QED
  BY <1>1, <1>2 DEF NameInv, Named, NotMoving

\* These steps keep what is known of the library, too.
LEMMA OtherSettled ==
    ASSUME SoloInv, NEW j \in Jobs, Jobs = {j}, [Next]_vars,
           ~ \E k \in Kinds : Move(j, k)
    PROVE  Replacing' /\ OldGone'
<1>0. /\ pc \in [Jobs -> Running \cup {"waiting", "done", "failed"}]
      /\ marker \in [Jobs -> Numbers \cup {NoMarker}]
      /\ dest \in [Jobs -> Numbers]
      /\ todo \in [Jobs -> SUBSET Kinds]
      /\ 0 \in Numbers /\ NoMarker \notin Numbers
      /\ Replacing /\ OldGone /\ MarkerIsDest
  BY SwitchAssumption DEF SoloInv, NameInv, TypeOK, Numbers, NoMarker
<1>1. \A n \in Numbers, m \in Kinds : files'[<<"done", n, m>>] = files[<<"done", n, m>>]
  BY OtherStays, FinalPaths DEF StayBut
<1>2. CASE Name(j)
  <2>1. /\ pc' = [pc EXCEPT ![j] = "named"]
        /\ dest' = [dest EXCEPT ![j] = IF marker[j] = NoMarker THEN 0 ELSE marker[j]]
        /\ UNCHANGED <<marker, policy>>
    BY <1>2 DEF Name, Goto, FirstRun, ReadMarker, inputs
  <2>2. Replacing'
    BY <1>0, <2>1 DEF Replacing
  <2>3. OldGone'
    BY <1>0, <1>1, <2>1 DEF OldGone, MarkerIsDest, Kinds
  <2> QED
    BY <2>2, <2>3
<1>3. CASE Replace(j)
  <2>1. /\ pc' = [pc EXCEPT ![j] = "aside"] /\ pc[j] = "named"
        /\ todo' = [todo EXCEPT ![j] = {k \in Kinds : Present(<<"done", dest[j], k>>)}]
        /\ UNCHANGED <<marker, dest, policy, files>>
        /\ marker[j] = NoMarker /\ policy[j] = "replace"
    BY <1>3 DEF Replace, Goto, Collision, FirstRun, ReadMarker, inputs
  <2>2. Replacing'
    BY <1>0, <2>1 DEF Replacing, Present
  <2>3. OldGone'
    BY <1>0, <2>1 DEF OldGone
  <2> QED
    BY <2>2, <2>3
<1>4. CASE KeepBoth(j)
  <2>1. PICK n \in Numbers \ {0} : dest' = [dest EXCEPT ![j] = n]
    BY <1>4 DEF KeepBoth
  <2>2. pc' = [pc EXCEPT ![j] = "pin"] /\ UNCHANGED <<marker, policy>>
    BY <1>4 DEF KeepBoth, Goto, inputs
  <2>3. files[<<"done", n, "video">>] # Whole(Old)
    <3>1. <<"done", n, "video">> \in Paths
      BY FinalPaths DEF Kinds
    <3>2. files[<<"done", n, "video">>] \in {Whole(i) : i \in Jobs} \cup {NoFile}
      BY <3>1 DEF SoloInv, FinalContents
    <3> QED
      BY <3>2, ContentsDiffer
  <2>4. files'[<<"done", n, "video">>] # Whole(Old)
    BY <1>1, <2>3 DEF Kinds
  <2>5. Replacing'
    BY <1>0, <2>2 DEF Replacing
  <2>6. dest'[j] = n
    BY <1>0, <2>1
  <2>7. OldGone'
    BY <2>4, <2>6 DEF OldGone
  <2> QED
    BY <2>5, <2>7
<1>5. CASE NoCollision(j) \/ AllAside(j)
  <2>1. pc' = [pc EXCEPT ![j] = "pin"] /\ UNCHANGED <<marker, dest, policy, files>>
    BY <1>5 DEF NoCollision, AllAside, Goto, inputs
  <2>2. files[<<"done", dest[j], "video">>] # Whole(Old)
    <3>1. CASE NoCollision(j) /\ marker[j] = NoMarker
      BY <3>1, ContentsDiffer DEF NoCollision, Collision, FirstRun, ReadMarker, Present
    <3>2. CASE marker[j] # NoMarker
      BY <1>0, <3>2 DEF OldGone
    <3>3. CASE AllAside(j)
      BY <1>0, <3>3, ContentsDiffer DEF AllAside, Replacing, Present, Kinds
    <3> QED
      BY <1>5, <3>1, <3>2, <3>3
  <2> QED
    BY <1>0, <2>1, <2>2 DEF Replacing, OldGone
<1>6. CASE Pin(j)
  <2>1. /\ pc[j] = "pin" /\ pc' = [pc EXCEPT ![j] = "move"]
        /\ UNCHANGED <<dest, policy, files>>
    BY <1>6 DEF Pin, Goto, inputs
  <2> QED
    BY <1>0, <2>1 DEF Replacing, OldGone
<1>7. CASE \/ AlreadyOrganized(j) \/ Return(j) \/ Checkpoint(j) \/ Tidy(j) \/ Retry(j)
           \/ Fail(j) \/ Crash
  <2>1. /\ UNCHANGED <<dest, policy>>
        /\ pc'[j] \notin {"named", "aside", "pin"}
        /\ marker'[j] \in {marker[j], NoMarker}
    BY <1>0, <1>7 DEF AlreadyOrganized, Return, Checkpoint, Tidy, Retry, Fail, Crash, Goto,
       Running, inputs
  <2> QED
    BY <1>0, <1>1, <2>1 DEF Replacing, OldGone, Kinds
<1>8. CASE UNCHANGED vars
  BY <1>0, <1>8 DEF Replacing, OldGone, Present, vars, inputs, runVars
<1> QED
  BY <1>2, <1>3, <1>4, <1>5, <1>6, <1>7, <1>8 DEF Next, Run, NotAVideo, AskFirst

\* What is known of a job on its own is inductive.
LEMMA NextSolo ==
    ASSUME SoloInv, NEW j \in Jobs, Jobs = {j}, [Next]_vars
    PROVE  SoloInv'
<1>1. NameInv' /\ FolderKnown'
  BY NextNamed, NextKnown DEF SoloInv, NameInv, IInv
<1>2. UNCHANGED inputs
  BY InputsStay
<1>3. FinalContents' /\ LibraryPair' /\ AllThere'
  BY <1>2, StepTransfers, StayContents, TransferContents
<1>4. Replacing' /\ OldGone'
  BY MoveSettled, OtherSettled
<1>5. Copying' /\ HalfAt'
  <2>1. CASE \E k \in Kinds : Move(j, k)
    BY <2>1, MoveCopying
  <2>2. CASE UNCHANGED vars
    <3>1. UNCHANGED <<files, pc, dest, todo, moving, held>>
      BY <2>2 DEF vars, runVars
    <3>4. \A i \in Jobs, k \in Kinds :
             /\ Source(i, k)' = Source(i, k) /\ Target(i, k)' = Target(i, k)
             /\ Partial(i, k)' = Partial(i, k)
      BY <3>1 DEF Source, Target, Partial
    <3>2. Copying'
      <4>1. \A i \in Jobs, k \in Kinds, at \in {"open", "copy", "rename", "unlink"} :
               /\ CopyAt(i, k, at)' <=> CopyAt(i, k, at)
               /\ MayMove(i, k)' <=> MayMove(i, k)
        BY <3>1 DEF CopyAt, MayMove
      <4> QED
        BY <3>1, <3>4, <4>1 DEF SoloInv, Copying, Present
    <3>3. HalfAt'
      BY <3>1, <3>4 DEF SoloInv, HalfAt, CopyAt
    <3> QED
      BY <3>2, <3>3
  <2>3. CASE ~ UNCHANGED vars /\ ~ \E k \in Kinds : Move(j, k)
    BY <2>3, OtherCopying DEF Copying, HalfAt, CopyAt, NotMoving
  <2> QED
    BY <2>1, <2>2, <2>3
<1> QED
  BY <1>1, <1>3, <1>4, <1>5 DEF SoloInv

\* A job on its own never starts with a subtitle in completed/ that has no video, or that
\* a replacement would put aside with its video one by one.
PairedStarts ==
    \A s \in Starts : "sub" \in s.existing => "video" \in s.existing /\ "replace" \notin s.policies

\* The initial states of a job on its own.
LEMMA InitSolo ==
    ASSUME NEW j \in Jobs, Jobs = {j}, PairedStarts, Init
    PROVE  SoloInv
<1>0. PICK s \in Starts, subs \in SUBSET Jobs :
         /\ policy \in [Jobs -> s.policies]
         /\ original = (Jobs \X {"video"}) \cup (subs \X {"sub"}) \cup ({Old} \X s.existing)
  BY DEF Init
<1>1. NameInv /\ FolderKnown
  BY InitNamed DEF Init, FolderKnown
<1>2. \A p \in Paths : files[p] = CASE p[1] = "job" /\ <<p[2], p[3]>> \in original -> Whole(p[2])
                         [] p[1] = "done" /\ p[2] = 0 /\ <<Old, p[3]>> \in original -> Whole(Old)
                         [] OTHER -> NoFile
  BY DEF Init
<1>3. 0 \in Numbers
  BY SwitchAssumption DEF Numbers
<1>4. FinalContents
  BY <1>2 DEF FinalContents
<1>5. Replacing /\ OldGone
  BY DEF Init, Replacing, OldGone
<1>6. LibraryPair
  <2> SUFFICES ASSUME files[<<"done", 0, "sub">>] = Whole(Old)
               PROVE  /\ files[<<"done", 0, "video">>] = Whole(Old)
                      /\ policy[j] # "replace"
    BY DEF LibraryPair
  <2>1. <<"done", 0, "sub">> \in Paths /\ <<"done", 0, "video">> \in Paths
    BY <1>3, FinalPaths DEF Kinds
  <2>2. <<Old, "sub">> \in original
    BY <1>2, <2>1, ContentsDiffer
  <2>3. "sub" \in s.existing
    BY <1>0, <2>2, JobsAssumption
  <2>4. "video" \in s.existing /\ "replace" \notin s.policies
    BY <2>3 DEF PairedStarts
  <2>5. <<Old, "video">> \in original
    BY <1>0, <2>4
  <2> QED
    BY <1>0, <1>2, <2>1, <2>4, <2>5
<1>7. Copying /\ HalfAt
  <2>1. HalfAt
    BY <1>1 DEF Init, NameInv, Named, HalfAt, NotMoving
  <2> QED
    BY <2>1 DEF Init, Copying, CopyAt, NotMoving
<1>8. AllThere
  <2> SUFFICES ASSUME NEW o \in Jobs \cup {Old}, NEW k \in Kinds
               PROVE  <<o, k>> \in original <=> InLibrary(o, k) \/ IsAside(o, k) \/ InFolder(o, k)
    BY DEF AllThere
  <2>1. \A o1, o2 \in Jobs \cup {Old} : Whole(o1) = Whole(o2) => o1 = o2
    BY DEF Whole
  <2>2. Whole(o) # NoFile
    BY ContentsDiffer
  <2>3. ~IsAside(o, k)
    BY <1>2, <2>2, FinalPaths DEF IsAside
  <2>4. CASE o = Old
    <3>1. InLibrary(Old, k) <=> <<Old, k>> \in original
      BY <1>2, <1>3, <2>2, <2>4, FinalPaths DEF InLibrary
    <3> QED
      BY <2>3, <2>4, <3>1, JobsAssumption DEF InFolder
  <2>5. CASE o = j
    <3>1. InFolder(j, k) <=> <<j, k>> \in original
      BY <1>2, <2>2, <2>5, FinalPaths DEF InFolder
    <3>2. ~InLibrary(j, k)
      BY <1>2, <2>2, <2>5, FinalPaths, ContentsDiffer DEF InLibrary
    <3> QED
      BY <2>3, <2>5, <3>1, <3>2
  <2> QED
    BY <2>4, <2>5
<1> QED
  BY <1>1, <1>4, <1>5, <1>6, <1>7, <1>8 DEF SoloInv

\* SoloInv is an invariant of a job on its own.
THEOREM SoloInvariant ==
    ASSUME NEW j \in Jobs, Jobs = {j}, PairedStarts
    PROVE  Spec => []SoloInv
<1>1. Init => SoloInv
  BY InitSolo
<1>2. SoloInv /\ [Next]_vars => SoloInv'
  BY NextSolo
<1> QED
  BY <1>1, <1>2, PTL DEF Spec

---------------------------------------------------------------------------
(* The promise                                                             *)

\* Where each file is, as Delivery has it.
Delivered == [f \in (Jobs \cup {Old}) \X Kinds |-> Place(f[1], f[2])]

\* Where a job on its own has its files: none is lost.
LEMMA SoloPlaces ==
    ASSUME SoloInv, NEW o \in Jobs \cup {Old}, NEW k \in Kinds
    PROVE  /\ Place(o, k) \in {"absent", "folder", "library", "aside"}
           /\ Place(o, k) = "absent" <=> <<o, k>> \notin original
           /\ InLibrary(o, k) => Place(o, k) = "library"
           /\ IsAside(o, k) /\ ~InLibrary(o, k) => Place(o, k) = "aside"
           /\ InFolder(o, k) /\ ~InLibrary(o, k) /\ ~IsAside(o, k) => Place(o, k) = "folder"
           /\ ~InFolder(o, k) => Place(o, k) # "folder"
<1>1. <<o, k>> \in original <=> InLibrary(o, k) \/ IsAside(o, k) \/ InFolder(o, k)
  BY DEF SoloInv, AllThere
<1> QED
  BY <1>1 DEF Place, InLibrary, IsAside, InFolder

\* The initial states are initial states of the promise.
LEMMA InitDelivered ==
    ASSUME NEW j \in Jobs, Jobs = {j}, PairedStarts, Init
    PROVE  Promise!Init
<1>1. SoloInv
  BY InitSolo
<1>2. \A p \in Paths : files[p] = CASE p[1] = "job" /\ <<p[2], p[3]>> \in original -> Whole(p[2])
                         [] p[1] = "done" /\ p[2] = 0 /\ <<Old, p[3]>> \in original -> Whole(Old)
                         [] OTHER -> NoFile
  BY DEF Init
<1>3. \A i \in Jobs, k \in Kinds : ~InLibrary(i, k)
  BY <1>2, FinalPaths, ContentsDiffer DEF InLibrary
<1>4. \A o \in Jobs \cup {Old}, k \in Kinds : ~IsAside(o, k)
  BY <1>2, FinalPaths, ContentsDiffer DEF IsAside
<1>5. \A k \in Kinds : ~InFolder(Old, k)
  BY JobsAssumption DEF InFolder
<1>6. \A i \in Jobs : <<i, "video">> \in original
  BY DEF Init
<1>7. \A i \in Jobs : Place(i, "video") = "folder" /\ Place(i, "sub") \in {"absent", "folder"}
  BY <1>1, <1>3, <1>4, <1>6, SoloPlaces DEF SoloInv, AllThere, Kinds
<1>8. \A k \in Kinds : Place(Old, k) \in {"absent", "library"}
  BY <1>1, <1>4, <1>5, SoloPlaces DEF SoloInv, AllThere
<1>9. Delivered \in [(Jobs \cup {Old}) \X Kinds -> {"absent", "folder", "library", "aside"}]
  BY <1>1, SoloPlaces DEF Delivered
<1>10. /\ \A i \in Jobs : Delivered[<<i, "video">>] = "folder"
                         /\ Delivered[<<i, "sub">>] \in {"absent", "folder"}
       /\ \A k \in Kinds : Delivered[<<Old, k>>] \in {"absent", "library"}
  BY <1>7, <1>8 DEF Delivered, Kinds
<1> QED
  BY <1>9, <1>10 DEF Delivered, Promise!Init, Promise!Files, Promise!Kinds, Promise!Places, Kinds

\* Every step delivers a file, the subtitle before the video, puts one aside, or leaves
\* all where they are.
LEMMA NextDelivered ==
    ASSUME SoloInv, NEW j \in Jobs, Jobs = {j}, [Next]_vars
    PROVE  [Promise!Next]_Delivered
<1>0. UNCHANGED inputs
  BY InputsStay
<1>1. CASE StayBut({})
  BY <1>0, <1>1, StayContents DEF Delivered
<1>2. ASSUME NEW k \in Kinds, Transfers(j, k) PROVE [Promise!Next]_Delivered
  <2>1. \A o \in Jobs \cup {Old}, m \in Kinds : o # Owner(j) \/ m # k =>
           Place(o, m)' = Place(o, m)
    BY <1>0, <1>2, TransferOwner DEF Place, inputs
  <2>4. ASSUME NEW own, own = Owner(j), NEW p, Place(own, k)' = p
        PROVE  Delivered' = [Delivered EXCEPT ![<<own, k>>] = p]
    <3>1. \A f \in (Jobs \cup {Old}) \X Kinds :
             Place(f[1], f[2])' = IF f = <<own, k>> THEN p ELSE Place(f[1], f[2])
      BY <2>1, <2>4
    <3> QED
      BY <3>1 DEF Delivered
  <2>2. CASE pc[j] = "aside"
    <3>1. Place(Old, k) = "library" /\ Place(Old, k)' \in {"library", "aside"}
      BY <1>2, <2>2, TransferOwner DEF Place, InLibrary, IsAside, InFolder
    <3>2. CASE Place(Old, k)' = "library"
      BY <2>1, <2>2, <3>1, <3>2 DEF Delivered, Owner
    <3>3. CASE Place(Old, k)' = "aside"
      <4>1. /\ Delivered[<<Old, k>>] = "library"
            /\ Delivered' = [Delivered EXCEPT ![<<Old, k>>] = "aside"]
        BY <2>2, <2>4, <3>1, <3>3 DEF Delivered, Owner
      <4>2. Promise!SetAside(<<Old, k>>)
        BY <4>1 DEF Delivered, Promise!SetAside
      <4>3. <<Old, k>> \in Promise!Files
        BY DEF Promise!Files, Promise!Kinds, Kinds
      <4> QED
        BY <4>2, <4>3 DEF Promise!Next
    <3> QED
      BY <3>1, <3>2, <3>3
  <2>3. CASE pc[j] = "move"
    <3>1. Place(j, k) \in {"folder", "library"} /\ Place(j, k)' = "library"
      BY <1>2, <2>3, TransferOwner DEF Place, InLibrary, IsAside, InFolder
    <3>2. CASE Place(j, k) = "library"
      BY <2>1, <2>3, <3>1, <3>2 DEF Delivered, Owner
    <3>3. CASE Place(j, k) = "folder"
      <4>1. ASSUME k = "video" PROVE Place(j, "sub") # "folder"
        <5>1. todo[j] = {"video"}
          BY <1>2, <2>3, <4>1 DEF Transfers, MayMove
        <5>2. ~Present(<<"job", j, "sub">>)
          BY <2>3, <5>1 DEF SoloInv, FolderKnown, Kinds
        <5>3. ~InFolder(j, "sub")
          BY <5>2, ContentsDiffer DEF InFolder, Present
        <5> QED
          BY <5>3, SoloPlaces DEF Kinds
      <4>2. /\ Delivered[<<j, k>>] = "folder"
            /\ k = "video" => Delivered[<<j, "sub">>] # "folder"
            /\ Delivered' = [Delivered EXCEPT ![<<j, k>>] = "library"]
        <5>1. Delivered' = [Delivered EXCEPT ![<<j, k>>] = "library"]
          BY <2>3, <2>4, <3>1 DEF Owner
        <5> QED
          BY <3>3, <4>1, <5>1 DEF Delivered, Kinds
      <4>3. Promise!Deliver(j, k)
        BY <4>2 DEF Delivered, Promise!Deliver
      <4> QED
        BY <4>3 DEF Promise!Next, Promise!Kinds, Kinds
    <3> QED
      BY <3>1, <3>2, <3>3
  <2> QED
    BY <1>2, <2>2, <2>3 DEF Transfers
<1> QED
  BY <1>1, <1>2, StepTransfers

\* The organizer implements Delivery, for a job on its own: whatever the policy, the
\* volumes, the failures, restarts and retries, no file of the job or of the library is
\* lost or goes back, and its video is in completed/ only when its subtitle has left the
\* folder.
THEOREM PromiseKept ==
    ASSUME NEW j \in Jobs, Jobs = {j}, PairedStarts
    PROVE  Spec => KeepsPromise
<1>1. Init => Promise!Init
  BY InitDelivered
<1>2. SoloInv /\ [Next]_vars => [Promise!Next]_Delivered
  BY NextDelivered
<1> QED
  BY <1>1, <1>2, SoloInvariant, PTL DEF Spec, KeepsPromise, Promise!Spec, Delivered

\* organize is "Safe to run again after any crash" for a job on its own, if the files that a
\* replacement would put aside are not a video with its subtitle: no file is ever lost.
THEOREM LoneJobLosesNothing ==
    ASSUME NEW j \in Jobs, Jobs = {j}, PairedStarts
    PROVE  Spec => []SafeToRunAgain
<1>1. SoloInv => SafeToRunAgain
  <2> SUFFICES ASSUME SoloInv, NEW f \in original
               PROVE  Place(f[1], f[2]) # "lost"
    BY DEF SafeToRunAgain
  <2>1. f[1] \in Jobs \cup {Old} /\ f[2] \in Kinds
    BY DEF SoloInv, WholeInv, NameInv, IInv, TypeOK
  <2> QED
    BY <2>1, SoloPlaces
<1> QED
  BY <1>1, SoloInvariant, PTL
=============================================================================
