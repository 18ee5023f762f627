------------------------------ MODULE ImportProofs -----------------------------
(***************************************************************************)
(* TLAPS proofs about ImportStep, for any number of jobs, attempts and     *)
(* open commands: its types, the truth of `imported`, the lock, and what   *)
(* an import can say that starts when arr has the file.                    *)
(***************************************************************************)
EXTENDS ImportStep, TLAPS

\* Why `imported` is true: the lookup is only asked once the file has left completed/,
\* and nothing brings it back there.
GoneWhenLooking == \A j \in Jobs : pc[j] = "lookup" => file[j] # "completed"
VerdictIsTrue   ==
    \A j \in Jobs : pc[j] = "checkpoint" /\ outcome[j] = "imported" => file[j] # "completed"
\* A job that waits for another attempt has one.
SleepsForMore   == \A j \in Jobs : pc[j] = "sleep" => attempt[j] < Attempts

IInv == /\ TypeOK /\ LockIsReturned
        /\ GoneWhenLooking /\ VerdictIsTrue /\ ImportedHasLeft /\ SleepsForMore

USE DEF Apps, Ids, Verdicts, Errors, Retryable, Sending, Looking, Running

---------------------------------------------------------------------------
(* The invariant is inductive                                              *)

LEMMA InitIInv == Init => IInv
BY JobsAssumption, BoundAssumption, SetupAssumption
   DEF Init, IInv, TypeOK, LockIsReturned, GoneWhenLooking, VerdictIsTrue, ImportedHasLeft, SleepsForMore

\* An exception gives the lock back and leaves a job with another attempt or a verdict.
LEMMA FailIInv ==
    ASSUME IInv, NEW j \in Jobs, pc[j] # "idle", NEW e \in Errors, Fail(j, e),
           open' \subseteq Jobs \X Ids
    PROVE  IInv'
<1>1. /\ lock' = (IF lock = j THEN NoJob ELSE lock)
      /\ setup' = setup /\ file' = file /\ imp' = imp /\ attempt' = attempt
      /\ command' = [command EXCEPT ![j] = 0]
  BY DEF Fail, Release
<1>2. \/ /\ pc' = [pc EXCEPT ![j] = "sleep"] /\ outcome' = outcome
         /\ attempt[j] < Attempts
      \/ /\ pc' = [pc EXCEPT ![j] = "checkpoint"]
         /\ outcome' = [outcome EXCEPT ![j] = "error"]
  BY DEF Fail, Conclude, Goto, AttemptsLeft
<1>3. TypeOK'
  BY <1>1, <1>2 DEF IInv, TypeOK
<1>4. LockIsReturned'
  BY <1>1, <1>2, JobsAssumption DEF IInv, TypeOK, LockIsReturned
<1>5. GoneWhenLooking' /\ VerdictIsTrue' /\ ImportedHasLeft'
  BY <1>1, <1>2 DEF IInv, TypeOK, GoneWhenLooking, VerdictIsTrue, ImportedHasLeft
<1>6. SleepsForMore'
  BY <1>1, <1>2 DEF IInv, TypeOK, SleepsForMore
<1> QED
  BY <1>3, <1>4, <1>5, <1>6 DEF IInv

\* The second look of a task finds the lock held by it; the first one does not.
LEMMA NotVerifiedIInv ==
    ASSUME IInv, NEW j \in Jobs, pc[j] \in Looking, NotVerified(j),
           UNCHANGED <<setup, file, open, imp, attempt, command>>
    PROVE  IInv'
<1>1. TypeOK'
  BY DEF NotVerified, Goto, IInv, TypeOK
<1>2. LockIsReturned'
  BY JobsAssumption DEF NotVerified, Goto, IInv, TypeOK, LockIsReturned
<1>3. GoneWhenLooking' /\ VerdictIsTrue' /\ ImportedHasLeft' /\ SleepsForMore'
  BY DEF NotVerified, Goto, IInv, TypeOK, GoneWhenLooking, VerdictIsTrue, ImportedHasLeft, SleepsForMore
<1> QED
  BY <1>1, <1>2, <1>3 DEF IInv

LEMMA VerifiedIInv ==
    ASSUME IInv, NEW j \in Jobs, pc[j] = "lookup", Verified(j),
           UNCHANGED <<setup, file, open, imp, attempt, command>>
    PROVE  IInv'
<1>1. TypeOK'
  BY DEF Verified, Conclude, Release, Goto, IInv, TypeOK
<1>2. LockIsReturned'
  BY JobsAssumption DEF Verified, Conclude, Release, Goto, IInv, TypeOK, LockIsReturned
<1>3. GoneWhenLooking' /\ VerdictIsTrue' /\ ImportedHasLeft' /\ SleepsForMore'
  BY DEF Verified, Conclude, Goto, IInv, TypeOK, GoneWhenLooking, VerdictIsTrue,
         ImportedHasLeft, SleepsForMore
<1> QED
  BY <1>1, <1>2, <1>3 DEF IInv

\* Every step of a task preserves the invariant.
LEMMA StepIInv == ASSUME IInv, NEW j \in Jobs, Step(j) \/ Acquire(j) PROVE IInv'
<1> USE DEF Goto, Conclude
<1>1. CASE Begin(j)
  <2>1. TypeOK'
    BY <1>1, BoundAssumption DEF Begin, IInv, TypeOK
  <2>2. LockIsReturned'
    BY <1>1 DEF Begin, IInv, TypeOK, LockIsReturned
  <2>3. GoneWhenLooking' /\ VerdictIsTrue' /\ ImportedHasLeft' /\ SleepsForMore'
    BY <1>1 DEF Begin, IInv, TypeOK, GoneWhenLooking, VerdictIsTrue, ImportedHasLeft, SleepsForMore
  <2> QED BY <2>1, <2>2, <2>3 DEF IInv
<1>2. CASE LookForFile(j)
  <2>1. CASE ~Exists(j) /\ j \in setup.picked
    BY <1>2, <2>1 DEF LookForFile, Exists, IInv, TypeOK, LockIsReturned, GoneWhenLooking,
                      VerdictIsTrue, ImportedHasLeft, SleepsForMore
  <2>2. CASE ~(~Exists(j) /\ j \in setup.picked)
    BY <1>2, <2>2, NotVerifiedIInv DEF LookForFile
  <2> QED BY <2>1, <2>2
<1>3. CASE Lookup(j)
  <2>1. CASE \E e \in Errors : Fail(j, e)
    BY <1>3, <2>1, FailIInv DEF Lookup, IInv, TypeOK
  <2>2. CASE /\ IF HasPath(j) THEN Verified(j) ELSE NotVerified(j)
             /\ UNCHANGED <<setup, file, open, imp, attempt, command>>
    BY <1>3, <2>2, VerifiedIInv, NotVerifiedIInv DEF Lookup
  <2> QED BY <1>3, <2>1, <2>2 DEF Lookup
<1>4. CASE Acquire(j)
  BY <1>4, JobsAssumption DEF Acquire, IInv, TypeOK, LockIsReturned, GoneWhenLooking,
     VerdictIsTrue, ImportedHasLeft, SleepsForMore
<1>5. CASE Send(j)
  <2>1. open' = open \/ \E id \in Ids : open' = open \cup {<<j, id>>}
    BY <1>5 DEF Send
  <2>2. open' \subseteq Jobs \X Ids
    BY <2>1 DEF IInv, TypeOK
  <2>3. CASE \E e \in Errors : Fail(j, e)
    BY <1>5, <2>2, <2>3, FailIInv DEF Send
  <2>4. CASE \/ /\ \E id \in Ids : command' = [command EXCEPT ![j] = id]
                /\ pc' = [pc EXCEPT ![j] = "poll"]
                /\ UNCHANGED <<setup, file, imp, lock, attempt, outcome>>
             \/ /\ pc' = [pc EXCEPT ![j] = "fallback"]
                /\ UNCHANGED <<setup, file, imp, lock, attempt, command, outcome>>
    BY <1>5, <2>2, <2>4 DEF Send, IInv, TypeOK, LockIsReturned, GoneWhenLooking,
       VerdictIsTrue, ImportedHasLeft, SleepsForMore
  <2> QED BY <1>5, <2>3, <2>4 DEF Send
<1>6. CASE Poll(j)
  <2>1. CASE \E e \in Errors : Fail(j, e)
    BY <1>6, <2>1, FailIInv DEF Poll, IInv, TypeOK
  <2>2. CASE ~ \E e \in Errors : Fail(j, e)
    <3>1. /\ pc[j] = "poll" /\ pc' = [pc EXCEPT ![j] = "exists"]
          /\ command' = [command EXCEPT ![j] = 0]
          /\ UNCHANGED <<setup, file, open, imp, lock, attempt, outcome>>
      BY <1>6, <2>2 DEF Poll
    <3> QED
      BY <3>1 DEF IInv, TypeOK, LockIsReturned, GoneWhenLooking,
         VerdictIsTrue, ImportedHasLeft, SleepsForMore
  <2> QED BY <2>1, <2>2
<1>7. CASE Rejections(j)
  <2>1. CASE \E e \in Errors : Fail(j, e)
    BY <1>7, <2>1, FailIInv DEF Rejections, IInv, TypeOK
  <2>2. CASE ~ \E e \in Errors : Fail(j, e)
    BY <1>7, <2>2 DEF Rejections, IInv, TypeOK, LockIsReturned, GoneWhenLooking,
       VerdictIsTrue, ImportedHasLeft, SleepsForMore
  <2> QED BY <2>1, <2>2
<1>8. CASE Sleep(j)
  BY <1>8, BoundAssumption DEF Sleep, IInv, TypeOK, LockIsReturned, GoneWhenLooking,
     VerdictIsTrue, ImportedHasLeft, SleepsForMore
<1>9. CASE Checkpoint(j)
  BY <1>9 DEF Checkpoint, IInv, TypeOK, LockIsReturned, GoneWhenLooking,
     VerdictIsTrue, ImportedHasLeft, SleepsForMore
<1> QED
  BY <1>1, <1>2, <1>3, <1>4, <1>5, <1>6, <1>7, <1>8, <1>9 DEF Step

\* So do arr, the user and a restart.
LEMMA WorldIInv ==
    ASSUME IInv,
           \/ \E j \in Jobs : RetryImport(j) \/ DeleteFile(j)
           \/ \E c \in open : ArrFinish(c)
           \/ Restart
    PROVE  IInv'
<1>1. ASSUME NEW j \in Jobs, RetryImport(j) PROVE IInv'
  BY <1>1 DEF RetryImport, taskVars, IInv, TypeOK, LockIsReturned, GoneWhenLooking,
     VerdictIsTrue, ImportedHasLeft, SleepsForMore
<1>2. ASSUME NEW j \in Jobs, DeleteFile(j) PROVE IInv'
  BY <1>2 DEF DeleteFile, taskVars, IInv, TypeOK, LockIsReturned,
     GoneWhenLooking, VerdictIsTrue, ImportedHasLeft, SleepsForMore
<1>3. ASSUME NEW c \in open, ArrFinish(c) PROVE IInv'
  <2>1. c[1] \in Jobs
    BY DEF IInv, TypeOK
  <2> QED
    BY <1>3, <2>1 DEF ArrFinish, taskVars, IInv, TypeOK, LockIsReturned, GoneWhenLooking,
       VerdictIsTrue, ImportedHasLeft, SleepsForMore
<1>4. CASE Restart
  BY <1>4, JobsAssumption DEF Restart, IInv, TypeOK, LockIsReturned, GoneWhenLooking,
     VerdictIsTrue, ImportedHasLeft, SleepsForMore
<1> QED
  BY <1>1, <1>2, <1>3, <1>4

LEMMA NextIInv == IInv /\ [Next]_vars => IInv'
<1>1. ASSUME IInv, UNCHANGED vars PROVE IInv'
  BY <1>1 DEF vars, taskVars, IInv, TypeOK, LockIsReturned, GoneWhenLooking,
     VerdictIsTrue, ImportedHasLeft, SleepsForMore
<1> QED
  BY <1>1, StepIInv, WorldIInv DEF Next

\* The inductive invariant holds of every behaviour.
THEOREM ImportInvariant == Spec => []IInv
<1>1. Init => IInv
  BY InitIInv
<1>2. IInv /\ [Next]_vars => IInv'
  BY NextIInv
<1> QED
  BY <1>1, <1>2, PTL DEF Spec

---------------------------------------------------------------------------
(* Results                                                                 *)

\* The variables keep their types; in particular no import makes more than Attempts
\* attempts.
THEOREM ImportTypes == Spec => []TypeOK
<1>1. IInv => TypeOK
  BY DEF IInv
<1> QED
  BY <1>1, ImportInvariant, PTL

\* The file of a job that says `imported` has left completed/.
THEOREM ImportedIsTrue == Spec => []ImportedHasLeft
<1>1. IInv => ImportedHasLeft
  BY DEF IInv
<1> QED
  BY <1>1, ImportInvariant, PTL

\* The lock of an arr app is with a job that sends, polls or verifies, or with nobody.
THEOREM LockReturns == Spec => []LockIsReturned
<1>1. IInv => LockIsReturned
  BY DEF IInv
<1> QED
  BY <1>1, ImportInvariant, PTL

\* Two jobs of an app never send or poll commands at the same time.
THEOREM OneSenderAtATime ==
    Spec => [](\A i, j \in Jobs : pc[i] \in Sending /\ pc[j] \in Sending => i = j)
<1>1. IInv => \A i, j \in Jobs : pc[i] \in Sending /\ pc[j] \in Sending => i = j
  BY DEF IInv, LockIsReturned
<1> QED
  BY <1>1, ImportInvariant, PTL

---------------------------------------------------------------------------
(* An import that starts when arr has the file                             *)

\* It finds the file gone and asks arr, which has it: all that it can end in is `imported`,
\* or `error` when arr cannot be asked.
KnowsItIsThere(j) ==
    /\ setup.configured /\ j \in setup.picked /\ file[j] = "library"
    /\ \/ pc[j] \in {"exists", "lookup", "sleep"} /\ imp[j] = "pending"
       \/ pc[j] = "checkpoint" /\ imp[j] = "pending" /\ outcome[j] \in {"imported", "error"}
       \/ pc[j] = "idle" /\ imp[j] \in {"pending", "imported", "error"}

\* It stays so, whatever the others do, the process stops, or the user tries again.
LEMMA StillKnows ==
  ASSUME IInv, NEW j \in Jobs, KnowsItIsThere(j), [Next]_vars
  PROVE  KnowsItIsThere(j)'
<1> USE DEF KnowsItIsThere
<1>0. /\ pc \in [Jobs -> Running \cup {"idle"}] /\ imp \in [Jobs -> Verdicts \cup {"pending"}]
      /\ outcome \in [Jobs -> Verdicts] /\ file \in [Jobs -> {"completed", "library", "deleted"}]
  BY DEF IInv, TypeOK
<1>1. ASSUME NEW i \in Jobs, i # j, Step(i) \/ Acquire(i) \/ RetryImport(i) \/ DeleteFile(i)
      PROVE  KnowsItIsThere(j)'
  <2>1. setup' = setup
    BY <1>1 DEF Step, Begin, LookForFile, Lookup, Send, Poll, Rejections, Sleep, Checkpoint, Acquire,
                RetryImport, DeleteFile, Fail, taskVars
  <2>2. pc'[j] = pc[j]
    BY <1>0, <1>1 DEF Step, Begin, LookForFile, Lookup, Send, Poll, Rejections, Sleep, Checkpoint,
                Acquire, RetryImport, DeleteFile, Fail, Conclude, Goto, Verified, NotVerified, taskVars
  <2>3. outcome'[j] = outcome[j]
    BY <1>0, <1>1 DEF Step, Begin, LookForFile, Lookup, Send, Poll, Rejections, Sleep, Checkpoint,
                Acquire, RetryImport, DeleteFile, Fail, Conclude, Verified, NotVerified, taskVars
  <2>4. imp'[j] = imp[j] /\ file'[j] = file[j]
    BY <1>0, <1>1 DEF Step, Begin, LookForFile, Lookup, Send, Poll, Rejections, Sleep, Checkpoint,
                Acquire, RetryImport, DeleteFile, Fail, taskVars
  <2> QED
    BY <2>1, <2>2, <2>3, <2>4
<1>2. CASE Begin(j)
  BY <1>0, <1>2 DEF Begin, Goto
<1>3. CASE LookForFile(j)
  BY <1>0, <1>3 DEF LookForFile, Exists, Goto
<1>4. ASSUME NEW error \in Errors, Fail(j, error), imp[j] = "pending"
      PROVE  KnowsItIsThere(j)'
  BY <1>0, <1>4 DEF Fail, Conclude, Goto
<1>5. CASE Lookup(j)
  <2>1. pc[j] = "lookup" /\ imp[j] = "pending" /\ HasPath(j)
    BY <1>5 DEF Lookup, HasPath
  <2>2. CASE Verified(j) /\ UNCHANGED <<setup, file, imp>>
    BY <1>0, <2>1, <2>2 DEF Verified, Conclude, Goto
  <2> QED
    BY <1>4, <1>5, <2>1, <2>2 DEF Lookup
<1>6. CASE Sleep(j)
  BY <1>0, <1>6 DEF Sleep, Goto
<1>7. CASE Checkpoint(j)
  BY <1>0, <1>7 DEF Checkpoint, Goto
<1>8. CASE Send(j) \/ Poll(j) \/ Rejections(j) \/ Acquire(j)
  BY <1>8 DEF Send, Poll, Rejections, Acquire
<1>9. CASE RetryImport(j) \/ DeleteFile(j)
  BY <1>0, <1>9 DEF RetryImport, DeleteFile, taskVars
<1>10. ASSUME NEW c \in open, ArrFinish(c)
       PROVE  KnowsItIsThere(j)'
  BY <1>0, <1>10 DEF ArrFinish, taskVars
<1>11. CASE Restart
  BY <1>0, <1>11 DEF Restart
<1>12. CASE UNCHANGED vars
  BY <1>12 DEF vars, taskVars
<1> QED
  BY <1>1, <1>2, <1>3, <1>5, <1>6, <1>7, <1>8, <1>9, <1>10, <1>11, <1>12 DEF Next, Step

\* "After a crash the command may already have done its work" (_import_once): an import
\* that starts again when arr has taken the file is never recorded as refused, nor is a later
\* one of that job. (That it ends is fairness, and TLC's: ArrsFileIsFound.)
THEOREM FoundIsNeverRefused ==
  ASSUME NEW j \in Jobs
  PROVE  Spec => [](StartsAfterImport(j) => [](imp[j] # "not_imported"))
<1>1. StartsAfterImport(j) => KnowsItIsThere(j)
  BY DEF StartsAfterImport, KnowsItIsThere
<1>2. IInv /\ KnowsItIsThere(j) /\ [Next]_vars => KnowsItIsThere(j)'
  BY StillKnows
<1>3. KnowsItIsThere(j) => imp[j] # "not_imported"
  BY DEF KnowsItIsThere
<1> QED
  BY <1>1, <1>2, <1>3, ImportInvariant, PTL DEF Spec
=============================================================================
