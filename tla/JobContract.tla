------------------------------ MODULE JobContract ------------------------------
(***************************************************************************)
(* What the job queue promises of every job (backend/app/jobs), whatever   *)
(* is cancelled, retried, resumed or stopped: a worker begins only on a    *)
(* job that waits and has none, after the last step that was recorded; it  *)
(* records each step it leaves behind and goes on with the next; what it   *)
(* has brought to completed/ stays there.                                  *)
(***************************************************************************)
EXTENDS Integers

CONSTANTS
    Jobs,
    Deletes   \* whether users delete jobs and their files

Download == 1
Organize == 3
Last     == 4
Steps    == Download .. Last

VARIABLES
    waiting,    \* the jobs in the queue
    doing,      \* the step of each job that a worker is at, as a set: {} without a worker
    recorded,   \* the last step that was recorded, 0 for none
    video       \* where the job's video is: "none", "folder", "library"

vars == <<waiting, doing, recorded, video>>

After(k) == {k + 1} \cap Steps

Init ==
    /\ waiting = {}
    /\ doing = [j \in Jobs |-> {}]
    /\ recorded = [j \in Jobs |-> 0]
    /\ video = [j \in Jobs |-> "none"]

\* A new job, a retry, or a retry of the import, which is the only step that is done again
\* once it was recorded.
Enqueue(j) ==
    /\ doing[j] = {}
    /\ waiting' = waiting \cup {j}
    /\ \/ UNCHANGED recorded
       \/ recorded[j] = Last /\ recorded' = [recorded EXCEPT ![j] = Organize]
    /\ UNCHANGED <<doing, video>>

\* A cancel, a delete, or a verdict that comes late.
Withdraw(j) ==
    /\ j \in waiting
    /\ waiting' = waiting \ {j}
    /\ UNCHANGED <<doing, recorded, video>>

Begin(j) ==
    /\ j \in waiting /\ doing[j] = {}
    /\ waiting' = waiting \ {j}
    /\ doing' = [doing EXCEPT ![j] = After(recorded[j])]
    /\ UNCHANGED <<recorded, video>>

\* The video comes into the folder, and goes to the library once.
Work(j) ==
    /\ \/ /\ Download \in doing[j]
          /\ video[j] = "none"
          /\ video' = [video EXCEPT ![j] = "folder"]
       \/ /\ Organize \in doing[j]
          /\ video[j] = "folder"
          /\ video' = [video EXCEPT ![j] = "library"]
    /\ UNCHANGED <<waiting, doing, recorded>>

\* The row of a deleted job takes no record.
Record(j) ==
    \E k \in doing[j] :
        /\ k = Organize => video[j] = "library" \/ Deletes
        /\ \/ recorded' = [recorded EXCEPT ![j] = k]
           \/ Deletes /\ UNCHANGED recorded
        /\ doing' = [doing EXCEPT ![j] = After(k)]
        /\ UNCHANGED <<waiting, video>>

\* The worker fails, or sees a cancel.
Leave(j) ==
    /\ doing[j] # {}
    /\ doing' = [doing EXCEPT ![j] = {}]
    /\ UNCHANGED <<waiting, recorded, video>>

\* The job's folder is emptied; a delete takes the video wherever it is.
Clean(j) ==
    /\ video[j] = "folder" \/ Deletes
    /\ video' = [video EXCEPT ![j] = "none"]
    /\ UNCHANGED <<waiting, doing, recorded>>

Stop ==
    /\ doing' = [j \in Jobs |-> {}]
    /\ UNCHANGED <<waiting, recorded, video>>

\* Interrupted jobs wait again, or are ended; the folders of cancelled ones are emptied.
Restart ==
    /\ doing = [j \in Jobs |-> {}]
    /\ waiting' \in SUBSET Jobs /\ waiting \subseteq waiting'
    /\ \E cleaned \in SUBSET {j \in Jobs : video[j] = "folder"} :
          video' = [j \in Jobs |-> IF j \in cleaned THEN "none" ELSE video[j]]
    /\ UNCHANGED <<doing, recorded>>

Next ==
    \/ \E j \in Jobs : \/ Enqueue(j) \/ Withdraw(j) \/ Begin(j) \/ Work(j)
                       \/ Record(j) \/ Leave(j) \/ Clean(j)
    \/ Stop
    \/ Restart

Spec == Init /\ [][Next]_vars
=============================================================================
