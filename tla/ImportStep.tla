------------------------------ MODULE ImportStep ------------------------------
(***************************************************************************)
(* The import step (_import and below it in backend/app/jobs/pipeline.py,  *)
(* on the clients of backend/app/integrations/arr.py): the jobs of one arr *)
(* app ask it to move their files into its library and check that it did.  *)
(*                                                                         *)
(* Commands are sent under one lock per app, polled until a deadline and   *)
(* verified; transport errors, 5xx and the deadline are tried again. The   *)
(* app runs its commands at its own pace, also the ones whose answer got   *)
(* lost and the ones nobody polls any more. The process may stop anywhere. *)
(***************************************************************************)
EXTENDS Naturals, FiniteSets

CONSTANTS
    Jobs,       \* movies or episodes whose file is in completed/
    NoJob,      \* nobody holds the lock
    Attempts,   \* ImportPolicy.attempts
    MaxOpen,    \* bound on the unfinished commands of a job: beyond it arr answers 5xx
    Crashes,    \* whether the process may stop and start again (environment switch)
    Setups      \* initial cases: [app, configured, picked, hadFile]

Apps == {"Radarr", "Sonarr"}

ASSUME JobsAssumption == IsFiniteSet(Jobs) /\ NoJob \notin Jobs
ASSUME BoundAssumption == Attempts \in Nat \ {0} /\ MaxOpen \in Nat
ASSUME SwitchAssumption == Crashes \in BOOLEAN
ASSUME SetupAssumption ==
    Setups \subseteq [app : Apps, configured : BOOLEAN,
                      picked : SUBSET Jobs,    \* the title was picked: there is an arr id
                      hadFile : SUBSET Jobs]   \* arr had a file of that title before

VARIABLES
    setup,    \* never changes
    file,     \* where each job's file is
    open,     \* the commands arr has not finished, <<job, id>>
    imp,      \* import_status in the job's row
    lock,     \* who holds import_lock
    pc,       \* where each job's import is
    attempt,  \* which attempt it is at
    command,  \* the command it polls; 0 is none
    outcome   \* the verdict it is about to record

taskVars == <<lock, pc, attempt, command, outcome>>
vars     == <<setup, file, open, imp, taskVars>>

Ids      == 1 .. MaxOpen
Verdicts == {"imported", "not_imported", "error"}
\* What a request may end in: a good answer, 401/403, another 4xx or a body that is not
\* JSON, and 5xx or no answer at all.
Errors    == {"auth", "client", "server"}
Retryable == {"server"}
\* Where the lock is held; the two looks of _verify happen on either side of it.
Sending   == {"send", "fallback", "poll"}
Looking   == {"exists", "lookup"}
Running   == Sending \cup Looking \cup {"lock", "rejections", "sleep", "checkpoint"}

TypeOK ==
    /\ setup \in Setups
    /\ file \in [Jobs -> {"completed", "library", "deleted"}]
    /\ open \subseteq Jobs \X Ids
    /\ imp \in [Jobs -> Verdicts \cup {"pending"}]
    /\ lock \in Jobs \cup {NoJob}
    /\ pc \in [Jobs -> Running \cup {"idle"}]
    /\ attempt \in [Jobs -> 0 .. Attempts]
    /\ command \in [Jobs -> Ids \cup {0}]
    /\ outcome \in [Jobs -> Verdicts]

Init ==
    /\ setup \in Setups
    /\ file = [j \in Jobs |-> "completed"]
    /\ open = {}
    /\ imp = [j \in Jobs |-> "pending"]
    /\ lock = NoJob
    /\ pc = [j \in Jobs |-> "idle"]
    /\ attempt = [j \in Jobs |-> 0]
    /\ command = [j \in Jobs |-> 0]
    /\ outcome = [j \in Jobs |-> "error"]

Goto(j, p) == pc' = [pc EXCEPT ![j] = p]

\* Leaving `async with import_lock`, by a return or by an exception.
Release_Forgotten(j) == lock
Release(j) == IF lock = j THEN NoJob ELSE lock

Conclude(j, verdict) ==
    /\ outcome' = [outcome EXCEPT ![j] = verdict]
    /\ Goto(j, "checkpoint")

\* stop_after_attempt.
AttemptsLeft_OneMore(j) == attempt[j] <= Attempts
AttemptsLeft(j) == attempt[j] < Attempts

\* An exception in an attempt: the lock is given back; the next attempt or a verdict.
Fail(j, error) ==
    /\ lock' = Release(j)
    /\ IF error \in Retryable /\ AttemptsLeft(j)
       THEN Goto(j, "sleep") /\ UNCHANGED outcome
       ELSE Conclude(j, "error")
    /\ command' = [command EXCEPT ![j] = 0]
    /\ UNCHANGED <<setup, file, imp, attempt>>

---------------------------------------------------------------------------
(* The step of one job                                                     *)

\* The import step starts, or resumes: no plan when the app is not configured.
Begin(j) ==
    /\ pc[j] = "idle" /\ imp[j] = "pending"
    /\ IF setup.configured
       THEN Goto(j, "exists") /\ attempt' = [attempt EXCEPT ![j] = 1] /\ UNCHANGED outcome
       ELSE Conclude(j, "not_imported") /\ attempt' = [attempt EXCEPT ![j] = 0]
    /\ UNCHANGED <<setup, file, open, imp, lock, command>>

\* What the two ends of _verify lead to, before the command and after it.
Verified(j) ==
    /\ Conclude(j, "imported")
    /\ lock' = Release(j)
NotVerified(j) ==
    /\ IF lock = j THEN lock' = NoJob /\ Goto(j, "rejections")
                   ELSE UNCHANGED lock /\ Goto(j, "lock")
    /\ UNCHANGED outcome

\* _verify: the file first; without an arr id there is nothing to look up.
Exists_Unasked(j) == FALSE
Exists(j) == file[j] = "completed"

LookForFile(j) ==
    /\ pc[j] = "exists"
    /\ IF ~Exists(j) /\ j \in setup.picked
       THEN Goto(j, "lookup") /\ UNCHANGED <<lock, outcome>>
       ELSE NotVerified(j)
    /\ UNCHANGED <<setup, file, open, imp, attempt, command>>

\* Whether the movie or episode has a path in arr.
HasPath_WrongKey(j) == setup.app = "Radarr" /\ (j \in setup.hadFile \/ file[j] = "library")
HasPath(j) == j \in setup.hadFile \/ file[j] = "library"

Lookup(j) ==
    /\ pc[j] = "lookup"
    /\ \/ /\ IF HasPath(j) THEN Verified(j) ELSE NotVerified(j)
          /\ UNCHANGED <<setup, file, imp, attempt, command>>
       \/ \E error \in Errors : Fail(j, error)
    /\ UNCHANGED open

Acquire(j) ==
    /\ pc[j] = "lock" /\ lock = NoJob
    /\ lock' = j
    /\ Goto(j, "send")
    /\ UNCHANGED <<setup, file, open, imp, attempt, command, outcome>>

\* The POST: arr may have taken the command although its answer is an error. A refused
\* episode file is sent again as its folder, under the same lock.
Send(j) ==
    /\ pc[j] \in {"send", "fallback"}
    /\ \/ \E id \in Ids :
             /\ <<j, id>> \notin open
             /\ open' = open \cup {<<j, id>>}
             /\ command' = [command EXCEPT ![j] = id]
             /\ Goto(j, "poll")
             /\ UNCHANGED <<setup, file, imp, lock, attempt, outcome>>
       \/ \E error \in Errors :
             /\ \/ UNCHANGED open
                \/ /\ error # "auth"
                   /\ \E id \in Ids : <<j, id>> \notin open /\ open' = open \cup {<<j, id>>}
             /\ IF error = "client" /\ pc[j] = "send" /\ setup.app = "Sonarr"
                THEN Goto(j, "fallback")
                     /\ UNCHANGED <<setup, file, imp, lock, attempt, command, outcome>>
                ELSE Fail(j, error)

\* The command is over, the deadline passed, or arr could not be asked. (Asking again
\* changes nothing.)
Poll(j) ==
    /\ pc[j] = "poll"
    /\ \/ /\ <<j, command[j]>> \notin open
          /\ Goto(j, "exists")
          /\ command' = [command EXCEPT ![j] = 0]
          /\ UNCHANGED <<setup, file, imp, lock, attempt, outcome>>
       \/ <<j, command[j]>> \in open /\ Fail(j, "server")
       \/ \E error \in Errors : Fail(j, error)
    /\ UNCHANGED open

\* Why arr left the file there: a verdict, unless arr cannot be asked.
Rejections(j) ==
    /\ pc[j] = "rejections"
    /\ \/ /\ Conclude(j, "not_imported")
          /\ UNCHANGED <<setup, file, imp, lock, attempt, command>>
       \/ \E error \in Errors : Fail(j, error)
    /\ UNCHANGED open

\* The wait between two attempts.
Sleep(j) ==
    /\ pc[j] = "sleep"
    /\ Goto(j, "exists")
    /\ attempt' = [attempt EXCEPT ![j] = @ + 1]
    /\ UNCHANGED <<setup, file, open, imp, lock, command, outcome>>

\* One write for every way the step ends.
Checkpoint(j) ==
    /\ pc[j] = "checkpoint"
    /\ imp' = [imp EXCEPT ![j] = outcome[j]]
    /\ Goto(j, "idle")
    /\ UNCHANGED <<setup, file, open, lock, attempt, command, outcome>>

Step(j) == \/ Begin(j) \/ LookForFile(j) \/ Lookup(j) \/ Send(j) \/ Poll(j)
           \/ Rejections(j) \/ Sleep(j) \/ Checkpoint(j)

---------------------------------------------------------------------------
(* The rest of the world                                                   *)

\* arr ends a command: it moves the file if there is one and it likes it.
ArrFinish(c) ==
    /\ c \in open
    /\ open' = open \ {c}
    /\ \/ UNCHANGED file
       \/ /\ file[c[1]] = "completed"
          /\ file' = [file EXCEPT ![c[1]] = "library"]
    /\ UNCHANGED <<setup, imp, taskVars>>

\* JobService.retry_import.
RetryImport(j) ==
    /\ pc[j] = "idle" /\ imp[j] \in {"not_imported", "error"}
    /\ imp' = [imp EXCEPT ![j] = "pending"]
    /\ UNCHANGED <<setup, file, open, taskVars>>

\* JobService.delete_file: not while the job runs, and not what arr manages.
DeleteFile(j) ==
    /\ pc[j] = "idle" /\ imp[j] \in {"not_imported", "error"}
    /\ file[j] = "completed"
    /\ file' = [file EXCEPT ![j] = "deleted"]
    /\ UNCHANGED <<setup, open, imp, taskVars>>

\* The process stops; arr does not. The jobs resume at their import step.
Restart ==
    /\ Crashes
    /\ pc' = [j \in Jobs |-> "idle"]
    /\ lock' = NoJob
    /\ command' = [j \in Jobs |-> 0]
    /\ UNCHANGED <<setup, file, open, imp, attempt, outcome>>

Next ==
    \/ \E j \in Jobs : Step(j) \/ Acquire(j) \/ RetryImport(j) \/ DeleteFile(j)
    \/ \E c \in open : ArrFinish(c)
    \/ Restart

Spec == Init /\ [][Next]_vars

\* asyncio runs every task that can go on, and asyncio.Lock serves its waiters in turn.
\* Nothing is assumed of arr.
Fairness == \A j \in Jobs : WF_vars(Step(j)) /\ SF_vars(Acquire(j))
FairSpec == Spec /\ Fairness

---------------------------------------------------------------------------
(* Properties                                                              *)

\* "Imported = the file is gone from completed/ and arr has it" (_verify): the file of a job
\* that says `imported` is in the library (or the user deleted it), also when arr had
\* another file of that title before, when an answer got lost, and when another attempt's
\* command is still running.
ImportedHasLeft == \A j \in Jobs : imp[j] = "imported" => file[j] # "completed"

\* The lock of an arr app is held by a job that is sending, polling or verifying, and by
\* no job that ended, failed, waits for its next attempt or was stopped; no command is sent
\* or polled without it.
LockIsReturned ==
    /\ \A j \in Jobs : lock = j => pc[j] \in Sending \cup Looking
    /\ \A j \in Jobs : pc[j] \in Sending => lock = j

\* "The file is still there, so arr refused it" (_import_once): a job that says
\* `not_imported` still has its file in completed/.
RefusedFileIsStillThere == \A j \in Jobs : imp[j] = "not_imported" => file[j] = "completed"

\* Every import ends with a verdict, whatever arr answers or fails to do and whoever waits
\* for the lock, unless the process is stopped again and again.
ImportEnds ==
    \/ []<><<Restart>>_vars
    \/ \A j \in Jobs : imp[j] = "pending" ~> imp[j] # "pending"

\* "After a crash the command may already have done its work" (_import_once): an import
\* that starts again when arr has taken the file never ends in `not_imported`.
StartsAfterImport(j) ==
    /\ setup.configured /\ j \in setup.picked
    /\ pc[j] = "idle" /\ imp[j] = "pending" /\ file[j] = "library"
ArrsFileIsFound ==
    \/ []<><<Restart>>_vars
    \/ \A j \in Jobs : StartsAfterImport(j) ~> imp[j] \in {"imported", "error"}
=============================================================================
