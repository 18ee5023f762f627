------------------------------- MODULE LiveView --------------------------------
(***************************************************************************)
(* The queue page of one browser and one job: the stream of events         *)
(* (backend/app/events), what the job manager and the API publish after    *)
(* their commits, and how the page merges events into the list it fetched  *)
(* (frontend/src/features/jobs/events.ts). Events are lost with the stream *)
(* and when the subscriber's queue is full; a fetch and the stream are two *)
(* connections, so an answer may be older than an event that came first.   *)
(***************************************************************************)
EXTENDS Naturals, Sequences

CONSTANT QueueSize        \* QUEUE_SIZE: events the hub keeps for a slow browser

ASSUME ViewAssumption == QueueSize \in Nat

NoJobYet == "none"
Ended    == {"completed", "failed", "cancelled"}
Shown    == {"queued", "starting", "working"} \cup Ended
Nothing  == "nothing"     \* no commit to publish, no fetch going
Loading  == "loading"     \* the page has not had a list yet

VARIABLES
    stored,    \* the job's status in its row
    owed,      \* the status that is committed and not yet published
    link,      \* whether the stream is open, and the page subscribed with it
    queue,     \* the events between the hub and the page
    page,      \* the status the page shows
    fetch,     \* the list request: asked, answered with a status, or none
    missed     \* whether this stream lost a status, or one (or its start) crossed an answer

viewVars == <<stored, owed, link, queue, page, fetch, missed>>

ViewTypeOK ==
    /\ stored \in Shown \cup {NoJobYet}
    /\ owed \in Shown \cup {Nothing}
    /\ link \in BOOLEAN
    /\ queue \in Seq(Shown \cup {"progress"}) /\ Len(queue) <= QueueSize
    /\ page \in Shown \cup {NoJobYet, Loading}
    /\ fetch \in Shown \cup {NoJobYet, "asked", Nothing}
    /\ missed \in BOOLEAN

\* The page is opened: its first fetch is on its way, the stream not yet open.
ViewInit ==
    /\ stored = NoJobYet /\ owed = Nothing
    /\ link = FALSE /\ queue = <<>>
    /\ page = Loading /\ fetch = "asked" /\ missed = FALSE

\* The hub's queues have a size.
Fits_Always == TRUE
Fits == Len(queue) < QueueSize

\* EventHub.publish: an event that does not fit is dropped.
Published(event) ==
    IF ~link THEN UNCHANGED <<queue, missed>>
    ELSE IF Fits THEN queue' = Append(queue, event) /\ UNCHANGED missed
    ELSE UNCHANGED queue /\ missed' = (missed \/ event # "progress")

\* A list was read by the server and is on its way to the page.
Answered == fetch \notin {"asked", Nothing}

\* invalidateQueries: a fetch that is on its way is given up for a new one, but the first
\* one, that is to bring the page its list, is joined.
Refetch == fetch' = IF page = Loading /\ Answered THEN fetch ELSE "asked"

---------------------------------------------------------------------------
(* The server                                                              *)

\* RequestService.create, retry and retry_import commit and publish nothing.
CommitSilently ==
    /\ owed = Nothing
    /\ stored \in {NoJobYet, "failed", "completed"}
    /\ stored' = "queued"
    /\ UNCHANGED <<owed, link, queue, page, fetch, missed>>

\* _claim, _set_status, _finish, _cancelled and cancel commit, and then publish. The next
\* writer waits for the write lock.
Moves == {<<"queued", "starting">>, <<"starting", "working">>, <<"queued", "cancelled">>}
         \cup ({"starting", "working"} \X Ended)

CommitStatus ==
    /\ owed = Nothing
    /\ \E move \in Moves : stored = move[1] /\ stored' = move[2] /\ owed' = move[2]
    /\ UNCHANGED <<link, queue, page, fetch, missed>>

PublishStatus ==
    /\ owed # Nothing
    /\ owed' = Nothing
    /\ Published(owed)
    /\ UNCHANGED <<stored, link, page, fetch>>

PublishProgress ==
    /\ stored = "working"
    /\ Published("progress")
    /\ UNCHANGED <<stored, owed, link, page, fetch>>

\* The process stops and starts again: recover requeues what was running.
StopHub ==
    /\ stored' = IF stored \in {"starting", "working"} THEN "queued" ELSE stored
    /\ owed' = Nothing
    /\ link' = FALSE /\ queue' = <<>>
    /\ fetch' \in IF fetch = Nothing THEN {Nothing} ELSE {fetch, "asked"}
    /\ UNCHANGED <<page, missed>>

\* JobService.list.
AnswerFetch ==
    /\ fetch = "asked"
    /\ fetch' = stored
    /\ UNCHANGED <<stored, owed, link, queue, page, missed>>

\* Nobody answers, and the retries are used up.
FailFetch ==
    /\ fetch = "asked" /\ ~link
    /\ fetch' = Nothing
    /\ UNCHANGED <<stored, owed, link, queue, page, missed>>

---------------------------------------------------------------------------
(* The page                                                                *)

\* `open` comes with the subscription, which starts in the same step as the response.
OnOpen_FirstTimeOnly ==
    IF page = Loading THEN Refetch ELSE UNCHANGED fetch
OnOpen == Refetch

OpenStream ==
    /\ ~link
    /\ link' = TRUE
    /\ OnOpen
    /\ missed' = (page = Loading /\ Answered)
    /\ UNCHANGED <<stored, owed, queue, page>>

DropStream ==
    /\ link
    /\ link' = FALSE /\ queue' = <<>>
    /\ UNCHANGED <<stored, owed, page, fetch, missed>>

\* merge: an event of a job that is not in the list, or comes before the list, asks for the
\* list again. A status that is merged, or waited for, while an answer is on its way may be
\* newer than that answer, which will replace it.
MergeEvent ==
    LET aStatus == Head(queue) # "progress" IN
    /\ queue # <<>>
    /\ queue' = Tail(queue)
    /\ IF page \in {Loading, NoJobYet}
       THEN Refetch /\ UNCHANGED page
       ELSE page' = (IF aStatus THEN Head(queue) ELSE page) /\ UNCHANGED fetch
    /\ missed' = (missed \/ (aStatus /\ Answered /\ page # NoJobYet))
    /\ UNCHANGED <<stored, owed, link>>

ReceiveFetch ==
    /\ Answered
    /\ page' = fetch /\ fetch' = Nothing
    /\ UNCHANGED <<stored, owed, link, queue, missed>>

ViewNext ==
    \/ CommitSilently \/ CommitStatus \/ PublishStatus \/ PublishProgress \/ StopHub
    \/ AnswerFetch \/ FailFetch \/ OpenStream \/ DropStream \/ MergeEvent \/ ReceiveFetch

ViewSpec == ViewInit /\ [][ViewNext]_viewVars
---------------------------------------------------------------------------
(* Properties                                                              *)

\* "Every (re)connect refetches, so nothing missed while disconnected stays stale"
\* (useJobEvents): once an open page has merged what was sent and received what it asked
\* for, it shows the row, unless since the connect its queue overflowed or an older answer
\* crossed a status. A connect while the page's very first answer is on its way does not
\* refetch: what the comment says is not true of that one. Only a job that was queued in
\* silence waits for its claim.
PageIsCurrent ==
    link /\ queue = <<>> /\ owed = Nothing /\ fetch = Nothing /\ ~missed
        => page = stored \/ stored = "queued"
=============================================================================
