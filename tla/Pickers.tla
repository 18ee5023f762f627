-------------------------------- MODULE Pickers --------------------------------
(***************************************************************************)
(* The pickers' lists (backend/app/arr/service.py) and the cache each arr  *)
(* client keeps of its app's library (RadarrClient.movies and              *)
(* SonarrClient.series in backend/app/integrations/arr.py, which are the   *)
(* same code). The clock is read before the request; a call awaits the     *)
(* app's answer, so calls overlap, and an answer may come late or never.   *)
(***************************************************************************)
EXTENDS Integers, Sequences, FiniteSets

CONSTANTS
    Readers,      \* calls that may overlap
    Titles,       \* what the app manages: 1..n, in the order the app lists them
    Queries,      \* the titles that each query matches
    CacheTtl,     \* MOVIE_CACHE_TTL_S, SERIES_CACHE_TTL_S
    Limit,        \* MOVIE_LIMIT, SERIES_LIMIT
    MaxClock      \* bound: seconds explored

ASSUME PickersAssumption ==
    /\ Titles \subseteq Nat /\ Queries \subseteq SUBSET Titles /\ Limit \in Nat \ {0}
    /\ CacheTtl \in Nat \ {0} /\ MaxClock \in Nat \ {0}

\* What a movie or a series is: nothing is missing of it, or something is, monitored or not.
Shelves == [Titles -> {"filed", "wanted", "unmonitored"}]
Bare    == [t \in Titles |-> "wanted"]

NoList == [at |-> -1, shelf |-> Bare]
Idle   == [began |-> -1, refresh |-> FALSE, shelf |-> Bare, answered |-> FALSE]
NoPage == [began |-> -1, refresh |-> FALSE, missing |-> FALSE, matches |-> {}, ended |-> -1,
           rows |-> {}]

VARIABLES
    app,        \* whose picker this is
    library,    \* what each title was, at each second so far (the app's)
    cache,      \* _movies or _series: when its call began, and what it answered
    calls,      \* the call each reader waits in, with the app's answer once it is sent
    picker      \* the list this step answered, if it did: when its call began and ended

pickerVars == <<app, library, cache, calls, picker>>

clock == Len(library)

Lists == [at : -1..MaxClock, shelf : Shelves]

PickersTypeOK ==
    /\ app \in {"radarr", "sonarr"}
    /\ \A i \in 1..Len(library) : library[i] \in Shelves
    /\ cache \in Lists
    /\ calls \in [Readers -> [began : -1..MaxClock, refresh : BOOLEAN,
                              shelf : Shelves, answered : BOOLEAN]]
    /\ picker \in [began : -1..MaxClock, refresh : BOOLEAN, missing : BOOLEAN,
                   matches : SUBSET Titles, ended : -1..MaxClock, rows : SUBSET Titles]

PickersInit ==
    /\ app \in {"radarr", "sonarr"}
    /\ library = << Bare >>
    /\ cache = NoList
    /\ calls = [r \in Readers |-> Idle]
    /\ picker = NoPage

---------------------------------------------------------------------------
(* ArrService.movies and .series                                           *)

\* "Missing" of Radarr is its Wanted view; of Sonarr, what the library lacks, monitored or not.
Missing == IF app = "radarr" THEN {"wanted"} ELSE {"wanted", "unmonitored"}

Asked(shelf, missing, matches) == {t \in matches : missing => shelf[t] \in Missing}

\* The first rows are taken after "missing" and the query have narrowed the list.
Listed(shelf, missing, matches) ==
    LET asked == Asked(shelf, missing, matches)
    IN  {t \in asked : Cardinality({u \in asked : u < t}) < Limit}

Answer(call, shelf) ==
    \E missing \in BOOLEAN, matches \in Queries :
        picker' = [began |-> call.began, refresh |-> call.refresh, missing |-> missing,
                   matches |-> matches, ended |-> clock, rows |-> Listed(shelf, missing, matches)]

Fresh(refresh) == ~refresh /\ cache # NoList /\ clock - cache.at < CacheTtl

\* A call that finds a fresh list answers at once.
AnswerFromCache ==
    /\ Fresh(FALSE)
    /\ Answer([began |-> clock, refresh |-> FALSE], cache.shelf)
    /\ UNCHANGED <<library, cache, calls>>

AskApp(r) ==
    \E refresh \in BOOLEAN :
        /\ calls[r] = Idle /\ ~Fresh(refresh)
        /\ calls' = [calls EXCEPT ![r] = [Idle EXCEPT !.began = clock, !.refresh = refresh]]
        /\ picker' = NoPage
        /\ UNCHANGED <<library, cache>>

\* The app builds its answer from the library of this moment.
AppAnswers(r) ==
    /\ calls[r] # Idle /\ ~calls[r].answered
    /\ calls' = [calls EXCEPT ![r].answered = TRUE, ![r].shelf = library[clock]]
    /\ picker' = NoPage
    /\ UNCHANGED <<library, cache>>

\* The age of a list counts from before the request, not from its answer.
CachedAt_Answer(r) == clock
CachedAt(r) == calls[r].began

ReceiveList(r) ==
    /\ calls[r].answered
    /\ cache' = [at |-> CachedAt(r), shelf |-> calls[r].shelf]
    /\ Answer(calls[r], calls[r].shelf)
    /\ calls' = [calls EXCEPT ![r] = Idle]
    /\ UNCHANGED library

\* An error of the app, or of the network, is the 502 that _guarded raises.
CallFails(r) ==
    /\ calls[r] # Idle
    /\ calls' = [calls EXCEPT ![r] = Idle]
    /\ picker' = NoPage
    /\ UNCHANGED <<library, cache>>

\* A second passes; the app may have taken a file in or lost one, or be told to monitor.
Second ==
    \E shelf \in Shelves :
        /\ clock < MaxClock
        /\ library' = Append(library, shelf)
        /\ picker' = NoPage
        /\ UNCHANGED <<cache, calls>>

PickersNext ==
    /\ UNCHANGED app
    /\ \/ AnswerFromCache \/ Second
       \/ \E r \in Readers : AskApp(r) \/ AppAnswers(r) \/ ReceiveList(r) \/ CallFails(r)

PickersSpec == PickersInit /\ [][PickersNext]_pickerVars
---------------------------------------------------------------------------
(* Properties                                                              *)

\* "cached for five minutes; `refresh` re-reads it now" and "Radarr's Wanted view": a picker
\* lists the library as it was at one moment, at most the cache's time before the call, and
\* after a refresh a moment of the call itself, however slow the app answers and whichever
\* calls overlap; a title the query matches, and that was missing then where only the missing
\* are asked for, is left out only for the limit's number of such titles before it.
PickerIsRecent ==
    picker # NoPage =>
        \E s \in 1..picker.ended :
            /\ s > picker.began - CacheTtl
            /\ picker.refresh => s >= picker.began
            /\ LET asked == Asked(library[s], picker.missing, picker.matches)
               IN  /\ picker.rows \subseteq asked
                   /\ \A t \in asked \ picker.rows :
                         Cardinality({u \in picker.rows : u < t}) = Limit
=============================================================================
