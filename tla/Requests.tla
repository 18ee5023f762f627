-------------------------------- MODULE Requests --------------------------------
(***************************************************************************)
(* From a wizard to a placed file (backend/app/requests/service.py): a     *)
(* wizard inspects one or two videos, previews where each would go, and    *)
(* creates a request from the same body; later the manager claims each job *)
(* and builds its target again from the rows (_Claimed.target in           *)
(* backend/app/jobs/manager.py). In between, inspections expire and are    *)
(* purged, others inspect, and the naming settings change. The quality of  *)
(* a name is a guess in the preview and what ffprobe reads in the end.     *)
(***************************************************************************)
EXTENDS Integers, Sequences, FiniteSets, FiniteSetsExt

CONSTANTS
    Urls,             \* the URLs that are inspected, a video each
    Namings,          \* naming settings: the templates and the colon mode
    Qualities,        \* what {Quality Full} renders as
    MaxInspections    \* bound: inspections made

Absent == -1    \* None: no year, season, number or air date
Year   == 2026  \* the year of the only air date
Blank  == "?"   \* a title that sanitises to nothing

\* EpisodeRef, without its title. The second video of a request, when there is one, is the
\* next episode.
Refs == {ref \in [season : {Absent, 0}, number : {Absent, 1}, airYear : {Absent, Year}] :
            ref.airYear # Absent => ref.number # Absent}
Next1 == [season |-> 1, number |-> 2, airYear |-> Year]

\* The media block: a movie with or without its year, a series and how it is numbered.
Media == [type : {"movie"}, title : {"Film", Blank}, year : {Absent, Year}]
    \cup [type : {"tv"}, title : {"Show", Blank}, numbering : {"standard", "daily"}]
    \cup [type : {"other"}]

NoBody   == [type |-> "none"]
Unnamed  == [type |-> "none"]
NotAsked == [path |-> Unnamed, naming |-> "none"]

VARIABLES
    inspections,   \* id -> the video it is of, and whether it has expired
    lastId,        \* the largest id ever given (sqlite_autoincrement)
    naming,        \* the naming settings in force
    media,         \* the wizard's media block
    items,         \* its videos: the one asked for, the inspection's id, the episode
    previews,      \* the path each item was last shown, and the naming of that answer
    request,       \* the request's row: its media columns and naming snapshot
    jobs,          \* its jobs' rows
    placed         \* where each job's file went, or why it could not

requestVars ==
    <<inspections, lastId, naming, media, items, previews, request, jobs, placed>>

RequestsInit ==
    /\ inspections = [i \in {} |-> 0] /\ lastId = 0
    /\ naming = CHOOSE n \in Namings : TRUE
    /\ media = NoBody /\ items = << >> /\ previews = << >>
    /\ request = NoBody /\ jobs = << >> /\ placed = << >>

Created == request # NoBody

---------------------------------------------------------------------------
(* build_path: everything that a name is rendered from                     *)

SeasonFolder(season) == IF season = 0 THEN "specials" ELSE "season"

Numbered(series, season, number) ==
    [type |-> "episode", title |-> series, folder |-> SeasonFolder(season), season |-> season,
     number |-> number]

Aired(series, year, season) ==
    LET s == IF season = Absent THEN year ELSE season
    IN  [type |-> "daily", title |-> series, folder |-> SeasonFolder(s), season |-> s,
         year |-> year]

\* The label of the height that the inspection found and the options ask for, right or wrong.
Estimated == CHOOSE quality \in Qualities : TRUE

\* A template renders empty when all its tokens do: a series folder or a movie without a year.
BuildPath(target, quality) ==
    IF \/ target.type \in {"episode", "daily"} /\ target.title = Blank
       \/ target.type = "movie" /\ target.title = Blank /\ target.year = Absent
    THEN Unnamed ELSE [type |-> "path", target |-> target, quality |-> quality]

---------------------------------------------------------------------------
(* InspectionService.inspect and what becomes of its rows                  *)

LiveRows(video) ==
    {i \in DOMAIN inspections : inspections[i].video = video /\ ~inspections[i].expired}

\* A client may still hold the id of a row that is gone.
NewId_Reused == Max(DOMAIN inspections \cup {0}) + 1
NewId == lastId + 1

Hold(video, id) ==
    \E ref \in Refs :
        /\ media # NoBody /\ ~Created
        /\ Len(items) < (IF media.type = "movie" THEN 1 ELSE 2)
        /\ items' = Append(items, [video |-> video, id |-> id,
              ref |-> IF items = << >> /\ media.type = "tv" THEN ref ELSE Next1])
        /\ previews' = Append(previews, NotAsked)

\* A fresh row answers; the wizard's or somebody else's inspection makes a new one after
\* the expired ones are deleted.
InspectCached(video) ==
    /\ LiveRows(video) # {}
    /\ Hold(video, Max(LiveRows(video)))
    /\ UNCHANGED <<inspections, lastId, naming, media, request, jobs, placed>>

InspectRun(video) ==
    LET kept == {i \in DOMAIN inspections : ~inspections[i].expired}
        id   == NewId
    IN  /\ LiveRows(video) = {} /\ lastId < MaxInspections
        /\ inspections' = [i \in kept \cup {id} |->
              IF i = id THEN [video |-> video, expired |-> FALSE] ELSE inspections[i]]
        /\ lastId' = lastId + 1
        /\ Hold(video, id) \/ UNCHANGED <<items, previews>>
        /\ UNCHANGED <<naming, media, request, jobs, placed>>

\* Half an hour passes; an upload or a removal of cookies deletes a site's rows at once.
Expire ==
    \E i \in DOMAIN inspections :
        /\ \/ inspections' = [inspections EXCEPT ![i].expired = TRUE]
           \/ inspections' = [k \in DOMAIN inspections \ {i} |-> inspections[k]]
        /\ UNCHANGED <<lastId, naming, media, items, previews, request, jobs, placed>>

---------------------------------------------------------------------------
(* The wizard                                                              *)

OpenWizard ==
    \E body \in Media :
        /\ media = NoBody
        /\ media' = body
        /\ UNCHANGED <<inspections, lastId, naming, items, previews, request, jobs, placed>>

\* target_for and episode_target, which refuse an episode that nothing numbers.
PreviewTarget(item) ==
    LET ref == item.ref
    IN  CASE media.type = "movie" -> [type |-> "movie", title |-> media.title, year |-> media.year]
          [] media.type = "other" -> [type |-> "other", video |-> inspections[item.id].video]
          [] media.type = "tv" /\ media.numbering = "daily" /\ ref.airYear # Absent ->
                Aired(media.title, ref.airYear, ref.season)
          [] media.type = "tv" /\ media.numbering = "standard" /\ ref.number # Absent ->
                Numbered(media.title, Max({ref.season, 0}), ref.number)
          [] OTHER -> Unnamed

\* A refusal, or an inspection that is gone, leaves no path.
Preview ==
    \E i \in DOMAIN items :
        /\ ~Created /\ items[i].id \in DOMAIN inspections
        /\ LET target == PreviewTarget(items[i])
           IN  previews' = [previews EXCEPT ![i] =
                  [path |-> IF target = Unnamed THEN Unnamed ELSE BuildPath(target, Estimated),
                   naming |-> naming]]
        /\ UNCHANGED <<inspections, lastId, naming, media, items, request, jobs, placed>>

PatchNaming ==
    \E n \in Namings \ {naming} :
        /\ naming' = n
        /\ UNCHANGED <<inspections, lastId, media, items, previews, request, jobs, placed>>

\* Every inspection must still be there, or nothing is created. The request's title is the
\* media's, or that of the first video; a job keeps its own video's. A preview of another
\* naming than the request's promises nothing, and is forgotten here.
Create ==
    \E policy \in {"ask", "replace", "keep_both"} :
        /\ ~Created /\ items # << >>
        /\ \A i \in DOMAIN items : items[i].id \in DOMAIN inspections
        /\ request' = [type      |-> media.type,
                       title     |-> IF media.type = "other" THEN inspections[items[1].id].video
                                     ELSE media.title,
                       year      |-> IF media.type = "movie" THEN media.year ELSE Absent,
                       numbering |-> IF media.type = "tv" THEN media.numbering ELSE "none",
                       policy    |-> policy,
                       naming    |-> naming]
        /\ jobs' = [i \in DOMAIN items |->
                      [video |-> inspections[items[i].id].video, ref |-> items[i].ref]]
        /\ placed' = [i \in DOMAIN items |-> Unnamed]
        /\ previews' = [i \in DOMAIN items |->
                          IF previews[i].naming = naming THEN previews[i] ELSE NotAsked]
        /\ UNCHANGED <<inspections, lastId, naming, media, items>>

---------------------------------------------------------------------------
(* The manager                                                             *)

\* An episode without what its numbering needs falls back to season 0, episode 0.
ClaimedEpisode(ref) ==
    IF request.numbering = "daily" /\ ref.airYear # Absent
    THEN Aired(request.title, ref.airYear, ref.season)
    ELSE Numbered(request.title, Max({ref.season, 0}), Max({ref.number, 0}))

ClaimedTarget(job) ==
    CASE request.type = "movie" ->
            [type |-> "movie", title |-> request.title, year |-> request.year]
      [] request.type = "tv"    -> ClaimedEpisode(job.ref)
      [] OTHER                  -> [type |-> "other", video |-> job.video]

\* Another video is where this one should go: `ask` fails, `replace` puts the old one aside,
\* and `keep_both`, which `other` always has, takes the first free number.
Settled(path, taken) ==
    IF path = Unnamed THEN [type |-> "unnamed"]
    ELSE LET policy == IF request.type = "other" THEN "keep_both" ELSE request.policy
         IN  IF taken /\ policy = "ask" THEN [type |-> "collision"]
             ELSE [type |-> "placed", path |-> path, naming |-> request.naming,
                   numbered |-> taken /\ policy = "keep_both"]

\* The claim reads the rows again on every attempt; organize probes the file for its quality.
Place ==
    \E i \in DOMAIN jobs, quality \in Qualities, taken \in BOOLEAN :
        /\ placed[i].type # "placed"
        /\ placed' = [placed EXCEPT ![i] =
              Settled(BuildPath(ClaimedTarget(jobs[i]), quality), taken)]
        /\ UNCHANGED <<inspections, lastId, naming, media, items, previews, request, jobs>>

RequestsNext ==
    \/ \E video \in Urls : InspectCached(video) \/ InspectRun(video)
    \/ Expire \/ OpenWizard \/ Preview \/ PatchNaming \/ Create \/ Place

RequestsSpec == RequestsInit /\ [][RequestsNext]_requestVars
---------------------------------------------------------------------------
(* Properties                                                              *)

\* "a client may still hold one of an expired, deleted row" (inspections/models.py) and "the
\* request keeps the naming it was made with" (create): every job downloads the video its
\* item was inspected as; its file can be named if the preview could name it, and goes to
\* the folder and name the preview said when the naming did not change before the request was
\* made, but for the quality ("the preview can only guess") and the number of `keep_both`;
\* whatever expires, is purged or is renamed. Only `ask` may keep it from its place.
PreviewIsKept ==
    /\ \A i \in DOMAIN jobs : jobs[i].video = items[i].video
    /\ \A i \in DOMAIN placed :
          placed[i] # Unnamed /\ previews[i].path # Unnamed =>
              \/ placed[i].type = "collision" /\ request.policy = "ask" /\ request.type # "other"
              \/ /\ placed[i].type = "placed" /\ placed[i].naming = previews[i].naming
                 /\ placed[i].path.target = previews[i].path.target
=============================================================================
