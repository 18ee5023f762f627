------------------------------ MODULE SiteCookies ------------------------------
(***************************************************************************)
(* The cookie file of one site (backend/app/sites/service.py) and what     *)
(* uses it: downloads and inspections read it, hand it to yt-dlp as a      *)
(* plaintext file, write back what yt-dlp refreshed or flag it when the    *)
(* site refused it. The user uploads and deletes it, and the site itself,  *)
(* at any time. Each row access is a transaction of its own. Inspections   *)
(* of one URL of the site are cached.                                      *)
(*                                                                         *)
(* A stored file is named by the upload it comes from: a refreshed file    *)
(* keeps the name of the file it was made of.                              *)
(***************************************************************************)
EXTENDS Naturals

CONSTANTS
    Downloads,    \* download runs of the site's videos
    Inspections,  \* inspections of one URL
    MaxUploads    \* bound on the uploads

ASSUME SiteAssumption == MaxUploads \in Nat

Runs   == Downloads \cup Inspections
Files  == 1 .. MaxUploads
None   == 0                            \* no cookies: the name of no file
NoRow  == [file |-> None, flagged |-> FALSE]
NoInspection == [took |-> None, ofSite |-> FALSE, there |-> FALSE]

VARIABLES
    overlap,   \* whether the user uploads while runs are going (never changes)
    builtin,   \* whether the site came with fetcharr (never changes)
    site,      \* whether the site exists
    cookies,   \* its row in site_cookies
    uploads,   \* how many uploads were saved
    filtered,  \* an upload is filtered and encrypted, and not yet saved
    at,        \* where each run is
    took,      \* the file each run took
    keyed,     \* the inspections whose URL matched the site when they started
    plain,     \* the runs whose plaintext file is on disk
    cached,    \* the cached inspection
    blamed     \* the file that was used by the last run the site refused

siteVars == <<overlap, builtin, site, cookies, uploads, filtered, at, took, keyed, plain, cached, blamed>>

SiteTypeOK ==
    /\ overlap \in BOOLEAN /\ builtin \in BOOLEAN /\ site \in BOOLEAN
    /\ cookies \in [file : Files \cup {None}, flagged : BOOLEAN]
    /\ uploads \in 0 .. MaxUploads
    /\ filtered \in BOOLEAN
    /\ at \in [Runs -> {"idle", "claimed", "ytdlp", "used", "cache", "flag"}]
    /\ took \in [Runs -> Files \cup {None}]
    /\ keyed \subseteq Inspections
    /\ plain \subseteq Runs
    /\ cached \in [took : Files \cup {None}, ofSite : BOOLEAN, there : BOOLEAN]
    /\ blamed \in Files \cup {None}

SiteInit ==
    /\ overlap \in BOOLEAN
    /\ builtin \in BOOLEAN
    /\ site = builtin
    /\ cookies = NoRow
    /\ uploads = 0
    /\ filtered = FALSE
    /\ at = [r \in Runs |-> "idle"]
    /\ took = [r \in Runs |-> None]
    /\ keyed = {}
    /\ plain = {}
    /\ cached = NoInspection
    /\ blamed = None

RunTo(r, p) == at' = [at EXCEPT ![r] = p]
Quiet == \A r \in Runs : at[r] = "idle"

---------------------------------------------------------------------------
(* The user                                                                *)

CreateSite ==
    /\ ~site
    /\ site' = TRUE
    /\ UNCHANGED <<overlap, builtin, cookies, uploads, filtered, at, took, keyed, plain, cached, blamed>>

\* Its cookies go with it; a built-in site stays.
DeleteSite ==
    /\ site /\ ~builtin
    /\ site' = FALSE
    /\ cookies' = NoRow
    /\ UNCHANGED <<overlap, builtin, uploads, filtered, at, took, keyed, plain, cached, blamed>>

\* upload: the site's domains are read, and the text is filtered and encrypted.
UploadBegin ==
    /\ site /\ ~filtered /\ uploads < MaxUploads
    /\ overlap \/ Quiet
    /\ filtered' = TRUE
    /\ UNCHANGED <<overlap, builtin, site, cookies, uploads, at, took, keyed, plain, cached, blamed>>

\* Then the row is written, unless the site went in between (a foreign key), and the
\* inspections of this site are purged.
Uploaded_KeepsFlag(file) == [file |-> file, flagged |-> cookies.flagged]
Uploaded(file) == [file |-> file, flagged |-> FALSE]
UploadSave ==
    /\ filtered
    /\ filtered' = FALSE
    /\ IF site
       THEN /\ uploads' = uploads + 1
            /\ cookies' = Uploaded(uploads')
            /\ cached' = IF cached.ofSite THEN NoInspection ELSE cached
       ELSE UNCHANGED <<cookies, uploads, cached>>
    /\ UNCHANGED <<overlap, builtin, site, at, took, keyed, plain, blamed>>

DeleteCookies ==
    /\ site
    /\ cookies' = NoRow
    /\ UNCHANGED <<overlap, builtin, site, uploads, filtered, at, took, keyed, plain, cached, blamed>>

---------------------------------------------------------------------------
(* A download or an inspection                                             *)

\* _run_job reads the cookies long before the download step writes them down; an inspection
\* that is not answered from the cache writes a private file at once.
Start(r) ==
    /\ at[r] = "idle"
    /\ overlap \/ ~filtered
    /\ took' = [took EXCEPT ![r] = cookies.file]
    /\ \/ /\ r \in Downloads
          /\ RunTo(r, "claimed")
          /\ UNCHANGED <<keyed, plain>>
       \/ /\ r \in Inspections /\ ~cached.there
          /\ RunTo(r, "ytdlp")
          /\ keyed' = IF site THEN keyed \cup {r} ELSE keyed \ {r}
          /\ plain' = IF cookies.file # None THEN plain \cup {r} ELSE plain
    /\ UNCHANGED <<overlap, builtin, site, cookies, uploads, filtered, cached, blamed>>

WriteDown(r) ==
    /\ at[r] = "claimed"
    /\ RunTo(r, "ytdlp")
    /\ plain' = IF took[r] # None THEN plain \cup {r} ELSE plain
    /\ UNCHANGED <<overlap, builtin, site, cookies, uploads, filtered, took, keyed, cached, blamed>>

\* The `finally` around yt-dlp: for an inspection its own run, for a download the write-back
\* too.
Cleaned_OnSuccess(r) == plain
Cleaned(r) == plain \ {r}

YtdlpOk(r) ==
    /\ at[r] = "ytdlp"
    /\ RunTo(r, IF took[r] # None THEN "used" ELSE IF r \in Inspections THEN "cache" ELSE "idle")
    /\ plain' = IF r \in Inspections THEN plain \ {r} ELSE plain
    /\ UNCHANGED <<overlap, builtin, site, cookies, uploads, filtered, took, keyed, cached, blamed>>

\* An authentication error flags the file, if the run had one.
YtdlpFailed(r) ==
    /\ at[r] = "ytdlp"
    /\ plain' = Cleaned(r)
    /\ \/ RunTo(r, "idle") /\ UNCHANGED blamed
       \/ took[r] # None /\ RunTo(r, "flag") /\ blamed' = took[r]
    /\ UNCHANGED <<overlap, builtin, site, cookies, uploads, filtered, took, keyed, cached>>

\* used: without a refreshed file only a time is noted. A refreshed one needs the site: a
\* download whose site is gone fails here.
Used(r) ==
    /\ at[r] = "used"
    /\ RunTo(r, IF r \in Inspections THEN "cache" ELSE "idle")
    /\ plain' = plain \ {r}
    /\ \/ UNCHANGED cookies
       \/ /\ r \in Downloads /\ site /\ cookies # NoRow
          /\ cookies' = [cookies EXCEPT !.file = took[r]]
    /\ UNCHANGED <<overlap, builtin, site, uploads, filtered, took, keyed, cached, blamed>>

Flag(r) ==
    /\ at[r] = "flag"
    /\ RunTo(r, "idle")
    /\ cookies' = IF cookies # NoRow THEN [cookies EXCEPT !.flagged = TRUE] ELSE cookies
    /\ UNCHANGED <<overlap, builtin, site, uploads, filtered, took, keyed, plain, cached, blamed>>

\* The inspection is cached under the site its URL matched when it started.
CacheIt(r) ==
    /\ at[r] = "cache"
    /\ RunTo(r, "idle")
    /\ cached' = [took |-> took[r], ofSite |-> r \in keyed, there |-> TRUE]
    /\ UNCHANGED <<overlap, builtin, site, cookies, uploads, filtered, took, keyed, plain, blamed>>

\* Thirty minutes later.
CacheExpires ==
    /\ cached.there
    /\ cached' = NoInspection
    /\ UNCHANGED <<overlap, builtin, site, cookies, uploads, filtered, at, took, keyed, plain, blamed>>

SiteNext ==
    \/ CreateSite \/ DeleteSite \/ UploadBegin \/ UploadSave \/ DeleteCookies \/ CacheExpires
    \/ \E r \in Runs : \/ Start(r) \/ WriteDown(r) \/ YtdlpOk(r) \/ YtdlpFailed(r)
                       \/ Used(r) \/ Flag(r) \/ CacheIt(r)

SiteSpec == SiteInit /\ [][SiteNext]_siteVars
---------------------------------------------------------------------------
(* Properties                                                              *)

\* "A new file is a fresh start: the old one's failures say nothing about it" (upload): when
\* no run was going during an upload, the stored file is the last one uploaded or refreshed
\* from it, and it is only flagged when the site refused that file.
FreshStart ==
    ~overlap /\ cookies # NoRow =>
        cookies.file = uploads /\ (cookies.flagged => blamed = uploads)

\* "The plaintext never outlives the step" (_download, _run_with_cookies): a plaintext
\* cookie file is on disk only while yt-dlp runs or what it refreshed is being written back.
PlaintextEndsWithRun == \A r \in plain : at[r] \in {"ytdlp", "used"}

\* "Cached inspections ran without these cookies; the next inspect must see them" (upload):
\* with the user's calls and the runs one after the other, a cached inspection has seen the
\* last upload that is still stored.
NextInspectSeesUpload ==
    ~overlap /\ Quiet /\ cached.there /\ cookies # NoRow => cached.took = cookies.file
=============================================================================
