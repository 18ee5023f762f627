----------------------------- MODULE ServiceProofs -----------------------------
(***************************************************************************)
(* Proofs about the services beside the job queue: presets, sessions that  *)
(* end and that last, the cookies of a site, the folder of a job with its  *)
(* video and its marker, and the names of files and folders. Each has an   *)
(* inductive invariant of its own; MCServices checks the properties on an  *)
(* instance.                                                               *)
(***************************************************************************)
EXTENDS Presets, Account, SiteCookies, JobFolder, Names, StoreProofs

---------------------------------------------------------------------------
(* Presets                                                                 *)

PresetsInv == PresetsTypeOK /\ OneDefaultPerType

\* Clearing the other defaults leaves one per type where only the new row could be a second.
LEMMA ClearLeavesOne ==
    ASSUME NEW all, NEW p \in DOMAIN all,
           \A q \in DOMAIN all : all[q] \in Preset,
           \A q, r \in DOMAIN all \ {p} :
              all[q].default /\ all[r].default /\ all[q].type = all[r].type => q = r,
           NEW after, after = ClearOtherDefaults(all, p)
    PROVE  /\ DOMAIN after = DOMAIN all
           /\ \A q \in DOMAIN after : after[q] \in Preset
           /\ \A q, r \in DOMAIN after :
                 after[q].default /\ after[r].default /\ after[q].type = after[r].type => q = r
<1>1. DOMAIN after = DOMAIN all
  BY DEF ClearOtherDefaults
<1>2. ASSUME NEW q \in DOMAIN all
      PROVE  /\ after[q] \in Preset /\ after[q].type = all[q].type
             /\ after[q].default => all[q].default
             /\ q # p /\ all[p].default /\ all[q].type = all[p].type => ~after[q].default
  BY DEF ClearOtherDefaults, Preset
<1>3. after[p] = all[p]
  BY DEF ClearOtherDefaults
<1> QED
  BY <1>1, <1>2, <1>3

\* "One default per media type: setting a new one unsets the old" (_clear_other_defaults), for
\* any presets and media types, after every sequence of calls.
THEOREM OneDefault == PresetsSpec => []OneDefaultPerType
<1>1. PresetsInit => PresetsInv
  BY DEF PresetsInit, PresetsInv, PresetsTypeOK, OneDefaultPerType
<1>2. PresetsInv /\ [PresetsNext]_presets => PresetsInv'
  <2> SUFFICES ASSUME PresetsInv, [PresetsNext]_presets PROVE PresetsInv'
    OBVIOUS
  <2> USE DEF PresetsInv, PresetsTypeOK, OneDefaultPerType
  <2>1. CASE CreatePreset
    <3>1. PICK p \in PresetIds \ DOMAIN presets, row \in Preset :
             presets' = ClearOtherDefaults(
                [q \in DOMAIN presets \cup {p} |-> IF q = p THEN row ELSE presets[q]], p)
      BY <2>1 DEF CreatePreset
    <3> DEFINE all == [q \in DOMAIN presets \cup {p} |-> IF q = p THEN row ELSE presets[q]]
    <3>2. DOMAIN all = DOMAIN presets \cup {p} /\ \A q \in DOMAIN all : all[q] \in Preset
      OBVIOUS
    <3>3. \A q, r \in DOMAIN all \ {p} :
             all[q].default /\ all[r].default /\ all[q].type = all[r].type => q = r
      OBVIOUS
    <3>4. p \in DOMAIN all /\ presets' = ClearOtherDefaults(all, p)
      BY <3>1
    <3> HIDE DEF all
    <3> QED
      BY <3>2, <3>3, <3>4, ClearLeavesOne
  <2>2. CASE UpdatePreset
    <3>1. PICK p \in DOMAIN presets, row \in Preset :
             presets' = ClearOtherDefaults([presets EXCEPT ![p] = row], p)
      BY <2>2 DEF UpdatePreset, AfterUpdate
    <3> DEFINE all == [presets EXCEPT ![p] = row]
    <3>2. DOMAIN all = DOMAIN presets /\ \A q \in DOMAIN all : all[q] \in Preset
      OBVIOUS
    <3>3. \A q, r \in DOMAIN all \ {p} :
             all[q].default /\ all[r].default /\ all[q].type = all[r].type => q = r
      OBVIOUS
    <3>4. p \in DOMAIN all /\ presets' = ClearOtherDefaults(all, p)
      BY <3>1
    <3> HIDE DEF all
    <3> QED
      BY <3>2, <3>3, <3>4, ClearLeavesOne
  <2>3. CASE DeletePreset
    BY <2>3 DEF DeletePreset
  <2>4. CASE UNCHANGED presets
    BY <2>4
  <2> QED
    BY <2>1, <2>2, <2>3, <2>4 DEF PresetsNext
<1>3. PresetsInv => OneDefaultPerType
  BY DEF PresetsInv
<1> QED
  BY <1>1, <1>2, <1>3, PTL DEF PresetsSpec

---------------------------------------------------------------------------
(* Sessions                                                                *)

\* Ids are never used twice.
SessionsOpened ==
    /\ opened \in Nat
    /\ DOMAIN expires \subseteq 1 .. opened
    /\ closed \subseteq 1 .. opened

AccountInv == SessionsOpened /\ SignedOutStaysOut

\* A session that was signed out stays out (logout, change_password, reset_password), however
\* many requests that had read it slide it later, for any lifetime and interval.
THEOREM SignedOutIsOut == AccountSpec => []SignedOutStaysOut
<1> USE DEF AccountInv, SessionsOpened, SignedOutStaysOut
<1>1. AccountInit => AccountInv
  BY DEF AccountInit
<1>2. AccountInv /\ [AccountNext]_accountVars => AccountInv'
  <2> SUFFICES ASSUME AccountInv, [AccountNext]_accountVars PROVE AccountInv'
    OBVIOUS
  <2>1. ASSUME NewSession, UNCHANGED closed PROVE AccountInv'
    BY <2>1 DEF NewSession
  <2>2. CASE Setup
    BY <2>1, <2>2 DEF Setup
  <2>3. CASE StoreLogin
    BY <2>1, <2>3 DEF StoreLogin
  <2>4. CASE VerifyPassword \/ UseSession \/ Hour \/ UNCHANGED accountVars
    BY <2>4 DEF VerifyPassword, UseSession, Hour, accountVars
  <2>5. CASE SlideSession
    BY <2>5 DEF SlideSession, Rows
  <2>6. CASE SignOut
    <3>1. PICK gone \in SUBSET DOMAIN expires :
             /\ DOMAIN expires' = DOMAIN expires \ gone
             /\ closed' = closed \cup gone
      BY <2>6 DEF SignOut
    <3> QED
      BY <2>6, <3>1 DEF SignOut
  <2> QED
    BY <2>2, <2>3, <2>4, <2>5, <2>6 DEF AccountNext
<1>3. AccountInv => SignedOutStaysOut
  OBVIOUS
<1> QED
  BY <1>1, <1>2, <1>3, PTL DEF AccountSpec

\* A session that is not signed out keeps its row, which outlives the last request that
\* used it, unless a request has still to slide it.
ActiveInv ==
    /\ SessionsOpened /\ opened \in 0 .. MaxSessions
    /\ hour \in Nat
    /\ \A s \in DOMAIN expires : expires[s] \in Nat
    /\ lastUse \in [Sessions -> Nat]
    /\ \A s \in (1 .. opened) \ closed :
          /\ s \in DOMAIN expires
          /\ s \notin sliding => expires[s] >= lastUse[s] + Lifetime - SlideInterval

\* "30 days, sliding", and "written at most once per hour" (auth/utils.py): for any lifetime
\* and interval, and any number of sessions and requests.
THEOREM ActiveIsSignedIn == AccountSpec => []ActiveStaysSignedIn
<1> USE AccountAssumption DEF ActiveInv, SessionsOpened, Sessions
<1>1. AccountInit => ActiveInv
  BY DEF AccountInit
<1>2. ActiveInv /\ [AccountNext]_accountVars => ActiveInv'
  <2> SUFFICES ASSUME ActiveInv, [AccountNext]_accountVars PROVE ActiveInv'
    OBVIOUS
  <2>1. ASSUME NewSession, UNCHANGED <<hour, sliding, closed>> PROVE ActiveInv'
    <3>1. opened' = opened + 1 /\ opened' \in 1 .. MaxSessions /\ opened' \in Nat
      BY <2>1 DEF NewSession
    <3>2. /\ expires' = [s \in DOMAIN expires \cup {opened'} |->
                           IF s = opened' THEN hour + Lifetime ELSE expires[s]]
          /\ lastUse' = [lastUse EXCEPT ![opened'] = hour]
      BY <2>1 DEF NewSession
    <3>3. ASSUME NEW s \in (1 .. opened') \ closed'
          PROVE  /\ s \in DOMAIN expires'
                 /\ s \notin sliding' => expires'[s] >= lastUse'[s] + Lifetime - SlideInterval
      <4>1. CASE s = opened'
        BY <2>1, <3>1, <3>2, <4>1
      <4>2. CASE s # opened'
        <5>1. s \in (1 .. opened) \ closed /\ s \in Sessions
          BY <2>1, <3>1, <4>2
        <5>2. expires'[s] = expires[s] /\ lastUse'[s] = lastUse[s] /\ s \in DOMAIN expires'
          BY <3>2, <4>2, <5>1
        <5> QED
          BY <2>1, <5>1, <5>2
      <4> QED
        BY <4>1, <4>2
    <3>4. /\ \A s \in DOMAIN expires' : expires'[s] \in Nat
          /\ lastUse' \in [Sessions -> Nat]
          /\ DOMAIN expires' \subseteq 1 .. opened'
      BY <2>1, <3>1, <3>2
    <3> QED
      BY <2>1, <3>1, <3>3, <3>4
  <2>2. CASE Setup
    BY <2>1, <2>2 DEF Setup
  <2>3. CASE StoreLogin
    BY <2>1, <2>3 DEF StoreLogin
  <2>4. CASE VerifyPassword \/ UNCHANGED accountVars
    BY <2>4 DEF VerifyPassword, accountVars
  <2>5. CASE Hour
    BY <2>5 DEF Hour
  <2>6. CASE UseSession
    <3>1. UNCHANGED <<hour, opened, expires, closed>>
      BY <2>6 DEF UseSession
    <3>2. PICK s \in DOMAIN expires :
             \/ sliding' = sliding \cup {s} /\ UNCHANGED lastUse
             \/ /\ ~NeedsSlide(s)
                /\ lastUse' = [lastUse EXCEPT ![s] = hour] /\ UNCHANGED sliding
      BY <2>6 DEF UseSession
    <3>3. s \in Sessions
      OBVIOUS
    <3>4. CASE sliding' = sliding \cup {s} /\ UNCHANGED lastUse
      BY <3>1, <3>4
    <3>5. CASE ~NeedsSlide(s) /\ lastUse' = [lastUse EXCEPT ![s] = hour] /\ UNCHANGED sliding
      <4>1. expires[s] >= hour + Lifetime - SlideInterval
        BY <3>5 DEF NeedsSlide
      <4>2. lastUse' \in [Sessions -> Nat] /\ lastUse'[s] = hour
            /\ \A t \in Sessions \ {s} : lastUse'[t] = lastUse[t]
        BY <3>3, <3>5
      <4>3. ASSUME NEW t \in (1 .. opened) \ closed, t \notin sliding
            PROVE  expires[t] >= lastUse'[t] + Lifetime - SlideInterval
        <5>1. t \in Sessions
          OBVIOUS
        <5> QED
          BY <4>1, <4>2, <4>3, <5>1
      <4> QED
        BY <3>1, <3>5, <4>2, <4>3
    <3> QED
      BY <3>2, <3>4, <3>5
  <2>7. CASE SlideSession
    <3>1. UNCHANGED <<hour, opened, closed>>
      BY <2>7 DEF SlideSession
    <3>2. PICK s \in sliding :
             /\ sliding' = sliding \ {s}
             /\ expires' = [t \in DOMAIN expires |-> IF t = s THEN hour + Lifetime ELSE expires[t]]
             /\ lastUse' = [lastUse EXCEPT ![s] = hour]
      BY <2>7 DEF SlideSession, Rows
    <3>3. /\ DOMAIN expires' = DOMAIN expires
          /\ \A t \in DOMAIN expires' : expires'[t] \in Nat
          /\ lastUse' \in [Sessions -> Nat]
      <4>1. hour + Lifetime \in Nat
        OBVIOUS
      <4>2. DOMAIN expires' = DOMAIN expires /\ \A t \in DOMAIN expires' : expires'[t] \in Nat
        BY <3>2, <4>1
      <4> QED
        BY <3>2, <4>2
    <3>4. ASSUME NEW t \in (1 .. opened) \ closed, t \notin sliding'
          PROVE  expires'[t] >= lastUse'[t] + Lifetime - SlideInterval
      <4>1. t \in Sessions /\ t \in DOMAIN expires
        OBVIOUS
      <4>2. CASE t = s
        <5>1. expires'[t] = hour + Lifetime /\ lastUse'[t] = hour
          BY <3>2, <4>1, <4>2
        <5> QED
          BY <5>1
      <4>3. CASE t # s
        BY <3>2, <3>4, <4>1, <4>3
      <4> QED
        BY <4>2, <4>3
    <3> QED
      BY <3>1, <3>3, <3>4
  <2>8. CASE SignOut
    <3>1. PICK gone \in SUBSET DOMAIN expires :
             /\ expires' = [t \in DOMAIN expires \ gone |-> expires[t]]
             /\ closed' = closed \cup gone
      BY <2>8 DEF SignOut
    <3>2. UNCHANGED <<hour, opened, sliding, lastUse>>
      BY <2>8 DEF SignOut
    <3> QED
      BY <3>1, <3>2
  <2> QED
    BY <2>2, <2>3, <2>4, <2>5, <2>6, <2>7, <2>8 DEF AccountNext
<1>3. ActiveInv => ActiveStaysSignedIn
  <2> SUFFICES ASSUME ActiveInv,
                      NEW s \in (1 .. opened) \ closed, s \notin sliding,
                      hour < lastUse[s] + Lifetime - SlideInterval
               PROVE  Valid(s)
    BY DEF ActiveStaysSignedIn
  <2>1. s \in Sessions
    OBVIOUS
  <2> QED
    BY <2>1 DEF Valid
<1> QED
  BY <1>1, <1>2, <1>3, PTL DEF AccountSpec

---------------------------------------------------------------------------
(* Cookies in the clear                                                    *)

\* Only a run that took a file has one in the clear.
PlainInv ==
    /\ took = [r \in Runs |-> took[r]]
    /\ \A r \in plain : took[r] # None
    /\ at \in [Runs -> {"idle", "claimed", "ytdlp", "used", "cache", "flag"}]
    /\ plain \subseteq Runs
    /\ PlaintextEndsWithRun

\* "The plaintext never outlives the step" (_download, _run_with_cookies), for any number of
\* downloads, inspections and uploads, overlapping or not.
THEOREM PlaintextIsShortLived == SiteSpec => []PlaintextEndsWithRun
<1> USE DEF PlainInv, PlaintextEndsWithRun
<1>1. SiteInit => PlainInv
  BY DEF SiteInit
<1>2. PlainInv /\ [SiteNext]_siteVars => PlainInv'
  <2> SUFFICES ASSUME PlainInv, [SiteNext]_siteVars PROVE PlainInv'
    OBVIOUS
  <2>1. CASE \/ CreateSite \/ DeleteSite \/ UploadBegin \/ UploadSave \/ DeleteCookies
             \/ CacheExpires \/ UNCHANGED siteVars
    BY <2>1 DEF CreateSite, DeleteSite, UploadBegin, UploadSave, DeleteCookies, CacheExpires,
                siteVars
  <2>2. ASSUME NEW r \in Runs,
               NEW p \in {"idle", "claimed", "ytdlp", "used", "cache", "flag"}, RunTo(r, p),
               UNCHANGED took,
               \/ plain' = plain \ {r}
               \/ /\ p \in {"ytdlp", "used"}
                  /\ plain' = IF took[r] # None THEN plain \cup {r} ELSE plain
               \/ r \notin plain /\ plain' = plain
        PROVE  PlainInv'
    BY <2>2 DEF RunTo
  <2>3. ASSUME NEW r \in Runs, Start(r) PROVE PlainInv'
    <3>1. r \notin plain /\ took' = [took EXCEPT ![r] = cookies.file] /\ UNCHANGED cookies
      BY <2>3 DEF Start
    <3>2. CASE r \in Downloads /\ RunTo(r, "claimed") /\ UNCHANGED plain
      BY <3>1, <3>2 DEF RunTo
    <3>3. CASE /\ RunTo(r, "ytdlp")
               /\ plain' = IF cookies.file # None THEN plain \cup {r} ELSE plain
      BY <3>1, <3>3 DEF RunTo
    <3> QED
      BY <2>3, <3>2, <3>3 DEF Start
  <2>4. ASSUME NEW r \in Runs, WriteDown(r) PROVE PlainInv'
    BY <2>2, <2>4 DEF WriteDown
  <2>5. ASSUME NEW r \in Runs, YtdlpOk(r) PROVE PlainInv'
    <3>1. CASE r \in Inspections
      BY <2>2, <2>5, <3>1 DEF YtdlpOk
    <3>2. CASE r \notin Inspections /\ took[r] # None
      BY <2>2, <2>5, <3>2 DEF YtdlpOk
    <3>3. CASE r \notin Inspections /\ took[r] = None
      BY <2>2, <2>5, <3>3 DEF YtdlpOk
    <3> QED
      BY <3>1, <3>2, <3>3
  <2>6. ASSUME NEW r \in Runs, YtdlpFailed(r) PROVE PlainInv'
    BY <2>2, <2>6 DEF YtdlpFailed, Cleaned
  <2>7. ASSUME NEW r \in Runs, Used(r) PROVE PlainInv'
    BY <2>2, <2>7 DEF Used
  <2>8. ASSUME NEW r \in Runs, Flag(r) \/ CacheIt(r) PROVE PlainInv'
    BY <2>2, <2>8 DEF Flag, CacheIt
  <2> QED
    BY <2>1, <2>2, <2>3, <2>4, <2>5, <2>6, <2>7, <2>8 DEF SiteNext
<1>3. PlainInv => PlaintextEndsWithRun
  OBVIOUS
<1> QED
  BY <1>1, <1>2, <1>3, PTL DEF SiteSpec

---------------------------------------------------------------------------
(* A fresh start                                                           *)

\* With uploads that wait for the runs, a run that is going has the last uploaded file or
\* none, and a file that is flagged is the one the site refused last.
FreshInv ==
    /\ took \in [Runs -> Nat]
    /\ at \in [Runs -> {"idle", "claimed", "ytdlp", "used", "cache", "flag"}]
    /\ cookies \in [file : Nat, flagged : BOOLEAN]
    /\ uploads \in Nat
    /\ ~overlap =>
          /\ filtered => Quiet
          /\ \A r \in Runs :
                /\ at[r] # "idle" => took[r] \in {None, uploads}
                /\ at[r] \in {"used", "flag"} => took[r] = uploads
                /\ at[r] = "flag" => blamed = uploads
          /\ FreshStart

\* "A new file is a fresh start: the old one's failures say nothing about it" (upload): for
\* any number of downloads, inspections and uploads.
THEOREM UploadIsFresh == SiteSpec => []FreshStart
<1> USE DEF FreshInv, None
<1>1. SiteInit => FreshInv
  BY DEF SiteInit, NoRow, FreshStart, Quiet
<1>2. FreshInv /\ [SiteNext]_siteVars => FreshInv'
  <2> SUFFICES ASSUME FreshInv, [SiteNext]_siteVars PROVE FreshInv'
    OBVIOUS
  <2>1. CASE \/ CreateSite \/ UploadBegin \/ CacheExpires \/ UNCHANGED siteVars
    BY <2>1 DEF CreateSite, UploadBegin, CacheExpires, siteVars, FreshStart, Quiet
  <2>2. CASE DeleteSite \/ DeleteCookies
    <3>1. NoRow \in [file : Nat, flagged : BOOLEAN]
      BY DEF NoRow
    <3>2. /\ cookies' = NoRow
          /\ UNCHANGED <<overlap, uploads, filtered, at, took, blamed>>
      BY <2>2 DEF DeleteSite, DeleteCookies
    <3> QED
      BY <3>1, <3>2 DEF FreshStart, Quiet
  <2>3. CASE UploadSave
    <3>1. /\ UNCHANGED <<overlap, at, took, blamed>>
          /\ filtered /\ ~filtered'
      BY <2>3 DEF UploadSave
    <3>2. CASE UNCHANGED <<cookies, uploads>>
      BY <3>1, <3>2 DEF FreshStart
    <3>3. CASE uploads' = uploads + 1 /\ cookies' = [file |-> uploads + 1, flagged |-> FALSE]
      <4>1. ~overlap => \A r \in Runs : at[r] = "idle"
        BY <3>1 DEF Quiet
      <4>2. uploads' \in Nat /\ cookies' \in [file : Nat, flagged : BOOLEAN] /\ FreshStart'
        BY <3>3 DEF FreshStart
      <4> QED
        BY <3>1, <4>1, <4>2
    <3> QED
      BY <2>3, <3>2, <3>3 DEF UploadSave, Uploaded
  <2>4. ASSUME NEW r \in Runs, Start(r) PROVE FreshInv'
    <3>1. PICK p \in {"claimed", "ytdlp"} : at' = [at EXCEPT ![r] = p]
      BY <2>4 DEF Start, RunTo
    <3>2. /\ took' = [took EXCEPT ![r] = cookies.file]
          /\ overlap \/ ~filtered
          /\ UNCHANGED <<overlap, filtered, cookies, uploads, blamed>>
      BY <2>4 DEF Start
    <3>3. ~overlap => cookies.file \in {None, uploads}
      BY DEF FreshStart, NoRow
    <3>4. took' \in [Runs -> Nat]
          /\ at' \in [Runs -> {"idle", "claimed", "ytdlp", "used", "cache", "flag"}]
      BY <3>1, <3>2
    <3>5. ASSUME NEW q \in Runs, ~overlap
          PROVE  /\ at'[q] # "idle" => took'[q] \in {None, uploads}
                 /\ at'[q] \in {"used", "flag"} => took'[q] = uploads
                 /\ at'[q] = "flag" => blamed = uploads
      <4>1. CASE q = r
        BY <3>1, <3>2, <3>3, <3>5, <4>1
      <4>2. CASE q # r
        BY <3>1, <3>2, <3>5, <4>2
      <4> QED
        BY <4>1, <4>2
    <3> QED
      BY <3>2, <3>4, <3>5 DEF FreshStart
  <2>5. ASSUME NEW r \in Runs, WriteDown(r) PROVE FreshInv'
    BY <2>5 DEF WriteDown, RunTo, FreshStart, Quiet
  <2>6. ASSUME NEW r \in Runs, YtdlpOk(r) PROVE FreshInv'
    BY <2>6 DEF YtdlpOk, RunTo, FreshStart, Quiet
  <2>7. ASSUME NEW r \in Runs, YtdlpFailed(r) PROVE FreshInv'
    BY <2>7 DEF YtdlpFailed, RunTo, FreshStart, Quiet
  <2>8. ASSUME NEW r \in Runs, Used(r) PROVE FreshInv'
    BY <2>8 DEF Used, RunTo, FreshStart, Quiet
  <2>9. ASSUME NEW r \in Runs, Flag(r) PROVE FreshInv'
    BY <2>9 DEF Flag, RunTo, FreshStart, Quiet
  <2>10. ASSUME NEW r \in Runs, CacheIt(r) PROVE FreshInv'
    BY <2>10 DEF CacheIt, RunTo, FreshStart, Quiet
  <2> QED
    BY <2>1, <2>2, <2>3, <2>4, <2>5, <2>6, <2>7, <2>8, <2>9, <2>10 DEF SiteNext
<1>3. FreshInv => FreshStart
  BY DEF FreshStart
<1> QED
  BY <1>1, <1>2, <1>3, PTL DEF SiteSpec

---------------------------------------------------------------------------
(* The folder of a job                                                     *)

\* After the organize step, in its run or by its checkpoint, the video has been delivered.
PastOrganize ==
    \/ status = "completed"
    \/ lastStep = "organize"
    \/ status = "running" /\ stage \in {"organized", "moved", "tidy", "finish"}

DeliveredInv ==
    /\ PastOrganize => delivered \/ taken
    /\ lastStep \in {"none", "download", "transcode", "organize"}

\* A job is only completed with its video in completed/, unless delete_file took it from there,
\* whatever a delete that looked too early, the sweep, a failed step, a retry or a stop does
\* in between, for any number of download attempts.
THEOREM CompletedIsDelivered == FolderSpec => []CompletedHasFile
<1> USE DEF DeliveredInv, PastOrganize
<1>1. FolderInit => DeliveredInv
  BY DEF FolderInit
<1>2. DeliveredInv /\ [FolderNext]_folderVars => DeliveredInv'
  <2> SUFFICES ASSUME DeliveredInv, [FolderNext]_folderVars PROVE DeliveredInv'
    OBVIOUS
  <2>1. CASE ClaimFolder
    BY <2>1 DEF ClaimFolder, others
  <2>2. CASE DownloadCheck \/ Attempt
    BY <2>2 DEF DownloadCheck, Attempt, Cancelled, Failed, EndRun, At, others
  <2>3. CASE TranscodeCheck \/ Encode \/ Replace \/ MarkTranscoded
    BY <2>3 DEF TranscodeCheck, Encode, Replace, MarkTranscoded, Cancelled, Failed, EndRun,
                At, others
  <2>4. CASE Organize \/ MoveVideo
    BY <2>4 DEF Organize, IsOrganized, MoveVideo, Failed, EndRun, At, others
  <2>5. CASE TidyFolder \/ FinishRun \/ CancelledBeforeStep
    BY <2>5 DEF TidyFolder, FinishRun, CancelledBeforeStep, Cancelled, EndRun, At, others
  <2>6. CASE \/ CheckpointStep("downloaded", "download", "transcode")
             \/ CheckpointStep("transcoded", "transcode", "organize")
             \/ CheckpointStep("organized", "organize", "finish")
             \/ CheckpointStep("moved", "organize", "tidy")
    BY <2>6 DEF CheckpointStep, Failed, EndRun, At, others
  <2>7. CASE Retry \/ CancelQueued \/ Age \/ StopAndResume
    BY <2>7 DEF Retry, CancelQueued, Age, StopAndResume, others, rowAndRun
  <2>8. CASE DeleteFileCheck \/ DeleteFileRemove \/ DeleteFileMark
    BY <2>8 DEF DeleteFileCheck, DeleteFileRemove, DeleteFileMark, rowAndRun
  <2>9. CASE SweepRead \/ SweepLook \/ SweepRemove \/ UNCHANGED folderVars
    BY <2>9 DEF SweepRead, SweepLook, SweepRemove, folderVars, rowAndRun
  <2> QED
    BY <2>1, <2>2, <2>3, <2>4, <2>5, <2>6, <2>7, <2>8, <2>9 DEF FolderNext, RunStep
<1>3. DeliveredInv => CompletedHasFile
  BY DEF CompletedHasFile
<1> QED
  BY <1>1, <1>2, <1>3, PTL DEF FolderSpec

\* A marker means that the download's checkpoint was taken, and that no run is before the
\* end of its transcode step.
MarkedInv ==
    /\ folder \in [fresh : BOOLEAN, part : BOOLEAN, final : BOOLEAN, video : Videos,
                   temp : BOOLEAN, marked : BOOLEAN, placing : BOOLEAN]
    /\ lastStep = "none" => ~folder.marked
    /\ status = "running" =>
          /\ stage \in {"download", "attempt", "downloaded"} => lastStep = "none"
          /\ stage \in {"transcode", "encode", "fallback", "replace", "mark"} => lastStep # "none"
          /\ stage \in {"encode", "fallback", "replace", "mark"} => ~folder.marked

\* Once its marker is down, a video is not encoded or downloaded again: not after a restart or
\* a failure before the checkpoint, a failed organize, a retry, a sweep or a delete (execute,
\* _transcode), for any number of attempts.
THEOREM MarkedStaysEncoded == FolderSpec => MarkedIsFinal
<1> USE DEF MarkedInv
<1>1. FolderInit => MarkedInv
  BY DEF FolderInit, Removed, Videos
<1>2. MarkedInv /\ [FolderNext]_folderVars =>
         MarkedInv' /\ (folder.marked => folder'.video \in {folder.video, "none"})
  <2> SUFFICES ASSUME MarkedInv, [FolderNext]_folderVars
               PROVE  MarkedInv' /\ (folder.marked => folder'.video \in {folder.video, "none"})
    OBVIOUS
  <2>0. /\ Removed \in [fresh : BOOLEAN, part : BOOLEAN, final : BOOLEAN, video : Videos,
                        temp : BOOLEAN, marked : BOOLEAN, placing : BOOLEAN]
        /\ ~Removed.marked /\ Removed.video = "none"
    BY DEF Removed, Videos
  <2>1. CASE ClaimFolder
    BY <2>1 DEF ClaimFolder, others
  <2>2. CASE DownloadCheck
    BY <2>2 DEF DownloadCheck, At, others
  <2>3. CASE Attempt
    BY <2>0, <2>3 DEF Attempt, Cancelled, Failed, EndRun, At, others, Videos
  <2>4. CASE TranscodeCheck
    BY <2>4 DEF TranscodeCheck, TranscodeDone, Failed, EndRun, At, others
  <2>5. CASE Encode
    BY <2>0, <2>5 DEF Encode, Cancelled, Failed, EndRun, At, others
  <2>6. CASE Replace
    BY <2>6 DEF Replace, Failed, EndRun, At, others, Videos, Encoded
  <2>7. CASE MarkTranscoded
    BY <2>7 DEF MarkTranscoded, Failed, EndRun, At, others
  <2>8. CASE Organize \/ MoveVideo
    BY <2>8 DEF Organize, IsOrganized, MoveVideo, Failed, EndRun, At, others, Videos
  <2>9. CASE TidyFolder \/ FinishRun \/ CancelledBeforeStep
    BY <2>0, <2>9 DEF TidyFolder, FinishRun, CancelledBeforeStep, Cancelled, EndRun, At, others
  <2>10. CASE \/ CheckpointStep("downloaded", "download", "transcode")
              \/ CheckpointStep("transcoded", "transcode", "organize")
              \/ CheckpointStep("organized", "organize", "finish")
              \/ CheckpointStep("moved", "organize", "tidy")
    BY <2>10 DEF CheckpointStep, Failed, EndRun, At, others
  <2>11. CASE Retry \/ CancelQueued \/ Age \/ StopAndResume
    BY <2>0, <2>11 DEF Retry, CancelQueued, Age, StopAndResume, others, rowAndRun
  <2>12. CASE DeleteFileCheck \/ DeleteFileRemove \/ DeleteFileMark
    BY <2>0, <2>12 DEF DeleteFileCheck, DeleteFileRemove, DeleteFileMark, rowAndRun
  <2>13. CASE SweepRead \/ SweepLook \/ SweepRemove \/ UNCHANGED folderVars
    BY <2>0, <2>13 DEF SweepRead, SweepLook, SweepRemove, folderVars, rowAndRun
  <2> QED
    BY <2>1, <2>2, <2>3, <2>4, <2>5, <2>6, <2>7, <2>8, <2>9, <2>10, <2>11, <2>12, <2>13
       DEF FolderNext, RunStep
<1> QED
  BY <1>1, <1>2, PTL DEF FolderSpec, MarkedIsFinal

---------------------------------------------------------------------------
(* Flattening                                                              *)

\* What holds at the first of n steps, and at each next one, holds at the last.
LEMMA UpTo ==
  ASSUME NEW n \in Nat, NEW T, 0 \in T, \A i \in 0 .. n - 1 : i \in T => i + 1 \in T
  PROVE  \A i \in 0 .. n : i \in T
<1>1. ASSUME NEW m \in 0 .. n, m \notin T
      PROVE  FALSE
  <2>1. PICK least \in {i \in 0 .. n : i \notin T} : \A i \in {i \in 0 .. n : i \notin T} : least <= i
    <3>1. {i \in 0 .. n : i \notin T} \in SUBSET Nat /\ {i \in 0 .. n : i \notin T} # {}
      BY <1>1
    <3> QED
      BY <3>1, LeastOf
  <2>2. least # 0
    BY <2>1
  <2>3. least - 1 \in 0 .. n - 1 /\ least - 1 \in T
    BY <2>1, <2>2
  <2>4. (least - 1) + 1 \in T /\ (least - 1) + 1 = least
    BY <2>1, <2>3
  <2> QED
    BY <2>1, <2>4
<1> QED
  BY <1>1

\* Concatenation under a name of its own, which the provers leave closed.
Then(s, t) == s \o t

\* f[i] is the first i of the sequences ss, one after the other.
Appends(f, ss, k, S) ==
    /\ f \in [0 .. k -> Seq(S)]
    /\ f[0] = << >>
    /\ \A i \in 1 .. k : f[i] = Then(f[i - 1], ss[i])

LEMMA AppendNext ==
  ASSUME NEW S, NEW k \in Nat, NEW ss, ss[k + 1] \in Seq(S), NEW g, Appends(g, ss, k, S)
  PROVE  \E h : Appends(h, ss, k + 1, S)
<1> DEFINE h == [i \in 0 .. k + 1 |-> IF i <= k THEN g[i] ELSE Then(g[k], ss[k + 1])]
<1>1. g[k] \in Seq(S) /\ Then(g[k], ss[k + 1]) \in Seq(S)
  BY DEF Appends, Then
<1>2. h \in [0 .. k + 1 -> Seq(S)] /\ h[0] = << >>
  BY <1>1 DEF Appends
<1>3. ASSUME NEW i \in 1 .. k + 1
      PROVE  h[i] = Then(h[i - 1], ss[i])
  <2>1. CASE i <= k
    <3>1. g[i] = Then(g[i - 1], ss[i])
      BY <2>1 DEF Appends
    <3> QED
      BY <2>1, <3>1
  <2>2. CASE i = k + 1
    <3>1. h[k + 1] = Then(g[k], ss[k + 1]) /\ h[(k + 1) - 1] = g[k]
      OBVIOUS
    <3> HIDE DEF h
    <3> QED
      BY <2>2, <3>1
  <2> QED
    BY <2>1, <2>2
<1> HIDE DEF h
<1> QED
  BY <1>2, <1>3 DEF Appends

LEMMA AppendAll ==
  ASSUME NEW S, NEW ss \in Seq(Seq(S))
  PROVE  \E f : Appends(f, ss, Len(ss), S)
<1> DEFINE T == {k \in Nat : \E g : Appends(g, ss, k, S)}
<1>1. Len(ss) \in Nat
  OBVIOUS
<1>2. Appends([i \in 0 .. 0 |-> << >>], ss, 0, S)
  BY DEF Appends
<1>3. 0 \in T
  BY <1>2
<1>4. ASSUME NEW k \in 0 .. Len(ss) - 1, k \in T
      PROVE  k + 1 \in T
  <2>1. k \in Nat /\ ss[k + 1] \in Seq(S) /\ \E g : Appends(g, ss, k, S)
    BY <1>1, <1>4
  <2> QED
    BY <2>1, AppendNext
<1> HIDE DEF T
<1>5. \A k \in 0 .. Len(ss) : k \in T
  BY <1>1, <1>3, <1>4, UpTo
<1> QED
  BY <1>1, <1>5 DEF T

\* FlattenSeq appends the sequences one by one.
LEMMA FlattenSteps ==
  ASSUME NEW S, NEW ss \in Seq(Seq(S))
  PROVE  \E f : Appends(f, ss, Len(ss), S) /\ FlattenSeq(ss) = f[Len(ss)]
<1>1. PICK f : Appends(f, ss, Len(ss), S)
  BY AppendAll
<1>2. Len(ss) \in Nat /\ \A i \in 1 .. Len(ss) : ss[i] \in Seq(S)
  OBVIOUS
<1>3. CASE Len(ss) = 0
  <2>1. FlattenSeq(ss) = << >>
    BY <1>3 DEF FlattenSeq
  <2> QED
    BY <1>1, <1>3, <2>1 DEF Appends
<1>4. CASE Len(ss) > 0
  <2> DEFINE Defines(h) == h = [i \in 1 .. Len(ss) |-> IF i = 1 THEN ss[i] ELSE Then(h[i - 1], ss[i])]
             flatten == CHOOSE h : Defines(h)
             F == [i \in 1 .. Len(ss) |-> f[i]]
             U == {i \in 0 .. Len(ss) : i = 0 \/ flatten[i] = f[i]}
  <2>0. f[1] = ss[1]
    <3>1. f[1] = Then(f[0], ss[1]) /\ f[0] = << >>
      BY <1>1, <1>2, <1>4 DEF Appends
    <3>2. ss[1] \in Seq(S)
      BY <1>2, <1>4
    <3> QED
      BY <3>1, <3>2 DEF Then
  <2>1. Defines(F)
    <3>1. ASSUME NEW i \in 1 .. Len(ss)
          PROVE  F[i] = IF i = 1 THEN ss[i] ELSE Then(F[i - 1], ss[i])
      <4>1. CASE i = 1
        BY <2>0, <4>1
      <4>2. CASE i # 1
        <5>1. i - 1 \in 1 .. Len(ss)
          BY <1>2, <4>2
        <5>2. F[i] = f[i] /\ F[i - 1] = f[i - 1]
          BY <5>1
        <5>3. f[i] = Then(f[i - 1], ss[i])
          BY <1>1 DEF Appends
        <5> QED
          BY <4>2, <5>2, <5>3
      <4> QED
        BY <4>1, <4>2
    <3>2. F = [i \in 1 .. Len(ss) |-> F[i]]
      OBVIOUS
    <3> HIDE DEF F
    <3> QED
      BY <3>1, <3>2
  <2>2. Defines(flatten)
    <3> HIDE DEF Defines
    <3> QED
      BY <2>1
  <2>3. FlattenSeq(ss) = flatten[Len(ss)]
    BY <1>4 DEF FlattenSeq, Then
  <2>4. \A i \in 1 .. Len(ss) :
           flatten[i] = IF i = 1 THEN ss[i] ELSE Then(flatten[i - 1], ss[i])
    <3> HIDE DEF flatten
    <3> QED
      BY <2>2
  <2> HIDE DEF flatten
  <2>5. ASSUME NEW i \in 0 .. Len(ss) - 1, i \in U
        PROVE  i + 1 \in U
    <3>1. i + 1 \in 1 .. Len(ss) /\ (i + 1) - 1 = i
      BY <1>2
    <3>2. flatten[i + 1] = IF i + 1 = 1 THEN ss[i + 1] ELSE Then(flatten[i], ss[i + 1])
      BY <2>4, <3>1
    <3>3. f[i + 1] = Then(f[i], ss[i + 1])
      BY <1>1, <3>1 DEF Appends
    <3>4. CASE i = 0
      BY <2>0, <3>1, <3>2, <3>4
    <3>5. CASE i # 0
      BY <2>5, <3>1, <3>2, <3>3, <3>5
    <3> QED
      BY <3>4, <3>5
  <2>6. 0 \in U
    BY <1>2
  <2> HIDE DEF U
  <2>7. \A i \in 0 .. Len(ss) : i \in U
    BY <1>2, <2>5, <2>6, UpTo
  <2> QED
    BY <1>1, <1>2, <1>4, <2>3, <2>7 DEF U
<1> QED
  BY <1>2, <1>3, <1>4
\* z is x with y after it.
Joined(x, y, z) ==
    /\ Len(x) \in Nat /\ Len(y) \in Nat
    /\ Len(z) = Len(x) + Len(y)
    /\ \A m \in 1 .. Len(x) : z[m] = x[m]
    /\ \A m \in 1 .. Len(y) : z[Len(x) + m] = y[m]

\* One step of flattening.
LEMMA AppendStep ==
  ASSUME NEW S, NEW n \in Nat, NEW ss, NEW f, Appends(f, ss, n, S),
         NEW i \in 1 .. n, ss[i] \in Seq(S)
  PROVE  f[i - 1] \in Seq(S) /\ f[i] \in Seq(S) /\ Joined(f[i - 1], ss[i], f[i])
<1>1. ASSUME NEW x \in Seq(S), NEW y \in Seq(S)
      PROVE  Joined(x, y, Then(x, y))
  BY DEF Then, Joined
<1>2. f[i - 1] \in Seq(S) /\ f[i] \in Seq(S) /\ f[i] = Then(f[i - 1], ss[i])
  BY DEF Appends
<1> QED
  BY <1>1, <1>2

\* As long as each sequence is one element, flattening leaves what is there.
SameUpTo(ss, t, k) == \A i \in 1 .. k : ss[i] = <<t[i]>>

LEMMA FlattenSame ==
  ASSUME NEW S, NEW ss \in Seq(Seq(S)), NEW t \in Seq(S), NEW k \in 0 .. Len(t), k <= Len(ss),
         SameUpTo(ss, t, k)
  PROVE  /\ FlattenSeq(ss) \in Seq(S)
         /\ Len(FlattenSeq(ss)) >= k
         /\ \A m \in 1 .. k : FlattenSeq(ss)[m] = t[m]
         /\ k = Len(ss) => Len(FlattenSeq(ss)) = k
<1>1. PICK f : Appends(f, ss, Len(ss), S) /\ FlattenSeq(ss) = f[Len(ss)]
  BY FlattenSteps
<1>2. Len(ss) \in Nat /\ k \in Nat /\ \A i \in 1 .. Len(ss) : ss[i] \in Seq(S)
  OBVIOUS
<1> DEFINE Same(i) == /\ i <= k => Len(f[i]) = i
                      /\ i >= k => Len(f[i]) >= k
                      /\ \A m \in 1 .. k : m <= i => f[i][m] = t[m]
           T == {i \in 0 .. Len(ss) : Same(i)}
<1>3. \A i \in 0 .. Len(ss) : f[i] \in Seq(S)
  BY <1>1 DEF Appends
<1>4. Same(0)
  <2>1. f[0] = << >> /\ Len(f[0]) = 0
    BY <1>1 DEF Appends
  <2> QED
    BY <1>2, <2>1
<1>5. ASSUME NEW i \in 0 .. Len(ss) - 1, Same(i)
      PROVE  Same(i + 1)
  <2>1. i + 1 \in 1 .. Len(ss) /\ i \in 0 .. Len(ss) /\ (i + 1) - 1 = i /\ ss[i + 1] \in Seq(S)
    BY <1>2
  <2>3. Joined(f[i], ss[i + 1], f[i + 1])
    BY <1>1, <1>2, <2>1, AppendStep
  <2>4. /\ Len(f[i + 1]) = Len(f[i]) + Len(ss[i + 1])
        /\ Len(f[i]) \in Nat /\ Len(ss[i + 1]) \in Nat
        /\ \A m \in 1 .. Len(f[i]) : f[i + 1][m] = f[i][m]
        /\ \A m \in 1 .. Len(ss[i + 1]) : f[i + 1][Len(f[i]) + m] = ss[i + 1][m]
    BY <2>3 DEF Joined
  <2>5. CASE i + 1 <= k
    <3>1. Len(f[i]) = i /\ ss[i + 1] = <<t[i + 1]>>
      BY <1>2, <1>5, <2>1, <2>5 DEF SameUpTo
    <3>2. Len(ss[i + 1]) = 1 /\ ss[i + 1][1] = t[i + 1]
      BY <3>1
    <3>3. Len(f[i + 1]) = i + 1 /\ f[i + 1][i + 1] = t[i + 1]
      BY <2>1, <2>4, <3>1, <3>2
    <3>4. ASSUME NEW m \in 1 .. k, m <= i + 1, m # i + 1
          PROVE  f[i + 1][m] = t[m]
      BY <1>2, <1>5, <2>1, <2>4, <3>1, <3>4
    <3>5. \A m \in 1 .. k : m <= i + 1 => f[i + 1][m] = t[m]
      BY <3>3, <3>4
    <3> QED
      BY <1>2, <2>1, <2>5, <3>3, <3>5
  <2>6. CASE i + 1 > k
    <3>1. Len(f[i]) >= k
      BY <1>2, <1>5, <2>1, <2>4, <2>6
    <3>2. ASSUME NEW m \in 1 .. k
          PROVE  f[i + 1][m] = t[m]
      <4>1. m <= i /\ m \in 1 .. Len(f[i])
        BY <1>2, <2>1, <2>4, <2>6, <3>1
      <4> QED
        BY <1>5, <2>4, <4>1
    <3>3. i \in Nat /\ Len(f[i + 1]) >= k
      <4>1. PICK p, q, r : p = Len(f[i]) /\ q = Len(ss[i + 1]) /\ r = Len(f[i + 1])
        OBVIOUS
      <4>2. p \in Nat /\ q \in Nat /\ r = p + q /\ p >= k
        BY <2>4, <3>1, <4>1
      <4>3. r >= k
        BY <1>2, <4>2
      <4> QED
        BY <1>2, <4>1, <4>3
    <3>4. ~(i + 1 <= k)
      BY <1>2, <2>6, <3>3
    <3> QED
      BY <3>2, <3>3, <3>4
  <2> QED
    BY <1>2, <2>1, <2>5, <2>6
<1> HIDE DEF Same
<1>6. \A i \in 0 .. Len(ss) : i \in T
  <2>1. 0 \in T /\ \A i \in 0 .. Len(ss) - 1 : i \in T => i + 1 \in T
    BY <1>2, <1>4, <1>5
  <2> HIDE DEF T
  <2> QED
    BY <1>2, <2>1, UpTo
<1>7. Same(Len(ss)) /\ FlattenSeq(ss) \in Seq(S)
  BY <1>1, <1>2, <1>3, <1>6
<1> QED
  BY <1>1, <1>2, <1>7 DEF Same

---------------------------------------------------------------------------
(* Collapse                                                                *)

\* No two spaces stand side by side.
Single(text) == \A i \in 1 .. Len(text) - 1 : ~(text[i] = Space /\ text[i + 1] = Space)

LEMMA OneSeq ==
  ASSUME NEW S, NEW c \in S
  PROVE  <<c>> \in Seq(S) /\ << >> \in Seq(S) /\ Len(<<c>>) = 1 /\ <<c>>[1] = c
OBVIOUS

\* A text and one more character.
LEMMA SingleNext ==
  ASSUME NEW S, NEW x \in Seq(S), Single(x), NEW z \in Seq(S),
         NEW y, Len(y) = 1, Joined(x, y, z),
         Len(x) > 0 => ~(x[Len(x)] = Space /\ y[1] = Space)
  PROVE  Single(z) /\ Len(z) > 0 /\ z[Len(z)] = y[1]
<1>1. Len(z) = Len(x) + 1 /\ Len(x) \in Nat /\ z[Len(x) + 1] = y[1]
  BY DEF Joined
<1>2. ASSUME NEW i \in 1 .. Len(z) - 1, z[i] = Space, z[i + 1] = Space
      PROVE  FALSE
  <2>1. CASE i + 1 <= Len(x)
    <3>1. i \in 1 .. Len(x) - 1 /\ i \in 1 .. Len(x) /\ i + 1 \in 1 .. Len(x)
      BY <1>1, <2>1
    <3>2. x[i] = Space /\ x[i + 1] = Space
      BY <1>2, <3>1 DEF Joined
    <3> QED
      BY <3>1, <3>2 DEF Single
  <2>2. CASE i + 1 > Len(x)
    <3>1. i = Len(x) /\ i \in 1 .. Len(x)
      BY <1>1, <2>2
    <3>2. x[i] = Space
      BY <1>2, <3>1 DEF Joined
    <3> QED
      BY <1>1, <1>2, <3>1, <3>2
  <2> QED
    BY <1>1, <2>1, <2>2
<1> QED
  BY <1>1, <1>2 DEF Single

LEMMA PiecesAreSeq ==
  ASSUME NEW S, NEW n \in Nat, NEW g \in [1 .. n -> Seq(S)]
  PROVE  g \in Seq(Seq(S)) /\ Len(g) = n /\ \A i \in 1 .. n : g[i] \in Seq(S)
OBVIOUS

LEMMA TextShape ==
  ASSUME NEW S, NEW text \in Seq(S)
  PROVE  /\ Len(text) \in Nat /\ DOMAIN text = 1 .. Len(text)
         /\ \A i \in 1 .. Len(text) : text[i] \in S
OBVIOUS

LEMMA CollapsePieces ==
  ASSUME NEW S, NEW text \in Seq(S)
  PROVE  \E g \in Seq(Seq(S)) :
            /\ Collapse(text) = FlattenSeq(g)
            /\ Len(g) = Len(text)
            /\ \A i \in 1 .. Len(text) : g[i] = SpaceAt(text, i) /\ g[i] \in Seq(S)
<1>1. \A i \in 1 .. Len(text) : SpaceAt(text, i) \in Seq(S)
  BY TextShape, OneSeq DEF SpaceAt
<1>2. [i \in 1 .. Len(text) |-> SpaceAt(text, i)] \in [1 .. Len(text) -> Seq(S)]
  BY <1>1
<1>3. Collapse(text) = FlattenSeq([i \in 1 .. Len(text) |-> SpaceAt(text, i)])
  BY TextShape DEF Collapse
<1> DEFINE g == [i \in 1 .. Len(text) |-> SpaceAt(text, i)]
<1>4. \A i \in 1 .. Len(text) : g[i] = SpaceAt(text, i)
  OBVIOUS
<1> HIDE DEF g
<1>5. g \in Seq(Seq(S)) /\ Len(g) = Len(text) /\ \A i \in 1 .. Len(text) : g[i] \in Seq(S)
  BY <1>2, TextShape, PiecesAreSeq DEF g
<1>6. Collapse(text) = FlattenSeq(g)
  BY <1>3 DEF g
<1> QED
  BY <1>4, <1>5, <1>6

\* Collapse leaves no run of spaces.
LEMMA CollapseIsSingle ==
  ASSUME NEW S, NEW text \in Seq(S)
  PROVE  Collapse(text) \in Seq(S) /\ Single(Collapse(text))
<1>0. PICK ss \in Seq(Seq(S)) :
            /\ Collapse(text) = FlattenSeq(ss)
            /\ Len(ss) = Len(text)
            /\ \A i \in 1 .. Len(text) : ss[i] = SpaceAt(text, i) /\ ss[i] \in Seq(S)
  BY CollapsePieces
<1> DEFINE n == Len(ss)
<1>1. /\ Collapse(text) = FlattenSeq(ss) /\ n = Len(ss) /\ n \in Nat
      /\ \A i \in 1 .. n : ss[i] = SpaceAt(text, i) /\ ss[i] \in Seq(S) /\ text[i] \in S
  BY <1>0, TextShape
<1> HIDE DEF n
<1>2. PICK f : Appends(f, ss, n, S) /\ Collapse(text) = f[n]
  BY <1>1, FlattenSteps
<1> DEFINE Ok(i) == Single(f[i]) /\ (i > 0 => Len(f[i]) > 0 /\ f[i][Len(f[i])] = text[i])
           T == {i \in 0 .. n : Ok(i)}
<1>3. Ok(0)
  BY <1>2 DEF Appends, Single
<1>4. ASSUME NEW i \in 0 .. n - 1, Ok(i)
      PROVE  Ok(i + 1)
  <2>1. i + 1 \in 1 .. n /\ (i + 1) - 1 = i /\ i \in Nat
    BY <1>1
  <2>2. /\ f[i] \in Seq(S) /\ f[i + 1] \in Seq(S) /\ Joined(f[i], ss[i + 1], f[i + 1])
        /\ text[i + 1] \in S /\ ss[i + 1] = SpaceAt(text, i + 1)
    BY <1>1, <1>2, <2>1, AppendStep
  <2>3. PICK x, y, z, c : x = f[i] /\ y = ss[i + 1] /\ z = f[i + 1] /\ c = text[i + 1]
    OBVIOUS
  <2>4. CASE i > 0 /\ text[i + 1] = Space /\ text[i] = Space
    <3>1. y = << >>
      BY <2>1, <2>2, <2>3, <2>4 DEF SpaceAt
    <3>2. Joined(x, << >>, z) /\ x \in Seq(S) /\ z \in Seq(S)
      BY <2>2, <2>3, <3>1
    <3>3. Len(z) = Len(x) /\ \A m \in 1 .. Len(x) : z[m] = x[m]
      BY <3>2 DEF Joined
    <3>4. z = x
      BY <3>2, <3>3
    <3> QED
      BY <1>4, <2>1, <2>3, <2>4, <3>4
  <2>5. CASE ~(i > 0 /\ text[i + 1] = Space /\ text[i] = Space)
    <3>1. y = <<c>>
      BY <2>1, <2>2, <2>3, <2>5 DEF SpaceAt
    <3>2. Len(y) = 1 /\ y[1] = c
      BY <2>2, <2>3, <3>1, OneSeq
    <3>3. Joined(x, y, z) /\ x \in Seq(S) /\ z \in Seq(S) /\ Single(x)
      BY <1>4, <2>2, <2>3
    <3>4. Len(x) > 0 => ~(x[Len(x)] = Space /\ c = Space)
      <4>1. CASE i = 0
        BY <1>2, <2>3, <4>1 DEF Appends
      <4>2. CASE i > 0
        BY <1>4, <2>3, <2>5, <4>2
      <4> QED
        BY <2>1, <4>1, <4>2
    <3>5. Single(z) /\ Len(z) > 0 /\ z[Len(z)] = c
      BY <3>2, <3>3, <3>4, SingleNext
    <3> QED
      BY <2>3, <3>5
  <2> QED
    BY <2>4, <2>5
<1>5. 0 \in T /\ \A i \in 0 .. n - 1 : i \in T => i + 1 \in T
  <2> HIDE DEF Ok
  <2> QED
    BY <1>1, <1>3, <1>4
<1>6. \A i \in 0 .. n : i \in T
  <2> HIDE DEF T
  <2> QED
    BY <1>1, <1>5, UpTo
<1> QED
  BY <1>1, <1>2, <1>6 DEF Appends

\* A text without a run of spaces stays as far as it has none.
NoRun(text, k) == \A i \in 2 .. k : ~(text[i] = Space /\ text[i - 1] = Space)

LEMMA CollapseKeeps ==
  ASSUME NEW S, NEW text \in Seq(S), NEW k \in 0 .. Len(text), NoRun(text, k)
  PROVE  /\ Len(Collapse(text)) >= k
         /\ \A i \in 1 .. k : Collapse(text)[i] = text[i]
         /\ k = Len(text) => Collapse(text) = text
<1>0. Len(text) \in Nat
  BY TextShape
<1>1. PICK ss \in Seq(Seq(S)) :
            /\ Collapse(text) = FlattenSeq(ss)
            /\ Len(ss) = Len(text)
            /\ \A i \in 1 .. Len(text) : ss[i] = SpaceAt(text, i) /\ ss[i] \in Seq(S)
  BY CollapsePieces
<1>2. ASSUME NEW i \in 1 .. k
      PROVE  ss[i] = <<text[i]>>
  <2>1. i \in 1 .. Len(text) /\ (i > 1 => i \in 2 .. k)
    BY <1>0
  <2>2. ~(i > 1 /\ text[i] = Space /\ text[i - 1] = Space)
    BY <2>1 DEF NoRun
  <2>3. SpaceAt(text, i) = <<text[i]>>
    BY <2>2 DEF SpaceAt
  <2> QED
    BY <1>1, <2>1, <2>3
<1>3. SameUpTo(ss, text, k)
  BY <1>2 DEF SameUpTo
<1>4. /\ Collapse(text) \in Seq(S)
      /\ Len(Collapse(text)) >= k
      /\ \A m \in 1 .. k : Collapse(text)[m] = text[m]
      /\ k = Len(text) => Len(Collapse(text)) = k
  BY <1>0, <1>1, <1>3, FlattenSame
<1>5. ASSUME k = Len(text) PROVE Collapse(text) = text
  BY <1>0, <1>4, <1>5
<1> QED
  BY <1>4, <1>5
---------------------------------------------------------------------------
(* What sanitize leaves                                                    *)

\* Flattening stays in the alphabet of what is flattened.
LEMMA FlattenIn ==
  ASSUME NEW S, NEW ss \in Seq(Seq(S))
  PROVE  FlattenSeq(ss) \in Seq(S)
<1>1. Len(ss) \in Nat
  OBVIOUS
<1> QED
  BY <1>1, FlattenSteps DEF Appends

\* What is left once the colons are replaced, and once illegal characters are removed.
NoColon    == Chars \ {Colon}
LegalChars == NoColon \ Illegal

LEMMA DashHasNoColon ==
  ASSUME NEW text, NEW i, NEW mode
  PROVE  Dash(text, i, mode) \in Seq(NoColon)
<1>1. \A dash, space : space \in NoColon /\ dash \in NoColon =>
         /\ <<space, dash>> \in Seq(NoColon) /\ <<space, dash, space>> \in Seq(NoColon)
         /\ << >> \in Seq(NoColon) /\ <<dash>> \in Seq(NoColon)
  OBVIOUS
<1>2. Space \in NoColon /\ "-" \in NoColon
  <2>1. Space \in Chars /\ "-" \in Chars
    BY DEF Chars, Edges
  <2>2. Space # Colon /\ "-" # Colon
    BY DEF Space, Colon
  <2> QED
    BY <2>1, <2>2 DEF NoColon
<1>3. /\ <<Space, "-">> \in Seq(NoColon) /\ <<Space, "-", Space>> \in Seq(NoColon)
      /\ << >> \in Seq(NoColon) /\ <<"-">> \in Seq(NoColon)
  BY <1>1, <1>2
<1>4. PICK a, b, c : a = <<Space, "-">> /\ b = <<Space, "-", Space>> /\ c = <<"-">>
  OBVIOUS
<1>5. Dash(text, i, mode) \in {a, b, c, << >>}
  BY <1>4 DEF Dash
<1> QED
  BY <1>3, <1>4, <1>5

\* No colon mode leaves a colon.
LEMMA ColonsGo ==
  ASSUME NEW text \in Seq(Chars), NEW mode
  PROVE  /\ ReplaceColons(text, mode) \in Seq(NoColon)
         /\ text \in Seq(NoColon) => ReplaceColons(text, mode) = text
<1>0. Len(text) \in Nat /\ DOMAIN text = 1 .. Len(text) /\ \A i \in 1 .. Len(text) : text[i] \in Chars
  BY TextShape
<1>1. ASSUME NEW i \in 1 .. Len(text)
      PROVE  ColonAt(text, i, mode) \in Seq(NoColon)
  <2>1. CASE text[i] # Colon
    <3>1. text[i] \in NoColon
      BY <1>0, <2>1 DEF NoColon
    <3>2. ColonAt(text, i, mode) = <<text[i]>>
      BY <2>1 DEF ColonAt
    <3> QED
      BY <3>1, <3>2, OneSeq
  <2>2. CASE text[i] = Colon
    BY <2>2, DashHasNoColon DEF ColonAt
  <2> QED
    BY <2>1, <2>2
<1> DEFINE g == [i \in 1 .. Len(text) |-> ColonAt(text, i, mode)]
<1>2. g \in [1 .. Len(text) -> Seq(NoColon)]
  BY <1>1
<1>3. ReplaceColons(text, mode) = FlattenSeq(g)
  BY <1>0 DEF ReplaceColons
<1>4. \A i \in 1 .. Len(text) : g[i] = ColonAt(text, i, mode)
  OBVIOUS
<1> HIDE DEF g
<1>5. g \in Seq(Seq(NoColon)) /\ Len(g) = Len(text)
  BY <1>0, <1>2, PiecesAreSeq
<1>6. ReplaceColons(text, mode) \in Seq(NoColon)
  BY <1>3, <1>5, FlattenIn
<1>7. ASSUME text \in Seq(NoColon) PROVE ReplaceColons(text, mode) = text
  <2>1. \A i \in 1 .. Len(text) : text[i] # Colon
    BY <1>7 DEF NoColon
  <2>2. SameUpTo(g, text, Len(text))
    BY <1>4, <2>1 DEF SameUpTo, ColonAt
  <2>3. /\ FlattenSeq(g) \in Seq(NoColon) /\ Len(FlattenSeq(g)) = Len(text)
        /\ \A m \in 1 .. Len(text) : FlattenSeq(g)[m] = text[m]
    BY <1>0, <1>5, <1>7, <2>2, FlattenSame
  <2> QED
    BY <1>3, <1>7, <2>3
<1> QED
  BY <1>6, <1>7

LEMMA IllegalGoes ==
  ASSUME NEW text \in Seq(NoColon)
  PROVE  /\ RemoveIllegal(text) \in Seq(LegalChars)
         /\ text \in Seq(LegalChars) => RemoveIllegal(text) = text
<1>0. Len(text) \in Nat /\ DOMAIN text = 1 .. Len(text) /\ \A i \in 1 .. Len(text) : text[i] \in NoColon
  BY TextShape
<1>1. ASSUME NEW i \in 1 .. Len(text)
      PROVE  LegalAt(text, i) \in Seq(LegalChars)
  <2>1. CASE text[i] \in Illegal
    BY <2>1 DEF LegalAt
  <2>2. CASE text[i] \notin Illegal
    <3>1. text[i] \in LegalChars /\ LegalAt(text, i) = <<text[i]>>
      BY <1>0, <2>2 DEF LegalChars, LegalAt
    <3> QED
      BY <3>1, OneSeq
  <2> QED
    BY <2>1, <2>2
<1> DEFINE g == [i \in 1 .. Len(text) |-> LegalAt(text, i)]
<1>2. g \in [1 .. Len(text) -> Seq(LegalChars)]
  BY <1>1
<1>3. RemoveIllegal(text) = FlattenSeq(g)
  BY <1>0 DEF RemoveIllegal
<1>4. \A i \in 1 .. Len(text) : g[i] = LegalAt(text, i)
  OBVIOUS
<1> HIDE DEF g
<1>5. g \in Seq(Seq(LegalChars)) /\ Len(g) = Len(text)
  BY <1>0, <1>2, PiecesAreSeq
<1>6. RemoveIllegal(text) \in Seq(LegalChars)
  BY <1>3, <1>5, FlattenIn
<1>7. ASSUME text \in Seq(LegalChars) PROVE RemoveIllegal(text) = text
  <2>1. \A i \in 1 .. Len(text) : text[i] \notin Illegal
    BY <1>7 DEF LegalChars
  <2>2. SameUpTo(g, text, Len(text))
    BY <1>4, <2>1 DEF SameUpTo, LegalAt
  <2>3. /\ FlattenSeq(g) \in Seq(LegalChars) /\ Len(FlattenSeq(g)) = Len(text)
        /\ \A m \in 1 .. Len(text) : FlattenSeq(g)[m] = text[m]
    BY <1>0, <1>5, <1>7, <2>2, FlattenSame
  <2> QED
    BY <1>3, <1>7, <2>3
<1> QED
  BY <1>6, <1>7
---------------------------------------------------------------------------
(* Parts of a text, and its bytes                                          *)

\* The part of a text from one place to another.
LEMMA Span ==
  ASSUME NEW S, NEW text \in Seq(S), NEW a \in 1 .. Len(text), NEW b \in a - 1 .. Len(text)
  PROVE  /\ SubSeq(text, a, b) \in Seq(S)
         /\ Len(SubSeq(text, a, b)) = b - a + 1
         /\ \A i \in 1 .. b - a + 1 :
               SubSeq(text, a, b)[i] = text[i + a - 1] /\ i + a - 1 \in 1 .. Len(text)
OBVIOUS

\* The places of the characters of two bytes.
Wides(text) == {i \in DOMAIN text : text[i] = Wide}

LEMMA SizeIs ==
  ASSUME NEW S, NEW text \in Seq(S)
  PROVE  /\ IsFiniteSet(Wides(text)) /\ Cardinality(Wides(text)) \in Nat
         /\ Size(text) = Len(text) + Cardinality(Wides(text))
         /\ Len(text) \in Nat /\ Size(text) \in Nat
         /\ Wides(text) \subseteq 1 .. Len(text)
<1>1. Len(text) \in Nat /\ DOMAIN text = 1 .. Len(text)
  BY TextShape
<1>2. Wides(text) \in SUBSET (1 .. Len(text))
  BY <1>1 DEF Wides
<1>3. IsFiniteSet(1 .. Len(text))
  BY <1>1, FS_Interval
<1>4. IsFiniteSet(Wides(text))
  BY <1>2, <1>3, FS_Subset
<1>5. Cardinality(Wides(text)) \in Nat
  BY <1>4, FS_CardinalityType
<1>6. Size(text) = Len(text) + Cardinality(Wides(text))
  BY DEF Size, Wides
<1> QED
  BY <1>1, <1>2, <1>4, <1>5, <1>6

\* A text whose wide characters are those of another, at a distance, has no more of them.
LEMMA WidesShift ==
  ASSUME NEW S, NEW s \in Seq(S), NEW t \in Seq(S), NEW d \in Int,
         \A i \in Wides(s) : i + d \in Wides(t)
  PROVE  Cardinality(Wides(s)) <= Cardinality(Wides(t))
<1> DEFINE f == [i \in Wides(s) |-> i + d]
<1>1. IsFiniteSet(Wides(t)) /\ Wides(s) \subseteq 1 .. Len(s) /\ Len(s) \in Nat
  BY SizeIs
<1>2. f \in [Wides(s) -> Wides(t)]
  OBVIOUS
<1>3. \A i, j \in Wides(s) : f[i] = f[j] => i = j
  BY <1>1
<1>4. f \in Injection(Wides(s), Wides(t))
  BY <1>2, <1>3 DEF Injection, IsInjective
<1> QED
  BY <1>1, <1>4, FS_Injection

\* A part has no more bytes than the whole.
LEMMA SpanIsSmaller ==
  ASSUME NEW S, NEW text \in Seq(S), NEW a \in 1 .. Len(text), NEW b \in a - 1 .. Len(text)
  PROVE  Size(SubSeq(text, a, b)) <= Size(text)
<1>1. PICK part : part = SubSeq(text, a, b)
  OBVIOUS
<1>2. /\ part \in Seq(S) /\ Len(part) = b - a + 1
      /\ \A i \in 1 .. b - a + 1 : part[i] = text[i + a - 1] /\ i + a - 1 \in 1 .. Len(text)
  BY <1>1, Span
<1>3. Len(text) \in Nat /\ DOMAIN text = 1 .. Len(text) /\ DOMAIN part = 1 .. Len(part)
  BY <1>2, TextShape
<1>4. ASSUME NEW i \in Wides(part)
      PROVE  i + (a - 1) \in Wides(text)
  <2>1. i \in 1 .. b - a + 1 /\ part[i] = Wide
    BY <1>2, <1>3 DEF Wides
  <2>2. text[i + a - 1] = Wide /\ i + a - 1 \in 1 .. Len(text) /\ i + (a - 1) = i + a - 1
    BY <1>2, <1>3, <2>1
  <2> QED
    BY <1>3, <2>2 DEF Wides
<1>5. a - 1 \in Int
  BY <1>3
<1>6. Cardinality(Wides(part)) <= Cardinality(Wides(text))
  BY <1>2, <1>4, <1>5, WidesShift
<1>7. /\ Size(part) = Len(part) + Cardinality(Wides(part)) /\ Cardinality(Wides(part)) \in Nat
      /\ Size(text) = Len(text) + Cardinality(Wides(text)) /\ Cardinality(Wides(text)) \in Nat
  BY <1>2, SizeIs
<1> QED
  BY <1>1, <1>2, <1>3, <1>6, <1>7

LEMMA EmptySize ==
  ASSUME NEW S, NEW text \in Seq(S), Len(text) = 0
  PROVE  Size(text) = 0
<1>1. Wides(text) = {}
  <2>1. Wides(text) \subseteq 1 .. Len(text)
    BY SizeIs
  <2> QED
    BY <2>1
<1>2. Size(text) = Len(text) + Cardinality(Wides(text))
  BY SizeIs
<1> QED
  BY <1>1, <1>2, FS_EmptySet

\* What is left of the front of a text when its bytes are cut.
LEMMA FirstBytesFacts ==
  ASSUME NEW S, NEW text \in Seq(S), NEW n \in Nat
  PROVE  /\ FirstBytes(text, n) \in Seq(S) /\ Len(FirstBytes(text, n)) <= Len(text)
         /\ \A i \in 1 .. Len(FirstBytes(text, n)) : FirstBytes(text, n)[i] = text[i]
         /\ Size(FirstBytes(text, n)) <= n
         /\ n >= 2 /\ Len(text) > 0 => Len(FirstBytes(text, n)) > 0
<1> DEFINE fits == {k \in 0 .. Len(text) : Size(SubSeq(text, 1, k)) <= n}
<1>1. Len(text) \in Nat
  BY TextShape
<1>2. \A k \in 0 .. Len(text) :
         /\ SubSeq(text, 1, k) \in Seq(S) /\ Len(SubSeq(text, 1, k)) = k
         /\ \A i \in 1 .. k : SubSeq(text, 1, k)[i] = text[i]
  BY <1>1
<1>3. 0 \in fits
  <2>1. PICK none : none = SubSeq(text, 1, 0)
    OBVIOUS
  <2>2. none \in Seq(S) /\ Len(none) = 0
    BY <1>1, <1>2, <2>1
  <2>3. Size(none) = 0
    BY <2>2, EmptySize
  <2> QED
    BY <1>1, <2>1, <2>3
<1>4. ASSUME n >= 2, Len(text) > 0
      PROVE  1 \in fits
  <2>1. PICK one : one = SubSeq(text, 1, 1)
    OBVIOUS
  <2>2. one \in Seq(S) /\ Len(one) = 1
    BY <1>1, <1>2, <1>4, <2>1
  <2>3. /\ Wides(one) \subseteq 1 .. Len(one) /\ Cardinality(Wides(one)) \in Nat
        /\ Size(one) = Len(one) + Cardinality(Wides(one))
    BY <2>2, SizeIs
  <2>4. Wides(one) \in SUBSET {1}
    BY <2>2, <2>3
  <2>5. IsFiniteSet({1}) /\ Cardinality({1}) = 1
    BY FS_Singleton
  <2>6. Cardinality(Wides(one)) <= 1
    BY <2>4, <2>5, FS_Subset
  <2> QED
    BY <1>1, <1>4, <2>1, <2>2, <2>3, <2>6
<1>5. /\ Max(fits) \in fits
      /\ (n >= 2 /\ Len(text) > 0 => Max(fits) > 0)
  <2>1. fits \in SUBSET Nat /\ \A k \in fits : k <= Len(text)
    BY <1>1
  <2> HIDE DEF fits
  <2>2. PICK x \in fits : \A y \in fits : y <= x
    BY <1>1, <1>3, <2>1, GreatestOf
  <2>3. \A y \in fits : x >= y
    BY <2>1, <2>2
  <2>4. Max(fits) \in fits /\ \A y \in fits : Max(fits) >= y
    BY <2>3 DEF Max
  <2>5. ASSUME n >= 2, Len(text) > 0 PROVE Max(fits) > 0
    <3>1. PICK m : m = Max(fits)
      OBVIOUS
    <3>2. m \in Nat /\ m >= 1
      BY <1>4, <2>1, <2>4, <2>5, <3>1
    <3> QED
      BY <3>1, <3>2
  <2> QED
    BY <2>4, <2>5
<1>6. FirstBytes(text, n) = SubSeq(text, 1, Max(fits))
  BY DEF FirstBytes
<1>7. PICK k \in 0 .. Len(text) :
           /\ k = Max(fits) /\ Size(SubSeq(text, 1, k)) <= n
           /\ n >= 2 /\ Len(text) > 0 => k > 0
  BY <1>5
<1>8. PICK part : part = FirstBytes(text, n) /\ part = SubSeq(text, 1, k)
  BY <1>6, <1>7
<1>9. part \in Seq(S) /\ Len(part) = k /\ \A i \in 1 .. k : part[i] = text[i]
  BY <1>2, <1>8
<1>10. \A i \in 1 .. Len(part) : part[i] = text[i]
  BY <1>9
<1>11. Size(part) <= n
  BY <1>7, <1>8
<1>12. n >= 2 /\ Len(text) > 0 => Len(part) > 0
  BY <1>7, <1>9
<1>13. Len(part) <= Len(text)
  BY <1>1, <1>9
<1> QED
  BY <1>8, <1>9, <1>10, <1>11, <1>12, <1>13

\* Strip takes the part from the first character that may be at an end to the last.
LEMMA StripSpan ==
  ASSUME NEW S, NEW text \in Seq(S)
  PROVE  \/ Strip(text) = << >> /\ \A i \in 1 .. Len(text) : text[i] \in Edges
         \/ \E a \in 1 .. Len(text), b \in 1 .. Len(text) :
               /\ a <= b /\ text[a] \notin Edges /\ text[b] \notin Edges
               /\ \A i \in 1 .. Len(text) : text[i] \notin Edges => a <= i /\ i <= b
               /\ Strip(text) = SubSeq(text, a, b)
<1> DEFINE kept == {i \in DOMAIN text : text[i] \notin Edges}
<1>1. Len(text) \in Nat /\ DOMAIN text = 1 .. Len(text)
  BY TextShape
<1>2. kept \in SUBSET Nat /\ kept \subseteq 1 .. Len(text)
  BY <1>1
<1>3. CASE kept = {}
  BY <1>1, <1>3 DEF Strip
<1>4. CASE kept # {}
  <2>1. Strip(text) = SubSeq(text, Min(kept), Max(kept))
    BY <1>4 DEF Strip
  <2>2. \A i \in 1 .. Len(text) : i \in kept <=> text[i] \notin Edges
    BY <1>1
  <2> HIDE DEF kept
  <2>3. PICK a \in kept : \A n \in kept : a <= n
    BY <1>2, <1>4, LeastOf
  <2>4. Min(kept) \in kept /\ \A n \in kept : Min(kept) <= n
    <3>1. \A n \in kept : a =< n
      BY <2>3
    <3> QED
      BY <3>1 DEF Min
  <2>5. PICK b \in kept : \A n \in kept : n <= b
    <3>1. \A n \in kept : n <= Len(text)
      BY <1>1, <1>2
    <3> QED
      BY <1>1, <1>2, <1>4, <3>1, GreatestOf
  <2>6. Max(kept) \in kept /\ \A n \in kept : Max(kept) >= n
    <3>1. \A n \in kept : b >= n
      BY <1>2, <2>5
    <3> QED
      BY <3>1 DEF Max
  <2>7. PICK low, high : low = Min(kept) /\ high = Max(kept)
    OBVIOUS
  <2>8. /\ low \in 1 .. Len(text) /\ high \in 1 .. Len(text) /\ low <= high
        /\ text[low] \notin Edges /\ text[high] \notin Edges
        /\ \A i \in 1 .. Len(text) : text[i] \notin Edges => low <= i /\ i <= high
        /\ Strip(text) = SubSeq(text, low, high)
    BY <1>2, <2>1, <2>2, <2>4, <2>6, <2>7
  <2> QED
    BY <2>8
<1> QED
  BY <1>3, <1>4

\* No space or dot is at an end.
Trimmed(text) == text = << >> \/ (text[1] \notin Edges /\ text[Len(text)] \notin Edges)

\* Strip trims, and adds nothing.
LEMMA StripFacts ==
  ASSUME NEW S, NEW text \in Seq(S)
  PROVE  /\ Strip(text) \in Seq(S) /\ Trimmed(Strip(text))
         /\ Single(text) => Single(Strip(text))
         /\ Size(Strip(text)) <= Size(text)
<1>1. Len(text) \in Nat /\ DOMAIN text = 1 .. Len(text)
  BY TextShape
<1>2. CASE Strip(text) = << >>
  <2>1. PICK none : none = Strip(text)
    OBVIOUS
  <2>2. none \in Seq(S) /\ Len(none) = 0
    BY <1>2, <2>1
  <2>3. Wides(none) = {}
    <3>1. Wides(none) \subseteq 1 .. Len(none)
      BY <2>2, SizeIs
    <3> QED
      BY <2>2, <3>1
  <2>4. Size(none) = Len(none) + Cardinality(Wides(none)) /\ Size(text) \in Nat
    BY <2>2, SizeIs
  <2>5. Size(none) <= Size(text)
    BY <2>2, <2>3, <2>4, FS_EmptySet
  <2>6. Single(none)
    BY <2>2 DEF Single
  <2> QED
    BY <1>2, <2>1, <2>2, <2>5, <2>6 DEF Trimmed
<1>3. ASSUME NEW a \in 1 .. Len(text), NEW b \in 1 .. Len(text), a <= b,
             text[a] \notin Edges, text[b] \notin Edges, Strip(text) = SubSeq(text, a, b)
      PROVE  /\ Strip(text) \in Seq(S) /\ Trimmed(Strip(text))
             /\ Single(text) => Single(Strip(text))
             /\ Size(Strip(text)) <= Size(text)
  <2>1. PICK part : part = SubSeq(text, a, b)
    OBVIOUS
  <2>2. b \in a - 1 .. Len(text) /\ a \in Nat /\ b \in Nat
    BY <1>1, <1>3
  <2>3. /\ part \in Seq(S) /\ Len(part) = b - a + 1
        /\ \A i \in 1 .. b - a + 1 : part[i] = text[i + a - 1] /\ i + a - 1 \in 1 .. Len(text)
    BY <2>1, <2>2, Span
  <2>4. Size(part) <= Size(text)
    BY <2>1, <2>2, SpanIsSmaller
  <2>5. part[1] = text[a] /\ part[Len(part)] = text[b]
    <3>1. 1 \in 1 .. b - a + 1 /\ b - a + 1 \in 1 .. b - a + 1
          /\ 1 + a - 1 = a /\ (b - a + 1) + a - 1 = b
      BY <1>3, <2>2
    <3> QED
      BY <2>3, <3>1
  <2>6. ASSUME Single(text), NEW i \in 1 .. Len(part) - 1
        PROVE  ~(part[i] = Space /\ part[i + 1] = Space)
    <3>1. /\ i \in 1 .. b - a + 1 /\ i + 1 \in 1 .. b - a + 1
          /\ (i + 1) + a - 1 = (i + a - 1) + 1
      BY <2>2, <2>3
    <3>2. /\ part[i] = text[i + a - 1] /\ part[i + 1] = text[(i + a - 1) + 1]
          /\ i + a - 1 \in 1 .. Len(text) /\ (i + a - 1) + 1 \in 1 .. Len(text)
      BY <2>3, <3>1
    <3>3. i + a - 1 \in 1 .. Len(text) - 1
      BY <1>1, <3>2
    <3> QED
      BY <2>6, <3>2, <3>3 DEF Single
  <2> QED
    BY <1>3, <2>1, <2>3, <2>4, <2>5, <2>6 DEF Trimmed, Single
<1> QED
  BY <1>2, <1>3, StripSpan

\* A text with no space or dot at its front loses nothing there, up to any other
\* character that may be at an end.
LEMMA StripKeeps ==
  ASSUME NEW S, NEW text \in Seq(S), Len(text) > 0, text[1] \notin Edges
  PROVE  /\ Len(Strip(text)) \in 1 .. Len(text)
         /\ \A i \in 1 .. Len(Strip(text)) : Strip(text)[i] = text[i]
         /\ \A k \in 1 .. Len(text) : text[k] \notin Edges => k <= Len(Strip(text))
<1>1. Len(text) \in Nat /\ 1 \in 1 .. Len(text)
  BY TextShape
<1>2. PICK a \in 1 .. Len(text), b \in 1 .. Len(text) :
            /\ a <= b /\ text[a] \notin Edges /\ text[b] \notin Edges
            /\ \A i \in 1 .. Len(text) : text[i] \notin Edges => a <= i /\ i <= b
            /\ Strip(text) = SubSeq(text, a, b)
  BY <1>1, StripSpan
<1>3. a = 1 /\ b \in Nat /\ b >= 1
  BY <1>1, <1>2
<1>4. PICK part : part = SubSeq(text, a, b)
  OBVIOUS
<1>5. /\ Len(part) = b - a + 1
      /\ \A i \in 1 .. b - a + 1 : part[i] = text[i + a - 1] /\ i + a - 1 \in 1 .. Len(text)
  <2>1. b \in a - 1 .. Len(text)
    BY <1>1, <1>3
  <2> QED
    BY <1>4, <2>1, Span
<1>6. Len(part) = b /\ \A i \in 1 .. b : part[i] = text[i]
  <2>1. \A i \in 1 .. b : i + a - 1 = i /\ i \in 1 .. b - a + 1
    BY <1>3
  <2>2. b - a + 1 = b
    BY <1>3
  <2> QED
    BY <1>5, <2>1, <2>2
<1> QED
  BY <1>1, <1>2, <1>3, <1>4, <1>6

---------------------------------------------------------------------------
(* Clean texts                                                             *)

\* What Sanitize returns.
Clean(text) == text \in Seq(LegalChars) /\ Single(text) /\ Trimmed(text)

LEMMA LegalSeqs ==
  ASSUME NEW text \in Seq(LegalChars)
  PROVE  text \in Seq(NoColon) /\ text \in Seq(Chars)
<1>1. LegalChars \subseteq NoColon /\ LegalChars \subseteq Chars
  BY DEF LegalChars, NoColon
<1> QED
  BY <1>1

LEMMA SanitizeIsClean ==
  ASSUME NEW text \in Seq(Chars), NEW mode
  PROVE  Clean(Sanitize(text, mode))
<1>1. RemoveIllegal(ReplaceColons(text, mode)) \in Seq(LegalChars)
  BY ColonsGo, IllegalGoes
<1>2. /\ Collapse(RemoveIllegal(ReplaceColons(text, mode))) \in Seq(LegalChars)
      /\ Single(Collapse(RemoveIllegal(ReplaceColons(text, mode))))
  BY <1>1, CollapseIsSingle
<1> QED
  BY <1>2, StripFacts DEF Sanitize, Clean

\* Sanitizing the front of a clean text only trims it, and never to nothing.
LEMMA SanitizeKeeps ==
  ASSUME NEW text, Clean(text), NEW part \in Seq(LegalChars), NEW mode,
         Len(part) <= Len(text), \A i \in 1 .. Len(part) : part[i] = text[i]
  PROVE  /\ Clean(Sanitize(part, mode))
         /\ Len(Sanitize(part, mode)) <= Len(text)
         /\ \A i \in 1 .. Len(Sanitize(part, mode)) : Sanitize(part, mode)[i] = text[i]
         /\ Len(part) > 0 => Len(Sanitize(part, mode)) > 0
<1>1. text \in Seq(LegalChars) /\ Len(text) \in Nat /\ Len(part) \in Nat
  BY TextShape DEF Clean
<1>2. part \in Seq(NoColon) /\ part \in Seq(Chars)
  BY LegalSeqs
<1>3. Clean(Sanitize(part, mode))
  BY <1>2, SanitizeIsClean
<1>4. RemoveIllegal(ReplaceColons(part, mode)) = part
  BY <1>2, ColonsGo, IllegalGoes
<1>5. Collapse(part) = part
  <2>1. ASSUME NEW i \in 2 .. Len(part)
        PROVE  ~(part[i] = Space /\ part[i - 1] = Space)
    <3>1. /\ i \in 1 .. Len(part) /\ i - 1 \in 1 .. Len(part) /\ (i - 1) + 1 = i
          /\ i - 1 \in 1 .. Len(text) - 1
      BY <1>1
    <3>2. part[i] = text[i] /\ part[i - 1] = text[i - 1]
      BY <3>1
    <3>3. ~(text[i - 1] = Space /\ text[(i - 1) + 1] = Space)
      BY <3>1 DEF Clean, Single
    <3> QED
      BY <3>1, <3>2, <3>3
  <2>2. NoRun(part, Len(part)) /\ Len(part) \in 0 .. Len(part)
    BY <1>1, <2>1 DEF NoRun
  <2> QED
    BY <2>2, CollapseKeeps
<1>6. Sanitize(part, mode) = Strip(part)
  BY <1>4, <1>5 DEF Sanitize
<1>7. CASE Len(part) = 0
  <2>1. part = << >>
    BY <1>7
  <2>2. \/ Strip(part) = << >>
        \/ \E a \in 1 .. Len(part) : TRUE
    BY StripSpan
  <2>3. Strip(part) = << >>
    BY <1>7, <2>2
  <2> QED
    BY <1>1, <1>3, <1>6, <1>7, <2>3
<1>8. CASE Len(part) > 0
  <2>1. part[1] \notin Edges
    <3>1. 1 \in 1 .. Len(part) /\ text # << >>
      BY <1>1, <1>8
    <3> QED
      BY <3>1 DEF Clean, Trimmed
  <2>2. /\ Len(Strip(part)) \in 1 .. Len(part)
        /\ \A i \in 1 .. Len(Strip(part)) : Strip(part)[i] = part[i]
    BY <1>8, <2>1, StripKeeps
  <2>3. /\ Len(Strip(part)) <= Len(text) /\ Len(Strip(part)) > 0
        /\ \A i \in 1 .. Len(Strip(part)) : i \in 1 .. Len(part)
    BY <1>1, <2>2
  <2>4. \A i \in 1 .. Len(Strip(part)) : Strip(part)[i] = text[i]
    BY <2>2, <2>3
  <2> QED
    BY <1>3, <1>6, <2>3, <2>4
<1> QED
  BY <1>1, <1>7, <1>8

\* A prefix, place by place.
LEMMA PrefixIs ==
  ASSUME NEW S, NEW s \in Seq(S), NEW t \in Seq(S)
  PROVE  IsPrefix(s, t) <=> Len(s) <= Len(t) /\ \A i \in 1 .. Len(s) : s[i] = t[i]
<1>1. Len(s) \in Nat /\ Len(t) \in Nat
  BY TextShape
<1>2. CASE ~(Len(s) <= Len(t))
  BY <1>2 DEF IsPrefix
<1>3. CASE Len(s) <= Len(t)
  <2>1. PICK front, whole : front = SubSeq(t, 1, Len(s)) /\ whole = SubSeq(s, 1, Len(s))
    OBVIOUS
  <2>2. /\ front \in Seq(S) /\ Len(front) = Len(s) /\ \A i \in 1 .. Len(s) : front[i] = t[i]
        /\ whole \in Seq(S) /\ Len(whole) = Len(s) /\ \A i \in 1 .. Len(s) : whole[i] = s[i]
    BY <1>1, <1>3, <2>1
  <2>3. whole = front <=> \A i \in 1 .. Len(s) : s[i] = t[i]
    BY <2>2
  <2> QED
    BY <1>3, <2>1, <2>3 DEF IsPrefix
<1> QED
  BY <1>2, <1>3

---------------------------------------------------------------------------
(* What a template renders                                                 *)

\* Two, three and five texts, one after the other.
LEMMA ThenIs ==
  ASSUME NEW S, NEW x \in Seq(S), NEW y \in Seq(S)
  PROVE  Then(x, y) \in Seq(S) /\ Joined(x, y, Then(x, y)) /\ Then(<< >>, y) = y
  BY DEF Then, Joined

LEMMA FlattenOne ==
  ASSUME NEW S, NEW a \in Seq(S)
  PROVE  FlattenSeq(<<a>>) = a
<1>1. PICK ss : ss = <<a>>
  OBVIOUS
<1>2. ss \in Seq(Seq(S)) /\ Len(ss) = 1 /\ ss[1] = a
  BY <1>1
<1>3. PICK f : Appends(f, ss, 1, S) /\ FlattenSeq(ss) = f[1]
  BY <1>2, FlattenSteps
<1>4. f[0] = << >> /\ f[1] = Then(f[0], a)
  BY <1>2, <1>3 DEF Appends
<1> QED
  BY <1>1, <1>3, <1>4, ThenIs

LEMMA FlattenTwo ==
  ASSUME NEW S, NEW a \in Seq(S), NEW b \in Seq(S)
  PROVE  FlattenSeq(<<a, b>>) = Then(a, b)
<1>1. PICK ss : ss = <<a, b>>
  OBVIOUS
<1>2. ss \in Seq(Seq(S)) /\ Len(ss) = 2 /\ ss[1] = a /\ ss[2] = b
  BY <1>1
<1>3. PICK f : Appends(f, ss, 2, S) /\ FlattenSeq(ss) = f[2]
  BY <1>2, FlattenSteps
<1>4. f[0] = << >> /\ f[1] = Then(f[0], a) /\ f[2] = Then(f[1], b)
  BY <1>2, <1>3 DEF Appends
<1> QED
  BY <1>1, <1>3, <1>4, ThenIs

LEMMA FlattenThree ==
  ASSUME NEW S, NEW a \in Seq(S), NEW b \in Seq(S), NEW c \in Seq(S)
  PROVE  FlattenSeq(<<a, b, c>>) = Then(Then(a, b), c)
<1>1. PICK ss : ss = <<a, b, c>>
  OBVIOUS
<1>2. ss \in Seq(Seq(S)) /\ Len(ss) = 3 /\ ss[1] = a /\ ss[2] = b /\ ss[3] = c
  BY <1>1
<1>3. PICK f : Appends(f, ss, 3, S) /\ FlattenSeq(ss) = f[3]
  BY <1>2, FlattenSteps
<1>4. f[0] = << >> /\ f[1] = Then(f[0], a) /\ f[2] = Then(f[1], b) /\ f[3] = Then(f[2], c)
  BY <1>2, <1>3 DEF Appends
<1> QED
  BY <1>1, <1>3, <1>4, ThenIs

LEMMA FlattenFive ==
  ASSUME NEW S, NEW a \in Seq(S), NEW b \in Seq(S), NEW c \in Seq(S), NEW d \in Seq(S),
         NEW e \in Seq(S)
  PROVE  FlattenSeq(<<a, b, c, d, e>>) = Then(Then(Then(Then(a, b), c), d), e)
<1>1. PICK ss : ss = <<a, b, c, d, e>>
  OBVIOUS
<1>2. /\ ss \in Seq(Seq(S)) /\ Len(ss) = 5
      /\ ss[1] = a /\ ss[2] = b /\ ss[3] = c /\ ss[4] = d /\ ss[5] = e
  BY <1>1
<1>3. PICK f : Appends(f, ss, 5, S) /\ FlattenSeq(ss) = f[5]
  BY <1>2, FlattenSteps
<1>4. /\ f[0] = << >> /\ f[1] = Then(f[0], a) /\ f[2] = Then(f[1], b) /\ f[3] = Then(f[2], c)
      /\ f[4] = Then(f[3], d) /\ f[5] = Then(f[4], e)
  BY <1>2, <1>3 DEF Appends
<1> QED
  BY <1>1, <1>3, <1>4, ThenIs

\* The two templates, with their values in place.
EpisodeText(t, e) == Then(Then(Then(Then(t, <<Space>>), <<"-">>), <<Space>>), e)
MovieText(t, e)   == Then(Then(t, <<Space>>),
                          IF e = << >> THEN << >> ELSE Then(Then(<<"[">>, e), <<"]">>))

LEMMA MarksAreLegal ==
  {Space, "-", "[", "]"} \subseteq LegalChars
<1>1. {Space, "-", "[", "]"} \subseteq Chars
  BY DEF Chars, Edges
<1>2. \A c \in {Space, "-", "[", "]"} : c # Colon /\ c \notin Illegal
  BY DEF Space, Colon, Illegal
<1> QED
  BY <1>1, <1>2 DEF LegalChars, NoColon

\* Rendering a template is trimming its text, for both of them.
LEMMA EpisodeRender ==
  ASSUME NEW t \in Seq(LegalChars), NEW e \in Seq(LegalChars)
  PROVE  /\ Render(EpisodeFile, TitleValues(t, e)) = Strip(Collapse(EpisodeText(t, e)))
         /\ EpisodeText(t, e) \in Seq(LegalChars)
<1> DEFINE v == TitleValues(t, e)
           piece == Plain(<<"Title", Space, "-", Space, "Episode Title">>)
<1>1. /\ ItemText("Title", v) = t /\ ItemText("Episode Title", v) = e
      /\ ItemText(Space, v) = <<Space>> /\ ItemText("-", v) = <<"-">>
  BY DEF ItemText, TitleValues, Space
<1>2. PieceText(piece, v) = FlattenSeq(<<t, <<Space>>, <<"-">>, <<Space>>, e>>)
  <2>1. piece.bracket = FALSE /\ piece.items = <<"Title", Space, "-", Space, "Episode Title">>
    BY DEF Plain
  <2>2. [i \in DOMAIN piece.items |-> ItemText(piece.items[i], v)]
          = <<t, <<Space>>, <<"-">>, <<Space>>, e>>
    <3> DEFINE list == <<"Title", Space, "-", Space, "Episode Title">>
               g == [i \in DOMAIN list |-> ItemText(list[i], v)]
    <3>1. /\ DOMAIN list = 1 .. 5 /\ list[1] = "Title" /\ list[2] = Space /\ list[3] = "-"
          /\ list[4] = Space /\ list[5] = "Episode Title"
      OBVIOUS
    <3> HIDE DEF list, v
    <3>0. g = [i \in 1 .. 5 |-> ItemText(list[i], v)]
      BY <3>1
    <3>2. /\ g = [i \in 1 .. 5 |-> g[i]]
          /\ g[1] = t /\ g[2] = <<Space>> /\ g[3] = <<"-">> /\ g[4] = <<Space>> /\ g[5] = e
      <4> HIDE DEF g
      <4>1. \A i \in 1 .. 5 : g[i] = ItemText(list[i], v)
        BY <3>0
      <4>2. g = [i \in 1 .. 5 |-> g[i]]
        BY <3>0
      <4>a. g[1] = ItemText(list[1], v) /\ g[2] = ItemText(list[2], v) /\ g[3] = ItemText(list[3], v)
        BY <4>1
      <4>b. g[4] = ItemText(list[4], v) /\ g[5] = ItemText(list[5], v)
        BY <4>1
      <4>3. /\ g[1] = ItemText("Title", v) /\ g[2] = ItemText(Space, v) /\ g[3] = ItemText("-", v)
            /\ g[4] = ItemText(Space, v) /\ g[5] = ItemText("Episode Title", v)
        BY <3>1, <4>a, <4>b
      <4> QED
        BY <1>1, <4>2, <4>3
    <3> HIDE DEF g
    <3>3. \A a, b : g[2] = a /\ g[3] = b /\ g[4] = a => g = <<t, a, b, a, e>>
      BY <3>2
    <3>4. g = <<t, <<Space>>, <<"-">>, <<Space>>, e>>
      BY <3>2, <3>3
    <3> QED
      BY <2>1, <3>4 DEF g, list
  <2> QED
    BY <2>1, <2>2 DEF PieceText, Dropped
<1>3. PieceText(piece, v) = EpisodeText(t, e) /\ EpisodeText(t, e) \in Seq(LegalChars)
  <2>1. PICK a, b : a = <<Space>> /\ b = <<"-">>
    OBVIOUS
  <2>2. a \in Seq(LegalChars) /\ b \in Seq(LegalChars)
    BY <2>1, MarksAreLegal, OneSeq
  <2>3. FlattenSeq(<<t, a, b, a, e>>) = Then(Then(Then(Then(t, a), b), a), e)
    BY <2>2, FlattenFive
  <2>4. Then(Then(Then(Then(t, a), b), a), e) \in Seq(LegalChars)
    BY <2>2, ThenIs
  <2> QED
    BY <1>2, <2>1, <2>3, <2>4 DEF EpisodeText
<1> HIDE DEF piece, v
<1>4. [i \in DOMAIN <<piece>> |-> PieceText(<<piece>>[i], v)] = <<PieceText(piece, v)>>
  OBVIOUS
<1>5. Render(<<piece>>, v) = Strip(Collapse(FlattenSeq(<<PieceText(piece, v)>>)))
  BY <1>4 DEF Render
<1>6. FlattenSeq(<<PieceText(piece, v)>>) = EpisodeText(t, e)
  BY <1>3, FlattenOne
<1> QED
  BY <1>3, <1>5, <1>6 DEF EpisodeFile, piece, v

LEMMA MovieRender ==
  ASSUME NEW t \in Seq(LegalChars), NEW e \in Seq(LegalChars)
  PROVE  /\ Render(MovieFolder, TitleValues(t, e)) = Strip(Collapse(MovieText(t, e)))
         /\ MovieText(t, e) \in Seq(LegalChars)
<1> DEFINE v == TitleValues(t, e)
           head == Plain(<<"Title", Space>>)
           tail == Bracket(<<"[", "Episode Title", "]">>)
<1>1. /\ ItemText("Title", v) = t /\ ItemText("Episode Title", v) = e
      /\ ItemText(Space, v) = <<Space>> /\ ItemText("[", v) = <<"[">> /\ ItemText("]", v) = <<"]">>
  BY DEF ItemText, TitleValues, Space
<1>2. PieceText(head, v) = FlattenSeq(<<t, <<Space>>>>)
  <2>1. head.bracket = FALSE /\ head.items = <<"Title", Space>>
    BY DEF Plain
  <2>2. [i \in DOMAIN head.items |-> ItemText(head.items[i], v)] = <<t, <<Space>>>>
    <3> DEFINE list == <<"Title", Space>>
               g == [i \in DOMAIN list |-> ItemText(list[i], v)]
    <3>1. DOMAIN list = 1 .. 2 /\ list[1] = "Title" /\ list[2] = Space
      OBVIOUS
    <3> HIDE DEF list, v
    <3>0. g = [i \in 1 .. 2 |-> ItemText(list[i], v)]
      BY <3>1
    <3>2. g = [i \in 1 .. 2 |-> g[i]] /\ g[1] = t /\ g[2] = <<Space>>
      <4> HIDE DEF g
      <4>1. \A i \in 1 .. 2 : g[i] = ItemText(list[i], v)
        BY <3>0
      <4>2. g = [i \in 1 .. 2 |-> g[i]]
        BY <3>0
      <4>3. g[1] = ItemText(list[1], v) /\ g[2] = ItemText(list[2], v)
        BY <4>1
      <4>4. g[1] = ItemText("Title", v) /\ g[2] = ItemText(Space, v)
        BY <3>1, <4>3
      <4> QED
        BY <1>1, <4>2, <4>4
    <3> HIDE DEF g
    <3>3. \A a : g[2] = a => g = <<t, a>>
      BY <3>2
    <3> QED
      BY <2>1, <3>2, <3>3 DEF g, list
  <2> QED
    BY <2>1, <2>2 DEF PieceText, Dropped
<1>3. /\ tail.bracket = TRUE /\ tail.items = <<"[", "Episode Title", "]">>
      /\ [i \in DOMAIN tail.items |-> ItemText(tail.items[i], v)] = <<<<"[">>, e, <<"]">>>>
      /\ Dropped(tail, v) <=> e = << >>
  <2>1. tail.bracket = TRUE /\ tail.items = <<"[", "Episode Title", "]">>
    BY DEF Bracket
  <2> DEFINE list == <<"[", "Episode Title", "]">>
             g == [i \in DOMAIN list |-> ItemText(list[i], v)]
  <2>2. DOMAIN list = 1 .. 3 /\ list[1] = "[" /\ list[2] = "Episode Title" /\ list[3] = "]"
    OBVIOUS
  <2> HIDE DEF list, v
  <2>3. g = [i \in 1 .. 3 |-> ItemText(list[i], v)]
    BY <2>2
  <2>4. g = [i \in 1 .. 3 |-> g[i]] /\ g[1] = <<"[">> /\ g[2] = e /\ g[3] = <<"]">>
    <3> HIDE DEF g
    <3>1. \A i \in 1 .. 3 : g[i] = ItemText(list[i], v)
      BY <2>3
    <3>2. g = [i \in 1 .. 3 |-> g[i]]
      BY <2>3
    <3>3. g[1] = ItemText(list[1], v) /\ g[2] = ItemText(list[2], v) /\ g[3] = ItemText(list[3], v)
      BY <3>1
    <3>4. g[1] = ItemText("[", v) /\ g[2] = ItemText("Episode Title", v) /\ g[3] = ItemText("]", v)
      BY <2>2, <3>3
    <3> QED
      BY <1>1, <3>2, <3>4
  <2>5. (\E i \in DOMAIN list : ItemText(list[i], v) = << >>) <=> e = << >>
    <3>1. \A i \in 1 .. 3 : ItemText(list[i], v) = g[i]
      BY <2>3
    <3> HIDE DEF g
    <3>2. (\E i \in 1 .. 3 : g[i] = << >>) <=> e = << >>
      <4>1. <<"[">> # << >> /\ <<"]">> # << >>
        OBVIOUS
      <4>2. g[1] # << >> /\ g[2] = e /\ g[3] # << >>
        BY <4>1, <2>4
      <4>3. 1 .. 3 = {1, 2, 3}
        OBVIOUS
      <4> QED
        BY <4>2, <4>3
    <3> QED
      BY <2>2, <3>1, <3>2
  <2>6. g = <<<<"[">>, e, <<"]">>>>
    <3> HIDE DEF g
    <3>1. \A a, b : g[1] = a /\ g[3] = b => g = <<a, e, b>>
      BY <2>4
    <3> QED
      BY <2>4, <3>1
  <2>7. Dropped(tail, v) <=> e = << >>
    <3> HIDE DEF tail
    <3>1. tail.items = list
      BY <2>1 DEF list
    <3> QED
      BY <2>1, <2>5, <3>1 DEF Dropped
  <2>8. [i \in DOMAIN tail.items |-> ItemText(tail.items[i], v)] = g
    <3> HIDE DEF tail
    <3>1. tail.items = list
      BY <2>1 DEF list
    <3> QED
      BY <3>1 DEF g
  <2> QED
    BY <2>1, <2>6, <2>7, <2>8
<1>4. PICK a, b, c : a = <<Space>> /\ b = <<"[">> /\ c = <<"]">>
  OBVIOUS
<1>5. a \in Seq(LegalChars) /\ b \in Seq(LegalChars) /\ c \in Seq(LegalChars)
  BY <1>4, MarksAreLegal, OneSeq
<1> HIDE DEF head, tail, v
<1>6. PieceText(head, v) = Then(t, a)
  BY <1>2, <1>4, <1>5, FlattenTwo
<1>7. PieceText(tail, v) = IF e = << >> THEN << >> ELSE Then(Then(b, e), c)
  <2>1. FlattenSeq(<<b, e, c>>) = Then(Then(b, e), c)
    BY <1>5, FlattenThree
  <2>2. [i \in DOMAIN tail.items |-> ItemText(tail.items[i], v)] = <<b, e, c>>
    BY <1>3, <1>4
  <2> QED
    BY <1>3, <2>1, <2>2 DEF PieceText
<1>8. PieceText(head, v) \in Seq(LegalChars) /\ PieceText(tail, v) \in Seq(LegalChars)
  <2>1. Then(t, a) \in Seq(LegalChars) /\ Then(Then(b, e), c) \in Seq(LegalChars)
    BY <1>5, ThenIs
  <2>2. << >> \in Seq(LegalChars)
    OBVIOUS
  <2> QED
    BY <1>6, <1>7, <2>1, <2>2
<1>9. [i \in DOMAIN <<head, tail>> |-> PieceText(<<head, tail>>[i], v)]
        = <<PieceText(head, v), PieceText(tail, v)>>
  OBVIOUS
<1>10. Render(<<head, tail>>, v)
         = Strip(Collapse(FlattenSeq(<<PieceText(head, v), PieceText(tail, v)>>)))
  BY <1>9 DEF Render
<1>11. FlattenSeq(<<PieceText(head, v), PieceText(tail, v)>>)
         = Then(PieceText(head, v), PieceText(tail, v))
  BY <1>8, FlattenTwo
<1>12. Then(PieceText(head, v), PieceText(tail, v)) = MovieText(t, e)
  BY <1>4, <1>6, <1>7 DEF MovieText
<1>13. MovieText(t, e) \in Seq(LegalChars)
  BY <1>8, <1>12, ThenIs
<1> QED
  BY <1>10, <1>11, <1>12, <1>13 DEF MovieFolder, head, tail, v

\* How a template begins: the title, a space, and a mark.
Starts(text, t, mark) ==
    /\ Len(text) >= Len(t) + 2 /\ Len(t) \in Nat /\ Len(text) \in Nat
    /\ \A i \in 1 .. Len(t) : text[i] = t[i]
    /\ text[Len(t) + 1] = Space /\ text[Len(t) + 2] = mark

\* How the two templates begin, and what a folder's bracket holds.
LEMMA EpisodeStarts ==
  ASSUME NEW t \in Seq(LegalChars), NEW e \in Seq(LegalChars)
  PROVE  Starts(EpisodeText(t, e), t, "-")
<1>1. PICK a, b, dash : a = <<Space>> /\ b = <<dash>> /\ dash = "-"
  OBVIOUS
<1>2. /\ a \in Seq(LegalChars) /\ Len(a) = 1 /\ a[1] = Space
      /\ b \in Seq(LegalChars) /\ Len(b) = 1 /\ b[1] = dash
  BY <1>1, MarksAreLegal, OneSeq
<1>3. PICK x1, x2, x3, x4 : /\ x1 = Then(t, a) /\ x2 = Then(x1, b) /\ x3 = Then(x2, a)
                            /\ x4 = Then(x3, e)
  OBVIOUS
<1>4. x1 \in Seq(LegalChars) /\ Joined(t, a, x1)
  BY <1>2, <1>3, ThenIs
<1>5. x2 \in Seq(LegalChars) /\ Joined(x1, b, x2)
  BY <1>2, <1>3, <1>4, ThenIs
<1>6. x3 \in Seq(LegalChars) /\ Joined(x2, a, x3)
  BY <1>2, <1>3, <1>5, ThenIs
<1>7. x4 \in Seq(LegalChars) /\ Joined(x3, e, x4)
  BY <1>3, <1>6, ThenIs
<1>8. x4 = EpisodeText(t, e)
  BY <1>1, <1>3 DEF EpisodeText
<1>9. /\ Len(x1) = Len(t) + 1 /\ x1[Len(t) + 1] = Space /\ \A i \in 1 .. Len(t) : x1[i] = t[i]
      /\ Len(t) \in Nat
  BY <1>2, <1>4 DEF Joined
<1>10. /\ Len(x2) = Len(t) + 2 /\ x2[Len(t) + 2] = dash
       /\ \A i \in 1 .. Len(t) + 1 : x2[i] = x1[i]
  <2>1. x2[Len(x1) + 1] = dash /\ Len(x1) + 1 = Len(t) + 2
    BY <1>2, <1>5, <1>9 DEF Joined
  <2> QED
    BY <1>2, <1>5, <1>9, <2>1 DEF Joined
<1>11. Len(x3) = Len(t) + 3 /\ \A i \in 1 .. Len(t) + 2 : x3[i] = x2[i]
  BY <1>2, <1>6, <1>9, <1>10 DEF Joined
<1>12. /\ Len(x4) = Len(t) + 3 + Len(e) /\ Len(e) \in Nat
       /\ \A i \in 1 .. Len(t) + 3 : x4[i] = x3[i]
  BY <1>7, <1>9, <1>11 DEF Joined
<1>13. \A i \in 1 .. Len(t) + 2 : x4[i] = x2[i]
  BY <1>9, <1>11, <1>12
<1>14. /\ Len(t) + 2 \in 1 .. Len(t) + 2 /\ Len(t) + 1 \in 1 .. Len(t) + 2
       /\ Len(t) + 1 \in 1 .. Len(t) + 1
       /\ \A i \in 1 .. Len(t) : i \in 1 .. Len(t) + 2 /\ i \in 1 .. Len(t) + 1
  BY <1>9
<1>15. x4[Len(t) + 1] = Space /\ x4[Len(t) + 2] = dash
  BY <1>9, <1>10, <1>13, <1>14
<1>16. \A i \in 1 .. Len(t) : x4[i] = t[i]
  BY <1>9, <1>10, <1>13, <1>14
<1>17. Len(x4) >= Len(t) + 2 /\ Len(x4) \in Nat
  BY <1>9, <1>12
<1> QED
  BY <1>1, <1>8, <1>9, <1>15, <1>16, <1>17 DEF Starts

LEMMA MovieStarts ==
  ASSUME NEW t \in Seq(LegalChars), NEW e \in Seq(LegalChars), e # << >>
  PROVE  /\ Starts(MovieText(t, e), t, "[")
         /\ Len(MovieText(t, e)) = Len(t) + Len(e) + 3
         /\ \A i \in 1 .. Len(e) : MovieText(t, e)[Len(t) + 2 + i] = e[i]
         /\ MovieText(t, e)[Len(t) + Len(e) + 3] = "]"
<1>1. PICK a, b, c, open, close : /\ a = <<Space>> /\ b = <<open>> /\ c = <<close>>
                                  /\ open = "[" /\ close = "]"
  OBVIOUS
<1>2. /\ a \in Seq(LegalChars) /\ Len(a) = 1 /\ a[1] = Space
      /\ b \in Seq(LegalChars) /\ Len(b) = 1 /\ b[1] = open
      /\ c \in Seq(LegalChars) /\ Len(c) = 1 /\ c[1] = close
  BY <1>1, MarksAreLegal, OneSeq
<1>3. PICK x, y, z, w : x = Then(t, a) /\ y = Then(b, e) /\ z = Then(y, c) /\ w = Then(x, z)
  OBVIOUS
<1>4. x \in Seq(LegalChars) /\ Joined(t, a, x)
  BY <1>2, <1>3, ThenIs
<1>5. y \in Seq(LegalChars) /\ Joined(b, e, y)
  BY <1>2, <1>3, ThenIs
<1>6. z \in Seq(LegalChars) /\ Joined(y, c, z)
  BY <1>2, <1>3, <1>5, ThenIs
<1>7. w \in Seq(LegalChars) /\ Joined(x, z, w)
  BY <1>3, <1>4, <1>6, ThenIs
<1>8. w = MovieText(t, e)
  BY <1>1, <1>3 DEF MovieText
<1>9. /\ Len(x) = Len(t) + 1 /\ x[Len(t) + 1] = Space /\ \A i \in 1 .. Len(t) : x[i] = t[i]
      /\ Len(t) \in Nat /\ Len(e) \in Nat
  BY <1>2, <1>4, <1>5 DEF Joined
<1>10. Len(y) = Len(e) + 1 /\ y[1] = open /\ \A i \in 1 .. Len(e) : y[1 + i] = e[i]
  BY <1>2, <1>5, <1>9 DEF Joined
<1>11. /\ Len(z) = Len(e) + 2 /\ z[Len(e) + 2] = close
       /\ \A i \in 1 .. Len(e) + 1 : z[i] = y[i]
  <2>1. z[Len(y) + 1] = close /\ Len(y) + 1 = Len(e) + 2
    BY <1>2, <1>6, <1>9, <1>10 DEF Joined
  <2> QED
    BY <1>2, <1>6, <1>9, <1>10, <2>1 DEF Joined
<1>12. z[1] = open /\ \A i \in 1 .. Len(e) : z[1 + i] = e[i]
  <2>1. \A i \in 1 .. Len(e) : 1 + i \in 1 .. Len(e) + 1
    BY <1>9
  <2>2. 1 \in 1 .. Len(e) + 1
    BY <1>9
  <2> QED
    BY <1>10, <1>11, <2>1, <2>2
<1>13. /\ Len(w) = Len(t) + Len(e) + 3
       /\ \A i \in 1 .. Len(t) + 1 : w[i] = x[i]
       /\ \A i \in 1 .. Len(e) + 2 : w[Len(t) + 1 + i] = z[i]
  BY <1>7, <1>9, <1>11 DEF Joined
<1>14. \A i \in 1 .. Len(t) : w[i] = t[i]
  BY <1>9, <1>13
<1>15. w[Len(t) + 1] = Space
  <2>1. Len(t) + 1 \in 1 .. Len(t) + 1
    BY <1>9
  <2> QED
    BY <1>9, <1>13, <2>1
<1>16. w[Len(t) + 2] = open
  <2>1. 1 \in 1 .. Len(e) + 2 /\ Len(t) + 1 + 1 = Len(t) + 2
    BY <1>9
  <2>2. w[Len(t) + 1 + 1] = z[1]
    BY <1>13, <2>1
  <2> QED
    BY <1>12, <2>1, <2>2
<1>17. \A i \in 1 .. Len(e) : w[Len(t) + 2 + i] = e[i]
  <2>1. ASSUME NEW i \in 1 .. Len(e)
        PROVE  w[Len(t) + 2 + i] = e[i]
    <3>0. i \in Int
      OBVIOUS
    <3>1. 1 + i \in 1 .. Len(e) + 2 /\ Len(t) + 1 + (1 + i) = Len(t) + 2 + i
      BY <1>9, <3>0
    <3>2. w[Len(t) + 1 + (1 + i)] = z[1 + i]
      BY <1>13, <3>1
    <3> QED
      BY <1>12, <3>1, <3>2
  <2> QED
    BY <2>1
<1>18. w[Len(t) + Len(e) + 3] = close
  <2>1. Len(e) + 2 \in 1 .. Len(e) + 2 /\ Len(t) + 1 + (Len(e) + 2) = Len(t) + Len(e) + 3
    BY <1>9
  <2>2. w[Len(t) + 1 + (Len(e) + 2)] = z[Len(e) + 2]
    BY <1>13, <2>1
  <2> QED
    BY <1>11, <2>1, <2>2
<1>19. Len(w) >= Len(t) + 2 /\ Len(w) \in Nat
  BY <1>9, <1>13
<1> QED
  BY <1>1, <1>8, <1>9, <1>13, <1>14, <1>15, <1>16, <1>17, <1>18, <1>19 DEF Starts

LEMMA BareStarts ==
  ASSUME NEW t \in Seq(LegalChars)
  PROVE  /\ Len(MovieText(t, << >>)) = Len(t) + 1
         /\ \A i \in 1 .. Len(t) : MovieText(t, << >>)[i] = t[i]
         /\ MovieText(t, << >>)[Len(t) + 1] = Space
<1>1. PICK a : a = <<Space>>
  OBVIOUS
<1>2. a \in Seq(LegalChars) /\ Len(a) = 1 /\ a[1] = Space
  BY <1>1, MarksAreLegal, OneSeq
<1>3. PICK x, w : x = Then(t, a) /\ w = Then(x, << >>)
  OBVIOUS
<1>4. x \in Seq(LegalChars) /\ Joined(t, a, x)
  BY <1>2, <1>3, ThenIs
<1>5. << >> \in Seq(LegalChars) /\ Len(<< >>) = 0
  OBVIOUS
<1>6. Joined(x, << >>, w)
  BY <1>3, <1>4, <1>5, ThenIs
<1>7. w = MovieText(t, << >>)
  BY <1>1, <1>3 DEF MovieText
<1>8. /\ Len(x) = Len(t) + 1 /\ x[Len(t) + 1] = Space /\ \A i \in 1 .. Len(t) : x[i] = t[i]
      /\ Len(t) \in Nat
  BY <1>2, <1>4 DEF Joined
<1>9. Len(w) = Len(t) + 1 /\ \A i \in 1 .. Len(t) + 1 : w[i] = x[i]
  BY <1>5, <1>6, <1>8 DEF Joined
<1> QED
  BY <1>7, <1>8, <1>9

\* A template that begins with a clean title keeps it, and the mark after it.
LEMMA TitleIsKept ==
  ASSUME NEW t, Clean(t), NEW text \in Seq(LegalChars), Len(text) >= Len(t) + 1,
         \A i \in 1 .. Len(t) : text[i] = t[i]
  PROVE  /\ Clean(Strip(Collapse(text)))
         /\ IsPrefix(t, Strip(Collapse(text)))
<1>1. t \in Seq(LegalChars) /\ Single(t) /\ Trimmed(t)
  BY DEF Clean
<1>2. Len(t) \in Nat /\ Len(text) \in Nat /\ Len(t) \in 0 .. Len(text)
  BY <1>1, TextShape
<1>3. PICK whole, kept : whole = Collapse(text) /\ kept = Strip(whole)
  OBVIOUS
<1>4. whole \in Seq(LegalChars) /\ Single(whole)
  BY <1>3, CollapseIsSingle
<1>5. kept \in Seq(LegalChars) /\ Trimmed(kept) /\ Single(kept)
  BY <1>3, <1>4, StripFacts
<1>6. NoRun(text, Len(t))
  <2>1. ASSUME NEW i \in 2 .. Len(t)
        PROVE  ~(text[i] = Space /\ text[i - 1] = Space)
    <3>1. /\ i \in 1 .. Len(t) /\ i - 1 \in 1 .. Len(t) /\ i - 1 \in 1 .. Len(t) - 1
          /\ (i - 1) + 1 = i
      BY <1>2
    <3>2. ~(t[i - 1] = Space /\ t[(i - 1) + 1] = Space)
      BY <1>1, <3>1 DEF Single
    <3> QED
      BY <3>1, <3>2
  <2> QED
    BY <2>1 DEF NoRun
<1>7. Len(whole) >= Len(t) /\ \A i \in 1 .. Len(t) : whole[i] = text[i]
  BY <1>2, <1>3, <1>6, CollapseKeeps
<1>8. Len(kept) >= Len(t) /\ \A i \in 1 .. Len(t) : kept[i] = t[i]
  <2>1. CASE Len(t) = 0
    <3>1. Len(kept) \in Nat
      BY <1>5, TextShape
    <3> QED
      BY <2>1, <3>1
  <2>2. CASE Len(t) # 0
    <3>1. Len(whole) \in Nat /\ 1 \in 1 .. Len(t) /\ Len(t) \in 1 .. Len(t)
      BY <1>2, <1>4, <2>2, TextShape
    <3>2. t # << >>
      BY <2>2
    <3>3. t[1] \notin Edges /\ t[Len(t)] \notin Edges
      BY <1>1, <3>2 DEF Trimmed
    <3>4. whole[1] = t[1] /\ whole[Len(t)] = t[Len(t)]
      BY <1>7, <3>1
    <3>5. Len(whole) > 0 /\ whole[1] \notin Edges
      BY <1>2, <1>7, <2>2, <3>1, <3>3, <3>4
    <3>6. /\ Len(kept) \in 1 .. Len(whole)
          /\ \A i \in 1 .. Len(kept) : kept[i] = whole[i]
          /\ \A k \in 1 .. Len(whole) : whole[k] \notin Edges => k <= Len(kept)
      BY <1>3, <1>4, <3>5, StripKeeps
    <3>7. Len(t) <= Len(kept)
      <4>1. Len(t) \in 1 .. Len(whole)
        BY <1>2, <1>7, <2>2, <3>1
      <4> QED
        BY <3>3, <3>4, <3>6, <4>1
    <3>8. \A i \in 1 .. Len(t) : i \in 1 .. Len(kept)
      BY <1>2, <3>1, <3>6, <3>7
    <3> QED
      BY <1>7, <3>6, <3>7, <3>8
  <2> QED
    BY <2>1, <2>2
<1>9. IsPrefix(t, kept)
  BY <1>1, <1>5, <1>8, PrefixIs
<1> QED
  BY <1>3, <1>5, <1>9 DEF Clean

\* A mark after the title is never stripped.
LEMMA MarkIsKept ==
  ASSUME NEW t, Clean(t), NEW text \in Seq(LegalChars), NEW mark, mark \notin Edges,
         Starts(text, t, mark)
  PROVE  Strip(Collapse(text)) # << >>
<1>1. t \in Seq(LegalChars) /\ Single(t) /\ Trimmed(t)
  BY DEF Clean
<1>2. PICK m : m = Len(t) + 2
  OBVIOUS
<1>3. /\ Len(t) \in Nat /\ Len(text) \in Nat /\ m \in 0 .. Len(text) /\ m \in 1 .. Len(text)
      /\ text[m] = mark
  BY <1>2 DEF Starts
<1>4. PICK whole : whole = Collapse(text)
  OBVIOUS
<1>5. whole \in Seq(LegalChars) /\ Len(whole) \in Nat
  BY <1>4, CollapseIsSingle, TextShape
<1>6. mark # Space
  BY DEF Edges
<1>7. NoRun(text, m)
  <2>1. ASSUME NEW i \in 2 .. m
        PROVE  ~(text[i] = Space /\ text[i - 1] = Space)
    <3>1. CASE i = m
      BY <1>3, <1>6, <3>1
    <3>2. CASE i = Len(t) + 1
      <4>1. Len(t) \in 1 .. Len(t) /\ i - 1 = Len(t)
        BY <1>3, <3>2
      <4>2. text[i - 1] = t[Len(t)]
        BY <4>1 DEF Starts
      <4>3. t # << >>
        BY <4>1
      <4>4. t[Len(t)] \notin Edges
        BY <1>1, <4>3 DEF Trimmed
      <4> QED
        BY <4>2, <4>4 DEF Edges
    <3>3. CASE i <= Len(t)
      <4>1. /\ i \in 1 .. Len(t) /\ i - 1 \in 1 .. Len(t) /\ i - 1 \in 1 .. Len(t) - 1
            /\ (i - 1) + 1 = i
        BY <1>3, <3>3
      <4>2. ~(t[i - 1] = Space /\ t[(i - 1) + 1] = Space)
        BY <1>1, <4>1 DEF Single
      <4>3. text[i] = t[i] /\ text[i - 1] = t[i - 1]
        BY <4>1 DEF Starts
      <4> QED
        BY <4>1, <4>2, <4>3
    <3> QED
      BY <1>2, <1>3, <3>1, <3>2, <3>3
  <2> QED
    BY <2>1 DEF NoRun
<1>8. Len(whole) >= m /\ \A i \in 1 .. m : whole[i] = text[i]
  BY <1>3, <1>4, <1>7, CollapseKeeps
<1>9. m \in 1 .. Len(whole) /\ whole[m] \notin Edges
  <2>1. m \in 1 .. m /\ m \in 1 .. Len(whole)
    BY <1>3, <1>5, <1>8
  <2> QED
    BY <1>3, <1>8, <2>1
<1>10. PICK a \in 1 .. Len(whole), b \in 1 .. Len(whole) :
             a <= b /\ Strip(whole) = SubSeq(whole, a, b)
  BY <1>5, <1>9, StripSpan
<1>11. b \in a - 1 .. Len(whole)
  BY <1>5, <1>10
<1>12. Len(SubSeq(whole, a, b)) = b - a + 1
  BY <1>5, <1>11, Span
<1>13. Len(Strip(whole)) > 0
  BY <1>5, <1>10, <1>12
<1> QED
  BY <1>4, <1>13

\* With no title, a folder takes two bytes more than what its bracket holds.
LEMMA UntitledIsSmall ==
  ASSUME NEW e, Clean(e), e # << >>
  PROVE  Size(Strip(Collapse(MovieText(<< >>, e)))) <= Size(e) + 2
<1>1. PICK text, n, open, close : /\ text = MovieText(<< >>, e) /\ n = Len(e)
                                  /\ open = "[" /\ close = "]"
  OBVIOUS
<1>2. /\ e \in Seq(LegalChars) /\ Single(e) /\ n \in Nat
      /\ << >> \in Seq(LegalChars) /\ Len(<< >>) = 0
  BY <1>1, TextShape DEF Clean
<1>3. open # Space /\ close # Space /\ open # Wide /\ close # Wide /\ Space # Wide /\ Space \in Edges
  BY <1>1 DEF Space, Wide, Edges
<1>4. text \in Seq(LegalChars)
  BY <1>1, <1>2, MovieRender
<1>5. /\ Len(text) = n + 3 /\ text[1] = Space /\ text[2] = open /\ text[n + 3] = close
      /\ \A i \in 1 .. n : text[2 + i] = e[i]
  <2>1. /\ Starts(text, << >>, open)
        /\ Len(text) = Len(<< >>) + Len(e) + 3
        /\ \A i \in 1 .. Len(e) : text[Len(<< >>) + 2 + i] = e[i]
        /\ text[Len(<< >>) + Len(e) + 3] = close
    BY <1>1, <1>2, MovieStarts
  <2>2. text[0 + 1] = Space /\ text[0 + 2] = open
    BY <1>2, <2>1 DEF Starts
  <2>3. 0 + 1 = 1 /\ 0 + 2 = 2 /\ 0 + n + 3 = n + 3 /\ \A i \in 1 .. n : 0 + 2 + i = 2 + i
    BY <1>2
  <2> QED
    BY <1>1, <1>2, <2>1, <2>2, <2>3
<1>6. NoRun(text, Len(text))
  <2>1. ASSUME NEW i \in 2 .. n + 3
        PROVE  ~(text[i] = Space /\ text[i - 1] = Space)
    <3>1. CASE i = 2 \/ i = n + 3
      BY <1>3, <1>5, <3>1
    <3>2. CASE i = 3
      <4>1. i - 1 = 2
        BY <3>2
      <4> QED
        BY <1>3, <1>5, <4>1
    <3>3. CASE i > 3 /\ i < n + 3
      <4>1. PICK j : j = i - 3
        OBVIOUS
      <4>2. /\ j \in 1 .. n - 1 /\ j \in 1 .. n /\ j + 1 \in 1 .. n
            /\ i = 2 + (j + 1) /\ i - 1 = 2 + j
        BY <1>2, <3>3, <4>1
      <4>3. text[i] = e[j + 1] /\ text[i - 1] = e[j]
        BY <1>5, <4>2
      <4>4. ~(e[j] = Space /\ e[j + 1] = Space)
        BY <1>1, <1>2, <4>2 DEF Single
      <4> QED
        BY <4>3, <4>4
    <3> QED
      BY <1>2, <3>1, <3>2, <3>3
  <2> QED
    BY <1>5, <2>1 DEF NoRun
<1>7. Collapse(text) = text
  <2>1. Len(text) \in 0 .. Len(text)
    BY <1>2, <1>5
  <2> QED
    BY <1>4, <1>6, <2>1, CollapseKeeps
<1>8. CASE Strip(text) = << >>
  <2>1. Size(Strip(text)) = 0
    <3>1. PICK none : none = << >>
      OBVIOUS
    <3>2. none \in Seq(LegalChars) /\ Len(none) = 0
      BY <3>1
    <3>3. Size(none) = 0
      BY <3>2, EmptySize
    <3> QED
      BY <1>8, <3>1, <3>3
  <2>2. Size(e) \in Nat
    BY <1>2, SizeIs
  <2> QED
    BY <1>1, <1>7, <2>1, <2>2
<1>9. CASE Strip(text) # << >>
  <2>1. PICK a \in 1 .. Len(text), b \in 1 .. Len(text) :
             a <= b /\ text[a] \notin Edges /\ Strip(text) = SubSeq(text, a, b)
    BY <1>4, <1>9, StripSpan
  <2>2. PICK part : part = Strip(text)
    OBVIOUS
  <2>3. b \in a - 1 .. Len(text) /\ a \in Int /\ b \in Int /\ b <= n + 3
    BY <1>2, <1>5, <2>1
  <2>4. /\ part \in Seq(LegalChars) /\ Len(part) = b - a + 1
        /\ \A i \in 1 .. b - a + 1 : part[i] = text[i + a - 1] /\ i + a - 1 \in 1 .. Len(text)
    BY <1>4, <2>1, <2>2, <2>3, Span
  <2>5. a >= 2
    <3>1. a # 1
      BY <1>3, <1>5, <2>1
    <3> QED
      BY <1>2, <1>5, <2>1, <3>1
  <2>6. Len(part) <= n + 2
    BY <1>2, <2>3, <2>4, <2>5
  <2>7. \A i \in Wides(part) : i + (a - 3) \in Wides(e)
    <3>1. ASSUME NEW i \in Wides(part)
          PROVE  i + (a - 3) \in Wides(e)
      <4>1. i \in 1 .. b - a + 1 /\ part[i] = Wide
        BY <2>4, TextShape DEF Wides
      <4>2. PICK k : k = i + a - 1
        OBVIOUS
      <4>3. k \in 1 .. n + 3 /\ text[k] = Wide /\ k >= 2 /\ k - 2 = i + (a - 3)
        BY <1>2, <1>5, <2>3, <2>4, <2>5, <4>1, <4>2
      <4>4. k # 2 /\ k # n + 3
        BY <1>3, <1>5, <4>3
      <4>5. k - 2 \in 1 .. n /\ k = 2 + (k - 2)
        BY <1>2, <4>3, <4>4
      <4>6. e[k - 2] = Wide
        BY <1>5, <4>3, <4>5
      <4>7. k - 2 \in DOMAIN e
        BY <1>1, <1>2, <4>5, TextShape
      <4> QED
        BY <4>3, <4>6, <4>7 DEF Wides
    <3> QED
      BY <3>1
  <2>8. Cardinality(Wides(part)) <= Cardinality(Wides(e))
    <3>1. a - 3 \in Int
      BY <2>3
    <3> QED
      BY <1>2, <2>4, <2>7, <3>1, WidesShift
  <2>9. /\ Size(part) = Len(part) + Cardinality(Wides(part)) /\ Len(part) \in Nat
        /\ Size(e) = n + Cardinality(Wides(e))
        /\ Cardinality(Wides(part)) \in Nat /\ Cardinality(Wides(e)) \in Nat
    BY <1>1, <1>2, <2>4, SizeIs
  <2>10. Size(part) <= Size(e) + 2
    BY <1>2, <2>6, <2>8, <2>9
  <2> QED
    BY <1>1, <1>7, <2>2, <2>10
<1> QED
  BY <1>8, <1>9

\* A rendered name, whatever the title and what is left of the episode title.
LEMMA RenderFacts ==
  ASSUME NEW t, Clean(t), NEW e, Clean(e), NEW template \in {EpisodeFile, MovieFolder}
  PROVE  /\ Clean(Render(template, TitleValues(t, e)))
         /\ IsPrefix(t, Render(template, TitleValues(t, e)))
         /\ template = EpisodeFile \/ e # << >> => Render(template, TitleValues(t, e)) # << >>
<1>1. t \in Seq(LegalChars) /\ e \in Seq(LegalChars) /\ Len(t) \in Nat
  BY TextShape DEF Clean
<1>2. CASE template = EpisodeFile
  <2>1. PICK text, dash : text = EpisodeText(t, e) /\ dash = "-"
    OBVIOUS
  <2>2. dash \notin Edges
    BY <2>1 DEF Edges, Space
  <2>3. /\ text \in Seq(LegalChars) /\ Starts(text, t, dash)
        /\ Render(template, TitleValues(t, e)) = Strip(Collapse(text))
    BY <1>1, <1>2, <2>1, EpisodeRender, EpisodeStarts
  <2>4. Len(text) >= Len(t) + 1 /\ \A i \in 1 .. Len(t) : text[i] = t[i]
    BY <2>3 DEF Starts
  <2> QED
    BY <2>2, <2>3, <2>4, TitleIsKept, MarkIsKept
<1>3. CASE template = MovieFolder
  <2>1. PICK text, open : text = MovieText(t, e) /\ open = "["
    OBVIOUS
  <2>2. open \notin Edges
    BY <2>1 DEF Edges, Space
  <2>3. /\ text \in Seq(LegalChars)
        /\ Render(template, TitleValues(t, e)) = Strip(Collapse(text))
    BY <1>1, <1>3, <2>1, MovieRender
  <2>4. e # << >> => Starts(text, t, open)
    BY <1>1, <2>1, MovieStarts
  <2>5. Len(text) >= Len(t) + 1 /\ \A i \in 1 .. Len(t) : text[i] = t[i]
    <3>1. CASE e = << >>
      BY <1>1, <2>1, <3>1, BareStarts
    <3>2. CASE e # << >>
      BY <1>1, <2>4, <3>2 DEF Starts
    <3> QED
      BY <3>1, <3>2
  <2>6. MovieFolder # EpisodeFile
    <3>1. Len(MovieFolder) = 2 /\ Len(EpisodeFile) = 1
      BY DEF MovieFolder, EpisodeFile
    <3> QED
      BY <3>1
  <2> QED
    BY <1>3, <2>2, <2>3, <2>4, <2>5, <2>6, TitleIsKept, MarkIsKept
<1> QED
  BY <1>2, <1>3

---------------------------------------------------------------------------
(* The while of _name                                                      *)

\* What is being written: clean values, what is left of the episode title, and the name they
\* give. A folder that has only an episode title never loses all of it.
LoopInv ==
    /\ given.template \in {EpisodeFile, MovieFolder}
    /\ Clean(given.title) /\ Clean(given.episode) /\ Clean(title)
    /\ IsPrefix(title, given.episode)
    /\ given.limit \in Nat /\ given.limit >= 4
    /\ name = Render(given.template, TitleValues(given.title, title))
    /\ (given.template = MovieFolder /\ given.title = << >> /\ given.episode # << >>)
          => title # << >>

NamesInv ==
    /\ writing \in {"idle", "loop", "named", "error"}
    /\ writing = "loop" => LoopInv
    /\ NameFits

\* Each step keeps the invariant: the first name, a shorter one, the last.
LEMMA NameKeeps ==
  ASSUME NamesInv, Name
  PROVE  NamesInv'
<1>1. PICK template \in {EpisodeFile, MovieFolder}, mode \in ColonModes, limit \in Limits,
           t \in TitleTexts, e \in EpisodeTexts :
         /\ given' = [template |-> template, title |-> Sanitize(t, mode),
                      episode |-> Sanitize(e, mode), mode |-> mode, limit |-> limit]
         /\ title' = Sanitize(e, mode)
         /\ name' = Render(template, TitleValues(Sanitize(t, mode), Sanitize(e, mode)))
         /\ writing' = "loop"
  BY DEF Name
<1>2. Clean(Sanitize(t, mode)) /\ Clean(Sanitize(e, mode))
  <2>1. t \in Seq(Chars) /\ e \in Seq(Chars)
    BY NamesAssumption
  <2> QED
    BY <2>1, SanitizeIsClean
<1>3. limit \in Nat /\ limit >= 4
  BY NamesAssumption
<1>4. PICK first, episode : first = Sanitize(t, mode) /\ episode = Sanitize(e, mode)
  OBVIOUS
<1>5. IsPrefix(episode, episode)
  <2>1. episode \in Seq(LegalChars)
    BY <1>2, <1>4 DEF Clean
  <2>2. Len(episode) \in Nat
    BY <2>1, TextShape
  <2> QED
    BY <2>1, <2>2, PrefixIs
<1>6. /\ given'.template = template /\ given'.title = first /\ given'.episode = episode
      /\ given'.limit = limit
  BY <1>1, <1>4
<1>7. LoopInv'
  BY <1>1, <1>2, <1>3, <1>4, <1>5, <1>6 DEF LoopInv
<1> QED
  BY <1>1, <1>7 DEF NamesInv, NameFits

LEMMA ShortenKeeps ==
  ASSUME NamesInv, Shorten
  PROVE  NamesInv'
<1>1. LoopInv /\ writing' = "loop" /\ given' = given
  BY DEF NamesInv, Shorten
<1>2. PICK n, part : n = Max({Size(title) - Overflow, 0}) /\ part = FirstBytes(title, n)
  OBVIOUS
<1>3. title' = Sanitize(part, given.mode)
  BY <1>2 DEF Shorten
<1>4. /\ Clean(title) /\ title \in Seq(LegalChars) /\ Len(title) \in Nat /\ Size(title) \in Nat
      /\ title # << >> /\ Len(title) > 0
  BY <1>1, SizeIs DEF LoopInv, Clean, Shorten
<1>5. /\ Clean(name) /\ Size(name) \in Nat /\ Overflow \in Int
  <2>1. Clean(name)
    BY <1>1, RenderFacts DEF LoopInv
  <2>2. Size(name) \in Nat
    BY <2>1, SizeIs DEF Clean
  <2> QED
    BY <1>1, <2>1, <2>2 DEF LoopInv, Overflow
<1>6. n \in Nat /\ n >= Size(title) - Overflow
  <2>1. PICK left : left = Size(title) - Overflow /\ left \in Int
    BY <1>4, <1>5
  <2>2. Max({left, 0}) \in Nat /\ Max({left, 0}) >= left
    <3>1. \E x \in {left, 0} : \A y \in {left, 0} : x >= y
      BY <2>1
    <3>2. Max({left, 0}) \in {left, 0} /\ \A y \in {left, 0} : Max({left, 0}) >= y
      BY <3>1 DEF Max
    <3> QED
      BY <2>1, <3>2
  <2> QED
    BY <1>2, <2>1, <2>2
<1>7. /\ part \in Seq(LegalChars) /\ Len(part) <= Len(title)
      /\ \A i \in 1 .. Len(part) : part[i] = title[i]
      /\ n >= 2 => Len(part) > 0
  BY <1>2, <1>4, <1>6, FirstBytesFacts
<1>8. /\ Clean(title') /\ Len(title') <= Len(title)
      /\ \A i \in 1 .. Len(title') : title'[i] = title[i]
      /\ Len(part) > 0 => Len(title') > 0
  BY <1>3, <1>4, <1>7, SanitizeKeeps
<1>9. IsPrefix(title', given.episode)
  <2>1. title' \in Seq(LegalChars) /\ given.episode \in Seq(LegalChars)
    BY <1>1, <1>8 DEF Clean, LoopInv
  <2>2. Len(title') \in Nat /\ Len(given.episode) \in Nat
    BY <2>1, TextShape
  <2>3. Len(title) <= Len(given.episode) /\ \A i \in 1 .. Len(title) : title[i] = given.episode[i]
    BY <1>1, <1>4, <2>1, PrefixIs DEF LoopInv
  <2>4. /\ Len(title') <= Len(given.episode)
        /\ \A i \in 1 .. Len(title') : title'[i] = given.episode[i]
    <3>1. \A i \in 1 .. Len(title') : i \in 1 .. Len(title)
      BY <1>4, <1>8, <2>2
    <3> QED
      BY <1>4, <1>8, <2>2, <2>3, <3>1
  <2> QED
    BY <2>1, <2>4, PrefixIs
<1>10. ASSUME given.template = MovieFolder, given.title = << >>, given.episode # << >>
       PROVE  title' # << >>
  <2>1. name = Strip(Collapse(MovieText(<< >>, title)))
    <3>1. << >> \in Seq(LegalChars)
      OBVIOUS
    <3> QED
      BY <1>1, <1>4, <1>10, <3>1, MovieRender DEF LoopInv
  <2>2. Size(name) <= Size(title) + 2
    BY <1>4, <2>1, UntitledIsSmall
  <2>3. n >= 2
    <3>1. given.limit \in Nat /\ given.limit >= 4
      BY <1>1 DEF LoopInv
    <3> QED
      BY <1>4, <1>5, <1>6, <2>2, <3>1 DEF Overflow
  <2>4. Len(title') > 0
    BY <1>7, <1>8, <2>3
  <2> QED
    BY <2>4
<1>11. name' = Render(given.template, TitleValues(given.title, title'))
  BY DEF Shorten
<1>12. LoopInv'
  BY <1>1, <1>8, <1>9, <1>10, <1>11 DEF LoopInv
<1> QED
  BY <1>1, <1>12 DEF NamesInv, NameFits

LEMMA FinishKeeps ==
  ASSUME NamesInv, Finish
  PROVE  NamesInv'
<1>1. /\ LoopInv /\ given' = given /\ title' = title /\ (Overflow <= 0 \/ title = << >>)
      /\ name' = (IF Overflow > 0 THEN CutName(name, given.limit) ELSE name)
      /\ writing' = IF name' = << >> THEN "error" ELSE "named"
  BY DEF NamesInv, Finish
<1>2. /\ Clean(name) /\ IsPrefix(given.title, name)
      /\ (given.template = EpisodeFile \/ title # << >>) => name # << >>
  BY <1>1, RenderFacts DEF LoopInv
<1>3. /\ name \in Seq(LegalChars) /\ Trimmed(name) /\ Len(name) \in Nat /\ Size(name) \in Nat
      /\ given.limit \in Nat /\ given.limit >= 4 /\ Overflow = Size(name) - given.limit
  BY <1>1, <1>2, SizeIs DEF Clean, LoopInv, Overflow
<1>4. /\ name' \in Seq(LegalChars) /\ Trimmed(name') /\ Size(name') <= given.limit
      /\ Overflow > 0 => name' # << >>
  <2>1. CASE Overflow <= 0
    BY <1>1, <1>3, <2>1
  <2>2. CASE Overflow > 0
    <3>1. PICK part : part = FirstBytes(name, given.limit)
      OBVIOUS
    <3>2. Len(name) > 0
      <4>1. CASE Len(name) = 0
        <5>1. Size(name) = 0
          BY <1>3, <4>1, EmptySize
        <5> QED
          BY <1>3, <2>2, <5>1
      <4> QED
        BY <1>3, <4>1
    <3>3. /\ part \in Seq(LegalChars) /\ Size(part) <= given.limit /\ Len(part) > 0
          /\ \A i \in 1 .. Len(part) : part[i] = name[i]
      BY <1>3, <3>1, <3>2, FirstBytesFacts
    <3>4. Strip(part) \in Seq(LegalChars) /\ Trimmed(Strip(part)) /\ Size(Strip(part)) <= Size(part)
      BY <3>3, StripFacts
    <3>5. part[1] \notin Edges
      <4>1. name # << >>
        BY <3>2
      <4>2. name[1] \notin Edges
        BY <1>3, <4>1 DEF Trimmed
      <4>3. Len(part) \in Nat /\ 1 \in 1 .. Len(part)
        BY <3>3, TextShape
      <4> QED
        BY <3>3, <4>2, <4>3
    <3>6. Strip(part) # << >>
      <4>1. Len(Strip(part)) \in 1 .. Len(part) /\ Len(part) \in Nat
        BY <3>3, <3>5, StripKeeps, TextShape
      <4> QED
        BY <4>1
    <3>7. Size(part) \in Nat /\ Size(Strip(part)) \in Nat
      BY <3>3, <3>4, SizeIs
    <3>8. name' = Strip(part)
      BY <1>1, <2>2, <3>1 DEF CutName
    <3> QED
      BY <1>3, <3>3, <3>4, <3>6, <3>7, <3>8
  <2> QED
    BY <1>3, <2>1, <2>2
<1>5. ASSUME writing' = "named"
      PROVE  /\ Size(name') <= given.limit /\ name' # << >>
             /\ \A i \in DOMAIN name' : name'[i] \notin Illegal \cup {Colon}
             /\ name'[1] \notin Edges /\ name'[Len(name')] \notin Edges
             /\ IsPrefix(given.title, name') \/ title = << >>
             /\ IsPrefix(title, given.episode)
  <2>1. name' # << >>
    BY <1>1, <1>5
  <2>2. \A i \in DOMAIN name' : name'[i] \notin Illegal \cup {Colon}
    <3>1. \A i \in DOMAIN name' : name'[i] \in LegalChars
      BY <1>4, TextShape
    <3> QED
      BY <3>1 DEF LegalChars, NoColon
  <2>3. name'[1] \notin Edges /\ name'[Len(name')] \notin Edges
    BY <1>4, <2>1 DEF Trimmed
  <2>4. IsPrefix(given.title, name') \/ title = << >>
    BY <1>1, <1>2, <1>3
  <2> QED
    BY <1>1, <1>4, <2>1, <2>2, <2>3, <2>4 DEF LoopInv
<1>6. ASSUME writing' = "error"
      PROVE  /\ Render(given.template, TitleValues(given.title, given.episode)) = << >>
             /\ given.title = << >>
  <2>1. name' = << >> /\ name = << >>
    BY <1>1, <1>3, <1>4, <1>6
  <2>2. given.template = MovieFolder /\ title = << >>
    BY <1>1, <1>2, <2>1 DEF LoopInv
  <2>3. given.title = << >>
    <3>1. given.title \in Seq(LegalChars) /\ Len(given.title) \in Nat
      BY <1>1, TextShape DEF LoopInv, Clean
    <3>2. Len(given.title) <= Len(name)
      BY <1>2, <1>3, <3>1, PrefixIs
    <3>3. Len(name) = 0
      BY <2>1
    <3> QED
      BY <3>1, <3>2, <3>3
  <2>4. given.episode = << >>
    BY <1>1, <2>2, <2>3 DEF LoopInv
  <2> QED
    BY <1>1, <2>1, <2>2, <2>3, <2>4 DEF LoopInv
<1>7. NameFits'
  BY <1>1, <1>5, <1>6 DEF NameFits
<1>8. writing' \in {"named", "error"}
  BY <1>1
<1> QED
  BY <1>7, <1>8 DEF NamesInv

\* Every name that _name gives fits its bytes, is legal, keeps the main title as long as
\* something of the episode title is left, and is refused only when there is nothing to name:
\* for any texts over any letters, any colon modes and any limits of at least four bytes.
THEOREM NamesFit == NamesSpec => []NameFits
<1>1. NamesInit => NamesInv
  BY DEF NamesInit, NamesInv, NameFits
<1>2. NamesInv /\ [NamesNext]_nameVars => NamesInv'
  <2>1. ASSUME NamesInv, UNCHANGED nameVars
        PROVE  NamesInv'
    BY <2>1 DEF nameVars, NamesInv, LoopInv, NameFits
  <2> QED
    BY <2>1, NameKeeps, ShortenKeeps, FinishKeeps DEF NamesNext
<1>3. NamesInv => NameFits
  BY DEF NamesInv
<1> QED
  BY <1>1, <1>2, <1>3, PTL DEF NamesSpec
=============================================================================
