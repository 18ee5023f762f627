---------------------------- MODULE MCServicesProofs ---------------------------
(***************************************************************************)
(* Proofs about the services as MCServices runs them: each is one of them  *)
(* moving alone, so it is a behaviour of every service's specification,    *)
(* and what is proved of a service holds of the whole. Here the types of   *)
(* all of them.                                                            *)
(***************************************************************************)
EXTENDS MCServices, ServiceProofs

---------------------------------------------------------------------------
(* Each service keeps its types                                            *)

LEMMA SiteTypes == SiteSpec => []SiteTypeOK
<1> DEFINE Names == Files \cup {None}
           Row   == [file : Names, flagged : BOOLEAN]
           Entry == [took : Names, ofSite : BOOLEAN, there : BOOLEAN]
           Places == {"idle", "claimed", "ytdlp", "used", "cache", "flag"}
           FilesOK ==
             /\ cookies \in Row /\ cached \in Entry
             /\ uploads \in 0 .. MaxUploads /\ (filtered => uploads < MaxUploads)
             /\ took \in [Runs -> Names] /\ blamed \in Names
           RunsOK ==
             /\ overlap \in BOOLEAN /\ builtin \in BOOLEAN /\ site \in BOOLEAN
             /\ filtered \in BOOLEAN
             /\ at \in [Runs -> Places] /\ keyed \subseteq Inspections /\ plain \subseteq Runs
<1>1. NoRow \in Row /\ NoInspection \in Entry /\ None \in Names
  BY DEF NoRow, NoInspection
<1>2. \A n \in 1 .. MaxUploads : n \in Names
  BY DEF Files
<1>3. SiteInit => FilesOK /\ RunsOK
  <2> SUFFICES ASSUME SiteInit
               PROVE  FilesOK /\ RunsOK
    OBVIOUS
  <2>1. uploads \in 0 .. MaxUploads /\ (filtered => uploads < MaxUploads)
    BY SiteAssumption DEF SiteInit
  <2> HIDE DEF Row, Entry, Names, Places
  <2>2. FilesOK
    BY <1>1, <2>1 DEF SiteInit
  <2>3. RunsOK
    BY DEF SiteInit, Places
  <2> QED
    BY <2>2, <2>3
<1>4. FilesOK /\ RunsOK /\ [SiteNext]_siteVars => (FilesOK /\ RunsOK)'
  <2> SUFFICES ASSUME FilesOK, RunsOK, [SiteNext]_siteVars
               PROVE  FilesOK' /\ RunsOK'
    OBVIOUS
  <2>1. /\ cookies.file \in Names
        /\ [cookies EXCEPT !.flagged = TRUE] \in Row
        /\ \A n \in Names : [cookies EXCEPT !.file = n] \in Row
    OBVIOUS
  <2>2. \A n \in Names : Uploaded(n) \in Row
    BY DEF Uploaded
  <2>3. \A r \in Runs : [took |-> took[r], ofSite |-> r \in keyed, there |-> TRUE] \in Entry
    <3> SUFFICES ASSUME NEW r \in Runs
                 PROVE  [took |-> took[r], ofSite |-> r \in keyed, there |-> TRUE] \in Entry
      OBVIOUS
    <3>1. took[r] \in Names /\ (r \in keyed) \in BOOLEAN
      OBVIOUS
    <3> QED
      BY <3>1
  <2>4. Row' = Row /\ Entry' = Entry /\ Names' = Names
    BY DEF Files
  <2> HIDE DEF Row, Entry, Names
  <2>5. CASE CreateSite \/ DeleteSite \/ UploadBegin \/ DeleteCookies \/ CacheExpires
    <3>1. cookies' \in Row /\ cached' \in Entry
      BY <1>1, <2>4, <2>5 DEF CreateSite, DeleteSite, UploadBegin, DeleteCookies, CacheExpires
    <3>2. uploads' = uploads /\ took' = took /\ blamed' = blamed
      BY <2>5 DEF CreateSite, DeleteSite, UploadBegin, DeleteCookies, CacheExpires
    <3>3. filtered' => uploads < MaxUploads
      BY <2>5 DEF CreateSite, DeleteSite, UploadBegin, DeleteCookies, CacheExpires
    <3>4. RunsOK'
      BY <2>5 DEF CreateSite, DeleteSite, UploadBegin, DeleteCookies, CacheExpires
    <3> QED
      BY <2>4, <3>1, <3>2, <3>3, <3>4
  <2>6. CASE UploadSave
    <3>1. site => uploads' \in 1 .. MaxUploads
      BY <2>6, SiteAssumption DEF UploadSave
    <3>2. ~site => uploads' = uploads
      BY <2>6 DEF UploadSave
    <3>3. uploads' \in 0 .. MaxUploads
      BY <3>1, <3>2
    <3>4. cookies' \in Row /\ cached' \in Entry
      BY <1>1, <1>2, <2>2, <2>4, <2>6, <3>1 DEF UploadSave
    <3> QED
      BY <2>4, <2>6, <3>3, <3>4 DEF UploadSave
  <2>7. ASSUME NEW r \in Runs, Start(r)
        PROVE  FilesOK' /\ RunsOK'
    <3>1. FilesOK'
      BY <2>1, <2>4, <2>7 DEF Start
    <3>2. RunsOK'
      <4>1. plain' \subseteq Runs /\ keyed' \subseteq Inspections
        BY <2>7 DEF Start
      <4> QED
        BY <2>7, <4>1 DEF Start, RunTo
    <3> QED
      BY <3>1, <3>2
  <2>8. ASSUME NEW r \in Runs, WriteDown(r) \/ YtdlpOk(r) \/ YtdlpFailed(r)
        PROVE  FilesOK' /\ RunsOK'
    <3>1. took[r] \in Names
      OBVIOUS
    <3>2. FilesOK'
      BY <2>4, <2>8, <3>1 DEF WriteDown, YtdlpOk, YtdlpFailed
    <3>3. RunsOK'
      BY <2>8 DEF WriteDown, YtdlpOk, YtdlpFailed, Cleaned, RunTo
    <3> QED
      BY <3>2, <3>3
  <2>9. ASSUME NEW r \in Runs, Used(r) \/ Flag(r) \/ CacheIt(r)
        PROVE  FilesOK' /\ RunsOK'
    <3>1. took[r] \in Names
      OBVIOUS
    <3>2. cookies' \in Row
      BY <2>1, <2>9, <3>1 DEF Used, Flag, CacheIt
    <3>3. cached' \in Entry
      BY <2>3, <2>9 DEF Used, Flag, CacheIt
    <3>4. UNCHANGED <<uploads, filtered, took, blamed>>
      BY <2>9 DEF Used, Flag, CacheIt
    <3>5. FilesOK'
      BY <2>4, <3>2, <3>3, <3>4
    <3>6. RunsOK'
      BY <2>9 DEF Used, Flag, CacheIt, RunTo
    <3> QED
      BY <3>5, <3>6
  <2>10. CASE UNCHANGED siteVars
    BY <2>4, <2>10 DEF siteVars
  <2> QED
    BY <2>5, <2>6, <2>7, <2>8, <2>9, <2>10 DEF SiteNext
<1>5. FilesOK /\ RunsOK => SiteTypeOK
  BY DEF SiteTypeOK
<1> QED
  BY <1>3, <1>4, <1>5, PTL DEF SiteSpec

LEMMA FolderTypes == FolderSpec => []FolderTypeOK
<1> DEFINE Folder == [fresh : BOOLEAN, part : BOOLEAN, final : BOOLEAN, video : Videos,
                      temp : BOOLEAN, marked : BOOLEAN, placing : BOOLEAN]
<1>1. Removed \in Folder
  BY DEF Removed, Videos
<1>2. FolderInit => FolderTypeOK
  <2>1. 0 \in 0 .. Retries + 1
    BY FolderAssumption
  <2> HIDE DEF Folder
  <2> QED
    BY <1>1, <2>1 DEF FolderInit, FolderTypeOK, Folder
<1>3. FolderTypeOK /\ [FolderNext]_folderVars => FolderTypeOK'
  <2> SUFFICES ASSUME FolderTypeOK, [FolderNext]_folderVars
               PROVE  FolderTypeOK'
    OBVIOUS
  <2> USE DEF others, rowAndRun, At, EndRun, Failed, Cancelled
  <2>1. folder \in Folder
    BY DEF FolderTypeOK
  <2>2. folder' \in Folder
    <3>1. CASE RunStep
      <4>1. folder.video \in Videos /\ Encoded(folder.video) \in Videos
        BY <2>1 DEF Encoded, Videos
      <4> QED
        BY <1>1, <2>1, <3>1, <4>1 DEF RunStep, ClaimFolder, DownloadCheck, Attempt,
           TranscodeCheck, Encode, Replace, MarkTranscoded, Organize, MoveVideo, TidyFolder,
           FinishRun, CancelledBeforeStep, CheckpointStep, Videos
    <3>2. CASE ~RunStep
      BY <1>1, <2>1, <3>2 DEF FolderNext, Retry, CancelQueued, Age, StopAndResume,
         DeleteFileCheck, DeleteFileRemove, DeleteFileMark, SweepRead, SweepLook, SweepRemove,
         folderVars
    <3> QED
      BY <3>1, <3>2
  <2> HIDE DEF Folder
  <2>3. path' \in BOOLEAN /\ delivered' \in BOOLEAN
    <3>1. CASE RunStep
      BY <3>1 DEF FolderTypeOK, RunStep, ClaimFolder, DownloadCheck, Attempt,
         TranscodeCheck, Encode, Replace, MarkTranscoded, Organize, MoveVideo, TidyFolder,
         FinishRun, CancelledBeforeStep, CheckpointStep
    <3>2. CASE ~RunStep
      BY <3>2 DEF FolderTypeOK, FolderNext, Retry, CancelQueued, Age, StopAndResume,
         DeleteFileCheck, DeleteFileRemove, DeleteFileMark, SweepRead, SweepLook, SweepRemove,
         folderVars
    <3> QED
      BY <3>1, <3>2
  <2> DEFINE RunOK ==
               /\ profile \in {"off", "hardware", "software"}
               /\ status \in {"queued", "running", "completed", "failed", "cancelled"}
               /\ lastStep \in {"none", "download", "transcode", "organize"}
               /\ stage \in Stages \cup {"none"} /\ tries \in 0 .. Retries + 1
             AroundOK ==
               /\ deleting \in {"no", "checked", "checked with path", "removed"}
               /\ fileDeleted \in BOOLEAN /\ taken \in BOOLEAN
               /\ sweep \in {"no", "keep", "sweep", "remove"}
  <2>4. RunOK /\ AroundOK
    BY DEF FolderTypeOK
  <2>5. tries \in 0 .. Retries + 1
    BY <2>4
  <2>6. RunOK'
    <3>1. CASE RunStep
      <4>1. CASE ClaimFolder
        <5>1. stage' \in {"download", "transcode", "organize", "finish"}
          BY <2>4, <4>1 DEF ClaimFolder
        <5> QED
          BY <2>4, <4>1, <5>1 DEF ClaimFolder, Stages
      <4>2. CASE DownloadCheck
        <5>1. tries' = tries \/ tries' = 1
          BY <4>2 DEF DownloadCheck
        <5>2. tries' \in 0 .. Retries + 1
          BY <2>5, <5>1, FolderAssumption
        <5> QED
          BY <2>4, <4>2, <5>2 DEF DownloadCheck, Stages
      <4>3. CASE Attempt
        <5>1. tries' = tries \/ (tries <= Retries /\ tries' = tries + 1)
          BY <4>3 DEF Attempt
        <5>2. tries' \in 0 .. Retries + 1
          BY <2>5, <5>1, FolderAssumption
        <5> QED
          BY <2>4, <4>3, <5>2 DEF Attempt, Stages
      <4>4. CASE TranscodeCheck \/ Encode \/ Replace \/ MarkTranscoded
        BY <2>4, <4>4 DEF TranscodeCheck, Encode, Replace, MarkTranscoded, Stages
      <4>5. CASE Organize \/ MoveVideo \/ TidyFolder \/ FinishRun \/ CancelledBeforeStep
        BY <2>4, <4>5 DEF Organize, MoveVideo, TidyFolder, FinishRun, CancelledBeforeStep, Stages
      <4>6. ASSUME NEW from, NEW done \in {"download", "transcode", "organize"},
                   NEW next \in Stages, CheckpointStep(from, done, next)
            PROVE  RunOK'
        BY <2>4, <4>6 DEF CheckpointStep
      <4> QED
        BY <3>1, <4>1, <4>2, <4>3, <4>4, <4>5, <4>6 DEF RunStep, Stages
    <3>2. CASE ~RunStep
      BY <2>4, <3>2 DEF FolderNext, Retry, CancelQueued, Age, StopAndResume,
         DeleteFileCheck, DeleteFileRemove, DeleteFileMark, SweepRead, SweepLook, SweepRemove,
         folderVars
    <3> QED
      BY <3>1, <3>2
  <2>7. AroundOK'
    <3>1. CASE RunStep
      BY <2>4, <3>1 DEF RunStep, ClaimFolder, DownloadCheck, Attempt,
         TranscodeCheck, Encode, Replace, MarkTranscoded, Organize, MoveVideo, TidyFolder,
         FinishRun, CancelledBeforeStep, CheckpointStep
    <3>2. CASE ~RunStep
      BY <2>4, <3>2 DEF FolderNext, Retry, CancelQueued, Age, StopAndResume,
         DeleteFileCheck, DeleteFileRemove, DeleteFileMark, SweepRead, SweepLook, SweepRemove,
         folderVars
    <3> QED
      BY <3>1, <3>2
  <2> QED
    BY <2>2, <2>3, <2>6, <2>7 DEF FolderTypeOK, Folder
<1> QED
  BY <1>2, <1>3, PTL DEF FolderSpec

LEMMA ViewTypes == ViewSpec => []ViewTypeOK
<1> USE DEF Event
<1>1. ViewInit => ViewTypeOK
  <2> SUFFICES ASSUME ViewInit
               PROVE  ViewTypeOK
    OBVIOUS
  <2>1. <<>> \in Seq(Event) /\ Len(<<>>) = 0
    OBVIOUS
  <2>2. queue \in Seq(Event) /\ Len(queue) <= QueueSize
    BY <2>1, ViewAssumption DEF ViewInit
  <2> HIDE DEF Event
  <2> QED
    BY <2>2 DEF ViewInit, ViewTypeOK, Event
<1>2. ViewTypeOK /\ [ViewNext]_viewVars => ViewTypeOK'
  <2> SUFFICES ASSUME ViewTypeOK, [ViewNext]_viewVars
               PROVE  ViewTypeOK'
    OBVIOUS
  <2>1. ASSUME NEW event \in Event, Published(event)
        PROVE  queue' \in Seq(Event) /\ Len(queue') <= QueueSize /\ missed' \in BOOLEAN
    <3>1. queue \in Seq(Event) /\ Len(queue) <= QueueSize /\ missed \in BOOLEAN
      BY DEF ViewTypeOK
    <3>2. CASE link /\ Fits
      <4>1. queue' = Append(queue, event) /\ missed' = missed /\ Len(queue) < QueueSize
        BY <2>1, <3>2 DEF Published, Fits
      <4> QED
        BY <3>1, <4>1, ViewAssumption
    <3>3. CASE ~(link /\ Fits)
      BY <2>1, <3>1, <3>3 DEF Published
    <3> QED
      BY <3>2, <3>3
  <2>2. <<>> \in Seq(Event) /\ Len(<<>>) = 0
    OBVIOUS
  <2>3. ASSUME queue # <<>>
        PROVE  /\ Head(queue) \in Event /\ Tail(queue) \in Seq(Event)
               /\ Len(Tail(queue)) <= QueueSize
    <3>1. queue \in Seq(Event) /\ Len(queue) <= QueueSize
      BY DEF ViewTypeOK
    <3> QED
      BY <2>3, <3>1, ViewAssumption
  <2>4. CASE CommitSilently \/ AnswerFetch \/ FailFetch \/ OpenStream \/ ReceiveFetch
    BY <2>4 DEF CommitSilently, AnswerFetch, FailFetch, OpenStream, OnOpen, Refetch, Answered,
                ReceiveFetch, ViewTypeOK, Shown, Nothing, NoJobYet
  <2>5. CASE CommitStatus
    <3>1. PICK move \in Moves : stored' = move[2] /\ owed' = move[2]
      BY <2>5 DEF CommitStatus
    <3>2. move[2] \in Shown
      BY DEF Moves, Shown, Ended
    <3> QED
      BY <2>5, <3>1, <3>2 DEF CommitStatus, ViewTypeOK
  <2>6. CASE PublishStatus
    <3>1. owed \in Event
      BY <2>6 DEF PublishStatus, ViewTypeOK
    <3> QED
      BY <2>1, <2>6, <3>1 DEF PublishStatus, ViewTypeOK
  <2>7. CASE PublishProgress
    BY <2>1, <2>7 DEF PublishProgress, ViewTypeOK
  <2>8. CASE StopHub \/ DropStream
    <3>1. queue' \in Seq(Event) /\ Len(queue') <= QueueSize
      <4>1. queue' = <<>>
        BY <2>8 DEF StopHub, DropStream
      <4> QED
        BY <2>2, <4>1, ViewAssumption
    <3>2. stored' \in Shown \cup {NoJobYet} /\ owed' \in Shown \cup {Nothing}
      BY <2>8 DEF StopHub, DropStream, ViewTypeOK, Shown
    <3>3. fetch' \in Shown \cup {NoJobYet, "asked", Nothing}
      <4>1. fetch' = fetch \/ fetch' = Nothing \/ fetch' = "asked"
        BY <2>8 DEF StopHub, DropStream
      <4> QED
        BY <4>1 DEF ViewTypeOK
    <3>4. link' \in BOOLEAN /\ UNCHANGED <<page, missed>>
      BY <2>8 DEF StopHub, DropStream
    <3> QED
      BY <3>1, <3>2, <3>3, <3>4 DEF ViewTypeOK
  <2>9. CASE MergeEvent
    BY <2>3, <2>9 DEF MergeEvent, Refetch, Answered, ViewTypeOK
  <2>10. CASE UNCHANGED viewVars
    BY <2>10 DEF viewVars, ViewTypeOK
  <2> QED
    BY <2>4, <2>5, <2>6, <2>7, <2>8, <2>9, <2>10 DEF ViewNext
<1> QED
  BY <1>1, <1>2, PTL DEF ViewSpec

LEMMA AccountTypes == AccountSpec => []AccountTypeOK
<1> USE AccountAssumption DEF AccountTypeOK, Sessions
<1>1. AccountInit => AccountTypeOK
  <2> SUFFICES ASSUME AccountInit
               PROVE  AccountTypeOK
    OBVIOUS
  <2>1. DOMAIN expires = {}
    BY DEF AccountInit
  <2>2. 0 \in 0 .. MaxTime /\ 0 \in 0 .. MaxSessions
    OBVIOUS
  <2>3. lastUse \in [Sessions -> 0 .. MaxTime]
    BY <2>2 DEF AccountInit
  <2> QED
    BY <2>1, <2>2, <2>3 DEF AccountInit
<1>2. AccountTypeOK /\ [AccountNext]_accountVars => AccountTypeOK'
  <2> SUFFICES ASSUME AccountTypeOK, [AccountNext]_accountVars
               PROVE  AccountTypeOK'
    OBVIOUS
  <2>1. hour + Lifetime \in 0 .. MaxTime + Lifetime
    OBVIOUS
  <2>2. ASSUME NewSession
        PROVE  /\ opened' \in 0 .. MaxSessions
               /\ DOMAIN expires' \subseteq Sessions
               /\ \A s \in DOMAIN expires' : expires'[s] \in 0 .. MaxTime + Lifetime
               /\ lastUse' \in [Sessions -> 0 .. MaxTime]
    <3>1. opened' \in 1 .. MaxSessions
      BY <2>2 DEF NewSession
    <3> QED
      BY <2>1, <2>2, <3>1 DEF NewSession
  <2>3. CASE Setup \/ StoreLogin
    BY <2>2, <2>3 DEF Setup, StoreLogin
  <2>4. CASE VerifyPassword \/ Hour \/ UNCHANGED accountVars
    <3>1. hour' \in 0 .. MaxTime
      BY <2>4 DEF VerifyPassword, Hour, accountVars
    <3>2. UNCHANGED <<account, opened, expires, sliding, closed, lastUse>> /\ verified' \in BOOLEAN
      BY <2>4 DEF VerifyPassword, Hour, accountVars
    <3> QED
      BY <3>1, <3>2
  <2>5. CASE UseSession
    BY <2>5 DEF UseSession
  <2>6. CASE SlideSession
    BY <2>1, <2>6 DEF SlideSession, Rows
  <2>7. CASE SignOut
    <3>1. PICK gone \in SUBSET DOMAIN expires :
             /\ expires' = [t \in DOMAIN expires \ gone |-> expires[t]]
             /\ closed' = closed \cup gone
      BY <2>7 DEF SignOut
    <3> QED
      BY <2>7, <3>1 DEF SignOut
  <2> QED
    BY <2>3, <2>4, <2>5, <2>6, <2>7 DEF AccountNext
<1> QED
  BY <1>1, <1>2, PTL DEF AccountSpec

LEMMA PresetsTypes == PresetsSpec => []PresetsTypeOK
<1>1. PresetsInit => PresetsTypeOK
  BY DEF PresetsInit, PresetsTypeOK
<1>2. PresetsTypeOK /\ [PresetsNext]_presets => PresetsTypeOK'
  <2> SUFFICES ASSUME PresetsTypeOK, [PresetsNext]_presets
               PROVE  PresetsTypeOK'
    OBVIOUS
  <2>1. ASSUME NEW table, NEW p, DOMAIN table \subseteq PresetIds,
               \A q \in DOMAIN table : table[q] \in Preset,
               presets' = ClearOtherDefaults(table, p)
        PROVE  PresetsTypeOK'
    <3>1. \A q \in DOMAIN table : [table[q] EXCEPT !.default = FALSE] \in Preset
      BY <2>1 DEF Preset
    <3> QED
      BY <2>1, <3>1 DEF ClearOtherDefaults, PresetsTypeOK
  <2>2. CASE CreatePreset
    <3>1. PICK p \in PresetIds \ DOMAIN presets, row \in Preset :
             presets' = ClearOtherDefaults(
                [q \in DOMAIN presets \cup {p} |-> IF q = p THEN row ELSE presets[q]], p)
      BY <2>2 DEF CreatePreset
    <3> DEFINE table == [q \in DOMAIN presets \cup {p} |-> IF q = p THEN row ELSE presets[q]]
    <3>2. DOMAIN table \subseteq PresetIds /\ \A q \in DOMAIN table : table[q] \in Preset
      BY DEF PresetsTypeOK
    <3> HIDE DEF table
    <3> QED
      BY <2>1, <3>1, <3>2 DEF table
  <2>3. CASE UpdatePreset
    <3>1. PICK p \in DOMAIN presets, row \in Preset :
             presets' = ClearOtherDefaults([presets EXCEPT ![p] = row], p)
      BY <2>3 DEF UpdatePreset, AfterUpdate
    <3> DEFINE table == [presets EXCEPT ![p] = row]
    <3>2. DOMAIN table \subseteq PresetIds /\ \A q \in DOMAIN table : table[q] \in Preset
      BY DEF PresetsTypeOK
    <3> HIDE DEF table
    <3> QED
      BY <2>1, <3>1, <3>2 DEF table
  <2>4. CASE DeletePreset \/ UNCHANGED presets
    BY <2>4 DEF DeletePreset, PresetsTypeOK
  <2> QED
    BY <2>2, <2>3, <2>4 DEF PresetsNext
<1> QED
  BY <1>1, <1>2, PTL DEF PresetsSpec

LEMMA BackupTypes == BackupSpec => []BackupTypeOK
<1> DEFINE NumbersOK == /\ day \in 1 .. MaxDay /\ startCount \in 0 .. MaxStarts
                        /\ copying = "copy" => startCount \in 1 .. MaxStarts
           NightsOK  == /\ DOMAIN nightly \subseteq 1 .. MaxDay
                        /\ \A d \in DOMAIN nightly : nightly[d] \in BOOLEAN
           StartsOK  == /\ DOMAIN premigrate \subseteq 1 .. MaxStarts
                        /\ \A s \in DOMAIN premigrate : premigrate[s] \in BOOLEAN
           PlaceOK   == copying \in {"no", "unlink", "vacuum", "prune", "copy", "prune starts"}
           CopiesOK  == copied \subseteq Copies /\ begun \subseteq Copies
           Inv       == NumbersOK /\ NightsOK /\ StartsOK /\ PlaceOK /\ CopiesOK
<1>1. BackupInit => Inv
  BY BackupAssumption DEF BackupInit
<1>2. Inv /\ [BackupNext]_backupVars => Inv'
  <2> SUFFICES ASSUME Inv, [BackupNext]_backupVars
               PROVE  Inv'
    OBVIOUS
  <2>1. \A whole \in BOOLEAN :
           /\ DOMAIN With(nightly, day, whole) \subseteq 1 .. MaxDay
           /\ \A d \in DOMAIN With(nightly, day, whole) : With(nightly, day, whole)[d] \in BOOLEAN
    BY DEF With
  <2>2. copying = "copy" => \A whole \in BOOLEAN :
           /\ DOMAIN With(premigrate, startCount, whole) \subseteq 1 .. MaxStarts
           /\ \A s \in DOMAIN With(premigrate, startCount, whole) :
                 With(premigrate, startCount, whole)[s] \in BOOLEAN
    BY DEF With
  <2>3. /\ <<"night", day>> \in Copies
        /\ copying = "copy" => <<"start", startCount>> \in Copies
    BY DEF Copies, Kinds
  <2>4. CASE NightTick \/ NextDay \/ UNCHANGED backupVars
    <3>1. NumbersOK'
      <4>1. startCount' = startCount /\ (copying' = "copy" => copying = "copy")
        BY <2>4 DEF NightTick, NextDay, backupVars
      <4>2. day' = day \/ (day < MaxDay /\ day' = day + 1)
        BY <2>4 DEF NightTick, NextDay, backupVars
      <4>3. day \in 1 .. MaxDay /\ MaxDay \in Nat
        BY BackupAssumption
      <4> HIDE DEF Inv
      <4>4. day' \in 1 .. MaxDay
        BY <4>2, <4>3
      <4> USE DEF Inv
      <4> QED
        BY <4>1, <4>4
    <3> QED
      BY <2>4, <3>1 DEF NightTick, NextDay, backupVars
  <2>5. CASE UnlinkToday
    BY <2>5 DEF UnlinkToday
  <2>6. CASE VacuumInto
    <3>1. nightly' = nightly \/ \E whole \in BOOLEAN : nightly' = With(nightly, day, whole)
      BY <2>6 DEF VacuumInto
    <3>2. NightsOK'
      BY <2>1, <3>1
    <3>3. CopiesOK'
      BY <2>3, <2>6 DEF VacuumInto
    <3> QED
      BY <2>6, <3>2, <3>3 DEF VacuumInto
  <2>7. CASE PruneNightly
    <3>1. NightsOK'
      BY <2>7 DEF PruneNightly, Newest
    <3> QED
      BY <2>7, <3>1 DEF PruneNightly
  <2>8. CASE StartContainer
    <3>1. NumbersOK'
      <4>1. day' = day /\ startCount < MaxStarts /\ startCount' = startCount + 1
        BY <2>8 DEF StartContainer
      <4>2. startCount \in 0 .. MaxStarts /\ MaxStarts \in Nat
        BY BackupAssumption
      <4>3. day' \in 1 .. MaxDay
        BY <4>1
      <4> HIDE DEF Inv
      <4>4. startCount' \in 1 .. MaxStarts /\ startCount' \in 0 .. MaxStarts
        BY <4>1, <4>2
      <4> QED
        BY <4>3, <4>4
    <3>2. nightly' = nightly \/ \E whole \in BOOLEAN : nightly' = With(nightly, day, whole)
      BY <2>8 DEF StartContainer
    <3>3. NightsOK'
      BY <2>1, <3>2
    <3>4. CopiesOK'
      BY <2>3, <2>8 DEF StartContainer
    <3> QED
      BY <2>8, <3>1, <3>3, <3>4 DEF StartContainer
  <2>9. CASE CopyDatabase
    <3>1. /\ copying = "copy"
          /\ \/ premigrate' = premigrate
             \/ \E whole \in BOOLEAN : premigrate' = With(premigrate, startCount, whole)
      BY <2>9 DEF CopyDatabase
    <3>2. StartsOK'
      BY <2>2, <3>1
    <3>3. CopiesOK'
      BY <2>3, <2>9 DEF CopyDatabase
    <3> QED
      BY <2>9, <3>2, <3>3 DEF CopyDatabase
  <2>10. CASE PruneStarts
    <3>1. StartsOK'
      BY <2>10 DEF PruneStarts, Newest
    <3> QED
      BY <2>10, <3>1 DEF PruneStarts
  <2> QED
    BY <2>4, <2>5, <2>6, <2>7, <2>8, <2>9, <2>10 DEF BackupNext
<1>3. Inv => BackupTypeOK
  BY DEF BackupTypeOK
<1> QED
  BY <1>1, <1>2, <1>3, PTL DEF BackupSpec

LEMMA SettingsTypes == SettingsSpec => []SettingsTypeOK
<1> DEFINE AnyBody == UNION {[fields -> Values \cup {Unset, Bad}] : fields \in SUBSET Fields}
           Given   == body \in [Patches -> AnyBody]
<1>1. Nobody \in AnyBody
  <2>1. Nobody \in [{} -> Values \cup {Unset, Bad}]
    BY DEF Nobody
  <2> QED
    BY <2>1
<1>2. Empty \in Stored
  BY DEF Empty, Stored
<1>3. SettingsInit => SettingsTypeOK /\ Given
  <2> SUFFICES ASSUME SettingsInit
               PROVE  SettingsTypeOK /\ Given
    OBVIOUS
  <2>1. Given
    BY <1>1 DEF SettingsInit
  <2>2. \A p \in Patches : DOMAIN body[p] \subseteq Fields
    BY DEF SettingsInit, Nobody
  <2> QED
    BY <1>2, <2>1, <2>2 DEF SettingsInit, SettingsTypeOK
<1>4. SettingsTypeOK /\ Given /\ [SettingsNext]_settingsVars => (SettingsTypeOK /\ Given)'
  <2> SUFFICES ASSUME SettingsTypeOK, Given, [SettingsNext]_settingsVars
               PROVE  SettingsTypeOK' /\ Given'
    OBVIOUS
  <2> USE DEF SettingsTypeOK
  <2>1. Given' => \A p \in Patches : DOMAIN body'[p] \subseteq Fields
    OBVIOUS
  <2>2. CASE PatchBegins
    <3>1. PICK p \in Patches, b \in Bodies :
             body' = [body EXCEPT ![p] = b] /\ read' = [read EXCEPT ![p] = rows]
      BY <2>2 DEF PatchBegins
    <3>2. b \in AnyBody
      BY DEF Bodies
    <3>3. Given' /\ read' \in [Patches -> Stored]
      BY <3>1, <3>2
    <3> QED
      BY <2>1, <2>2, <3>3 DEF PatchBegins
  <2>3. CASE PatchEnds
    <3>1. PICK p \in Patches :
             /\ body' = [body EXCEPT ![p] = Nobody]
             /\ read' = [read EXCEPT ![p] = Empty]
             /\ IF \E f \in DOMAIN body[p] : body[p][f] = Bad
                THEN UNCHANGED <<rows, accepted, lostKey>>
                ELSE /\ rows' = PatchWrites(p)
                     /\ accepted' = [f \in Fields |->
                           IF f \in DOMAIN body[p] THEN body[p][f] ELSE accepted[f]]
                     /\ lostKey' = (lostKey /\ "api_key" \notin DOMAIN body[p])
      BY <2>3 DEF PatchEnds
    <3>2. Given' /\ read' \in [Patches -> Stored]
      BY <1>1, <1>2, <3>1
    <3>3. rows' \in Stored /\ accepted' \in Stored
      <4>1. CASE \E f \in DOMAIN body[p] : body[p][f] = Bad
        BY <3>1, <4>1
      <4>2. CASE ~\E f \in DOMAIN body[p] : body[p][f] = Bad
        <5>1. \A f \in DOMAIN body[p] : body[p][f] \in Values \cup {Unset}
          BY <4>2
        <5>2. \A f \in Fields : rows[f] \in Values \cup {Unset}
                               /\ accepted[f] \in Values \cup {Unset}
                               /\ read[p][f] \in Values \cup {Unset}
          BY DEF Stored
        <5>3. rows' = PatchWrites(p)
          BY <3>1, <4>2
        <5>4. rows' \in Stored
          BY <5>1, <5>2, <5>3 DEF PatchWrites, Stored
        <5>5. accepted' = [f \in Fields |->
                              IF f \in DOMAIN body[p] THEN body[p][f] ELSE accepted[f]]
          BY <3>1, <4>2
        <5>6. accepted' \in Stored
          BY <5>1, <5>2, <5>5 DEF Stored
        <5> QED
          BY <5>4, <5>6
      <4> QED
        BY <4>1, <4>2
    <3>4. lostKey' \in BOOLEAN
      BY <3>1
    <3> QED
      BY <2>1, <2>3, <3>2, <3>3, <3>4 DEF PatchEnds
  <2>4. CASE LoseKey \/ UNCHANGED settingsVars
    BY <2>4 DEF LoseKey, settingsVars
  <2> QED
    BY <2>2, <2>3, <2>4 DEF SettingsNext
<1> QED
  BY <1>3, <1>4, PTL DEF SettingsSpec

\* Times of attempts and logins are of the clock so far.
LEMMA LimitTypes == LimitSpec => []LimitTypeOK
<1> DEFINE InTime == tick \in Ticks
<1>1. LimitInit => InTime
  BY LimitAssumption DEF LimitInit, Ticks
<1>2. InTime /\ [LimitNext]_limitVars => InTime'
  <2> SUFFICES ASSUME InTime, [LimitNext]_limitVars
               PROVE  InTime'
    OBVIOUS
  <2>1. tick' = tick \/ (tick < MaxTick /\ tick' = tick + 1)
    BY DEF LimitNext, TickOn, Granted, Refused, limitVars
  <2> QED
    BY <2>1, LimitAssumption DEF Ticks
<1>3. LimitInv /\ InTime => LimitTypeOK
  <2> SUFFICES ASSUME LimitInv, InTime
               PROVE  LimitTypeOK
    OBVIOUS
  <2>1. \A n \in Nat : n <= tick => n \in Ticks
    BY LimitAssumption DEF Ticks
  <2>2. ASSUME NEW a \in Addresses
        PROVE  granted[a] \in Seq(Ticks) /\ Deque(a) \in Seq(Ticks)
    <3> DEFINE logins == granted[a]
               deque  == Deque(a)
    <3>1. IsTailOf(deque, logins) /\ WellSpaced(logins)
      BY DEF LimitInv
    <3> HIDE DEF logins, deque
    <3>2. logins \in Seq(Nat) /\ \A i \in 1..Len(logins) : logins[i] \in Ticks
      BY <2>1, <3>1 DEF WellSpaced
    <3>3. logins \in Seq(Ticks)
      BY <3>2
    <3>4. deque \in Seq(Nat) /\ Len(deque) <= Len(logins)
      BY <3>1 DEF IsTailOf
    <3>5. ASSUME NEW i \in 1..Len(deque)
          PROVE  deque[i] \in Ticks
      <4>1. Len(logins) - Len(deque) + i \in 1..Len(logins)
        BY <3>2, <3>4
      <4> QED
        BY <3>1, <3>2, <4>1 DEF IsTailOf
    <3>6. deque \in Seq(Ticks)
      BY <3>4, <3>5
    <3> QED
      BY <3>3, <3>6 DEF logins, deque
  <2>3. \A a \in DOMAIN attempts : attempts[a] \in Seq(Ticks) /\ attempts[a] # <<>>
    <3>1. \A a \in DOMAIN attempts : a \in Addresses /\ attempts[a] = Deque(a)
      BY DEF LimitInv, Deque
    <3> QED
      BY <2>2, <3>1 DEF LimitInv
  <2>4. granted \in [Addresses -> Seq(Ticks)]
    BY <2>2 DEF LimitInv
  <2>5. refusal.at \in Ticks
    BY <2>1 DEF LimitInv
  <2> QED
    BY <2>3, <2>4, <2>5 DEF LimitInv, LimitTypeOK
<1> QED
  BY <1>1, <1>2, <1>3, LimitInvariant, PTL DEF LimitSpec

LEMMA PickersTypes == PickersSpec => []PickersTypeOK
<1> DEFINE Times == -1 .. MaxClock
           Calls == [began : Times, refresh : BOOLEAN, shelf : Shelves, answered : BOOLEAN]
           Pages == [began : Times, refresh : BOOLEAN, missing : BOOLEAN,
                     matches : SUBSET Titles, ended : Times, rows : SUBSET Titles]
           Shelved == library \in Seq(Shelves) /\ Len(library) \in 1 .. MaxClock
           Inv == /\ app \in {"radarr", "sonarr"} /\ Shelved /\ cache \in Lists
                  /\ calls \in [Readers -> Calls] /\ picker \in Pages
<1>0. Bare \in Shelves
  BY DEF Bare, Shelves
<1>1. PickersInit => Inv
  <2> SUFFICES ASSUME PickersInit
               PROVE  Inv
    OBVIOUS
  <2>1. Shelved
    BY <1>0, PickersAssumption DEF PickersInit
  <2>2. -1 \in Times
    BY PickersAssumption
  <2>3. NoList \in Lists /\ Idle \in Calls /\ NoPage \in Pages
    BY <1>0, <2>2 DEF NoList, Lists, Idle, NoPage
  <2> QED
    BY <2>1, <2>3 DEF PickersInit
<1>2. Inv /\ [PickersNext]_pickerVars => Inv'
  <2> SUFFICES ASSUME Inv, [PickersNext]_pickerVars
               PROVE  Inv'
    OBVIOUS
  <2>1. clock \in Times /\ library[clock] \in Shelves
    BY DEF clock
  <2>2. app' = app
    BY DEF PickersNext, pickerVars
  <2>3. NoPage \in Pages
    BY PickersAssumption DEF NoPage
  <2>4. ASSUME NEW began \in Times, NEW refresh \in BOOLEAN, NEW shelf, NEW call,
               call.began = began, call.refresh = refresh, Answer(call, shelf)
        PROVE  picker' \in Pages
    <3>1. PICK missing \in BOOLEAN, matches \in Queries :
             picker' = [began |-> began, refresh |-> refresh, missing |-> missing,
                        matches |-> matches, ended |-> clock,
                        rows |-> Listed(shelf, missing, matches)]
      BY <2>4 DEF Answer
    <3>2. matches \subseteq Titles /\ Listed(shelf, missing, matches) \subseteq Titles
      BY PickersAssumption DEF Listed, Asked
    <3> QED
      BY <2>1, <3>1, <3>2
  <2>5. CASE AnswerFromCache
    <3> DEFINE call == [began |-> clock, refresh |-> FALSE]
    <3>1. call.began = clock /\ call.refresh = FALSE /\ Answer(call, cache.shelf)
      BY <2>5 DEF AnswerFromCache
    <3> HIDE DEF call
    <3>2. picker' \in Pages
      BY <2>1, <2>4, <3>1
    <3> QED
      BY <2>5, <2>2, <3>2 DEF AnswerFromCache
  <2>6. CASE Second
    <3>1. PICK shelf \in Shelves : library' = Append(library, shelf)
      BY <2>6 DEF Second
    <3>2. Len(library) < MaxClock /\ UNCHANGED <<cache, calls>> /\ picker' = NoPage
      BY <2>6 DEF Second, clock
    <3>3. Shelved'
      BY <3>1, <3>2, PickersAssumption
    <3> QED
      BY <2>2, <2>3, <3>2, <3>3
  <2>7. ASSUME NEW r \in Readers, AskApp(r)
        PROVE  Inv'
    <3>1. PICK refresh \in BOOLEAN :
             calls' = [calls EXCEPT ![r] = [Idle EXCEPT !.began = clock, !.refresh = refresh]]
      BY <2>7 DEF AskApp
    <3>2. [Idle EXCEPT !.began = clock, !.refresh = refresh] \in Calls
      BY <1>0, <2>1 DEF Idle
    <3>3. picker' = NoPage /\ UNCHANGED <<library, cache>>
      BY <2>7 DEF AskApp
    <3> QED
      BY <2>2, <2>3, <3>1, <3>2, <3>3
  <2>8. ASSUME NEW r \in Readers, AppAnswers(r)
        PROVE  Inv'
    <3>1. calls' = [calls EXCEPT ![r] = [@ EXCEPT !.answered = TRUE, !.shelf = library[clock]]]
      BY <2>8 DEF AppAnswers
    <3>2. [calls[r] EXCEPT !.answered = TRUE, !.shelf = library[clock]] \in Calls
      BY <2>1
    <3>3. picker' = NoPage /\ UNCHANGED <<library, cache>>
      BY <2>8 DEF AppAnswers
    <3> QED
      BY <2>2, <2>3, <3>1, <3>2, <3>3
  <2>9. ASSUME NEW r \in Readers, ReceiveList(r) \/ CallFails(r)
        PROVE  Inv'
    <3>1. calls[r] \in Calls /\ Idle \in Calls
      BY <1>0, PickersAssumption DEF Idle
    <3>2. calls' = [calls EXCEPT ![r] = Idle] /\ library' = library
      BY <2>9 DEF ReceiveList, CallFails
    <3>3. cache' \in Lists
      BY <2>9, <3>1 DEF ReceiveList, CallFails, CachedAt, Lists
    <3>4. picker' \in Pages
      BY <2>4, <2>9, <2>3, <3>1 DEF ReceiveList, CallFails
    <3> QED
      BY <2>2, <3>1, <3>2, <3>3, <3>4
  <2>10. CASE UNCHANGED pickerVars
    BY <2>10 DEF pickerVars
  <2> QED
    BY <2>5, <2>6, <2>7, <2>8, <2>9, <2>10 DEF PickersNext
<1>3. Inv => PickersTypeOK
  BY DEF PickersTypeOK
<1> QED
  BY <1>1, <1>2, <1>3, PTL DEF PickersSpec

---------------------------------------------------------------------------
(* All of them together                                                    *)

\* A behaviour of MCServices is one of each service.
LEMMA EachOnItsOwn ==
  /\ Spec => SiteSpec /\ FolderSpec /\ ViewSpec /\ AccountSpec /\ LimitSpec
  /\ Spec => PresetsSpec /\ BackupSpec /\ SettingsSpec /\ PickersSpec /\ NamesSpec /\ RequestsSpec
<1>1. Init => /\ SiteInit /\ FolderInit /\ ViewInit /\ AccountInit /\ LimitInit /\ PresetsInit
              /\ BackupInit /\ SettingsInit /\ PickersInit /\ NamesInit /\ RequestsInit
  BY DEF Init
<1>2. [Next]_vars =>
        /\ [SiteNext]_siteVars /\ [FolderNext]_folderVars /\ [ViewNext]_viewVars
        /\ [AccountNext]_accountVars /\ [LimitNext]_limitVars /\ [PresetsNext]_presets
        /\ [BackupNext]_backupVars /\ [SettingsNext]_settingsVars /\ [PickersNext]_pickerVars
        /\ [NamesNext]_nameVars /\ [RequestsNext]_requestVars
  <2> SUFFICES ASSUME [Next]_vars
               PROVE  /\ [SiteNext]_siteVars /\ [FolderNext]_folderVars /\ [ViewNext]_viewVars
                      /\ [AccountNext]_accountVars /\ [LimitNext]_limitVars
                      /\ [PresetsNext]_presets /\ [BackupNext]_backupVars
                      /\ [SettingsNext]_settingsVars /\ [PickersNext]_pickerVars
                      /\ [NamesNext]_nameVars /\ [RequestsNext]_requestVars
    OBVIOUS
  <2>1. CASE UNCHANGED vars
    BY <2>1 DEF vars
  <2> QED
    BY <2>1 DEF Next, OnlySites, OnlyFolders, OnlyView, OnlySignIn, OnlyLogins, OnlyPresetRows,
                OnlyBackups, OnlyPatch, OnlyLists, OnlyNaming, OnlyWizard
<1> QED
  BY <1>1, <1>2, PTL DEF Spec, SiteSpec, FolderSpec, ViewSpec, AccountSpec, LimitSpec,
     PresetsSpec, BackupSpec, SettingsSpec, PickersSpec, NamesSpec, RequestsSpec

\* Every service's state is of its type, for any instance of them.
THEOREM ServicesKeepTypes == Spec => []ServicesTypes
<1>1. /\ SiteTypeOK /\ FolderTypeOK /\ ViewTypeOK /\ AccountTypeOK /\ LimitTypeOK
      /\ PresetsTypeOK /\ BackupTypeOK /\ SettingsTypeOK /\ PickersTypeOK
      => ServicesTypes
  BY DEF ServicesTypes
<1> QED
  BY <1>1, EachOnItsOwn, SiteTypes, FolderTypes, ViewTypes, AccountTypes, LimitTypes,
     PresetsTypes, BackupTypes, SettingsTypes, PickersTypes, PTL

\* What each service promises holds in the run of all of them, for any instance.
THEOREM ServicesKeepPromises ==
  /\ Spec => []OneDefaultPerType /\ []SignedOutStaysOut /\ []ActiveStaysSignedIn
  /\ Spec => []PlaintextEndsWithRun /\ []FreshStart /\ []CompletedHasFile /\ MarkedIsFinal
  /\ Spec => []SettingsCompose /\ []BackupsStay /\ []PageIsCurrent /\ []PickerIsRecent
  /\ Spec => []PreviewIsKept /\ []WindowIsExact /\ []NameFits
BY EachOnItsOwn, OneDefault, SignedOutIsOut, ActiveIsSignedIn, PlaintextIsShortLived, UploadIsFresh,
   CompletedIsDelivered, MarkedStaysEncoded, SettingsAreComposed, BackupsAreKept, PageCatchesUp,
   PickersAreRecent, PlacedAsPreviewed, WindowsAreExact, NamesFit, PTL
=============================================================================
