------------------------------- MODULE MCServices -------------------------------
(***************************************************************************)
(* The services beside the job queue, on small instances, in one run. They *)
(* share no state and no property relates two of them, so a behaviour is   *)
(* one of the services' own: `focus` picks which, and the others stand     *)
(* still in one initial state.                                             *)
(***************************************************************************)
EXTENDS SiteCookies, JobFolder, LiveView, Account, LoginLimit, Presets, Backup,
        SettingsStore, Pickers, Names, Requests

VARIABLE focus

QuerySample   == {{1, 2}, {2}}
TitleSample   == BoundedSeq({"a", "W", ":", ".", " "}, 3)
EpisodeSample == BoundedSeq({"a", "W", ":", ".", " ", "?"}, 2)

Services == {"sites", "folders", "view", "account", "logins", "presets", "backup",
             "settings", "pickers", "names", "requests"}

Init ==
    /\ focus \in Services
    /\ SiteInit /\ FolderInit /\ ViewInit /\ AccountInit /\ LimitInit /\ PresetsInit
    /\ BackupInit /\ SettingsInit /\ PickersInit /\ NamesInit /\ RequestsInit
    /\ focus # "sites" => ~overlap /\ ~builtin
    /\ focus # "folders" => profile = "off"
    /\ focus # "settings" => fromEnv = {}
    /\ focus # "pickers" => app = "radarr"

Only(service) == focus = service /\ UNCHANGED focus

OnlySites ==
    /\ Only("sites") /\ SiteNext
    /\ UNCHANGED <<folderVars, viewVars, accountVars, limitVars, presets, backupVars, settingsVars,
                   pickerVars, nameVars, requestVars>>

OnlyFolders ==
    /\ Only("folders") /\ FolderNext
    /\ UNCHANGED <<siteVars, viewVars, accountVars, limitVars, presets, backupVars, settingsVars,
                   pickerVars, nameVars, requestVars>>

OnlyView ==
    /\ Only("view") /\ ViewNext
    /\ UNCHANGED <<siteVars, folderVars, accountVars, limitVars, presets, backupVars, settingsVars,
                   pickerVars, nameVars, requestVars>>

OnlySignIn ==
    /\ Only("account") /\ AccountNext
    /\ UNCHANGED <<siteVars, folderVars, viewVars, limitVars, presets, backupVars, settingsVars,
                   pickerVars, nameVars, requestVars>>

OnlyLogins ==
    /\ Only("logins") /\ LimitNext
    /\ UNCHANGED <<siteVars, folderVars, viewVars, accountVars, presets, backupVars, settingsVars,
                   pickerVars, nameVars, requestVars>>

OnlyPresetRows ==
    /\ Only("presets") /\ PresetsNext
    /\ UNCHANGED <<siteVars, folderVars, viewVars, accountVars, limitVars, backupVars,
                   settingsVars, pickerVars, nameVars, requestVars>>

OnlyBackups ==
    /\ Only("backup") /\ BackupNext
    /\ UNCHANGED <<siteVars, folderVars, viewVars, accountVars, limitVars, presets, settingsVars,
                   pickerVars, nameVars, requestVars>>

OnlyPatch ==
    /\ Only("settings") /\ SettingsNext
    /\ UNCHANGED <<siteVars, folderVars, viewVars, accountVars, limitVars, presets, backupVars,
                   pickerVars, nameVars, requestVars>>

\* Bound: one title of the library changes in a second.
OneChange ==
    clock' # clock =>
        Cardinality({t \in Titles : library'[clock'][t] # library[clock][t]}) <= 1

OnlyLists ==
    /\ Only("pickers") /\ PickersNext /\ OneChange
    /\ UNCHANGED <<siteVars, folderVars, viewVars, accountVars, limitVars, presets, backupVars,
                   settingsVars, nameVars, requestVars>>

OnlyNaming ==
    /\ Only("names") /\ NamesNext
    /\ UNCHANGED <<siteVars, folderVars, viewVars, accountVars, limitVars, presets, backupVars,
                   settingsVars, pickerVars, requestVars>>

\* Bound: once the request is made, when nothing reads the inspections any more, they stay.
NoMoreInspections == Created => UNCHANGED inspections

OnlyWizard ==
    /\ Only("requests") /\ RequestsNext /\ NoMoreInspections
    /\ UNCHANGED <<siteVars, folderVars, viewVars, accountVars, limitVars, presets, backupVars,
                   settingsVars, pickerVars, nameVars>>

Next ==
    \/ OnlySites \/ OnlyFolders \/ OnlyView \/ OnlySignIn \/ OnlyLogins \/ OnlyPresetRows
    \/ OnlyBackups \/ OnlyPatch \/ OnlyLists \/ OnlyNaming \/ OnlyWizard

vars ==
    <<focus, siteVars, folderVars, viewVars, accountVars, limitVars, presets, backupVars,
      settingsVars, pickerVars, nameVars, requestVars>>

Spec == Init /\ [][Next]_vars

\* Every service's state is of its type: of all but Names and Requests, whose values are only
\* made and compared.
ServicesTypes ==
    /\ SiteTypeOK /\ FolderTypeOK /\ ViewTypeOK /\ AccountTypeOK /\ LimitTypeOK
    /\ PresetsTypeOK /\ BackupTypeOK /\ SettingsTypeOK /\ PickersTypeOK
=============================================================================
