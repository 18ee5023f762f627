--------------------------------- MODULE Backup --------------------------------
(***************************************************************************)
(* The backups folder (backend/app/db/backup.py): a copy before the        *)
(* migrations of every start, and a dated one every night that replaces an *)
(* earlier one of that day. Either keeps the newest of its own kind. A     *)
(* copy may fail or the process stop at any point; what was written of the *)
(* copy so far stays behind under its name.                                *)
(***************************************************************************)
EXTENDS Naturals, FiniteSets

CONSTANTS
    Keep,          \* KEEP, for the copies before a migration
    KeepNightly,   \* KEEP_NIGHTLY
    MaxDay,        \* bound on the days
    MaxStarts      \* bound on the starts

ASSUME BackupAssumption ==
    /\ Keep \in Nat \ {0} /\ KeepNightly \in Nat \ {0}
    /\ MaxDay \in Nat \ {0} /\ MaxStarts \in Nat

VARIABLES
    day,           \* today
    startCount,    \* how many times the container was started
    nightly,       \* the dated files: day -> whether the file is whole
    premigrate,    \* the files of the starts, likewise
    copying,       \* where the nightly run or the start is
    copied,        \* the finished copies, but for one of today that is made again
    begun          \* every copy that was begun

backupVars == <<day, startCount, nightly, premigrate, copying, copied, begun>>

Kinds  == {"night", "start"}
Copies == Kinds \X (1 .. MaxDay \cup 1 .. MaxStarts)

BackupTypeOK ==
    /\ day \in 1 .. MaxDay /\ startCount \in 0 .. MaxStarts
    /\ DOMAIN nightly \subseteq 1 .. MaxDay /\ DOMAIN premigrate \subseteq 1 .. MaxStarts
    /\ \A d \in DOMAIN nightly : nightly[d] \in BOOLEAN
    /\ \A s \in DOMAIN premigrate : premigrate[s] \in BOOLEAN
    /\ copying \in {"no", "unlink", "vacuum", "prune", "copy", "prune starts"}
    /\ copied \subseteq Copies /\ begun \subseteq Copies

BackupInit ==
    /\ day = 1 /\ startCount = 0
    /\ nightly = [d \in {} |-> TRUE] /\ premigrate = [s \in {} |-> TRUE]
    /\ copying = "no" /\ copied = {} /\ begun = {}

With(files, f, whole) == [g \in DOMAIN files \cup {f} |-> IF g = f THEN whole ELSE files[g]]

\* Names sort by date, so the newest are the last ones.
Newest_OneLess(files, keep) ==
    [f \in {g \in DOMAIN files : Cardinality({h \in DOMAIN files : h > g}) < keep - 1} |-> files[f]]
Newest(files, keep) ==
    [f \in {g \in DOMAIN files : Cardinality({h \in DOMAIN files : h > g}) < keep} |-> files[f]]

---------------------------------------------------------------------------
(* nightly_backup                                                          *)

\* The tick may come twice in one day, and not at all while the container is down.
NightTick ==
    /\ copying = "no" /\ startCount > 0
    /\ copying' = "unlink"
    /\ UNCHANGED <<day, startCount, nightly, premigrate, copied, begun>>

UnlinkToday ==
    /\ copying = "unlink"
    /\ copying' = "vacuum"
    /\ nightly' = [d \in DOMAIN nightly \ {day} |-> nightly[d]]
    /\ copied' = copied \ {<<"night", day>>}
    /\ UNCHANGED <<day, startCount, premigrate, begun>>

\* Under the write lock. A failed one ends the run before anything is pruned.
VacuumInto ==
    /\ copying = "vacuum"
    /\ \/ /\ copying' = "prune"
          /\ nightly' = With(nightly, day, TRUE)
          /\ copied' = copied \cup {<<"night", day>>}
       \/ /\ copying' = "no"
          /\ nightly' \in {nightly, With(nightly, day, FALSE)}
          /\ UNCHANGED copied
    /\ begun' = begun \cup {<<"night", day>>}
    /\ UNCHANGED <<day, startCount, premigrate>>

PruneNightly ==
    /\ copying = "prune"
    /\ copying' = "no"
    /\ nightly' = Newest(nightly, KeepNightly)
    /\ UNCHANGED <<day, startCount, premigrate, copied, begun>>

---------------------------------------------------------------------------
(* backup_database, before the migrations of a start                       *)

StartContainer ==
    /\ startCount < MaxStarts
    /\ startCount' = startCount + 1
    /\ copying' = "copy"
    /\ IF copying = "vacuum"
       THEN /\ nightly' \in {nightly, With(nightly, day, FALSE)}
            /\ begun' = begun \cup {<<"night", day>>}
       ELSE UNCHANGED <<nightly, begun>>
    /\ UNCHANGED <<day, premigrate, copied>>

CopyDatabase ==
    /\ copying = "copy"
    /\ \/ /\ copying' = "prune starts"
          /\ premigrate' = With(premigrate, startCount, TRUE)
          /\ copied' = copied \cup {<<"start", startCount>>}
       \/ /\ copying' = "no"
          /\ premigrate' \in {premigrate, With(premigrate, startCount, FALSE)}
          /\ UNCHANGED copied
    /\ begun' = begun \cup {<<"start", startCount>>}
    /\ UNCHANGED <<day, startCount, nightly>>

PruneStarts ==
    /\ copying = "prune starts"
    /\ copying' = "no"
    /\ premigrate' = Newest(premigrate, Keep)
    /\ UNCHANGED <<day, startCount, nightly, copied, begun>>

NextDay ==
    /\ day < MaxDay /\ copying = "no"
    /\ day' = day + 1
    /\ UNCHANGED <<startCount, nightly, premigrate, copying, copied, begun>>

BackupNext ==
    \/ NightTick \/ UnlinkToday \/ VacuumInto \/ PruneNightly
    \/ StartContainer \/ CopyDatabase \/ PruneStarts \/ NextDay

BackupSpec == BackupInit /\ [][BackupNext]_backupVars
---------------------------------------------------------------------------
(* Properties                                                              *)

\* "keep only the newest `keep` of them" and "keeps its own count of its own files"
\* (backup.py): a finished copy is there and whole until `keep` newer ones of its kind were
\* begun, whatever fails in between and however often a night or a start repeats. (A newer
\* copy counts although it is not whole.)
Newer(c) == {b \in begun : b[1] = c[1] /\ b[2] > c[2]}
Held(files, c) == c[2] \in DOMAIN files /\ files[c[2]]
BackupsStay ==
    \A c \in copied :
        IF c[1] = "night" THEN Cardinality(Newer(c)) < KeepNightly => Held(nightly, c)
                          ELSE Cardinality(Newer(c)) < Keep => Held(premigrate, c)
=============================================================================
