----------------------------- MODULE SettingsStore -----------------------------
(***************************************************************************)
(* The stored settings (backend/app/settings/service.py): PATCH changes    *)
(* only the fields it has, merges the maps (a quality per transcode        *)
(* profile; the naming templates merge the same way), and is refused as a  *)
(* whole for one bad value. Calls may overlap: each is one write session,  *)
(* and merges what it read under the write lock. The environment wins over *)
(* what is stored, and a secret that another SECRET_KEY encrypted reads as *)
(* not set.                                                                *)
(***************************************************************************)
CONSTANTS
    Patches,      \* PATCH calls that may overlap
    Profiles,     \* transcode profiles
    Values,       \* values of a setting
    KeyIsLost     \* whether SECRET_KEY is lost at some restart

Unset      == "unset"
Bad        == "bad"
Connection == {"url", "api_key"}
Fields     == Connection \cup Profiles
Nobody     == [f \in {} |-> Unset]

VARIABLES
    fromEnv,    \* the connection fields that the environment sets (never changes)
    rows,       \* what is stored; the profiles are the fields of one row
    lostKey,    \* whether the stored api_key is of a SECRET_KEY that is gone
    body,       \* the body of each call that is in its transaction
    read,       \* the rows as it read them
    accepted    \* the value each field was last given by a call that was not refused

settingsVars == <<fromEnv, rows, lostKey, body, read, accepted>>

Stored == [Fields -> Values \cup {Unset}]
Empty  == [f \in Fields |-> Unset]

SettingsTypeOK ==
    /\ fromEnv \subseteq Connection
    /\ rows \in Stored /\ accepted \in Stored
    /\ read \in [Patches -> Stored]
    /\ \A p \in Patches : DOMAIN body[p] \subseteq Fields
    /\ lostKey \in BOOLEAN

SettingsInit ==
    /\ fromEnv \in SUBSET Connection
    /\ rows = Empty /\ accepted = Empty
    /\ read = [p \in Patches |-> Empty]
    /\ body = [p \in Patches |-> Nobody]
    /\ lostKey = FALSE

---------------------------------------------------------------------------
(* update                                                                  *)

\* write_session lets one call in at a time.
Enter_Unlocked(p) == body[p] = Nobody
Enter(p) == \A q \in Patches : body[q] = Nobody

\* A body gives some fields a value, an empty one or a bad one; a map is emptied as a whole.
Bodies ==
    {b \in UNION {[fields -> Values \cup {Unset, Bad}] : fields \in SUBSET Fields \ {{}}} :
        \A f \in DOMAIN b \cap Profiles : b[f] = Unset =>
            Profiles \subseteq DOMAIN b /\ \A g \in Profiles : b[g] = Unset}

PatchBegins ==
    \E p \in Patches, b \in Bodies :
        /\ Enter(p)
        /\ body' = [body EXCEPT ![p] = b]
        /\ read' = [read EXCEPT ![p] = rows]
        /\ UNCHANGED <<fromEnv, rows, lostKey, accepted>>

\* The fields that are rows are stored or deleted; the map is what was read with the
\* changes over it, and its row is only written when the body has it.
PatchWrites(p) ==
    [f \in Fields |->
        CASE f \in DOMAIN body[p] -> body[p][f]
          [] f \in Profiles \ DOMAIN body[p] /\ Profiles \cap DOMAIN body[p] # {} -> read[p][f]
          [] OTHER -> rows[f]]

PatchEnds ==
    \E p \in Patches :
        /\ body[p] # Nobody
        /\ body' = [body EXCEPT ![p] = Nobody]
        /\ read' = [read EXCEPT ![p] = Empty]
        /\ IF \E f \in DOMAIN body[p] : body[p][f] = Bad
           THEN UNCHANGED <<rows, accepted, lostKey>>
           ELSE /\ rows' = PatchWrites(p)
                /\ accepted' = [f \in Fields |->
                      IF f \in DOMAIN body[p] THEN body[p][f] ELSE accepted[f]]
                /\ lostKey' = (lostKey /\ "api_key" \notin DOMAIN body[p])
        /\ UNCHANGED fromEnv

\* A restart with another SECRET_KEY: load_secret_key takes or generates it.
LoseKey ==
    /\ KeyIsLost /\ ~lostKey
    /\ \A p \in Patches : body[p] = Nobody
    /\ lostKey' = (rows["api_key"] # Unset)
    /\ UNCHANGED <<fromEnv, rows, body, read, accepted>>

SettingsNext == PatchBegins \/ PatchEnds \/ LoseKey

SettingsSpec == SettingsInit /\ [][SettingsNext]_settingsVars
---------------------------------------------------------------------------
(* What the rest of the program reads: radarr and sonarr, transcode_quality *)

Decrypted(f) == IF f = "api_key" /\ lostKey THEN Unset ELSE rows[f]
InForce(f) == IF f \in fromEnv THEN "environment" ELSE Decrypted(f)
Connected == \A f \in Connection : InForce(f) # Unset
---------------------------------------------------------------------------
(* Properties                                                              *)

\* "Only the given fields change; an empty string removes one" and "A PATCH of one profile
\* leaves the others alone" (update): with calls that overlap, are refused half-way or set
\* several fields, everything reads as it was last accepted, and a connection is used
\* exactly when both its parts are known.
SettingsCompose ==
    /\ \A f \in Fields \ fromEnv : f # "api_key" \/ ~lostKey => InForce(f) = accepted[f]
    /\ Connected <=> \A f \in Connection :
          f \in fromEnv \/ (accepted[f] # Unset /\ ~(f = "api_key" /\ lostKey))
=============================================================================
