-------------------------------- MODULE Presets --------------------------------
(***************************************************************************)
(* The saved option bundles (backend/app/presets/service.py): create,      *)
(* update with any of its fields, and delete, each in one transaction.     *)
(* Nothing in the table itself limits the defaults.                        *)
(***************************************************************************)
CONSTANTS
    PresetIds,
    MediaTypes

VARIABLE presets      \* the rows: media type and is_default of each id

Preset == [type : MediaTypes, default : BOOLEAN]

PresetsTypeOK ==
    /\ DOMAIN presets \subseteq PresetIds
    /\ \A p \in DOMAIN presets : presets[p] \in Preset

PresetsInit == presets = [p \in {} |-> {}]

\* _clear_other_defaults, for a preset that is the default after the write.
ClearOtherDefaults(rows, p) ==
    [q \in DOMAIN rows |->
        IF q # p /\ rows[p].default /\ rows[q].type = rows[p].type
        THEN [rows[q] EXCEPT !.default = FALSE] ELSE rows[q]]

CreatePreset ==
    \E p \in PresetIds \ DOMAIN presets, row \in Preset :
        presets' = ClearOtherDefaults(
            [q \in DOMAIN presets \cup {p} |-> IF q = p THEN row ELSE presets[q]], p)

\* A field that is not in the body keeps its value; what is cleared depends on the row after
\* the write, whether or not the body asked for a default.
AfterUpdate_AskedOnly(p, row, asked) ==
    LET rows == [presets EXCEPT ![p] = row]
    IN  IF asked THEN ClearOtherDefaults(rows, p) ELSE rows
AfterUpdate(p, row, asked) == ClearOtherDefaults([presets EXCEPT ![p] = row], p)

UpdatePreset ==
    \E p \in DOMAIN presets, row \in Preset, asked \in BOOLEAN :
        /\ ~asked => row.default = presets[p].default
        /\ presets' = AfterUpdate(p, row, asked)

DeletePreset ==
    \E p \in DOMAIN presets : presets' = [q \in DOMAIN presets \ {p} |-> presets[q]]

PresetsNext == CreatePreset \/ UpdatePreset \/ DeletePreset

PresetsSpec == PresetsInit /\ [][PresetsNext]_presets
---------------------------------------------------------------------------
(* Properties                                                              *)

\* "One default per media type: setting a new one unsets the old" (_clear_other_defaults):
\* also when a default preset moves to a media type that has one.
OneDefaultPerType ==
    \A p, q \in DOMAIN presets :
        presets[p].default /\ presets[q].default /\ presets[p].type = presets[q].type
            => p = q
=============================================================================
