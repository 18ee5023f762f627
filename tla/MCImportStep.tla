------------------------------ MODULE MCImportStep -----------------------------
(* Small instances of ImportStep for TLC. *)
EXTENDS ImportStep

\* Both apps; titles picked in arr, one of which had another file before; and an app that
\* is not configured.
PickedTitles ==
    {[app |-> a, configured |-> TRUE, picked |-> Jobs, hadFile |-> h] :
        a \in Apps, h \in {{}, {CHOOSE j \in Jobs : TRUE}}}
    \cup {[app |-> "Radarr", configured |-> FALSE, picked |-> Jobs, hadFile |-> {}]}

\* As above, and a typed title, of which arr has no id.
AllTitles ==
    PickedTitles
    \cup {[app |-> "Radarr", configured |-> TRUE, picked |-> {}, hadFile |-> {}]}

\* Typed titles only.
TypedTitles == {[app |-> a, configured |-> TRUE, picked |-> {}, hadFile |-> {}] : a \in Apps}
=============================================================================
