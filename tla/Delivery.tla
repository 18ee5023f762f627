-------------------------------- MODULE Delivery --------------------------------
(***************************************************************************)
(* What the library organizer promises (backend/app/library/organizer.py): *)
(* every file it handles is always in exactly one place, whole, and only   *)
(* ever moves on. A job's files go from its folder to the library, its     *)
(* subtitles before its video; a file that was in the library may be put   *)
(* aside for a replacement.                                                *)
(***************************************************************************)
CONSTANTS
    Jobs,   \* the jobs whose files are delivered
    Old     \* the owner of the files that were in the library before

Kinds  == {"sub", "video"}
Files  == (Jobs \cup {Old}) \X Kinds
Places == {"absent", "folder", "library", "aside"}

VARIABLE place

Init ==
    /\ place \in [Files -> Places]
    /\ \A j \in Jobs : place[<<j, "video">>] = "folder"
                       /\ place[<<j, "sub">>] \in {"absent", "folder"}
    /\ \A k \in Kinds : place[<<Old, k>>] \in {"absent", "library"}

Deliver(j, k) ==
    /\ place[<<j, k>>] = "folder"
    /\ k = "video" => place[<<j, "sub">>] # "folder"
    /\ place' = [place EXCEPT ![<<j, k>>] = "library"]

SetAside(f) ==
    /\ place[f] = "library"
    /\ place' = [place EXCEPT ![f] = "aside"]

Next ==
    \/ \E j \in Jobs, k \in Kinds : Deliver(j, k)
    \/ \E f \in Files : SetAside(f)

Spec == Init /\ [][Next]_place
=============================================================================
