------------------------------ MODULE MCOrganizer ------------------------------
(* Small instances of Organizer for TLC: the cases the organizer starts from. *)
EXTENDS Organizer, TLC

\* What TLC starts from when the library may hold a video of that name, with or without
\* its subtitle; a replaced video has no subtitle here.
KeptOrReplaced ==
    {[existing |-> {}, policies |-> Policies],
     [existing |-> {"video"}, policies |-> Policies],
     [existing |-> {"video", "sub"}, policies |-> {"ask", "keep_both"}]}

\* A replaced video with its subtitle.
ReplacedWithSub == {[existing |-> {"video", "sub"}, policies |-> {"replace"}]}

\* Any policy over an empty library or one video.
AnyPolicy ==
    {[existing |-> {}, policies |-> Policies], [existing |-> {"video"}, policies |-> Policies]}

\* Nothing there at first; both jobs keep both.
EmptyKeepBoth == {[existing |-> {}, policies |-> {"keep_both"}]}

JobSymmetry == Permutations(Jobs)
=============================================================================
