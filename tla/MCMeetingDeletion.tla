------------------------- MODULE MCMeetingDeletion -------------------------
(* Instances of MeetingDeletion for TLC. *)
EXTENDS MeetingDeletion, TLC

Symmetry == Permutations(OriginalPuts) \union Permutations(ResultPuts) \union Permutations(Sweeps)
=============================================================================
