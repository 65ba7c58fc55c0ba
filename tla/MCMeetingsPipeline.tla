------------------------ MODULE MCMeetingsPipeline ------------------------
(* Instances of MeetingsPipeline for TLC. *)
EXTENDS MeetingsPipeline, TLC

Symmetry == Permutations(Credentials) \union Permutations(Slots)
=============================================================================
