---------------------------- MODULE MCStaffVotes ----------------------------
(* StaffVotes for TLC: tracks are alike, and so are colors. *)
EXTENDS StaffVotes, TLC

Symmetry == Permutations(Tracks) \cup Permutations(Colors)
=============================================================================
