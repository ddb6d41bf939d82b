------------------------------- MODULE MCNetModem -------------------------------
(* Small instances of NetModem for TLC. *)
EXTENDS NetModem, TLC

MCSymmetry == Permutations(Members) \cup Permutations(Runs)

=============================================================================
