------------------------------- MODULE MCSharing -------------------------------
(* Small instances of Sharing for TLC. *)
EXTENDS Sharing, TLC

(* The two repeater rows of a run, if it has two, carry one public key: two *)
(* people registered the same device.                                       *)
MCKeyOf == [r \in Repeaters |-> "key"]

MCSymmetry == Permutations(Users) \cup Permutations(Commands)
    \cup Permutations(Links) \cup Permutations(Slots)

=============================================================================
