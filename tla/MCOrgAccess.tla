------------------------------ MODULE MCOrgAccess ------------------------------
(* Small instances of OrgAccess for TLC. *)
EXTENDS OrgAccess, TLC

MCKeyOf == [r \in Repeaters |-> r]

MCSymmetry == Permutations(Users) \cup Permutations(Commands) \cup Permutations(Slots)

=============================================================================
