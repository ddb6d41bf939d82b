------------------------------- MODULE MCRegionMaps -------------------------------
(* RegionMaps for TLC: the editor and a picker, open in two tabs.           *)
EXTENDS RegionMaps, TLC

MCMaps == {Editor, Picker}

MCSymmetry == Permutations(Points)

=============================================================================
