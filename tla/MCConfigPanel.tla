------------------------------- MODULE MCConfigPanel -------------------------------
(* ConfigPanel for TLC: over the air, the first command of one of the lists *)
(* is not the user's to run.                                                *)
EXTENDS ConfigPanel, TLC

CONSTANTS p, q

MCDenied == {<<p, 1>>}

=============================================================================
