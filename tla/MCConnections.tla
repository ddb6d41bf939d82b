------------------------------ MODULE MCConnections ------------------------------
(* ConfigureTab for TLC.                                                    *)
EXTENDS ConfigureTab, TLC

=============================================================================
