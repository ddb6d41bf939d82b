------------------------------- MODULE MCPasskeys -------------------------------
(* Passkeys for TLC.                                                        *)
EXTENDS Passkeys, TLC

=============================================================================
