------------------------------- MODULE MCExchange -------------------------------
(* Small instances of Exchange for TLC: their constants are all numbers. *)
EXTENDS Exchange

=============================================================================
