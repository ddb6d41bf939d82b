------------------------------ MODULE MeshTransport ------------------------------
(***************************************************************************)
(* What a page may rely on from a connection to a repeater, whichever it   *)
(* is: the shape air-console.js lists and usb-console.js shares. AirConsole *)
(* and UsbConsole implement it; ConfigureTab's page and its configuration  *)
(* panel use nothing else of them.                                         *)
(***************************************************************************)
EXTENDS Naturals

VARIABLES
    phase,      \* "idle", "connecting", "ready"
    owed        \* commands accepted, whose mesh:status may still come

vars == <<phase, owed>>

Init == phase = "idle" /\ owed = 0

Connect == phase = "idle" /\ phase' = "connecting" /\ UNCHANGED owed

Ready == phase = "connecting" /\ phase' = "ready" /\ UNCHANGED owed

(* A connection ends whenever it likes, and may forget what it owes.        *)
Close == phase # "idle" /\ phase' = "idle" /\ owed' \in 0 .. owed

(* send(): a command is accepted from a ready connection only.              *)
Send == phase = "ready" /\ owed' = owed + 1 /\ UNCHANGED phase

(* mesh:status: an accepted command is reported once or never, also after    *)
(* the end of the connection it was sent on.                                *)
Settle == owed > 0 /\ owed' = owed - 1 /\ UNCHANGED phase

Next == Connect \/ Ready \/ Close \/ Send \/ Settle

Spec == Init /\ [][Next]_vars

=============================================================================
