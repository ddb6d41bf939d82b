-------------------------------- MODULE SerialPort --------------------------------
(***************************************************************************)
(* serial-port.js: a USB device made to look like a serial port            *)
(* (CdcAcmPort over WebUSB, the transport chosen on Android). The device   *)
(* is opened, its two interfaces are claimed and its line is raised before *)
(* there are streams; close() undoes it. Each await is a step of its own,  *)
(* and the cable may be pulled between any two.                            *)
(***************************************************************************)

VARIABLES
    portPc,     \* where open() or close() is; "none" without a port
    opened,     \* device_.opened
    dtr,        \* the device was told that the host is there
    readable,   \* "none", "open", "closed", "errored"
    writable,   \* "none", "open", "errored"
    writing,    \* a transferOut is under way
    plugged,    \* the cable is in
    refused     \* of letting the device go, what was tried last and failed: "line", "close"

streamVars == <<readable, writable, writing>>
portVars == <<portPc, opened, dtr, streamVars, plugged, refused>>

PortInit ==
    /\ portPc = "none" /\ opened = FALSE /\ dtr = FALSE /\ plugged = TRUE
    /\ readable = "none" /\ writable = "none" /\ writing = FALSE
    /\ refused = {}

-----------------------------------------------------------------------------
(* requestPort: the user picks a device, which is plugged in.              *)
NewPort ==
    /\ portPc' = "open" /\ plugged' = TRUE
    /\ UNCHANGED <<opened, dtr, streamVars, refused>>

OpenDevice ==
    /\ portPc = "open"
    /\ \/ plugged /\ opened' = TRUE /\ portPc' = "select"
       \/ UNCHANGED opened /\ portPc' = "failed"
    /\ UNCHANGED <<dtr, streamVars, plugged, refused>>

(* selectConfiguration may fail; the device may have no CDC interfaces or no *)
(* bulk endpoints, and is abandoned.                                        *)
FindInterfaces ==
    /\ portPc = "select"
    /\ portPc' \in {"claim", "abandon", "failed"}
    /\ UNCHANGED <<opened, dtr, streamVars, plugged, refused>>

(* The two interfaces are claimed and the line's coding is set: the system's *)
(* driver may own them, and the device may refuse.                          *)
ClaimInterfaces ==
    /\ portPc = "claim"
    /\ \/ opened /\ portPc' = "line"
       \/ portPc' = "abandon"
    /\ UNCHANGED <<opened, dtr, streamVars, plugged, refused>>

(* The answer to the line's own transfer is not looked at.                   *)
RaiseLine ==
    /\ portPc = "line"
    /\ \/ /\ opened
          /\ dtr' \in {dtr, TRUE} /\ readable' = "open" /\ writable' = "open"
          /\ portPc' = "live"
       \/ portPc' = "abandon" /\ UNCHANGED <<dtr, readable, writable>>
    /\ UNCHANGED <<opened, writing, plugged, refused>>

(* Closing the device may fail, here and in close(): it is tried, no more.    *)
Abandon ==
    /\ portPc = "abandon"
    /\ opened' \in {FALSE, opened} /\ portPc' = "failed"
    /\ UNCHANGED <<dtr, streamVars, plugged, refused>>

-----------------------------------------------------------------------------
(* The streams: reading ends with an error when a transfer fails, unless    *)
(* close() came first; a write is a transfer that ends well or with one.    *)
ReadFails ==
    /\ portPc = "live" /\ readable = "open"
    /\ readable' = "errored"
    /\ UNCHANGED <<portPc, opened, dtr, writable, writing, plugged, refused>>

Write ==
    /\ writable = "open" /\ ~writing
    /\ writing' = TRUE
    /\ UNCHANGED <<portPc, opened, dtr, readable, writable, plugged, refused>>

WriteEnds ==
    /\ writing
    /\ writing' = FALSE
    /\ \/ opened /\ UNCHANGED writable
       \/ writable # "none" /\ writable' = "errored"
    /\ UNCHANGED <<portPc, opened, dtr, readable, plugged, refused>>

-----------------------------------------------------------------------------
(* close(). Its caller holds no writer any more: abort() waits for the write *)
(* under way and ends the stream.                                           *)
ClosePort == portPc' = "abort" /\ UNCHANGED <<opened, dtr, writable, writing, plugged, refused>>

AbortWrites ==
    /\ portPc = "abort" /\ ~writing
    /\ readable' = "none" /\ writable' = "none"
    /\ portPc' = "drop"
    /\ UNCHANGED <<opened, dtr, writing, plugged, refused>>

(* What is tried last of letting the device go, and its outcome.             *)
Tried(what, done) == refused' = IF done THEN refused \ {what} ELSE refused \cup {what}

(* Slip: a line that cannot be dropped ends close(). *)
DropLineOrLeave ==
    /\ portPc = "drop"
    /\ \/ dtr' = FALSE /\ Tried("line", TRUE) /\ portPc' = "shut"
       \/ opened /\ UNCHANGED dtr /\ Tried("line", FALSE) /\ portPc' = "closed"
    /\ UNCHANGED <<opened, streamVars, plugged>>

(* An open device is told; a failure of either step is swallowed, and the      *)
(* other is tried all the same.                                             *)
DropLine ==
    /\ portPc = "drop" /\ portPc' = "shut"
    /\ \/ (opened \/ ~dtr) /\ dtr' = FALSE /\ Tried("line", TRUE)
       \/ UNCHANGED dtr /\ Tried("line", FALSE)
    /\ UNCHANGED <<opened, streamVars, plugged>>

ShutDevice ==
    /\ portPc = "shut" /\ portPc' = "closed"
    /\ \/ opened' = FALSE /\ Tried("close", TRUE)
       \/ opened /\ UNCHANGED opened /\ Tried("close", FALSE)
    /\ UNCHANGED <<dtr, streamVars, plugged>>

(* The cable is pulled: the browser closes the device, and its transfers    *)
(* fail.                                                                    *)
Unplug ==
    /\ plugged /\ portPc # "none"
    /\ plugged' = FALSE /\ opened' = FALSE /\ dtr' = FALSE /\ refused' = {}
    /\ UNCHANGED <<portPc, streamVars>>

PortSteps ==
    \/ OpenDevice \/ FindInterfaces \/ ClaimInterfaces \/ RaiseLine \/ Abandon
    \/ AbortWrites \/ DropLine \/ ShutDevice

PortTypeOK ==
    /\ portPc \in {"none", "open", "select", "claim", "line", "live", "abandon", "failed",
                   "abort", "drop", "shut", "closed"}
    /\ opened \in BOOLEAN /\ dtr \in BOOLEAN /\ writing \in BOOLEAN /\ plugged \in BOOLEAN
    /\ readable \in {"none", "open", "closed", "errored"}
    /\ writable \in {"none", "open", "errored"}
    /\ refused \subseteq {"line", "close"}

=============================================================================
