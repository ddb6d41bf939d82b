-------------------------------- MODULE AirConsole --------------------------------
(***************************************************************************)
(* The over-the-air connection of a Configure tab: air-console.js over the *)
(* byte pipe of mesh-bridge.js, which joins a serial port (SerialPort) to a *)
(* WebSocket. The server at the other end is Console.tla's; here it is what *)
(* the browser sees of it: it may log in, answer, and close at any time.   *)
(***************************************************************************)
EXTENDS Naturals, SerialPort

CONSTANT MaxOwed    \* commands under way at once

ASSUME AirAssumption == MaxOwed \in Nat

VARIABLES
    airOpening,     \* MeshBridge.open: "no", "pick" (the picker is up), "port"
    airCleanup,     \* cleanup(): "no", "cancel", "port"
    ws,             \* "none", "connecting", "open", "closed"
    bridge,         \* air-console.js holds a bridge
    airConnecting,
    airReady,
    airOwed         \* commands the server has not reported

airVars == <<airOpening, airCleanup, ws, bridge, airConnecting, airReady, airOwed, portVars>>

AirInit ==
    /\ airOpening = "no" /\ airCleanup = "no" /\ ws = "none"
    /\ bridge = FALSE /\ airConnecting = FALSE /\ airReady = FALSE /\ airOwed = 0
    /\ PortInit

-----------------------------------------------------------------------------
(* Opening.                                                                 *)

AirIdle == ~airReady /\ ~bridge /\ ~airConnecting

(* connect(): nothing happens unless the console is idle.                   *)
AirConnect ==
    IF AirIdle
      THEN /\ airConnecting' = TRUE /\ airOpening' = "pick"
           /\ UNCHANGED <<airCleanup, ws, bridge, airReady, airOwed, portVars>>
      ELSE UNCHANGED airVars

(* The user picks a device, or gives up, which ends in cleanup().           *)
AirPick ==
    /\ airOpening = "pick"
    /\ \/ NewPort /\ airOpening' = "port" /\ UNCHANGED airCleanup
       \/ airOpening' = "no" /\ airCleanup' = "cancel" /\ UNCHANGED portVars
    /\ UNCHANGED <<ws, bridge, airConnecting, airReady, airOwed>>

(* The port is open: the reader and the writer are taken, the socket is on   *)
(* its way, and the bridge is the console's.                                *)
AirPortOpens ==
    /\ airOpening = "port" /\ portPc = "live"
    /\ airOpening' = "no" /\ ws' = "connecting"
    /\ bridge' = TRUE /\ airConnecting' = FALSE
    /\ UNCHANGED <<airCleanup, airReady, airOwed, portVars>>

AirPortFails ==
    /\ airOpening = "port" /\ portPc = "failed"
    /\ airOpening' = "no" /\ airCleanup' = "cancel"
    /\ UNCHANGED <<ws, bridge, airConnecting, airReady, airOwed, portVars>>

WsOpens ==
    /\ ws = "connecting"
    /\ ws' = "open"
    /\ UNCHANGED <<airOpening, airCleanup, bridge, airConnecting, airReady, airOwed, portVars>>

(* onclose: the session's other end is gone; a cleanup under way goes on.   *)
WsCloses ==
    /\ ws \in {"connecting", "open"}
    /\ ws' = "closed"
    /\ airCleanup' = IF airCleanup = "no" THEN "cancel" ELSE airCleanup
    /\ UNCHANGED <<airOpening, bridge, airConnecting, airReady, airOwed, portVars>>

-----------------------------------------------------------------------------
(* A session.                                                               *)

(* The server's "ready" status, once.                                       *)
ServerReady ==
    /\ ws = "open" /\ ~airReady /\ airCleanup = "no"
    /\ airReady' = TRUE
    /\ UNCHANGED <<airOpening, airCleanup, ws, bridge, airConnecting, airOwed, portVars>>

AirSends == airReady /\ bridge /\ ws = "open"

(* send() and getLocation(): refused (false) unless the session is ready and *)
(* its socket open.                                                         *)
AirSend ==
    /\ AirSends /\ airOwed < MaxOwed
    /\ airOwed' = airOwed + 1
    /\ UNCHANGED <<airOpening, airCleanup, ws, bridge, airConnecting, airReady, portVars>>

ServerReports ==
    /\ ws = "open" /\ airOwed > 0
    /\ airOwed' = airOwed - 1
    /\ UNCHANGED <<airOpening, airCleanup, ws, bridge, airConnecting, airReady, portVars>>

(* A binary message is written to the modem, while the writer is held.      *)
ServerBytes ==
    /\ ws = "open" /\ airCleanup \in {"no", "cancel"} /\ portPc = "live"
    /\ Write
    /\ UNCHANGED <<airOpening, airCleanup, ws, bridge, airConnecting, airReady, airOwed>>

-----------------------------------------------------------------------------
(* Closing: disconnect() is bridge.close(), which is cleanup(), which runs   *)
(* once.                                                                    *)

AirDisconnect ==
    IF bridge /\ airCleanup = "no"
      THEN /\ airCleanup' = "cancel"
           /\ UNCHANGED <<airOpening, ws, bridge, airConnecting, airReady, airOwed, portVars>>
      ELSE UNCHANGED airVars

(* The reader is cancelled, the writer let go; then the port, if there is    *)
(* one, is closed.                                                          *)
AirCancels ==
    /\ airCleanup = "cancel"
    /\ airCleanup' = "port"
    /\ \/ /\ portPc # "none" /\ ClosePort
          /\ readable' = IF readable = "open" THEN "closed" ELSE readable
       \/ portPc = "none" /\ UNCHANGED portVars
    /\ UNCHANGED <<airOpening, ws, bridge, airConnecting, airReady, airOwed>>

(* The socket is closed and onClose() makes the console idle: mesh:closed.   *)
AirFinish ==
    /\ airCleanup = "port" /\ portPc \in {"none", "closed"}
    /\ airCleanup' = "no" /\ airConnecting' = FALSE /\ airReady' = FALSE
    /\ bridge' = FALSE /\ ws' = "none" /\ airOwed' = 0
    /\ portPc' = "none"
    /\ UNCHANGED <<airOpening, opened, dtr, streamVars, plugged, refused>>

-----------------------------------------------------------------------------
(* What happens without the page; its two events, "ready" and "closed", are  *)
(* ServerReady and AirFinish.                                               *)
AirRest == UNCHANGED <<airOpening, airCleanup, ws, bridge, airConnecting, airReady, airOwed>>
AirPortSteps == PortSteps /\ AirRest
AirWriteEnds == WriteEnds /\ AirRest
AirPortTrouble == (ReadFails \/ Unplug) /\ AirRest

AirQuiet == AirPick \/ AirPortOpens \/ AirPortFails \/ WsOpens \/ WsCloses \/ ServerReports
            \/ ServerBytes \/ AirCancels \/ AirPortSteps \/ AirWriteEnds
            \/ AirPortTrouble

AirTypeOK ==
    /\ airOpening \in {"no", "pick", "port"}
    /\ airCleanup \in {"no", "cancel", "port"}
    /\ ws \in {"none", "connecting", "open", "closed"}
    /\ bridge \in BOOLEAN /\ airConnecting \in BOOLEAN /\ airReady \in BOOLEAN
    /\ airOwed \in 0 .. MaxOwed
    /\ PortTypeOK

AirPhase == IF airReady THEN "ready" ELSE IF AirIdle THEN "idle" ELSE "connecting"

=============================================================================
