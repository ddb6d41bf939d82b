------------------------------- MODULE ConfigureTab -------------------------------
(***************************************************************************)
(* The Configure tab's connection bar (configure.js) and location banner   *)
(* (console.js) over the two connections a page has, AirConsole and        *)
(* UsbConsole. The bar follows its connection by its events: what a radio  *)
(* or the button allows is what the last event's render() left.            *)
(***************************************************************************)
EXTENDS AirConsole, UsbConsole

CONSTANT MaxConnects    \* presses that start a connection

ASSUME TabAssumption == MaxConnects \in Nat

VARIABLES
    chosen,     \* window.MeshConsole: "usb", "air"
    busy,       \* a connect is under way, as far as the bar knows
    locked,     \* the radios are disabled
    blocked,    \* the button is disabled
    pendingLoc, \* the location is to be read: "no", "later" (once ready), "now"
    presses

barVars == <<chosen, busy, locked, blocked, pendingLoc>>
vars == <<airVars, usbVars, barVars, presses>>

Init ==
    /\ AirInit /\ UsbInit
    /\ chosen = "usb" /\ busy = FALSE /\ locked = FALSE /\ blocked = FALSE
    /\ pendingLoc = "no" /\ presses = 0

-----------------------------------------------------------------------------
(* configure.js.                                                            *)

Ready(t) == IF t = "usb" THEN usbReady ELSE airReady

(* Slip: the radios are locked by a connection only once it is ready. *)
RenderReadyOnly ==
    /\ locked' = Ready(chosen)'
    /\ blocked' = (busy' /\ ~Ready(chosen)')

(* render(), after every change the bar hears of.                           *)
Render ==
    /\ locked' = (Ready(chosen)' \/ busy')
    /\ blocked' = (busy' /\ ~Ready(chosen)')

(* use(): a radio is clicked.                                               *)
Use(t) ==
    /\ ~locked /\ chosen # t
    /\ chosen' = t
    /\ UNCHANGED <<airVars, usbVars, busy, pendingLoc, presses>>
    /\ Render

ConnectChosen == IF chosen = "usb" THEN UsbConnect /\ UNCHANGED airVars
                                   ELSE AirConnect /\ UNCHANGED usbVars

DisconnectChosen == IF chosen = "usb" THEN UsbDisconnect /\ UNCHANGED airVars
                                      ELSE AirDisconnect /\ UNCHANGED usbVars

(* The button, and the banner, while the user has presses left.              *)
ClickConnect ==
    /\ ~blocked /\ ~Ready(chosen) /\ presses < MaxConnects
    /\ presses' = presses + 1
    /\ busy' = TRUE /\ ConnectChosen /\ UNCHANGED <<chosen, pendingLoc>>
    /\ Render

ClickDisconnect ==
    /\ ~blocked /\ Ready(chosen)
    /\ DisconnectChosen /\ UNCHANGED <<barVars, presses>>

(* Slip: the bar goes on connecting. *)
ClosedWhileBusy ==
    /\ busy' = busy /\ pendingLoc' = "no" /\ UNCHANGED <<chosen, presses>>
    /\ Render

(* mesh:closed, from either connection.                                     *)
HearClosed ==
    /\ busy' = FALSE /\ pendingLoc' = "no" /\ UNCHANGED <<chosen, presses>>
    /\ Render

-----------------------------------------------------------------------------
(* console.js: the command line, and the banner that reads the location,     *)
(* which connects first if it must.                                         *)

SendChosen(kind) == IF chosen = "usb" THEN UsbSend(kind) /\ UNCHANGED airVars
                                      ELSE AirSend /\ UNCHANGED usbVars

SendCommand == SendChosen("cmd") /\ UNCHANGED <<barVars, presses>>

FetchLocation ==
    \/ SendChosen("loc") /\ UNCHANGED <<barVars, presses>>
    \/ /\ ~Ready(chosen) /\ presses < MaxConnects
       /\ presses' = presses + 1 /\ pendingLoc' = "later"
       /\ busy' = TRUE /\ ConnectChosen /\ UNCHANGED chosen
       /\ Render

(* mesh:ready, from either connection: a location the banner waits for is     *)
(* asked of the chosen one, within the same event.                          *)
HearReady ==
    /\ busy' = FALSE /\ UNCHANGED <<chosen, presses>>
    /\ pendingLoc' = IF pendingLoc = "later" THEN "now" ELSE "no"
    /\ Render

CanSend == IF chosen = "usb" THEN UsbSends /\ Len(queue) < MaxQueue
                             ELSE AirSends /\ airOwed < MaxOwed

AskPending ==
    /\ pendingLoc = "now"
    /\ IF CanSend THEN SendChosen("loc") ELSE UNCHANGED <<airVars, usbVars>>
    /\ pendingLoc' = "no" /\ UNCHANGED <<chosen, busy, locked, blocked, presses>>

AirReadies ==
    /\ ServerReady /\ UNCHANGED usbVars /\ HearReady

UsbReadies ==
    /\ RightKey /\ UNCHANGED airVars /\ HearReady

-----------------------------------------------------------------------------
Closes ==
    \/ AirFinish /\ UNCHANGED usbVars /\ HearClosed
    \/ (ConnectEnds \/ ChainClosed) /\ UNCHANGED airVars /\ HearClosed

Quiet == /\ \/ AirQuiet /\ UNCHANGED usbVars
            \/ UsbQuiet /\ UNCHANGED airVars
         /\ UNCHANGED <<barVars, presses>>

Page == ClickConnect \/ ClickDisconnect \/ SendCommand \/ FetchLocation
        \/ (\E t \in {"usb", "air"} : Use(t))
        \/ (PressReboot /\ UNCHANGED <<airVars, barVars, presses>>)

(* The chain's next step is taken before the user can do anything else.      *)
TurnDue == step = "wait" /\ queue # <<>> /\ ~broken

Next ==
    \/ AskPending
    \/ /\ pendingLoc # "now"
       /\ \/ ~TurnDue /\ Page
          \/ AirReadies \/ UsbReadies \/ Closes \/ Quiet

(* The user answers the picker; the browser, the server and the device answer *)
(* what they are asked; the browser runs what is due. Nobody has to press a  *)
(* button, pull a cable or close a socket.                                  *)
Fairness ==
    /\ WF_vars(AskPending)
    /\ WF_vars(AirPick /\ UNCHANGED <<usbVars, barVars, presses>>)
    /\ WF_vars((AirPortOpens \/ AirPortFails) /\ UNCHANGED <<usbVars, barVars, presses>>)
    /\ WF_vars(WsOpens /\ UNCHANGED <<usbVars, barVars, presses>>)
    /\ WF_vars(AirReadies)
    /\ WF_vars(AirCancels /\ UNCHANGED <<usbVars, barVars, presses>>)
    /\ WF_vars(AirPortSteps /\ UNCHANGED <<usbVars, barVars, presses>>)
    /\ WF_vars(AirWriteEnds /\ UNCHANGED <<usbVars, barVars, presses>>)
    /\ WF_vars(Closes)
    /\ WF_vars(UsbPick /\ UNCHANGED <<airVars, barVars, presses>>)
    /\ WF_vars(UsbReadies \/ (Connecting /\ UNCHANGED <<airVars, barVars, presses>>))
    /\ WF_vars(Chained /\ UNCHANGED <<airVars, barVars, presses>>)

Spec == Init /\ [][Next]_vars /\ Fairness

-----------------------------------------------------------------------------
TypeOK ==
    /\ AirTypeOK /\ UsbTypeOK
    /\ chosen \in {"usb", "air"} /\ busy \in BOOLEAN /\ locked \in BOOLEAN /\ blocked \in BOOLEAN
    /\ pendingLoc \in {"no", "later", "now"}
    /\ presses \in 0 .. MaxConnects

(* Either connection keeps the contract the page is written against: it is   *)
(* idle, connecting and ready in that order, takes commands only when ready, *)
(* and settles each at most once.                                           *)
AirTransport == INSTANCE MeshTransport WITH phase <- AirPhase, owed <- airOwed
UsbTransport == INSTANCE MeshTransport WITH phase <- UsbPhase, owed <- UsbOwed

KeepsTheContract == AirTransport!Spec /\ UsbTransport!Spec

(* A device that is not the page's repeater is asked its version and its key, *)
(* and never given a command, unless a connection was begun while another    *)
(* was being closed. (A reboot it can be given: PressReboot.)                *)
OnlyTheRightRepeater == ~overlap => heard \cap {"cmd", "lat", "lon"} = {}

(* configure.js: the choice is locked while connecting or connected, so the   *)
(* connection that is not chosen is idle; unless a close and a connect       *)
(* overlapped.                                                              *)
ChoiceLocked ==
    ~overlap => /\ AirPhase # "idle" => chosen = "air" /\ locked
                /\ UsbPhase # "idle" => chosen = "usb" /\ locked

(* An idle over-the-air connection has let its device go, however the session *)
(* ended: it is closed and was told that the host is gone, each unless the    *)
(* device refused just that (serial-port.js tries either on its own).        *)
PortReleased ==
    AirPhase = "idle" => /\ ~writing
                         /\ opened => "close" \in refused
                         /\ dtr => "line" \in refused

(* "Connecting..." ends, in a connection or not.                            *)
ConnectingEnds == busy ~> ~busy

(* A Disconnect that was pressed is carried out, unless a step before it     *)
(* threw: then the page stays connected until it is left.                   *)
DisconnectIsHeard ==
    (step # "close" /\ \E i \in DOMAIN queue : queue[i] = "close")
        ~> (step = "close" \/ ~usbReady \/ broken)

(* What was asked of a connection comes about: it is made or given up, and   *)
(* it is ended when Disconnect was pressed (onConnect, disconnect's queue).  *)
RequestsSettle == ConnectingEnds /\ DisconnectIsHeard

=============================================================================
