-------------------------------- MODULE UsbConsole --------------------------------
(***************************************************************************)
(* The connection to a repeater plugged into this computer: usb-console.js *)
(* over the text CLI of serial-cli.js. Connecting asks the device for its  *)
(* key; commands are steps of one promise chain, "queue", each run once the *)
(* one before it ended; a step that throws breaks the chain, and nothing   *)
(* behind it ever runs. A line that nobody answers (a board that is still  *)
(* starting, a cable pulled) and a command without a reply look the same:  *)
(* command() returns null.                                                  *)
(***************************************************************************)
EXTENDS Naturals, Sequences, FiniteSets

CONSTANTS
    MaxQueue,   \* chained steps, besides a last close
    MaxTries    \* waitReady's attempts (10 in the code)

ASSUME UsbAssumption == MaxQueue \in Nat /\ MaxTries \in Nat \ {0}

VARIABLES
    usbReady,
    usbCli,         \* usb-console.js holds a cli
    usbOpening,     \* connect(): "no", "pick", "boot", "ver", "pause", "key", "sure",
                    \* "failed", "closing"
    tries,
    queue,          \* "cmd", "loc", "reboot", "close"; the first is under way
    step,           \* of the first: "wait", "cmd", "lat", "lon", "save", "reboot", "close"
    broken,         \* the chain is rejected
    device,         \* on the port of usbCli: "right", "wrong", "gone"
    heard,          \* the lines another repeater was given
    reboot,         \* #reboot: "hidden", "shown", "off" (disabled by its click)
    overlap         \* a close ran beside a connect()

chainVars == <<queue, step, broken>>
boardVars == <<device, heard>>
usbVars == <<usbReady, usbCli, usbOpening, tries, chainVars, boardVars, reboot, overlap>>

UsbInit ==
    /\ usbReady = FALSE /\ usbCli = FALSE /\ usbOpening = "no" /\ tries = 0
    /\ queue = <<>> /\ step = "wait" /\ broken = FALSE
    /\ device = "gone" /\ heard = {} /\ reboot = "hidden" /\ overlap = FALSE

-----------------------------------------------------------------------------
(* serial-cli.js.                                                           *)

(* command() and send(): the line goes to the device; on a port that lost its *)
(* device it may be written in vain.                                        *)
GiveLine(line) ==
    /\ usbCli
    /\ heard' = IF device = "wrong" THEN heard \cup {line} ELSE heard
    /\ UNCHANGED device

(* Writing throws: the cli is closed, or its device is gone.                *)
LineThrows == ~usbCli \/ device = "gone"

UsbUnplug(d) ==
    /\ usbCli /\ device = d
    /\ device' = "gone"
    /\ UNCHANGED <<usbReady, usbCli, usbOpening, tries, chainVars, heard, reboot, overlap>>

-----------------------------------------------------------------------------
(* connect(), a step for each await.                                        *)

UsbConnect ==
    IF ~usbReady /\ ~usbCli /\ usbOpening = "no"
      THEN /\ usbOpening' = "pick" /\ tries' = 0
           /\ overlap' = (overlap \/ step = "close")
           /\ UNCHANGED <<usbReady, usbCli, chainVars, boardVars, reboot>>
      ELSE UNCHANGED usbVars

Opening(to) == usbOpening' = to
               /\ UNCHANGED <<usbReady, usbCli, chainVars, reboot, overlap>>

(* A port is picked and opens; or none is picked, or it cannot be opened.    *)
UsbPick ==
    /\ usbOpening = "pick"
    /\ \/ /\ usbCli' = TRUE /\ usbOpening' = "boot" /\ device' \in {"right", "wrong"}
          /\ UNCHANGED <<usbReady, tries, chainVars, heard, reboot, overlap>>
       \/ Opening("failed") /\ UNCHANGED <<tries, boardVars>>

(* waitReady: "ver" until it is answered, MaxTries times.                    *)
AskVersion == usbOpening = "boot" /\ GiveLine("ver") /\ Opening("ver") /\ UNCHANGED tries

VersionComes == usbOpening = "ver" /\ Opening("key") /\ UNCHANGED <<tries, boardVars>>

VersionLate ==
    /\ usbOpening = "ver"
    /\ tries' = tries + 1 /\ Opening("pause")
    /\ UNCHANGED boardVars

(* Slip: one attempt too many. *)
AskOnceMore ==
    /\ usbOpening = "pause"
    /\ Opening(IF tries <= MaxTries THEN "boot" ELSE "failed")
    /\ UNCHANGED <<tries, boardVars>>

AskAgain ==
    /\ usbOpening = "pause"
    /\ Opening(IF tries < MaxTries THEN "boot" ELSE "failed")
    /\ UNCHANGED <<tries, boardVars>>

AskKey == usbOpening = "key" /\ GiveLine("key") /\ Opening("sure") /\ UNCHANGED tries

(* Slip: any repeater will do. *)
AnyKey ==
    /\ usbOpening = "sure" /\ device # "gone"
    /\ usbReady' = TRUE /\ usbOpening' = "no"
    /\ UNCHANGED <<usbCli, tries, chainVars, boardVars, reboot, overlap>>

(* The repeater says the key the page expects: mesh:ready.                  *)
RightKey ==
    /\ usbOpening = "sure" /\ device # "wrong"
    /\ usbReady' = TRUE /\ usbOpening' = "no"
    /\ UNCHANGED <<usbCli, tries, chainVars, boardVars, reboot, overlap>>

(* It says another, or nothing.                                             *)
WrongKey == usbOpening = "sure" /\ Opening("failed") /\ UNCHANGED <<tries, boardVars>>

ConnectThrows ==
    /\ usbOpening \in {"boot", "key"} /\ LineThrows
    /\ Opening("failed") /\ UNCHANGED <<tries, boardVars>>

(* The catch: close(), which awaits the port if there is a cli.             *)
ConnectGivesUp ==
    /\ usbOpening = "failed"
    /\ usbCli' = FALSE /\ usbReady' = FALSE /\ usbOpening' = "closing" /\ device' = "gone"
    /\ UNCHANGED <<tries, chainVars, heard, reboot, overlap>>

(* ... and then says mesh:closed. A port is not closed before the write under  *)
(* way on it, a reboot's, has ended or failed.                              *)
ConnectEnds ==
    /\ usbOpening = "closing" /\ step # "reboot"
    /\ Opening("no") /\ UNCHANGED <<tries, boardVars>>

-----------------------------------------------------------------------------
(* The page's calls put steps on the chain.                                 *)

Chain(s) == queue' = Append(queue, s)
            /\ UNCHANGED <<usbReady, usbCli, usbOpening, tries, step, broken, boardVars, overlap>>

(* Slip: a port is enough. *)
SendsWithACli == usbCli

UsbSends == usbReady /\ usbCli

(* send() and getLocation(): refused unless ready.                          *)
UsbSend(kind) == UsbSends /\ Len(queue) < MaxQueue /\ Chain(kind) /\ UNCHANGED reboot

UsbDisconnect == Len(queue) <= MaxQueue /\ Chain("close") /\ UNCHANGED reboot

(* The reboot button asks for a cli, ready or not.                          *)
PressReboot ==
    /\ reboot = "shown" /\ usbCli /\ Len(queue) < MaxQueue
    /\ reboot' = "off" /\ Chain("reboot")

-----------------------------------------------------------------------------
(* The chain's steps.                                                       *)

Turn(s) == ~broken /\ queue # <<>> /\ Head(queue) = s

Rest == UNCHANGED <<usbReady, usbCli, usbOpening, tries, broken, overlap>>

StepEnds == queue' = Tail(queue) /\ step' = "wait"

(* The cli went before the step's turn: an error is reported, or nothing.   *)
StepSkipped ==
    /\ step = "wait" /\ ~usbCli
    /\ Turn("cmd") \/ Turn("loc") \/ Turn("reboot")
    /\ StepEnds /\ Rest /\ UNCHANGED <<boardVars, reboot>>

StartCommand ==
    /\ Turn("cmd") /\ step = "wait" /\ GiveLine("cmd")
    /\ step' = "cmd" /\ Rest /\ UNCHANGED <<queue, reboot>>

(* "reply", "error" or "noreply"; a reply may say that a reboot is needed.   *)
CommandReports ==
    /\ step = "cmd"
    /\ reboot' \in {reboot, IF reboot = "hidden" THEN "shown" ELSE reboot}
    /\ StepEnds /\ Rest /\ UNCHANGED boardVars

StartLocation ==
    /\ Turn("loc") /\ step = "wait" /\ GiveLine("lat")
    /\ step' = "lat" /\ Rest /\ UNCHANGED <<queue, reboot>>

AskLongitude ==
    /\ step = "lat" /\ GiveLine("lon")
    /\ step' = "lon" /\ Rest /\ UNCHANGED <<queue, reboot>>

(* Both coordinates came, and are posted; or there is no location.           *)
PostLocation ==
    /\ step = "lon"
    /\ step' = "save" /\ Rest /\ UNCHANGED <<queue, boardVars, reboot>>

LocationReports ==
    /\ step \in {"lon", "save"}
    /\ StepEnds /\ Rest /\ UNCHANGED <<boardVars, reboot>>

(* A write that throws, at once or while it is awaited, or a POST that never   *)
(* gets there, rejects the chain.                                           *)
ChainBreaks ==
    /\ \/ step = "wait" /\ usbCli /\ device = "gone"
          /\ (Turn("cmd") \/ Turn("loc") \/ Turn("reboot"))
       \/ step \in {"cmd", "lat", "lon", "reboot"} /\ LineThrows
       \/ step = "save"
    /\ broken' = TRUE /\ step' = "wait"
    /\ UNCHANGED <<usbReady, usbCli, usbOpening, tries, queue, boardVars, reboot, overlap>>

(* close() forgets the cli before it awaits its port.                       *)
CloseBegins ==
    /\ usbCli /\ usbCli' = FALSE /\ usbReady' = FALSE /\ device' = "gone" /\ step' = "close"
    /\ overlap' = (overlap \/ usbOpening # "no")
    /\ UNCHANGED <<usbOpening, tries, broken, heard>>

ChainCloses == Turn("close") /\ step = "wait" /\ CloseBegins /\ UNCHANGED <<queue, reboot>>

(* "reboot" is written; that is awaited, an answer to it is not. Then close(). *)
StartReboot ==
    /\ Turn("reboot") /\ step = "wait" /\ GiveLine("reboot")
    /\ step' = "reboot" /\ Rest /\ UNCHANGED <<queue, reboot>>

RebootSent == step = "reboot" /\ CloseBegins /\ UNCHANGED <<queue, reboot>>

(* The port is closed, or there was none: mesh:closed.                      *)
ChainClosed ==
    /\ \/ step = "close" /\ UNCHANGED <<usbReady, overlap>>
       \/ step = "wait" /\ Turn("close") /\ ~usbCli /\ usbReady' = FALSE /\ UNCHANGED overlap
       \/ /\ step = "reboot" /\ ~usbCli /\ usbReady' = FALSE
          /\ overlap' = (overlap \/ usbOpening # "no")
    /\ StepEnds
    /\ UNCHANGED <<usbCli, usbOpening, tries, broken, boardVars, reboot>>

-----------------------------------------------------------------------------
(* What happens without the page; its events are RightKey ("ready"),         *)
(* ConnectEnds and ChainClosed ("closed").                                  *)
Connecting == AskVersion \/ VersionComes \/ VersionLate \/ AskAgain \/ AskKey \/ WrongKey
              \/ ConnectThrows \/ ConnectGivesUp

Chained == StepSkipped \/ StartCommand \/ CommandReports \/ StartLocation \/ AskLongitude
           \/ PostLocation \/ LocationReports \/ ChainBreaks \/ ChainCloses
           \/ StartReboot \/ RebootSent

UsbQuiet == UsbPick \/ Connecting \/ Chained \/ \E d \in {"right", "wrong"} : UsbUnplug(d)

UsbTypeOK ==
    /\ usbReady \in BOOLEAN /\ usbCli \in BOOLEAN
    /\ broken \in BOOLEAN /\ overlap \in BOOLEAN
    /\ usbOpening \in {"no", "pick", "boot", "ver", "pause", "key", "sure", "failed", "closing"}
    /\ tries \in 0 .. MaxTries
    /\ queue \in Seq({"cmd", "loc", "reboot", "close"}) /\ Len(queue) <= MaxQueue + 1
    /\ step \in {"wait", "cmd", "lat", "lon", "save", "reboot", "close"}
    /\ device \in {"right", "wrong", "gone"}
    /\ heard \subseteq {"ver", "key", "cmd", "lat", "lon", "reboot"}
    /\ reboot \in {"hidden", "shown", "off"}

UsbPhase == IF usbReady THEN "ready" ELSE IF usbOpening # "no" THEN "connecting" ELSE "idle"

(* Commands accepted and not settled.                                       *)
UsbOwed == Cardinality({i \in DOMAIN queue : queue[i] \in {"cmd", "loc"}})

=============================================================================
