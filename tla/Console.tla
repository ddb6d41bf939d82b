-------------------------------- MODULE Console --------------------------------
(***************************************************************************)
(* The repeater console (internal/core: console, modem, modemsession): one *)
(* WebSocket and one handler per browser page, a goroutine reading the     *)
(* socket into a queue, the database rows of the session and its audit     *)
(* log, and the server's shutdown that waits for the handlers. What a      *)
(* command's exchange with the repeater does in detail is module Exchange. *)
(***************************************************************************)
EXTENDS Integers, Sequences, FiniteSets

CONSTANTS
    Sessions,    \* bound: consoles that are ever opened, all on one repeater
    Commands,    \* the catalog
    Lat, Lon,    \* its "get lat" and "get lon"
    GetLoc,      \* the page's "Fetch location" message
    Nothing,     \* no coordinate
    Messages,    \* bound: what a page sends, commands and GetLoc
    Revocable,   \* bound: the commands the permission for which changes
    Queue,       \* messages of a page that may wait
    Tries,       \* sends of one command at most
    MaxLog       \* bound: rows of the audit log

ASSUME ConsoleAssumption ==
    /\ {Lat, Lon} \subseteq Commands /\ Lat # Lon
    /\ Nothing \notin Commands /\ GetLoc \notin Commands
    /\ Messages \subseteq Commands \cup {GetLoc} /\ Revocable \subseteq Commands
    /\ Queue \in Nat /\ Tries \in Nat \ {0} /\ MaxLog \in Nat

VARIABLES
    server,     \* how far the shutdown is
    pc,         \* the next step of each console's handler
    live,       \* the session's context is not canceled
    tracked,    \* the handlers the WaitGroup counts
    ready,      \* the page reported its serial port open
    queue,      \* the page's messages waiting
    todo,       \* the commands of the message being handled, not yet logged
    checked,    \* how many of them were found permitted
    fetching,   \* the message is a "Fetch location", with what it has read
    cur,        \* the log row of the command being exchanged
    row,        \* the session's row in console_sessions
    log,        \* command_log
    allowed,    \* the commands the user of each console may send now
    location,   \* the repeater's stored coordinates
    fresh,      \* history: commands permitted at some moment since the message in hand was taken
    unstamped   \* history: the consoles whose insert's answer or whose stamp was lost

handlerVars == <<pc, queue, todo, checked, fetching, cur>>
dbVars == <<row, log, allowed, location>>
vars == <<server, live, tracked, ready, handlerVars, dbVars, fresh, unstamped>>

NotFetching == [on |-> FALSE, lat |-> Nothing]
Fetching(lat) == [on |-> TRUE, lat |-> lat]

(* A command's log row: how often it was sent, and how many of the replies  *)
(* that asks for have been heard, each being the value of its command.      *)
Row(c, command, sends, heard, marked) ==
    [session |-> c, cmd |-> command, sends |-> sends, heard |-> heard, marked |-> marked]

Init ==
    /\ server = "up"
    /\ pc = [c \in Sessions |-> "page"]
    /\ live = [c \in Sessions |-> TRUE]
    /\ tracked = {}
    /\ ready = [c \in Sessions |-> FALSE]
    /\ queue = [c \in Sessions |-> <<>>]
    /\ todo = [c \in Sessions |-> <<>>]
    /\ checked = [c \in Sessions |-> 0]
    /\ fetching = [c \in Sessions |-> NotFetching]
    /\ cur = [c \in Sessions |-> 0]
    /\ row = [c \in Sessions |-> "none"]
    /\ log = <<>>
    /\ allowed = [c \in Sessions |-> Commands]
    /\ location = [lat |-> Nothing, lon |-> Nothing]
    /\ fresh = [c \in Sessions |-> {}]
    /\ unstamped = {}

-----------------------------------------------------------------------------
At(c, step) == pc[c] = step
Goto(c, step) == pc' = [pc EXCEPT ![c] = step]
Opened(c) == pc[c] \notin {"page", "open", "gone"}

(* GetRepeaterForUser passes; the request is an ordinary one so far.        *)
Connect(c) ==
    /\ server = "up" /\ At(c, "page")
    /\ Goto(c, "open")
    /\ UNCHANGED <<server, live, tracked, ready, queue, todo, checked, fetching, cur, dbVars,
                   fresh, unstamped>>

(* openModemSession: counted, upgraded, and its context derived from the    *)
(* server's, which shutting down cancels. The upgrade may fail.             *)
openModemSession(c) ==
    /\ At(c, "open")
    /\ \/ /\ Goto(c, "start")
          /\ tracked' = tracked \cup {c}
          /\ live' = [live EXCEPT ![c] = server \in {"up", "stopping"}]
       \/ Goto(c, "gone") /\ UNCHANGED <<tracked, live>>
    /\ UNCHANGED <<server, ready, queue, todo, checked, fetching, cur, dbVars, fresh, unstamped>>

(* The insert succeeds, or fails, or its answer is lost; from then on the   *)
(* handler's return stamps the row it knows of.                             *)
StartConsoleSession(c) ==
    /\ At(c, "start")
    /\ \/ live[c] /\ Goto(c, "connect") /\ row' = [row EXCEPT ![c] = "open"] /\ UNCHANGED unstamped
       \/ Goto(c, "close") /\ UNCHANGED <<row, unstamped>>
       \/ /\ live[c]
          /\ Goto(c, "close")
          /\ row' = [row EXCEPT ![c] = "open"]
          /\ unstamped' = unstamped \cup {c}
    /\ UNCHANGED <<server, live, tracked, ready, queue, todo, checked, fetching, cur, log, allowed,
                   location, fresh>>

(* Slip: the wait for the page does not end with the session. *)
ReadyOnly(c) ==
    /\ \/ At(c, "connect") /\ (Goto(c, "ready") \/ Goto(c, "stamp"))
       \/ At(c, "ready") /\ ready[c] /\ Goto(c, "login")
    /\ UNCHANGED <<server, live, tracked, ready, queue, todo, checked, fetching, cur, dbVars,
                   fresh, unstamped>>

(* The modem connects and Start reads the socket; WaitReady; SetRadio.      *)
Ready(c) ==
    /\ \/ At(c, "connect") /\ (Goto(c, "ready") \/ Goto(c, "stamp"))
       \/ At(c, "ready") /\ ready[c] /\ Goto(c, "login")
       \/ At(c, "ready") /\ ~live[c] /\ Goto(c, "stamp")
    /\ UNCHANGED <<server, live, tracked, ready, queue, todo, checked, fetching, cur, dbVars,
                   fresh, unstamped>>

(* Tuned, the login is exchanged: answered or not, the console goes on. It  *)
(* may fail as the context is canceled or a write fails.                    *)
Login(c) ==
    /\ At(c, "login")
    /\ \/ live[c] /\ Goto(c, "loop")
       \/ Goto(c, "stamp")
    /\ UNCHANGED <<server, live, tracked, ready, queue, todo, checked, fetching, cur, dbVars,
                   fresh, unstamped>>

-----------------------------------------------------------------------------
(* select: a canceled session may still take a waiting message.             *)
Take(c) ==
    /\ At(c, "loop") /\ queue[c] # <<>>
    /\ LET m == Head(queue[c]) IN
        /\ todo' = [todo EXCEPT ![c] = IF m = GetLoc THEN <<Lat, Lon>> ELSE <<m>>]
        /\ fetching' = [fetching EXCEPT ![c] = IF m = GetLoc THEN Fetching(Nothing) ELSE NotFetching]
    /\ queue' = [queue EXCEPT ![c] = Tail(queue[c])]
    /\ checked' = [checked EXCEPT ![c] = 0]
    /\ fresh' = [fresh EXCEPT ![c] = allowed[c]]
    /\ Goto(c, "permit")
    /\ UNCHANGED <<server, live, tracked, ready, cur, dbVars, unstamped>>

Leave(c) ==
    /\ At(c, "loop") /\ ~live[c]
    /\ Goto(c, "stamp")
    /\ UNCHANGED <<server, live, tracked, ready, queue, todo, checked, fetching, cur, dbVars,
                   fresh, unstamped>>

Drop(c) ==
    /\ todo' = [todo EXCEPT ![c] = <<>>]
    /\ fresh' = [fresh EXCEPT ![c] = {}]
    /\ Goto(c, "loop")

(* Slip: a "Fetch location" is permitted as its first command is. *)
PermitFirst(c) ==
    /\ At(c, "permit")
    /\ \/ /\ live[c] /\ Head(todo[c]) \in allowed[c]
          /\ checked' = [checked EXCEPT ![c] = Len(todo[c])]
          /\ Goto(c, "log") /\ UNCHANGED <<todo, fresh>>
       \/ Drop(c) /\ UNCHANGED checked
    /\ UNCHANGED <<server, live, tracked, ready, queue, fetching, cur, dbVars, unstamped>>

(* permitted, of each command of the message before any is sent. What is    *)
(* not permitted, or could not be checked, refuses the message.             *)
Permit(c) ==
    /\ At(c, "permit")
    /\ \/ /\ live[c] /\ todo[c][checked[c] + 1] \in allowed[c]
          /\ checked' = [checked EXCEPT ![c] = @ + 1]
          /\ IF checked[c] + 1 = Len(todo[c]) THEN Goto(c, "log") ELSE UNCHANGED pc
          /\ UNCHANGED <<todo, fresh>>
       \/ Drop(c) /\ UNCHANGED checked
    /\ UNCHANGED <<server, live, tracked, ready, queue, fetching, cur, dbVars, unstamped>>

(* What follows the command just handled, well or not.                      *)
Onward(c, rest) ==
    /\ todo' = [todo EXCEPT ![c] = rest]
    /\ fresh' = [fresh EXCEPT ![c] = IF rest = <<>> THEN {} ELSE @]
    /\ Goto(c, IF rest = <<>> THEN "loop" ELSE "log")

(* logBeforeSend: no row, no transmission. Its answer may be lost, too.     *)
LogCommand(c) ==
    LET entry == Row(c, Head(todo[c]), 0, 0, FALSE) IN
    /\ At(c, "log")
    /\ \/ /\ live[c] /\ Len(log) < MaxLog
          /\ log' = Append(log, entry)
          /\ cur' = [cur EXCEPT ![c] = Len(log) + 1]
          /\ Goto(c, "exchange") /\ UNCHANGED <<todo, fresh>>
       \/ Onward(c, Tail(todo[c])) /\ UNCHANGED <<log, cur>>
       \/ /\ live[c] /\ Len(log) < MaxLog
          /\ log' = Append(log, entry)
          /\ Onward(c, Tail(todo[c])) /\ UNCHANGED cur
    /\ UNCHANGED <<server, live, tracked, ready, queue, checked, fetching, row, allowed, location,
                   unstamped>>

(* One of the exchange's sends.                                             *)
Transmit(c) ==
    /\ At(c, "exchange") /\ live[c]
    /\ log[cur[c]].sends < Tries
    /\ log' = [log EXCEPT ![cur[c]] = Row(c, @.cmd, @.sends + 1, @.heard, FALSE)]
    /\ UNCHANGED <<server, live, tracked, ready, handlerVars, row, allowed, location, fresh, unstamped>>

(* The accept filter of fetchAndStoreLocation: no longitude equal to the    *)
(* latitude just read.                                                      *)
Accepts(c, value) ==
    ~(fetching[c].on /\ log[cur[c]].cmd = Lon /\ fetching[c].lat # Nothing /\ value = fetching[c].lat)

IsCoordinate(value) == value \in {Lat, Lon}

(* The stored coordinates after the present command was answered with value.*)
Stored(c, value) ==
    LET command == log[cur[c]].cmd IN
    IF ~IsCoordinate(value) THEN location
    ELSE IF ~fetching[c].on /\ command = Lat THEN [lat |-> value, lon |-> location.lon]
    ELSE IF ~fetching[c].on /\ command = Lon THEN [lat |-> location.lat, lon |-> value]
    ELSE IF fetching[c].on /\ command = Lon /\ fetching[c].lat # Nothing
         THEN [lat |-> fetching[c].lat, lon |-> value]
    ELSE location

(* A reply taken as this command's answer is one to any send of the session *)
(* not heard yet. The row is marked and a coordinate kept, unless the        *)
(* database fails or the session has just ended.                            *)
Reply(c, j) ==
    LET value == log[j].cmd
        heard == [log EXCEPT ![j] = Row(c, @.cmd, @.sends, @.heard + 1, @.marked)]
    IN  /\ At(c, "exchange")
        /\ j \in 1 .. cur[c]
        /\ log[j].session = c /\ log[j].heard < log[j].sends
        /\ log[cur[c]].sends > 0
        /\ Accepts(c, value)
        /\ \E mark \in BOOLEAN :
            /\ mark => live[c]
            /\ log' = [heard EXCEPT ![cur[c]] = Row(c, @.cmd, @.sends, @.heard, mark)]
        /\ location' \in {location} \cup (IF live[c] THEN {Stored(c, value)} ELSE {})
        /\ fetching' = [fetching EXCEPT ![c] =
                IF fetching[c].on /\ log[cur[c]].cmd = Lat /\ IsCoordinate(value)
                THEN Fetching(value) ELSE @]
        /\ Onward(c, Tail(todo[c]))
        /\ UNCHANGED <<server, live, tracked, ready, queue, checked, cur, row, allowed, unstamped>>

(* No reply after all tries, or the exchange fails.                         *)
Unanswered(c) ==
    /\ At(c, "exchange")
    /\ Onward(c, Tail(todo[c]))
    /\ UNCHANGED <<server, live, tracked, ready, queue, checked, fetching, cur, dbVars, unstamped>>

-----------------------------------------------------------------------------
(* Slip: the handler is no longer counted when it stamps its row. *)
EndConsoleSessionUntracked(c) ==
    /\ At(c, "stamp")
    /\ \/ c \in tracked /\ tracked' = tracked \ {c} /\ UNCHANGED <<row, pc>>
       \/ c \notin tracked /\ row' = [row EXCEPT ![c] = "ended"] /\ Goto(c, "close") /\ UNCHANGED tracked
    /\ UNCHANGED <<server, live, ready, queue, todo, checked, fetching, cur, log, allowed,
                   location, fresh, unstamped>>

(* The deferred stamp, on a context of its own; it may fail or take too     *)
(* long.                                                                    *)
EndConsoleSession(c) ==
    /\ At(c, "stamp")
    /\ \/ row' = [row EXCEPT ![c] = "ended"] /\ UNCHANGED unstamped
       \/ unstamped' = unstamped \cup {c} /\ UNCHANGED row
    /\ Goto(c, "close")
    /\ UNCHANGED <<server, live, tracked, ready, queue, todo, checked, fetching, cur, log, allowed,
                   location, fresh>>

(* modemSession.Close, deferred before the stamp and so run after it.       *)
Close(c) ==
    /\ At(c, "close")
    /\ live' = [live EXCEPT ![c] = FALSE]
    /\ tracked' = tracked \ {c}
    /\ Goto(c, "gone")
    /\ UNCHANGED <<server, ready, queue, todo, checked, fetching, cur, dbVars, fresh, unstamped>>

-----------------------------------------------------------------------------
(* Slip: one message too many is queued. *)
ReadPastQueue(c, m) ==
    /\ pc[c] \in {"ready", "login", "loop", "permit", "log", "exchange"} /\ live[c]
    /\ Len(queue[c]) <= Queue
    /\ queue' = [queue EXCEPT ![c] = Append(@, m)]
    /\ UNCHANGED <<server, live, tracked, ready, pc, todo, checked, fetching, cur, dbVars, fresh, unstamped>>

(* modemSession.Start's goroutine, from "connect" on: a message of the page *)
(* is queued, or answered busy.                                             *)
Read(c, m) ==
    /\ pc[c] \in {"ready", "login", "loop", "permit", "log", "exchange"} /\ live[c]
    /\ Len(queue[c]) < Queue
    /\ queue' = [queue EXCEPT ![c] = Append(@, m)]
    /\ UNCHANGED <<server, live, tracked, ready, pc, todo, checked, fetching, cur, dbVars, fresh, unstamped>>

ReadReady(c) ==
    /\ At(c, "ready") /\ live[c]
    /\ ready' = [ready EXCEPT ![c] = TRUE]
    /\ UNCHANGED <<server, live, tracked, handlerVars, dbVars, fresh, unstamped>>

(* The page goes away, or the idle timer fires.                             *)
Cancel(c) ==
    /\ Opened(c) /\ live[c]
    /\ live' = [live EXCEPT ![c] = FALSE]
    /\ UNCHANGED <<server, tracked, ready, handlerVars, dbVars, fresh, unstamped>>

(* Somebody changes what the user of c may send.                            *)
Share(c, cs) ==
    /\ cs \ Revocable = allowed[c] \ Revocable
    /\ allowed' = [allowed EXCEPT ![c] = cs]
    /\ fresh' = [fresh EXCEPT ![c] = IF todo[c] = <<>> THEN {} ELSE @ \cup cs]
    /\ UNCHANGED <<server, live, tracked, ready, handlerVars, row, log, location, unstamped>>

(* SIGTERM; http.Server.Shutdown returns when no ordinary request is left,  *)
(* or out of time; DrainWebSockets cancels the consoles and waits for those *)
(* counted, or runs out of time too.                                        *)
Shutdown ==
    /\ \/ server = "up" /\ server' = "stopping" /\ UNCHANGED live
       \/ /\ server = "stopping"
          /\ server' = "draining"
          /\ live' = [c \in Sessions |-> IF Opened(c) THEN FALSE ELSE live[c]]
       \/ server = "draining" /\ tracked = {} /\ server' = "drained" /\ UNCHANGED live
       \/ server = "draining" /\ tracked # {} /\ server' = "overdue" /\ UNCHANGED live
    /\ UNCHANGED <<tracked, ready, handlerVars, dbVars, fresh, unstamped>>

Handler(c) ==
    \/ openModemSession(c) \/ StartConsoleSession(c) \/ Ready(c) \/ Login(c)
    \/ Take(c) \/ Leave(c) \/ Permit(c) \/ LogCommand(c)
    \/ Transmit(c) \/ Unanswered(c) \/ (\E j \in DOMAIN log : Reply(c, j))
    \/ EndConsoleSession(c) \/ Close(c)

Next ==
    \/ \E c \in Sessions :
        \/ Connect(c) \/ Handler(c) \/ ReadReady(c) \/ Cancel(c)
        \/ \E m \in Messages : Read(c, m)
        \/ \E cs \in SUBSET Commands : Share(c, cs)
    \/ Shutdown

(* A handler runs on; nobody need open, use or close a page.                *)
Spec == Init /\ [][Next]_vars /\ \A c \in Sessions : WF_vars(Handler(c))

-----------------------------------------------------------------------------
Steps == {"page", "open", "start", "connect", "ready", "login", "loop", "permit", "log", "exchange",
          "stamp", "close", "gone"}

TypeOK ==
    /\ server \in {"up", "stopping", "draining", "drained", "overdue"}
    /\ pc \in [Sessions -> Steps]
    /\ live \in [Sessions -> BOOLEAN] /\ ready \in [Sessions -> BOOLEAN]
    /\ tracked \subseteq Sessions
    /\ \A c \in Sessions :
        /\ queue[c] \in Seq(Messages) /\ Len(queue[c]) <= Queue
        /\ todo[c] \in Seq(Commands) /\ Len(todo[c]) <= 2
        /\ checked[c] \in 0 .. 2
        /\ cur[c] \in 0 .. Len(log)
    /\ fetching \in [Sessions -> [on: BOOLEAN, lat: Commands \cup {Nothing}]]
    /\ row \in [Sessions -> {"none", "open", "ended"}]
    /\ log \in Seq([session: Sessions, cmd: Commands, sends: 0 .. Tries, heard: 0 .. Tries,
                    marked: BOOLEAN])
    /\ allowed \in [Sessions -> SUBSET Commands] /\ fresh \in [Sessions -> SUBSET Commands]
    /\ location \in [lat: {Lat, Lon, Nothing}, lon: {Lat, Lon, Nothing}]
    /\ unstamped \subseteq Sessions

(* When the drain reports that every handler finished, no session is left   *)
(* "in progress" forever, but where the database itself lost the insert's   *)
(* answer or the stamp: even of a page that connects during the shutdown.   *)
DrainLeavesNoSessionOpen ==
    server = "drained" => \A c \in Sessions : row[c] = "open" => c \in unstamped

(* A command gets a row, and so is sent, only if its sender was allowed to   *)
(* send it at some moment since its message was taken up: what was taken    *)
(* away while the message waited, behind exchanges however long, is not     *)
(* used any more. (The second command of a "Fetch location" is not checked  *)
(* again after the first one's exchange.)                                   *)
AuthorizedSinceTaken ==
    [][Len(log') > Len(log) =>
        LET entry == log'[Len(log')] IN entry.cmd \in fresh[entry.session]]_vars

(* A console whose page went away, idled out or was canceled by shutting    *)
(* down unwinds, whatever it was waiting for, and stamps its row on the way.*)
ConsolesUnwind ==
    \A c \in Sessions : Opened(c) /\ ~live[c] ~> At(c, "gone") /\ (row[c] = "open" => c \in unstamped)

=============================================================================
