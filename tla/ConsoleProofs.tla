------------------------------ MODULE ConsoleProofs ------------------------------
(***************************************************************************)
(* What is proved of Console, for any number of consoles, any catalog and   *)
(* any bounds: the drain leaves no session open, and what is sent was       *)
(* permitted since its message was taken up.                                *)
(***************************************************************************)
EXTENDS Console, TLAPS

(* Where a session's row is open and its stamp still to come.               *)
Running == {"connect", "ready", "login", "loop", "permit", "log", "exchange", "stamp"}

LogRows == [session: Sessions, cmd: Commands, sends: 0 .. Tries, heard: 0 .. Tries, marked: BOOLEAN]

(* What a message asks for, and what is left of that.                       *)
Rests == {<<m>> : m \in Commands} \cup {<<Lat, Lon>>}

ControlOK ==
    /\ server \in {"up", "stopping", "draining", "drained", "overdue"}
    /\ pc \in [Sessions -> Steps]
    /\ live \in [Sessions -> BOOLEAN]
    /\ ready \in [Sessions -> BOOLEAN]
    /\ tracked \subseteq Sessions
    /\ row \in [Sessions -> {"none", "open", "ended"}]
    /\ allowed \in [Sessions -> SUBSET Commands]
    /\ fresh \in [Sessions -> SUBSET Commands]
    /\ unstamped \subseteq Sessions

WorkOK ==
    /\ queue \in [Sessions -> Seq(Messages)]
    /\ \A c \in Sessions : Len(queue[c]) <= Queue
    /\ todo \in [Sessions -> Rests \cup {<<>>}]
    /\ checked \in [Sessions -> 0 .. 2]
    /\ fetching \in [Sessions -> [on: BOOLEAN, lat: {Lat, Lon, Nothing}]]
    /\ \A c \in Sessions :
        /\ pc[c] \in {"permit", "log", "exchange"} => todo[c] \in Rests
        /\ pc[c] = "permit" => checked[c] < Len(todo[c])

LogOK ==
    /\ log \in Seq(LogRows)
    /\ cur \in [Sessions -> Nat]
    /\ \A c \in Sessions : cur[c] <= Len(log) /\ (pc[c] = "exchange" => cur[c] > 0)
    /\ location \in [lat: {Lat, Lon, Nothing}, lon: {Lat, Lon, Nothing}]

(* The WaitGroup counts the handlers between upgrade and close; an open row *)
(* is that of one of them; the drain canceled those there were, and who     *)
(* comes later is canceled from the start, so that it makes no row.         *)
Unwinding ==
    /\ \A c \in Sessions : c \in tracked <=> Opened(c)
    /\ \A c \in Sessions : row[c] = "open" => c \in unstamped \/ pc[c] \in Running
    /\ server \in {"draining", "drained", "overdue"} =>
            \A c \in Sessions : Opened(c) => ~live[c]
    /\ server = "drained" => \A c \in Sessions : pc[c] \notin Running

Inv == ControlOK /\ WorkOK /\ LogOK /\ Unwinding

-----------------------------------------------------------------------------
(* The commands of a message are one or two, and the second is Lon.         *)
LEMMA RestShape ==
  ASSUME NEW q \in Rests
  PROVE  /\ Len(q) \in 1 .. 2 /\ q \in Seq(Commands)
         /\ Head(q) \in Commands /\ Head(q) = q[1]
         /\ Tail(q) \in Rests \cup {<<>>}
         /\ Tail(q) # <<>> => Tail(q) = <<Lon>>
         /\ \A i \in 1 .. Len(q) : q[i] \in Commands
<1>0. Lat \in Commands /\ Lon \in Commands
  BY ConsoleAssumption
<1>1. CASE \E m \in Commands : q = <<m>>
  BY <1>1
<1>2. CASE q = <<Lat, Lon>>
  <2>1. Tail(q) = <<Lon>>
    BY <1>2
  <2>2. <<Lon>> \in Rests
    BY <1>0 DEF Rests
  <2> QED
    BY <1>0, <1>2, <2>1, <2>2
<1> QED
  BY <1>1, <1>2 DEF Rests

(* A log row is made of what it records.                                    *)
LEMMA RowTyped ==
  ASSUME NEW c \in Sessions, NEW m \in Commands, NEW n \in 0 .. Tries, NEW h \in 0 .. Tries,
         NEW b \in BOOLEAN
  PROVE  Row(c, m, n, h, b) \in LogRows
  BY DEF Row, LogRows

(* At first there is no log and no session.                                 *)
LEMMA InitInv == Init => Inv
<1> SUFFICES ASSUME Init PROVE Inv
  OBVIOUS
<1>1. ControlOK
  BY DEF Init, ControlOK, Steps
<1>2. WorkOK
  BY ConsoleAssumption DEF Init, WorkOK, NotFetching
<1>3. LogOK
  BY DEF Init, LogOK
<1>4. Unwinding
  BY DEF Init, Unwinding, Opened
<1> QED
  BY <1>1, <1>2, <1>3, <1>4 DEF Inv

-----------------------------------------------------------------------------
(* Control: the rows and the goroutines.                                    *)

(* Each step of a handler keeps the control typed and the handlers counted. *)
LEMMA HandlerControl ==
  ASSUME Inv, NEW c \in Sessions, Handler(c)
  PROVE  ControlOK' /\ Unwinding'
<1> USE DEF At, Goto, Opened, ControlOK, Unwinding, Running, Steps
<1>0. ControlOK /\ Unwinding
  BY DEF Inv
<1>1. CASE openModemSession(c)
  <2>1. CASE Goto(c, "gone") /\ UNCHANGED <<tracked, live>>
    BY <1>0, <1>1, <2>1 DEF openModemSession, dbVars
  <2>2. CASE /\ Goto(c, "start") /\ tracked' = tracked \cup {c}
             /\ live' = [live EXCEPT ![c] = server \in {"up", "stopping"}]
    <3>1. UNCHANGED <<server, ready, row, allowed, fresh, unstamped>> /\ pc[c] = "open"
      BY <1>1, <2>2 DEF openModemSession, dbVars
    <3>2. ControlOK'
      BY <1>0, <2>2, <3>1
    <3>3. \A d \in Sessions : d # c => live'[d] = live[d] /\ pc'[d] = pc[d]
      BY <1>0, <2>2
    <3>4. pc'[c] = "start" /\ (server \notin {"up", "stopping"} => ~live'[c])
      BY <1>0, <2>2
    <3>5. Unwinding'
      BY <1>0, <2>2, <3>1, <3>3, <3>4
    <3> QED
      BY <3>2, <3>5
  <2> QED
    BY <1>1, <2>1, <2>2 DEF openModemSession
<1>2. CASE StartConsoleSession(c)
  BY <1>0, <1>2 DEF StartConsoleSession
<1>3. CASE Ready(c) \/ Login(c) \/ Leave(c)
  BY <1>0, <1>3 DEF Ready, Login, Leave, dbVars
<1>4. CASE Take(c)
  BY <1>0, <1>4 DEF Take, dbVars
<1>5. CASE Permit(c)
  <2>1. UNCHANGED <<server, live, ready, tracked, row, allowed, unstamped>> /\ pc[c] = "permit"
    BY <1>5 DEF Permit, dbVars
  <2>2. fresh' \in [Sessions -> SUBSET Commands]
    BY <1>0, <1>5 DEF Permit, Drop
  <2>3. pc' = [pc EXCEPT ![c] = "log"] \/ pc' = [pc EXCEPT ![c] = "loop"] \/ pc' = pc
    BY <1>5 DEF Permit, Drop
  <2> QED
    BY <1>0, <2>1, <2>2, <2>3
<1>6. CASE LogCommand(c)
  <2>1. UNCHANGED <<server, live, ready, tracked, row, allowed, unstamped>> /\ pc[c] = "log"
    BY <1>6 DEF LogCommand
  <2>2. fresh' \in [Sessions -> SUBSET Commands]
    BY <1>0, <1>6 DEF LogCommand, Onward
  <2>3. \E s \in {"exchange", "loop", "log"} : pc' = [pc EXCEPT ![c] = s]
    BY <1>6 DEF LogCommand, Onward
  <2> QED
    BY <1>0, <2>1, <2>2, <2>3
<1>7. CASE Transmit(c)
  BY <1>0, <1>7 DEF Transmit, handlerVars
<1>8. CASE Unanswered(c)
  BY <1>0, <1>8 DEF Unanswered, Onward, dbVars
<1>9. CASE \E j \in DOMAIN log : Reply(c, j)
  BY <1>0, <1>9 DEF Reply, Onward
<1>10. CASE EndConsoleSession(c)
  BY <1>0, <1>10 DEF EndConsoleSession
<1>11. CASE Close(c)
  BY <1>0, <1>11 DEF Close, dbVars
<1> QED
  BY <1>1, <1>2, <1>3, <1>4, <1>5, <1>6, <1>7, <1>8, <1>9, <1>10, <1>11 DEF Handler

(* So does every other step.                                                *)
LEMMA ControlStep == Inv /\ [Next]_vars => ControlOK' /\ Unwinding'
<1> SUFFICES ASSUME Inv, [Next]_vars PROVE ControlOK' /\ Unwinding'
  OBVIOUS
<1> USE DEF At, Goto, Opened, ControlOK, Unwinding, Running, Steps, dbVars, handlerVars
<1>0. ControlOK /\ Unwinding
  BY DEF Inv
<1>1. ASSUME NEW c \in Sessions, Connect(c) PROVE ControlOK' /\ Unwinding'
  BY <1>0, <1>1 DEF Connect
<1>2. ASSUME NEW c \in Sessions, ReadReady(c) PROVE ControlOK' /\ Unwinding'
  BY <1>0, <1>2 DEF ReadReady
<1>3. ASSUME NEW c \in Sessions, Cancel(c) PROVE ControlOK' /\ Unwinding'
  BY <1>0, <1>3 DEF Cancel
<1>4. ASSUME NEW c \in Sessions, NEW m \in Messages, Read(c, m) PROVE ControlOK' /\ Unwinding'
  BY <1>0, <1>4 DEF Read
<1>5. ASSUME NEW c \in Sessions, NEW cs \in SUBSET Commands, Share(c, cs)
      PROVE  ControlOK' /\ Unwinding'
  BY <1>0, <1>5 DEF Share
<1>6. CASE Shutdown
  BY <1>0, <1>6 DEF Shutdown
<1>7. CASE UNCHANGED vars
  BY <1>0, <1>7 DEF vars
<1> HIDE DEF At, Goto, Opened, ControlOK, Unwinding, Running, Steps, dbVars, handlerVars
<1> QED
  BY <1>1, <1>2, <1>3, <1>4, <1>5, <1>6, <1>7, HandlerControl DEF Next

-----------------------------------------------------------------------------
(* Work: the message in hand.                                               *)

(* The commands left are always those of a message, or its last one.        *)
LEMMA HandlerWork ==
  ASSUME Inv, NEW c \in Sessions, Handler(c)
  PROVE  WorkOK'
<1> USE DEF At, Goto, WorkOK
<1>0. WorkOK /\ pc \in [Sessions -> Steps]
  BY DEF Inv, ControlOK
<1>a. pc[c] \in {"permit", "log", "exchange"} => todo[c] \in Rests
  BY <1>0
<1>1. CASE openModemSession(c) \/ StartConsoleSession(c)
  BY <1>0, <1>1 DEF openModemSession, StartConsoleSession
<1>2. CASE Ready(c) \/ Login(c) \/ Leave(c)
  BY <1>0, <1>2 DEF Ready, Login, Leave
<1>3. CASE Take(c)
  <2> DEFINE m == Head(queue[c])
             q == IF m = GetLoc THEN <<Lat, Lon>> ELSE <<m>>
             f == IF m = GetLoc THEN Fetching(Nothing) ELSE NotFetching
  <2>1. /\ pc' = [pc EXCEPT ![c] = "permit"] /\ todo' = [todo EXCEPT ![c] = q]
        /\ fetching' = [fetching EXCEPT ![c] = f]
        /\ queue' = [queue EXCEPT ![c] = Tail(queue[c])] /\ queue[c] # <<>>
        /\ checked' = [checked EXCEPT ![c] = 0]
    BY <1>3 DEF Take
  <2>2. queue[c] \in Seq(Messages) /\ Len(queue[c]) <= Queue
    BY <1>0
  <2>3. /\ m \in Messages /\ Tail(queue[c]) \in Seq(Messages)
        /\ Len(Tail(queue[c])) = Len(queue[c]) - 1 /\ Len(queue[c]) \in Nat
    BY <2>1, <2>2
  <2>4. q \in Rests
    BY <2>3, ConsoleAssumption DEF Rests
  <2>5. f \in [on: BOOLEAN, lat: {Lat, Lon, Nothing}]
    BY DEF Fetching, NotFetching
  <2>6. Len(q) \in 1 .. 2
    BY <2>4, RestShape
  <2> HIDE DEF m, q, f
  <2>7. queue' \in [Sessions -> Seq(Messages)] /\ \A d \in Sessions : Len(queue'[d]) <= Queue
    BY <1>0, <2>1, <2>2, <2>3, ConsoleAssumption
  <2>8. todo' \in [Sessions -> Rests \cup {<<>>}] /\ checked' \in [Sessions -> 0 .. 2]
    BY <1>0, <2>1, <2>4
  <2>9. fetching' \in [Sessions -> [on: BOOLEAN, lat: {Lat, Lon, Nothing}]]
    BY <1>0, <2>1, <2>5
  <2>10. ASSUME NEW d \in Sessions
         PROVE  /\ pc'[d] \in {"permit", "log", "exchange"} => todo'[d] \in Rests
                /\ pc'[d] = "permit" => checked'[d] < Len(todo'[d])
    <3>1. CASE d = c
      <4>1. pc'[c] = "permit" /\ checked'[c] = 0 /\ todo'[c] = q
        BY <1>0, <2>1
      <4> QED
        <5>1. 0 < Len(q)
          BY <2>6
        <5> QED
          BY <2>4, <3>1, <4>1, <5>1
    <3>2. CASE d # c
      BY <1>0, <2>1, <3>2
    <3> QED
      BY <3>1, <3>2
  <2> QED
    BY <2>7, <2>8, <2>9, <2>10
<1>4. CASE Permit(c)
  <2>1. /\ todo[c] \in Rests /\ Len(todo[c]) \in 1 .. 2
        /\ checked[c] < Len(todo[c]) /\ checked[c] \in 0 .. 2
    BY <1>0, <1>4, RestShape DEF Permit
  <2>2. UNCHANGED <<queue, fetching>>
    BY <1>4 DEF Permit
  <2>3. CASE /\ checked' = [checked EXCEPT ![c] = @ + 1] /\ UNCHANGED todo
             /\ IF checked[c] + 1 = Len(todo[c]) THEN Goto(c, "log") ELSE UNCHANGED pc
    <3>1. checked[c] + 1 \in 0 .. 2
      <4>1. ASSUME NEW n \in 0 .. 2, NEW m \in 1 .. 2, n < m PROVE n + 1 \in 0 .. 2
        BY <4>1
      <4> QED
        BY <2>1, <4>1
    <3>2. checked' \in [Sessions -> 0 .. 2]
      BY <1>0, <2>3, <3>1
    <3> QED
      BY <1>0, <2>1, <2>2, <2>3, <3>2
  <2>4. CASE Drop(c) /\ UNCHANGED checked
    BY <1>0, <2>2, <2>4 DEF Drop
  <2> QED
    BY <1>4, <2>3, <2>4 DEF Permit
<1>b. ASSUME Onward(c, Tail(todo[c])), UNCHANGED <<queue, checked>>, todo[c] \in Rests,
             fetching' \in [Sessions -> [on: BOOLEAN, lat: {Lat, Lon, Nothing}]]
      PROVE  WorkOK'
  <2>1. Tail(todo[c]) \in Rests \cup {<<>>}
    BY <1>b, RestShape
  <2>2. todo' \in [Sessions -> Rests \cup {<<>>}]
    BY <1>0, <1>b, <2>1 DEF Onward
  <2> QED
    BY <1>0, <1>b, <2>1, <2>2 DEF Onward
<1>5. CASE LogCommand(c)
  <2>1. CASE Onward(c, Tail(todo[c]))
    BY <1>0, <1>5, <1>a, <1>b, <2>1 DEF LogCommand
  <2>2. CASE Goto(c, "exchange") /\ UNCHANGED todo
    BY <1>0, <1>5, <1>a, <2>2 DEF LogCommand
  <2> QED
    BY <1>5, <2>1, <2>2 DEF LogCommand
<1>6. CASE Transmit(c)
  BY <1>0, <1>6 DEF Transmit, handlerVars
<1>7. CASE Unanswered(c)
  BY <1>0, <1>7, <1>a, <1>b DEF Unanswered
<1>8. ASSUME NEW j \in DOMAIN log, Reply(c, j) PROVE WorkOK'
  <2>1. \/ fetching' = fetching
        \/ \E v \in {Lat, Lon} : fetching' = [fetching EXCEPT ![c] = Fetching(v)]
    <3>1. fetching \in [Sessions -> [on: BOOLEAN, lat: {Lat, Lon, Nothing}]]
      BY <1>0
    <3>2. CASE fetching[c].on /\ log[cur[c]].cmd = Lat /\ IsCoordinate(log[j].cmd)
      BY <1>8, <3>2 DEF Reply, IsCoordinate
    <3>3. CASE ~(fetching[c].on /\ log[cur[c]].cmd = Lat /\ IsCoordinate(log[j].cmd))
      BY <1>8, <3>1, <3>3 DEF Reply
    <3> QED
      BY <3>2, <3>3
  <2>2. \A v \in {Lat, Lon} : Fetching(v) \in [on: BOOLEAN, lat: {Lat, Lon, Nothing}]
    BY DEF Fetching
  <2>3. fetching' \in [Sessions -> [on: BOOLEAN, lat: {Lat, Lon, Nothing}]]
    BY <1>0, <2>1, <2>2
  <2> QED
    BY <1>8, <1>a, <1>b, <2>3 DEF Reply
<1>9. CASE EndConsoleSession(c) \/ Close(c)
  BY <1>0, <1>9 DEF EndConsoleSession, Close
<1> HIDE DEF At, Goto, WorkOK
<1> QED
  BY <1>1, <1>2, <1>3, <1>4, <1>5, <1>6, <1>7, <1>8, <1>9 DEF Handler

(* The socket's goroutine queues messages and touches no other work.        *)
LEMMA WorkStep == Inv /\ [Next]_vars => WorkOK'
<1> SUFFICES ASSUME Inv, [Next]_vars PROVE WorkOK'
  OBVIOUS
<1> USE DEF At, Goto, WorkOK, handlerVars
<1>0. WorkOK /\ pc \in [Sessions -> Steps]
  BY DEF Inv, ControlOK
<1>1. ASSUME NEW c \in Sessions, Connect(c) \/ ReadReady(c) \/ Cancel(c) PROVE WorkOK'
  BY <1>0, <1>1 DEF Connect, ReadReady, Cancel
<1>2. ASSUME NEW c \in Sessions, NEW m \in Messages, Read(c, m) PROVE WorkOK'
  <2>1. /\ queue' = [queue EXCEPT ![c] = Append(queue[c], m)] /\ Len(queue[c]) < Queue
        /\ UNCHANGED <<pc, todo, checked, fetching>>
    BY <1>2 DEF Read
  <2>2. queue[c] \in Seq(Messages)
    BY <1>0
  <2>3. Append(queue[c], m) \in Seq(Messages) /\ Len(Append(queue[c], m)) = Len(queue[c]) + 1
        /\ Len(queue[c]) \in Nat
    BY <2>2
  <2>4. queue' \in [Sessions -> Seq(Messages)] /\ \A d \in Sessions : Len(queue'[d]) <= Queue
    BY <1>0, <2>1, <2>3, ConsoleAssumption
  <2> QED
    BY <1>0, <2>1, <2>4
<1>3. ASSUME NEW c \in Sessions, NEW cs \in SUBSET Commands, Share(c, cs) PROVE WorkOK'
  BY <1>0, <1>3 DEF Share
<1>4. CASE Shutdown
  BY <1>0, <1>4 DEF Shutdown
<1>5. CASE UNCHANGED vars
  BY <1>0, <1>5 DEF vars
<1> HIDE DEF At, Goto, WorkOK, handlerVars
<1> QED
  BY <1>1, <1>2, <1>3, <1>4, <1>5, HandlerWork DEF Next

-----------------------------------------------------------------------------
(* The audit log and the coordinates.                                       *)

(* Rows are appended and counted up, and a coordinate is one that was read. *)
LEMMA HandlerLog ==
  ASSUME Inv, NEW c \in Sessions, Handler(c)
  PROVE  LogOK'
<1> USE DEF At, Goto
<1>0. /\ LogOK /\ pc \in [Sessions -> Steps]
      /\ fetching \in [Sessions -> [on: BOOLEAN, lat: {Lat, Lon, Nothing}]]
  BY DEF Inv, ControlOK, WorkOK
<1>a. ASSUME UNCHANGED <<log, cur, location>>, pc'[c] # "exchange",
             \A d \in Sessions \ {c} : pc'[d] = pc[d]
      PROVE  LogOK'
  BY <1>0, <1>a DEF LogOK
<1>1. CASE openModemSession(c) \/ StartConsoleSession(c) \/ EndConsoleSession(c) \/ Close(c)
  BY <1>0, <1>1, <1>a DEF openModemSession, StartConsoleSession, EndConsoleSession, Close, dbVars
<1>2. CASE Ready(c) \/ Login(c) \/ Leave(c) \/ Take(c)
  BY <1>0, <1>2, <1>a DEF Ready, Login, Leave, Take, dbVars
<1>3. CASE Permit(c)
  BY <1>0, <1>3, <1>a DEF Permit, Drop, dbVars
<1>4. CASE LogCommand(c)
  <2> DEFINE entry == Row(c, Head(todo[c]), 0, 0, FALSE)
  <2>1. Head(todo[c]) \in Commands
    BY <1>4, RestShape DEF LogCommand, Inv, WorkOK
  <2>2. entry \in LogRows
    <3>1. 0 \in 0 .. Tries /\ FALSE \in BOOLEAN
      BY ConsoleAssumption
    <3> QED
      BY <2>1, <3>1, RowTyped
  <2> HIDE DEF entry
  <2>3. log \in Seq(LogRows) /\ Len(log) \in Nat /\ cur \in [Sessions -> Nat]
    BY <1>0 DEF LogOK
  <2>4. Append(log, entry) \in Seq(LogRows) /\ Len(Append(log, entry)) = Len(log) + 1
    BY <2>2, <2>3
  <2>5. UNCHANGED location /\ pc[c] = "log"
    BY <1>4 DEF LogCommand
  <2>6. CASE /\ log' = Append(log, entry) /\ cur' = [cur EXCEPT ![c] = Len(log) + 1]
             /\ Goto(c, "exchange")
    BY <1>0, <2>3, <2>4, <2>5, <2>6 DEF LogOK
  <2>7. CASE Onward(c, Tail(todo[c])) /\ UNCHANGED <<log, cur>>
    BY <1>0, <1>a, <2>5, <2>7 DEF Onward
  <2>8. CASE log' = Append(log, entry) /\ Onward(c, Tail(todo[c])) /\ UNCHANGED cur
    <3>1. \A d \in Sessions : pc'[d] = "exchange" => pc[d] = "exchange"
      BY <1>0, <2>8 DEF Onward
    <3> QED
      BY <1>0, <2>3, <2>4, <2>5, <2>8, <3>1 DEF LogOK
  <2> QED
    BY <1>4, <2>6, <2>7, <2>8 DEF LogCommand, entry
<1>b. ASSUME NEW i \in 1 .. Len(log), NEW e \in LogRows PROVE
        [log EXCEPT ![i] = e] \in Seq(LogRows) /\ Len([log EXCEPT ![i] = e]) = Len(log)
  BY <1>0 DEF LogOK
<1>c. ASSUME NEW i \in 1 .. Len(log)
      PROVE  /\ log[i] \in LogRows /\ log[i].cmd \in Commands /\ log[i].sends \in 0 .. Tries
             /\ log[i].heard \in 0 .. Tries /\ log[i].marked \in BOOLEAN
  <2>1. log[i] \in LogRows
    BY <1>0 DEF LogOK
  <2> QED
    BY <2>1 DEF LogRows
<1>5. CASE Transmit(c)
  <2>1. cur[c] \in 1 .. Len(log) /\ log[cur[c]].sends < Tries
    BY <1>0, <1>5 DEF Transmit, LogOK
  <2> DEFINE e == Row(c, log[cur[c]].cmd, log[cur[c]].sends + 1, log[cur[c]].heard, FALSE)
  <2>2. log[cur[c]].sends + 1 \in 0 .. Tries
    BY <2>1, <1>c, ConsoleAssumption
  <2>3. e \in LogRows
    BY <1>c, <2>1, <2>2, RowTyped
  <2>4. log' = [log EXCEPT ![cur[c]] = e] /\ UNCHANGED <<pc, cur, location>>
    BY <1>5 DEF Transmit, handlerVars
  <2> HIDE DEF e
  <2> QED
    BY <1>0, <1>b, <2>1, <2>3, <2>4 DEF LogOK
<1>6. CASE Unanswered(c)
  BY <1>0, <1>6, <1>a DEF Unanswered, Onward, dbVars
<1>7. ASSUME NEW j \in DOMAIN log, Reply(c, j) PROVE LogOK'
  <2>1. /\ cur[c] \in 1 .. Len(log) /\ j \in 1 .. Len(log)
        /\ log[j].heard < log[j].sends
    BY <1>0, <1>7 DEF Reply, LogOK
  <2> DEFINE e == Row(c, log[j].cmd, log[j].sends, log[j].heard + 1, log[j].marked)
             heard == [log EXCEPT ![j] = e]
  <2>2. log[j].heard + 1 \in 0 .. Tries
    BY <2>1, <1>c, ConsoleAssumption
  <2>3. e \in LogRows
    BY <1>c, <2>1, <2>2, RowTyped
  <2>4. heard \in Seq(LogRows) /\ Len(heard) = Len(log) /\ heard[cur[c]] \in LogRows
    BY <1>b, <2>1, <2>3
  <2>5. PICK mark \in BOOLEAN : log' = [heard EXCEPT ![cur[c]] =
            Row(c, heard[cur[c]].cmd, heard[cur[c]].sends, heard[cur[c]].heard, mark)]
    BY <1>7 DEF Reply
  <2> HIDE DEF heard, e
  <2>6. Row(c, heard[cur[c]].cmd, heard[cur[c]].sends, heard[cur[c]].heard, mark) \in LogRows
    <3>1. heard[cur[c]].cmd \in Commands /\ heard[cur[c]].sends \in 0 .. Tries
          /\ heard[cur[c]].heard \in 0 .. Tries
      BY <2>4 DEF LogRows
    <3> QED
      BY <3>1, RowTyped
  <2>7. log' \in Seq(LogRows) /\ Len(log') = Len(log)
    BY <2>1, <2>4, <2>5, <2>6
  <2>8. location' \in [lat: {Lat, Lon, Nothing}, lon: {Lat, Lon, Nothing}]
    <3>1. location' = location \/ location' = Stored(c, log[j].cmd)
      BY <1>7 DEF Reply
    <3>2. location \in [lat: {Lat, Lon, Nothing}, lon: {Lat, Lon, Nothing}]
          /\ fetching[c].lat \in {Lat, Lon, Nothing}
      BY <1>0 DEF LogOK
    <3>3. Stored(c, log[j].cmd) \in [lat: {Lat, Lon, Nothing}, lon: {Lat, Lon, Nothing}]
      BY <3>2 DEF Stored, IsCoordinate
    <3> QED
      BY <3>1, <3>2, <3>3
  <2>9. UNCHANGED cur /\ \A d \in Sessions : pc'[d] = "exchange" => pc[d] = "exchange"
    BY <1>0, <1>7 DEF Reply, Onward
  <2> QED
    BY <1>0, <2>7, <2>8, <2>9 DEF LogOK
<1> HIDE DEF At, Goto
<1> QED
  BY <1>1, <1>2, <1>3, <1>4, <1>5, <1>6, <1>7 DEF Handler

(* No other step writes them.                                               *)
LEMMA LogStep == Inv /\ [Next]_vars => LogOK'
<1> SUFFICES ASSUME Inv, [Next]_vars PROVE LogOK'
  OBVIOUS
<1>0. LogOK /\ pc \in [Sessions -> Steps]
  BY DEF Inv, ControlOK
<1>a. ASSUME UNCHANGED <<log, cur, location>>,
             \A d \in Sessions : pc'[d] = "exchange" => pc[d] = "exchange"
      PROVE  LogOK'
  BY <1>0, <1>a DEF LogOK
<1> USE DEF handlerVars, dbVars, At, Goto
<1>1. ASSUME NEW c \in Sessions, Connect(c) \/ ReadReady(c) \/ Cancel(c) PROVE LogOK'
  BY <1>0, <1>1, <1>a DEF Connect, ReadReady, Cancel
<1>2. ASSUME NEW c \in Sessions, NEW m \in Messages, Read(c, m) PROVE LogOK'
  BY <1>2, <1>a DEF Read
<1>3. ASSUME NEW c \in Sessions, NEW cs \in SUBSET Commands, Share(c, cs) PROVE LogOK'
  BY <1>3, <1>a DEF Share
<1>4. CASE Shutdown \/ UNCHANGED vars
  BY <1>4, <1>a DEF Shutdown, vars
<1> HIDE DEF handlerVars, dbVars, At, Goto
<1> QED
  BY <1>1, <1>2, <1>3, <1>4, HandlerLog DEF Next

(* Every step keeps the invariant.                                          *)
LEMMA InvStep == Inv /\ [Next]_vars => Inv'
  BY ControlStep, WorkStep, LogStep DEF Inv

(* Consoles, rows and the log keep their types, and no queue overflows.     *)
THEOREM TypeCorrect == Spec => []TypeOK
<1>1. Inv => TypeOK
  <2> SUFFICES ASSUME Inv PROVE TypeOK
    OBVIOUS
  <2>1. ASSUME NEW c \in Sessions
        PROVE  /\ queue[c] \in Seq(Messages) /\ Len(queue[c]) <= Queue
               /\ todo[c] \in Seq(Commands) /\ Len(todo[c]) <= 2
               /\ checked[c] \in 0 .. 2 /\ cur[c] \in 0 .. Len(log)
    <3>1. todo[c] \in Seq(Commands) /\ Len(todo[c]) <= 2
      <4>1. CASE todo[c] = <<>>
        BY <4>1
      <4>2. CASE todo[c] \in Rests
        BY <4>2, RestShape
      <4> QED
        BY <4>1, <4>2 DEF Inv, WorkOK
    <3>2. cur[c] \in 0 .. Len(log)
      BY DEF Inv, LogOK
    <3> QED
      BY <3>1, <3>2 DEF Inv, WorkOK
  <2>2. fetching \in [Sessions -> [on: BOOLEAN, lat: Commands \cup {Nothing}]]
    BY ConsoleAssumption DEF Inv, WorkOK
  <2> QED
    BY <2>1, <2>2 DEF Inv, ControlOK, LogOK, LogRows, TypeOK
<1> QED
  BY <1>1, InitInv, InvStep, PTL DEF Spec

(* A drain that reports every handler finished leaves no session's row open *)
(* but where the database lost the insert's answer or the stamp.            *)
THEOREM DrainStamps == Spec => []DrainLeavesNoSessionOpen
<1>1. Inv => DrainLeavesNoSessionOpen
  BY DEF Inv, Unwinding, DrainLeavesNoSessionOpen
<1> QED
  BY <1>1, InitInv, InvStep, PTL DEF Spec

-----------------------------------------------------------------------------
(* Permission. What a message asks for is checked after it is taken up, and *)
(* all of it before any of it is sent; nothing checked so becomes unfresh.  *)

Handling == {"permit", "log", "exchange"}

PermittedFor(c) ==
    /\ pc[c] \in Handling => allowed[c] \subseteq fresh[c]
    /\ pc[c] = "permit" => \A i \in 1 .. checked[c] : todo[c][i] \in fresh[c]
    /\ pc[c] \in {"log", "exchange"} => \A i \in 1 .. Len(todo[c]) : todo[c][i] \in fresh[c]

Permitted == \A c \in Sessions : PermittedFor(c)

(* At first nothing is handled.                                             *)
LEMMA InitPermitted == Init => Permitted
  BY DEF Init, Permitted, PermittedFor, Handling

(* What is left of a message after its first command.                       *)
LEMMA TailShape ==
  ASSUME NEW q \in Rests
  PROVE  /\ Tail(q) # <<>> => Len(q) = 2 /\ q[2] = Lon /\ Tail(q) = <<Lon>>
         /\ Len(Tail(q)) # 2
<1>1. CASE \E m \in Commands : q = <<m>>
  BY <1>1
<1>2. CASE q = <<Lat, Lon>>
  <2>1. Tail(q) = <<Lon>>
    BY <1>2
  <2> QED
    BY <1>2, <2>1
<1> QED
  BY <1>1, <1>2 DEF Rests

(* A session that is not the one stepping keeps what it had.                *)
LEMMA OthersPermitted ==
  ASSUME Permitted, NEW d \in Sessions, allowed'[d] = allowed[d], fresh'[d] = fresh[d],
         todo'[d] = todo[d], pc'[d] = pc[d], checked'[d] = checked[d]
  PROVE  PermittedFor(d)'
<1>1. PermittedFor(d)
  BY DEF Permitted
<1> QED
  BY <1>1 DEF PermittedFor

(* The step of the session's own handler.                                   *)
LEMMA HandlerPermitted ==
  ASSUME Inv, Permitted, NEW c \in Sessions, Handler(c)
  PROVE  PermittedFor(c)'
<1> USE DEF At, Goto, Opened
<1>0. /\ PermittedFor(c) /\ pc \in [Sessions -> Steps]
      /\ todo \in [Sessions -> Rests \cup {<<>>}] /\ checked \in [Sessions -> 0 .. 2]
      /\ allowed \in [Sessions -> SUBSET Commands] /\ fresh \in [Sessions -> SUBSET Commands]
  BY DEF Inv, ControlOK, WorkOK, Permitted
<1>a. pc[c] \in {"permit", "log", "exchange"} => todo[c] \in Rests
  BY DEF Inv, WorkOK
<1>b. ASSUME pc'[c] \notin Handling PROVE PermittedFor(c)'
  BY <1>b DEF PermittedFor, Handling
<1>1. CASE openModemSession(c) \/ StartConsoleSession(c) \/ EndConsoleSession(c) \/ Close(c)
  BY <1>0, <1>1, <1>b DEF openModemSession, StartConsoleSession, EndConsoleSession, Close, Handling
<1>2. CASE Ready(c) \/ Login(c) \/ Leave(c)
  BY <1>0, <1>2, <1>b DEF Ready, Login, Leave, Handling
<1>3. CASE Take(c)
  <2>1. pc'[c] = "permit" /\ checked'[c] = 0 /\ fresh'[c] = allowed[c] /\ allowed' = allowed
    BY <1>0, <1>3 DEF Take, dbVars
  <2> QED
    BY <2>1 DEF PermittedFor
<1>4. CASE Permit(c)
  <2>1. todo[c] \in Rests /\ Len(todo[c]) \in 1 .. 2 /\ checked[c] \in 0 .. 2 /\ pc[c] = "permit"
    BY <1>0, <1>4, <1>a, RestShape DEF Permit
  <2>2. allowed' = allowed /\ allowed[c] \subseteq fresh[c]
    BY <1>0, <1>4, <2>1 DEF Permit, dbVars, PermittedFor, Handling
  <2>3. CASE /\ todo[c][checked[c] + 1] \in allowed[c] /\ checked' = [checked EXCEPT ![c] = @ + 1]
             /\ IF checked[c] + 1 = Len(todo[c]) THEN Goto(c, "log") ELSE UNCHANGED pc
             /\ UNCHANGED <<todo, fresh>>
    <3>1. \A i \in 1 .. checked[c] + 1 : todo[c][i] \in fresh[c]
      <4>1. todo[c][checked[c] + 1] \in fresh[c]
        BY <2>2, <2>3
      <4>2. \A i \in 1 .. checked[c] : todo[c][i] \in fresh[c]
        BY <1>0, <2>1 DEF PermittedFor
      <4>3. \A i \in 1 .. checked[c] + 1 : i \in 1 .. checked[c] \/ i = checked[c] + 1
        BY <2>1
      <4> QED
        BY <4>1, <4>2, <4>3
    <3>2. checked'[c] = checked[c] + 1 /\ todo'[c] = todo[c] /\ fresh'[c] = fresh[c]
      BY <1>0, <2>3
    <3>3. pc'[c] = "log" => checked[c] + 1 = Len(todo[c])
      BY <1>0, <2>1, <2>3
    <3>4. pc'[c] \in {"log", "permit"}
      BY <1>0, <2>1, <2>3
    <3> QED
      BY <2>2, <3>1, <3>2, <3>3, <3>4 DEF PermittedFor
  <2>4. CASE Drop(c)
    BY <1>0, <1>b, <2>4 DEF Drop, Handling
  <2> QED
    BY <1>4, <2>3, <2>4 DEF Permit
<1>c. ASSUME Onward(c, Tail(todo[c])), pc[c] \in {"log", "exchange"}, UNCHANGED allowed
      PROVE  PermittedFor(c)'
  <2> DEFINE rest == Tail(todo[c])
  <2>1. todo[c] \in Rests /\ allowed[c] \subseteq fresh[c]
    BY <1>0, <1>a, <1>c DEF PermittedFor, Handling
  <2>2. /\ todo'[c] = rest /\ pc'[c] = IF rest = <<>> THEN "loop" ELSE "log"
        /\ rest # <<>> => fresh'[c] = fresh[c]
    BY <1>0, <1>c DEF Onward
  <2>3. rest # <<>> => Len(todo[c]) = 2 /\ todo[c][2] = Lon /\ rest = <<Lon>>
    BY <2>1, TailShape
  <2> HIDE DEF rest
  <2>4. CASE rest = <<>>
    <3>1. pc'[c] = "loop"
      BY <2>2, <2>4
    <3> QED
      BY <1>b, <3>1 DEF Handling
  <2>5. CASE rest # <<>>
    <3>1. Lon \in fresh[c]
      <4>1. \A i \in 1 .. Len(todo[c]) : todo[c][i] \in fresh[c]
        BY <1>0, <1>c DEF PermittedFor
      <4>2. 2 \in 1 .. Len(todo[c])
        BY <2>3, <2>5
      <4> QED
        BY <2>3, <2>5, <4>1, <4>2
    <3>2. /\ Len(todo'[c]) = 1 /\ todo'[c][1] = Lon /\ fresh'[c] = fresh[c] /\ pc'[c] = "log"
      BY <2>2, <2>3, <2>5
    <3> QED
      BY <1>c, <2>1, <3>1, <3>2 DEF PermittedFor
  <2> QED
    BY <2>4, <2>5
<1>5. CASE LogCommand(c)
  <2>1. CASE Onward(c, Tail(todo[c]))
    BY <1>5, <1>c, <2>1 DEF LogCommand
  <2>2. CASE Goto(c, "exchange") /\ UNCHANGED <<todo, fresh>>
    BY <1>0, <1>5, <2>2 DEF LogCommand, PermittedFor, Handling
  <2> QED
    BY <1>5, <2>1, <2>2 DEF LogCommand
<1>6. CASE Transmit(c)
  BY <1>0, <1>6 DEF Transmit, handlerVars, PermittedFor, Handling
<1>7. CASE Unanswered(c) \/ \E j \in DOMAIN log : Reply(c, j)
  BY <1>7, <1>c DEF Unanswered, Reply, dbVars
<1> HIDE DEF At, Goto, Opened
<1> QED
  BY <1>1, <1>2, <1>3, <1>4, <1>5, <1>6, <1>7 DEF Handler

(* A handler leaves the other sessions' work and permissions alone.         *)
LEMMA HandlerIsOwn ==
  ASSUME Inv, NEW c \in Sessions, Handler(c), NEW d \in Sessions, d # c
  PROVE  /\ allowed'[d] = allowed[d] /\ fresh'[d] = fresh[d] /\ todo'[d] = todo[d]
         /\ pc'[d] = pc[d] /\ checked'[d] = checked[d]
<1> USE DEF Goto, dbVars, handlerVars, Drop, Onward
<1>0. /\ pc \in [Sessions -> Steps] /\ todo \in [Sessions -> Rests \cup {<<>>}]
      /\ checked \in [Sessions -> 0 .. 2] /\ fresh \in [Sessions -> SUBSET Commands]
  BY DEF Inv, ControlOK, WorkOK
<1>1. CASE openModemSession(c) \/ StartConsoleSession(c) \/ EndConsoleSession(c) \/ Close(c)
  BY <1>0, <1>1 DEF openModemSession, StartConsoleSession, EndConsoleSession, Close
<1>2. CASE Ready(c) \/ Login(c) \/ Leave(c) \/ Take(c)
  BY <1>0, <1>2 DEF Ready, Login, Leave, Take
<1>3. CASE Permit(c)
  BY <1>0, <1>3 DEF Permit
<1>4. CASE LogCommand(c) \/ Transmit(c)
  BY <1>0, <1>4 DEF LogCommand, Transmit
<1>5. CASE Unanswered(c) \/ \E j \in DOMAIN log : Reply(c, j)
  BY <1>0, <1>5 DEF Unanswered, Reply
<1> HIDE DEF Goto, dbVars, handlerVars, Drop, Onward
<1> QED
  BY <1>1, <1>2, <1>3, <1>4, <1>5 DEF Handler

(* Every step.                                                              *)
LEMMA PermittedStep == Inv /\ Permitted /\ [Next]_vars => Permitted'
<1> SUFFICES ASSUME Inv, Permitted, [Next]_vars, NEW d \in Sessions
             PROVE  PermittedFor(d)'
  BY DEF Permitted
<1> USE DEF Goto, dbVars, handlerVars
<1>0. /\ pc \in [Sessions -> Steps] /\ allowed \in [Sessions -> SUBSET Commands]
      /\ fresh \in [Sessions -> SUBSET Commands] /\ PermittedFor(d)
  BY DEF Inv, ControlOK, Permitted
<1>1. ASSUME NEW c \in Sessions, Handler(c) PROVE PermittedFor(d)'
  BY <1>1, HandlerPermitted, HandlerIsOwn, OthersPermitted
<1>2. ASSUME NEW c \in Sessions, Connect(c) PROVE PermittedFor(d)'
  <2>1. UNCHANGED <<allowed, fresh, todo, checked>> /\ (pc'[d] = pc[d] \/ pc'[d] = "open")
    BY <1>0, <1>2 DEF Connect
  <2> QED
    BY <1>0, <2>1 DEF PermittedFor, Handling
<1>3. ASSUME NEW c \in Sessions, NEW m \in Messages, Read(c, m) PROVE PermittedFor(d)'
  BY <1>3, OthersPermitted DEF Read
<1>4. ASSUME NEW c \in Sessions, ReadReady(c) \/ Cancel(c) PROVE PermittedFor(d)'
  BY <1>4, OthersPermitted DEF ReadReady, Cancel
<1>5. ASSUME NEW c \in Sessions, NEW cs \in SUBSET Commands, Share(c, cs) PROVE PermittedFor(d)'
  <2>1. UNCHANGED <<pc, todo, checked>>
    BY <1>5 DEF Share
  <2>2. CASE d = c
    <3>1. pc[d] \in Handling => todo[d] # <<>>
      <4>1. <<>> \notin Rests
        BY RestShape
      <4> QED
        BY <4>1 DEF Inv, WorkOK, Handling
    <3>2. allowed'[d] = cs /\ (pc[d] \in Handling => fresh'[d] = fresh[d] \cup cs)
      BY <1>0, <1>5, <2>2, <3>1 DEF Share
    <3> QED
      BY <1>0, <2>1, <3>2 DEF PermittedFor, Handling
  <2>3. CASE d # c
    BY <1>0, <1>5, <2>1, <2>3, OthersPermitted DEF Share
  <2> QED
    BY <2>2, <2>3
<1>6. CASE Shutdown \/ UNCHANGED vars
  BY <1>6, OthersPermitted DEF Shutdown, vars
<1> HIDE DEF Goto, dbVars, handlerVars
<1> QED
  BY <1>1, <1>2, <1>3, <1>4, <1>5, <1>6 DEF Next

(* Writing an entry of a sequence makes it no longer.                       *)
LEMMA ExceptLength ==
  ASSUME NEW S, NEW q \in Seq(S), NEW i, NEW e
  PROVE  [q EXCEPT ![i] = e] \in Seq(S \cup {e}) /\ Len([q EXCEPT ![i] = e]) = Len(q)
<1> DEFINE T == S \cup {e}
<1>1. q \in Seq(T) /\ e \in T
  OBVIOUS
<1> HIDE DEF T
<1>2. CASE i \in 1 .. Len(q)
  BY <1>1, <1>2
<1>3. CASE i \notin 1 .. Len(q)
  <2> DEFINE r == [q EXCEPT ![i] = e]
  <2>1. r = q
    BY <1>3
  <2> HIDE DEF r
  <2>2. r \in Seq(T) /\ Len(r) = Len(q)
    BY <1>1, <2>1
  <2> QED
    BY <2>2 DEF r
<1> QED
  BY <1>2, <1>3 DEF T

(* The row that is added is that of the first command left.                 *)
LEMMA LoggedStep ==
  ASSUME Inv, Permitted, [Next]_vars, Len(log') > Len(log)
  PROVE  log'[Len(log')].cmd \in fresh[log'[Len(log')].session]
<1> USE DEF At, Goto, dbVars, handlerVars
<1>0. pc \in [Sessions -> Steps] /\ log \in Seq(LogRows) /\ Len(log) \in Nat
  BY DEF Inv, ControlOK, LogOK
<1>1. PICK c \in Sessions : LogCommand(c)
  <2>1. log' # log
    BY <1>0
  <2>2. PICK c \in Sessions : Handler(c)
    BY <2>1 DEF Next, Connect, ReadReady, Cancel, Read, Share, Shutdown, vars
  <2>3. ~Transmit(c)
    <3>1. Transmit(c) => \E y : log' = [log EXCEPT ![cur[c]] = y]
      BY DEF Transmit
    <3> QED
      BY <1>0, <3>1, ExceptLength
  <2>4. \A j \in DOMAIN log : ~Reply(c, j)
    <3>1. ASSUME NEW j \in DOMAIN log, Reply(c, j) PROVE Len(log') = Len(log)
      <4>1. PICK x, y : log' = [[log EXCEPT ![j] = x] EXCEPT ![cur[c]] = y]
        BY <3>1 DEF Reply
      <4>2. [log EXCEPT ![j] = x] \in Seq(LogRows \cup {x}) /\ Len([log EXCEPT ![j] = x]) = Len(log)
        BY <1>0, ExceptLength
      <4> QED
        BY <4>1, <4>2, ExceptLength
    <3> QED
      BY <1>0, <3>1
  <2>5. LogCommand(c)
    BY <2>1, <2>2, <2>3, <2>4 DEF Handler, openModemSession, StartConsoleSession, Ready, Login,
       Take, Leave, Permit, Unanswered, EndConsoleSession, Close
  <2> QED
    BY <2>5
<1>2. pc[c] = "log" /\ log' # log
  BY <1>0, <1>1 DEF LogCommand
<1>3. log' = Append(log, Row(c, Head(todo[c]), 0, 0, FALSE))
  BY <1>1, <1>2 DEF LogCommand
<1>4. log'[Len(log')] = Row(c, Head(todo[c]), 0, 0, FALSE)
  <2> DEFINE e == Row(c, Head(todo[c]), 0, 0, FALSE)
  <2>1. todo[c] \in Rests /\ 0 \in 0 .. Tries /\ FALSE \in BOOLEAN
    BY <1>2, ConsoleAssumption DEF Inv, WorkOK
  <2>2. e \in LogRows
    BY <2>1, RestShape, RowTyped
  <2>3. log' = Append(log, e)
    BY <1>3
  <2> HIDE DEF e
  <2>4. log'[Len(log')] = e
    BY <1>0, <2>2, <2>3
  <2> QED
    BY <2>4 DEF e
<1>5. Head(todo[c]) = todo[c][1] /\ Len(todo[c]) \in 1 .. 2
  BY <1>2, RestShape DEF Inv, WorkOK
<1>6. todo[c][1] \in fresh[c]
  BY <1>2, <1>5 DEF Permitted, PermittedFor
<1> QED
  BY <1>4, <1>5, <1>6 DEF Row

(* Every command that gets a row, and so is sent, was permitted at some     *)
(* moment since its message was taken up, whatever is taken away and when.  *)
THEOREM Authorized == Spec => AuthorizedSinceTaken
<1>1. Init => Inv /\ Permitted
  BY InitInv, InitPermitted
<1>2. Inv /\ Permitted /\ [Next]_vars => (Inv /\ Permitted)'
  BY InvStep, PermittedStep
<1>3. Inv /\ Permitted /\ [Next]_vars =>
        [Len(log') > Len(log) =>
            LET entry == log'[Len(log')] IN entry.cmd \in fresh[entry.session]]_vars
  BY LoggedStep
<1> QED
  BY <1>1, <1>2, <1>3, PTL DEF Spec, AuthorizedSinceTaken

=============================================================================
