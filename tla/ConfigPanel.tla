-------------------------------- MODULE ConfigPanel --------------------------------
(***************************************************************************)
(* The Configure tab's organization configuration (console-config.js): it  *)
(* loads the commands of the chosen organization and profile, and runs     *)
(* them one by one over a connection, of which it knows only the contract  *)
(* of MeshTransport. The same connection carries what is typed into the    *)
(* command line and the reading of the location, and its statuses do not   *)
(* say whose they are.                                                      *)
(***************************************************************************)
EXTENDS Naturals, Sequences, SequencesExt

CONSTANTS
    Profiles,    \* of organization and profile
    N,          \* commands in a list
    Denied,     \* lines the user's permissions do not allow over the air
    MaxLoads,   \* requests for a list under way
    MaxSent,    \* commands under way
    MaxRuns     \* runs the user starts

Line == Profiles \X (1 .. N)

ASSUME PanelAssumption ==
    /\ N \in Nat \ {0} /\ Denied \subseteq Line
    /\ MaxLoads \in Nat \ {0} /\ MaxSent \in Nat /\ MaxRuns \in Nat

(* What else is sent.                                                       *)
Typed == <<"typed", 0>>
Location == <<"location", 0>>

NoRows == [of |-> "none", via |-> "none"]

VARIABLES
    phase,      \* of the connection
    sent,       \* what it was sent and has not settled: rows' lines, Typed, Location
    via,        \* "usb", "air": which one it is
    picked,     \* what the two selects show
    loads,      \* requests under way, each for a choice and a connection
    rows,       \* the choice and the connection the rows were made for
    shown,      \* the rows are on the page
    mark,       \* each row's status: "idle", "running", "ok", "fail"
    running,    \* a run is under way
    todo,       \* its rows to come, from the first to the last
    at,         \* the line it waits for; <<>> when it does not
    marking,    \* the index of its row, 0 once that row is off the page
    runs,
    stray,      \* something else was sent, or a wait was given up, since the page loaded
    given,      \* the lines the run was started for
    reloaded    \* the rows were replaced during the run

linkVars == <<phase, sent>>
listVars == <<via, picked, loads, rows, shown>>
runVars == <<running, todo, at, runs, given>>
panelVars == <<linkVars, listVars, mark, marking, runVars, reloaded, stray>>

Blank == [i \in 1 .. N |-> "idle"]

PanelInit ==
    /\ phase = "idle" /\ sent = <<>> /\ via = "usb"
    /\ picked \in Profiles
    /\ loads = <<[of |-> picked, via |-> "usb"]>>
    /\ rows = NoRows /\ shown = FALSE /\ mark = Blank
    /\ running = FALSE /\ todo = {} /\ at = <<>> /\ marking = 0 /\ runs = 0
    /\ given = {} /\ reloaded = FALSE
    /\ stray = FALSE

Link == INSTANCE MeshTransport WITH owed <- Len(sent)

-----------------------------------------------------------------------------
(* The list.                                                                *)

(* load(true): the selects are read, and the request goes out.               *)
Load(choice, over) == loads' = Append(loads, [of |-> choice, via |-> over])

(* The user waits for an answer now and then.                               *)
FewLoads == Len(loads) < MaxLoads

Choose(c) ==
    /\ c # picked /\ FewLoads
    /\ picked' = c /\ Load(c, via)
    /\ UNCHANGED <<linkVars, via, rows, shown, mark, marking, runVars, reloaded, stray>>

(* mesh:transport: configure.js allows it with no connection.               *)
SwitchTransport ==
    /\ phase = "idle" /\ FewLoads
    /\ via' = IF via = "usb" THEN "air" ELSE "usb"
    /\ Load(picked, via')
    /\ UNCHANGED <<linkVars, picked, rows, shown, mark, marking, runVars, reloaded, stray>>

(* The map's location is saved, and the list asked for again.               *)
SaveLocation ==
    /\ rows # NoRows /\ FewLoads /\ Load(picked, via)
    /\ UNCHANGED <<linkVars, via, picked, rows, shown, mark, marking, runVars, reloaded, stray>>

(* An answer, in whatever order: render() puts the selects and the rows to   *)
(* what it says, also in the middle of a run.                               *)
Loaded(k) ==
    /\ picked' = loads[k].of /\ rows' = loads[k] /\ shown' = TRUE
    /\ loads' = RemoveAt(loads, k)
    /\ mark' = Blank /\ marking' = 0
    /\ reloaded' = (reloaded \/ running)
    /\ UNCHANGED <<linkVars, via, runVars, stray>>

(* The request failed: the rows leave the page, and stay the panel's.        *)
LoadFails(k) ==
    /\ shown' = FALSE /\ loads' = RemoveAt(loads, k)
    /\ marking' = 0
    /\ UNCHANGED <<linkVars, via, picked, rows, mark, runVars, reloaded, stray>>

-----------------------------------------------------------------------------
(* The connection.                                                          *)

ListKept == UNCHANGED <<listVars, mark, marking, runVars, reloaded>>

LinkOpens ==
    /\ sent' = sent /\ (Link!Connect \/ Link!Ready)
    /\ ListKept /\ UNCHANGED stray

(* What was under way is forgotten, or still reported.                      *)
LinkCloses ==
    /\ sent' \in {sent, <<>>} /\ Link!Close
    /\ ListKept /\ UNCHANGED stray

(* A command typed, or the location asked for, beside the panel's.           *)
SendOther(what) ==
    /\ Len(sent) < MaxSent /\ FewLoads
    /\ sent' = Append(sent, what) /\ Link!Send
    /\ what = Location => ~running
    /\ stray' = TRUE
    /\ ListKept

(* The server says that it confirmed the repeater.                          *)
Confirmed ==
    /\ phase # "idle" /\ rows # NoRows /\ FewLoads /\ Load(picked, via)
    /\ UNCHANGED <<linkVars, via, picked, rows, shown, mark, marking, runVars, reloaded, stray>>

-----------------------------------------------------------------------------
(* A run.                                                                   *)

Runnable(r, i) == r.via = "usb" \/ <<r.of, i>> \notin Denied

RunnableIndices == {i \in 1 .. N : Runnable(rows, i)}

(* Slip: a second run may start beside the first. *)
RunLinesAnytime(indices) ==
    /\ phase = "ready" /\ runs < MaxRuns
    /\ running' = TRUE /\ todo' = indices /\ at' = <<>> /\ runs' = runs + 1
    /\ given' = {<<rows.of, i>> : i \in indices}
    /\ mark' = [i \in 1 .. N |-> IF i \in indices THEN "idle" ELSE mark[i]]
    /\ marking' = 0 /\ reloaded' = FALSE
    /\ UNCHANGED <<linkVars, listVars, stray>>

(* runLines(), of a row on the page or of all the panel has.                *)
RunLines(indices) ==
    /\ ~running /\ phase = "ready" /\ runs < MaxRuns
    /\ running' = TRUE /\ todo' = indices /\ at' = <<>> /\ runs' = runs + 1
    /\ given' = {<<rows.of, i>> : i \in indices}
    /\ mark' = [i \in 1 .. N |-> IF i \in indices THEN "idle" ELSE mark[i]]
    /\ marking' = 0 /\ reloaded' = FALSE
    /\ UNCHANGED <<linkVars, listVars, stray>>

PressRun == \/ \E i \in 1 .. N : shown /\ Runnable(rows, i) /\ RunLines({i})
            \/ rows # NoRows /\ RunnableIndices # {} /\ RunLines(RunnableIndices)

Mark(i, s) == [mark EXCEPT ![i] = s]

(* Slip: the wait outlives its run. *)
EndRunWaiting == running' = FALSE /\ todo' = {} /\ UNCHANGED <<at, runs, given>>

EndRun == running' = FALSE /\ todo' = {} /\ at' = <<>> /\ UNCHANGED <<runs, given>>

(* The next row is looked up in the rows of now; its line is sent, or it is    *)
(* refused (there is no connection, or its socket is closing while it still   *)
(* says "ready"), and the run fails with it.                                *)
NextLine ==
    /\ running /\ at = <<>>
    /\ \E i \in todo :
         /\ \A j \in todo : i <= j
         /\ \/ /\ ~Runnable(rows, i)
               /\ todo' = todo \ {i}
               /\ UNCHANGED <<linkVars, mark, marking, running, at, runs, given>>
            \/ /\ Runnable(rows, i)
               /\ EndRun /\ mark' = Mark(i, "fail") /\ marking' = 0
               /\ UNCHANGED linkVars
            \/ /\ Runnable(rows, i)
               /\ at' = <<rows.of, i>> /\ sent' = Append(sent, at') /\ Link!Send
               /\ todo' = todo \ {i}
               /\ mark' = Mark(i, "running") /\ marking' = i
               /\ UNCHANGED <<running, runs, given>>
    /\ UNCHANGED <<listVars, reloaded, stray>>

RunOut ==
    /\ running /\ at = <<>> /\ todo = {}
    /\ EndRun
    /\ UNCHANGED <<linkVars, listVars, mark, marking, reloaded, stray>>

(* Slip: a run goes on after a command that failed. *)
ResultGoesOn(ok) ==
    /\ mark' = IF marking = 0 THEN mark ELSE Mark(marking, IF ok THEN "ok" ELSE "fail")
    /\ marking' = 0
    /\ at' = <<>> /\ UNCHANGED <<running, todo, runs, given>>

(* What the wait resolves to marks its row, and a failure ends the run.      *)
Result(ok) ==
    /\ mark' = IF marking = 0 THEN mark ELSE Mark(marking, IF ok THEN "ok" ELSE "fail")
    /\ marking' = 0
    /\ IF ok THEN at' = <<>> /\ UNCHANGED <<running, todo, runs, given>> ELSE EndRun

(* Slip: only a connection that answers ends the wait. *)
WaitIfReady ==
    /\ at # <<>> /\ phase = "ready"
    /\ Result(FALSE) /\ stray' = TRUE
    /\ UNCHANGED <<linkVars, listVars, reloaded>>

(* A wait ends, failed, while its line's own result may still come.          *)
GivesUp ==
    /\ Result(FALSE) /\ stray' = TRUE
    /\ UNCHANGED <<linkVars, listVars, reloaded>>

(* waitForResult gives up after a minute.                                   *)
WaitTimesOut == at # <<>> /\ GivesUp

(* mesh:status "error" of no command's end: over the air the server has one    *)
(* when it cannot set a session up, and for each line of a location fetch    *)
(* that it could not log, which goes on. A wait takes it for its own.        *)
LinkComplains ==
    /\ at # <<>> /\ via = "air"
    /\ phase = "connecting" \/ (sent # <<>> /\ Head(sent) = Location)
    /\ GivesUp

(* The oldest command ends and nothing is said of it: it could not be         *)
(* transmitted, or a location came to nothing but a warning.                *)
Unreported ==
    /\ sent # <<>> /\ sent' = Tail(sent) /\ Link!Settle
    /\ ListKept /\ UNCHANGED stray

(* mesh:status: "reply", or "noreply", "error" and "denied" (~ok), is the     *)
(* result of the line waited for, whichever command it is of; a location     *)
(* saved asks for the list again. The oldest command is reported, or the     *)
(* newest is refused at once, the queue being full.                         *)
Status(k, ok) ==
    /\ sent' = RemoveAt(sent, k) /\ Link!Settle
    /\ IF at # <<>> /\ ~(ok /\ sent[k] = Location)
         THEN Result(ok)
         ELSE UNCHANGED <<mark, marking, runVars>>
    /\ IF ok /\ sent[k] \in {Location, Typed} /\ rows # NoRows
         THEN \/ Load(picked, via)
              \/ sent[k] = Typed /\ UNCHANGED loads
         ELSE UNCHANGED loads
    /\ UNCHANGED <<via, picked, rows, shown, reloaded, stray>>

Settles == \E k \in {1, Len(sent)} \cap DOMAIN sent, ok \in BOOLEAN :
             (k = 1 \/ ~ok) /\ Status(k, ok)

-----------------------------------------------------------------------------
(* A run that does not wait goes on at once.                                *)
GoesOn == running /\ at = <<>>

Step ==
    \/ \E c \in Profiles : Choose(c)
    \/ SwitchTransport \/ SaveLocation
    \/ \E k \in DOMAIN loads : Loaded(k) \/ LoadFails(k)
    \/ LinkOpens \/ LinkCloses \/ Confirmed
    \/ SendOther(Typed) \/ SendOther(Location)
    \/ PressRun \/ WaitTimesOut \/ LinkComplains \/ Settles \/ Unreported

PanelNext == NextLine \/ RunOut \/ (~GoesOn /\ Step)

(* The browser runs what is due, timers included.                           *)
PanelSpec ==
    /\ PanelInit /\ [][PanelNext]_panelVars
    /\ WF_panelVars(NextLine \/ RunOut) /\ WF_panelVars(WaitTimesOut)

-----------------------------------------------------------------------------
PanelTypeOK ==
    /\ phase \in {"idle", "connecting", "ready"} /\ via \in {"usb", "air"}
    /\ sent \in Seq(Line \cup {Typed, Location}) /\ Len(sent) <= MaxSent + MaxRuns
    /\ picked \in Profiles
    /\ loads \in Seq([of : Profiles, via : {"usb", "air"}]) /\ Len(loads) <= MaxLoads + MaxSent
    /\ rows = NoRows \/ rows \in [of : Profiles, via : {"usb", "air"}]
    /\ shown \in BOOLEAN /\ stray \in BOOLEAN /\ running \in BOOLEAN /\ reloaded \in BOOLEAN
    /\ mark \in [1 .. N -> {"idle", "running", "ok", "fail"}] /\ marking \in 0 .. N
    /\ todo \subseteq 1 .. N
    /\ at = <<>> \/ (running /\ at \in Line)
    /\ runs \in 0 .. MaxRuns /\ given \subseteq Line

(* A wait ends with its own line's result, or fails as one that is given up.   *)
OwnResult ==
    at # <<>> /\ at' = <<>>
        => \/ \E k \in DOMAIN sent : sent[k] = at /\ sent' = RemoveAt(sent, k)
           \/ ~running' /\ stray'

(* console-config.js: runs are serialized "so replies map to rows". A row is   *)
(* marked done only by its own line's reply, and a wait that ends otherwise   *)
(* (its minute is up, or a session that does not come about complains) fails  *)
(* its row and its run; as long as the connection carries nothing but runs    *)
(* and no earlier wait was given up. After either, a late or a stranger's     *)
(* result is taken for the line's, and the promise no longer holds.          *)
RepliesMapWhenAlone == [][~stray => OwnResult]_panelVars

(* A run sends only lines it was started for, and none once one of them      *)
(* failed, unless the rows were replaced under it.                          *)
RunsWhatWasPressed ==
    [][at = <<>> /\ at' # <<>> /\ ~reloaded
        => /\ at' \in given
           /\ \A j \in 1 .. N : <<rows.of, j>> \in given => mark[j] # "fail"]_panelVars

(* Every run ends, also when the connection is gone.                        *)
RunEnds == running ~> ~running

=============================================================================
