--------------------------------- MODULE UsbSetup ---------------------------------
(***************************************************************************)
(* The wizard that sets up a new repeater over USB (serial-setup.js): a key *)
(* is made in the page, the server lists the commands, the page splices the *)
(* key in and runs the list on the repeater through serial-cli.js, reboots *)
(* it and saves the record. Nothing but the run button is disabled while a *)
(* run is under way: the key and the list are the page's, and it reads them *)
(* as they are at each step. USB feeds the board: pulled, it forgets what  *)
(* it has not saved.                                                        *)
(***************************************************************************)
EXTENDS Naturals, Sequences

CONSTANTS
    Keys,       \* key pairs, by name
    NoKey,
    SaveDelay,  \* ticks until the firmware saves its access list (5 s)
    AclWait,    \* ticks the wizard leaves between setperm and reboot (6 s)
    MaxAsync,   \* keys on their way, and lists on their way
    MaxRuns

ASSUME SetupAssumption ==
    /\ SaveDelay \in Nat \ {0} /\ AclWait \in Nat /\ AclWait > SaveDelay
    /\ MaxAsync \in Nat \ {0} /\ MaxRuns \in Nat

VARIABLES
    mode,       \* "random", "prefix", "paste"
    priv, pub,  \* state.privHex, state.pubHex: NoKey is null
    coming,     \* keys being generated or derived, to be set when they come
    grinding, loops,    \* the flag, and the searches it keeps going
    asking,     \* generate() requests under way: does the list have a location?
    commands,   \* the resolved list, <<>> when there is none
    runPc,      \* "off", "pick", "boot", "next", "sent", "reboot", "failed", "close", "save"
    i,          \* the command to run, or under way
    runOff,     \* the run button is disabled
    permAt,     \* ticks since setperm was answered; NoPerm without
    runs,
    board,      \* "in", "out" (pulled during the run)
    identity,   \* the key the board has
    due,        \* ticks until it saves its access list, 0 when that is saved
    access,     \* MeshTender in its access list: "none", "granted", "saved", "lost"
    record,     \* the key the server saved
    meddled     \* the key or the list changed during the last run

keyVars == <<mode, priv, pub, coming, grinding, loops>>
listVars == <<asking, commands>>
runVars == <<runPc, i, runOff, permAt, runs>>
boardVars == <<board, identity, due, access>>
vars == <<keyVars, listVars, runVars, boardVars, record, meddled>>

NoPerm == AclWait + 1

Init ==
    /\ mode = "random" /\ priv = NoKey /\ pub = NoKey /\ coming = 1
    /\ grinding = FALSE /\ loops = 0
    /\ asking = <<>> /\ commands = <<>>
    /\ runPc = "off" /\ i = 1 /\ runOff = FALSE /\ permAt = NoPerm /\ runs = 0
    /\ board = "in" /\ identity = NoKey /\ due = 0 /\ access = "none"
    /\ record = NoKey /\ meddled = FALSE

Running == runPc # "off"

-----------------------------------------------------------------------------
(* The key.                                                                 *)

SetKeyState(pr, pu) == priv' = pr /\ pub' = pu /\ meddled' = (meddled \/ Running)

KeyOnly == UNCHANGED <<listVars, runVars, boardVars, record>>

(* refreshKeyMode: a random key is on its way, a pasted one is applied when   *)
(* derived, a prefix is to be searched for; a search is told to stop.        *)
KeyMode(m) ==
    /\ m # mode
    /\ mode' = m /\ grinding' = FALSE
    /\ CASE m = "random" -> coming < MaxAsync /\ coming' = coming + 1 /\ UNCHANGED <<priv, pub, meddled>>
         [] m = "paste"  -> UNCHANGED <<coming, priv, pub, meddled>>
         [] OTHER        -> SetKeyState(NoKey, NoKey) /\ UNCHANGED coming
    /\ UNCHANGED loops /\ KeyOnly

Regenerate ==
    /\ mode = "random" /\ coming < MaxAsync
    /\ coming' = coming + 1
    /\ UNCHANGED <<mode, priv, pub, grinding, loops, meddled>> /\ KeyOnly

(* applyPastedKey: an expanded key is taken at once, its public half not     *)
(* known; a seed's pair is derived first; anything else clears the key.      *)
Paste ==
    /\ mode = "paste"
    /\ \/ \E k \in Keys : SetKeyState(k, NoKey) /\ UNCHANGED coming
       \/ SetKeyState(NoKey, NoKey) /\ UNCHANGED coming
       \/ coming < MaxAsync /\ coming' = coming + 1 /\ UNCHANGED <<priv, pub, meddled>>
    /\ UNCHANGED <<mode, grinding, loops>> /\ KeyOnly

(* A key that was on its way is the key, whatever the mode is by now.        *)
KeyComes(k) ==
    /\ coming > 0
    /\ coming' = coming - 1 /\ SetKeyState(k, k)
    /\ UNCHANGED <<mode, grinding, loops>> /\ KeyOnly

(* A search starts unless the flag is up, with no regard to one that has yet *)
(* to see the flag down.                                                    *)
Grind ==
    /\ mode = "prefix" /\ ~grinding /\ loops < MaxAsync
    /\ grinding' = TRUE /\ loops' = loops + 1
    /\ SetKeyState(NoKey, NoKey)
    /\ UNCHANGED <<mode, coming>> /\ KeyOnly

StopGrinding ==
    /\ mode = "prefix" /\ grinding
    /\ grinding' = FALSE
    /\ UNCHANGED <<mode, priv, pub, coming, loops, meddled>> /\ KeyOnly

(* A candidate matches, and ends its search; or the search sees the flag.    *)
GrindStep ==
    /\ loops > 0
    /\ loops' = loops - 1 /\ grinding' = FALSE
    /\ \/ \E k \in Keys : SetKeyState(k, k)
       \/ ~grinding /\ UNCHANGED <<priv, pub, meddled>>
    /\ UNCHANGED <<mode, coming>> /\ KeyOnly

-----------------------------------------------------------------------------
(* The list.                                                                *)

(* generate() needs a key, and asks the server.                             *)
Generate(placed) ==
    /\ priv # NoKey /\ Len(asking) < MaxAsync
    /\ asking' = Append(asking, placed)
    /\ UNCHANGED <<keyVars, commands, runVars, boardVars, record, meddled>>

(* Its answer: name, key, place, radio, access, password, settings, reboot;   *)
(* the key is spliced in as it is now. An answer may be an error, or come    *)
(* after a later one's.                                                     *)
ListFor(placed, k) ==
    LET set == [does |-> "set"]
        key == [does |-> "key", key |-> k]
        perm == [does |-> "perm"]
        reboot == [does |-> "reboot"]
    IN  IF placed THEN << set, key, set, perm, set, reboot >>
                  ELSE << set, key, perm, set, reboot >>

ListComes(n) ==
    /\ asking' = [m \in 1 .. Len(asking) - 1 |-> asking[IF m < n THEN m ELSE m + 1]]
    /\ \/ commands' = ListFor(asking[n], priv) /\ meddled' = (meddled \/ Running)
       \/ UNCHANGED <<commands, meddled>>
    /\ UNCHANGED <<keyVars, runVars, boardVars, record>>

-----------------------------------------------------------------------------
(* The run.                                                                 *)

RunKept == UNCHANGED <<keyVars, listVars, record, meddled>>

(* Slip: the button stays enabled during the run. *)
PressAgain ==
    /\ commands # <<>> /\ runs < MaxRuns
    /\ runPc' = "pick" /\ runs' = runs + 1 /\ i' = 1 /\ permAt' = NoPerm
    /\ meddled' = FALSE
    /\ UNCHANGED <<runOff, keyVars, listVars, boardVars, record>>

Press ==
    /\ commands # <<>> /\ ~runOff /\ ~Running /\ runs < MaxRuns
    /\ runPc' = "pick" /\ runOff' = TRUE /\ runs' = runs + 1
    /\ i' = 1 /\ permAt' = NoPerm
    /\ meddled' = FALSE
    /\ UNCHANGED <<keyVars, listVars, boardVars, record>>

To(pc) == runPc' = pc /\ UNCHANGED <<runOff, runs>>

(* A port is picked and opened, the board answers "ver"; or not.             *)
PickBoard ==
    /\ runPc = "pick"
    /\ \/ /\ To("boot") /\ board' = "in"
          /\ access' = IF access = "lost" THEN "none" ELSE access
       \/ To("failed") /\ UNCHANGED <<board, access>>
    /\ UNCHANGED <<i, permAt, identity, due>> /\ RunKept

BoardAnswers ==
    /\ runPc = "boot"
    /\ To("next") \/ To("failed")
    /\ UNCHANGED <<i, permAt, boardVars>> /\ RunKept

(* The next line of the list as it is now: beyond its end, the run is over.   *)
NextCommand ==
    /\ runPc = "next"
    /\ CASE i > Len(commands) -> To("close")
         [] i <= Len(commands) /\ commands[i].does = "reboot" -> To("reboot")
         [] OTHER -> To("sent")
    /\ UNCHANGED <<i, permAt, boardVars>> /\ RunKept

(* A write to a board that is gone throws, or the line is lost.              *)
WriteThrows ==
    /\ runPc \in {"sent", "reboot"} /\ board = "out"
    /\ To("failed")
    /\ UNCHANGED <<i, permAt, boardVars>> /\ RunKept

NextI == i' = i + 1

(* Slip: the wizard keeps the key it made. *)
KeyTakenOnTrust(k) ==
    /\ priv' = priv /\ pub' = pub
    /\ To("next")

(* "set prv.key": the public key the board derived, if it says one, must be   *)
(* the page's, if it knows one, and becomes it.                             *)
KeyTaken(k) ==
    IF pub = NoKey \/ pub = k
      THEN priv' = priv /\ pub' = k /\ To("next")
      ELSE UNCHANGED <<priv, pub>> /\ To("failed")

KeyReply ==
    /\ runPc = "sent" /\ i <= Len(commands) /\ commands[i].does = "key"
    /\ \/ /\ board = "in" /\ commands[i].key # NoKey
          /\ \E k \in Keys :
               identity' = k /\ KeyTaken(k)
       \/ To("failed") /\ UNCHANGED <<identity, priv, pub>>
    /\ NextI
    /\ UNCHANGED <<mode, coming, grinding, loops, listVars, permAt, board, due, access, record, meddled>>

(* "setperm": no reply and an error both end the run.                        *)
PermReply ==
    /\ runPc = "sent" /\ i <= Len(commands) /\ commands[i].does = "perm"
    /\ \/ board = "in" /\ access' = "granted" /\ due' = SaveDelay /\ permAt' = 0 /\ To("next")
       \/ UNCHANGED <<access, due, permAt>> /\ To("failed")
    /\ NextI
    /\ UNCHANGED <<board, identity>> /\ RunKept

(* Any other line: what it answers is counted as a problem or not.           *)
OtherReply ==
    /\ runPc = "sent" /\ (i <= Len(commands) => commands[i].does \in {"set", "reboot"})
    /\ To("next") /\ NextI
    /\ UNCHANGED <<permAt, boardVars>> /\ RunKept

(* Slip: the reboot does not wait for the access list. *)
RebootAtOnce ==
    /\ runPc = "reboot"
    /\ To("close")
    /\ access' = IF board = "in" /\ access = "granted" THEN "lost" ELSE access
    /\ due' = IF board = "in" THEN 0 ELSE due
    /\ UNCHANGED <<i, permAt, board, identity>> /\ RunKept

(* "reboot", AclWait after an answered setperm: what is not saved is lost.    *)
Reboot ==
    /\ runPc = "reboot" /\ permAt >= AclWait
    /\ To("close")
    /\ access' = IF board = "in" /\ access = "granted" THEN "lost" ELSE access
    /\ due' = IF board = "in" THEN 0 ELSE due
    /\ UNCHANGED <<i, permAt, board, identity>> /\ RunKept

(* A run that failed gives its button back; either way the port is closed.   *)
RunFails ==
    /\ runPc = "failed"
    /\ runPc' = "off" /\ runOff' = FALSE
    /\ UNCHANGED <<i, permAt, runs, boardVars>> /\ RunKept

ClosePort ==
    /\ runPc = "close" /\ To("save")
    /\ UNCHANGED <<i, permAt, boardVars>> /\ RunKept

(* complete(): the record carries the page's public key of now; or it is not *)
(* saved, and the button stays disabled.                                    *)
Complete ==
    /\ runPc = "save" /\ runPc' = "off"
    /\ record' \in {pub, record}
    /\ UNCHANGED <<i, runOff, permAt, runs, boardVars, keyVars, listVars, meddled>>

-----------------------------------------------------------------------------
(* The board.                                                               *)

(* Time passes for the wizard and for the board, which saves on time.        *)
Tick ==
    /\ permAt < AclWait \/ due > 0
    /\ permAt' = IF permAt < AclWait THEN permAt + 1 ELSE permAt
    /\ due' = IF due > 0 THEN due - 1 ELSE 0
    /\ access' = IF due = 1 /\ access = "granted" THEN "saved" ELSE access
    /\ UNCHANGED <<runPc, i, runOff, runs, board, identity>> /\ RunKept

PullOut ==
    /\ runPc \in {"next", "sent", "reboot"} /\ board = "in"
    /\ board' = "out" /\ due' = 0
    /\ access' = IF access = "granted" THEN "lost" ELSE access
    /\ UNCHANGED <<identity, runVars>> /\ RunKept

-----------------------------------------------------------------------------
KeyStep == \/ \E m \in {"random", "prefix", "paste"} : KeyMode(m)
           \/ Regenerate \/ Paste \/ Grind \/ StopGrinding \/ GrindStep
           \/ \E k \in Keys : KeyComes(k)

ListStep == (\E b \in BOOLEAN : Generate(b)) \/ (\E n \in DOMAIN asking : ListComes(n))

RunStep == PickBoard \/ BoardAnswers \/ NextCommand \/ WriteThrows \/ KeyReply \/ PermReply
           \/ OtherReply \/ Reboot \/ RunFails \/ ClosePort \/ Complete

(* The page is left once the record is saved.                               *)
Next == record = NoKey /\ (KeyStep \/ ListStep \/ Press \/ RunStep \/ Tick \/ PullOut)

Spec == Init /\ [][Next]_vars

-----------------------------------------------------------------------------
TypeOK ==
    /\ mode \in {"random", "prefix", "paste"}
    /\ {priv, pub, identity, record} \subseteq Keys \cup {NoKey}
    /\ coming \in 0 .. MaxAsync /\ loops \in 0 .. MaxAsync /\ grinding \in BOOLEAN
    /\ Len(asking) <= MaxAsync
    /\ runPc \in {"off", "pick", "boot", "next", "sent", "reboot", "failed", "close", "save"}
    /\ permAt \in 0 .. NoPerm /\ runs \in 0 .. MaxRuns
    /\ access \in {"none", "granted", "saved", "lost"}
    /\ Running => runOff

(* The saved record is of the board that was set up: it carries the identity  *)
(* the board has, which holds MeshTender's access where a reboot leaves it,  *)
(* unless the user changed the key or the list during the run, or pulled the *)
(* board out.                                                               *)
RecordIsTheBoard ==
    record # NoKey /\ ~meddled /\ board = "in" => record = identity /\ access = "saved"

(* The wizard's own reboot never loses an access granted in its run, whatever *)
(* was changed meanwhile.                                                   *)
RebootKeepsAccess ==
    [][access = "granted" /\ access' = "lost" /\ board' = "in" => permAt = NoPerm]_vars

=============================================================================
