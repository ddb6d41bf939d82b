-------------------------------- MODULE SetupProofs --------------------------------
(***************************************************************************)
(* What is proved of UsbSetup, for any keys, any number of runs and of      *)
(* requests under way, and any delays of which the wizard's is the longer:  *)
(* the record saved is that of the board set up, and the wizard's reboot    *)
(* keeps the access it granted.                                             *)
(***************************************************************************)
EXTENDS UsbSetup, TLAPS

Typed ==
    /\ TypeOK
    /\ asking \in Seq(BOOLEAN)
    /\ i \in Nat \ {0} /\ due \in 0..SaveDelay
    /\ runOff \in BOOLEAN /\ meddled \in BOOLEAN /\ board \in {"in", "out"}

\* What is known of a list: the key is its second line, the permission the third
\* from its end, the reboot its last.
ShapedList(l) ==
    /\ Len(l) \in {5, 6}
    /\ \A j \in 1..Len(l) :
        /\ l[j].does = "key" <=> j = 2
        /\ l[j].does = "perm" <=> j = Len(l) - 2
        /\ l[j].does = "reboot" <=> j = Len(l)

ListOK == commands = << >> \/ ShapedList(commands)

\* An access the run granted is saved SaveDelay after its answer.
Counted ==
    access = "granted" /\ permAt # NoPerm => due > 0 /\ due + permAt = SaveDelay

\* How far a run has come that nobody meddled with, on a board left in.
InLines == runPc \in {"next", "sent", "reboot"}

Progress ==
    /\ runPc \in {"pick", "boot"} => i = 1
    /\ Running /\ ~meddled => commands # << >>
    /\ ~meddled /\ board = "in" =>
        /\ InLines => i <= Len(commands)
        /\ runPc = "sent" => commands[i].does # "reboot"
        /\ runPc = "reboot" => i = Len(commands)
        /\ InLines /\ i > 2 => pub = identity
        /\ InLines /\ i > Len(commands) - 2 => access \in {"granted", "saved"} /\ permAt # NoPerm
        /\ runPc \in {"close", "save"} => pub = identity /\ access = "saved"

IInv == Typed /\ ListOK /\ Counted /\ Progress /\ RecordIsTheBoard

-----------------------------------------------------------------------------
LEMMA ListShape ==
    ASSUME NEW b \in BOOLEAN, NEW k \in Keys \union {NoKey}
    PROVE  ShapedList(ListFor(b, k))
<1> DEFINE set == [does |-> "set"]
           key == [does |-> "key", key |-> k]
           perm == [does |-> "perm"]
           reboot == [does |-> "reboot"]
<1>1. set.does = "set" /\ key.does = "key" /\ perm.does = "perm" /\ reboot.does = "reboot"
  OBVIOUS
<1>2. ListFor(b, k) = IF b THEN <<set, key, set, perm, set, reboot>>
                           ELSE <<set, key, perm, set, reboot>>
  BY DEF ListFor
<1> HIDE DEF set, key, perm, reboot
<1>3. CASE b
  BY <1>1, <1>2, <1>3 DEF ShapedList
<1>4. CASE ~b
  BY <1>1, <1>2, <1>4 DEF ShapedList
<1> QED
  BY <1>3, <1>4

LEMMA InitInv == Init => IInv
<1> SUFFICES ASSUME Init PROVE IInv
  OBVIOUS
<1>1. Typed
  <2>1. coming \in 0..MaxAsync /\ loops \in 0..MaxAsync /\ runs \in 0..MaxRuns
    BY SetupAssumption DEF Init
  <2>2. permAt \in 0..NoPerm /\ due \in 0..SaveDelay
    BY SetupAssumption DEF Init, NoPerm
  <2>3. asking \in Seq(BOOLEAN) /\ Len(asking) <= MaxAsync
    BY SetupAssumption DEF Init
  <2>4. {priv, pub, identity, record} \subseteq Keys \union {NoKey}
    BY DEF Init
  <2>5. grinding \in BOOLEAN /\ runOff \in BOOLEAN /\ meddled \in BOOLEAN /\ ~Running
    BY DEF Init, Running
  <2> QED
    BY <2>1, <2>2, <2>3, <2>4, <2>5 DEF Init, Typed, TypeOK
<1>2. ListOK /\ Counted /\ Progress /\ RecordIsTheBoard
  BY DEF Init, ListOK, Counted, Progress, InLines, Running, RecordIsTheBoard
<1> QED
  BY <1>1, <1>2 DEF IInv

-----------------------------------------------------------------------------
\* The key's variables alone, whichever way they change: one that changes during a
\* run is meddling, one that changed before it is the run's.
KeyChanges ==
    /\ KeyOnly
    /\ mode' \in {"random", "prefix", "paste"} /\ {priv', pub'} \subseteq Keys \union {NoKey}
    /\ coming' \in 0..MaxAsync /\ loops' \in 0..MaxAsync /\ grinding' \in BOOLEAN
    /\ UNCHANGED <<pub, meddled>> \/ meddled' = (meddled \/ Running)

LEMMA KeyKept ==
    ASSUME IInv, record = NoKey, KeyChanges
    PROVE  IInv'
<1> USE DEF IInv, KeyChanges, KeyOnly, listVars, runVars, boardVars
<1>1. Typed'
  <2>1. meddled' \in BOOLEAN
    BY DEF Typed, Running
  <2> QED
    BY <2>1 DEF Typed, TypeOK, NoPerm, Running
<1>2. ListOK' /\ Counted' /\ RecordIsTheBoard'
  BY DEF ListOK, Counted, RecordIsTheBoard
<1>3. Progress'
  <2>1. CASE UNCHANGED <<pub, meddled>>
    BY <2>1 DEF Progress, InLines, Running
  <2>2. CASE meddled' = (meddled \/ Running)
    <3>1. ~meddled' => ~Running
      BY <2>2
    <3>2. CASE ~Running
      BY <3>2 DEF Progress, InLines, Running
    <3>3. CASE Running
      BY <3>1, <3>3 DEF Progress, InLines, Running
    <3> QED
      BY <3>2, <3>3
  <2> QED
    BY <2>1, <2>2
<1> QED
  BY <1>1, <1>2, <1>3

LEMMA KeyChangesStep ==
    ASSUME IInv, KeyStep
    PROVE  KeyChanges
<1> USE DEF KeyChanges, SetKeyState
<1>1. /\ mode \in {"random", "prefix", "paste"} /\ priv \in Keys \union {NoKey}
      /\ pub \in Keys \union {NoKey} /\ coming \in 0..MaxAsync /\ loops \in 0..MaxAsync
      /\ grinding \in BOOLEAN
  BY DEF IInv, Typed, TypeOK
<1>2. ASSUME NEW m \in {"random", "prefix", "paste"}, KeyMode(m) PROVE KeyChanges
  <2>1. CASE m = "random"
    <3>1. coming' \in 0..MaxAsync
      BY <1>1, <1>2, <2>1, SetupAssumption DEF KeyMode
    <3> QED
      BY <1>1, <1>2, <2>1, <3>1 DEF KeyMode
  <2>2. CASE m = "prefix"
    BY <1>1, <1>2, <2>2 DEF KeyMode
  <2>3. CASE m = "paste"
    BY <1>1, <1>2, <2>3 DEF KeyMode
  <2> QED
    BY <2>1, <2>2, <2>3
<1>3. CASE Regenerate
  BY <1>1, <1>3, SetupAssumption DEF Regenerate
<1>4. CASE Paste
  BY <1>1, <1>4, SetupAssumption DEF Paste
<1>5. CASE Grind
  BY <1>1, <1>5, SetupAssumption DEF Grind
<1>6. CASE StopGrinding
  BY <1>1, <1>6 DEF StopGrinding
<1>7. CASE GrindStep
  <2>1. loops' \in 0..MaxAsync
    BY <1>1, <1>7, SetupAssumption DEF GrindStep
  <2> QED
    BY <1>1, <1>7, <2>1 DEF GrindStep
<1>8. ASSUME NEW k \in Keys, KeyComes(k) PROVE KeyChanges
  BY <1>1, <1>8, SetupAssumption DEF KeyComes
<1> QED
  BY <1>2, <1>3, <1>4, <1>5, <1>6, <1>7, <1>8 DEF KeyStep

LEMMA GenerateStep ==
    ASSUME IInv, record = NoKey, NEW b \in BOOLEAN, Generate(b)
    PROVE  IInv'
<1> USE DEF IInv, Generate, keyVars, runVars, boardVars
<1>1. Typed'
  BY SetupAssumption DEF Typed, TypeOK, NoPerm, Running
<1>2. ListOK'
  BY DEF ListOK
<1>3. Counted'
  BY SetupAssumption DEF Counted, Typed, TypeOK, NoPerm
<1>4. Progress'
  BY SetupAssumption DEF Progress, ListOK, ShapedList, Counted, InLines, Running,
         Typed, TypeOK, NoPerm
<1>5. RecordIsTheBoard'
  BY DEF RecordIsTheBoard, Progress, Running
<1> QED
  BY <1>1, <1>2, <1>3, <1>4, <1>5

\* A list has the shape the server gives it.
LEMMA ListComesStep ==
    ASSUME IInv, record = NoKey, NEW n \in DOMAIN asking, ListComes(n)
    PROVE  IInv'
<1> USE DEF IInv, ListComes, keyVars, runVars, boardVars
<1>1. Typed'
  BY SetupAssumption DEF Typed, TypeOK, NoPerm, Running
<1>2. ListOK'
  <2>1. asking[n] \in BOOLEAN
    BY DEF Typed
  <2>2. ShapedList(ListFor(asking[n], priv))
    BY <2>1, ListShape DEF Typed, TypeOK
  <2> QED
    BY <2>2 DEF ListOK
<1>3. Counted'
  BY SetupAssumption DEF Counted, Typed, TypeOK, NoPerm
<1>4. Progress'
  BY SetupAssumption DEF Progress, ListOK, ShapedList, Counted, InLines, Running,
         Typed, TypeOK, NoPerm
<1>5. RecordIsTheBoard'
  BY DEF RecordIsTheBoard, Progress, Running
<1> QED
  BY <1>1, <1>2, <1>3, <1>4, <1>5

\* A run begins with its list, at the first line.
LEMMA PressStep ==
    ASSUME IInv, record = NoKey, Press
    PROVE  IInv'
<1> USE DEF IInv, Press, keyVars, listVars, boardVars
<1>1. Typed'
  <2>1. runs' \in 0..MaxRuns /\ permAt' \in 0..NoPerm
    BY SetupAssumption DEF Typed, TypeOK, NoPerm
  <2>2. runOff' \in BOOLEAN /\ meddled' \in BOOLEAN /\ board' \in {"in", "out"}
        /\ (Running' => runOff')
    BY DEF Typed, TypeOK, Running
  <2> QED
    BY <2>1, <2>2 DEF Typed, TypeOK
<1>2. ListOK'
  BY DEF ListOK
<1>3. Counted'
  BY SetupAssumption DEF Counted, Typed, TypeOK, NoPerm
<1>4. Progress'
  BY SetupAssumption DEF Progress, ListOK, ShapedList, Counted, InLines, Running,
         Typed, TypeOK, NoPerm
<1>5. RecordIsTheBoard'
  BY DEF RecordIsTheBoard, Progress, Running
<1> QED
  BY <1>1, <1>2, <1>3, <1>4, <1>5

LEMMA PickStep ==
    ASSUME IInv, record = NoKey, PickBoard \/ BoardAnswers
    PROVE  IInv'
<1> USE DEF IInv, PickBoard, BoardAnswers, To, boardVars, RunKept, keyVars, listVars
<1>1. Typed'
  BY SetupAssumption DEF Typed, TypeOK, NoPerm, Running
<1>2. ListOK'
  BY DEF ListOK
<1>3. Counted'
  BY SetupAssumption DEF Counted, Typed, TypeOK, NoPerm
<1>4. Progress'
  <2>1. i' = 1 /\ runPc' \in {"boot", "next", "failed"}
    BY DEF Progress
  <2>2. Running' /\ ~meddled' => commands' # << >>
    BY DEF Progress, Running
  <2>3. commands' # << >> => Len(commands') \in {5, 6}
    BY DEF ListOK, ShapedList
  <2> HIDE DEF PickBoard, BoardAnswers
  <2>4. CASE meddled' \/ board' # "in"
    BY <2>1, <2>2, <2>4 DEF Progress
  <2>5. CASE ~meddled' /\ board' = "in"
    <3>1. Len(commands') \in {5, 6}
      BY <2>1, <2>2, <2>3, <2>5 DEF Running
    <3>2. i' <= Len(commands') /\ ~(i' > 2) /\ ~(i' > Len(commands') - 2)
      BY <2>1, <3>1
    <3> QED
      BY <2>1, <2>2, <3>2 DEF Progress, InLines
  <2> QED
    BY <2>4, <2>5
<1>5. RecordIsTheBoard'
  BY DEF RecordIsTheBoard, Progress, Running
<1> QED
  BY <1>1, <1>2, <1>3, <1>4, <1>5

\* The last line of the list is the reboot, and only it.
LEMMA NextCommandStep ==
    ASSUME IInv, record = NoKey, NextCommand
    PROVE  IInv'
<1> USE DEF IInv, NextCommand, To, boardVars, RunKept, keyVars, listVars
<1>1. Typed'
  BY SetupAssumption DEF Typed, TypeOK, NoPerm, Running
<1>2. ListOK'
  BY DEF ListOK
<1>3. Counted'
  BY SetupAssumption DEF Counted, Typed, TypeOK, NoPerm
<1>4. Progress'
  <2>1. CASE meddled \/ board # "in"
    BY <2>1 DEF Progress, Running
  <2>2. CASE ~meddled /\ board = "in"
    <3>1. ShapedList(commands) /\ i \in 1..Len(commands)
      BY <2>2 DEF Progress, ListOK, InLines, Running, Typed, ShapedList
    <3>2. runPc' = IF i = Len(commands) THEN "reboot" ELSE "sent"
      BY <3>1 DEF ShapedList
    <3>3. commands[i].does # "reboot" <=> i # Len(commands)
      BY <3>1 DEF ShapedList
    <3> QED
      BY <2>2, <3>1, <3>2, <3>3 DEF Progress, InLines, Running
  <2> QED
    BY <2>1, <2>2 DEF Typed
<1>5. RecordIsTheBoard'
  BY DEF RecordIsTheBoard, Progress, Running
<1> QED
  BY <1>1, <1>2, <1>3, <1>4, <1>5

LEMMA ThrowStep ==
    ASSUME IInv, record = NoKey, WriteThrows \/ RunFails
    PROVE  IInv'
<1> USE DEF IInv, WriteThrows, RunFails, To, boardVars, RunKept, keyVars, listVars
<1>1. Typed'
  BY SetupAssumption DEF Typed, TypeOK, NoPerm, Running
<1>2. ListOK'
  BY DEF ListOK
<1>3. Counted'
  BY SetupAssumption DEF Counted, Typed, TypeOK, NoPerm
<1>4. Progress'
  BY SetupAssumption DEF Progress, ListOK, ShapedList, Counted, InLines, Running,
         Typed, TypeOK, NoPerm
<1>5. RecordIsTheBoard'
  BY DEF RecordIsTheBoard, Progress, Running
<1> QED
  BY <1>1, <1>2, <1>3, <1>4, <1>5

\* Past the key, the page's key is the board's.
LEMMA KeyReplyStep ==
    ASSUME IInv, record = NoKey, KeyReply
    PROVE  IInv'
<1> USE DEF IInv, KeyReply, KeyTaken, To, NextI, listVars
<1>1. Typed'
  <2>1. {priv', pub', identity'} \subseteq Keys \union {NoKey}
    BY DEF Typed, TypeOK
  <2>2. runPc' \in {"next", "failed"} /\ i' \in Nat \ {0}
    BY DEF Typed
  <2>3. meddled' \in BOOLEAN /\ board' \in {"in", "out"} /\ runOff' = runOff
    BY DEF Typed
  <2>4. runOff \in BOOLEAN /\ runOff
    BY DEF Typed, TypeOK, Running
  <2> QED
    BY <2>1, <2>2, <2>3, <2>4 DEF Typed, TypeOK
<1>2. ListOK'
  BY DEF ListOK
<1>3. Counted'
  BY SetupAssumption DEF Counted, Typed, TypeOK, NoPerm
<1>4. Progress'
  <2>1. runPc' = "next" => pub' = identity'
    OBVIOUS
  <2>2. runPc' \in {"next", "failed"} /\ i' = i + 1
    OBVIOUS
  <2>3. ~meddled /\ board = "in" => i = 2 /\ Len(commands) \in {5, 6}
    BY DEF Progress, ListOK, ShapedList, Typed, Running
  <2>4. Running' /\ ~meddled' => commands' # << >>
    BY DEF Progress, Running
  <2>5. CASE meddled' \/ board' # "in"
    BY <2>2, <2>4, <2>5 DEF Progress
  <2>6. CASE ~meddled' /\ board' = "in"
    <3>1. i' = 3 /\ Len(commands') \in {5, 6} /\ ~(i' > Len(commands') - 2)
      <4>1. ~meddled /\ board = "in" /\ commands' = commands
        BY <2>6
      <4> HIDE DEF KeyReply
      <4> QED
        BY <2>2, <2>3, <4>1
    <3> QED
      BY <2>1, <2>2, <2>4, <3>1 DEF Progress, InLines
  <2> QED
    BY <2>5, <2>6
<1>5. RecordIsTheBoard'
  BY DEF RecordIsTheBoard, Progress, Running
<1> QED
  BY <1>1, <1>2, <1>3, <1>4, <1>5

\* Past the permission, the access is granted and its save counted.
LEMMA PermReplyStep ==
    ASSUME IInv, record = NoKey, PermReply
    PROVE  IInv'
<1> USE DEF IInv, PermReply, To, NextI, RunKept, keyVars, listVars
<1>1. Typed'
  <2>1. permAt' \in 0..NoPerm /\ due' \in 0..SaveDelay
    BY SetupAssumption DEF Typed, TypeOK, NoPerm
  <2>2. runPc' \in {"next", "failed"} /\ i' \in Nat \ {0}
    BY DEF Typed
  <2>3. access' \in {"none", "granted", "saved", "lost"}
    BY DEF Typed, TypeOK
  <2>4. meddled' \in BOOLEAN /\ board' \in {"in", "out"} /\ runOff' = runOff
    BY DEF Typed
  <2>5. runOff \in BOOLEAN /\ runOff
    BY DEF Typed, TypeOK, Running
  <2> QED
    BY <2>1, <2>2, <2>3, <2>4, <2>5 DEF Typed, TypeOK
<1>2. ListOK'
  BY DEF ListOK
<1>3. Counted'
  <2>1. CASE permAt' = 0 /\ due' = SaveDelay
    BY <2>1, SetupAssumption DEF Counted
  <2>2. CASE UNCHANGED <<access, due, permAt>>
    BY <2>2 DEF Counted, NoPerm
  <2> QED
    BY <2>1, <2>2
<1>4. Progress'
  <2>1. runPc' = "next" => access' = "granted" /\ permAt' # NoPerm
    BY SetupAssumption DEF NoPerm
  <2>2. runPc' \in {"next", "failed"} /\ i' = i + 1
    OBVIOUS
  <2>3. CASE meddled' \/ board' # "in"
    BY <2>2, <2>3 DEF Progress, Running
  <2>4. CASE ~meddled' /\ board' = "in"
    <3>1. ShapedList(commands)
      BY <2>4 DEF Progress, ListOK, Running
    <3>2. i = Len(commands) - 2 /\ Len(commands) \in {5, 6}
      BY <3>1 DEF ShapedList, Typed
    <3>3. pub = identity
      <4>1. InLines
        BY DEF InLines
      <4>2. i > 2
        <5>1. CASE Len(commands) = 5
          <6>1. i = 3
            BY <3>2, <5>1
          <6> QED
            BY <6>1
        <5>2. CASE Len(commands) = 6
          <6>1. i = 4
            BY <3>2, <5>2
          <6> QED
            BY <6>1
        <5> QED
          BY <3>2, <5>1, <5>2
      <4>3. ~meddled /\ board = "in"
        BY <2>4
      <4> QED
        BY <4>1, <4>2, <4>3 DEF Progress
    <3> QED
      BY <2>1, <2>2, <2>4, <3>2, <3>3 DEF Progress, InLines, Running
  <2> QED
    BY <2>3, <2>4 DEF Typed
<1>5. RecordIsTheBoard'
  BY DEF RecordIsTheBoard, Progress, Running
<1> QED
  BY <1>1, <1>2, <1>3, <1>4, <1>5

LEMMA OtherReplyStep ==
    ASSUME IInv, record = NoKey, OtherReply
    PROVE  IInv'
<1> USE DEF IInv, OtherReply, To, NextI, boardVars, RunKept, keyVars, listVars
<1>1. Typed'
  BY SetupAssumption DEF Typed, TypeOK, NoPerm, Running
<1>2. ListOK'
  BY DEF ListOK
<1>3. Counted'
  BY SetupAssumption DEF Counted, Typed, TypeOK, NoPerm
<1>4. Progress'
  BY SetupAssumption DEF Progress, ListOK, ShapedList, Counted, InLines, Running,
         Typed, TypeOK, NoPerm
<1>5. RecordIsTheBoard'
  BY DEF RecordIsTheBoard, Progress, Running
<1> QED
  BY <1>1, <1>2, <1>3, <1>4, <1>5

\* When the wait is over, the access is saved.
LEMMA RebootStep ==
    ASSUME IInv, record = NoKey, Reboot
    PROVE  IInv'
<1> USE DEF IInv, Reboot, To, RunKept, keyVars, listVars
<1>1. Typed'
  BY SetupAssumption DEF Typed, TypeOK, NoPerm, Running
<1>2. ListOK'
  BY DEF ListOK
<1>3. Counted'
  BY SetupAssumption DEF Counted, Typed, TypeOK, NoPerm
<1>4. Progress'
  BY SetupAssumption DEF Progress, ListOK, ShapedList, Counted, InLines, Running,
         Typed, TypeOK, NoPerm
<1>5. RecordIsTheBoard'
  BY DEF RecordIsTheBoard, Progress, Running
<1> QED
  BY <1>1, <1>2, <1>3, <1>4, <1>5

LEMMA CloseStep ==
    ASSUME IInv, record = NoKey, ClosePort
    PROVE  IInv'
<1> USE DEF IInv, ClosePort, To, boardVars, RunKept, keyVars, listVars
<1>1. Typed'
  BY SetupAssumption DEF Typed, TypeOK, NoPerm, Running
<1>2. ListOK'
  BY DEF ListOK
<1>3. Counted'
  BY SetupAssumption DEF Counted, Typed, TypeOK, NoPerm
<1>4. Progress'
  BY SetupAssumption DEF Progress, ListOK, ShapedList, Counted, InLines, Running,
         Typed, TypeOK, NoPerm
<1>5. RecordIsTheBoard'
  BY DEF RecordIsTheBoard, Progress, Running
<1> QED
  BY <1>1, <1>2, <1>3, <1>4, <1>5

\* The record is saved at the end of a run.
LEMMA CompleteStep ==
    ASSUME IInv, record = NoKey, Complete
    PROVE  IInv'
<1> USE DEF IInv, Complete, keyVars, listVars, boardVars
<1>1. Typed'
  BY SetupAssumption DEF Typed, TypeOK, NoPerm, Running
<1>2. ListOK'
  BY DEF ListOK
<1>3. Counted'
  BY SetupAssumption DEF Counted, Typed, TypeOK, NoPerm
<1>4. Progress'
  BY SetupAssumption DEF Progress, ListOK, ShapedList, Counted, InLines, Running,
         Typed, TypeOK, NoPerm
<1>5. RecordIsTheBoard'
  BY DEF RecordIsTheBoard, Progress, Running
<1> QED
  BY <1>1, <1>2, <1>3, <1>4, <1>5

\* Wizard and board count the same time.
LEMMA TickStep ==
    ASSUME IInv, record = NoKey, Tick
    PROVE  IInv'
<1> USE DEF IInv, Tick, RunKept, keyVars, listVars
<1>1. Typed'
  BY SetupAssumption DEF Typed, TypeOK, NoPerm, Running
<1>2. ListOK'
  BY DEF ListOK
<1>3. Counted'
  BY SetupAssumption DEF Counted, Typed, TypeOK, NoPerm
<1>4. Progress'
  BY SetupAssumption DEF Progress, ListOK, ShapedList, Counted, InLines, Running,
         Typed, TypeOK, NoPerm
<1>5. RecordIsTheBoard'
  BY DEF RecordIsTheBoard, Progress, Running
<1> QED
  BY <1>1, <1>2, <1>3, <1>4, <1>5

LEMMA PullOutStep ==
    ASSUME IInv, record = NoKey, PullOut
    PROVE  IInv'
<1> USE DEF IInv, PullOut, runVars, RunKept, keyVars, listVars
<1>1. Typed'
  BY SetupAssumption DEF Typed, TypeOK, NoPerm, Running
<1>2. ListOK'
  BY DEF ListOK
<1>3. Counted'
  BY SetupAssumption DEF Counted, Typed, TypeOK, NoPerm
<1>4. Progress'
  BY SetupAssumption DEF Progress, ListOK, ShapedList, Counted, InLines, Running,
         Typed, TypeOK, NoPerm
<1>5. RecordIsTheBoard'
  BY DEF RecordIsTheBoard, Progress, Running
<1> QED
  BY <1>1, <1>2, <1>3, <1>4, <1>5

-----------------------------------------------------------------------------
LEMMA NextInv == IInv /\ [Next]_vars => IInv'
<1> SUFFICES ASSUME IInv, [Next]_vars PROVE IInv'
  OBVIOUS
<1>1. ASSUME record = NoKey, KeyStep PROVE IInv'
  BY <1>1, KeyChangesStep, KeyKept
<1>2. ASSUME record = NoKey, ListStep PROVE IInv'
  BY <1>2, GenerateStep, ListComesStep DEF ListStep
<1>3. ASSUME record = NoKey, RunStep PROVE IInv'
  BY <1>3, PickStep, NextCommandStep, ThrowStep, KeyReplyStep, PermReplyStep,
     OtherReplyStep, RebootStep, CloseStep, CompleteStep DEF RunStep
<1>4. ASSUME record = NoKey, Press \/ Tick \/ PullOut PROVE IInv'
  BY <1>4, PressStep, TickStep, PullOutStep
<1>5. CASE UNCHANGED vars
  BY <1>5 DEF IInv, Typed, TypeOK, Running, ListOK, Counted, Progress, InLines,
              RecordIsTheBoard, vars, keyVars, listVars, runVars, boardVars
<1> QED
  BY <1>1, <1>2, <1>3, <1>4, <1>5 DEF Next

LEMMA Invariance == Spec => []IInv
  BY InitInv, NextInv, PTL DEF Spec

\* Every variable keeps its type, and the run button is disabled during a run.
THEOREM TypeCorrect == Spec => []TypeOK
<1>1. IInv => TypeOK
  BY DEF IInv, Typed
<1> QED
  BY <1>1, Invariance, PTL

\* The record that complete() saves is of the board that was set up, with its
\* access in place, unless the user meddled or pulled it out.
THEOREM RecordOfTheBoard == Spec => []RecordIsTheBoard
<1>1. IInv => RecordIsTheBoard
  BY DEF IInv
<1> QED
  BY <1>1, Invariance, PTL

\* Whatever is changed during a run, its reboot waits until the firmware has
\* saved the access the run granted.
THEOREM AccessKept == Spec => RebootKeepsAccess
<1>1. ASSUME IInv, [Next]_vars
      PROVE  [access = "granted" /\ access' = "lost" /\ board' = "in" => permAt = NoPerm]_vars
  <2>1. SUFFICES ASSUME Next, access = "granted", access' = "lost", board' = "in"
                 PROVE  permAt = NoPerm
    BY <1>1
  <2>2. Reboot \/ PullOut
    BY <2>1 DEF Next, KeyStep, KeyMode, Regenerate, Paste, KeyComes, Grind, StopGrinding,
                GrindStep, KeyOnly, ListStep, Generate, ListComes, Press, RunStep,
                PickBoard, BoardAnswers, NextCommand, WriteThrows, KeyReply, PermReply,
                OtherReply, RunFails, ClosePort, Complete, Tick, boardVars
  <2>3. Reboot
    BY <2>1, <2>2 DEF PullOut
  <2> QED
    BY <1>1, <2>1, <2>3, SetupAssumption DEF Reboot, IInv, Counted, Typed, TypeOK, NoPerm
<1> QED
  BY <1>1, Invariance, PTL DEF Spec, RebootKeepsAccess

=============================================================================
