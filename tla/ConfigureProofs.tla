------------------------------ MODULE ConfigureProofs ------------------------------
(***************************************************************************)
(* Proofs about the two components of the Configure tab: ConfigureTab, the *)
(* connections and their bar, and ConfigPanel, the organization's commands *)
(* run over one of them. First what both count: the entries of a list that *)
(* are owed an answer.                                                     *)
(***************************************************************************)
EXTENDS ConfigureTab, ConfigPanel, SequenceTheorems, FiniteSetTheorems, TLAPS

(* Where a list has an entry of S.                                          *)
Owing(s, S) == {i \in DOMAIN s : s[i] \in S}

(* The entries owed are counted, and no more than the list has.             *)
LEMMA OwingFinite ==
  ASSUME NEW A, NEW S, NEW s \in Seq(A)
  PROVE  /\ IsFiniteSet(Owing(s, S)) /\ Cardinality(Owing(s, S)) \in Nat
         /\ Cardinality(Owing(s, S)) <= Len(s)
<1>1. Owing(s, S) \subseteq 1 .. Len(s) /\ Len(s) \in Nat
  BY DEF Owing
<1> DEFINE n == Len(s)
<1>2. IsFiniteSet(1 .. n) /\ Cardinality(1 .. n) = n
  <2> n \in Nat
    BY <1>1
  <2> HIDE DEF n
  <2>1. IsFiniteSet(1 .. n) /\ Cardinality(1 .. n) = IF 1 > n THEN 0 ELSE n - 1 + 1
    BY FS_Interval
  <2>2. QED
    BY <2>1
<1>3. QED
  BY <1>1, <1>2, FS_Subset, FS_CardinalityType

(* One more is owed when what is added is owed.                             *)
LEMMA OwingAppend ==
  ASSUME NEW A, NEW S, NEW s \in Seq(A), NEW a \in A
  PROVE  Cardinality(Owing(Append(s, a), S)) =
            IF a \in S THEN Cardinality(Owing(s, S)) + 1 ELSE Cardinality(Owing(s, S))
<1>1. /\ Owing(Append(s, a), S) = IF a \in S THEN Owing(s, S) \cup {Len(s) + 1} ELSE Owing(s, S)
      /\ Len(s) + 1 \notin Owing(s, S)
  BY DEF Owing
<1>2. QED
  BY <1>1, OwingFinite, FS_AddElement

(* Taking an entry out of a list takes away what it was owed: the entries    *)
(* behind it move up by one.                                                *)
LEMMA OwingShift ==
  ASSUME NEW A, NEW S, NEW s \in Seq(A), NEW t \in Seq(A), NEW k \in 1 .. Len(s),
         Len(t) = Len(s) - 1,
         \A i \in 1 .. Len(t) : t[i] = IF i < k THEN s[i] ELSE s[i + 1]
  PROVE  Cardinality(Owing(t, S)) =
              IF s[k] \in S THEN Cardinality(Owing(s, S)) - 1 ELSE Cardinality(Owing(s, S))
<1> DEFINE U == Owing(s, S) \ {k}
           V == Owing(t, S)
           f == [i \in U |-> IF i < k THEN i ELSE i - 1]
<1>1. /\ U \subseteq 1 .. Len(s) /\ V \subseteq 1 .. Len(t) /\ Len(s) \in Nat
  BY DEF Owing
<1>2. IsFiniteSet(Owing(s, S)) /\ IsFiniteSet(U)
  BY OwingFinite, FS_RemoveElement
<1>3. f \in Bijection(U, V)
  <2>1. \A i \in U : (IF i < k THEN i ELSE i - 1) \in V
    <3>1. ASSUME NEW i \in U PROVE (IF i < k THEN i ELSE i - 1) \in V
      <4>1. i \in 1 .. Len(s) /\ i # k /\ s[i] \in S
        BY DEF Owing
      <4>2. CASE i < k
        BY <1>1, <4>1, <4>2 DEF Owing
      <4>3. CASE ~(i < k)
        <5>1. i - 1 \in 1 .. Len(t) /\ ~(i - 1 < k)
          BY <4>1, <4>3
        <5>2. t[i - 1] = s[i]
          BY <4>1, <5>1
        <5>3. QED
          BY <4>1, <4>3, <5>1, <5>2 DEF Owing
      <4>4. QED
        BY <4>2, <4>3
    <3>2. QED
      BY <3>1
  <2>2. \A i, j \in U : f[i] = f[j] => i = j
    BY <1>1
  <2>3. \A j \in V : \E i \in U : f[i] = j
    <3>1. ASSUME NEW j \in V PROVE \E i \in U : f[i] = j
      <4>1. CASE j < k
        <5>1. j \in U /\ f[j] = j
          BY <1>1, <4>1 DEF Owing
        <5>2. QED
          BY <5>1
      <4>2. CASE ~(j < k)
        <5>1. j + 1 \in U /\ f[j + 1] = j
          BY <1>1, <4>2 DEF Owing
        <5>2. QED
          BY <5>1
      <4>3. QED
        BY <4>1, <4>2
    <3>2. QED
      BY <3>1
  <2>4. f \in [U -> V]
    BY <2>1
  <2> HIDE DEF f, U, V
  <2>5. QED
    BY <2>2, <2>3, <2>4 DEF Bijection, Injection, Surjection, IsInjective
<1>4. Cardinality(U) = Cardinality(V)
  BY <1>2, <1>3, FS_Bijection DEF ExistsBijection
<1>5. Cardinality(U) = IF s[k] \in S THEN Cardinality(Owing(s, S)) - 1 ELSE Cardinality(Owing(s, S))
  <2>1. k \in Owing(s, S) <=> s[k] \in S
    BY DEF Owing
  <2>2. QED
    BY <1>2, <2>1, FS_RemoveElement
<1>6. QED
  BY <1>4, <1>5

(* The same of the first entry.                                             *)
LEMMA OwingTail ==
  ASSUME NEW A, NEW S, NEW s \in Seq(A), s # <<>>
  PROVE  Cardinality(Owing(Tail(s), S)) =
              IF Head(s) \in S THEN Cardinality(Owing(s, S)) - 1 ELSE Cardinality(Owing(s, S))
<1>1. /\ 1 \in 1 .. Len(s) /\ Tail(s) \in Seq(A) /\ Len(Tail(s)) = Len(s) - 1
      /\ \A i \in 1 .. Len(Tail(s)) : Tail(s)[i] = s[i + 1]
      /\ Head(s) = s[1]
  OBVIOUS
<1>2. \A i \in 1 .. Len(Tail(s)) : Tail(s)[i] = IF i < 1 THEN s[i] ELSE s[i + 1]
  BY <1>1
<1> DEFINE t == Tail(s)
           k == 1
<1> HIDE DEF t, k
<1>3. /\ t \in Seq(A) /\ k \in 1 .. Len(s) /\ Len(t) = Len(s) - 1
      /\ \A i \in 1 .. Len(t) : t[i] = IF i < k THEN s[i] ELSE s[i + 1]
  BY <1>1, <1>2 DEF t, k
<1>4. Cardinality(Owing(t, S)) =
        IF s[k] \in S THEN Cardinality(Owing(s, S)) - 1 ELSE Cardinality(Owing(s, S))
  BY <1>3, OwingShift
<1>5. QED
  BY <1>1, <1>4 DEF t, k

(* A list that grows by one.                                                *)
LEMMA Appended ==
  ASSUME NEW A, NEW s \in Seq(A), NEW a \in A
  PROVE  Append(s, a) \in Seq(A) /\ Len(Append(s, a)) = Len(s) + 1 /\ Len(s) \in Nat
  OBVIOUS

(* What RemoveAt leaves of a list.                                          *)
LEMMA RemoveAtIs ==
  ASSUME NEW A, NEW s \in Seq(A), NEW k \in 1 .. Len(s)
  PROVE  /\ RemoveAt(s, k) \in Seq(A)
         /\ Len(RemoveAt(s, k)) = Len(s) - 1
         /\ \A i \in 1 .. Len(s) - 1 : RemoveAt(s, k)[i] = IF i < k THEN s[i] ELSE s[i + 1]
<1> DEFINE a == SubSeq(s, 1, k - 1)
           b == SubSeq(s, k + 1, Len(s))
<1>1. /\ a \in Seq(A) /\ Len(a) = k - 1 /\ \A i \in 1 .. k - 1 : a[i] = s[i]
  BY SubSeqProperties
<1>2. /\ b \in Seq(A) /\ Len(b) = Len(s) - k /\ \A i \in 1 .. Len(s) - k : b[i] = s[k + i]
  BY SubSeqProperties
<1> HIDE DEF a, b
<1>3. /\ a \o b \in Seq(A) /\ Len(a \o b) = Len(a) + Len(b)
      /\ \A i \in 1 .. Len(a) + Len(b) :
            (a \o b)[i] = IF i <= Len(a) THEN a[i] ELSE b[i - Len(a)]
  BY <1>1, <1>2, ConcatProperties
<1>4. RemoveAt(s, k) = a \o b
  BY Zenon DEF RemoveAt, a, b
<1>5. Len(a \o b) = Len(s) - 1
  BY <1>1, <1>2, <1>3
<1>6. ASSUME NEW i \in 1 .. Len(s) - 1 PROVE (a \o b)[i] = IF i < k THEN s[i] ELSE s[i + 1]
  <2>1. CASE i < k
    BY <1>1, <1>2, <1>3, <2>1
  <2>2. CASE ~(i < k)
    <3>1. (a \o b)[i] = b[i - (k - 1)] /\ i - (k - 1) \in 1 .. Len(s) - k
      BY <1>1, <1>2, <1>3, <2>2
    <3>2. b[i - (k - 1)] = s[k + (i - (k - 1))] /\ k + (i - (k - 1)) = i + 1
      BY <1>2, <3>1
    <3>3. QED
      BY <2>2, <3>1, <3>2
  <2>3. QED
    BY <2>1, <2>2
<1>7. QED
  BY <1>3, <1>4, <1>5, <1>6

(* A list that loses one.                                                   *)
LEMMA Removed ==
  ASSUME NEW A, NEW s \in Seq(A), NEW k \in DOMAIN s
  PROVE  /\ RemoveAt(s, k) \in Seq(A) /\ Len(RemoveAt(s, k)) = Len(s) - 1
         /\ Len(s) \in Nat \ {0}
<1>1. k \in 1 .. Len(s) /\ Len(s) \in Nat
  OBVIOUS
<1>2. QED
  BY <1>1, RemoveAtIs

(* ... and what it is owed.                                                 *)
LEMMA OwingRemoved ==
  ASSUME NEW A, NEW S, NEW s \in Seq(A), NEW k \in DOMAIN s
  PROVE  Cardinality(Owing(RemoveAt(s, k), S)) =
            IF s[k] \in S THEN Cardinality(Owing(s, S)) - 1 ELSE Cardinality(Owing(s, S))
<1> DEFINE t == RemoveAt(s, k)
<1>1. /\ t \in Seq(A) /\ k \in 1 .. Len(s) /\ Len(t) = Len(s) - 1
      /\ \A i \in 1 .. Len(t) : t[i] = IF i < k THEN s[i] ELSE s[i + 1]
  <2>1. k \in 1 .. Len(s)
    OBVIOUS
  <2>2. QED
    BY <2>1, RemoveAtIs
<1> HIDE DEF t
<1>2. Cardinality(Owing(t, S)) =
        IF s[k] \in S THEN Cardinality(Owing(s, S)) - 1 ELSE Cardinality(Owing(s, S))
  BY <1>1, OwingShift
<1>3. QED
  BY <1>2 DEF t

-----------------------------------------------------------------------------
(* The connections                                                          *)
(*                                                                         *)
(* Each of them is shown to step by itself first: its types, its own        *)
(* invariant, and MeshTransport's contract. Then what holds of the two       *)
(* together while no close ran beside a connect: at most the chosen one is   *)
(* not idle, and what the other was is over.                                *)

(* What a page's step can be for each of its connections.                   *)
AirStep ==
    \/ AirConnect \/ AirDisconnect \/ AirSend \/ ServerReady \/ AirFinish \/ AirQuiet
    \/ UNCHANGED airVars

UsbStep ==
    \/ UsbConnect /\ ~TurnDue
    \/ UsbDisconnect /\ usbReady
    \/ PressReboot \/ RightKey \/ ConnectEnds \/ ChainClosed
    \/ \E kind \in {"cmd", "loc"} : UsbSend(kind)
    \/ UsbQuiet
    \/ UNCHANGED usbVars

(* Every step of the page is a step of each connection, or leaves it alone.  *)
LEMMA StepsApart == Next => AirStep /\ UsbStep
<1> USE DEF AirStep, UsbStep
<1>1. ASSUME AskPending PROVE AirStep /\ UsbStep
  BY <1>1, Zenon DEF AskPending, SendChosen
<1>2. ASSUME ~TurnDue, Page PROVE AirStep /\ UsbStep
  <2>1. ASSUME ClickConnect \/ FetchLocation PROVE AirStep /\ UsbStep
    BY <1>2, <2>1, Zenon DEF ClickConnect, FetchLocation, ConnectChosen, SendChosen
  <2>2. ASSUME ClickDisconnect PROVE AirStep /\ UsbStep
    BY <2>2, Zenon DEF ClickDisconnect, DisconnectChosen, Ready
  <2>3. ASSUME SendCommand PROVE AirStep /\ UsbStep
    BY <2>3, Zenon DEF SendCommand, SendChosen
  <2>4. ASSUME NEW t \in {"usb", "air"}, Use(t) PROVE AirStep /\ UsbStep
    BY <2>4, Zenon DEF Use
  <2>5. ASSUME PressReboot, UNCHANGED <<airVars, barVars, presses>> PROVE AirStep /\ UsbStep
    <3>1. UNCHANGED airVars
      BY <2>5
    <3>2. QED
      BY <2>5, <3>1, Zenon
  <2>6. QED
    BY <1>2, <2>1, <2>2, <2>3, <2>4, <2>5, Zenon DEF Page
<1>3. ASSUME AirReadies \/ UsbReadies \/ Closes PROVE AirStep /\ UsbStep
  BY <1>3, Zenon DEF AirReadies, UsbReadies, Closes
<1>4. ASSUME Quiet PROVE AirStep /\ UsbStep
  BY <1>4, Zenon DEF Quiet
<1>5. QED
  BY <1>1, <1>2, <1>3, <1>4, Zenon DEF Next

-----------------------------------------------------------------------------
(* Types *)

(* A port's steps keep its types.                                           *)
LEMMA PortTyped ==
  ASSUME PortTypeOK, PortSteps \/ ReadFails \/ Write \/ WriteEnds \/ Unplug \/ NewPort
  PROVE  PortTypeOK'
<1> USE DEF PortTypeOK, streamVars
<1>1. ASSUME OpenDevice \/ FindInterfaces \/ ClaimInterfaces \/ RaiseLine \/ Abandon
      PROVE  PortTypeOK'
  BY <1>1 DEF OpenDevice, FindInterfaces, ClaimInterfaces, RaiseLine, Abandon
<1>2. ASSUME AbortWrites \/ DropLine \/ ShutDevice PROVE PortTypeOK'
  BY <1>2 DEF AbortWrites, DropLine, ShutDevice, Tried
<1>3. ASSUME ReadFails \/ Write \/ WriteEnds \/ Unplug \/ NewPort PROVE PortTypeOK'
  BY <1>3 DEF ReadFails, Write, WriteEnds, Unplug, NewPort
<1>4. QED
  BY <1>1, <1>2, <1>3 DEF PortSteps

(* So do the steps of the over-the-air connection.                          *)
LEMMA AirTyped ==
  ASSUME AirTypeOK, AirStep
  PROVE  AirTypeOK'
<1> USE DEF AirTypeOK
<1>0. ASSUME UNCHANGED portVars PROVE PortTypeOK'
  BY <1>0 DEF PortTypeOK, portVars, streamVars
<1>1. ASSUME AirConnect \/ AirDisconnect PROVE AirTypeOK'
  BY <1>0, <1>1 DEF AirConnect, AirDisconnect, airVars
<1>2. ASSUME AirSend PROVE AirTypeOK'
  <2>1. airOwed' \in 0 .. MaxOwed
    BY <1>2, AirAssumption DEF AirSend
  <2>2. QED
    BY <1>0, <1>2, <2>1 DEF AirSend
<1>3. ASSUME ServerReady PROVE AirTypeOK'
  BY <1>0, <1>3 DEF ServerReady
<1>4. ASSUME AirFinish PROVE AirTypeOK'
  <2>1. 0 \in 0 .. MaxOwed
    BY AirAssumption
  <2>2. PortTypeOK'
    BY <1>4 DEF AirFinish, PortTypeOK, streamVars
  <2>3. QED
    BY <1>4, <2>1, <2>2 DEF AirFinish
<1>5. ASSUME UNCHANGED airVars PROVE AirTypeOK'
  BY <1>0, <1>5 DEF airVars
<1>6. ASSUME AirQuiet PROVE AirTypeOK'
  <2>1. ASSUME AirPick PROVE AirTypeOK'
    BY <2>1, <1>0, PortTyped DEF AirPick
  <2>2. ASSUME AirPortOpens \/ AirPortFails \/ WsOpens \/ WsCloses PROVE AirTypeOK'
    BY <2>2, <1>0 DEF AirPortOpens, AirPortFails, WsOpens, WsCloses
  <2>3. ASSUME ServerReports PROVE AirTypeOK'
    <3>1. airOwed' \in 0 .. MaxOwed
      BY <2>3, AirAssumption DEF ServerReports
    <3>2. QED
      BY <1>0, <2>3, <3>1 DEF ServerReports
  <2>4. ASSUME ServerBytes PROVE AirTypeOK'
    BY <2>4, PortTyped DEF ServerBytes
  <2>5. ASSUME AirCancels PROVE AirTypeOK'
    <3>1. CASE portPc = "none" /\ UNCHANGED portVars
      BY <1>0, <2>5, <3>1 DEF AirCancels
    <3>2. CASE /\ portPc' = "abort" /\ readable' \in {readable, "closed"}
               /\ UNCHANGED <<opened, dtr, writable, writing, plugged, refused>>
      BY <2>5, <3>2 DEF AirCancels, PortTypeOK
    <3>3. QED
      BY <2>5, <3>1, <3>2 DEF AirCancels, ClosePort
  <2>6. ASSUME AirPortSteps \/ AirWriteEnds \/ AirPortTrouble PROVE AirTypeOK'
    BY <2>6, PortTyped DEF AirPortSteps, AirWriteEnds, AirPortTrouble, AirRest
  <2>7. QED
    BY <1>6, <2>1, <2>2, <2>3, <2>4, <2>5, <2>6 DEF AirQuiet
<1>7. QED
  BY <1>1, <1>2, <1>3, <1>4, <1>5, <1>6 DEF AirStep

-----------------------------------------------------------------------------
(* The over-the-air connection *)

(* A port's state says what may be open, raised or being written.           *)
PortInv ==
    /\ writing => portPc \in {"live", "abort"}
    /\ dtr => portPc \in {"live", "abort", "drop"} \/ "line" \in refused
    /\ opened => portPc \notin {"none", "open", "closed"} \/ "close" \in refused

(* Opening, a session and a cleanup follow one another, and the port lives   *)
(* within them.                                                             *)
AirInv ==
    /\ airOpening # "no" => airConnecting /\ airCleanup = "no" /\ ws = "none" /\ ~bridge
    /\ airOpening = "pick" => portPc = "none"
    /\ airCleanup # "no" => ~AirIdle
    /\ ws # "none" => bridge
    /\ airReady => bridge
    /\ portPc # "none" => ~AirIdle
    /\ PortInv

(* A device is closed by its own close() or by its cable, and only after it   *)
(* was opened: a port's steps keep its invariant.                           *)
LEMMA PortStep ==
  ASSUME PortTypeOK, PortInv,
         \/ PortSteps \/ ReadFails \/ (Write /\ portPc = "live") \/ WriteEnds \/ Unplug
         \/ NewPort /\ portPc = "none"
  PROVE  PortInv'
<1> USE DEF PortTypeOK, PortInv, streamVars
<1>1. ASSUME OpenDevice \/ FindInterfaces \/ ClaimInterfaces \/ RaiseLine \/ Abandon PROVE PortInv'
  <2>1. ASSUME OpenDevice PROVE PortInv'
    BY <2>1 DEF OpenDevice
  <2>2. ASSUME FindInterfaces \/ ClaimInterfaces PROVE PortInv'
    BY <2>2 DEF FindInterfaces, ClaimInterfaces
  <2>3. ASSUME RaiseLine PROVE PortInv'
    <3>1. portPc = "line" /\ portPc' \in {"live", "abandon"} /\ UNCHANGED <<opened, refused, writing>>
      BY <2>3 DEF RaiseLine
    <3>2. portPc' = "abandon" => UNCHANGED <<dtr, readable, writable>>
      BY <2>3 DEF RaiseLine
    <3>3. portPc' = "live" => readable' = "open" /\ writable' = "open"
      BY <2>3 DEF RaiseLine
    <3>4. QED
      BY <3>1, <3>2, <3>3
  <2>4. ASSUME Abandon PROVE PortInv'
    BY <2>4 DEF Abandon
  <2>5. QED
    BY <1>1, <2>1, <2>2, <2>3, <2>4
<1>2. ASSUME AbortWrites \/ DropLine \/ ShutDevice PROVE PortInv'
  BY <1>2 DEF AbortWrites, DropLine, ShutDevice, Tried
<1>3. ASSUME \/ ReadFails \/ (Write /\ portPc = "live") \/ WriteEnds \/ Unplug
             \/ (NewPort /\ portPc = "none")
      PROVE  PortInv'
  BY <1>3 DEF ReadFails, Write, WriteEnds, Unplug, NewPort
<1>4. QED
  BY <1>1, <1>2, <1>3 DEF PortSteps

(* A port's own steps begin and end no port.                                *)
LEMMA PortStays ==
  ASSUME PortSteps \/ ReadFails \/ Write \/ WriteEnds \/ Unplug
  PROVE  (portPc = "none") <=> (portPc' = "none")
  BY DEF PortSteps, OpenDevice, FindInterfaces, ClaimInterfaces, RaiseLine, Abandon,
         AbortWrites, DropLine, ShutDevice, ReadFails, Write, WriteEnds, Unplug

(* The over-the-air connection keeps its invariant: a cleanup ends before     *)
(* the connection is idle, and a session before its cleanup.                *)
LEMMA AirInvStep ==
  ASSUME AirTypeOK, AirInv, AirStep
  PROVE  AirInv'
<1> USE DEF AirTypeOK, AirInv, AirIdle
<1>0. ASSUME UNCHANGED portVars PROVE PortInv' /\ portPc' = portPc
  BY <1>0 DEF PortInv, portVars, streamVars
<1>1. ASSUME AirConnect PROVE AirInv'
  BY <1>0, <1>1 DEF AirConnect, airVars
<1>2. ASSUME AirDisconnect PROVE AirInv'
  BY <1>0, <1>2 DEF AirDisconnect, airVars
<1>3. ASSUME AirSend PROVE AirInv'
  BY <1>0, <1>3 DEF AirSend
<1>4. ASSUME ServerReady PROVE AirInv'
  BY <1>0, <1>4 DEF ServerReady
<1>5. ASSUME AirFinish PROVE AirInv'
  BY <1>5 DEF AirFinish, PortInv, streamVars
<1>6. ASSUME UNCHANGED airVars PROVE AirInv'
  BY <1>0, <1>6 DEF airVars
<1>7. ASSUME AirPick PROVE AirInv'
  <2>1. CASE NewPort /\ airOpening' = "port" /\ UNCHANGED airCleanup
    BY <1>7, <2>1, PortStep DEF AirPick, NewPort
  <2>2. CASE airOpening' = "no" /\ airCleanup' = "cancel" /\ UNCHANGED portVars
    BY <1>0, <1>7, <2>2 DEF AirPick
  <2>3. QED
    BY <1>7, <2>1, <2>2 DEF AirPick
<1>8. ASSUME AirPortOpens \/ AirPortFails PROVE AirInv'
  BY <1>0, <1>8 DEF AirPortOpens, AirPortFails
<1>9. ASSUME WsOpens \/ WsCloses PROVE AirInv'
  BY <1>0, <1>9 DEF WsOpens, WsCloses
<1>10. ASSUME ServerReports PROVE AirInv'
  BY <1>0, <1>10 DEF ServerReports
<1>11. ASSUME ServerBytes PROVE AirInv'
  BY <1>11, PortStep, PortStays DEF ServerBytes
<1>12. ASSUME AirCancels PROVE AirInv'
  BY <1>0, <1>12 DEF AirCancels, ClosePort, PortInv
<1>13. ASSUME AirPortSteps \/ AirWriteEnds \/ AirPortTrouble PROVE AirInv'
  <2>1. PortInv' /\ ((portPc = "none") <=> (portPc' = "none")) /\ AirRest
    BY <1>13, PortStep, PortStays DEF AirPortSteps, AirWriteEnds, AirPortTrouble
  <2>2. QED
    BY <2>1 DEF AirRest
<1>14. QED
  BY <1>1, <1>2, <1>3, <1>4, <1>5, <1>6, <1>7, <1>8, <1>9, <1>10, <1>11, <1>12, <1>13
  DEF AirStep, AirQuiet

-----------------------------------------------------------------------------
(* Every step of the over-the-air connection is one the contract allows, or   *)
(* none the page can see.                                                   *)
LEMMA AirKeeps ==
  ASSUME AirTypeOK, AirInv, AirStep
  PROVE  AirTransport!Next \/ UNCHANGED <<AirPhase, airOwed>>
<1> DEFINE Goal == AirTransport!Next \/ UNCHANGED <<AirPhase, airOwed>>
<1> USE DEF AirPhase, AirIdle
<1>0. airOwed \in Nat
  BY AirAssumption DEF AirTypeOK
<1>1. ASSUME AirConnect PROVE Goal
  <2>1. CASE AirIdle
    BY <1>1, <2>1 DEF AirConnect, AirTransport!Next, AirTransport!Connect
  <2>2. CASE ~AirIdle
    BY <1>1, <2>2 DEF AirConnect, airVars
  <2>3. QED
    BY <2>1, <2>2
<1>2. ASSUME AirDisconnect PROVE Goal
  BY <1>2 DEF AirDisconnect, airVars
<1>3. ASSUME AirSend PROVE Goal
  BY <1>3 DEF AirSend, AirSends, AirTransport!Next, AirTransport!Send
<1>4. ASSUME ServerReady PROVE Goal
  BY <1>4 DEF ServerReady, AirInv, AirTransport!Next, AirTransport!Ready
<1>5. ASSUME AirFinish PROVE Goal
  <2>1. airOwed' \in 0 .. airOwed
    BY <1>0, <1>5 DEF AirFinish
  <2>2. QED
    BY <1>5, <2>1 DEF AirFinish, AirInv, AirTransport!Next, AirTransport!Close
<1>6. ASSUME UNCHANGED airVars PROVE Goal
  BY <1>6 DEF airVars
<1>7. ASSUME ServerReports PROVE Goal
  BY <1>7 DEF ServerReports, AirTransport!Next, AirTransport!Settle
<1>8. ASSUME \/ AirPick \/ AirPortFails \/ WsOpens \/ WsCloses
             \/ ServerBytes \/ AirCancels \/ AirPortSteps \/ AirWriteEnds \/ AirPortTrouble
      PROVE  Goal
  BY <1>8 DEF AirPick, AirPortFails, WsOpens, WsCloses, ServerBytes, AirCancels, AirPortSteps,
              AirWriteEnds, AirPortTrouble, AirRest
<1>9. ASSUME AirPortOpens PROVE Goal
  BY <1>9 DEF AirPortOpens, AirInv
<1>10. QED
  BY <1>1, <1>2, <1>3, <1>4, <1>5, <1>6, <1>7, <1>8, <1>9 DEF AirStep, AirQuiet

-----------------------------------------------------------------------------
(* The connection over the cable *)

UsbInv ==
    /\ usbOpening # "no" => ~usbReady
    /\ usbOpening = "pick" => tries = 0
    /\ usbOpening \in {"boot", "ver"} => tries < MaxTries
    /\ step # "wait" => queue # <<>> /\ ~broken
    /\ step = "cmd" => Head(queue) = "cmd"
    /\ step \in {"lat", "lon", "save"} => Head(queue) = "loc"
    /\ step = "reboot" => Head(queue) = "reboot"
    /\ step = "close" => Head(queue) \in {"close", "reboot"}

(* A call of the page puts one more step on the chain.                      *)
LEMMA ChainTyped ==
  ASSUME NEW kind \in {"cmd", "loc", "reboot", "close"}, Chain(kind), UsbTypeOK, UsbInv,
         Len(queue) <= MaxQueue, reboot' \in {reboot, "off"}
  PROVE  UsbTypeOK' /\ UsbInv'
<1>1. /\ queue' \in Seq({"cmd", "loc", "reboot", "close"}) /\ Len(queue') <= MaxQueue + 1
      /\ queue' # <<>>
      /\ queue # <<>> => Head(queue') = Head(queue)
  BY UsbAssumption DEF Chain, UsbTypeOK
<1>2. UsbTypeOK'
  BY <1>1 DEF Chain, UsbTypeOK, boardVars
<1>3. UsbInv'
  BY <1>1 DEF Chain, UsbInv, boardVars
<1>4. QED
  BY <1>2, <1>3

(* A step that ends leaves the chain to those behind it.                    *)
LEMMA StepEndsTyped ==
  ASSUME UsbTypeOK, StepEnds, queue # <<>>
  PROVE  queue' \in Seq({"cmd", "loc", "reboot", "close"}) /\ Len(queue') <= MaxQueue + 1
  BY UsbAssumption DEF UsbTypeOK, StepEnds

(* Nothing happens to the connection over the cable.                        *)
LEMMA UsbStays ==
  ASSUME UsbTypeOK, UsbInv, UNCHANGED usbVars
  PROVE  UsbTypeOK' /\ UsbInv'
  BY DEF usbVars, chainVars, boardVars, UsbTypeOK, UsbInv

(* What opening does to the chain: nothing.                                 *)
LEMMA OpeningStep ==
  ASSUME UsbTypeOK, UsbInv, UNCHANGED <<chainVars, reboot>>,
         usbReady' \in BOOLEAN, usbCli' \in BOOLEAN, overlap' \in BOOLEAN,
         usbOpening' \in {"no", "pick", "boot", "ver", "pause", "key", "sure", "failed", "closing"},
         tries' \in 0 .. MaxTries, device' \in {"right", "wrong", "gone"},
         heard' \subseteq {"ver", "key", "cmd", "lat", "lon", "reboot"},
         usbOpening' # "no" => ~usbReady',
         usbOpening' = "pick" => tries' = 0,
         usbOpening' \in {"boot", "ver"} => tries' < MaxTries
  PROVE  UsbTypeOK' /\ UsbInv'
<1>1. UNCHANGED <<queue, step, broken, reboot>>
  BY Zenon DEF chainVars
<1>2. UsbTypeOK'
  BY <1>1 DEF UsbTypeOK
<1>3. UsbInv'
  BY <1>1 DEF UsbInv
<1>4. QED
  BY <1>2, <1>3

(* A line that is written may reach a wrong repeater, and no other change.    *)
LEMMA Heard ==
  ASSUME UsbTypeOK, NEW line \in {"ver", "key", "cmd", "lat", "lon", "reboot"}, GiveLine(line)
  PROVE  /\ heard' \subseteq {"ver", "key", "cmd", "lat", "lon", "reboot"}
         /\ device' = device
  BY DEF UsbTypeOK, GiveLine

(* Opening keeps the invariant: waitReady() gives up before an attempt too    *)
(* many, and a connection is not ready before its opening is over.          *)
LEMMA ConnectingStep ==
  ASSUME UsbTypeOK, UsbInv, UsbConnect \/ UsbPick \/ Connecting \/ RightKey \/ ConnectEnds
  PROVE  UsbTypeOK' /\ UsbInv'
<1> DEFINE Tries == 0 .. MaxTries
           Few == tries < MaxTries
           Ops == {"no", "pick", "boot", "ver", "pause", "key", "sure", "failed", "closing"}
           Lines == {"ver", "key", "cmd", "lat", "lon", "reboot"}
           Goal == UsbTypeOK' /\ UsbInv'
<1>0. /\ usbReady \in BOOLEAN /\ usbCli \in BOOLEAN /\ overlap \in BOOLEAN
      /\ usbOpening \in Ops /\ tries \in Tries /\ device \in {"right", "wrong", "gone"}
      /\ heard \subseteq Lines
      /\ usbOpening # "no" => ~usbReady
      /\ usbOpening = "pick" => tries = 0
      /\ usbOpening \in {"boot", "ver"} => Few
  BY Zenon DEF UsbTypeOK, UsbInv
<1>a. ASSUME tries' = tries, UNCHANGED <<chainVars, reboot>>,
             usbReady' \in BOOLEAN, usbCli' \in BOOLEAN, overlap' \in BOOLEAN,
             usbOpening' \in Ops \ {"pick"}, device' \in {"right", "wrong", "gone"},
             heard' \subseteq Lines,
             usbOpening' # "no" => ~usbReady',
             usbOpening' \in {"boot", "ver"} => Few
      PROVE  Goal
  BY <1>0, <1>a, OpeningStep
<1> HIDE DEF Tries, Few, Goal
<1>1. ASSUME UsbConnect PROVE Goal
  <2>1. CASE ~usbReady /\ ~usbCli /\ usbOpening = "no"
    <3>1. 0 \in 0 .. MaxTries
      BY UsbAssumption
    <3>2. /\ usbOpening' = "pick" /\ tries' = 0 /\ overlap' \in BOOLEAN
          /\ UNCHANGED <<usbReady, usbCli, chainVars, device, heard, reboot>>
      BY <1>1, <2>1, <1>0, Zenon DEF UsbConnect, boardVars
    <3>3. QED
      BY <1>0, <2>1, <3>1, <3>2, OpeningStep DEF Goal
  <2>2. CASE ~(~usbReady /\ ~usbCli /\ usbOpening = "no")
    <3>1. UNCHANGED usbVars
      BY <1>1, <2>2, Zenon DEF UsbConnect
    <3>2. QED
      BY <3>1, UsbStays DEF Goal
  <2>3. QED
    BY <2>1, <2>2
<1>2. ASSUME UsbPick PROVE Goal
  <2>1. tries' = tries /\ Few
    BY <1>0, <1>2, UsbAssumption DEF UsbPick, Few
  <2>2. CASE Opening("failed") /\ UNCHANGED <<tries, boardVars>>
    <3>1. ~usbReady
      BY <1>0, <1>2, Zenon DEF UsbPick
    <3>2. QED
      BY <1>0, <1>a, <2>2, <3>1 DEF Opening, boardVars
  <2>3. CASE /\ usbCli' = TRUE /\ usbOpening' = "boot" /\ device' \in {"right", "wrong"}
             /\ UNCHANGED <<usbReady, tries, chainVars, heard, reboot, overlap>>
    <3>1. ~usbReady
      BY <1>0, <1>2, Zenon DEF UsbPick
    <3>2. QED
      BY <1>0, <1>a, <2>1, <2>3, <3>1
  <2>4. QED
    BY <1>2, <2>2, <2>3 DEF UsbPick
<1>3. ASSUME AskVersion PROVE Goal
  BY <1>0, <1>3, <1>a, Heard DEF AskVersion, Opening
<1>4. ASSUME AskKey PROVE Goal
  BY <1>0, <1>4, <1>a, Heard DEF AskKey, Opening
<1>5. ASSUME VersionLate PROVE Goal
  <2>1. tries' \in 0 .. MaxTries
    BY <1>0, <1>5, UsbAssumption DEF VersionLate, Tries, Few
  <2>2. QED
    BY <1>0, <1>5, <2>1, OpeningStep DEF VersionLate, Opening, boardVars, Goal
<1>6. ASSUME VersionComes \/ WrongKey \/ ConnectThrows PROVE Goal
  <2>1. /\ usbOpening # "no" /\ usbOpening' \in {"key", "failed"}
        /\ UNCHANGED <<usbReady, usbCli, chainVars, reboot, overlap, tries, device, heard>>
    BY <1>6 DEF VersionComes, WrongKey, ConnectThrows, Opening, boardVars
  <2>2. QED
    BY <1>0, <1>a, <2>1
<1>7. ASSUME AskAgain PROVE Goal
  <2>1. /\ usbOpening = "pause" /\ (usbOpening' = "boot" => Few)
        /\ usbOpening' \in {"boot", "failed"}
        /\ tries' = tries
        /\ UNCHANGED <<usbReady, usbCli, chainVars, reboot, overlap, device, heard>>
    BY <1>7, Zenon DEF AskAgain, Opening, boardVars, Few
  <2>2. QED
    BY <1>0, <1>a, <2>1
<1>8. ASSUME RightKey PROVE Goal
  BY <1>0, <1>8, <1>a DEF RightKey, boardVars
<1>9. ASSUME ConnectGivesUp PROVE Goal
  BY <1>0, <1>9, <1>a DEF ConnectGivesUp
<1>10. ASSUME ConnectEnds PROVE Goal
  BY <1>0, <1>10, <1>a DEF ConnectEnds, Opening, boardVars
<1>11. Goal
  BY <1>1, <1>2, <1>3, <1>4, <1>5, <1>6, <1>7, <1>8, <1>9, <1>10, Zenon DEF Connecting
<1>12. QED
  BY <1>11 DEF Goal

(* What the chain does to an opening: nothing.                              *)
LEMMA ChainedStep ==
  ASSUME UsbTypeOK, UsbInv, UNCHANGED <<usbOpening, tries>>,
         usbReady' \in BOOLEAN, usbReady' => usbReady, usbCli' \in BOOLEAN, overlap' \in BOOLEAN,
         broken' \in BOOLEAN, device' \in {"right", "wrong", "gone"},
         heard' \subseteq {"ver", "key", "cmd", "lat", "lon", "reboot"},
         reboot' \in {"hidden", "shown", "off"},
         \/ StepEnds /\ queue # <<>>
         \/ /\ UNCHANGED queue
            /\ step' \in {"wait", "cmd", "lat", "lon", "save", "reboot", "close"}
            /\ step' # "wait" => queue # <<>> /\ ~broken'
            /\ step' = "cmd" => Head(queue) = "cmd"
            /\ step' \in {"lat", "lon", "save"} => Head(queue) = "loc"
            /\ step' = "reboot" => Head(queue) = "reboot"
            /\ step' = "close" => Head(queue) \in {"close", "reboot"}
  PROVE  UsbTypeOK' /\ UsbInv'
<1>1. queue' \in Seq({"cmd", "loc", "reboot", "close"}) /\ Len(queue') <= MaxQueue + 1
  <2>1. CASE UNCHANGED queue
    BY <2>1 DEF UsbTypeOK
  <2>2. QED
    BY <2>1, StepEndsTyped
<1>2. step' \in {"wait", "cmd", "lat", "lon", "save", "reboot", "close"}
  BY DEF StepEnds
<1>3. UsbTypeOK'
  BY <1>1, <1>2 DEF UsbTypeOK
<1>4. usbOpening' # "no" => ~usbReady'
  BY DEF UsbInv
<1>5. /\ usbOpening' = "pick" => tries' = 0
      /\ usbOpening' \in {"boot", "ver"} => tries' < MaxTries
  BY DEF UsbInv
<1>6. /\ step' # "wait" => queue' # <<>> /\ ~broken'
      /\ step' = "cmd" => Head(queue)' = "cmd"
      /\ step' \in {"lat", "lon", "save"} => Head(queue)' = "loc"
      /\ step' = "reboot" => Head(queue)' = "reboot"
      /\ step' = "close" => Head(queue)' \in {"close", "reboot"}
  BY DEF StepEnds
<1>7. QED
  BY <1>3, <1>4, <1>5, <1>6, Zenon DEF UsbInv

(* The chain keeps the invariant: what is under way is its first step's.      *)
LEMMA ChainStep ==
  ASSUME UsbTypeOK, UsbInv, Chained \/ ChainClosed
  PROVE  UsbTypeOK' /\ UsbInv'
<1> DEFINE Goal == UsbTypeOK' /\ UsbInv'
           Steps == {"wait", "cmd", "lat", "lon", "save", "reboot", "close"}
           Lines == {"ver", "key", "cmd", "lat", "lon", "reboot"}
<1>0. /\ usbReady \in BOOLEAN /\ usbCli \in BOOLEAN /\ overlap \in BOOLEAN /\ broken \in BOOLEAN
      /\ device \in {"right", "wrong", "gone"} /\ heard \subseteq Lines
      /\ reboot \in {"hidden", "shown", "off"} /\ step \in Steps
  BY Zenon DEF UsbTypeOK
<1>r. /\ step # "wait" => queue # <<>> /\ ~broken
      /\ step = "cmd" => Head(queue) = "cmd"
      /\ step \in {"lat", "lon", "save"} => Head(queue) = "loc"
      /\ step = "reboot" => Head(queue) = "reboot"
      /\ step = "close" => Head(queue) \in {"close", "reboot"}
  BY Zenon DEF UsbInv
<1>a. ASSUME UNCHANGED <<usbOpening, tries>>,
             usbReady' \in BOOLEAN, usbReady' => usbReady,
             usbCli' \in BOOLEAN, overlap' \in BOOLEAN,
             broken' = broken, device' \in {"right", "wrong", "gone"}, heard' \subseteq Lines,
             reboot' \in {"hidden", "shown", "off"}, StepEnds, queue # <<>>
      PROVE  Goal
  BY <1>0, <1>a, ChainedStep
<1>b. ASSUME UNCHANGED <<usbOpening, tries>>,
             usbReady' \in BOOLEAN, usbReady' => usbReady,
             usbCli' \in BOOLEAN, overlap' \in BOOLEAN,
             broken' \in BOOLEAN, device' \in {"right", "wrong", "gone"}, heard' \subseteq Lines,
             reboot' \in {"hidden", "shown", "off"}, UNCHANGED queue,
             step' \in Steps,
             step' # "wait" => queue # <<>> /\ ~broken',
             step' = "cmd" => Head(queue) = "cmd",
             step' \in {"lat", "lon", "save"} => Head(queue) = "loc",
             step' = "reboot" => Head(queue) = "reboot",
             step' = "close" => Head(queue) \in {"close", "reboot"}
      PROVE  Goal
  BY <1>b, ChainedStep
<1> HIDE DEF Goal
<1>1. ASSUME StepSkipped PROVE Goal
  BY <1>0, <1>a, <1>1 DEF StepSkipped, Turn, Rest, boardVars
<1>2. ASSUME CommandReports PROVE Goal
  BY <1>0, <1>r, <1>a, <1>2 DEF CommandReports, Rest, boardVars
<1>3. ASSUME LocationReports PROVE Goal
  BY <1>0, <1>r, <1>a, <1>3 DEF LocationReports, Rest, boardVars
<1>4. ASSUME ChainClosed PROVE Goal
  <2>1. /\ queue # <<>> /\ StepEnds /\ usbReady' \in BOOLEAN /\ (usbReady' => usbReady)
        /\ overlap' \in BOOLEAN
        /\ UNCHANGED <<usbCli, usbOpening, tries, broken, device, heard, reboot>>
    <3>1. /\ StepEnds
          /\ UNCHANGED <<usbCli, usbOpening, tries, broken, device, heard, reboot>>
      BY <1>4, Zenon DEF ChainClosed, boardVars
    <3>2. usbReady' = usbReady \/ usbReady' = FALSE
      BY <1>4, Zenon DEF ChainClosed
    <3>3. step = "close" \/ step = "reboot" \/ Turn("close")
      BY <1>4, Zenon DEF ChainClosed
    <3>4. queue # <<>>
      BY <1>r, <3>3 DEF Turn
    <3>5. usbReady' \in BOOLEAN
      BY <1>0, <3>2
    <3>6. usbReady' => usbReady
      BY <3>2, Zenon
    <3>7. overlap' \in BOOLEAN
      BY <1>0, <1>4, Zenon DEF ChainClosed
    <3>8. QED
      BY <3>1, <3>4, <3>5, <3>6, <3>7, Zenon
  <2>2. QED
    BY <1>0, <1>a, <2>1
<1>5. ASSUME StartCommand PROVE Goal
  BY <1>0, <1>b, <1>5, Heard DEF StartCommand, Turn, Rest
<1>6. ASSUME StartLocation PROVE Goal
  BY <1>0, <1>b, <1>6, Heard DEF StartLocation, Turn, Rest
<1>7. ASSUME AskLongitude PROVE Goal
  BY <1>0, <1>r, <1>b, <1>7, Heard DEF AskLongitude, Rest
<1>8. ASSUME PostLocation PROVE Goal
  BY <1>0, <1>r, <1>b, <1>8 DEF PostLocation, Rest, boardVars
<1>9. ASSUME ChainBreaks PROVE Goal
  <2>1. /\ broken' = TRUE /\ step' = "wait"
        /\ UNCHANGED <<usbReady, usbCli, usbOpening, tries, queue, device, heard, reboot, overlap>>
    BY <1>9, Zenon DEF ChainBreaks, boardVars
  <2>2. QED
    BY <1>0, <1>b, <2>1
<1>10. ASSUME ChainCloses PROVE Goal
  BY <1>0, <1>b, <1>10 DEF ChainCloses, CloseBegins, Turn
<1>11. ASSUME StartReboot PROVE Goal
  BY <1>0, <1>b, <1>11, Heard DEF StartReboot, Turn, Rest
<1>12. ASSUME RebootSent PROVE Goal
  BY <1>0, <1>r, <1>b, <1>12 DEF RebootSent, CloseBegins
<1>13. Goal
  BY <1>1, <1>2, <1>3, <1>4, <1>5, <1>6, <1>7, <1>8, <1>9, <1>10, <1>11, <1>12, Zenon DEF Chained
<1>14. QED
  BY <1>13 DEF Goal

(* The connection over the cable keeps its types and its invariant.         *)
LEMMA UsbInvStep ==
  ASSUME UsbTypeOK, UsbInv, UsbStep
  PROVE  UsbTypeOK' /\ UsbInv'
<1>1. ASSUME UsbDisconnect PROVE UsbTypeOK' /\ UsbInv'
  BY <1>1, ChainTyped DEF UsbDisconnect
<1>2. ASSUME PressReboot PROVE UsbTypeOK' /\ UsbInv'
  <2>1. Len(queue) <= MaxQueue
    BY <1>2, UsbAssumption DEF PressReboot, UsbTypeOK
  <2>2. QED
    BY <1>2, <2>1, ChainTyped DEF PressReboot
<1>3. ASSUME NEW kind \in {"cmd", "loc"}, UsbSend(kind) PROVE UsbTypeOK' /\ UsbInv'
  <2>1. Len(queue) <= MaxQueue
    BY <1>3, UsbAssumption DEF UsbSend, UsbTypeOK
  <2>2. QED
    BY <1>3, <2>1, ChainTyped DEF UsbSend
<1>4. ASSUME UNCHANGED usbVars PROVE UsbTypeOK' /\ UsbInv'
  BY <1>4, UsbStays
<1>5. ASSUME NEW d \in {"right", "wrong"}, UsbUnplug(d) PROVE UsbTypeOK' /\ UsbInv'
  BY <1>5 DEF UsbUnplug, chainVars, boardVars, UsbTypeOK, UsbInv
<1>6. QED
  BY <1>1, <1>2, <1>3, <1>4, <1>5, ConnectingStep, ChainStep DEF UsbStep, UsbQuiet

-----------------------------------------------------------------------------
(* It keeps the contract                                                    *)

(* What the chain owes is what its list is owed.                            *)
LEMMA UsbOwedIs == UsbOwed = Cardinality(Owing(queue, {"cmd", "loc"}))
  BY DEF UsbOwed, Owing

(* It changes with the chain only.                                          *)
LEMMA OwedSame ==
  ASSUME UNCHANGED queue
  PROVE  UsbOwed' = UsbOwed
  BY DEF UsbOwed

(* It is a number.                                                          *)
LEMMA OwedNat == ASSUME UsbTypeOK PROVE UsbOwed \in Nat
  BY UsbOwedIs, OwingFinite DEF UsbTypeOK

(* A command or a location on the chain is owed one report more.            *)
LEMMA OwedChained ==
  ASSUME UsbTypeOK, NEW kind \in {"cmd", "loc", "reboot", "close"}, queue' = Append(queue, kind)
  PROVE  UsbOwed' = IF kind \in {"cmd", "loc"} THEN UsbOwed + 1 ELSE UsbOwed
<1>1. UsbOwed' = Cardinality(Owing(Append(queue, kind), {"cmd", "loc"}))
  BY DEF UsbOwed, Owing
<1>2. QED
  BY <1>1, UsbOwedIs, OwingAppend DEF UsbTypeOK

(* A command or a location that ends is owed one report less.               *)
LEMMA OwedEnds ==
  ASSUME UsbTypeOK, queue # <<>>, StepEnds
  PROVE  /\ UsbOwed' = IF Head(queue) \in {"cmd", "loc"} THEN UsbOwed - 1 ELSE UsbOwed
         /\ UsbOwed' \in Nat
<1>1. UsbOwed' = Cardinality(Owing(Tail(queue), {"cmd", "loc"}))
  BY DEF UsbOwed, Owing, StepEnds
<1>2. Tail(queue) \in Seq({"cmd", "loc", "reboot", "close"})
  BY DEF UsbTypeOK
<1>3. QED
  BY <1>1, <1>2, UsbOwedIs, OwingTail, OwingFinite DEF UsbTypeOK

(* Every step of the connection over the cable is one the contract allows,    *)
(* or none the page can see.                                                *)
LEMMA UsbKeeps ==
  ASSUME UsbTypeOK, UsbInv, UsbStep
  PROVE  UsbTransport!Next \/ UNCHANGED <<UsbPhase, UsbOwed>>
<1> DEFINE Goal == UsbTransport!Next \/ UNCHANGED <<UsbPhase, UsbOwed>>
<1>a. ASSUME UNCHANGED <<UsbPhase, UsbOwed>> PROVE Goal
  BY <1>a
<1>b. ASSUME UsbPhase = "idle", UsbPhase' = "connecting", UNCHANGED UsbOwed PROVE Goal
  BY <1>b DEF UsbTransport!Next, UsbTransport!Connect
<1>c. ASSUME UsbPhase = "connecting", UsbPhase' = "ready", UNCHANGED UsbOwed PROVE Goal
  BY <1>c DEF UsbTransport!Next, UsbTransport!Ready
<1>d. ASSUME UsbPhase # "idle", UsbPhase' = "idle", UNCHANGED UsbOwed PROVE Goal
  BY <1>d, OwedNat DEF UsbTransport!Next, UsbTransport!Close
<1>e. ASSUME UsbPhase = "ready", UsbPhase' = UsbPhase, UsbOwed' = UsbOwed + 1 PROVE Goal
  BY <1>e DEF UsbTransport!Next, UsbTransport!Send
<1>f. ASSUME UsbPhase' = UsbPhase, UsbOwed' = UsbOwed - 1, UsbOwed' \in Nat PROVE Goal
  BY <1>f, OwedNat DEF UsbTransport!Next, UsbTransport!Settle
<1> HIDE DEF Goal
<1>1. ASSUME UsbConnect PROVE Goal
  BY <1>1, <1>a, <1>b, OwedSame DEF UsbConnect, UsbPhase, UsbInv, usbVars, chainVars
<1>2. ASSUME UsbPick \/ AskVersion \/ VersionComes \/ VersionLate \/ AskAgain \/ AskKey
             \/ WrongKey \/ ConnectThrows \/ ConnectGivesUp
      PROVE  Goal
  <2>1. UNCHANGED queue
    BY <1>2 DEF UsbPick, AskVersion, VersionComes, VersionLate, AskAgain, AskKey, WrongKey,
                ConnectThrows, ConnectGivesUp, Opening, chainVars
  <2>2. UsbPhase' = UsbPhase
    BY <1>2 DEF UsbPick, AskVersion, VersionComes, VersionLate, AskAgain, AskKey, WrongKey,
                ConnectThrows, ConnectGivesUp, Opening, UsbPhase, UsbInv
  <2>3. QED
    BY <1>a, <2>1, <2>2, OwedSame
<1>3. ASSUME RightKey PROVE Goal
  BY <1>3, <1>c, OwedSame DEF RightKey, UsbPhase, UsbInv, chainVars
<1>4. ASSUME ConnectEnds PROVE Goal
  BY <1>4, <1>d, OwedSame DEF ConnectEnds, Opening, UsbPhase, UsbInv, chainVars
<1>5. ASSUME UsbDisconnect \/ PressReboot PROVE Goal
  <2>1. UsbOwed' = UsbOwed
    BY <1>5, OwedChained DEF UsbDisconnect, PressReboot, Chain
  <2>2. UsbPhase' = UsbPhase
    BY <1>5 DEF UsbDisconnect, PressReboot, Chain, UsbPhase
  <2>3. QED
    BY <1>a, <2>1, <2>2
<1>6. ASSUME NEW kind \in {"cmd", "loc"}, UsbSend(kind) PROVE Goal
  <2>1. UsbOwed' = UsbOwed + 1
    BY <1>6, OwedChained DEF UsbSend, Chain
  <2>2. UsbPhase' = UsbPhase /\ UsbPhase = "ready"
    BY <1>6 DEF UsbSend, UsbSends, Chain, UsbPhase
  <2>3. QED
    BY <1>e, <2>1, <2>2
<1>7. ASSUME StepSkipped \/ CommandReports \/ LocationReports PROVE Goal
  <2>1. queue # <<>> /\ StepEnds
    BY <1>7 DEF StepSkipped, CommandReports, LocationReports, Turn, UsbInv
  <2>2. UsbPhase' = UsbPhase
    BY <1>7 DEF StepSkipped, CommandReports, LocationReports, Rest, UsbPhase
  <2>3. QED
    BY <1>a, <1>f, <2>1, <2>2, OwedEnds
<1>8. ASSUME ChainClosed PROVE Goal
  <2>1. queue # <<>> /\ StepEnds /\ Head(queue) \in {"close", "reboot"}
    BY <1>8 DEF ChainClosed, Turn, UsbInv
  <2>2. UsbOwed' = UsbOwed
    BY <2>1, OwedEnds
  <2>3. UsbPhase' = UsbPhase \/ (UsbPhase # "idle" /\ UsbPhase' = "idle")
    BY <1>8 DEF ChainClosed, UsbPhase, UsbInv
  <2>4. QED
    BY <1>a, <1>d, <2>2, <2>3
<1>9. ASSUME \/ StartCommand \/ StartLocation \/ AskLongitude \/ PostLocation \/ ChainBreaks
             \/ StartReboot
      PROVE  Goal
  <2>1. UNCHANGED queue
    BY <1>9 DEF StartCommand, StartLocation, AskLongitude, PostLocation, ChainBreaks, StartReboot
  <2>2. UsbPhase' = UsbPhase
    BY <1>9 DEF StartCommand, StartLocation, AskLongitude, PostLocation, ChainBreaks, StartReboot,
                Rest, UsbPhase
  <2>3. QED
    BY <1>a, <2>1, <2>2, OwedSame
<1>10. ASSUME ChainCloses \/ RebootSent PROVE Goal
  <2>1. UNCHANGED queue
    BY <1>10 DEF ChainCloses, RebootSent
  <2>2. UsbPhase' = UsbPhase \/ (UsbPhase # "idle" /\ UsbPhase' = "idle")
    BY <1>10 DEF ChainCloses, CloseBegins, RebootSent, UsbPhase, UsbInv
  <2>3. QED
    BY <1>a, <1>d, <2>1, <2>2, OwedSame
<1>11. ASSUME NEW d \in {"right", "wrong"}, UsbUnplug(d) PROVE Goal
  BY <1>11, <1>a, OwedSame DEF UsbUnplug, UsbPhase, chainVars
<1>12. ASSUME UNCHANGED usbVars PROVE Goal
  BY <1>12, <1>a, OwedSame DEF usbVars, UsbPhase, chainVars
<1>13. Goal
  BY <1>1, <1>2, <1>3, <1>4, <1>5, <1>6, <1>7, <1>8, <1>9, <1>10, <1>11, <1>12
  DEF UsbStep, UsbQuiet, Connecting, Chained
<1>14. QED
  BY <1>13 DEF Goal

-----------------------------------------------------------------------------
(* The page's connections take turns, unless a close and a connect overlap. *)

OnlyReboots == \A i \in DOMAIN queue : queue[i] = "reboot"

UsbInOrder ==
    /\ usbReady => usbCli
    /\ usbCli => usbReady \/ usbOpening # "no"
    /\ usbOpening \in {"boot", "ver", "pause", "key", "sure"} => usbCli
    /\ usbOpening \in {"pick", "closing"} => ~usbCli
    /\ device = "wrong" => usbCli /\ usbOpening # "no"
    /\ usbOpening # "no" => step \in {"wait", "reboot"} /\ (broken \/ OnlyReboots)
    /\ step = "reboot" => usbReady \/ usbOpening # "no"
    /\ step \in {"cmd", "lat", "lon", "save"} => usbReady
    /\ heard \cap {"cmd", "lat", "lon"} = {}

BarInOrder ==
    /\ usbReady \/ usbOpening # "no" \/ step = "close" => chosen = "usb" /\ locked
    /\ ~AirIdle => chosen = "air" /\ locked /\ step = "wait" /\ (broken \/ queue = <<>>)

(* A close that ran beside a connect is not forgotten.                      *)
LEMMA OverlapStays ==
  ASSUME UsbStep, overlap
  PROVE  overlap'
<1>1. ASSUME UsbConnect \/ UsbDisconnect \/ PressReboot \/ RightKey \/ ConnectEnds \/ ChainClosed
             \/ (\E kind \in {"cmd", "loc"} : UsbSend(kind)) \/ UNCHANGED usbVars
      PROVE  overlap'
  BY <1>1, Zenon DEF UsbConnect, UsbDisconnect, PressReboot, RightKey, ConnectEnds, ChainClosed,
                     UsbSend, Chain, Opening, usbVars
<1>2. ASSUME UsbPick \/ Connecting \/ \E d \in {"right", "wrong"} : UsbUnplug(d) PROVE overlap'
  BY <1>2, Zenon DEF UsbPick, Connecting, AskVersion, VersionComes, VersionLate, AskAgain, AskKey,
                     WrongKey, ConnectThrows, ConnectGivesUp, UsbUnplug, Opening
<1>3. ASSUME Chained PROVE overlap'
  BY <1>3, Zenon DEF Chained, StepSkipped, StartCommand, CommandReports, StartLocation,
                     AskLongitude, PostLocation, LocationReports, ChainBreaks, ChainCloses,
                     CloseBegins, StartReboot, RebootSent, Rest
<1>4. QED
  BY <1>1, <1>2, <1>3, Zenon DEF UsbStep, UsbQuiet

(* The step under way is the chain's first.                                 *)
LEMMA HeadIs ==
  ASSUME UsbTypeOK, queue # <<>>
  PROVE  1 \in DOMAIN queue /\ Head(queue) = queue[1]
  BY DEF UsbTypeOK

(* A reboot behind reboots.                                                 *)
LEMMA RebootChained ==
  ASSUME UsbTypeOK, OnlyReboots, queue' = Append(queue, "reboot")
  PROVE  OnlyReboots'
<1>1. ASSUME NEW i \in DOMAIN queue' PROVE queue'[i] = "reboot"
  BY DEF UsbTypeOK, OnlyReboots
<1>2. QED
  BY <1>1 DEF OnlyReboots

(* A reboot that ends leaves reboots.                                       *)
LEMMA RebootsEnd ==
  ASSUME UsbTypeOK, OnlyReboots, queue # <<>>, queue' = Tail(queue)
  PROVE  OnlyReboots'
<1>1. ASSUME NEW i \in DOMAIN queue' PROVE queue'[i] = "reboot"
  <2>1. i + 1 \in DOMAIN queue /\ queue'[i] = queue[i + 1]
    BY DEF UsbTypeOK
  <2>2. QED
    BY <2>1 DEF OnlyReboots
<1>2. QED
  BY <1>1 DEF OnlyReboots

(* The connection over the cable stays in order: while it is opened, nothing  *)
(* but reboots is on the chain, so that a device that may be wrong is given   *)
(* no command.                                                              *)
LEMMA UsbOrderStep ==
  ASSUME UsbTypeOK, UsbInv, UsbInOrder, ~overlap', UsbStep
  PROVE  UsbInOrder'
<1> DEFINE Goal == UsbInOrder'
<1>0. /\ usbReady \in BOOLEAN /\ usbCli \in BOOLEAN /\ broken \in BOOLEAN
      /\ usbOpening # "no" => ~usbReady
      /\ step # "wait" => queue # <<>> /\ ~broken
  BY Zenon DEF UsbTypeOK, UsbInv
<1>n. ~overlap
  BY OverlapStays
<1>o. /\ usbReady => usbCli
      /\ usbCli => usbReady \/ usbOpening # "no"
      /\ usbOpening \in {"boot", "ver", "pause", "key", "sure"} => usbCli
      /\ usbOpening \in {"pick", "closing"} => ~usbCli
      /\ device = "wrong" => usbCli /\ usbOpening # "no"
      /\ usbOpening # "no" => step \in {"wait", "reboot"} /\ (broken \/ OnlyReboots)
      /\ step = "reboot" => usbReady \/ usbOpening # "no"
      /\ step \in {"cmd", "lat", "lon", "save"} => usbReady
      /\ heard \cap {"cmd", "lat", "lon"} = {}
  BY Zenon DEF UsbInOrder
<1>q. ASSUME NEW kind \in {"cmd", "loc", "close"}, Turn(kind) PROVE ~broken /\ ~OnlyReboots
  BY <1>q, HeadIs DEF Turn, OnlyReboots
<1>s. ASSUME UNCHANGED queue PROVE OnlyReboots' = OnlyReboots
  BY <1>s DEF OnlyReboots
<1>t. ASSUME UNCHANGED <<queue, step, broken, heard>>,
             usbReady' => usbCli',
             usbCli' => usbReady' \/ usbOpening' # "no",
             usbOpening' \in {"boot", "ver", "pause", "key", "sure"} => usbCli',
             usbOpening' \in {"pick", "closing"} => ~usbCli',
             device' = "wrong" => usbCli' /\ usbOpening' # "no",
             usbOpening' # "no" => step \in {"wait", "reboot"} /\ (broken \/ OnlyReboots),
             step = "reboot" => usbReady' \/ usbOpening' # "no",
             step \in {"cmd", "lat", "lon", "save"} => usbReady'
      PROVE  Goal
  BY <1>o, <1>s, <1>t DEF UsbInOrder
<1>u. ASSUME UNCHANGED usbVars PROVE Goal
  BY <1>o, <1>t, <1>u DEF usbVars, chainVars, boardVars
<1>1. ASSUME UsbConnect, ~TurnDue PROVE Goal
  <2>1. CASE ~usbReady /\ ~usbCli /\ usbOpening = "no"
    <3>1. /\ usbOpening' = "pick" /\ overlap' = (overlap \/ step = "close")
          /\ UNCHANGED <<usbReady, usbCli, queue, step, broken, device, heard>>
      BY <1>1, <2>1, Zenon DEF UsbConnect, chainVars, boardVars
    <3>2. step # "close"
      BY <3>1, Zenon
    <3>3. step = "wait"
      BY <1>o, <2>1, <3>2 DEF UsbTypeOK
    <3>4. broken \/ OnlyReboots
      BY <1>1, <3>3 DEF TurnDue, OnlyReboots
    <3>5. QED
      BY <1>o, <1>t, <2>1, <3>1, <3>3, <3>4
  <2>2. CASE ~(~usbReady /\ ~usbCli /\ usbOpening = "no")
    <3>1. UNCHANGED usbVars
      BY <1>1, <2>2, Zenon DEF UsbConnect
    <3>2. QED
      BY <1>u, <3>1
  <2>3. QED
    BY <2>1, <2>2
<1>2. ASSUME UsbDisconnect, usbReady PROVE Goal
  <2>1. UNCHANGED <<usbReady, usbCli, usbOpening, step, device, heard>>
    BY <1>2, Zenon DEF UsbDisconnect, Chain, boardVars
  <2>2. QED
    BY <1>0, <1>2, <1>o, <2>1 DEF UsbInOrder
<1>3. ASSUME PressReboot PROVE Goal
  <2>1. /\ queue' = Append(queue, "reboot")
        /\ UNCHANGED <<usbReady, usbCli, usbOpening, step, broken, device, heard>>
    BY <1>3, Zenon DEF PressReboot, Chain, boardVars
  <2>2. OnlyReboots => OnlyReboots'
    BY <2>1, RebootChained
  <2>3. QED
    BY <1>o, <2>1, <2>2 DEF UsbInOrder
<1>4. ASSUME RightKey PROVE Goal
  <2>1. /\ usbOpening = "sure" /\ device # "wrong" /\ usbReady' = TRUE /\ usbOpening' = "no"
        /\ UNCHANGED <<usbCli, queue, step, broken, device, heard>>
    BY <1>4, Zenon DEF RightKey, chainVars, boardVars
  <2>2. QED
    BY <1>o, <1>t, <2>1
<1>5. ASSUME ConnectEnds PROVE Goal
  <2>1. /\ usbOpening = "closing" /\ usbOpening' = "no" /\ step # "reboot"
        /\ UNCHANGED <<usbReady, usbCli, queue, step, broken, device, heard>>
    BY <1>5, Zenon DEF ConnectEnds, Opening, chainVars, boardVars
  <2>2. QED
    BY <1>0, <1>o, <1>t, <2>1
<1>6. ASSUME ChainClosed PROVE Goal
  <2>1. StepEnds /\ UNCHANGED <<usbCli, usbOpening, broken, device, heard>>
    BY <1>6, Zenon DEF ChainClosed, boardVars
  <2>2. usbReady' => usbReady
    BY <1>6, Zenon DEF ChainClosed
  <2>3. \/ step = "close" /\ UNCHANGED usbReady
        \/ Turn("close") /\ ~usbCli
    <3>1. CASE step = "reboot" /\ ~usbCli /\ overlap' = (overlap \/ usbOpening # "no")
      BY <1>o, <3>1
    <3>2. QED
      BY <1>6, <3>1, Zenon DEF ChainClosed
  <2>4. usbOpening = "no"
    BY <1>o, <1>q, <2>3
  <2>5. usbCli => usbReady'
    BY <1>o, <2>3, <2>4
  <2>6. QED
    BY <1>0, <1>o, <2>1, <2>2, <2>4, <2>5 DEF UsbInOrder, StepEnds
<1>7. ASSUME NEW kind \in {"cmd", "loc"}, UsbSend(kind) PROVE Goal
  <2>1. usbReady /\ UNCHANGED <<usbReady, usbCli, usbOpening, step, device, heard>>
    BY <1>7, Zenon DEF UsbSend, UsbSends, Chain, boardVars
  <2>2. QED
    BY <1>0, <1>o, <2>1 DEF UsbInOrder
<1>9. ASSUME UsbPick PROVE Goal
  <2>0. usbOpening = "pick"
    BY <1>9, Zenon DEF UsbPick
  <2>1. CASE Opening("failed") /\ UNCHANGED <<tries, boardVars>>
    BY <1>0, <1>o, <1>t, <2>0, <2>1 DEF Opening, chainVars, boardVars
  <2>2. CASE /\ usbCli' = TRUE /\ usbOpening' = "boot" /\ device' \in {"right", "wrong"}
             /\ UNCHANGED <<usbReady, tries, chainVars, heard, reboot, overlap>>
    BY <1>0, <1>o, <1>t, <2>0, <2>2 DEF chainVars
  <2>3. QED
    BY <1>9, <2>1, <2>2 DEF UsbPick
<1>10. ASSUME Connecting PROVE Goal
  <2>1. ASSUME usbOpening # "no", usbOpening' # "no",
               usbOpening \in {"boot", "ver", "pause", "key", "sure"},
               usbOpening' \in {"boot", "ver", "pause", "key", "sure", "failed"},
               UNCHANGED <<usbReady, usbCli, queue, step, broken, device>>,
               heard' \cap {"cmd", "lat", "lon"} = {}
        PROVE  Goal
    BY <1>o, <1>s, <2>1 DEF UsbInOrder
  <2>2. ASSUME AskVersion \/ AskKey PROVE Goal
    <3>1. /\ usbOpening \in {"boot", "key"} /\ usbOpening' \in {"ver", "sure"}
          /\ UNCHANGED <<usbReady, usbCli, queue, step, broken, device>>
      BY <2>2 DEF AskVersion, AskKey, Opening, GiveLine, chainVars
    <3>2. heard' \cap {"cmd", "lat", "lon"} = {}
      BY <1>o, <2>2 DEF AskVersion, AskKey, GiveLine
    <3>3. QED
      BY <2>1, <3>1, <3>2
  <2>3. ASSUME VersionComes \/ VersionLate \/ AskAgain \/ WrongKey \/ ConnectThrows PROVE Goal
    <3>1. /\ usbOpening \in {"boot", "ver", "pause", "key", "sure"}
          /\ usbOpening' \in {"boot", "pause", "key", "failed"}
          /\ UNCHANGED <<usbReady, usbCli, queue, step, broken, device, heard>>
      BY <2>3 DEF VersionComes, VersionLate, AskAgain, WrongKey, ConnectThrows, Opening,
                  chainVars, boardVars
    <3>2. QED
      BY <1>o, <2>1, <3>1
  <2>4. ASSUME ConnectGivesUp PROVE Goal
    <3>1. /\ usbOpening = "failed" /\ usbOpening' = "closing" /\ usbCli' = FALSE
          /\ usbReady' = FALSE /\ device' = "gone"
          /\ UNCHANGED <<queue, step, broken, heard>>
      BY <2>4, Zenon DEF ConnectGivesUp, chainVars
    <3>2. QED
      BY <1>o, <1>t, <3>1
  <2>5. QED
    BY <1>10, <2>2, <2>3, <2>4, Zenon DEF Connecting
<1>11. ASSUME Chained PROVE Goal
  <2>1. ASSUME StepSkipped \/ CommandReports \/ LocationReports PROVE Goal
    <3>1. /\ StepEnds
          /\ UNCHANGED <<usbReady, usbCli, usbOpening, broken, device, heard>>
      BY <2>1, Zenon DEF StepSkipped, CommandReports, LocationReports, Rest, boardVars
    <3>2. queue # <<>>
      BY <1>0, <2>1 DEF StepSkipped, CommandReports, LocationReports, Turn
    <3>3. OnlyReboots => OnlyReboots'
      BY <3>1, <3>2, RebootsEnd DEF StepEnds
    <3>4. QED
      BY <1>0, <1>o, <3>1, <3>3 DEF UsbInOrder, StepEnds
  <2>2. ASSUME StartCommand \/ StartLocation PROVE Goal
    <3>1. Turn("cmd") \/ Turn("loc")
      BY <2>2, Zenon DEF StartCommand, StartLocation
    <3>2. usbOpening = "no" /\ usbReady
      <4>1. ~broken /\ ~OnlyReboots /\ usbCli
        BY <1>q, <2>2, <3>1 DEF StartCommand, StartLocation, GiveLine
      <4>2. QED
        BY <1>o, <4>1
    <3>3. heard' = heard
      BY <1>o, <2>2, <3>2 DEF StartCommand, StartLocation, GiveLine
    <3>4. step' \in {"cmd", "lat"} /\ UNCHANGED <<usbReady, usbCli, usbOpening, broken, device>>
      BY <2>2 DEF StartCommand, StartLocation, GiveLine, Rest
    <3>5. QED
      BY <1>o, <3>2, <3>3, <3>4 DEF UsbInOrder
  <2>3. ASSUME AskLongitude \/ PostLocation PROVE Goal
    <3>1. step \in {"lat", "lon"} /\ step' \in {"lon", "save"} /\ device' = device
          /\ UNCHANGED <<usbReady, usbCli, usbOpening, broken>>
      BY <2>3 DEF AskLongitude, PostLocation, GiveLine, Rest, boardVars
    <3>2. usbOpening = "no" /\ usbReady
      BY <1>0, <1>o, <3>1
    <3>3. heard' = heard
      BY <1>o, <2>3, <3>2 DEF AskLongitude, PostLocation, GiveLine, boardVars
    <3>4. QED
      BY <1>o, <3>1, <3>2, <3>3 DEF UsbInOrder
  <2>4. ASSUME ChainBreaks PROVE Goal
    <3>1. /\ broken' = TRUE /\ step' = "wait"
          /\ UNCHANGED <<usbReady, usbCli, usbOpening, queue, device, heard>>
      BY <2>4, Zenon DEF ChainBreaks, boardVars
    <3>2. QED
      BY <1>o, <3>1 DEF UsbInOrder
  <2>5. ASSUME ChainCloses \/ RebootSent PROVE Goal
    <3>1. /\ usbCli' = FALSE /\ usbReady' = FALSE /\ device' = "gone" /\ step' = "close"
          /\ overlap' = (overlap \/ usbOpening # "no")
          /\ UNCHANGED <<usbOpening, broken, queue>>
      BY <2>5, Zenon DEF ChainCloses, CloseBegins, RebootSent
    <3>2. usbOpening = "no"
      BY <3>1, Zenon
    <3>3. heard' = heard
      BY <2>5, Zenon DEF ChainCloses, CloseBegins, RebootSent
    <3>4. QED
      BY <1>o, <3>1, <3>2, <3>3 DEF UsbInOrder
  <2>6. ASSUME StartReboot PROVE Goal
    <3>1. /\ ~broken /\ step = "wait" /\ step' = "reboot" /\ usbCli
          /\ UNCHANGED <<usbReady, usbCli, usbOpening, broken, device, queue>>
      BY <2>6 DEF StartReboot, GiveLine, Rest, Turn
    <3>2. heard' \cap {"cmd", "lat", "lon"} = {}
      BY <1>o, <2>6 DEF StartReboot, GiveLine
    <3>3. QED
      BY <1>o, <1>s, <3>1, <3>2 DEF UsbInOrder
  <2>7. QED
    BY <1>11, <2>1, <2>2, <2>3, <2>4, <2>5, <2>6, Zenon DEF Chained
<1>12. ASSUME NEW d \in {"right", "wrong"}, UsbUnplug(d) PROVE Goal
  BY <1>o, <1>t, <1>12 DEF UsbUnplug, chainVars
<1>13. QED
  BY <1>1, <1>2, <1>3, <1>4, <1>5, <1>6, <1>7, <1>u, <1>9, <1>10, <1>11, <1>12, Zenon
  DEF UsbStep, UsbQuiet

(* Only a connect makes the over-the-air connection busy, and only its end    *)
(* makes it idle.                                                           *)
LEMMA AirStaysIdle ==
  ASSUME AirTypeOK, AirInv, AirQuiet \/ AirSend \/ AirDisconnect
  PROVE  AirIdle' <=> AirIdle
<1> USE DEF AirIdle
<1>1. ASSUME AirSend \/ AirDisconnect PROVE AirIdle' <=> AirIdle
  BY <1>1, Zenon DEF AirSend, AirDisconnect, airVars
<1>2. ASSUME AirPortOpens PROVE AirIdle' <=> AirIdle
  BY <1>2 DEF AirPortOpens, AirInv
<1>3. ASSUME \/ AirPick \/ AirPortFails \/ WsOpens \/ WsCloses \/ ServerReports
             \/ ServerBytes \/ AirCancels \/ AirPortSteps \/ AirWriteEnds \/ AirPortTrouble
      PROVE  AirIdle' <=> AirIdle
  <2>1. UNCHANGED <<bridge, airConnecting, airReady>>
    BY <1>3 DEF AirPick, AirPortFails, WsOpens, WsCloses, ServerReports, ServerBytes, AirCancels,
                AirPortSteps, AirWriteEnds, AirPortTrouble, AirRest
  <2>2. QED
    BY <2>1, Zenon
<1>4. QED
  BY <1>1, <1>2, <1>3, Zenon DEF AirQuiet

(* What the bar and the connections are to one another, stated of the first  *)
(* and the second state separately.                                         *)
LEMMA BarOrderStep ==
  ASSUME AirTypeOK, AirInv, UsbTypeOK, UsbInv, UsbInOrder, BarInOrder, chosen \in {"usb", "air"},
         ~overlap', Next
  PROVE  BarInOrder'
<1> DEFINE Goal == BarInOrder'
           UsbBusy == usbReady \/ usbOpening # "no" \/ step = "close"
           Clear == step = "wait" /\ (broken \/ queue = <<>>)
<1>0. /\ usbReady \in BOOLEAN /\ usbCli \in BOOLEAN /\ broken \in BOOLEAN
      /\ usbOpening # "no" => ~usbReady
      /\ step # "wait" => queue # <<>> /\ ~broken
      /\ airReady => bridge
      /\ ws # "none" => bridge
      /\ airCleanup # "no" => ~AirIdle
  BY Zenon DEF UsbTypeOK, UsbInv, AirInv
<1>o. /\ usbReady => usbCli
      /\ usbCli => usbReady \/ usbOpening # "no"
      /\ usbOpening # "no" => step \in {"wait", "reboot"} /\ (broken \/ OnlyReboots)
      /\ step = "reboot" => usbReady \/ usbOpening # "no"
      /\ step \in {"cmd", "lat", "lon", "save"} => usbReady
  BY Zenon DEF UsbInOrder
<1>b. /\ UsbBusy => chosen = "usb" /\ locked
      /\ ~AirIdle => chosen = "air" /\ locked /\ Clear
  BY Zenon DEF BarInOrder
<1>q. ASSUME NEW kind \in {"cmd", "loc", "close"}, Turn(kind) PROVE ~Clear /\ ~OnlyReboots
  BY <1>q, HeadIs DEF Turn, OnlyReboots
<1>u. ASSUME UNCHANGED usbVars PROVE UsbBusy' = UsbBusy /\ Clear' = Clear
  BY <1>u DEF usbVars, chainVars
<1>v. ASSUME UNCHANGED airVars PROVE AirIdle' = AirIdle
  BY <1>v DEF airVars, AirIdle
<1>n. ~AirIdle <=> (airReady \/ bridge \/ airConnecting)
  BY DEF AirIdle
<1>g. ASSUME UsbBusy' => chosen' = "usb" /\ locked',
             ~AirIdle' => chosen' = "air" /\ locked' /\ Clear'
      PROVE  Goal
  BY <1>g, Zenon DEF BarInOrder
<1>r. AirIdle \/ ~UsbBusy
  BY <1>b
<1> HIDE DEF UsbBusy, Clear, Goal
(* A press that connects.                                                   *)
<1>1. ASSUME ~TurnDue, ConnectChosen, ~Ready(chosen), chosen' = chosen, locked' PROVE Goal
  <2>1. CASE chosen = "usb"
    <3>1. AirIdle' /\ AirIdle
      BY <1>1, <1>b, <1>v, <2>1 DEF ConnectChosen
    <3>2. QED
      BY <1>1, <1>g, <2>1, <3>1
  <2>2. CASE chosen # "usb"
    <3>1. ~UsbBusy /\ ~UsbBusy' /\ Clear' = Clear
      BY <1>1, <1>b, <1>u, <2>2 DEF ConnectChosen
    <3>2. Clear
      BY <1>0, <1>1, <1>o, <3>1 DEF TurnDue, Clear, UsbBusy, UsbTypeOK
    <3>3. QED
      BY <1>1, <1>g, <2>2, <3>1, <3>2
  <2>3. QED
    BY <2>1, <2>2
(* A press that puts a step on the chain, or sends over the air.            *)
<1>2. ASSUME NEW kind \in {"cmd", "loc"}, SendChosen(kind), UNCHANGED <<chosen, locked>> PROVE Goal
  <2>1. CASE chosen = "usb"
    <3>1. AirIdle' /\ AirIdle
      BY <1>2, <1>b, <1>v, <2>1 DEF SendChosen
    <3>2. UsbBusy' = UsbBusy
      <4>1. UNCHANGED <<usbReady, usbOpening, step>>
        BY <1>2, <2>1, Zenon DEF SendChosen, UsbSend, Chain
      <4>2. QED
        BY <4>1 DEF UsbBusy
    <3>3. QED
      BY <1>2, <1>b, <1>g, <3>1, <3>2
  <2>2. CASE chosen # "usb"
    <3>1. UsbBusy' = UsbBusy /\ Clear' = Clear /\ (AirIdle' <=> AirIdle)
      BY <1>2, <1>u, <2>2, AirStaysIdle, Zenon DEF SendChosen
    <3>2. QED
      BY <1>2, <1>b, <1>g, <3>1
  <2>3. QED
    BY <2>1, <2>2
<1>3. ASSUME DisconnectChosen, UNCHANGED <<chosen, locked>> PROVE Goal
  <2>1. CASE chosen = "usb"
    <3>1. AirIdle' /\ AirIdle
      BY <1>3, <1>b, <1>v, <2>1 DEF DisconnectChosen
    <3>2. UsbBusy' = UsbBusy
      <4>1. UNCHANGED <<usbReady, usbOpening, step>>
        BY <1>3, <2>1, Zenon DEF DisconnectChosen, UsbDisconnect, Chain
      <4>2. QED
        BY <4>1 DEF UsbBusy
    <3>3. QED
      BY <1>3, <1>b, <1>g, <3>1, <3>2
  <2>2. CASE chosen # "usb"
    <3>1. UsbBusy' = UsbBusy /\ Clear' = Clear /\ (AirIdle' <=> AirIdle)
      BY <1>3, <1>u, <2>2, AirStaysIdle, Zenon DEF DisconnectChosen
    <3>2. QED
      BY <1>3, <1>b, <1>g, <3>1
  <2>3. QED
    BY <2>1, <2>2
<1>4. ASSUME NEW t \in {"usb", "air"}, Use(t) PROVE Goal
  <2>1. ~UsbBusy /\ AirIdle
    BY <1>4, <1>b DEF Use
  <2>2. ~UsbBusy' /\ AirIdle'
    BY <1>4, <1>u, <1>v, <2>1 DEF Use
  <2>3. QED
    BY <1>g, <2>2
<1>5. ASSUME PressReboot, UNCHANGED <<airVars, barVars>> PROVE Goal
  <2>1. UsbBusy /\ UsbBusy' = UsbBusy
    BY <1>5, <1>o DEF PressReboot, Chain, UsbBusy
  <2>2. AirIdle'
    BY <1>5, <1>r, <1>v, <2>1
  <2>3. QED
    BY <1>5, <1>b, <1>g, <2>1, <2>2 DEF barVars
<1>6. ASSUME AirReadies PROVE Goal
  <2>1. ~AirIdle
    BY <1>0, <1>6, <1>n DEF AirReadies, ServerReady
  <2>2. chosen = "air" /\ Clear /\ ~UsbBusy
    BY <1>b, <1>r, <2>1
  <2>3. chosen' = "air" /\ Clear' /\ ~UsbBusy'
    BY <1>6, <1>u, <2>2 DEF AirReadies, HearReady
  <2>4. locked'
    BY <1>6, <2>3 DEF AirReadies, ServerReady, HearReady, Render, Ready
  <2>5. QED
    BY <1>g, <2>3, <2>4
<1>7. ASSUME UsbReadies PROVE Goal
  <2>1. UsbBusy
    BY <1>7 DEF UsbReadies, RightKey, UsbBusy
  <2>2. chosen' = "usb" /\ AirIdle'
    BY <1>7, <1>b, <1>r, <1>v, <2>1 DEF UsbReadies, HearReady
  <2>3. locked'
    BY <1>7, <2>2 DEF UsbReadies, RightKey, HearReady, Render, Ready
  <2>4. QED
    BY <1>g, <2>2, <2>3
<1>8. ASSUME AirFinish, UNCHANGED usbVars, HearClosed PROVE Goal
  <2>1. ~AirIdle
    BY <1>0, <1>8 DEF AirFinish
  <2>2. ~UsbBusy' /\ AirIdle'
    BY <1>8, <1>r, <1>u, <2>1 DEF AirFinish, AirIdle
  <2>3. QED
    BY <1>g, <2>2
<1>9. ASSUME ConnectEnds, UNCHANGED airVars, HearClosed PROVE Goal
  <2>1. UsbBusy
    BY <1>9 DEF ConnectEnds, UsbBusy
  <2>2. AirIdle'
    BY <1>9, <1>r, <1>v, <2>1
  <2>3. ~UsbBusy'
    BY <1>0, <1>9, <1>o DEF ConnectEnds, Opening, chainVars, UsbBusy
  <2>4. QED
    BY <1>g, <2>2, <2>3
<1>10. ASSUME ChainClosed, UNCHANGED airVars, HearClosed PROVE Goal
  <2>1. step' = "wait" /\ UNCHANGED <<usbCli, usbOpening>> /\ chosen' = chosen
    BY <1>10, Zenon DEF ChainClosed, StepEnds, HearClosed
  <2>2. CASE step = "close" /\ UNCHANGED usbReady
    <3>1. UsbBusy /\ usbOpening = "no"
      BY <1>o, <2>2 DEF UsbBusy
    <3>2. chosen' = "usb" /\ AirIdle'
      BY <1>10, <1>b, <1>r, <1>v, <2>1, <3>1
    <3>3. UsbBusy' => usbReady'
      BY <2>1, <3>1 DEF UsbBusy
    <3>4. usbReady' => locked'
      BY <1>10, <3>2, Zenon DEF HearClosed, Render, Ready
    <3>5. QED
      BY <1>g, <3>2, <3>3, <3>4
  <2>3. CASE Turn("close") /\ ~usbCli /\ usbReady' = FALSE
    <3>1. ~Clear /\ usbOpening = "no"
      BY <1>o, <1>q, <2>3 DEF Turn
    <3>2. AirIdle' /\ ~UsbBusy'
      BY <1>10, <1>b, <1>v, <2>1, <2>3, <3>1 DEF UsbBusy
    <3>3. QED
      BY <1>g, <3>2
  <2>4. CASE step = "reboot" /\ ~usbCli /\ overlap' = (overlap \/ usbOpening # "no")
    BY <1>o, <2>4
  <2>5. QED
    BY <1>10, <2>2, <2>3, <2>4, Zenon DEF ChainClosed
<1>11. ASSUME AirQuiet, UNCHANGED <<usbVars, chosen, locked>> PROVE Goal
  <2>1. UsbBusy' = UsbBusy /\ Clear' = Clear /\ (AirIdle' <=> AirIdle)
    BY <1>11, <1>u, AirStaysIdle, Zenon
  <2>2. QED
    BY <1>11, <1>b, <1>g, <2>1
<1>12. ASSUME UsbQuiet, UNCHANGED <<airVars, chosen, locked>> PROVE Goal
  <2>1. ASSUME UsbBusy PROVE Goal
    BY <1>12, <1>b, <1>g, <1>r, <1>v, <2>1
  <2>2. ASSUME ~UsbBusy PROVE Goal
    <3>1. usbOpening = "no" /\ ~usbReady /\ ~usbCli /\ step # "close"
      BY <1>o, <2>2 DEF UsbBusy
    <3>2. step = "wait"
      BY <1>o, <3>1 DEF UsbTypeOK
    <3>3. Chained
      BY <1>12, <3>1 DEF UsbQuiet, UsbPick, Connecting, AskVersion, VersionComes, VersionLate,
         AskAgain, AskKey, WrongKey, ConnectThrows, ConnectGivesUp, UsbUnplug
    <3>4. StepSkipped
      BY <3>1, <3>2, <3>3 DEF Chained, StartCommand, CommandReports, StartLocation, AskLongitude,
         PostLocation, LocationReports, ChainBreaks, ChainCloses, CloseBegins, StartReboot,
         RebootSent, GiveLine
    <3>5. ~Clear
      BY <3>4 DEF StepSkipped, Turn, Clear
    <3>6. ~UsbBusy' /\ AirIdle'
      BY <1>12, <1>b, <1>v, <3>1, <3>4, <3>5 DEF StepSkipped, StepEnds, Rest, UsbBusy
    <3>7. QED
      BY <1>g, <3>6
  <2>3. QED
    BY <2>1, <2>2
<1>13. ASSUME Page, ~TurnDue PROVE Goal
  <2>1. ASSUME ClickConnect PROVE Goal
    <3>1. ConnectChosen /\ ~Ready(chosen) /\ chosen' = chosen /\ busy' = TRUE /\ Render
      BY <2>1, Zenon DEF ClickConnect
    <3>2. locked'
      BY <3>1, Zenon DEF Render
    <3>3. QED
      BY <1>1, <1>13, <3>1, <3>2
  <2>2. ASSUME ClickDisconnect PROVE Goal
    BY <1>3, <2>2 DEF ClickDisconnect, barVars
  <2>3. ASSUME SendCommand PROVE Goal
    BY <1>2, <2>3 DEF SendCommand, barVars
  <2>4. ASSUME FetchLocation PROVE Goal
    <3>1. CASE SendChosen("loc") /\ UNCHANGED <<barVars, presses>>
      BY <1>2, <3>1 DEF barVars
    <3>2. CASE ~Ready(chosen) /\ busy' = TRUE /\ ConnectChosen /\ UNCHANGED chosen /\ Render
      <4>1. locked'
        BY <3>2, Zenon DEF Render
      <4>2. QED
        BY <1>1, <1>13, <3>2, <4>1
    <3>3. QED
      BY <2>4, <3>1, <3>2, Zenon DEF FetchLocation
  <2>5. QED
    BY <1>13, <1>4, <1>5, <2>1, <2>2, <2>3, <2>4 DEF Page
<1>14. ASSUME AskPending PROVE Goal
  <2>1. UNCHANGED <<chosen, locked>>
    BY <1>14 DEF AskPending
  <2>2. CASE SendChosen("loc")
    BY <1>2, <2>1, <2>2
  <2>3. CASE UNCHANGED <<airVars, usbVars>>
    BY <1>b, <1>g, <1>u, <1>v, <2>1, <2>3
  <2>4. QED
    BY <1>14, <2>2, <2>3, Zenon DEF AskPending
<1>15. Goal
  <2>1. ASSUME Closes PROVE Goal
    BY <1>8, <1>9, <1>10, <2>1, Zenon DEF Closes
  <2>2. ASSUME Quiet PROVE Goal
    <3>1. UNCHANGED <<chosen, locked>>
      BY <2>2 DEF Quiet, barVars
    <3>2. QED
      BY <1>11, <1>12, <2>2, <3>1 DEF Quiet
  <2>3. QED
    BY <1>6, <1>7, <1>13, <1>14, <2>1, <2>2, Zenon DEF Next
<1>16. QED
  BY <1>15 DEF Goal

-----------------------------------------------------------------------------
(* The Configure tab's specification *)

BarTypeOK ==
    /\ chosen \in {"usb", "air"} /\ busy \in BOOLEAN /\ locked \in BOOLEAN /\ blocked \in BOOLEAN
    /\ pendingLoc \in {"no", "later", "now"}
    /\ presses \in 0 .. MaxConnects

TabInv ==
    /\ AirTypeOK /\ AirInv
    /\ UsbTypeOK /\ UsbInv
    /\ BarTypeOK
    /\ ~overlap => UsbInOrder /\ BarInOrder

(* What the bar renders is a pair of Booleans.                              *)
LEMMA Rendered ==
  ASSUME Render, airReady' \in BOOLEAN, usbReady' \in BOOLEAN, busy' \in BOOLEAN
  PROVE  locked' \in BOOLEAN /\ blocked' \in BOOLEAN
<1>1. Ready(chosen)' \in BOOLEAN
  BY DEF Ready
<1>2. QED
  BY <1>1 DEF Render

(* The bar's types.                                                         *)
LEMMA BarTyped ==
  ASSUME BarTypeOK, airReady' \in BOOLEAN, usbReady' \in BOOLEAN, Next
  PROVE  BarTypeOK'
<1> USE DEF BarTypeOK, barVars
<1>a. ASSUME busy' \in BOOLEAN, pendingLoc' \in {"no", "later", "now"}, chosen' \in {"usb", "air"},
             presses' \in 0 .. MaxConnects, Render
      PROVE  BarTypeOK'
  BY <1>a, Rendered
<1>b. ASSUME UNCHANGED <<barVars, presses>> PROVE BarTypeOK'
  BY <1>b
<1>c. ASSUME presses < MaxConnects, presses' = presses + 1 PROVE presses' \in 0 .. MaxConnects
  BY <1>c, TabAssumption
<1>1. ASSUME ClickConnect PROVE BarTypeOK'
  <2>1. presses' \in 0 .. MaxConnects
    BY <1>1, <1>c DEF ClickConnect
  <2>2. busy' = TRUE /\ UNCHANGED <<chosen, pendingLoc>> /\ Render
    BY <1>1, Zenon DEF ClickConnect
  <2>3. QED
    BY <1>a, <2>1, <2>2
<1>2. ASSUME FetchLocation PROVE BarTypeOK'
  <2>1. CASE presses < MaxConnects /\ presses' = presses + 1 /\ pendingLoc' = "later"
             /\ busy' = TRUE /\ UNCHANGED chosen /\ Render
    <3>1. presses' \in 0 .. MaxConnects
      BY <1>c, <2>1
    <3>2. busy' = TRUE /\ UNCHANGED chosen /\ Render /\ pendingLoc' = "later"
      BY <2>1, Zenon
    <3>3. QED
      BY <1>a, <3>1, <3>2
  <2>2. QED
    BY <1>2, <1>b, <2>1, Zenon DEF FetchLocation
<1>3. ASSUME NEW t \in {"usb", "air"}, Use(t) PROVE BarTypeOK'
  BY <1>3, <1>a DEF Use
<1>4. ASSUME HearReady \/ HearClosed PROVE BarTypeOK'
  <2>1. busy' = FALSE /\ UNCHANGED <<chosen, presses>> /\ Render /\ pendingLoc' \in {"no", "now"}
    BY <1>4, Zenon DEF HearReady, HearClosed
  <2>2. QED
    BY <1>a, <2>1
<1>5. ASSUME AskPending PROVE BarTypeOK'
  <2>1. pendingLoc' = "no" /\ UNCHANGED <<chosen, busy, locked, blocked, presses>>
    BY <1>5, Zenon DEF AskPending
  <2>2. QED
    BY <2>1
<1>6. ASSUME \/ ClickDisconnect \/ SendCommand \/ UNCHANGED <<airVars, barVars, presses>> \/ Quiet
      PROVE  BarTypeOK'
  <2>1. UNCHANGED <<barVars, presses>>
    BY <1>6, Zenon DEF ClickDisconnect, SendCommand, Quiet
  <2>2. QED
    BY <1>b, <2>1
<1>7. QED
  BY <1>1, <1>2, <1>3, <1>4, <1>5, <1>6, Zenon DEF Next, Page, AirReadies, UsbReadies, Closes

(* The invariant holds of a page that was just loaded.                      *)
LEMMA TabInvInit == Init => TabInv
<1> SUFFICES ASSUME Init PROVE TabInv
  OBVIOUS
<1>1. AirTypeOK /\ AirInv
  <2>1. /\ ~bridge /\ ~airConnecting /\ ~airReady /\ ~opened /\ ~dtr /\ ~writing
        /\ bridge \in BOOLEAN /\ airConnecting \in BOOLEAN /\ airReady \in BOOLEAN
        /\ opened \in BOOLEAN /\ dtr \in BOOLEAN /\ writing \in BOOLEAN /\ plugged \in BOOLEAN
    BY Zenon DEF Init, AirInit, PortInit
  <2>2. /\ airOpening = "no" /\ airCleanup = "no" /\ ws = "none" /\ airOwed = 0
        /\ portPc = "none" /\ readable = "none" /\ writable = "none"
        /\ refused = {}
    BY Zenon DEF Init, AirInit, PortInit
  <2>3. airOwed \in 0 .. MaxOwed
    BY <2>2, AirAssumption
  <2>4. AirTypeOK
    BY <2>1, <2>2, <2>3 DEF AirTypeOK, PortTypeOK
  <2>5. AirInv
    BY <2>1, <2>2 DEF AirInv, PortInv
  <2>6. QED
    BY <2>4, <2>5
<1>a. /\ ~usbReady /\ ~usbCli /\ ~broken /\ usbReady \in BOOLEAN /\ usbCli \in BOOLEAN
      /\ broken \in BOOLEAN /\ overlap \in BOOLEAN
  BY Zenon DEF Init, UsbInit
<1>b. /\ usbOpening = "no" /\ tries = 0 /\ queue = <<>> /\ step = "wait" /\ device = "gone"
      /\ heard = {} /\ reboot = "hidden"
  BY Zenon DEF Init, UsbInit
<1>2. UsbTypeOK
  <2>1. tries \in 0 .. MaxTries /\ Len(queue) <= MaxQueue + 1
    BY <1>b, UsbAssumption
  <2>2. queue \in Seq({"cmd", "loc", "reboot", "close"})
    BY <1>b
  <2>3. QED
    BY <1>a, <1>b, <2>1, <2>2 DEF UsbTypeOK
<1>3. UsbInv
  BY <1>a, <1>b DEF UsbInv
<1>4. UsbInOrder
  BY <1>a, <1>b DEF UsbInOrder
<1>5. BarTypeOK
  <2>1. presses \in 0 .. MaxConnects
    BY TabAssumption DEF Init
  <2>2. busy \in BOOLEAN /\ locked \in BOOLEAN /\ blocked \in BOOLEAN
    BY Zenon DEF Init
  <2>3. chosen = "usb" /\ pendingLoc = "no"
    BY Zenon DEF Init
  <2>4. QED
    BY <2>1, <2>2, <2>3 DEF BarTypeOK
<1>6. BarInOrder
  BY DEF Init, AirInit, UsbInit, BarInOrder, AirIdle
<1>7. QED
  BY <1>1, <1>2, <1>3, <1>4, <1>5, <1>6 DEF TabInv

(* Every step of the page keeps it.                                         *)
LEMMA TabInvStep == TabInv /\ [Next]_vars => TabInv'
<1> SUFFICES ASSUME TabInv, [Next]_vars PROVE TabInv'
  OBVIOUS
<1>0. AirTypeOK /\ AirInv /\ UsbTypeOK /\ UsbInv /\ BarTypeOK
  BY Zenon DEF TabInv
<1>1. CASE Next
  <2>1. AirStep /\ UsbStep
    BY <1>1, StepsApart
  <2>2. AirTypeOK' /\ AirInv' /\ UsbTypeOK' /\ UsbInv'
    BY <1>0, <2>1, AirTyped, AirInvStep, UsbInvStep
  <2>3. BarTypeOK'
    <3>1. airReady' \in BOOLEAN /\ usbReady' \in BOOLEAN
      BY <2>2, Zenon DEF AirTypeOK, UsbTypeOK
    <3>2. QED
      BY <1>0, <1>1, <3>1, BarTyped
  <2>4. ASSUME ~overlap' PROVE UsbInOrder' /\ BarInOrder'
    <3>1. ~overlap
      BY <2>1, <2>4, OverlapStays
    <3>2. UsbInOrder /\ BarInOrder
      BY <3>1, Zenon DEF TabInv
    <3>3. UsbInOrder'
      BY <1>0, <2>1, <2>4, <3>2, UsbOrderStep
    <3>4. chosen \in {"usb", "air"}
      BY <1>0, Zenon DEF BarTypeOK
    <3>5. BarInOrder'
      BY <1>0, <1>1, <2>4, <3>2, <3>4, BarOrderStep
    <3>6. QED
      BY <3>3, <3>5
  <2>5. QED
    BY <2>2, <2>3, <2>4, Zenon DEF TabInv
<1>2. CASE UNCHANGED vars
  <2>1. AirStep /\ UsbStep /\ UNCHANGED <<airVars, usbVars, barVars, presses>>
    BY <1>2, Zenon DEF vars, AirStep, UsbStep
  <2>2. AirTypeOK' /\ AirInv' /\ UsbTypeOK' /\ UsbInv'
    BY <1>0, <2>1, AirTyped, AirInvStep, UsbInvStep
  <2>3. BarTypeOK'
    BY <1>0, <2>1 DEF BarTypeOK, barVars
  <2>4. overlap' = overlap /\ UsbInOrder' = UsbInOrder
    BY <2>1 DEF UsbInOrder, OnlyReboots, usbVars, chainVars, boardVars
  <2>5. BarInOrder' = BarInOrder
    <3>1. AirIdle' = AirIdle
      BY <2>1 DEF AirIdle, airVars
    <3>2. QED
      BY <2>1, <3>1 DEF BarInOrder, usbVars, chainVars, barVars
  <2>6. QED
    BY <2>2, <2>3, <2>4, <2>5, Zenon DEF TabInv
<1>3. QED
  BY <1>1, <1>2

(* The invariant of the two connections and their bar.                      *)
THEOREM TabInvHolds == Spec => []TabInv
  BY TabInvInit, TabInvStep, PTL DEF Spec

(* Every variable has its type; waitReady() asks at most MaxTries times, and  *)
(* the chain has room for one close beyond its bound.                       *)
THEOREM TabTypeCorrect == Spec => []TypeOK
<1>1. TabInv => TypeOK
  BY Zenon DEF TabInv, BarTypeOK, TypeOK
<1>2. QED
  BY <1>1, TabInvHolds, PTL

(* Unless a close and a connect overlapped, a device that is not the page's   *)
(* repeater is given no command (usb-console.js connect: the key is compared  *)
(* before anything is sent).                                                *)
THEOREM OnlyTheRightRepeaterHolds == Spec => []OnlyTheRightRepeater
<1>1. TabInv => OnlyTheRightRepeater
  BY Zenon DEF TabInv, UsbInOrder, OnlyTheRightRepeater
<1>2. QED
  BY <1>1, TabInvHolds, PTL

(* Unless a close and a connect overlapped, a connection that is not idle is   *)
(* the chosen one, and the choice is locked (configure.js render).          *)
THEOREM ChoiceLockedHolds == Spec => []ChoiceLocked
<1>1. TabInv => ChoiceLocked
  BY DEF TabInv, BarInOrder, ChoiceLocked, AirPhase, UsbPhase, AirIdle
<1>2. QED
  BY <1>1, TabInvHolds, PTL

(* An idle over-the-air connection has let its device go, however it ended    *)
(* (mesh-bridge.js cleanup, serial-port.js close).                          *)
THEOREM PortReleasedHolds == Spec => []PortReleased
<1>1. TabInv => PortReleased
  BY DEF TabInv, AirTypeOK, PortTypeOK, AirInv, PortInv, PortReleased, AirPhase
<1>2. QED
  BY <1>1, TabInvHolds, PTL

(* Both connections implement MeshTransport: idle, connecting and ready in     *)
(* that order, commands taken only when ready and settled at most once      *)
(* (air-console.js:1-20's interface, shared by usb-console.js).             *)
THEOREM KeepsTheContractHolds == Spec => KeepsTheContract
<1>1. Init => AirTransport!Init /\ UsbTransport!Init
  <2> SUFFICES ASSUME Init PROVE AirTransport!Init /\ UsbTransport!Init
    OBVIOUS
  <2>1. AirTransport!Init
    BY DEF Init, AirInit, AirTransport!Init, AirPhase, AirIdle
  <2>2. UsbPhase = "idle"
    BY DEF Init, UsbInit, UsbPhase
  <2>3. UsbOwed = 0
    <3>1. {i \in DOMAIN queue : queue[i] \in {"cmd", "loc"}} = {}
      BY DEF Init, UsbInit
    <3>2. QED
      BY <3>1, FS_EmptySet DEF UsbOwed
  <2>4. QED
    BY <2>1, <2>2, <2>3 DEF UsbTransport!Init
<1>2. TabInv /\ [Next]_vars => [AirTransport!Next]_<<AirPhase, airOwed>>
  <2> SUFFICES ASSUME TabInv, [Next]_vars PROVE AirTransport!Next \/ UNCHANGED <<AirPhase, airOwed>>
    OBVIOUS
  <2>1. AirStep
    BY StepsApart, Zenon DEF vars, AirStep
  <2>2. QED
    BY <2>1, AirKeeps, Zenon DEF TabInv
<1>3. TabInv /\ [Next]_vars => [UsbTransport!Next]_<<UsbPhase, UsbOwed>>
  <2> SUFFICES ASSUME TabInv, [Next]_vars PROVE UsbTransport!Next \/ UNCHANGED <<UsbPhase, UsbOwed>>
    OBVIOUS
  <2>1. UsbStep
    BY StepsApart, Zenon DEF vars, UsbStep
  <2>2. QED
    BY <2>1, UsbKeeps, Zenon DEF TabInv
<1>4. QED
  BY <1>1, <1>2, <1>3, TabInvHolds, PTL
  DEF Spec, KeepsTheContract, AirTransport!Spec, UsbTransport!Spec, AirTransport!vars,
      UsbTransport!vars

-----------------------------------------------------------------------------
(* The bar waits for nothing that is not under way.                         *)

(* A cli is one being checked or one in use; while a device is picked, or     *)
(* closed after a failure, there is none.                                   *)
CliInOrder ==
    /\ usbOpening \in {"pick", "closing"} => ~usbCli
    /\ usbCli => usbReady \/ usbOpening # "no"

(* A connection is being made, or given up.                                 *)
UnderWay == AirPhase = "connecting" \/ usbOpening # "no"

(* The bar says that it connects, and disables its button, no longer than a    *)
(* connection is being made or given up.                                    *)
BusyIsConnecting == busy \/ blocked => UnderWay

(* What every event keeps, also beside a close that overlaps.               *)
BusyInv == CliInOrder /\ (blocked => busy) /\ (busy => UnderWay)

(* The cli comes with its opening and goes with the connection.             *)
LEMMA CliStep ==
  ASSUME UsbTypeOK, CliInOrder, UsbStep
  PROVE  CliInOrder'
<1> USE DEF CliInOrder
<1>1. ASSUME UsbConnect PROVE CliInOrder'
  BY <1>1 DEF UsbConnect, usbVars
<1>2. ASSUME \/ UsbDisconnect \/ PressReboot \/ (\E kind \in {"cmd", "loc"} : UsbSend(kind))
             \/ UNCHANGED usbVars
      PROVE  CliInOrder'
  <2>1. usbOpening' = usbOpening /\ usbCli' = usbCli /\ usbReady' = usbReady
    BY <1>2, Zenon DEF UsbDisconnect, PressReboot, UsbSend, Chain, usbVars
  <2>2. QED
    BY <2>1
<1>3. ASSUME UsbPick \/ Connecting \/ RightKey \/ ConnectEnds PROVE CliInOrder'
  BY <1>3 DEF UsbPick, Connecting, AskVersion, VersionComes, VersionLate, AskAgain, AskKey,
              WrongKey, ConnectThrows, ConnectGivesUp, RightKey, ConnectEnds, Opening
<1>4. ASSUME ChainClosed \/ Chained \/ \E d \in {"right", "wrong"} : UsbUnplug(d)
      PROVE  CliInOrder'
  BY <1>4 DEF ChainClosed, Chained, StepSkipped, StartCommand, CommandReports, StartLocation,
              AskLongitude, PostLocation, LocationReports, ChainBreaks, ChainCloses, CloseBegins,
              StartReboot, RebootSent, UsbUnplug, Rest
<1>5. QED
  BY <1>1, <1>2, <1>3, <1>4, Zenon DEF UsbStep, UsbQuiet

(* A connection being made goes on being made until the bar is told.        *)
LEMMA UnderWayStays ==
  ASSUME UnderWay,
         UsbQuiet \/ UsbDisconnect \/ PressReboot \/ (\E kind \in {"cmd", "loc"} : UsbSend(kind))
            \/ UNCHANGED usbVars,
         AirQuiet \/ AirDisconnect \/ AirSend \/ UNCHANGED airVars
  PROVE  UnderWay'
<1>1. usbOpening # "no" => usbOpening' # "no"
  <2>1. ASSUME UsbPick \/ Connecting PROVE usbOpening' # "no"
    BY <2>1 DEF UsbPick, Connecting, AskVersion, VersionComes, VersionLate, AskAgain, AskKey,
                WrongKey, ConnectThrows, ConnectGivesUp, Opening
  <2>2. ASSUME \/ Chained \/ (\E d \in {"right", "wrong"} : UsbUnplug(d)) \/ UsbDisconnect
               \/ PressReboot \/ (\E kind \in {"cmd", "loc"} : UsbSend(kind)) \/ UNCHANGED usbVars
        PROVE  usbOpening' = usbOpening
    BY <2>2, Zenon DEF Chained, StepSkipped, StartCommand, CommandReports, StartLocation,
                       AskLongitude, PostLocation, LocationReports, ChainBreaks, ChainCloses,
                       CloseBegins, StartReboot, RebootSent, UsbUnplug, Rest, UsbDisconnect, PressReboot,
                       UsbSend, Chain, usbVars
  <2>3. QED
    BY <2>1, <2>2, Zenon DEF UsbQuiet
<1>2. AirPhase = "connecting" <=> ~airReady /\ ~AirIdle
  BY DEF AirPhase
<1>3. AirPhase' = "connecting" <=> ~airReady' /\ ~AirIdle'
  BY DEF AirPhase
<1>4. ASSUME ~airReady, ~AirIdle PROVE ~airReady' /\ ~AirIdle'
  <2>1. ASSUME AirPortOpens PROVE airReady' = airReady /\ bridge'
    BY <2>1 DEF AirPortOpens
  <2>2. ASSUME \/ AirPick \/ AirPortFails \/ WsOpens \/ WsCloses \/ ServerReports \/ ServerBytes
               \/ AirCancels \/ AirPortSteps \/ AirWriteEnds \/ AirPortTrouble
        PROVE  UNCHANGED <<airReady, bridge, airConnecting>>
    BY <2>2, Zenon DEF AirPick, AirPortFails, WsOpens, WsCloses, ServerReports, ServerBytes,
                       AirCancels, AirPortSteps, AirWriteEnds, AirPortTrouble, AirRest
  <2>3. ASSUME AirDisconnect \/ AirSend \/ UNCHANGED airVars
        PROVE  UNCHANGED <<airReady, bridge, airConnecting>>
    BY <2>3, Zenon DEF AirDisconnect, AirSend, airVars
  <2>4. CASE AirPortOpens
    BY <1>4, <2>1, <2>4 DEF AirIdle
  <2>5. CASE UNCHANGED <<airReady, bridge, airConnecting>>
    BY <1>4, <2>5 DEF AirIdle
  <2>6. AirPortOpens \/ UNCHANGED <<airReady, bridge, airConnecting>>
    BY <2>2, <2>3, Zenon DEF AirQuiet
  <2>7. QED
    BY <2>4, <2>5, <2>6
<1>5. QED
  BY <1>1, <1>2, <1>3, <1>4, Zenon DEF UnderWay

(* A connect that was asked for is under way, or was already.               *)
LEMMA ConnectUnderWay ==
  ASSUME CliInOrder, ~Ready(chosen), ConnectChosen
  PROVE  UnderWay'
<1>1. CASE chosen = "usb"
  <2>1. usbOpening' # "no"
    BY <1>1 DEF ConnectChosen, UsbConnect, usbVars, Ready, CliInOrder
  <2>2. QED
    BY <2>1 DEF UnderWay
<1>2. CASE chosen # "usb"
  <2>1. ~airReady /\ AirConnect
    BY <1>2 DEF ConnectChosen, Ready
  <2>2. ~airReady' /\ ~AirIdle'
    BY <2>1 DEF AirConnect, AirIdle, airVars
  <2>3. QED
    BY <2>2 DEF UnderWay, AirPhase
<1>3. QED
  BY <1>1, <1>2

(* The bar begins to wait with a connect and ends with an event; what comes in *)
(* between leaves the connection under way.                                 *)
LEMMA BusyStep ==
  ASSUME TabInv, BusyInv, [Next]_vars
  PROVE  BusyInv'
<1>1. UsbStep /\ UsbTypeOK
  BY StepsApart, Zenon DEF vars, UsbStep, TabInv
<1>2. CliInOrder'
  BY <1>1, CliStep, Zenon DEF BusyInv
<1>3. ASSUME Render PROVE blocked' => busy'
  BY <1>3, Zenon DEF Render
<1>4. ASSUME ~Ready(chosen), ConnectChosen, Render PROVE BusyInv'
  BY <1>2, <1>3, <1>4, ConnectUnderWay, Zenon DEF BusyInv
<1>5. ASSUME HearClosed \/ HearReady PROVE BusyInv'
  BY <1>2, <1>3, <1>5, Zenon DEF BusyInv, HearClosed, HearReady
<1>6. ASSUME busy' = busy, Render \/ blocked' = blocked,
             UsbQuiet \/ UsbDisconnect \/ PressReboot \/ UNCHANGED usbVars
                \/ (\E kind \in {"cmd", "loc"} : UsbSend(kind)),
             AirQuiet \/ AirDisconnect \/ AirSend \/ UNCHANGED airVars
      PROVE  BusyInv'
  <2>1. blocked' => busy'
    BY <1>3, <1>6, Zenon DEF BusyInv
  <2>2. UnderWay => UnderWay'
    BY <1>6, UnderWayStays
  <2>3. busy' => UnderWay'
    BY <1>6, <2>2, Zenon DEF BusyInv
  <2>4. QED
    BY <1>2, <2>1, <2>3, Zenon DEF BusyInv
<1>7. ASSUME AskPending PROVE BusyInv'
  BY <1>6, <1>7, Zenon DEF AskPending, SendChosen
<1>8. ASSUME ClickConnect PROVE BusyInv'
  BY <1>4, <1>8, Zenon DEF ClickConnect
<1>9. ASSUME FetchLocation PROVE BusyInv'
  <2>1. ASSUME SendChosen("loc"), UNCHANGED <<barVars, presses>> PROVE BusyInv'
    BY <1>6, <2>1, Zenon DEF SendChosen, barVars
  <2>2. QED
    BY <1>4, <1>9, <2>1, Zenon DEF FetchLocation
<1>10. ASSUME Page PROVE BusyInv'
  <2>1. ASSUME ClickDisconnect PROVE BusyInv'
    BY <1>6, <2>1, Zenon DEF ClickDisconnect, DisconnectChosen, barVars
  <2>2. ASSUME SendCommand PROVE BusyInv'
    BY <1>6, <2>2, Zenon DEF SendCommand, SendChosen, barVars
  <2>3. ASSUME NEW t \in {"usb", "air"}, Use(t) PROVE BusyInv'
    BY <1>6, <2>3, Zenon DEF Use
  <2>4. ASSUME PressReboot, UNCHANGED <<airVars, barVars, presses>> PROVE BusyInv'
    BY <1>6, <2>4, Zenon DEF barVars
  <2>5. QED
    BY <1>8, <1>9, <1>10, <2>1, <2>2, <2>3, <2>4, Zenon DEF Page
<1>11. ASSUME AirReadies \/ UsbReadies \/ Closes PROVE BusyInv'
  BY <1>5, <1>11, Zenon DEF AirReadies, UsbReadies, Closes
<1>12. ASSUME Quiet PROVE BusyInv'
  BY <1>6, <1>12, Zenon DEF Quiet, barVars
<1>13. ASSUME UNCHANGED vars PROVE BusyInv'
  BY <1>6, <1>13, Zenon DEF vars, barVars
<1>14. QED
  BY <1>7, <1>10, <1>11, <1>12, <1>13, Zenon DEF Next

(* Whenever the bar says that it connects, or keeps its button disabled, a     *)
(* connection is being made or given up, overlapping closes or not: no event *)
(* the bar waits for was lost (configure.js: busy ends with mesh:ready and  *)
(* mesh:closed only). That these come is RequestsSettle.                    *)
THEOREM BusyIsConnectingHolds == Spec => []BusyIsConnecting
<1>1. Init => BusyInv
  BY DEF Init, UsbInit, BusyInv, CliInOrder
<1>2. BusyInv => BusyIsConnecting
  BY Zenon DEF BusyInv, BusyIsConnecting
<1>3. QED
  BY <1>1, <1>2, BusyStep, TabInvHolds, PTL DEF Spec

-----------------------------------------------------------------------------
Request == [of : Profiles, via : {"usb", "air"}]

Other == {Typed, Location}

OthersSent == Cardinality(Owing(sent, Other))

PanelInv ==
    /\ Len(sent) + (IF running /\ at = <<>> THEN 1 ELSE 0) <= MaxSent + runs
    /\ OthersSent <= MaxSent /\ Len(loads) + OthersSent <= MaxLoads + MaxSent
    /\ shown \/ running => rows # NoRows
    /\ ~stray => sent = <<>> \/ (at # <<>> /\ sent = <<at>>)
    /\ running /\ ~reloaded =>
          /\ \A i \in todo : <<rows.of, i>> \in given
          /\ \A j \in 1 .. N : <<rows.of, j>> \in given => mark[j] # "fail"

(* A line of the list is neither what is typed nor the location, nor nothing.  *)
LEMMA LinesAreOthers ==
  ASSUME NEW line \in Line
  PROVE  line \notin Other /\ line # <<>>
  BY PanelAssumption DEF Line, Other, Typed, Location

(* What the page waits for is a natural number.                             *)
LEMMA OthersCounted ==
  ASSUME PanelTypeOK
  PROVE  OthersSent \in Nat /\ OthersSent <= Len(sent) /\ Len(sent) \in Nat /\ Len(loads) \in Nat
<1>1. sent \in Seq(Line \cup {Typed, Location})
  BY DEF PanelTypeOK
<1>2. Len(sent) \in Nat /\ Len(loads) \in Nat
  BY DEF PanelTypeOK
<1>3. QED
  BY <1>1, <1>2, OwingFinite DEF OthersSent

(* A request is added to those under way.                                   *)
LEMMA Loading ==
  ASSUME PanelTypeOK, NEW c \in Profiles, NEW v \in {"usb", "air"}, Load(c, v)
  PROVE  loads' \in Seq(Request) /\ Len(loads') = Len(loads) + 1
<1>1. [of |-> c, via |-> v] \in Request
  BY DEF Request
<1>2. QED
  BY <1>1, Appended DEF PanelTypeOK, Load, Request

(* A list is asked for, while few are.                                      *)
LEMMA ListStep ==
  ASSUME PanelTypeOK, PanelInv, NEW c \in Profiles, NEW v \in {"usb", "air"}, Load(c, v), FewLoads,
         picked' \in Profiles, via' \in {"usb", "air"},
         UNCHANGED <<linkVars, rows, shown, mark, marking, runVars, reloaded, stray>>
  PROVE  PanelTypeOK' /\ PanelInv'
<1>1. UNCHANGED <<phase, sent, rows, shown, mark, marking, running, todo, at, runs, given,
                  reloaded, stray>>
  BY Zenon DEF linkVars, runVars
<1>2. loads' \in Seq(Request) /\ Len(loads') = Len(loads) + 1
  BY Loading
<1>3. OthersSent' = OthersSent /\ OthersSent <= MaxSent
  BY <1>1 DEF OthersSent, PanelInv
<1>4. Len(loads') <= MaxLoads + MaxSent /\ Len(loads') + OthersSent <= MaxLoads + MaxSent
  BY <1>2, <1>3, OthersCounted, PanelAssumption DEF FewLoads
<1>5. PanelTypeOK'
  BY <1>1, <1>2, <1>4 DEF PanelTypeOK, Request
<1>6. PanelInv'
  BY <1>1, <1>3, <1>4 DEF PanelInv
<1>7. QED
  BY <1>5, <1>6

(* An answer to it, or none: the rows are replaced, or leave the page.        *)
LEMMA LoadedStep ==
  ASSUME PanelTypeOK, PanelInv, NEW k \in DOMAIN loads, Loaded(k) \/ LoadFails(k)
  PROVE  PanelTypeOK' /\ PanelInv'
<1>1. UNCHANGED <<phase, sent, via, running, todo, at, runs, given, stray>>
  BY Zenon DEF Loaded, LoadFails, linkVars, runVars
<1>2. loads' \in Seq(Request) /\ Len(loads') = Len(loads) - 1 /\ loads[k] \in Request
  <2>1. loads \in Seq(Request)
    BY DEF PanelTypeOK, Request
  <2>2. loads' = RemoveAt(loads, k)
    BY Zenon DEF Loaded, LoadFails
  <2>3. QED
    BY <2>1, <2>2, Removed
<1>3. OthersSent' = OthersSent /\ OthersSent <= MaxSent
  BY <1>1 DEF OthersSent, PanelInv
<1>4. Len(loads') <= MaxLoads + MaxSent /\ Len(loads') + OthersSent <= MaxLoads + MaxSent
  BY <1>2, <1>3, OthersCounted, PanelAssumption DEF PanelTypeOK, PanelInv
<1>5. marking' = 0 /\ 0 \in 0 .. N
  BY PanelAssumption DEF Loaded, LoadFails
<1>6. CASE Loaded(k)
  <2>1. /\ picked' = loads[k].of /\ rows' = loads[k] /\ shown' = TRUE /\ mark' = Blank
        /\ reloaded' = (reloaded \/ running)
    BY <1>6, Zenon DEF Loaded
  <2>2. picked' \in Profiles /\ rows' \in Request
    BY <1>2, <2>1 DEF Request
  <2>3. rows' # NoRows
    BY <2>2 DEF Request, NoRows
  <2>4. reloaded' \in BOOLEAN /\ (running => reloaded')
    BY <2>1, Zenon DEF PanelTypeOK
  <2>5. mark' \in [1 .. N -> {"idle", "running", "ok", "fail"}]
    BY <2>1 DEF Blank
  <2>6. PanelTypeOK'
    BY <1>1, <1>2, <1>4, <1>5, <2>1, <2>2, <2>4, <2>5 DEF PanelTypeOK, Request
  <2>7. PanelInv'
    BY <1>1, <1>3, <1>4, <2>3, <2>4 DEF PanelInv
  <2>8. QED
    BY <2>6, <2>7
<1>7. CASE LoadFails(k)
  <2>1. shown' = FALSE /\ UNCHANGED <<picked, rows, mark, reloaded>>
    BY <1>7, Zenon DEF LoadFails
  <2>2. PanelTypeOK'
    BY <1>1, <1>2, <1>4, <1>5, <2>1 DEF PanelTypeOK, Request
  <2>3. PanelInv'
    BY <1>1, <1>3, <1>4, <2>1 DEF PanelInv
  <2>4. QED
    BY <2>2, <2>3
<1>8. QED
  BY <1>6, <1>7

(* The connection opens, closes, or is sent something else.                 *)
LEMMA LinkStep ==
  ASSUME PanelTypeOK, PanelInv, ListKept,
         \/ LinkOpens \/ LinkCloses
         \/ ~GoesOn /\ (SendOther(Typed) \/ SendOther(Location))
  PROVE  PanelTypeOK' /\ PanelInv'
<1>1. UNCHANGED <<via, picked, loads, rows, shown, mark, marking, running, todo, at, runs,
                  given, reloaded>>
  BY Zenon DEF ListKept, listVars, runVars
<1>2. phase' \in {"idle", "connecting", "ready"}
  BY DEF PanelTypeOK, LinkOpens, LinkCloses, SendOther, Link!Connect, Link!Ready, Link!Close,
         Link!Send
<1>3. ASSUME sent' \in Seq(Line \cup {Typed, Location}), stray' \in BOOLEAN, OthersSent' <= MaxSent,
             Len(sent') + (IF running /\ at = <<>> THEN 1 ELSE 0) <= MaxSent + runs,
             Len(sent') <= MaxSent + MaxRuns,
             Len(loads) + OthersSent' <= MaxLoads + MaxSent,
             ~stray' => sent' = <<>> \/ (at # <<>> /\ sent' = <<at>>)
      PROVE  PanelTypeOK' /\ PanelInv'
  <2>1. PanelTypeOK'
    BY <1>1, <1>2, <1>3 DEF PanelTypeOK
  <2>2. PanelInv'
    BY <1>1, <1>3 DEF PanelInv
  <2>3. QED
    BY <2>1, <2>2
<1>4. ASSUME sent' = sent, stray' = stray PROVE PanelTypeOK' /\ PanelInv'
  <2>1. OthersSent' = OthersSent
    BY <1>4 DEF OthersSent
  <2>2. QED
    BY <1>3, <1>4, <2>1 DEF PanelTypeOK, PanelInv
<1>5. ASSUME sent' = <<>>, stray' = stray PROVE PanelTypeOK' /\ PanelInv'
  <2>1. sent' \in Seq(Line \cup {Typed, Location}) /\ Len(sent') = 0
    BY <1>5
  <2>2. OthersSent' = 0
    <3>1. Owing(sent', Other) = {}
      BY <1>5 DEF Owing
    <3>2. QED
      BY <3>1, FS_EmptySet DEF OthersSent
  <2>3. /\ Len(sent') + (IF running /\ at = <<>> THEN 1 ELSE 0) <= MaxSent + runs
        /\ Len(sent') <= MaxSent + MaxRuns /\ OthersSent' <= MaxSent
        /\ Len(loads) + OthersSent' <= MaxLoads + MaxSent
    BY <2>1, <2>2, OthersCounted, PanelAssumption DEF PanelTypeOK, PanelInv
  <2>4. QED
    BY <1>3, <1>5, <2>1, <2>3 DEF PanelTypeOK
<1>6. ASSUME ~GoesOn, NEW what \in Other, SendOther(what) PROVE PanelTypeOK' /\ PanelInv'
  <2>1. sent' = Append(sent, what) /\ stray' = TRUE /\ Len(sent) < MaxSent /\ FewLoads
    BY <1>6, Zenon DEF SendOther
  <2>2. sent' \in Seq(Line \cup {Typed, Location}) /\ Len(sent') = Len(sent) + 1
    BY <2>1, Appended DEF PanelTypeOK, Other
  <2>3. OthersSent' <= MaxSent /\ Len(loads) + OthersSent' <= MaxLoads + MaxSent
    <3>1. OthersSent' = OthersSent + 1
      BY <2>1, OwingAppend DEF OthersSent, PanelTypeOK, Other
    <3>2. QED
      BY <2>1, <3>1, OthersCounted, PanelAssumption DEF FewLoads
  <2>4. ~(running /\ at = <<>>)
    BY <1>6, Zenon DEF GoesOn
  <2>5. /\ Len(sent') + (IF running /\ at = <<>> THEN 1 ELSE 0) <= MaxSent + runs
        /\ Len(sent') <= MaxSent + MaxRuns
    BY <2>1, <2>2, <2>4, OthersCounted, PanelAssumption DEF PanelTypeOK
  <2>6. QED
    BY <1>3, <2>1, <2>2, <2>3, <2>5
<1>7. QED
  BY <1>4, <1>5, <1>6 DEF LinkOpens, LinkCloses, Other

(* A run is started with runnable rows, their marks cleared.                *)
LEMMA RunStep ==
  ASSUME PanelTypeOK, PanelInv, NEW indices, indices \subseteq 1 .. N, rows # NoRows,
         RunLines(indices)
  PROVE  PanelTypeOK' /\ PanelInv'
<1>1. /\ ~running /\ running' = TRUE /\ todo' = indices /\ at' = <<>> /\ marking' = 0
      /\ reloaded' = FALSE
      /\ UNCHANGED <<phase, sent, via, picked, loads, rows, shown, stray>>
  BY Zenon DEF RunLines, linkVars, listVars
<1>2. runs' = runs + 1 /\ runs' \in 0 .. MaxRuns
  BY PanelAssumption DEF RunLines, PanelTypeOK
<1>3. given' = {<<rows.of, i>> : i \in indices}
      /\ mark' = [i \in 1 .. N |-> IF i \in indices THEN "idle" ELSE mark[i]]
  BY Zenon DEF RunLines
<1>4. rows.of \in Profiles
  BY DEF PanelTypeOK
<1>5. given' \subseteq Line /\ mark' \in [1 .. N -> {"idle", "running", "ok", "fail"}]
  BY <1>3, <1>4 DEF PanelTypeOK, Line
<1>6. 0 \in 0 .. N
  BY PanelAssumption
<1>7. PanelTypeOK'
  BY <1>1, <1>2, <1>5, <1>6 DEF PanelTypeOK
<1>8. Len(sent') + (IF running' /\ at' = <<>> THEN 1 ELSE 0) <= MaxSent + runs'
  BY <1>1, <1>2, OthersCounted, PanelAssumption DEF PanelTypeOK, PanelInv
<1>9. OthersSent' = OthersSent
  BY <1>1 DEF OthersSent
<1>10. \A i \in todo' : <<rows'.of, i>> \in given'
  BY <1>1, <1>3
<1>11. ASSUME NEW j \in 1 .. N, <<rows'.of, j>> \in given' PROVE mark'[j] # "fail"
  <2>1. j \in indices
    BY <1>1, <1>3, <1>11
  <2>2. QED
    BY <1>3, <2>1
<1>12. ~stray' => sent' = <<>> \/ (at' # <<>> /\ sent' = <<at'>>)
  <2>1. at = <<>>
    BY <1>1 DEF PanelTypeOK
  <2>2. QED
    BY <1>1, <2>1 DEF PanelInv
<1>13. PanelInv'
  BY <1>1, <1>8, <1>9, <1>10, <1>11, <1>12 DEF PanelInv
<1>14. QED
  BY <1>7, <1>13

(* What a result does to the run: it goes on, or ends.                      *)
LEMMA ResultIs ==
  ASSUME PanelTypeOK, PanelInv, NEW ok \in BOOLEAN, Result(ok), at # <<>>,
         UNCHANGED <<rows, reloaded>>
  PROVE  /\ at' = <<>> /\ marking' = 0 /\ UNCHANGED <<runs, given>>
         /\ running' = ok /\ todo' \subseteq todo
         /\ mark' \in [1 .. N -> {"idle", "running", "ok", "fail"}]
         /\ running' /\ ~reloaded' =>
              /\ \A i \in todo' : <<rows'.of, i>> \in given'
              /\ \A j \in 1 .. N : <<rows'.of, j>> \in given' => mark'[j] # "fail"
<1>0. running = TRUE
  BY DEF PanelTypeOK
<1>1. /\ at' = <<>> /\ marking' = 0 /\ UNCHANGED <<runs, given>>
      /\ mark' = IF marking = 0 THEN mark ELSE Mark(marking, IF ok THEN "ok" ELSE "fail")
  BY Zenon DEF Result, EndRun
<1>2. mark' \in [1 .. N -> {"idle", "running", "ok", "fail"}]
  BY <1>1 DEF PanelTypeOK, Mark
<1>3. CASE ok
  <2>1. running' = TRUE /\ todo' = todo
    BY <1>0, <1>3, Zenon DEF Result
  <2>2. ASSUME NEW j \in 1 .. N, mark[j] # "fail" PROVE mark'[j] # "fail"
    BY <1>1, <1>3, <2>2 DEF PanelTypeOK, Mark
  <2>3. ASSUME ~reloaded PROVE /\ \A i \in todo' : <<rows'.of, i>> \in given'
                               /\ \A j \in 1 .. N : <<rows'.of, j>> \in given' => mark'[j] # "fail"
    BY <1>0, <1>1, <2>1, <2>2, <2>3 DEF PanelInv
  <2>4. running' = ok
    BY <1>3, <2>1
  <2>5. QED
    BY <1>1, <1>2, <2>1, <2>3, <2>4
<1>4. CASE ~ok
  <2>1. running' = FALSE /\ todo' = {}
    BY <1>4, Zenon DEF Result, EndRun
  <2>2. running' = ok
    BY <1>4, <2>1
  <2>3. QED
    BY <1>1, <1>2, <2>1, <2>2
<1>5. QED
  BY <1>3, <1>4

(* A wait is given up: from now on replies and rows may part.                *)
LEMMA GiveUpStep ==
  ASSUME PanelTypeOK, PanelInv, at # <<>>, GivesUp
  PROVE  PanelTypeOK' /\ PanelInv'
<1>1. /\ at # <<>> /\ Result(FALSE) /\ stray' = TRUE
      /\ UNCHANGED <<phase, sent, via, picked, loads, rows, shown, reloaded>>
  BY Zenon DEF GivesUp, linkVars, listVars
<1>2. /\ at' = <<>> /\ marking' = 0 /\ UNCHANGED <<runs, given>>
      /\ running' = FALSE /\ todo' \subseteq todo
      /\ mark' \in [1 .. N -> {"idle", "running", "ok", "fail"}]
  BY <1>1, ResultIs
<1>3. 0 \in 0 .. N
  BY PanelAssumption
<1>4. PanelTypeOK'
  BY <1>1, <1>2, <1>3 DEF PanelTypeOK
<1>5. Len(sent') + (IF running' /\ at' = <<>> THEN 1 ELSE 0) <= MaxSent + runs'
  <2>1. Len(sent) <= MaxSent + runs
    BY OthersCounted, PanelAssumption DEF PanelTypeOK, PanelInv
  <2>2. QED
    BY <1>1, <1>2, <2>1
<1>6. OthersSent' = OthersSent
  BY <1>1 DEF OthersSent
<1>7. PanelInv'
  BY <1>1, <1>2, <1>5, <1>6 DEF PanelInv
<1>8. QED
  BY <1>4, <1>7

(* A run is over.                                                           *)
LEMMA RunOutStep ==
  ASSUME PanelTypeOK, PanelInv, RunOut
  PROVE  PanelTypeOK' /\ PanelInv'
<1>1. /\ at = <<>> /\ at' = <<>> /\ running' = FALSE /\ todo' = {}
      /\ UNCHANGED <<phase, sent, via, picked, loads, rows, shown, mark, marking, runs, given,
                     reloaded, stray>>
  BY Zenon DEF RunOut, EndRun, linkVars, listVars
<1>2. PanelTypeOK'
  BY <1>1 DEF PanelTypeOK
<1>3. Len(sent') + (IF running' /\ at' = <<>> THEN 1 ELSE 0) <= MaxSent + runs'
  <2>1. Len(sent) <= MaxSent + runs
    BY OthersCounted, PanelAssumption DEF PanelTypeOK, PanelInv
  <2>2. QED
    BY <1>1, <2>1
<1>4. OthersSent' = OthersSent
  BY <1>1 DEF OthersSent
<1>5. PanelInv'
  BY <1>1, <1>3, <1>4 DEF PanelInv
<1>6. QED
  BY <1>2, <1>5

(* The run's next line is sent; the run waits for it.                       *)
LEMMA NextLineStep ==
  ASSUME PanelTypeOK, PanelInv, NextLine
  PROVE  PanelTypeOK' /\ PanelInv'
<1>1. PICK i \in todo :
        \/ /\ todo' = todo \ {i}
           /\ UNCHANGED <<linkVars, mark, marking, running, at, runs, given>>
        \/ EndRun /\ mark' = Mark(i, "fail") /\ marking' = 0 /\ UNCHANGED linkVars
        \/ /\ at' = <<rows.of, i>> /\ sent' = Append(sent, at') /\ Link!Send
           /\ todo' = todo \ {i}
           /\ mark' = Mark(i, "running") /\ marking' = i
           /\ UNCHANGED <<running, runs, given>>
  BY Zenon DEF NextLine
<1>2. /\ running = TRUE /\ at = <<>>
      /\ UNCHANGED <<via, picked, loads, rows, shown, reloaded, stray>>
  BY Zenon DEF NextLine, listVars, PanelTypeOK
<1>3. i \in 1 .. N /\ rows # NoRows /\ rows.of \in Profiles /\ <<rows.of, i>> \in Line
  BY <1>2 DEF PanelTypeOK, PanelInv, Line
<1>4. Len(sent) + 1 <= MaxSent + runs
  BY <1>2 DEF PanelInv
<1>5. CASE todo' = todo \ {i} /\ UNCHANGED <<linkVars, mark, marking, running, at, runs, given>>
  <2>1. UNCHANGED <<phase, sent, mark, marking, running, at, runs, given>>
    BY <1>5, Zenon DEF linkVars
  <2>2. PanelTypeOK'
    BY <1>2, <1>5, <2>1 DEF PanelTypeOK
  <2>3. OthersSent' = OthersSent
    BY <2>1 DEF OthersSent
  <2>4. PanelInv'
    BY <1>2, <1>5, <2>1, <2>3 DEF PanelInv
  <2>5. QED
    BY <2>2, <2>4
<1>6. CASE EndRun /\ mark' = Mark(i, "fail") /\ marking' = 0 /\ UNCHANGED linkVars
  <2>1. /\ UNCHANGED <<phase, sent, runs, given>> /\ running' = FALSE /\ todo' = {} /\ at' = <<>>
    BY <1>6, Zenon DEF linkVars, EndRun
  <2>2. mark' \in [1 .. N -> {"idle", "running", "ok", "fail"}] /\ marking' \in 0 .. N
    BY <1>3, <1>6, PanelAssumption DEF PanelTypeOK, Mark
  <2>3. PanelTypeOK'
    BY <1>2, <2>1, <2>2 DEF PanelTypeOK
  <2>4. OthersSent' = OthersSent
    BY <2>1 DEF OthersSent
  <2>5. Len(sent') + (IF running' /\ at' = <<>> THEN 1 ELSE 0) <= MaxSent + runs'
    BY <1>4, <2>1, OthersCounted, PanelAssumption DEF PanelTypeOK
  <2>6. PanelInv'
    BY <1>2, <2>1, <2>4, <2>5 DEF PanelInv
  <2>7. QED
    BY <2>3, <2>6
<1>7. CASE /\ at' = <<rows.of, i>> /\ sent' = Append(sent, at') /\ Link!Send
           /\ todo' = todo \ {i}
           /\ mark' = Mark(i, "running") /\ marking' = i
           /\ UNCHANGED <<running, runs, given>>
  <2>1. /\ at' \in Line /\ at' # <<>> /\ at' \notin Other
        /\ at' \in Line \cup {Typed, Location}
    BY <1>3, <1>7, LinesAreOthers
  <2>2. sent' \in Seq(Line \cup {Typed, Location}) /\ Len(sent') = Len(sent) + 1
    BY <1>7, <2>1, Appended DEF PanelTypeOK
  <2>3. mark' \in [1 .. N -> {"idle", "running", "ok", "fail"}] /\ marking' \in 0 .. N
        /\ \A j \in 1 .. N : mark[j] # "fail" => mark'[j] # "fail"
    BY <1>3, <1>7, PanelAssumption DEF PanelTypeOK, Mark
  <2>4. phase' = phase
    BY <1>7, Zenon DEF Link!Send
  <2>5. Len(sent') <= MaxSent + runs /\ Len(sent') <= MaxSent + MaxRuns
    BY <1>4, <2>2, OthersCounted, PanelAssumption DEF PanelTypeOK
  <2>6. PanelTypeOK'
    BY <1>2, <1>7, <2>1, <2>2, <2>3, <2>4, <2>5 DEF PanelTypeOK
  <2>7. OthersSent' = OthersSent
    BY <1>7, <2>1, OwingAppend DEF OthersSent, PanelTypeOK
  <2>8. ~stray => sent' = <<at'>>
    BY <1>2, <1>7 DEF PanelInv
  <2>9. Len(sent') + (IF running' /\ at' = <<>> THEN 1 ELSE 0) <= MaxSent + runs'
    BY <1>7, <2>1, <2>5, <2>2, OthersCounted
  <2>10. PanelInv'
    BY <1>2, <1>7, <2>1, <2>3, <2>7, <2>8, <2>9 DEF PanelInv
  <2>11. QED
    BY <2>6, <2>10
<1>8. QED
  BY <1>1, <1>5, <1>6, <1>7

(* A report: one command less is under way, and what the run waited for, if     *)
(* it did, has its result.                                                  *)
LEMMA StatusStep ==
  ASSUME PanelTypeOK, PanelInv, NEW k \in DOMAIN sent, NEW ok \in BOOLEAN, Status(k, ok)
  PROVE  PanelTypeOK' /\ PanelInv'
<1>1. /\ sent' = RemoveAt(sent, k) /\ phase' = phase
      /\ UNCHANGED <<via, picked, rows, shown, reloaded, stray>>
  BY Zenon DEF Status, Link!Settle
<1>2. sent \in Seq(Line \cup {Typed, Location})
  BY DEF PanelTypeOK
<1>3. /\ sent' \in Seq(Line \cup {Typed, Location}) /\ Len(sent') = Len(sent) - 1
      /\ Len(sent) \in Nat \ {0}
  BY <1>1, <1>2, Removed
<1>4. OthersSent' = IF sent[k] \in Other THEN OthersSent - 1 ELSE OthersSent
  BY <1>1, <1>2, OwingRemoved DEF OthersSent
<1>5. /\ at' = <<>> \/ (at' = at /\ running' = running)
      /\ running' \in BOOLEAN /\ (running' => running)
      /\ UNCHANGED <<runs, given>> /\ todo' \subseteq todo /\ marking' \in 0 .. N
      /\ mark' \in [1 .. N -> {"idle", "running", "ok", "fail"}]
      /\ running' /\ ~reloaded' =>
           /\ \A i \in todo' : <<rows'.of, i>> \in given'
           /\ \A j \in 1 .. N : <<rows'.of, j>> \in given' => mark'[j] # "fail"
  <2>1. CASE at # <<>> /\ ~(ok /\ sent[k] = Location)
    <3>1. Result(ok)
      BY <2>1, Zenon DEF Status
    <3>2. 0 \in 0 .. N
      BY PanelAssumption
    <3>3. running
      BY <2>1 DEF PanelTypeOK
    <3>4. /\ at' = <<>> /\ marking' = 0 /\ UNCHANGED <<runs, given>>
          /\ running' = ok /\ todo' \subseteq todo
          /\ mark' \in [1 .. N -> {"idle", "running", "ok", "fail"}]
          /\ running' /\ ~reloaded' =>
               /\ \A i \in todo' : <<rows'.of, i>> \in given'
               /\ \A j \in 1 .. N : <<rows'.of, j>> \in given' => mark'[j] # "fail"
      BY <1>1, <2>1, <3>1, ResultIs
    <3>5. running' \in BOOLEAN
      BY <3>4, Zenon
    <3>6. marking' \in 0 .. N
      BY <3>2, <3>4
    <3>7. QED
      BY <3>3, <3>4, <3>5, <3>6, Zenon
  <2>2. CASE ~(at # <<>> /\ ~(ok /\ sent[k] = Location))
    <3>1. UNCHANGED <<mark, marking, running, todo, at, runs, given>>
      BY <2>2, Zenon DEF Status, runVars
    <3>2. /\ running \in BOOLEAN /\ marking \in 0 .. N
          /\ mark \in [1 .. N -> {"idle", "running", "ok", "fail"}]
      BY Zenon DEF PanelTypeOK
    <3>3. running /\ ~reloaded =>
            /\ \A i \in todo : <<rows.of, i>> \in given
            /\ \A j \in 1 .. N : <<rows.of, j>> \in given => mark[j] # "fail"
      BY Zenon DEF PanelInv
    <3>4. QED
      BY <1>1, <3>1, <3>2, <3>3
  <2>3. QED
    BY <2>1, <2>2
<1>6. ~stray => sent = <<at>>
  <2>1. ~stray => sent = <<>> \/ sent = <<at>>
    BY Zenon DEF PanelInv
  <2>2. sent # <<>>
    BY <1>3
  <2>3. QED
    BY <2>1, <2>2, Zenon
<1>7. /\ loads' \in Seq(Request)
      /\ Len(loads') = Len(loads) \/ (sent[k] \in Other /\ Len(loads') = Len(loads) + 1)
  <2>1. CASE UNCHANGED loads
    BY <2>1 DEF PanelTypeOK, Request
  <2>2. CASE sent[k] \in {Location, Typed} /\ Load(picked, via)
    BY <2>2, Loading DEF PanelTypeOK, Other
  <2>3. QED
    BY <2>1, <2>2, Zenon DEF Status
<1>8. /\ OthersSent' <= MaxSent /\ Len(loads') + OthersSent' <= MaxLoads + MaxSent
      /\ Len(loads') <= MaxLoads + MaxSent
  <2>1. OthersSent' \in Nat
    BY <1>3, OwingFinite DEF OthersSent
  <2>2. OthersSent <= MaxSent /\ Len(loads) + OthersSent <= MaxLoads + MaxSent
    BY DEF PanelInv
  <2>3. OthersSent \in Nat /\ Len(loads) \in Nat /\ MaxSent \in Nat /\ MaxLoads \in Nat
    BY OthersCounted, PanelAssumption
  <2>4. CASE sent[k] \in Other
    <3>1. OthersSent' = OthersSent - 1
      BY <1>4, <2>4
    <3>2. Len(loads') = Len(loads) \/ Len(loads') = Len(loads) + 1
      BY <1>7
    <3>3. QED
      BY <2>1, <2>2, <2>3, <3>1, <3>2
  <2>5. CASE sent[k] \notin Other
    <3>1. OthersSent' = OthersSent /\ Len(loads') = Len(loads)
      BY <1>4, <1>7, <2>5
    <3>2. QED
      BY <2>1, <2>2, <2>3, <3>1
  <2>6. QED
    BY <2>4, <2>5
<1>9. /\ Len(sent') + (IF running' /\ at' = <<>> THEN 1 ELSE 0) <= MaxSent + runs'
      /\ Len(sent') <= MaxSent + MaxRuns
  <2>1. Len(sent) <= MaxSent + runs /\ Len(sent) <= MaxSent + MaxRuns
    BY <1>3, PanelAssumption DEF PanelTypeOK, PanelInv
  <2>2. runs' = runs
    BY <1>5
  <2>3. QED
    BY <1>3, <2>1, <2>2, PanelAssumption DEF PanelTypeOK
<1>10. ~stray' => sent' = <<>>
  BY <1>1, <1>3, <1>6
<1>11. PanelTypeOK'
  <2>1. at' = <<>> \/ (running' /\ at' \in Line)
    BY <1>5 DEF PanelTypeOK
  <2>2. QED
    BY <1>1, <1>3, <1>5, <1>7, <1>8, <1>9, <2>1 DEF PanelTypeOK, Request
<1>12. PanelInv'
  <2>1. shown' \/ running' => rows' # NoRows
    BY <1>1, <1>5 DEF PanelInv
  <2>2. QED
    BY <1>5, <1>8, <1>9, <1>10, <2>1, Zenon DEF PanelInv
<1>13. QED
  BY <1>11, <1>12

(* A command ends and nothing is said of it: the run waits on.               *)
LEMMA UnreportedStep ==
  ASSUME PanelTypeOK, PanelInv, Unreported
  PROVE  PanelTypeOK' /\ PanelInv'
<1>1. UNCHANGED <<phase, via, picked, loads, rows, shown, mark, marking, running, todo, at, runs,
                  given, reloaded, stray>>
  BY Zenon DEF Unreported, ListKept, listVars, runVars, Link!Settle
<1>2. sent \in Seq(Line \cup {Typed, Location}) /\ sent # <<>> /\ sent' = Tail(sent)
  BY DEF PanelTypeOK, Unreported
<1>3. /\ sent' \in Seq(Line \cup {Typed, Location}) /\ Len(sent') = Len(sent) - 1
      /\ Len(sent) \in Nat \ {0}
  BY <1>2
<1>4. OthersSent' <= OthersSent /\ OthersSent' \in Nat
  <2>1. OthersSent' = IF Head(sent) \in Other THEN OthersSent - 1 ELSE OthersSent
    BY <1>2, OwingTail DEF OthersSent
  <2>2. OthersSent' \in Nat
    BY <1>3, OwingFinite DEF OthersSent
  <2>3. QED
    BY <2>1, <2>2, OthersCounted
<1>5. ~stray' => sent' = <<>>
  <2>1. ~stray => sent = <<at>>
    BY <1>2 DEF PanelInv
  <2>2. QED
    BY <1>1, <1>2, <2>1
<1>6. PanelTypeOK'
  BY <1>1, <1>3, PanelAssumption DEF PanelTypeOK
<1>7. /\ Len(sent') + (IF running' /\ at' = <<>> THEN 1 ELSE 0) <= MaxSent + runs'
      /\ OthersSent' <= MaxSent /\ Len(loads') + OthersSent' <= MaxLoads + MaxSent
  BY <1>1, <1>3, <1>4, OthersCounted, PanelAssumption DEF PanelTypeOK, PanelInv
<1>8. PanelInv'
  BY <1>1, <1>5, <1>7 DEF PanelInv
<1>9. QED
  BY <1>6, <1>8

-----------------------------------------------------------------------------
(* The panel's specification *)

(* Every step of the panel keeps its types and its invariant.               *)
LEMMA PanelStep ==
  ASSUME PanelTypeOK, PanelInv, PanelNext
  PROVE  PanelTypeOK' /\ PanelInv'
<1> DEFINE Goal == PanelTypeOK' /\ PanelInv'
<1>0. picked \in Profiles /\ via \in {"usb", "air"}
  BY DEF PanelTypeOK
<1>1. ASSUME NEW c \in Profiles, Choose(c) PROVE Goal
  <2>1. /\ Load(c, via) /\ FewLoads /\ picked' = c /\ via' = via
        /\ UNCHANGED <<linkVars, rows, shown, mark, marking, runVars, reloaded, stray>>
    BY <1>1, Zenon DEF Choose
  <2>2. QED
    BY <1>0, <2>1, ListStep
<1>2. ASSUME SwitchTransport PROVE Goal
  <2>1. /\ Load(picked, via') /\ FewLoads /\ picked' = picked
        /\ via' = IF via = "usb" THEN "air" ELSE "usb"
        /\ UNCHANGED <<linkVars, rows, shown, mark, marking, runVars, reloaded, stray>>
    BY <1>2, Zenon DEF SwitchTransport
  <2>2. via' \in {"usb", "air"}
    BY <2>1
  <2>3. QED
    BY <1>0, <2>1, <2>2, ListStep
<1>3. ASSUME SaveLocation \/ Confirmed PROVE Goal
  <2>1. /\ Load(picked, via) /\ FewLoads /\ picked' = picked /\ via' = via
        /\ UNCHANGED <<linkVars, rows, shown, mark, marking, runVars, reloaded, stray>>
    BY <1>3, Zenon DEF SaveLocation, Confirmed
  <2>2. QED
    BY <1>0, <2>1, ListStep
<1>4. ASSUME NEW k \in DOMAIN loads, Loaded(k) \/ LoadFails(k) PROVE Goal
  BY <1>4, LoadedStep
<1>5. ASSUME LinkOpens \/ LinkCloses PROVE Goal
  <2>1. ListKept
    BY <1>5, Zenon DEF LinkOpens, LinkCloses
  <2>2. QED
    BY <1>5, <2>1, LinkStep
<1>6. ASSUME ~GoesOn, SendOther(Typed) \/ SendOther(Location) PROVE Goal
  <2>1. ListKept
    BY <1>6, Zenon DEF SendOther
  <2>2. QED
    BY <1>6, <2>1, LinkStep
<1>7. ASSUME PressRun PROVE Goal
  <2>1. ASSUME NEW i \in 1 .. N, shown, RunLines({i}) PROVE Goal
    <3>1. rows # NoRows /\ {i} \subseteq 1 .. N
      BY <2>1 DEF PanelInv
    <3>2. QED
      BY <2>1, <3>1, RunStep
  <2>2. ASSUME rows # NoRows, RunLines(RunnableIndices) PROVE Goal
    <3>1. RunnableIndices \subseteq 1 .. N
      BY DEF RunnableIndices
    <3>2. QED
      BY <2>2, <3>1, RunStep
  <2>3. QED
    BY <1>7, <2>1, <2>2, Zenon DEF PressRun
<1>8. ASSUME Settles PROVE Goal
  <2>1. PICK k \in {1, Len(sent)} \cap DOMAIN sent, ok \in BOOLEAN : Status(k, ok)
    BY <1>8, Zenon DEF Settles
  <2>2. QED
    BY <2>1, StatusStep
<1> HIDE DEF Goal
<1>9. ASSUME NextLine \/ RunOut \/ WaitTimesOut \/ LinkComplains \/ Unreported PROVE Goal
  <2>1. ASSUME WaitTimesOut \/ LinkComplains PROVE at # <<>> /\ GivesUp
    BY <2>1, Zenon DEF WaitTimesOut, LinkComplains
  <2>2. QED
    BY <1>9, <2>1, NextLineStep, RunOutStep, GiveUpStep, UnreportedStep DEF Goal
<1>10. ASSUME ~GoesOn, Step PROVE Goal
  BY <1>1, <1>2, <1>3, <1>4, <1>5, <1>6, <1>7, <1>8, <1>9, <1>10, Zenon DEF Step
<1>11. Goal
  BY <1>9, <1>10, Zenon DEF PanelNext
<1>12. QED
  BY <1>11 DEF Goal

(* They hold when the page was just loaded.                                 *)
LEMMA PanelInvInit == PanelInit => PanelTypeOK /\ PanelInv
<1> SUFFICES ASSUME PanelInit PROVE PanelTypeOK /\ PanelInv
  OBVIOUS
<1>1. /\ phase = "idle" /\ sent = <<>> /\ via = "usb" /\ picked \in Profiles
      /\ loads = <<[of |-> picked, via |-> "usb"]>>
      /\ rows = NoRows /\ mark = Blank /\ todo = {} /\ at = <<>> /\ marking = 0 /\ runs = 0
      /\ given = {}
  BY Zenon DEF PanelInit
<1>2. /\ ~shown /\ ~running /\ shown \in BOOLEAN /\ running \in BOOLEAN /\ stray \in BOOLEAN
      /\ reloaded \in BOOLEAN
  BY Zenon DEF PanelInit
<1>3. loads \in Seq(Request) /\ Len(loads) = 1
  <2>1. [of |-> picked, via |-> "usb"] \in Request
    BY <1>1 DEF Request
  <2>2. QED
    BY <1>1, <2>1
<1>4. Len(sent) = 0 /\ sent \in Seq(Line \cup {Typed, Location})
  BY <1>1
<1>5. OthersSent = 0
  <2>1. Owing(sent, Other) = {}
    BY <1>1 DEF Owing
  <2>2. QED
    BY <2>1, FS_EmptySet DEF OthersSent
<1>6. /\ Len(sent) <= MaxSent + MaxRuns /\ Len(loads) <= MaxLoads + MaxSent
      /\ marking \in 0 .. N /\ runs \in 0 .. MaxRuns
      /\ Len(sent) + (IF running /\ at = <<>> THEN 1 ELSE 0) <= MaxSent + runs
      /\ OthersSent <= MaxSent /\ Len(loads) + OthersSent <= MaxLoads + MaxSent
  BY <1>1, <1>2, <1>3, <1>4, <1>5, PanelAssumption
<1>7. PanelTypeOK
  BY <1>1, <1>2, <1>3, <1>4, <1>6 DEF PanelTypeOK, Blank, Request
<1>8. PanelInv
  BY <1>1, <1>2, <1>6 DEF PanelInv
<1>9. QED
  BY <1>7, <1>8

(* They hold when nothing changes.                                          *)
LEMMA PanelStays ==
  ASSUME PanelTypeOK, PanelInv, UNCHANGED panelVars
  PROVE  PanelTypeOK' /\ PanelInv'
<1>1. UNCHANGED <<phase, sent, via, picked, loads, rows, shown, mark, marking, running, todo, at,
                  runs, given, reloaded, stray>>
  BY Zenon DEF panelVars, linkVars, listVars, runVars
<1>2. PanelTypeOK'
  BY <1>1 DEF PanelTypeOK
<1>3. OthersSent' = OthersSent
  BY <1>1 DEF OthersSent
<1>4. PanelInv'
  BY <1>1, <1>3 DEF PanelInv
<1>5. QED
  BY <1>2, <1>4

(* The panel's types and its invariant.                                     *)
THEOREM PanelInvHolds == PanelSpec => [](PanelTypeOK /\ PanelInv)
<1>1. (PanelTypeOK /\ PanelInv) /\ [PanelNext]_panelVars => (PanelTypeOK /\ PanelInv)'
  BY PanelStep, PanelStays
<1>2. QED
  BY <1>1, PanelInvInit, PTL DEF PanelSpec

(* Every variable has its type; with the runs started bounded, so is what the  *)
(* connection was sent, and with both, the requests under way.              *)
THEOREM PanelTypeCorrect == PanelSpec => []PanelTypeOK
  BY PanelInvHolds, PTL

(* console-config.js: while nothing but runs is sent and no wait was given    *)
(* up, a wait ends with its own line's result, or fails as one that is given *)
(* up.                                                                      *)
THEOREM RepliesMapWhenAloneHolds == PanelSpec => RepliesMapWhenAlone
<1>1. PanelTypeOK /\ PanelInv /\ [PanelNext]_panelVars => [~stray => OwnResult]_panelVars
  <2> SUFFICES ASSUME PanelTypeOK, PanelInv, PanelNext, ~stray, at # <<>>, at' = <<>>
               PROVE  \/ \E k \in DOMAIN sent : sent[k] = at /\ sent' = RemoveAt(sent, k)
                      \/ ~running' /\ stray'
    BY Zenon DEF OwnResult
  <2>1. running /\ at' # at
    BY DEF PanelTypeOK
  <2>2. Step
    BY Zenon DEF PanelNext, NextLine, RunOut
  <2>3. CASE Settles
    <3>1. PICK k \in DOMAIN sent, ok \in BOOLEAN : Status(k, ok)
      BY <2>3, Zenon DEF Settles
    <3>2. sent' = RemoveAt(sent, k)
      BY <3>1, Zenon DEF Status
    <3>3. sent = <<at>>
      BY <3>1 DEF PanelInv
    <3>4. sent[k] = at
      BY <3>3
    <3>5. QED
      BY <3>2, <3>4
  <2>4. CASE WaitTimesOut \/ LinkComplains
    <3>1. Result(FALSE) /\ stray' = TRUE
      BY <2>4, Zenon DEF WaitTimesOut, LinkComplains, GivesUp
    <3>2. running' = FALSE
      BY <3>1, Zenon DEF Result, EndRun
    <3>3. QED
      BY <3>1, <3>2
  <2>5. CASE ~Settles /\ ~WaitTimesOut /\ ~LinkComplains
    <3>1. at' = at
      BY <2>1, <2>2, <2>5, Zenon DEF Step, Choose, SwitchTransport, SaveLocation, Loaded,
         LoadFails, LinkOpens, LinkCloses, ListKept, Confirmed, SendOther, PressRun, RunLines,
         Unreported, runVars
    <3>2. QED
      BY <2>1, <3>1
  <2>6. QED
    BY <2>3, <2>4, <2>5
<1>2. QED
  BY <1>1, PanelInvHolds, PTL DEF PanelSpec, RepliesMapWhenAlone

(* console-config.js runLines: a run sends lines it was started for, and none   *)
(* after one of them failed, unless the rows were replaced under it.        *)
THEOREM RunsWhatWasPressedHolds == PanelSpec => RunsWhatWasPressed
<1> DEFINE Sends == at = <<>> /\ at' # <<>> /\ ~reloaded
              => /\ at' \in given
                 /\ \A j \in 1 .. N : <<rows.of, j>> \in given => mark[j] # "fail"
<1>1. PanelTypeOK /\ PanelInv /\ [PanelNext]_panelVars => [Sends]_panelVars
  <2> SUFFICES ASSUME PanelTypeOK, PanelInv, PanelNext, at = <<>>, at' # <<>>, ~reloaded
               PROVE  /\ at' \in given
                      /\ \A j \in 1 .. N : <<rows.of, j>> \in given => mark[j] # "fail"
    BY Zenon
  <2>1. NextLine
    <3>1. ASSUME RunOut PROVE at' = <<>>
      BY <3>1, Zenon DEF RunOut, EndRun
    <3>2. ASSUME Step PROVE at' = <<>>
      <4>1. at' = at \/ at' = <<>>
        BY <3>2, Zenon DEF Step, Choose, SwitchTransport, SaveLocation, Loaded, LoadFails,
           LinkOpens, LinkCloses, ListKept, Confirmed, SendOther, PressRun, RunLines,
           WaitTimesOut, LinkComplains, GivesUp, Settles, Unreported, Status, Result, EndRun,
           runVars
      <4>2. QED
        BY <4>1
    <3>3. QED
      BY <3>1, <3>2, Zenon DEF PanelNext
  <2>2. running /\ \E i \in todo : at' = <<rows.of, i>>
    BY <2>1, Zenon DEF NextLine, EndRun, runVars
  <2>3. QED
    BY <2>2, Zenon DEF PanelInv
<1>2. QED
  BY <1>1, PanelInvHolds, PTL DEF PanelSpec, RunsWhatWasPressed

=============================================================================
