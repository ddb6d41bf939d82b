-------------------------------- MODULE MeshProofs --------------------------------
(***************************************************************************)
(* Theorems about the two components that speak to the mesh. First the     *)
(* packet exchange with a repeater (Exchange), for any number of tries and *)
(* requests, any interval and any clocks: the inductive invariant IInv     *)
(* relates the stamps of the packets sent, what the repeater made of them, *)
(* the slots of the limiter and the attempts that replies are matched with.*)
(* Then net control's modem (NetModem), for any members, any number of     *)
(* connections and any sizes of messages and queue: the inductive          *)
(* invariant ModemInv says where each member in flight is.                 *)
(***************************************************************************)
EXTENDS Exchange, NetModem, FiniteSetTheorems, TLAPS

Running == pc \in {"build", "slot", "wait"}

(* A running request is one of the session's, at one of its tries.          *)
ControlOK ==
    /\ pc # "idle" => request \in RequestIds
    /\ Running => attempt <= Tries

(* Stamps grow from packet to packet, and the one about to be sent is newer *)
(* than all that were.                                                      *)
StampsOK ==
    /\ \A m, n \in Sends : m < n => sent[m].ts < sent[n].ts
    /\ \A n \in Sends : 0 < sent[n].ts /\ sent[n].ts <= stamp
    /\ pc = "slot" =>
        /\ packet.ts = stamp /\ stamp > 0
        /\ \A n \in Sends : sent[n].ts < stamp

(* The replay guard holds the stamp of the last send that ran.              *)
GuardOK ==
    /\ \A i \in DOMAIN ran : ran[i] \in Sends
    /\ \A i, j \in DOMAIN ran : i < j => ran[i] < ran[j]
    /\ Len(ran) = 0 => lastSeen = 0
    /\ Len(ran) # 0 => lastSeen = sent[ran[Len(ran)]].ts

(* One slot more than packets sent was reserved, and a packet waits for its *)
(* own.                                                                     *)
PaceOK ==
    /\ \A n \in Sends : sent[n].at >= (n - 1) * Interval
    /\ nextSlot >= Len(sent) * Interval
    /\ pc = "slot" => slot >= Len(sent) * Interval /\ nextSlot >= (Len(sent) + 1) * Interval

(* Replies are matched with present or former requests only, and an attempt *)
(* is told of a reply only after one was taken.                             *)
MatchOK ==
    /\ active.req <= request /\ (pc = "idle" => active.req < request)
    /\ hearing.for.req <= request /\ (pc = "idle" => hearing.for.req < request)
    /\ hearing # Deaf => hearing.send \in Sends
    /\ hearing.matched /\ pc # "idle" /\ hearing.for.req = request => result \in Sends
    /\ done /\ Running => result \in Sends

(* Direct packets were made when a path was known, and none is forgotten.   *)
PathOK ==
    /\ KnownPathIsThere
    /\ packet.route = "direct" => outPath # "none"
    /\ \A n \in Sends : sent[n].route = "direct" => outPath # "none"

IInv == TypeOK /\ ControlOK /\ StampsOK /\ GuardOK /\ PaceOK /\ MatchOK /\ PathOK

-----------------------------------------------------------------------------
(* A packet is a record of its fields.                                      *)
LEMMA PacketType ==
    ASSUME NEW q \in Nat, NEW route \in Routes, NEW ts \in Nat, NEW at \in Nat
    PROVE  Packet(q, route, ts, at) \in Packets
BY DEF Packet, Packets

(* An attempt is one of a request.                                          *)
LEMMA PendingType ==
    ASSUME NEW q \in Nat, NEW a \in Nat \ {0}
    PROVE  Pending(q, a) \in Pendings
BY DEF Pending, Pendings

(* Stamps are natural numbers, whatever the wall clock reads, and newer     *)
(* than the last one.                                                       *)
LEMMA NextStampIsNewer ==
    ASSUME stamp \in Nat, NEW wall \in Nat
    PROVE  NextStamp(wall) \in Nat /\ NextStamp(wall) > stamp
BY DEF NextStamp

(* What was sent is packets.                                                *)
LEMMA SentType ==
    ASSUME TypeOK, NEW n \in Sends
    PROVE  /\ n \in Nat /\ sent[n] \in Packets
           /\ sent[n].ts \in Nat /\ sent[n].at \in Nat /\ sent[n].route \in Routes
<1>1. n \in Nat /\ sent[n] \in Packets
    BY DEF TypeOK, Sends
<1> QED
    BY <1>1 DEF Packets

(* A frame being handled is a record of its fields, and so is no frame.     *)
Frames == [send: Nat, for: Pendings, matched: BOOLEAN]

LEMMA FrameType ==
    ASSUME NEW n \in Nat, NEW p \in Pendings, NEW b \in BOOLEAN
    PROVE  Frame(n, p, b) \in Frames
BY DEF Frame, Frames

(* No frame is one in which nothing matched.                                *)
LEMMA DeafType == Deaf \in Frames /\ ~Deaf.matched
<1>1. None \in Pendings
    BY DEF Pendings
<1> QED
    BY <1>1, FrameType DEF Deaf, Frame

(* The initial state satisfies the invariant: nothing sent, nothing heard.  *)
LEMMA InitEstablishes == Init => IInv
<1> SUFFICES ASSUME Init PROVE IInv
    OBVIOUS
<1> USE ExchangeAssumption
<1>1. TypeOK
  <2>1. active \in Pendings /\ hearing \in Frames
    BY DeafType DEF Init, Pendings
  <2>2. packet \in Packets
    BY PacketType DEF Init, Routes
  <2>3. request \in 0 .. MaxRequests /\ attempt \in 1 .. Tries + 1
    BY DEF Init
  <2>4. outcome \in [RequestIds -> Outcomes]
    BY DEF Init, Outcomes
  <2>5. sent \in Seq(Packets) /\ ran \in Seq(Nat)
    BY DEF Init
  <2> QED
    BY <2>1, <2>2, <2>3, <2>4, <2>5 DEF Init, TypeOK, Frames
<1>2. ControlOK
    BY DEF Init, ControlOK, Running
<1>3. StampsOK /\ GuardOK /\ PaceOK
    BY DEF Init, StampsOK, GuardOK, PaceOK, Sends
<1>4. MatchOK
    BY DEF Init, MatchOK, Deaf, Frame, None, Sends, Running
<1>5. PathOK
    BY DEF Init, PathOK, KnownPathIsThere, Packet, Sends
<1> QED
    BY <1>1, <1>2, <1>3, <1>4, <1>5 DEF IInv

(* Every step of the exchange keeps the types.                              *)
LEMMA TypeStep ==
    ASSUME TypeOK, ControlOK, [Next]_vars
    PROVE  TypeOK'
<1> USE ExchangeAssumption
<1>1. CASE Start
    BY <1>1 DEF Start, TypeOK, senderVars, pathVars, radioVars
<1>2. CASE Activate
  <2>1. active' \in Pendings
    BY <1>2, PendingType DEF Activate, TypeOK
  <2> QED
    BY <1>2, <2>1 DEF Activate, TypeOK, senderVars, pathVars, radioVars
<1>3. ASSUME NEW wall \in 0 .. MaxWall, Build(wall) PROVE TypeOK'
  <2>1. stamp' \in Nat
    BY <1>3, NextStampIsNewer DEF Build, TypeOK
  <2>2. packet' \in Packets
    BY <1>3, <2>1, PacketType DEF Build, TypeOK, Routes
  <2>3. nextSlot' \in Nat /\ slot' \in Nat
    BY <1>3 DEF Build, TypeOK, ReserveSlot
  <2> QED
    BY <1>3, <2>1, <2>2, <2>3 DEF Build, TypeOK, pathVars, radioVars
<1>4. CASE Send
  <2>1. Packet(packet.req, packet.route, packet.ts, now) \in Packets
    BY PacketType DEF TypeOK, Packets
  <2>2. sent' \in Seq(Packets)
    BY <1>4, <2>1 DEF Send, TypeOK
  <2> QED
    BY <1>4, <2>2 DEF Send, TypeOK, pathVars, radioVars
<1>5. CASE Timeout
  <2>1. active' \in Pendings
    BY <1>5 DEF Timeout, TypeOK, Pendings
  <2>2. attempt' \in 1 .. Tries + 1
    BY <1>5 DEF Timeout, TypeOK, ControlOK, Running
  <2> QED
    BY <1>5, <2>1, <2>2 DEF Timeout, TypeOK, senderVars, pathVars, radioVars
<1>6. CASE ErrNoReply
  <2>1. request' \in 0 .. MaxRequests /\ outcome' \in [RequestIds -> Outcomes]
    BY <1>6 DEF ErrNoReply, End, TypeOK, ControlOK, RequestIds, Outcomes
  <2> QED
    BY <1>6, <2>1 DEF ErrNoReply, End, TypeOK, senderVars, pathVars, radioVars
<1>7. CASE Answered
  <2>1. request' \in 0 .. MaxRequests /\ outcome' \in [RequestIds -> Outcomes]
    BY <1>7 DEF Answered, End, TypeOK, ControlOK, RequestIds, Outcomes
  <2>2. pathKnown' \in BOOLEAN /\ outPath' \in {"none", "supplied", "learned"}
    BY <1>7 DEF Answered, AdoptPath, TypeOK, pathVars
  <2> QED
    BY <1>7, <2>1, <2>2 DEF Answered, End, TypeOK, senderVars, radioVars
<1>8. CASE Fail
  <2>1. request' \in 0 .. MaxRequests /\ outcome' \in [RequestIds -> Outcomes]
    BY <1>8 DEF Fail, TypeOK, ControlOK, RequestIds, Outcomes
  <2> QED
    BY <1>8, <2>1 DEF Fail, TypeOK, senderVars, pathVars, radioVars
<1>9. ASSUME NEW n \in Sends, Hear(n) PROVE TypeOK'
  <2>1. n \in Nat /\ active \in Pendings
    BY SentType DEF TypeOK
  <2>2. hearing' \in Frames
    BY <1>9, <2>1, FrameType DEF Hear
  <2> QED
    BY <1>9, <2>2 DEF Frames, Hear, TypeOK, sessionVars, senderVars, pathVars, radioVars
<1>10. CASE Match
  <2>1. hearing.send \in Nat /\ hearing.for \in Pendings
    BY DEF TypeOK
  <2>2. hearing' \in Frames
    BY <1>10, <2>1, DeafType, FrameType DEF Match
  <2>3. result' \in Nat
    BY <1>10, <2>1 DEF Match, TypeOK
  <2> QED
    BY <1>10, <2>2, <2>3 DEF Frames, Match, TypeOK, senderVars, pathVars, radioVars
<1>11. CASE Signal
  <2>1. hearing' \in Frames
    BY <1>11, DeafType DEF Signal
  <2>2. active' \in Pendings
    BY <1>11 DEF Signal, TypeOK, None, Pendings
  <2>3. done' \in BOOLEAN
    BY <1>11 DEF Signal, TypeOK
  <2> QED
    BY <1>11, <2>1, <2>2, <2>3
      DEF Frames, Signal, TypeOK, sessionVars, senderVars, pathVars, radioVars
<1>12. ASSUME NEW n \in Sends, Receive(n) PROVE TypeOK'
  <2>1. n \in Nat /\ sent[n].ts \in Nat
    BY SentType
  <2>2. lastSeen' \in Nat
    BY <1>12, <2>1 DEF Receive
  <2>3. ran' \in Seq(Nat)
    BY <1>12, <2>1 DEF Receive, TypeOK
  <2> QED
    BY <1>12, <2>2, <2>3 DEF Receive, TypeOK, sessionVars, senderVars, pathVars
<1>13. CASE Tick
    BY <1>13 DEF Tick, TypeOK, sessionVars, senderVars, pathVars, radioVars
<1>14. CASE UNCHANGED vars
    BY <1>14 DEF TypeOK, vars, sessionVars, senderVars, pathVars, radioVars
<1> QED
    BY <1>1, <1>2, <1>3, <1>4, <1>5, <1>6, <1>7, <1>8, <1>9, <1>10, <1>11, <1>12, <1>13, <1>14
    DEF Next, Caller

-----------------------------------------------------------------------------
(* Control: a request begins only within the session, and an attempt only   *)
(* while there is one left.                                                 *)
LEMMA ControlStep ==
    ASSUME TypeOK, ControlOK, [Next]_vars
    PROVE  ControlOK'
<1>1. CASE Start
    BY <1>1 DEF Start, ControlOK, Running
<1>2. CASE Activate
    BY <1>2 DEF Activate, ControlOK, Running
<1>3. ASSUME NEW wall \in 0 .. MaxWall, Build(wall) PROVE ControlOK'
    BY <1>3 DEF Build, ControlOK, Running, RequestIds
<1>4. CASE Send
    BY <1>4 DEF Send, ControlOK, Running, RequestIds
<1>5. CASE Timeout
    BY <1>5 DEF Timeout, ControlOK, Running, RequestIds
<1>6. CASE ErrNoReply \/ Answered \/ Fail
    BY <1>6 DEF ErrNoReply, Answered, Fail, End, ControlOK, Running
<1>7. CASE UNCHANGED <<pc, request, attempt>>
    BY <1>7 DEF ControlOK, Running, RequestIds
<1> QED
    BY <1>1, <1>2, <1>3, <1>4, <1>5, <1>6, <1>7
    DEF Next, Caller, Hear, Match, Signal, Receive, Tick, vars, sessionVars

(* What the sender keeps is written by Build and Send only, and only Build  *)
(* makes it wait for a slot.                                                *)
LEMMA SenderSplit ==
    ASSUME [Next]_vars
    PROVE  \/ \E wall \in 0 .. MaxWall : Build(wall)
           \/ Send
           \/ UNCHANGED senderVars /\ (pc' = "slot" => pc = "slot")
BY DEF Next, Caller, Start, Activate, Timeout, ErrNoReply, Answered, Fail, End, Hear, Match,
       Signal, Receive, Tick, vars, sessionVars

(* The repeater's part is written by its own steps only.                    *)
LEMMA RadioSplit ==
    ASSUME [Next]_vars
    PROVE  (\E n \in Sends : Receive(n)) \/ UNCHANGED radioVars
BY DEF Next, Caller, Start, Activate, Build, Send, Timeout, ErrNoReply, Answered, Fail, Hear, Match,
       Signal, Tick, vars

(* What a send adds to the packets sent.                                    *)
LEMMA SendAppends ==
    ASSUME TypeOK, Send
    PROVE  /\ Len(sent') = Len(sent) + 1
           /\ \A n \in Sends : sent'[n] = sent[n]
           /\ sent'[Len(sent) + 1] = Packet(packet.req, packet.route, packet.ts, now)
           /\ Sends' = Sends \cup {Len(sent) + 1}
<1> DEFINE p == Packet(packet.req, packet.route, packet.ts, now)
<1>1. p \in Packets
    BY PacketType DEF TypeOK, Packets
<1>2. sent \in Seq(Packets) /\ sent' = Append(sent, p)
    BY DEF TypeOK, Send
<1> HIDE DEF p
<1>3. /\ Len(sent') = Len(sent) + 1
      /\ \A n \in 1 .. Len(sent) : sent'[n] = sent[n]
      /\ sent'[Len(sent) + 1] = p
    BY <1>1, <1>2
<1>4. Sends' = Sends \cup {Len(sent) + 1}
    BY <1>2, <1>3 DEF Sends
<1> QED
    BY <1>3, <1>4 DEF Sends, p

-----------------------------------------------------------------------------
(* Stamps: SeqClock moves on with every packet built, and each is sent before*)
(* the next is built.                                                       *)
LEMMA StampsStep ==
    ASSUME TypeOK, StampsOK, [Next]_vars
    PROVE  StampsOK'
<1>1. ASSUME NEW wall \in 0 .. MaxWall, Build(wall) PROVE StampsOK'
  <2>1. stamp' > stamp /\ stamp' \in Nat /\ stamp \in Nat
    BY <1>1, NextStampIsNewer, ExchangeAssumption DEF Build, TypeOK
  <2>2. packet'.ts = stamp' /\ UNCHANGED sent
    BY <1>1 DEF Build, Packet
  <2>3. \A n \in Sends : sent[n].ts \in Nat
    BY SentType
  <2> QED
    BY <2>1, <2>2, <2>3 DEF StampsOK, Sends
<1>2. CASE Send
  <2>1. /\ pc = "slot" /\ pc' = "wait" /\ stamp' = stamp /\ stamp \in Nat
        /\ packet.ts = stamp /\ stamp > 0
    BY <1>2 DEF Send, StampsOK, TypeOK
  <2>2. \A n \in Sends : sent[n].ts < stamp /\ sent'[n].ts = sent[n].ts
    BY <1>2, <2>1, SendAppends DEF StampsOK
  <2>3. sent'[Len(sent) + 1].ts = stamp
    BY <1>2, <2>1, SendAppends DEF Packet
  <2>4. \A n \in Sends' : n \in Sends \/ n = Len(sent) + 1
    BY <1>2, SendAppends
  <2>5. \A m, n \in Sends' : m < n => m \in Sends
    BY <2>4, <1>2 DEF Sends, TypeOK
  <2>6. \A n \in Sends : sent[n].ts \in Nat
    BY SentType
  <2>7. \A m, n \in Sends' : m < n => sent'[m].ts < sent'[n].ts
    BY <2>2, <2>3, <2>4, <2>5 DEF StampsOK
  <2>8. \A n \in Sends' : 0 < sent'[n].ts /\ sent'[n].ts <= stamp'
    BY <2>1, <2>2, <2>3, <2>4, <2>6 DEF StampsOK
  <2> QED
    BY <2>1, <2>7, <2>8 DEF StampsOK
<1>3. CASE UNCHANGED senderVars /\ (pc' = "slot" => pc = "slot")
    BY <1>3 DEF StampsOK, senderVars, Sends
<1> QED
    BY <1>1, <1>2, <1>3, SenderSplit

(* The guard: a send runs only if it is newer than all that ran, because    *)
(* its stamp is.                                                            *)
LEMMA GuardStep ==
    ASSUME TypeOK, StampsOK, GuardOK, [Next]_vars
    PROVE  GuardOK'
<1>1. ASSUME NEW n \in Sends, Receive(n) PROVE GuardOK'
  <2>1. ran \in Seq(Nat) /\ n \in Nat /\ lastSeen \in Nat /\ UNCHANGED sent
    BY <1>1 DEF Receive, TypeOK, Sends, senderVars
  <2>2. /\ Len(ran') = Len(ran) + 1 /\ ran'[Len(ran) + 1] = n
        /\ \A i \in 1 .. Len(ran) : ran'[i] = ran[i]
        /\ DOMAIN ran' = 1 .. Len(ran) + 1 /\ DOMAIN ran = 1 .. Len(ran)
    BY <1>1, <2>1 DEF Receive
  <2>3. \A i \in 1 .. Len(ran) : ran[i] < n
    <3> SUFFICES ASSUME NEW i \in 1 .. Len(ran) PROVE ran[i] < n
        OBVIOUS
    <3> DEFINE last == ran[Len(ran)]
    <3>1. Len(ran) \in DOMAIN ran /\ i \in DOMAIN ran /\ Len(ran) # 0
        BY <2>1, <2>2
    <3>2. last \in Sends /\ ran[i] \in Nat /\ last \in Nat
        BY <2>1, <3>1 DEF GuardOK
    <3>3. sent[last].ts < sent[n].ts
        BY <1>1, <3>1 DEF GuardOK, Receive
    <3>4. sent[last].ts \in Nat /\ sent[n].ts \in Nat
        BY <3>2, SentType
    <3>5. last < n
        BY <2>1, <3>2, <3>3, <3>4 DEF StampsOK
    <3>6. ran[i] <= last
        BY <2>1, <2>2, <3>1 DEF GuardOK
    <3> QED
        BY <2>1, <3>2, <3>5, <3>6
  <2>4. \A i, j \in DOMAIN ran' : i < j => ran'[i] < ran'[j]
    BY <2>1, <2>2, <2>3 DEF GuardOK
  <2>5. \A i \in DOMAIN ran' : ran'[i] \in Sends'
    BY <2>1, <2>2 DEF GuardOK, Sends
  <2>6. lastSeen' = sent'[ran'[Len(ran')]].ts /\ Len(ran') # 0
    BY <1>1, <2>1, <2>2 DEF Receive
  <2> QED
    BY <2>4, <2>5, <2>6 DEF GuardOK
<1>2. CASE UNCHANGED radioVars /\ UNCHANGED sent
    BY <1>2 DEF GuardOK, radioVars, Sends
<1>3. CASE UNCHANGED radioVars /\ Send
  <2>1. Sends \subseteq Sends' /\ \A n \in Sends : sent'[n] = sent[n]
    BY <1>3, SendAppends
  <2>2. Len(ran) # 0 => Len(ran) \in DOMAIN ran
    BY DEF TypeOK
  <2> QED
    BY <1>3, <2>1, <2>2 DEF GuardOK, radioVars
<1> QED
    BY <1>1, <1>2, <1>3, RadioSplit, SenderSplit DEF Build, senderVars

(* Pacing: each slot is an interval after the one before it, and no packet  *)
(* leaves before its own.                                                   *)
LEMMA PaceStep ==
    ASSUME TypeOK, PaceOK, [Next]_vars
    PROVE  PaceOK'
<1>1. Interval \in Nat /\ now \in Nat /\ nextSlot \in Nat /\ slot \in Nat /\ Len(sent) \in Nat
    BY ExchangeAssumption DEF TypeOK
<1>2. (Len(sent) + 1) * Interval = Len(sent) * Interval + Interval
    BY <1>1
<1>3. Len(sent) * Interval \in Nat
    BY <1>1
<1>4. ASSUME NEW wall \in 0 .. MaxWall, Build(wall) PROVE PaceOK'
  <2>1. \E at \in Nat : at >= nextSlot /\ nextSlot' = at + Interval /\ slot' = at
    BY <1>1, <1>4 DEF Build, ReserveSlot
  <2>2. UNCHANGED sent
    BY <1>4 DEF Build
  <2>3. nextSlot >= Len(sent) * Interval
    BY DEF PaceOK
  <2>4. slot' >= Len(sent) * Interval /\ nextSlot' >= Len(sent) * Interval + Interval
    BY <1>1, <1>3, <2>1, <2>3
  <2>5. nextSlot' >= Len(sent) * Interval /\ nextSlot' >= (Len(sent) + 1) * Interval
    BY <1>1, <1>2, <1>3, <2>1, <2>3, <2>4
  <2> QED
    BY <2>2, <2>4, <2>5 DEF PaceOK, Sends
<1>5. CASE Send
  <2>1. /\ now >= Len(sent) * Interval /\ nextSlot' >= (Len(sent) + 1) * Interval
        /\ pc' = "wait"
    BY <1>1, <1>3, <1>5 DEF Send, PaceOK
  <2>2. sent'[Len(sent) + 1].at = now
    BY <1>5, SendAppends DEF Packet
  <2>3. ASSUME NEW n \in Sends' PROVE sent'[n].at >= (n - 1) * Interval
    <3>1. CASE n \in Sends
        BY <1>5, <3>1, SendAppends DEF PaceOK
    <3>2. CASE n = Len(sent) + 1
      <4>1. n - 1 = Len(sent)
        BY <1>1, <3>2
      <4> QED
        BY <2>1, <2>2, <3>2, <4>1
    <3> QED
        BY <1>5, <3>1, <3>2, SendAppends
  <2> QED
    BY <1>5, <2>1, <2>3, SendAppends DEF PaceOK
<1>6. CASE UNCHANGED senderVars /\ (pc' = "slot" => pc = "slot")
    BY <1>6 DEF PaceOK, senderVars, Sends
<1> QED
    BY <1>4, <1>5, <1>6, SenderSplit

-----------------------------------------------------------------------------
(* The requests of an attempt and of a frame are integers, None's too.      *)
LEMMA ForType ==
    ASSUME TypeOK
    PROVE  /\ request \in Int /\ active.req \in Int /\ hearing.for.req \in Int
           /\ None.req = -1 /\ hearing.for \in Pendings
<1>1. active \in Pendings /\ hearing.for \in Pendings /\ request \in Int
    BY ExchangeAssumption DEF TypeOK
<1>2. None.req = -1 /\ \A p \in Pendings : p.req \in Int
    BY DEF None, Pendings
<1> QED
    BY <1>1, <1>2

(* Matching: replies are matched with present or former requests, and a     *)
(* request is told of one only after it took one.                           *)
LEMMA MatchStep ==
    ASSUME TypeOK, ControlOK, GuardOK, MatchOK, [Next]_vars
    PROVE  MatchOK'
<1> USE ForType
<1>1. CASE Start
  <2>1. /\ pc = "idle" /\ pc' = "loop"
        /\ UNCHANGED <<request, active, hearing, done, sent>>
    BY <1>1 DEF Start, senderVars
  <2>2. active.req < request /\ hearing.for.req < request
    BY <2>1 DEF MatchOK
  <2> QED
    BY <2>1, <2>2 DEF MatchOK, Running, Sends
<1>2. CASE Activate
  <2>1. /\ pc = "loop" /\ pc' = "build" /\ active'.req = request /\ ~done'
        /\ UNCHANGED <<request, hearing, result, sent>>
    BY <1>2 DEF Activate, senderVars, Pending
  <2> QED
    BY <2>1 DEF MatchOK, Sends
<1>3. ASSUME NEW wall \in 0 .. MaxWall, Build(wall) PROVE MatchOK'
    BY <1>3 DEF Build, MatchOK, Running, Sends
<1>4. CASE Send
  <2>1. /\ pc = "slot" /\ pc' = "wait"
        /\ UNCHANGED <<request, active, hearing, result, done>>
    BY <1>4 DEF Send
  <2>2. Sends \subseteq Sends'
    BY <1>4, SendAppends
  <2> QED
    BY <2>1, <2>2 DEF MatchOK, Running
<1>5. CASE Timeout
  <2>1. /\ pc = "wait" /\ pc' = "loop" /\ (active' = None \/ active' = active)
        /\ UNCHANGED <<request, hearing, result, done, sent>>
    BY <1>5 DEF Timeout, senderVars
  <2>2. request \in RequestIds
    BY <2>1 DEF ControlOK
  <2>3. active'.req <= request
    BY <2>1, <2>2 DEF MatchOK, RequestIds
  <2> QED
    BY <2>1, <2>3 DEF MatchOK, Running, Sends
<1>6. CASE ErrNoReply \/ Answered \/ Fail
  <2>1. /\ pc # "idle" /\ pc' = "idle"
        /\ UNCHANGED <<active, hearing, done, sent, result>>
    BY <1>6 DEF ErrNoReply, Answered, Fail, End, senderVars
  <2>2. request' > request /\ request' \in Int
    BY <1>6, <2>1, ExchangeAssumption
    DEF ErrNoReply, Answered, Fail, End, ControlOK, RequestIds
  <2>3. active.req < request' /\ hearing.for.req < request'
    BY <2>2 DEF MatchOK
  <2> QED
    BY <2>1, <2>2, <2>3 DEF MatchOK, Running, Sends
<1>7. ASSUME NEW n \in Sends, Hear(n) PROVE MatchOK'
  <2>1. /\ hearing'.send = n /\ hearing'.for = active /\ ~hearing'.matched
        /\ UNCHANGED <<pc, request, active, result, done, sent>>
    BY <1>7 DEF Hear, Frame, sessionVars, senderVars
  <2> QED
    BY <2>1 DEF MatchOK, Running, Sends
<1>8. CASE Match
  <2> DEFINE q == hearing.for.req
  <2>1. /\ hearing # Deaf /\ hearing.send \in Sends
        /\ UNCHANGED <<pc, request, active, done, sent>>
    BY <1>8 DEF Match, MatchOK, senderVars
  <2>2. CASE Matches(hearing.send, q)
    <3>1. /\ hearing'.send = hearing.send /\ hearing'.for = hearing.for
          /\ result' = IF pc # "idle" /\ q = request THEN hearing.send ELSE result
        BY <1>8, <2>2 DEF Match, Frame
    <3> QED
        BY <2>1, <3>1 DEF MatchOK, Running, Sends
  <2>3. CASE ~Matches(hearing.send, q)
    <3>1. hearing' = Deaf /\ UNCHANGED result
        BY <1>8, <2>3 DEF Match
    <3>2. ~Deaf.matched /\ Deaf.for = None
        BY DeafType DEF Deaf, Frame
    <3>3. -1 <= request /\ (pc = "idle" => -1 < request)
        BY ExchangeAssumption DEF TypeOK
    <3> QED
        BY <2>1, <3>1, <3>2, <3>3 DEF MatchOK, Running, Sends
  <2> QED
    BY <2>2, <2>3
<1>9. CASE Signal
  <2>1. /\ hearing.matched /\ hearing' = Deaf /\ (active' = None \/ active' = active)
        /\ UNCHANGED <<pc, request, result, sent>>
    BY <1>9 DEF Signal, sessionVars, senderVars
  <2>2. ~Deaf.matched /\ Deaf.for = None
    BY DeafType DEF Deaf, Frame
  <2>3. -1 <= request /\ (pc = "idle" => -1 < request)
    BY ExchangeAssumption DEF TypeOK
  <2>4. ASSUME done', Running' PROVE result' \in Sends'
    <3>1. CASE done
        BY <2>1, <2>4, <3>1 DEF MatchOK, Running, Sends
    <3>2. CASE pc # "idle" /\ hearing.for = Pending(request, attempt)
      <4>1. hearing.for.req = request
        BY <3>2 DEF Pending
      <4> QED
        BY <2>1, <3>2, <4>1 DEF MatchOK, Sends
    <3> QED
        BY <1>9, <2>4, <3>1, <3>2 DEF Signal
  <2> QED
    BY <2>1, <2>2, <2>3, <2>4 DEF MatchOK
<1>10. ASSUME NEW n \in Sends, Receive(n) PROVE MatchOK'
    BY <1>10 DEF Receive, sessionVars, senderVars, MatchOK, Running, Sends
<1>11. CASE Tick
    BY <1>11 DEF Tick, sessionVars, senderVars, MatchOK, Running, Sends
<1>12. CASE UNCHANGED vars
    BY <1>12 DEF vars, sessionVars, senderVars, MatchOK, Running, Sends
<1> QED
    BY <1>1, <1>2, <1>3, <1>4, <1>5, <1>6, <1>7, <1>8, <1>9, <1>10, <1>11, <1>12
    DEF Next, Caller

(* Routing: a login sent along a path was sent when there was one, so that  *)
(* its answer leaves it in place.                                           *)
LEMMA PathStep ==
    ASSUME TypeOK, MatchOK, PathOK, [Next]_vars
    PROVE  PathOK'
<1>1. ASSUME NEW wall \in 0 .. MaxWall, Build(wall) PROVE PathOK'
  <2>1. packet'.route = "direct" => pathKnown
    BY <1>1 DEF Build, Packet, Direct
  <2> QED
    BY <1>1, <2>1 DEF Build, PathOK, KnownPathIsThere, pathVars, Sends
<1>2. CASE Send
  <2>1. UNCHANGED <<packet, pathKnown, outPath>>
    BY <1>2 DEF Send, pathVars
  <2>2. sent'[Len(sent) + 1].route = packet.route
    BY <1>2, SendAppends DEF Packet
  <2>3. \A n \in Sends' : sent'[n].route = "direct" => outPath # "none"
    BY <1>2, <2>2, SendAppends DEF PathOK
  <2> QED
    BY <2>1, <2>3 DEF PathOK, KnownPathIsThere
<1>3. CASE Answered
  <2>1. UNCHANGED <<packet, sent>> /\ done /\ Running
    BY <1>3 DEF Answered, senderVars, Running
  <2>2. result \in Sends
    BY <2>1 DEF MatchOK
  <2>3. sent[result].route \in {"direct", "flood"}
    BY <2>2, SentType DEF Routes
  <2>4. outPath' = "learned" \/ outPath' = outPath
    BY <1>3 DEF Answered, AdoptPath, pathVars
  <2>5. pathKnown' => outPath' # "none"
    <3>1. CASE request = 0
      <4>1. outPath' = IF sent[result].route = "flood" THEN "learned" ELSE outPath
        BY <1>3, <3>1 DEF Answered, AdoptPath
      <4> QED
        BY <2>2, <2>3, <4>1 DEF PathOK
    <3>2. CASE request # 0
        BY <1>3, <3>2 DEF Answered, pathVars, PathOK, KnownPathIsThere
    <3> QED
        BY <3>1, <3>2
  <2> QED
    BY <2>1, <2>4, <2>5 DEF PathOK, KnownPathIsThere, Sends
<1>4. CASE UNCHANGED <<packet, sent, pathKnown, outPath>>
    BY <1>4 DEF PathOK, KnownPathIsThere, Sends
<1> QED
    BY <1>1, <1>2, <1>3, <1>4
    DEF Next, Caller, Start, Activate, Timeout, ErrNoReply, Fail, Hear, Match, Signal, Receive,
        Tick, vars, senderVars, pathVars

-----------------------------------------------------------------------------
(* The invariant is inductive.                                              *)
LEMMA InvariantStep == IInv /\ [Next]_vars => IInv'
BY TypeStep, ControlStep, StampsStep, GuardStep, PaceStep, MatchStep, PathStep DEF IInv

(* So it holds in every state of the exchange.                              *)
LEMMA InvariantHolds == Spec => []IInv
BY InitEstablishes, InvariantStep, PTL DEF Spec

(* The session, the radio and the repeater keep their types.                *)
THEOREM TypeCorrect == Spec => []TypeOK
<1>1. IInv => TypeOK
    BY DEF IInv
<1> QED
    BY InvariantHolds, <1>1, PTL

(* The repeater runs the sends in the order of their sending, each at most  *)
(* once, however the mesh delays or repeats them and the wall clock jumps.  *)
THEOREM RunsInOrder == Spec => []SendsRunInOrder
<1>1. IInv => SendsRunInOrder
    BY DEF IInv, GuardOK, SendsRunInOrder
<1> QED
    BY InvariantHolds, <1>1, PTL

(* A packet none later than which arrived is never dropped as a replay.     *)
THEOREM FreshSendsRun == Spec => []FreshSendsAreNotReplays
<1>1. ASSUME IInv, NEW n \in Sends, \A i \in DOMAIN ran : ran[i] < n
      PROVE  sent[n].ts > lastSeen
  <2>1. sent[n].ts \in Nat /\ sent[n].ts > 0 /\ ran \in Seq(Nat)
    BY <1>1, SentType DEF IInv, StampsOK, TypeOK
  <2>2. CASE Len(ran) = 0
    BY <1>1, <2>1, <2>2 DEF IInv, GuardOK
  <2>3. CASE Len(ran) # 0
    <3>1. Len(ran) \in DOMAIN ran
        BY <2>1, <2>3
    <3>2. ran[Len(ran)] \in Sends /\ ran[Len(ran)] < n /\ lastSeen = sent[ran[Len(ran)]].ts
        BY <1>1, <2>3, <3>1 DEF IInv, GuardOK
    <3>3. sent[ran[Len(ran)]].ts < sent[n].ts
        BY <1>1, <3>2 DEF IInv, StampsOK
    <3>4. sent[ran[Len(ran)]].ts \in Nat
        BY <1>1, <3>2, SentType DEF IInv
    <3> QED
        BY <2>1, <3>2, <3>3, <3>4
  <2> QED
    BY <2>2, <2>3
<1>2. IInv => FreshSendsAreNotReplays
    BY <1>1 DEF FreshSendsAreNotReplays
<1> QED
    BY InvariantHolds, <1>2, PTL

(* Whoever knows a path has one: the answer to a direct login wipes none.   *)
THEOREM PathsStay == Spec => []KnownPathIsThere
<1>1. IInv => KnownPathIsThere
    BY DEF IInv, PathOK
<1> QED
    BY InvariantHolds, <1>1, PTL

(* The n-th packet of a session leaves no earlier than n - 1 intervals of it *)
(* have passed.                                                             *)
THEOREM PacingHolds == Spec => []SendsArePaced
<1>1. IInv => SendsArePaced
    BY DEF IInv, PaceOK, SendsArePaced
<1> QED
    BY InvariantHolds, <1>1, PTL

-----------------------------------------------------------------------------
(* What a console rests on: requests take turns on the air, none is sent     *)
(* more often than it may be, and what is taken for an answer is one.       *)

(* The packets of a request.                                                *)
SendsOf(q) == {n \in Sends : sent[n].req = q}

(* The sends the repeater executed, and so replied to.                      *)
Ran == {ran[i] : i \in DOMAIN ran}

(* Packets of one request follow those of the one before, and are as many as *)
(* its attempts at most (Exchanger.exchange: one request at a time).        *)
RequestsTakeTurns ==
    /\ \A m, n \in Sends : m < n => sent[m].req <= sent[n].req
    /\ \A q \in RequestIds : Cardinality(SendsOf(q)) <= Tries

(* A request is answered by a reply the repeater made to a send of the       *)
(* session, of the login to a login and of a command to a command, and only *)
(* once it was sent itself (exchange.go HandleData, Login, CommandAccept).  *)
AnswersAreReplies ==
    [][\A q \in RequestIds : outcome[q] # "answered" /\ outcome'[q] = "answered"
        => /\ q = request /\ SendsOf(q) # {}
           /\ result \in Ran /\ Matches(result, q) /\ sent[result].req <= q]_vars

(* The request under way is the last one sent; each attempt sends one packet.*)
TurnsOK ==
    /\ \A n \in Sends : sent[n].req <= request /\ (pc = "idle" => sent[n].req < request)
    /\ \A m, n \in Sends : m < n => sent[m].req <= sent[n].req
    /\ pc = "slot" => packet.req = request
    /\ \A q \in RequestIds : q # request => Cardinality(SendsOf(q)) <= Tries
    /\ pc \in {"loop", "build", "slot"} => Cardinality(SendsOf(request)) <= attempt - 1
    /\ pc = "wait" => Cardinality(SendsOf(request)) <= attempt /\ SendsOf(request) # {}

(* Whatever is matched, or was taken as the result, is such a reply.        *)
AnswerOK ==
    /\ hearing # Deaf => hearing.send \in Ran
    /\ hearing.matched => Matches(hearing.send, hearing.for.req)
    /\ pc # "idle" /\ result # 0 => result \in Ran /\ Matches(result, request)

(* The packets of a request are finitely many.                              *)
LEMMA SendsOfFinite ==
    ASSUME TypeOK, NEW q
    PROVE  IsFiniteSet(SendsOf(q)) /\ Cardinality(SendsOf(q)) \in Nat
<1> DEFINE l == Len(sent)
<1>1. l \in Nat /\ SendsOf(q) \subseteq 1 .. l
    BY DEF TypeOK, SendsOf, Sends
<1>2. IsFiniteSet(1 .. l)
    BY <1>1, FS_Interval
<1> HIDE DEF l
<1> QED
    BY <1>1, <1>2, FS_Subset, FS_CardinalityType

(* Requests are numbers, and their number's packets are the session's.      *)
LEMMA RequestTypes ==
    ASSUME TypeOK
    PROVE  /\ request \in Nat /\ attempt \in Nat /\ Tries \in Nat \ {0}
           /\ \A n \in Sends : sent[n].req \in Nat
<1>1. \A n \in Sends : sent[n] \in Packets
    BY SentType
<1> QED
    BY <1>1, ExchangeAssumption DEF TypeOK, Packets

(* Turns: a request ends before the next begins, and sends once an attempt.  *)
LEMMA TurnsStep ==
    ASSUME TypeOK, ControlOK, TurnsOK, [Next]_vars
    PROVE  TurnsOK'
<1> USE RequestTypes
<1>1. CASE Start
  <2>1. pc = "idle" /\ pc' = "loop" /\ attempt' = 1 /\ UNCHANGED <<request, packet, sent>>
    BY <1>1 DEF Start, senderVars
  <2>2. SendsOf(request) = {} /\ \A q : SendsOf(q)' = SendsOf(q)
    BY <2>1 DEF TurnsOK, SendsOf, Sends
  <2>3. Cardinality(SendsOf(request)') <= attempt' - 1
    BY <2>1, <2>2, FS_EmptySet
  <2> QED
    BY <2>1, <2>2, <2>3 DEF TurnsOK, Sends
<1>2. CASE Send
  <2> DEFINE s == Len(sent) + 1
  <2>1. /\ pc = "slot" /\ pc' = "wait" /\ packet.req = request
        /\ UNCHANGED <<request, attempt>> /\ request \in RequestIds
    BY <1>2 DEF Send, TurnsOK, ControlOK
  <2>2. /\ Sends' = Sends \cup {s} /\ s \notin Sends /\ s \in Nat
        /\ \A n \in Sends : n \in Nat /\ n < s /\ sent'[n] = sent[n]
    BY <1>2, SendAppends DEF TypeOK, Sends
  <2>3. sent'[s].req = request
    BY <1>2, <2>1, SendAppends DEF Packet
  <2> HIDE DEF s
  <2>4. SendsOf(request)' = SendsOf(request) \cup {s} /\ s \notin SendsOf(request)
    BY <2>1, <2>2, <2>3 DEF SendsOf
  <2>5. \A q : q # request => SendsOf(q)' = SendsOf(q)
    BY <2>1, <2>2, <2>3 DEF SendsOf
  <2>6. Cardinality(SendsOf(request)') = Cardinality(SendsOf(request)) + 1
    BY <2>4, SendsOfFinite, FS_AddElement
  <2>7. /\ Cardinality(SendsOf(request)') <= attempt' /\ SendsOf(request)' # {}
        /\ \A q \in RequestIds : q # request' => Cardinality(SendsOf(q)') <= Tries
    BY <2>1, <2>4, <2>5, <2>6, SendsOfFinite DEF TurnsOK
  <2>8. /\ \A n \in Sends' : sent'[n].req <= request'
        /\ \A m, n \in Sends' : m < n => sent'[m].req <= sent'[n].req
    BY <2>1, <2>2, <2>3 DEF TurnsOK
  <2> QED
    BY <2>1, <2>7, <2>8 DEF TurnsOK
<1>3. CASE ErrNoReply \/ Answered \/ Fail
  <2>1. pc # "idle" /\ pc' = "idle" /\ UNCHANGED <<packet, sent>> /\ request \in RequestIds
    BY <1>3 DEF ErrNoReply, Answered, Fail, End, senderVars, ControlOK
  <2>2. request' > request /\ request' \in Nat
    BY <1>3, <2>1, ExchangeAssumption DEF ErrNoReply, Answered, Fail, End, RequestIds
  <2>3. Cardinality(SendsOf(request)) <= Tries
    <3>1. pc = "wait" => attempt <= Tries
      BY DEF ControlOK, Running
    <3>2. attempt <= Tries + 1 /\ pc \in {"loop", "build", "slot", "wait"}
      BY <2>1, ExchangeAssumption DEF TypeOK
    <3>3. Cardinality(SendsOf(request)) \in Nat
      BY SendsOfFinite
    <3> QED
      BY <3>1, <3>2, <3>3 DEF TurnsOK
  <2>4. \A q : SendsOf(q)' = SendsOf(q)
    BY <2>1 DEF SendsOf, Sends
  <2>5. \A q \in RequestIds : Cardinality(SendsOf(q)') <= Tries
    BY <2>3, <2>4 DEF TurnsOK
  <2>6. \A n \in Sends' : sent'[n].req < request' /\ sent'[n].req <= request'
    BY <2>1, <2>2 DEF TurnsOK, Sends
  <2> QED
    BY <2>1, <2>5, <2>6 DEF TurnsOK, Sends
<1>4. CASE Timeout
  <2>1. /\ pc = "wait" /\ pc' = "loop" /\ attempt' = attempt + 1
        /\ UNCHANGED <<request, packet, sent>>
    BY <1>4 DEF Timeout, senderVars
  <2>2. \A q : SendsOf(q)' = SendsOf(q)
    BY <2>1 DEF SendsOf, Sends
  <2> QED
    BY <2>1, <2>2, SendsOfFinite DEF TurnsOK, Sends
<1>5. CASE Activate \/ \E wall \in 0 .. MaxWall : Build(wall)
  <2>1. /\ pc \in {"loop", "build"} /\ pc' \in {"build", "slot"}
        /\ pc' = "slot" => packet'.req = request
        /\ UNCHANGED <<request, attempt, sent>>
    BY <1>5 DEF Activate, Build, Packet, senderVars
  <2>2. \A q : SendsOf(q)' = SendsOf(q)
    BY <2>1 DEF SendsOf, Sends
  <2> QED
    BY <2>1, <2>2 DEF TurnsOK, Sends
<1>6. CASE UNCHANGED <<pc, request, attempt, packet, sent>>
  <2>1. \A q : SendsOf(q)' = SendsOf(q)
    BY <1>6 DEF SendsOf, Sends
  <2> QED
    BY <1>6, <2>1 DEF TurnsOK, Sends
<1>7. \/ Start \/ Send \/ ErrNoReply \/ Answered \/ Fail \/ Timeout \/ Activate
      \/ (\E wall \in 0 .. MaxWall : Build(wall))
      \/ UNCHANGED <<pc, request, attempt, packet, sent>>
    BY DEF Next, Caller, Hear, Match, Signal, Receive, Tick, vars, sessionVars, senderVars
<1> QED
    BY <1>1, <1>2, <1>3, <1>4, <1>5, <1>6, <1>7

(* Replies stay what they are: what ran stays run, and packets stay as sent. *)
LEMMA RepliesStay ==
    ASSUME TypeOK, GuardOK, [Next]_vars
    PROVE  /\ Ran \subseteq Sends /\ Ran \subseteq Ran'
           /\ \A n \in Ran, q \in Int : Matches(n, q)' = Matches(n, q)
<1>1. Ran \subseteq Sends
    BY DEF Ran, GuardOK
<1>2. Ran \subseteq Ran'
  <2>1. ASSUME NEW n \in Sends, Receive(n) PROVE Ran \subseteq Ran'
    <3>1. n \in Nat /\ ran \in Seq(Nat)
      BY DEF TypeOK, Sends
    <3>2. \A i \in DOMAIN ran : i \in DOMAIN ran' /\ ran'[i] = ran[i]
      BY <2>1, <3>1 DEF Receive
    <3> QED
      BY <3>2 DEF Ran
  <2>2. CASE UNCHANGED radioVars
    BY <2>2 DEF Ran, radioVars
  <2> QED
    BY <2>1, <2>2, RadioSplit
<1>3. \A n \in Sends : sent'[n] = sent[n]
  <2>1. CASE Send
    BY <2>1, SendAppends
  <2>2. Send \/ UNCHANGED sent
    BY SenderSplit DEF Build, senderVars
  <2> QED
    BY <2>1, <2>2
<1> QED
    BY <1>1, <1>2, <1>3 DEF Matches

(* Answers: a frame is a reply, and is taken by a request of its kind.      *)
LEMMA AnswerStep ==
    ASSUME TypeOK, GuardOK, AnswerOK, [Next]_vars
    PROVE  AnswerOK'
<1>0. hearing.matched => hearing.send \in Ran /\ hearing.for.req \in Int
    BY DeafType, ForType DEF AnswerOK
<1>1. CASE UNCHANGED <<hearing, result, request>> /\ (pc' # "idle" => pc # "idle")
    BY <1>0, <1>1, RepliesStay, ForType DEF AnswerOK
<1>2. CASE Start
  <2>1. UNCHANGED hearing /\ result' = 0
    BY <1>2 DEF Start
  <2> QED
    BY <1>0, <2>1, RepliesStay, ForType DEF AnswerOK
<1>3. CASE ErrNoReply \/ Answered \/ Fail
  <2>1. pc' = "idle" /\ UNCHANGED hearing
    BY <1>3 DEF ErrNoReply, Answered, Fail, End
  <2> QED
    BY <1>0, <2>1, RepliesStay, ForType DEF AnswerOK
<1>4. ASSUME NEW n \in Sends, Hear(n) PROVE AnswerOK'
  <2>1. /\ hearing'.send = n /\ n \in Ran /\ ~hearing'.matched
        /\ UNCHANGED <<pc, request, result>>
    BY <1>4 DEF Hear, Frame, Ran, sessionVars
  <2> QED
    BY <2>1, RepliesStay, ForType DEF AnswerOK
<1>5. CASE Match
  <2> DEFINE q == hearing.for.req
  <2>1. hearing # Deaf /\ hearing.send \in Ran /\ UNCHANGED <<pc, request>>
    BY <1>5 DEF Match, AnswerOK
  <2>2. CASE Matches(hearing.send, q)
    <3>1. /\ hearing'.send = hearing.send /\ hearing'.for = hearing.for
          /\ result' = IF pc # "idle" /\ q = request THEN hearing.send ELSE result
        BY <1>5, <2>2 DEF Match, Frame
    <3> QED
        BY <1>0, <2>1, <2>2, <3>1, RepliesStay, ForType DEF AnswerOK
  <2>3. CASE ~Matches(hearing.send, q)
    <3>1. hearing' = Deaf /\ UNCHANGED result
        BY <1>5, <2>3 DEF Match
    <3> QED
        BY <2>1, <3>1, DeafType, RepliesStay, ForType DEF AnswerOK
  <2> QED
    BY <2>2, <2>3
<1>6. CASE Signal
  <2>1. hearing' = Deaf /\ UNCHANGED <<pc, request, result>>
    BY <1>6 DEF Signal, sessionVars
  <2> QED
    BY <2>1, DeafType, RepliesStay, ForType DEF AnswerOK
<1>7. \/ Start \/ ErrNoReply \/ Answered \/ Fail \/ Match \/ Signal
      \/ (\E n \in Sends : Hear(n))
      \/ UNCHANGED <<hearing, result, request>> /\ (pc' # "idle" => pc # "idle")
    BY DEF Next, Caller, Activate, Build, Send, Timeout, Receive, Tick, vars, sessionVars
<1> QED
    BY <1>1, <1>2, <1>3, <1>4, <1>5, <1>6, <1>7

(* Both hold of every session.                                              *)
LEMMA TurnsHold == Spec => [](IInv /\ TurnsOK /\ AnswerOK)
<1>1. Init => TurnsOK /\ AnswerOK
  <2> SUFFICES ASSUME Init PROVE TurnsOK /\ AnswerOK
    OBVIOUS
  <2>1. Sends = {} /\ pc = "idle" /\ hearing = Deaf /\ ~Deaf.matched
    BY DeafType DEF Init, Sends
  <2>2. \A q : SendsOf(q) = {}
    BY <2>1 DEF SendsOf
  <2>3. \A q \in RequestIds : Cardinality(SendsOf(q)) <= Tries
    BY <2>2, FS_EmptySet, ExchangeAssumption
  <2> QED
    BY <2>1, <2>3 DEF TurnsOK, AnswerOK
<1>2. IInv /\ TurnsOK /\ AnswerOK /\ [Next]_vars => TurnsOK' /\ AnswerOK'
    BY TurnsStep, AnswerStep DEF IInv
<1> QED
    BY <1>1, <1>2, InvariantHolds, PTL DEF Spec

(* Requests take turns on the air, and none is sent more often than Tries.  *)
THEOREM TurnsAreTaken == Spec => []RequestsTakeTurns
<1>1. IInv /\ TurnsOK => RequestsTakeTurns
  <2> SUFFICES ASSUME IInv, TurnsOK PROVE RequestsTakeTurns
    OBVIOUS
  <2>1. TypeOK /\ ControlOK
    BY DEF IInv
  <2>2. ASSUME request \in RequestIds PROVE Cardinality(SendsOf(request)) <= Tries
    <3>1. Cardinality(SendsOf(request)) \in Nat /\ attempt <= Tries + 1 /\ Tries \in Nat
      BY <2>1, SendsOfFinite, ExchangeAssumption DEF TypeOK
    <3>2. CASE pc = "idle"
      <4>1. SendsOf(request) = {}
        BY <2>1, <3>2, RequestTypes DEF TurnsOK, SendsOf
      <4> QED
        BY <3>1, <4>1, FS_EmptySet
    <3>3. CASE pc = "wait"
      BY <2>1, <3>1, <3>3, RequestTypes DEF ControlOK, Running, TurnsOK
    <3>4. CASE pc \in {"loop", "build", "slot"}
      BY <2>1, <3>1, <3>4, RequestTypes DEF TurnsOK
    <3> QED
      BY <2>1, <3>2, <3>3, <3>4 DEF TypeOK
  <2> QED
    BY <2>2 DEF TurnsOK, RequestsTakeTurns
<1> QED
    BY <1>1, TurnsHold, PTL

(* What a request takes as its answer is a reply, made to a send of its kind *)
(* and of its session, not later than its own.                              *)
THEOREM AnswersAreRepliesHolds == Spec => AnswersAreReplies
<1> DEFINE Taken == \A q \in RequestIds : outcome[q] # "answered" /\ outcome'[q] = "answered"
        => /\ q = request /\ SendsOf(q) # {}
           /\ result \in Ran /\ Matches(result, q) /\ sent[result].req <= q
<1>1. ASSUME IInv, TurnsOK, AnswerOK, [Next]_vars PROVE Taken
  <2>1. CASE Answered
    <3>1. pc = "wait" /\ done /\ outcome' = [outcome EXCEPT ![request] = "answered"]
      BY <2>1 DEF Answered, End
    <3>2. result \in Sends /\ result # 0
      BY <1>1, <3>1 DEF IInv, MatchOK, Running, Sends
    <3>3. result \in Ran /\ Matches(result, request) /\ sent[result].req <= request
      BY <1>1, <3>1, <3>2 DEF AnswerOK, TurnsOK
    <3>4. \A q \in RequestIds : q # request => outcome'[q] = outcome[q]
      BY <1>1, <3>1 DEF IInv, TypeOK
    <3>5. SendsOf(request) # {}
      BY <1>1, <3>1 DEF TurnsOK
    <3> QED
      BY <3>3, <3>4, <3>5
  <2>2. CASE ErrNoReply \/ Fail
    <3>1. \A q \in RequestIds : outcome'[q] # outcome[q] => outcome'[q] \in {"noreply", "error"}
      BY <1>1, <2>2 DEF ErrNoReply, Fail, End, IInv, TypeOK
    <3> QED
      BY <3>1
  <2>3. Answered \/ ErrNoReply \/ Fail \/ UNCHANGED outcome
    BY <1>1 DEF Next, Caller, Start, Activate, Build, Send, Timeout, Hear, Match, Signal, Receive,
                Tick, vars, sessionVars
  <2> QED
    BY <2>1, <2>2, <2>3
<1> QED
    BY <1>1, TurnsHold, PTL DEF Spec, AnswersAreReplies

-----------------------------------------------------------------------------

\* How the three goroutines of run k share out the members in flight. Each is in one
\* place only: the message being sent, one message that waits, or those being queued.
Shared(k) ==
    /\ state[k] = "off" => ackPc[k] = "off" /\ txPc[k] = "off" /\ tx[k] = <<>>
    /\ txPc[k] \in {"off", "idle"} => msg[k] = {}
    /\ txPc[k] = "mark" => msg[k] \subseteq copied
    /\ msg[k] \subseteq inFlight[k]
    /\ \A i \in DOMAIN tx[k] : tx[k][i] \subseteq inFlight[k] /\ tx[k][i] \cap msg[k] = {}
    /\ \A i, j \in DOMAIN tx[k] : i # j => tx[k][i] \cap tx[k][j] = {}
    /\ ackPc[k] = "queue" =>
        /\ due[k] \subseteq inFlight[k] /\ due[k] \cap msg[k] = {}
        /\ \A i \in DOMAIN tx[k] : due[k] \cap tx[k][i] = {}
    /\ \A m \in inFlight[k] :
        \/ m \in msg[k]
        \/ ackPc[k] = "queue" /\ m \in due[k]
        \/ \E i \in DOMAIN tx[k] : m \in tx[k][i]

ModemInv == ModemTypeOK /\ AiredWereCopied /\ \A k \in Runs : Shared(k)

\* What Shared(k) is about, and the storing, are left alone.
Rests(k) ==
    /\ UNCHANGED <<txPc[k], msg[k], inFlight[k], tx[k], ackPc[k], due[k]>>
    /\ copied \subseteq copied' /\ (state'[k] = "off" => state[k] = "off")

LEMMA RestsShared == ASSUME NEW k \in Runs, Shared(k), Rests(k) PROVE Shared(k)'
  BY DEF Rests, Shared

LEMMA ModemInvInit == ModemInit => ModemInv
  BY NetModemAssumption DEF ModemInit, ModemInv, ModemTypeOK, AiredWereCopied, Shared

-----------------------------------------------------------------------------
\* Queueing a message of S keeps the queue typed and within its bound.
LEMMA QueueTyped ==
    ASSUME ModemTypeOK, NEW k \in Runs, NEW S \in SUBSET Members, QueueMessage(k, S)
    PROVE  /\ tx' \in [Runs -> Seq(SUBSET Members)] /\ \A j \in Runs : Len(tx'[j]) <= TxQueue
           /\ inFlight' \in [Runs -> SUBSET Members]
           /\ \A j \in Runs \ {k} : tx'[j] = tx[j] /\ inFlight'[j] = inFlight[j]
<1>1. CASE Len(tx[k]) < TxQueue
  <2>1. /\ Append(tx[k], S) \in Seq(SUBSET Members)
        /\ Len(Append(tx[k], S)) = Len(tx[k]) + 1
    BY DEF ModemTypeOK
  <2>2. tx' = [tx EXCEPT ![k] = Append(tx[k], S)] /\ inFlight' = inFlight
    BY <1>1 DEF ModemTypeOK, QueueMessage
  <2>3. Len(Append(tx[k], S)) <= TxQueue
    BY <1>1, <2>1, NetModemAssumption DEF ModemTypeOK
  <2> QED
    BY <2>1, <2>2, <2>3 DEF ModemTypeOK
<1>2. CASE ~(Len(tx[k]) < TxQueue)
  BY <1>2 DEF ModemTypeOK, QueueMessage
<1> QED
  BY <1>1, <1>2

LEMMA ConnectStep == ASSUME ModemInv, NEW k \in Runs, Connect(k) PROVE ModemInv'
<1> USE DEF ModemInv, Connect, rosterVars, airVars
<1>1. ModemTypeOK'
  BY DEF ModemTypeOK
<1>2. AiredWereCopied'
  BY DEF AiredWereCopied
<1>3. ASSUME NEW j \in Runs PROVE Shared(j)'
  BY DEF Shared, ModemTypeOK
<1> QED
  BY <1>1, <1>2, <1>3

LEMMA DisconnectStep == ASSUME ModemInv, NEW k \in Runs, Disconnect(k) PROVE ModemInv'
<1> USE DEF ModemInv, Disconnect, rosterVars, airVars, ackVars, txVars
<1>1. ModemTypeOK'
  BY DEF ModemTypeOK
<1>2. AiredWereCopied'
  BY DEF AiredWereCopied
<1>3. ASSUME NEW j \in Runs PROVE Shared(j)'
  BY RestsShared DEF Rests, ModemTypeOK
<1> QED
  BY <1>1, <1>2, <1>3

LEMMA CheckInStep == ASSUME ModemInv, NEW m \in Members, CheckIn(m) PROVE ModemInv'
<1> USE DEF ModemInv, CheckIn, ackVars, txVars, airVars
<1>1. ModemTypeOK'
  BY DEF ModemTypeOK
<1>2. AiredWereCopied'
  BY DEF AiredWereCopied
<1>3. ASSUME NEW j \in Runs PROVE Shared(j)'
  BY RestsShared DEF Rests
<1> QED
  BY <1>1, <1>2, <1>3

LEMMA ReadRosterStep == ASSUME ModemInv, NEW k \in Runs, ReadRoster(k) PROVE ModemInv'
<1> USE DEF ModemInv, ReadRoster, rosterVars, airVars, txVars
<1>1. ModemTypeOK'
  BY DEF ModemTypeOK, ReadyMembers
<1>2. AiredWereCopied'
  BY DEF AiredWereCopied
<1>3. ASSUME NEW j \in Runs PROVE Shared(j)'
  BY DEF Shared, ModemTypeOK
<1> QED
  BY <1>1, <1>2, <1>3

\* Whom the roster named and the other goroutine has not got: their place is the list
\* being queued.
LEMMA SelectDueStep == ASSUME ModemInv, NEW k \in Runs, SelectDue(k) PROVE ModemInv'
<1> USE DEF ModemInv, SelectDue, rosterVars, airVars, txVars
<1>1. ModemTypeOK'
  BY DEF ModemTypeOK
<1>2. AiredWereCopied'
  BY DEF AiredWereCopied
<1>3. ASSUME NEW j \in Runs PROVE Shared(j)'
  BY DEF Shared, ModemTypeOK
<1> QED
  BY <1>1, <1>2, <1>3

\* A part of those being queued moves to a message, or is given back; an announcement is
\* a message of nobody.
LEMMA QueueStep ==
    ASSUME ModemInv, NEW k \in Runs, NEW S \in SUBSET Members, QueueMessage(k, S),
           S = {} \/ (ackPc[k] = "queue" /\ S \subseteq due[k]), state[k] # "off",
           due' = [due EXCEPT ![k] = @ \ S],
           UNCHANGED <<rosterVars, lock, state, ackPc, txVars, airVars>>
    PROVE  ModemInv'
<1> USE DEF ModemInv, rosterVars, airVars, txVars
<1>1. ModemTypeOK'
  BY QueueTyped DEF ModemTypeOK
<1>2. AiredWereCopied'
  BY DEF AiredWereCopied
<1>3. ASSUME NEW j \in Runs \ {k} PROVE Shared(j)'
  <2>1. tx'[j] = tx[j] /\ inFlight'[j] = inFlight[j]
    BY QueueTyped
  <2> QED
    BY <2>1, RestsShared DEF Rests, ModemTypeOK
<1>4. Shared(k)'
  <2>1. /\ due'[k] = due[k] \ S /\ msg'[k] = msg[k] /\ ackPc'[k] = ackPc[k]
        /\ txPc'[k] = txPc[k] /\ copied' = copied /\ state' = state
    BY DEF ModemTypeOK
  <2>2. CASE Len(tx[k]) < TxQueue
    <3> DEFINE n == Len(tx[k]) + 1
    <3>1. tx'[k] = Append(tx[k], S) /\ inFlight'[k] = inFlight[k]
      BY <2>2 DEF QueueMessage, ModemTypeOK
    <3>2. tx[k] \in Seq(SUBSET Members)
      BY DEF ModemTypeOK
    <3>3. /\ DOMAIN tx'[k] = (DOMAIN tx[k]) \union {n} /\ n \notin DOMAIN tx[k]
          /\ tx'[k][n] = S /\ \A i \in DOMAIN tx[k] : tx'[k][i] = tx[k][i]
      <4>1. Len(tx[k]) \in Nat /\ DOMAIN tx[k] = 1..Len(tx[k])
        BY <3>2
      <4>2. DOMAIN Append(tx[k], S) = 1..n
        BY <3>2
      <4> QED
        BY <3>1, <3>2, <4>1, <4>2
    <3> HIDE DEF n
    <3>4. /\ S \subseteq inFlight[k] /\ S \cap msg[k] = {}
          /\ \A i \in DOMAIN tx[k] : S \cap tx[k][i] = {}
      BY DEF Shared
    <3>5. /\ \A i \in DOMAIN tx'[k] : tx'[k][i] \subseteq inFlight[k] /\ tx'[k][i] \cap msg[k] = {}
          /\ \A i, j \in DOMAIN tx'[k] : i # j => tx'[k][i] \cap tx'[k][j] = {}
      BY <3>3, <3>4 DEF Shared
    <3>6. ackPc[k] = "queue" => \A i \in DOMAIN tx'[k] : (due[k] \ S) \cap tx'[k][i] = {}
      BY <3>3, <3>4 DEF Shared
    <3>7. \A m \in inFlight[k] :
            \/ m \in msg[k]
            \/ ackPc[k] = "queue" /\ m \in due[k] \ S
            \/ \E i \in DOMAIN tx'[k] : m \in tx'[k][i]
      BY <3>3 DEF Shared
    <3> QED
      BY <2>1, <3>1, <3>5, <3>6, <3>7 DEF Shared
  <2>3. CASE ~(Len(tx[k]) < TxQueue)
    <3>1. tx'[k] = tx[k] /\ inFlight'[k] = inFlight[k] \ S
      BY <2>3 DEF QueueMessage, ModemTypeOK
    <3> QED
      BY <2>1, <3>1 DEF Shared
  <2> QED
    BY <2>2, <2>3
<1> QED
  BY <1>1, <1>2, <1>3, <1>4

LEMMA QueueAcksStep == ASSUME ModemInv, NEW k \in Runs, QueueAcks(k) PROVE ModemInv'
<1>1. CASE due[k] = {} /\ ackPc' = [ackPc EXCEPT ![k] = "wait"] /\ UNCHANGED <<tx, inFlight, due>>
  <2> USE <1>1 DEF ModemInv, QueueAcks, rosterVars, airVars, txVars
  <2>1. ModemTypeOK'
    BY DEF ModemTypeOK
  <2>2. AiredWereCopied'
    BY DEF AiredWereCopied
  <2>3. ASSUME NEW j \in Runs PROVE Shared(j)'
    BY DEF Shared, ModemTypeOK
  <2> QED
    BY <2>1, <2>2, <2>3
<1>2. ASSUME NEW S \in SUBSET due[k], QueueMessage(k, S), due' = [due EXCEPT ![k] = @ \ S],
             UNCHANGED ackPc
      PROVE  ModemInv'
  <2>1. S \in SUBSET Members
    BY <1>2 DEF ModemInv, ModemTypeOK
  <2>2. state[k] # "off"
    BY DEF QueueAcks, ModemInv, Shared
  <2> QED
    BY <1>2, <2>1, <2>2, QueueStep DEF QueueAcks
<1> QED
  BY <1>1, <1>2 DEF QueueAcks

LEMMA AnnounceStep == ASSUME ModemInv, NEW k \in Runs, Announce(k) PROVE ModemInv'
<1>1. due' = [due EXCEPT ![k] = @ \ {}] /\ UNCHANGED ackPc
  BY DEF Announce, ackVars, airVars, ModemInv, ModemTypeOK
<1> QED
  BY <1>1, QueueStep DEF Announce, Live

-----------------------------------------------------------------------------
\* The first message's members move to the one being sent.
LEMMA TakeStep == ASSUME ModemInv, NEW k \in Runs, Take(k) PROVE ModemInv'
<1> USE DEF ModemInv, Take, rosterVars, airVars, ackVars
<1>1. /\ Head(tx[k]) = tx[k][1] /\ Tail(tx[k]) \in Seq(SUBSET Members)
      /\ Len(Tail(tx[k])) = Len(tx[k]) - 1 /\ Len(tx[k]) \in Nat \ {0}
      /\ Head(tx[k]) \in SUBSET Members
  BY DEF ModemTypeOK
<1>2. ModemTypeOK'
  BY <1>1, NetModemAssumption DEF ModemTypeOK
<1>3. AiredWereCopied'
  BY DEF AiredWereCopied
<1>4. ASSUME NEW j \in Runs \ {k} PROVE Shared(j)'
  BY RestsShared DEF Rests, ModemTypeOK
<1>5. Shared(k)'
  <2>1. /\ msg'[k] = tx[k][1] /\ msg[k] = {} /\ txPc'[k] = "send"
        /\ inFlight'[k] = inFlight[k] /\ ackPc'[k] = ackPc[k] /\ due'[k] = due[k]
    BY <1>1 DEF ModemTypeOK, Shared
  <2>2. /\ DOMAIN tx[k] = 1..Len(tx[k]) /\ DOMAIN tx'[k] = 1..(Len(tx[k]) - 1)
        /\ \A i \in DOMAIN tx'[k] : tx'[k][i] = tx[k][i + 1]
    BY <1>1 DEF ModemTypeOK
  <2>3. /\ 1 \in DOMAIN tx[k]
        /\ \A i \in DOMAIN tx'[k] : i + 1 \in DOMAIN tx[k] /\ i + 1 # 1
        /\ \A i, j \in DOMAIN tx'[k] : i # j => i + 1 # j + 1
        /\ \A i \in DOMAIN tx[k] : i = 1 \/ (i - 1 \in DOMAIN tx'[k] /\ (i - 1) + 1 = i)
    BY <1>1, <2>2
  <2>4. /\ \A i \in DOMAIN tx'[k] : tx'[k][i] \subseteq inFlight[k] /\ tx'[k][i] \cap tx[k][1] = {}
        /\ \A i, j \in DOMAIN tx'[k] : i # j => tx'[k][i] \cap tx'[k][j] = {}
        /\ ackPc[k] = "queue" => \A i \in DOMAIN tx'[k] : due[k] \cap tx'[k][i] = {}
    BY <2>2, <2>3 DEF Shared
  <2>5. ASSUME NEW m \in inFlight[k], ~(ackPc[k] = "queue" /\ m \in due[k]), m \notin tx[k][1]
        PROVE  \E i \in DOMAIN tx'[k] : m \in tx'[k][i]
    <3>1. PICK i \in DOMAIN tx[k] : m \in tx[k][i]
      BY <2>1, <2>5 DEF Shared
    <3>2. i - 1 \in DOMAIN tx'[k] /\ (i - 1) + 1 = i
      BY <2>3, <2>5, <3>1
    <3>3. tx'[k][i - 1] = tx[k][i]
      BY <2>2, <3>2
    <3> QED
      BY <3>1, <3>2, <3>3
  <2>6. tx[k][1] \subseteq inFlight[k] /\ (ackPc[k] = "queue" => due[k] \cap tx[k][1] = {})
    BY <2>3 DEF Shared
  <2> QED
    BY <2>1, <2>4, <2>5, <2>6 DEF Shared
<1> QED
  BY <1>2, <1>3, <1>4, <1>5

LEMMA SendStep ==
    ASSUME ModemInv, NEW k \in Runs, SendOK(k) \/ SendFails(k)
    PROVE  ModemInv'
<1> USE DEF ModemInv, SendOK, SendFails, OnAir, rosterVars, airVars, ackVars
<1>1. ModemTypeOK'
  BY DEF ModemTypeOK
<1>2. AiredWereCopied'
  BY DEF AiredWereCopied
<1>3. ASSUME NEW j \in Runs PROVE Shared(j)'
  BY DEF Shared, ModemTypeOK
<1> QED
  BY <1>1, <1>2, <1>3

\* Who is stored was sent, by the step before.
LEMMA MarkAiredStep == ASSUME ModemInv, NEW k \in Runs, MarkAired(k) PROVE ModemInv'
<1> USE DEF ModemInv, MarkAired, ackVars
<1>1. ModemTypeOK'
  BY DEF ModemTypeOK
<1>2. AiredWereCopied'
  BY DEF AiredWereCopied, Shared
<1>3. ASSUME NEW j \in Runs PROVE Shared(j)'
  BY DEF Shared, ModemTypeOK
<1> QED
  BY <1>1, <1>2, <1>3

LEMMA ReleaseStep == ASSUME ModemInv, NEW k \in Runs, Release(k) PROVE ModemInv'
<1> USE DEF ModemInv, Release, rosterVars, airVars, ackVars
<1>1. ModemTypeOK'
  BY DEF ModemTypeOK
<1>2. AiredWereCopied'
  BY DEF AiredWereCopied
<1>3. ASSUME NEW j \in Runs \ {k} PROVE Shared(j)'
  BY RestsShared DEF Rests, ModemTypeOK
<1>4. Shared(k)'
  <2>1. /\ msg'[k] = {} /\ inFlight'[k] = inFlight[k] \ msg[k] /\ tx'[k] = tx[k]
        /\ ackPc'[k] = ackPc[k] /\ due'[k] = due[k] /\ txPc'[k] \in {"idle", "off"}
    BY DEF ModemTypeOK
  <2> QED
    BY <2>1 DEF Shared
<1> QED
  BY <1>1, <1>2, <1>3, <1>4

-----------------------------------------------------------------------------
LEMMA ModemInvStep == ModemInv /\ [ModemNext]_modemVars => ModemInv'
<1> SUFFICES ASSUME ModemInv, [ModemNext]_modemVars PROVE ModemInv'
  OBVIOUS
<1>1. ASSUME NEW k \in Runs, Acknowledge(k) \/ Announce(k) PROVE ModemInv'
  BY <1>1, ReadRosterStep, SelectDueStep, QueueAcksStep, AnnounceStep DEF Acknowledge
<1>2. ASSUME NEW k \in Runs, Transmit(k) \/ SendOK(k) PROVE ModemInv'
  BY <1>2, TakeStep, SendStep, MarkAiredStep, ReleaseStep DEF Transmit
<1>3. ASSUME NEW k \in Runs, Connect(k) \/ Disconnect(k) PROVE ModemInv'
  BY <1>3, ConnectStep, DisconnectStep
<1>4. ASSUME NEW m \in Members, CheckIn(m) PROVE ModemInv'
  BY <1>4, CheckInStep
<1>5. CASE UNCHANGED modemVars
  BY <1>5 DEF ModemInv, ModemTypeOK, AiredWereCopied, Shared, modemVars, rosterVars,
     airVars, ackVars, txVars
<1> QED
  BY <1>1, <1>2, <1>3, <1>4, <1>5 DEF ModemNext

LEMMA ModemInvHolds == ModemSpec => []ModemInv
  BY ModemInvInit, ModemInvStep, PTL DEF ModemSpec

\* The roster, the queue and its bound, and the goroutines' steps keep their types.
THEOREM ModemTypeCorrect == ModemSpec => []ModemTypeOK
<1>1. ModemInv => ModemTypeOK
  BY DEF ModemInv
<1> QED
  BY <1>1, ModemInvHolds, PTL

-----------------------------------------------------------------------------
\* Repeats. Only one run at a time is live; whoever was acknowledged is stored, or being
\* stored by that run, or excused; so nobody whom it has still to acknowledge was
\* acknowledged before, but those excused.
OneLive == \A k \in Runs : state[k] \in {"on", "canceled"} => lock = k

Stored == \A m \in copied \ excused :
    m \in aired \/ \E k \in Runs : Live(k) /\ txPc[k] = "mark" /\ m \in msg[k]

Underway(k) ==
    (IF txPc[k] = "send" THEN msg[k] ELSE {}) \union (IF ackPc[k] = "queue" THEN due[k] ELSE {})
        \union UNION {tx[k][i] : i \in DOMAIN tx[k]}

New(k) == Live(k) => Underway(k) \cap copied \subseteq excused

RepeatInv == OneLive /\ Stored /\ RepeatsAreExcused /\ \A k \in Runs : New(k)

LEMMA RepeatInvInit == ModemInit => RepeatInv
  BY DEF ModemInit, RepeatInv, OneLive, Stored, RepeatsAreExcused, New, Live

\* Nobody new is acknowledged, and no run has more to acknowledge than before but members
\* excused.
LEMMA NothingNew ==
    ASSUME RepeatInv, UNCHANGED <<copied, again>>, excused \subseteq excused',
           \A k \in Runs : Live(k)' => Underway(k)' \subseteq Underway(k) \union excused' /\ Live(k)
    PROVE  RepeatsAreExcused' /\ \A k \in Runs : New(k)'
  BY DEF RepeatInv, RepeatsAreExcused, New

\* The runs other than the one stepping have to acknowledge whom they had.
LEMMA OthersUnderway ==
    ASSUME NEW j \in Runs,
           UNCHANGED <<txPc[j], msg[j], ackPc[j], due[j], tx[j]>>
    PROVE  Underway(j)' = Underway(j)
  BY DEF Underway

LEMMA ConnectRepeats ==
    ASSUME ModemInv, RepeatInv, NEW k \in Runs, Connect(k)
    PROVE  RepeatInv'
<1>0. state[k] = "off" /\ txPc[k] = "off" /\ state'[k] = "on"
  BY DEF Connect, ModemInv, ModemTypeOK, Shared
<1>1. OneLive'
  <2>1. \A j \in Runs : state[j] \notin {"on", "canceled"}
    BY NetModemAssumption DEF Connect, RepeatInv, OneLive
  <2> QED
    BY <2>1 DEF Connect, OneLive, ModemInv, ModemTypeOK
<1>a. Stored'
  <2>1. \A j \in Runs : Live(j) => Live(j)' /\ txPc'[j] = txPc[j]
    BY <1>0 DEF Connect, Live, ModemInv, ModemTypeOK
  <2> QED
    BY <2>1 DEF Connect, RepeatInv, Stored, rosterVars, airVars
<1>2. RepeatsAreExcused'
  BY DEF RepeatInv, RepeatsAreExcused, Connect, airVars
<1>3. New(k)'
  <2>1. tx'[k] = <<>> /\ txPc'[k] = "idle" /\ ackPc'[k] = "wait"
    BY DEF ModemInv, ModemTypeOK, Shared, Connect
  <2>2. Underway(k)' = {}
    BY <2>1 DEF Underway
  <2> QED
    BY <2>2 DEF New
<1>4. ASSUME NEW j \in Runs \ {k} PROVE New(j)'
  <2>1. Underway(j)' = Underway(j)
    BY OthersUnderway DEF Connect, ModemInv, ModemTypeOK
  <2> QED
    BY <2>1 DEF New, Live, Connect, RepeatInv, ModemInv, ModemTypeOK, airVars
<1> QED
  BY <1>1, <1>a, <1>2, <1>3, <1>4 DEF RepeatInv

\* What a run canceled between sending and storing sent is excused.
LEMMA DisconnectRepeats ==
    ASSUME ModemInv, RepeatInv, NEW k \in Runs, Disconnect(k)
    PROVE  RepeatInv'
<1>1. OneLive'
  BY DEF ModemInv, ModemTypeOK, RepeatInv, OneLive, Disconnect
<1>2. Stored'
  <2>1. ASSUME NEW m \in copied, m \notin excused', m \notin aired
        PROVE  \E j \in Runs : Live(j)' /\ txPc[j] = "mark" /\ m \in msg[j]
    <3>1. PICK j \in Runs : Live(j) /\ txPc[j] = "mark" /\ m \in msg[j]
      BY <2>1 DEF Disconnect, RepeatInv, Stored
    <3>2. j # k
      BY <2>1, <3>1 DEF Disconnect, Live
    <3> QED
      BY <3>1, <3>2 DEF Disconnect, Live, ModemInv, ModemTypeOK
  <2> QED
    BY <2>1 DEF Disconnect, Stored, Live, rosterVars, txVars
<1>3. \A j \in Runs : Live(j)' => Underway(j)' \subseteq Underway(j) \union excused' /\ Live(j)
  BY DEF Disconnect, Live, Underway, ModemInv, ModemTypeOK, ackVars, txVars
<1>4. excused \subseteq excused' /\ UNCHANGED <<copied, again>>
  BY DEF Disconnect
<1> QED
  BY <1>1, <1>2, <1>3, <1>4, NothingNew DEF RepeatInv

\* Whom the goroutine picks and who was acknowledged is in flight, or stored by now and
\* so excused.
LEMMA SelectDueRepeats ==
    ASSUME ModemInv, RepeatInv, NEW k \in Runs, SelectDue(k)
    PROVE  RepeatInv'
<1>1. OneLive' /\ Stored'
  BY DEF RepeatInv, OneLive, Stored, SelectDue, Live, rosterVars, txVars
<1>2. RepeatsAreExcused'
  BY DEF RepeatInv, RepeatsAreExcused, SelectDue
<1>3. New(k)'
  <2> SUFFICES ASSUME Live(k), NEW m \in Underway(k)', m \in copied, m \notin excused' PROVE FALSE
    BY DEF New, Live, SelectDue
  <2>1. m \notin Underway(k) /\ m \notin excused
    BY DEF RepeatInv, New, SelectDue
  <2>2. m \in due[k] \ inFlight[k]
    BY <2>1 DEF Underway, SelectDue, ModemInv, ModemTypeOK, txVars
  <2>3. m \notin aired
    BY <2>2 DEF SelectDue
  <2>4. PICK j \in Runs : Live(j) /\ txPc[j] = "mark" /\ m \in msg[j]
    BY <2>1, <2>3 DEF RepeatInv, Stored
  <2>5. j = k
    BY <2>4 DEF RepeatInv, OneLive, Live
  <2> QED
    BY <2>2, <2>4, <2>5 DEF ModemInv, Shared
<1>4. ASSUME NEW j \in Runs \ {k} PROVE New(j)'
  <2>1. Underway(j)' = Underway(j)
    BY OthersUnderway DEF SelectDue, ModemInv, ModemTypeOK, txVars
  <2> QED
    BY <2>1 DEF New, Live, SelectDue, RepeatInv
<1> QED
  BY <1>1, <1>2, <1>3, <1>4 DEF RepeatInv

\* What is queued moves from one place to another, or is given back.
LEMMA QueueUnderway ==
    ASSUME ModemInv, NEW k \in Runs, NEW S \in SUBSET Members, QueueMessage(k, S),
           S = {} \/ (ackPc[k] = "queue" /\ S \subseteq due[k]),
           ackPc'[k] = ackPc[k] /\ due'[k] \subseteq due[k], UNCHANGED <<txPc, msg>>
    PROVE  Underway(k)' \subseteq Underway(k)
<1>1. CASE tx'[k] = tx[k]
  BY <1>1 DEF Underway
<1>2. CASE tx'[k] = Append(tx[k], S)
  <2>1. tx[k] \in Seq(SUBSET Members)
    BY DEF ModemInv, ModemTypeOK
  <2>2. \A i \in DOMAIN tx'[k] : tx'[k][i] = S \/ (i \in DOMAIN tx[k] /\ tx'[k][i] = tx[k][i])
    BY <1>2, <2>1
  <2>3. S \subseteq Underway(k)
    BY DEF Underway
  <2>4. UNION {tx'[k][i] : i \in DOMAIN tx'[k]} \subseteq Underway(k)
    BY <2>2, <2>3 DEF Underway
  <2> QED
    BY <2>4 DEF Underway
<1> QED
  BY <1>1, <1>2 DEF QueueMessage, ModemInv, ModemTypeOK

LEMMA QueueRepeats ==
    ASSUME ModemInv, RepeatInv, NEW k \in Runs, QueueAcks(k) \/ Announce(k)
    PROVE  RepeatInv'
<1>1. OneLive' /\ Stored'
  BY DEF RepeatInv, OneLive, Stored, QueueAcks, Announce, Live, rosterVars, txVars, airVars
<1>2. Underway(k)' \subseteq Underway(k)
  <2>1. ASSUME NEW S \in SUBSET due[k], QueueMessage(k, S), due' = [due EXCEPT ![k] = @ \ S],
               QueueAcks(k), UNCHANGED ackPc
        PROVE  Underway(k)' \subseteq Underway(k)
    <3>1. S \in SUBSET Members /\ due'[k] \subseteq due[k]
      BY <2>1 DEF ModemInv, ModemTypeOK
    <3> QED
      BY <2>1, <3>1, QueueUnderway DEF QueueAcks, txVars
  <2>2. CASE /\ QueueAcks(k) /\ due[k] = {} /\ UNCHANGED <<tx, due>>
             /\ ackPc' = [ackPc EXCEPT ![k] = "wait"]
    BY <2>2 DEF QueueAcks, Underway, ModemInv, ModemTypeOK, txVars
  <2>3. CASE Announce(k)
    BY <2>3, QueueUnderway DEF Announce, ackVars, txVars
  <2> QED
    BY <2>1, <2>2, <2>3 DEF QueueAcks
<1>3. ASSUME NEW j \in Runs \ {k} PROVE Underway(j)' = Underway(j)
  <2>1. tx'[j] = tx[j]
    BY DEF QueueAcks, Announce, QueueMessage, ModemInv, ModemTypeOK
  <2> QED
    BY <2>1, OthersUnderway DEF QueueAcks, Announce, ModemInv, ModemTypeOK, ackVars, txVars
<1>4. \A j \in Runs : Live(j)' => Underway(j)' \subseteq Underway(j) \union excused' /\ Live(j)
  BY <1>2, <1>3 DEF QueueAcks, Announce, Live
<1>5. excused \subseteq excused' /\ UNCHANGED <<copied, again>>
  BY DEF QueueAcks, Announce, airVars
<1> QED
  BY <1>1, <1>4, <1>5, NothingNew DEF RepeatInv

LEMMA TakeRepeats ==
    ASSUME ModemInv, RepeatInv, NEW k \in Runs, Take(k)
    PROVE  RepeatInv'
<1>1. OneLive'
  BY DEF RepeatInv, OneLive, Take
<1>2. Stored'
  <2>1. \A j \in Runs : txPc[j] = "mark" => txPc'[j] = "mark" /\ msg'[j] = msg[j]
    BY DEF Take, ModemInv, ModemTypeOK
  <2> QED
    BY <2>1 DEF RepeatInv, Stored, Take, Live, rosterVars, airVars
<1>3. Underway(k)' \subseteq Underway(k)
  <2>1. /\ tx[k] \in Seq(SUBSET Members) /\ tx[k] # <<>> /\ msg'[k] = Head(tx[k])
        /\ tx'[k] = Tail(tx[k]) /\ ackPc'[k] = ackPc[k] /\ due'[k] = due[k]
    BY DEF Take, ModemInv, ModemTypeOK, ackVars
  <2>2. /\ Head(tx[k]) = tx[k][1] /\ 1 \in DOMAIN tx[k]
        /\ \A i \in DOMAIN Tail(tx[k]) : i + 1 \in DOMAIN tx[k] /\ Tail(tx[k])[i] = tx[k][i + 1]
    BY <2>1
  <2>3. msg'[k] \subseteq Underway(k)
    BY <2>1, <2>2 DEF Underway
  <2>4. \A i \in DOMAIN tx'[k] : tx'[k][i] \subseteq Underway(k)
    BY <2>1, <2>2 DEF Underway
  <2> QED
    BY <2>1, <2>3, <2>4 DEF Underway
<1>4. ASSUME NEW j \in Runs \ {k} PROVE Underway(j)' = Underway(j)
  BY OthersUnderway DEF Take, ModemInv, ModemTypeOK, ackVars
<1>5. \A j \in Runs : Live(j)' => Underway(j)' \subseteq Underway(j) \union excused' /\ Live(j)
  BY <1>3, <1>4 DEF Take, Live
<1>6. excused \subseteq excused' /\ UNCHANGED <<copied, again>>
  BY DEF Take, airVars
<1> QED
  BY <1>1, <1>2, <1>5, <1>6, NothingNew DEF RepeatInv

\* A live run's message is of members never acknowledged, or excused; they are in no
\* other place, and no other run is live.
LEMMA SendOKRepeats ==
    ASSUME ModemInv, RepeatInv, NEW k \in Runs, SendOK(k)
    PROVE  RepeatInv'
<1>0. /\ txPc[k] = "send" /\ Live(k) /\ txPc'[k] = "mark"
      /\ UNCHANGED <<aired, lock, state, tx, inFlight, ackPc, due, msg, excused>>
      /\ copied' = copied \union msg[k] /\ again' = again \union (copied \cap msg[k])
      /\ \A j \in Runs \ {k} : txPc'[j] = txPc[j]
  BY DEF SendOK, OnAir, ModemInv, ModemTypeOK, rosterVars, ackVars
<1>1. OneLive'
  BY <1>0 DEF RepeatInv, OneLive
<1>2. Stored'
  BY <1>0 DEF RepeatInv, Stored, Live
<1>3. RepeatsAreExcused'
  <2>1. msg[k] \subseteq Underway(k)
    BY <1>0 DEF Underway
  <2> QED
    BY <1>0, <2>1 DEF RepeatInv, RepeatsAreExcused, New
<1>4. New(k)'
  <2>1. Underway(k)' \subseteq Underway(k) /\ Underway(k)' \cap msg[k] = {}
    BY <1>0 DEF Underway, ModemInv, Shared
  <2> QED
    BY <1>0, <2>1 DEF RepeatInv, New
<1>5. ASSUME NEW j \in Runs \ {k} PROVE New(j)'
  BY <1>0 DEF RepeatInv, OneLive, New, Live
<1> QED
  BY <1>1, <1>2, <1>3, <1>4, <1>5 DEF RepeatInv

\* A send that fails excuses whomever it acknowledged all the same.
LEMMA SendFailsRepeats ==
    ASSUME ModemInv, RepeatInv, NEW k \in Runs, SendFails(k)
    PROVE  RepeatInv'
<1>0. /\ txPc[k] = "send" /\ txPc'[k] = "release"
      /\ UNCHANGED <<aired, lock, state, tx, inFlight, ackPc, due, msg>>
      /\ \A j \in Runs \ {k} : txPc'[j] = txPc[j]
      /\ copied' \subseteq copied \union (excused' \cap msg[k])
      /\ again' \subseteq again \union (excused' \cap msg[k]) /\ excused \subseteq excused'
  BY DEF SendFails, OnAir, ModemInv, ModemTypeOK, rosterVars, ackVars, airVars
<1>1. OneLive'
  BY <1>0 DEF RepeatInv, OneLive
<1>2. Stored'
  BY <1>0 DEF RepeatInv, Stored, Live
<1>3. RepeatsAreExcused'
  BY <1>0 DEF RepeatInv, RepeatsAreExcused
<1>4. ASSUME NEW j \in Runs PROVE New(j)'
  <2>1. Underway(j)' \subseteq Underway(j)
    BY <1>0 DEF Underway
  <2> QED
    BY <1>0, <2>1 DEF RepeatInv, New, Live
<1> QED
  BY <1>1, <1>2, <1>3, <1>4 DEF RepeatInv

\* What is stored, or fails to be, is accounted for.
LEMMA MarkAiredRepeats ==
    ASSUME ModemInv, RepeatInv, NEW k \in Runs, MarkAired(k)
    PROVE  RepeatInv'
<1>0. /\ txPc[k] = "mark" /\ txPc'[k] = "release"
      /\ UNCHANGED <<copied, again, lock, state, tx, inFlight, ackPc, due, msg>>
      /\ \A j \in Runs \ {k} : txPc'[j] = txPc[j]
      /\ msg[k] \subseteq aired' \union excused'
      /\ aired \subseteq aired' /\ excused \subseteq excused'
  BY DEF MarkAired, ModemInv, ModemTypeOK, ackVars
<1>1. OneLive'
  BY <1>0 DEF RepeatInv, OneLive
<1>2. Stored'
  BY <1>0 DEF RepeatInv, Stored, Live
<1>3. \A j \in Runs : Live(j)' => Underway(j)' \subseteq Underway(j) \union excused' /\ Live(j)
  BY <1>0 DEF Underway, Live
<1> QED
  BY <1>0, <1>1, <1>2, <1>3, NothingNew DEF RepeatInv

\* The other steps touch nothing of this, or take members out of what is under way.
Eases ==
    /\ UNCHANGED <<copied, again, excused, aired, lock, state>>
    /\ \A j \in Runs : txPc[j] = "mark" => txPc'[j] = "mark" /\ msg'[j] = msg[j]
    /\ \A j \in Runs : Underway(j)' \subseteq Underway(j)

LEMMA OtherRepeats ==
    ASSUME ModemInv, RepeatInv,
           \/ \E k \in Runs : ReadRoster(k) \/ Release(k)
           \/ (\E m \in Members : CheckIn(m)) \/ UNCHANGED modemVars
    PROVE  RepeatInv'
<1>1. Eases
  <2> USE DEF Eases, Underway, airVars
  <2>1. ASSUME NEW k \in Runs, ReadRoster(k) PROVE Eases
    BY <2>1 DEF ReadRoster, ModemInv, ModemTypeOK, rosterVars, txVars
  <2>2. ASSUME NEW k \in Runs, Release(k) PROVE Eases
    BY <2>2 DEF Release, ModemInv, ModemTypeOK, rosterVars, ackVars
  <2>3. ASSUME NEW m \in Members, CheckIn(m) PROVE Eases
    BY <2>3 DEF CheckIn, ackVars, txVars
  <2>4. CASE UNCHANGED modemVars
    BY <2>4 DEF modemVars, rosterVars, ackVars, txVars
  <2> QED
    BY <2>1, <2>2, <2>3, <2>4
<1>2. OneLive' /\ Stored'
  BY <1>1 DEF Eases, RepeatInv, OneLive, Stored, Live
<1>3. \A j \in Runs : Live(j)' => Underway(j)' \subseteq Underway(j) \union excused' /\ Live(j)
  BY <1>1 DEF Eases, Live
<1> QED
  BY <1>1, <1>2, <1>3, NothingNew DEF Eases, RepeatInv

LEMMA RepeatInvStep == ModemInv /\ RepeatInv /\ [ModemNext]_modemVars => RepeatInv'
<1> SUFFICES ASSUME ModemInv, RepeatInv, [ModemNext]_modemVars PROVE RepeatInv'
  OBVIOUS
<1>1. ASSUME NEW k \in Runs, Acknowledge(k) \/ Announce(k) PROVE RepeatInv'
  BY <1>1, OtherRepeats, SelectDueRepeats, QueueRepeats DEF Acknowledge
<1>2. ASSUME NEW k \in Runs, Transmit(k) \/ SendOK(k) PROVE RepeatInv'
  BY <1>2, TakeRepeats, SendOKRepeats, SendFailsRepeats, MarkAiredRepeats, OtherRepeats DEF Transmit
<1>3. ASSUME NEW k \in Runs, Connect(k) \/ Disconnect(k) PROVE RepeatInv'
  BY <1>3, ConnectRepeats, DisconnectRepeats
<1> QED
  BY <1>1, <1>2, <1>3, OtherRepeats DEF ModemNext

\* Acknowledgements repeat only where storing one, or a roster read before it was stored,
\* excuses it; none is stored that was not sent; and nobody stays in flight whom no message
\* and no goroutine has.
THEOREM AcknowledgementsHold == ModemSpec => []AcknowledgementsAddUp
<1>1. ModemInv /\ RepeatInv => AcknowledgementsAddUp
  <2> SUFFICES ASSUME ModemInv, RepeatInv
               PROVE  RepeatsAreExcused /\ QueuedOnce /\ AiredWereCopied /\ InFlightIsHandled
    BY DEF AcknowledgementsAddUp
  <2>1. QueuedOnce
    BY DEF ModemInv, Shared, QueuedOnce
  <2>2. InFlightIsHandled
    BY DEF ModemInv, Shared, InFlightIsHandled
  <2> QED
    BY <2>1, <2>2 DEF ModemInv, RepeatInv
<1> QED
  BY <1>1, ModemInvHolds, RepeatInvInit, RepeatInvStep, PTL DEF ModemSpec

=============================================================================
