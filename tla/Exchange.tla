-------------------------------- MODULE Exchange --------------------------------
(***************************************************************************)
(* One console session's exchanges with a repeater over LoRa               *)
(* (internal/mesh: exchange, seqclock, limiter). The console's goroutine   *)
(* sends a request, waits, sends it again; the modem's reading goroutine   *)
(* hands over every frame it hears. The radio loses, delays, reorders and  *)
(* repeats packets in both directions. Request 0 is the login, the others  *)
(* are commands, one at a time.                                            *)
(***************************************************************************)
EXTENDS Integers, Sequences, FiniteSets

CONSTANTS
    Tries,        \* the most sends of one request
    Interval,     \* seconds between two slots of the rate limiter
    PerTry,       \* seconds to wait for a reply before the next send
    MaxRequests,  \* bound: requests of the session, the login included
    MaxNow,       \* bound: time passes this only while the session waits for it
    MaxWall       \* bound: what the wall clock may read

ASSUME ExchangeAssumption ==
    /\ Tries \in Nat \ {0}
    /\ Interval \in Nat
    /\ PerTry \in Nat
    /\ MaxRequests \in Nat
    /\ MaxNow \in Nat
    /\ MaxWall \in Nat

VARIABLES
    now,        \* the monotonic clock
    pc,         \* where the console's goroutine is
    request,    \* the request being exchanged, or to be exchanged next
    attempt,    \* its attempt
    active,     \* the attempt replies are matched with, or None
    hearing,    \* the frame HandleData is busy with, or Deaf
    result,     \* the send whose reply the request took as its own, 0 for none
    done,       \* the present attempt was told of a reply
    outcome,    \* how each request ended
    stamp,      \* SeqClock.last
    nextSlot,   \* RateLimiter.next
    slot,       \* the slot the present attempt reserved
    packet,     \* the packet built for the present attempt
    pathKnown,  \* a route to the repeater is known
    outPath,    \* which
    sent,       \* the packets sent, in order
    lastSeen,   \* the repeater's replay guard for this client
    ran         \* which sends the repeater executed, in order

sessionVars == <<pc, request, attempt, result, outcome>>
senderVars == <<stamp, nextSlot, slot, packet, sent>>
pathVars == <<pathKnown, outPath>>
radioVars == <<lastSeen, ran>>
vars == <<now, sessionVars, active, hearing, done, senderVars, pathVars, radioVars>>

RequestIds == 0 .. MaxRequests - 1
Sends == 1 .. Len(sent)

None == [req |-> -1, try |-> 0]
Pending(q, a) == [req |-> q, try |-> a]

Packet(q, route, ts, at) == [req |-> q, route |-> route, ts |-> ts, at |-> at]

(* The frame's send, the attempt it is matched with, whether it matched. *)
Frame(n, p, matched) == [send |-> n, for |-> p, matched |-> matched]
Deaf == Frame(0, None, FALSE)

Init ==
    /\ now = 0
    /\ pc = "idle" /\ request = 0 /\ attempt = 1
    /\ active = None /\ hearing = Deaf
    /\ result = 0 /\ done = FALSE
    /\ outcome = [q \in RequestIds |-> "open"]
    /\ stamp = 0 /\ nextSlot = 0 /\ slot = 0
    /\ packet = Packet(0, "flood", 0, 0)
    /\ pathKnown \in BOOLEAN
    /\ outPath = IF pathKnown THEN "supplied" ELSE "none"
    /\ sent = <<>>
    /\ lastSeen = 0 /\ ran = <<>>

-----------------------------------------------------------------------------
(* Slip: the wall clock's second as it is. *)
NextStampWall(wall) == wall

(* Slip: a burst within one second shares its timestamp. *)
NextStampSameSecond(wall) == IF wall < stamp THEN stamp ELSE wall

(* SeqClock.Next, whatever the wall clock reads: it may have been set back. *)
NextStamp(wall) == IF wall <= stamp THEN stamp + 1 ELSE wall

(* Slip: a burst reserves the same slot. *)
ReserveSlotNow(at) == nextSlot' = now + Interval /\ slot' = at

(* RateLimiter.Wait up to its unlock: reserve the next slot. *)
ReserveSlot(at) == nextSlot' = at + Interval /\ slot' = at

(* Early attempts go along the known path, later ones flood the mesh. *)
Direct(a) == pathKnown /\ a <= (Tries + 1) \div 2

-----------------------------------------------------------------------------
(* The caller's loop: the next request begins.                              *)
Start ==
    /\ pc = "idle"
    /\ request \in RequestIds
    /\ pc' = "loop" /\ attempt' = 1 /\ result' = 0
    /\ UNCHANGED <<now, request, outcome, active, hearing, done, senderVars, pathVars, radioVars>>

End(result_) ==
    /\ outcome' = [outcome EXCEPT ![request] = result_]
    /\ request' = request + 1
    /\ pc' = "idle"
    /\ UNCHANGED <<attempt, result>>

(* Slip: one attempt too many. *)
ActivateOnceMore ==
    /\ pc = "loop" /\ attempt <= Tries + 1
    /\ active' = Pending(request, attempt)
    /\ done' = FALSE
    /\ pc' = "build"
    /\ UNCHANGED <<now, request, attempt, result, outcome, hearing, senderVars, pathVars, radioVars>>

(* The head of the loop: one more attempt, matched from now on.             *)
Activate ==
    /\ pc = "loop" /\ attempt <= Tries
    /\ active' = Pending(request, attempt)
    /\ done' = FALSE
    /\ pc' = "build"
    /\ UNCHANGED <<now, request, attempt, result, outcome, hearing, senderVars, pathVars, radioVars>>

(* The packet is stamped, then a slot reserved for it.                      *)
Build(wall) ==
    LET ts == NextStamp(wall)
        at == IF nextSlot < now THEN now ELSE nextSlot
    IN  /\ pc = "build"
        /\ stamp' = ts
        /\ packet' = Packet(request, IF Direct(attempt) THEN "direct" ELSE "flood", ts, 0)
        /\ ReserveSlot(at)
        /\ pc' = "slot"
        /\ UNCHANGED <<now, request, attempt, result, outcome, active, hearing, done, sent,
                       pathVars, radioVars>>

Send ==
    /\ pc = "slot" /\ now >= slot
    /\ sent' = Append(sent, Packet(packet.req, packet.route, packet.ts, now))
    /\ pc' = "wait"
    /\ UNCHANGED <<now, request, attempt, result, outcome, active, hearing, done, stamp, nextSlot,
                   slot, packet, pathVars, radioVars>>

(* Slip: the last attempt is not timed. *)
TimeoutButLast ==
    /\ pc = "wait" /\ now >= sent[Len(sent)].at + PerTry /\ attempt < Tries
    /\ active' = IF active = Pending(request, attempt) THEN None ELSE active
    /\ attempt' = attempt + 1
    /\ pc' = "loop"
    /\ UNCHANGED <<now, request, result, outcome, hearing, done, senderVars, pathVars, radioVars>>

(* The timer runs out. It may be chosen though the attempt was just told of *)
(* a reply: select picks either when both are ready.                        *)
Timeout ==
    /\ pc = "wait" /\ now >= sent[Len(sent)].at + PerTry
    /\ active' = IF active = Pending(request, attempt) THEN None ELSE active
    /\ attempt' = attempt + 1
    /\ pc' = "loop"
    /\ UNCHANGED <<now, request, result, outcome, hearing, done, senderVars, pathVars, radioVars>>

ErrNoReply ==
    /\ pc = "loop" /\ attempt > Tries
    /\ End("noreply")
    /\ UNCHANGED <<now, active, hearing, done, senderVars, pathVars, radioVars>>

(* Only a flooded login is answered by a PATH reply that carries a route.   *)
AdoptPath ==
    /\ pathKnown' = TRUE
    /\ outPath' = IF sent[result].route = "flood" THEN "learned" ELSE outPath

Answered ==
    /\ pc = "wait" /\ done
    /\ End("answered")
    /\ IF request = 0 THEN AdoptPath ELSE UNCHANGED pathVars
    /\ UNCHANGED <<now, active, hearing, done, senderVars, radioVars>>

(* The session is canceled, or building or sending fails: the attempt stays *)
(* active. A login that fails so ends the session.                          *)
Fail ==
    /\ pc \in {"build", "slot", "wait"}
    /\ outcome' = [outcome EXCEPT ![request] = "error"]
    /\ request' = IF request = 0 THEN MaxRequests ELSE request + 1
    /\ pc' = "idle"
    /\ UNCHANGED <<now, attempt, result, active, hearing, done, senderVars, pathVars, radioVars>>

-----------------------------------------------------------------------------
(* HandleData, in three steps, of a reply to send n that the modem hears. A *)
(* reply stays in the air: it may be heard never, later, or again.          *)
Hear(n) ==
    /\ hearing = Deaf
    /\ active # None
    /\ n \in {ran[i] : i \in DOMAIN ran}
    /\ hearing' = Frame(n, active, FALSE)
    /\ UNCHANGED <<now, sessionVars, active, done, senderVars, pathVars, radioVars>>

(* A login and a command know each other's replies apart; two commands do   *)
(* not, without a filter of the caller's.                                   *)
Matches(n, q) == (sent[n].req = 0) <=> (q = 0)

(* Outside the lock. What a dead request's match stores nobody reads.       *)
Match ==
    /\ hearing # Deaf /\ ~hearing.matched
    /\ LET q == hearing.for.req IN
        IF Matches(hearing.send, q)
        THEN /\ hearing' = Frame(hearing.send, hearing.for, TRUE)
             /\ result' = IF pc # "idle" /\ q = request THEN hearing.send ELSE result
        ELSE hearing' = Deaf /\ UNCHANGED result
    /\ UNCHANGED <<now, pc, request, attempt, outcome, active, done, senderVars, pathVars, radioVars>>

(* Clearing the attempt and telling it are one step: only this goroutine     *)
(* looks at active between the two.                                         *)
Signal ==
    /\ hearing # Deaf /\ hearing.matched
    /\ active' = IF active = hearing.for THEN None ELSE active
    /\ done' = (done \/ (pc # "idle" /\ hearing.for = Pending(request, attempt)))
    /\ hearing' = Deaf
    /\ UNCHANGED <<now, sessionVars, senderVars, pathVars, radioVars>>

-----------------------------------------------------------------------------
(* The repeater (external): it executes a packet newer than the last it saw *)
(* and replies, and drops any other.                                        *)
Receive(n) ==
    /\ n \in Sends
    /\ sent[n].ts > lastSeen
    /\ lastSeen' = sent[n].ts
    /\ ran' = Append(ran, n)
    /\ UNCHANGED <<now, sessionVars, active, hearing, done, senderVars, pathVars>>

Tick ==
    /\ \/ now < MaxNow
       \/ pc = "slot" /\ now < slot
       \/ pc = "wait" /\ now < sent[Len(sent)].at + PerTry
    /\ now' = now + 1
    /\ UNCHANGED <<sessionVars, active, hearing, done, senderVars, pathVars, radioVars>>

Caller ==
    \/ Start \/ Activate \/ Send \/ Timeout \/ ErrNoReply \/ Answered
    \/ \E wall \in 0 .. MaxWall : Build(wall)

Next ==
    \/ Caller
    \/ Fail
    \/ \E n \in Sends : Hear(n) \/ Receive(n)
    \/ Match \/ Signal
    \/ Tick

(* The console's goroutine runs and time passes; the radio owes nothing.    *)
Spec == Init /\ [][Next]_vars /\ WF_vars(Caller) /\ WF_vars(Tick)

-----------------------------------------------------------------------------
Outcomes == {"open", "answered", "noreply", "error"}
Routes == {"direct", "flood"}
Packets == [req: Nat, route: Routes, ts: Nat, at: Nat]
Pendings == {None} \cup [req: Nat, try: Nat \ {0}]

TypeOK ==
    /\ now \in Nat
    /\ pc \in {"idle", "loop", "build", "slot", "wait"}
    /\ request \in 0 .. MaxRequests
    /\ attempt \in 1 .. Tries + 1
    /\ active \in Pendings
    /\ hearing \in [send: Nat, for: Pendings, matched: BOOLEAN]
    /\ result \in Nat
    /\ done \in BOOLEAN
    /\ outcome \in [RequestIds -> Outcomes]
    /\ stamp \in Nat /\ nextSlot \in Nat /\ slot \in Nat
    /\ packet \in Packets
    /\ pathKnown \in BOOLEAN
    /\ outPath \in {"none", "supplied", "learned"}
    /\ sent \in Seq(Packets)
    /\ lastSeen \in Nat
    /\ ran \in Seq(Nat)

(* The repeater runs sends in the order of their sending and each at most    *)
(* once: whatever the mesh delays or repeats, an earlier command never runs *)
(* after a later one, not even if the clock was set back between them.      *)
SendsRunInOrder ==
    \A i, j \in DOMAIN ran : i < j => ran[i] < ran[j]

(* The replay guard never turns away a packet none later than which has     *)
(* arrived: a resend, or the next command of the same second, is never      *)
(* taken for a replay of what went before, even if the clock was set back.  *)
FreshSendsAreNotReplays ==
    \A n \in Sends : (\A i \in DOMAIN ran : ran[i] < n) => sent[n].ts > lastSeen

(* Packets routed directly have a path to follow: the plain answer to a     *)
(* direct login wipes none.                                                 *)
KnownPathIsThere == pathKnown => outPath # "none"

(* However the sends bunch, the n-th of a session never leaves before n - 1 *)
(* intervals of it have passed.                                             *)
SendsArePaced == \A n \in Sends : sent[n].at >= (n - 1) * Interval

(* Every request ends, whatever the radio does.                             *)
RequestsEnd ==
    \A q \in RequestIds : pc # "idle" /\ request = q ~> outcome[q] # "open"

=============================================================================
