-------------------------------- MODULE NetModem --------------------------------
(***************************************************************************)
(* Net control's modem during one session of a net (internal/core:         *)
(* netmodem). A run is one connection of the modem. In each run three      *)
(* goroutines work at once: receive records who checks in, acknowledge     *)
(* reads the roster and queues "Copied: ..." messages, transmit sends them *)
(* one at a time and stores who was acknowledged on the air.               *)
(***************************************************************************)
EXTENDS Integers, Sequences, FiniteSets

CONSTANTS
    Members,    \* the members of the net's organization
    Runs,       \* bound: how often the modem connects
    NoRun,      \* nobody holds the session's lock
    Room,       \* members that fit in one message
    TxQueue,    \* messages that may wait
    ManualAck,  \* the net acknowledges only whom net control did
    Announcing  \* bound: the runs in which net control sends announcements

ASSUME NetModemAssumption ==
    /\ NoRun \notin Runs
    /\ Room \in Nat \ {0} /\ TxQueue \in Nat \ {0}
    /\ ManualAck \in BOOLEAN /\ Announcing \subseteq Runs

VARIABLES
    heard,      \* members with an advert in the session's window
    acked,      \* net_session_acks
    aired,      \* net_session_aired
    lock,       \* the run that holds the session's advisory lock
    state,      \* of each run: "off", "on", "canceled", "ended"
    tx,         \* the messages waiting, each the set of members it acknowledges
    inFlight,   \* members queued for an acknowledgement
    ackPc, due, \* acknowledge: its step; whom it found or is queueing
    txPc, msg,  \* transmit: its step; the message it took
    copied,     \* history: the members acknowledged on the air
    again,      \* history: those acknowledged more than once
    excused     \* history: those of whom an acknowledgement that went out was not stored,
                \* or who were picked from a roster read before it was

rosterVars == <<heard, acked, aired>>
ackVars == <<ackPc, due>>
txVars == <<txPc, msg>>
airVars == <<copied, again, excused>>
modemVars == <<rosterVars, lock, state, tx, inFlight, ackVars, txVars, airVars>>

ModemInit ==
    /\ heard = {} /\ acked = {} /\ aired = {}
    /\ lock = NoRun
    /\ state = [k \in Runs |-> "off"]
    /\ tx = [k \in Runs |-> <<>>]
    /\ inFlight = [k \in Runs |-> {}]
    /\ ackPc = [k \in Runs |-> "off"] /\ due = [k \in Runs |-> {}]
    /\ txPc = [k \in Runs |-> "off"] /\ msg = [k \in Runs |-> {}]
    /\ copied = {} /\ again = {} /\ excused = {}

Live(k) == state[k] = "on"

-----------------------------------------------------------------------------
(* wsNetModem: only the run that gets the lock starts its goroutines.       *)
Connect(k) ==
    /\ state[k] = "off" /\ lock = NoRun
    /\ lock' = k
    /\ state' = [state EXCEPT ![k] = "on"]
    /\ ackPc' = [ackPc EXCEPT ![k] = "wait"]
    /\ txPc' = [txPc EXCEPT ![k] = "idle"]
    /\ UNCHANGED <<rosterVars, tx, inFlight, due, msg, airVars>>

(* The page goes away, the session's time and grace are up, or the server   *)
(* shuts down; then the handler returns and the lock is released, while the *)
(* goroutines may be anywhere. What was sent by then and not stored will    *)
(* not be.                                                                  *)
Disconnect(k) ==
    /\ \/ /\ state[k] = "on"
          /\ state' = [state EXCEPT ![k] = "canceled"]
          /\ excused' = excused \cup (IF txPc[k] = "mark" THEN msg[k] ELSE {})
          /\ UNCHANGED lock
       \/ /\ state[k] = "canceled"
          /\ state' = [state EXCEPT ![k] = "ended"]
          /\ lock' = NoRun /\ UNCHANGED excused
    /\ UNCHANGED <<rosterVars, tx, inFlight, ackVars, txVars, copied, again>>

(* receive, of this modem or of any other observer: an advert checks a      *)
(* member in. Net control acknowledges a member, or takes it back.          *)
CheckIn(m) ==
    /\ \/ m \notin heard /\ heard' = heard \cup {m} /\ UNCHANGED acked
       \/ acked' = acked \cup {m} /\ acked' # acked /\ UNCHANGED heard
       \/ m \in acked /\ acked' = acked \ {m} /\ UNCHANGED heard
    /\ UNCHANGED <<aired, lock, state, tx, inFlight, ackVars, txVars, airVars>>

-----------------------------------------------------------------------------
(* The roster's entries whom to acknowledge, as stored now.                 *)
ReadyMembers == IF ManualAck THEN acked ELSE heard \cup acked

(* The tick's roster query; it may fail, and fails once canceled.           *)
ReadRoster(k) ==
    /\ ackPc[k] = "wait" /\ Live(k)
    /\ due' = [due EXCEPT ![k] = ReadyMembers \ aired]
    /\ ackPc' = [ackPc EXCEPT ![k] = "select"]
    /\ UNCHANGED <<rosterVars, lock, state, tx, inFlight, txVars, airVars>>

(* Under the lock: those of the roster that are not in flight by now.       *)
SelectDue(k) ==
    /\ ackPc[k] = "select"
    /\ due' = [due EXCEPT ![k] = @ \ inFlight[k]]
    /\ inFlight' = [inFlight EXCEPT ![k] = @ \cup due[k]]
    /\ excused' = excused \cup ((due[k] \ inFlight[k]) \cap aired)
    /\ ackPc' = [ackPc EXCEPT ![k] = "queue"]
    /\ UNCHANGED <<rosterVars, lock, state, tx, txVars, copied, again>>

(* Slip: members of a message that found no room stay in flight. *)
QueueMessageKeeping(k, S) ==
    /\ IF Len(tx[k]) < TxQueue THEN tx' = [tx EXCEPT ![k] = Append(@, S)] ELSE UNCHANGED tx
    /\ UNCHANGED inFlight

(* Slip: one message too many is queued. *)
QueueMessagePast(k, S) ==
    /\ tx' = [tx EXCEPT ![k] = IF Len(@) <= TxQueue THEN Append(@, S) ELSE @]
    /\ UNCHANGED inFlight

(* queue: a full queue gives the message's members back.                    *)
QueueMessage(k, S) ==
    IF Len(tx[k]) < TxQueue
    THEN tx' = [tx EXCEPT ![k] = Append(@, S)] /\ UNCHANGED inFlight
    ELSE UNCHANGED tx /\ inFlight' = [inFlight EXCEPT ![k] = @ \ S]

(* ackMessages packs the due members; each message is queued in turn.       *)
QueueAcks(k) ==
    /\ ackPc[k] = "queue"
    /\ \/ \E S \in SUBSET due[k] :
            /\ S # {} /\ Cardinality(S) <= Room
            /\ QueueMessage(k, S)
            /\ due' = [due EXCEPT ![k] = @ \ S]
            /\ UNCHANGED ackPc
       \/ /\ due[k] = {}
          /\ ackPc' = [ackPc EXCEPT ![k] = "wait"]
          /\ UNCHANGED <<tx, inFlight, due>>
    /\ UNCHANGED <<rosterVars, lock, state, txVars, airVars>>

(* announce: an open, close or say message acknowledges nobody.             *)
Announce(k) ==
    /\ k \in Announcing /\ Live(k)
    /\ QueueMessage(k, {})
    /\ UNCHANGED <<rosterVars, lock, state, ackVars, txVars, airVars>>

-----------------------------------------------------------------------------
Take(k) ==
    /\ txPc[k] = "idle" /\ tx[k] # <<>>
    /\ msg' = [msg EXCEPT ![k] = Head(tx[k])]
    /\ tx' = [tx EXCEPT ![k] = Tail(@)]
    /\ txPc' = [txPc EXCEPT ![k] = "send"]
    /\ UNCHANGED <<rosterVars, lock, state, inFlight, ackVars, airVars>>

(* A message of S is on the air.                                            *)
OnAir(S) ==
    /\ copied' = copied \cup S
    /\ again' = again \cup (copied \cap S)

(* Slip: the members are given back as soon as they are acknowledged, before *)
(* that is stored. *)
SendOKReleasing(k) ==
    /\ txPc[k] = "send" /\ Live(k)
    /\ OnAir(msg[k])
    /\ inFlight' = [inFlight EXCEPT ![k] = @ \ msg[k]]
    /\ txPc' = [txPc EXCEPT ![k] = "mark"]
    /\ UNCHANGED <<rosterVars, lock, state, tx, ackVars, msg, excused>>

(* SendData returns without error: the modem reported the packet sent.      *)
SendOK(k) ==
    /\ txPc[k] = "send" /\ Live(k)
    /\ OnAir(msg[k])
    /\ txPc' = [txPc EXCEPT ![k] = "mark"]
    /\ UNCHANGED <<rosterVars, lock, state, tx, inFlight, ackVars, msg, excused>>

(* It fails: nothing was sent, or TX_DONE did not come in time or before    *)
(* the session was canceled though the packet went out.                     *)
SendFails(k) ==
    /\ txPc[k] = "send"
    /\ \/ UNCHANGED airVars
       \/ OnAir(msg[k]) /\ excused' = excused \cup msg[k]
    /\ txPc' = [txPc EXCEPT ![k] = "release"]
    /\ UNCHANGED <<rosterVars, lock, state, tx, inFlight, ackVars, msg>>

(* The query may fail, and fails once the session is canceled.              *)
MarkAired(k) ==
    /\ txPc[k] = "mark"
    /\ \/ Live(k) /\ aired' = aired \cup msg[k] /\ UNCHANGED excused
       \/ excused' = excused \cup msg[k] /\ UNCHANGED aired
    /\ txPc' = [txPc EXCEPT ![k] = "release"]
    /\ UNCHANGED <<heard, acked, lock, state, tx, inFlight, ackVars, msg, copied, again>>

Release(k) ==
    /\ txPc[k] = "release"
    /\ inFlight' = [inFlight EXCEPT ![k] = @ \ msg[k]]
    /\ msg' = [msg EXCEPT ![k] = {}]
    /\ txPc' = [txPc EXCEPT ![k] = IF Live(k) THEN "idle" ELSE "off"]
    /\ UNCHANGED <<rosterVars, lock, state, tx, ackVars, airVars>>

Acknowledge(k) == ReadRoster(k) \/ SelectDue(k) \/ QueueAcks(k)

Transmit(k) == Take(k) \/ SendFails(k) \/ MarkAired(k) \/ Release(k)

ModemNext ==
    \/ \E m \in Members : CheckIn(m)
    \/ \E k \in Runs :
        Connect(k) \/ Disconnect(k) \/ Acknowledge(k) \/ Announce(k) \/ Transmit(k) \/ SendOK(k)

(* The goroutines run; a modem that is tried again and again sends, and the *)
(* database, asked again and again, stores.                                 *)
Stores(k) == MarkAired(k) /\ (Live(k) => aired' = aired \cup msg[k])

ModemSpec ==
    /\ ModemInit /\ [][ModemNext]_modemVars
    /\ \A k \in Runs :
        /\ WF_modemVars(Acknowledge(k)) /\ WF_modemVars(Transmit(k))
        /\ SF_modemVars(SendOK(k)) /\ SF_modemVars(Stores(k))

-----------------------------------------------------------------------------
ModemTypeOK ==
    /\ heard \subseteq Members /\ acked \subseteq Members /\ aired \subseteq Members
    /\ lock \in Runs \cup {NoRun}
    /\ state \in [Runs -> {"off", "on", "canceled", "ended"}]
    /\ tx \in [Runs -> Seq(SUBSET Members)]
    /\ \A k \in Runs : Len(tx[k]) <= TxQueue
    /\ inFlight \in [Runs -> SUBSET Members]
    /\ ackPc \in [Runs -> {"off", "wait", "select", "queue"}]
    /\ due \in [Runs -> SUBSET Members]
    /\ txPc \in [Runs -> {"off", "idle", "send", "mark", "release"}]
    /\ msg \in [Runs -> SUBSET Members]
    /\ copied \subseteq Members /\ again \subseteq Members /\ excused \subseteq Members

(* A member waits in at most one message of a run, and one being sent is     *)
(* not queued again before it is sent and stored: a slow transmission never *)
(* piles up acknowledgements of the same member.                            *)
QueuedOnce ==
    \A k \in Runs, i \in 1 .. TxQueue :
        i \in DOMAIN tx[k] =>
            /\ tx[k][i] \cap msg[k] = {}
            /\ \A j \in DOMAIN tx[k] : i # j => tx[k][i] \cap tx[k][j] = {}

(* Whoever is stored as acknowledged was acknowledged on the air.           *)
AiredWereCopied == aired \subseteq copied

(* A member stays in flight only while an acknowledgement of theirs waits,   *)
(* is being queued or is being sent: none is ever left out for good.        *)
InFlightIsHandled ==
    \A k \in Runs : inFlight[k] \subseteq
        msg[k] \cup (IF ackPc[k] = "queue" THEN due[k] ELSE {})
            \cup UNION {tx[k][i] : i \in DOMAIN tx[k]}

(* Somebody is acknowledged on the air again, in the same run or after a     *)
(* reconnect, only if an acknowledgement of theirs went out and was not     *)
(* stored, or was being stored between the roster's query and its use: what *)
(* is queued, sent or stored at any other moment is not repeated.           *)
RepeatsAreExcused == again \subseteq excused

(* Together: acknowledgements repeat only where storing one or reading the  *)
(* roster went wrong, are stored only when sent, and leave nobody out.      *)
AcknowledgementsAddUp == RepeatsAreExcused /\ QueuedOnce /\ AiredWereCopied /\ InFlightIsHandled

(* Everyone who checks in is acknowledged on the air in the end, however    *)
(* often the modem fails and the queue is full, if the run lasts and net    *)
(* control's announcements, which may fill the queue again and again, end.  *)
EveryoneIsAcknowledged ==
    \A m \in Members, k \in Runs :
        /\ <>[](Live(k) /\ m \in ReadyMembers)
        /\ <>[][~Announce(k)]_modemVars
        => <>(m \in aired)

=============================================================================
