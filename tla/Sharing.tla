-------------------------------- MODULE Sharing --------------------------------
(***************************************************************************)
(* The HTTP handlers with which people get, give and lose access to a      *)
(* repeater (internal/core: shares, transfer, repeaters). A handler is a   *)
(* goroutine that calls the store several times, and each call is a step   *)
(* of its own: whatever a handler read may be stale when it writes. A slot *)
(* is one request in flight.                                               *)
(***************************************************************************)
EXTENDS AccessStore

CONSTANTS
    Slots,      \* bound: how many requests are in flight at once
    Ops,        \* bound: the handlers a run starts, a subset of AllOps
    ReadErrors  \* whether the read that may be ignored can fail

AllOps == {"createLink", "deleteLink", "acceptInvite", "unshare", "savePerson",
           "transfer", "delete"}

ASSUME OpsAssumption == Ops \subseteq AllOps /\ ReadErrors \in BOOLEAN

VARIABLES
    pc,         \* the store call each slot makes next, "free" when it serves nobody
    req,        \* who asks for what in each slot
    late,       \* commands others granted since a save's delete read the table
    redeemed    \* history: who got a share out of each link

vars == <<storeVars, pc, req, late, redeemed>>

(* The requesting user, the repeater, the person or link it is about, and   *)
(* the form's checkboxes.                                                   *)
Request(u, r, target, i, steward, cs) ==
    [uid |-> u, rep |-> r, who |-> target, link |-> i, steward |-> steward, cmds |-> cs]

NoRequest == Request(None, None, None, None, FALSE, {})

PersonCalls == {"RemoveShare", "IsShared", "SetShareSteward", "SetShareCommands",
                "CommitShareCommands", "Transfer"}
LinkCalls == {"DeleteInvite", "IsSharedBeforeAccept", "AcceptInvite"}

Calls == {"free", "CreateInvite"} \cup PersonCalls \cup LinkCalls

(* The requests that can be about to make a call. *)
Requests(call) ==
    IF call = "free" THEN {NoRequest}
    ELSE [uid: Users, rep: Repeaters,
          who: IF call \in PersonCalls THEN Users ELSE {None},
          link: IF call \in LinkCalls THEN Links ELSE {None},
          steward: BOOLEAN, cmds: SUBSET Commands]

Init ==
    /\ owner \in [Repeaters -> Users]
    /\ \A r, q \in Repeaters : r # q /\ owner[r] = owner[q] => KeyOf[r] # KeyOf[q]
    /\ share = [r \in Repeaters |-> [u \in Users |-> "none"]]
    /\ grant = [r \in Repeaters |-> [u \in Users |-> {}]]
    /\ link = [i \in Links |-> NoLink("free")]
    /\ role = [o \in Orgs |-> [u \in Users |-> "none"]]
    /\ excluded = {}
    /\ optin = [o \in Orgs |-> [r \in Repeaters |-> {}]]
    /\ ceiling = [member |-> {}, admin |-> {}]
    /\ pc = [s \in Slots |-> "free"]
    /\ req = [s \in Slots |-> NoRequest]
    /\ late = [s \in Slots |-> {}]
    /\ redeemed = [i \in Links |-> {}]

-----------------------------------------------------------------------------
At(s, call) == pc[s] = call

Begin(s, call, request) ==
    /\ At(s, "free")
    /\ pc' = [pc EXCEPT ![s] = call]
    /\ req' = [req EXCEPT ![s] = request]
    /\ UNCHANGED <<storeVars, redeemed, late>>

Goto(s, call) == pc' = [pc EXCEPT ![s] = call] /\ UNCHANGED req

Finish(s) ==
    /\ pc' = [pc EXCEPT ![s] = "free"]
    /\ req' = [req EXCEPT ![s] = NoRequest]

(* requireOwned: the first read of every owner-only handler. *)
RequireOwned(s, call, request) ==
    /\ GetRepeaterOwned(request.uid, request.rep)
    /\ Begin(s, call, request)

-----------------------------------------------------------------------------
BeginCreateLink(s, u, r, cs) ==
    /\ "createLink" \in Ops
    /\ RequireOwned(s, "CreateInvite", Request(u, r, None, None, FALSE, cs))

handleCreateLink(s) ==
    /\ At(s, "CreateInvite")
    /\ CreateInvite(req[s].uid, req[s].rep, req[s].cmds)
    /\ Finish(s)
    /\ UNCHANGED <<redeemed, late>>

BeginDeleteInvite(s, u, r, i) ==
    /\ "deleteLink" \in Ops
    /\ RequireOwned(s, "DeleteInvite", Request(u, r, None, i, FALSE, {}))

handleDeleteInvite(s) ==
    /\ At(s, "DeleteInvite")
    /\ DeleteInvite(req[s].rep, req[s].link)
    /\ Finish(s)
    /\ UNCHANGED <<redeemed, late>>

BeginUnshare(s, u, r, target) ==
    /\ "unshare" \in Ops
    /\ RequireOwned(s, "RemoveShare", Request(u, r, target, None, FALSE, {}))

handleUnshare(s) ==
    /\ At(s, "RemoveShare")
    /\ RemoveShare(req[s].rep, req[s].who)
    /\ Finish(s)
    /\ UNCHANGED <<redeemed, late>>

BeginSavePersonAccess(s, u, r, target, steward, cs) ==
    /\ "savePerson" \in Ops
    /\ RequireOwned(s, "IsShared", Request(u, r, target, None, steward, cs))

(* A request of s commits rows granting cs to u on r: the saves of the same  *)
(* grants that run meanwhile do not see them.                               *)
Granted(s, r, u, cs) ==
    late' = [t \in Slots |->
        IF t = s THEN {}
        ELSE IF At(t, "CommitShareCommands") /\ req[t].rep = r /\ req[t].who = u
             THEN late[t] \cup cs ELSE late[t]]

(* Three store calls: is the target shared with, the steward flag, and then *)
(* the commands, a transaction whose delete and commit are two steps.       *)
handleSavePersonAccess(s) ==
    LET r == req[s].rep
        target == req[s].who
    IN  \/ /\ At(s, "IsShared")
           /\ IsShared(r, target)
           /\ Goto(s, "SetShareSteward")
           /\ UNCHANGED <<storeVars, redeemed, late>>
        \/ /\ At(s, "SetShareSteward")
           /\ SetShareSteward(r, target, req[s].steward)
           /\ Goto(s, "SetShareCommands")
           /\ UNCHANGED <<redeemed, late>>
        \/ /\ At(s, "SetShareCommands")
           /\ Goto(s, "CommitShareCommands")
           /\ UNCHANGED <<storeVars, redeemed, late>>
        \/ /\ At(s, "CommitShareCommands")
           /\ SetShareCommands(r, target, req[s].cmds, late[s])
           /\ Granted(s, r, target, req[s].cmds)
           /\ Finish(s)
           /\ UNCHANGED redeemed

-----------------------------------------------------------------------------
(* The link resolves, and the visitor is not the owner of the repeater it   *)
(* leads to.                                                                *)
BeginAcceptInvite(s, u, i) ==
    /\ "acceptInvite" \in Ops
    /\ \E r \in Repeaters :
        /\ RepeaterByInviteToken(i, r)
        /\ ~GetRepeaterOwned(u, r)
        /\ Begin(s, "IsSharedBeforeAccept", Request(u, r, None, i, FALSE, {}))

(* Someone who has a share is sent away and the link kept; an error of that *)
(* read is ignored, so a request that has a share may go on all the same.   *)
handleAcceptInvite(s) ==
    LET i == req[s].link
        u == req[s].uid
    IN  \/ /\ At(s, "IsSharedBeforeAccept")
           /\ ~IsShared(req[s].rep, u) \/ ReadErrors
           /\ Goto(s, "AcceptInvite")
           /\ UNCHANGED <<storeVars, redeemed, late>>
        \/ /\ At(s, "AcceptInvite")
           /\ AcceptInvite(i, u)
           /\ IF IsShared(link[i].rep, u)
              THEN UNCHANGED <<redeemed, late>>
              ELSE /\ redeemed' = [redeemed EXCEPT ![i] = @ \cup {u}]
                   /\ Granted(s, link[i].rep, u, link[i].cmds)
           /\ Finish(s)

-----------------------------------------------------------------------------
(* Slip: the form's new owner is not checked to be a user id. *)
BeginTransferUnparsed(s, u, r, target) ==
    RequireOwned(s, "Transfer", Request(u, r, None, None, FALSE, {}))

BeginTransfer(s, u, r, target) ==
    /\ "transfer" \in Ops
    /\ RequireOwned(s, "Transfer", Request(u, r, target, None, FALSE, {}))

handleTransferRepeater(s) ==
    /\ At(s, "Transfer")
    /\ TransferRepeaterToSteward(req[s].uid, req[s].rep, req[s].who)
    /\ Finish(s)
    /\ UNCHANGED <<redeemed, late>>

handleDeleteRepeater(u, r) ==
    /\ "delete" \in Ops
    /\ DeleteRepeaterOwned(u, r)
    /\ UNCHANGED <<pc, req, redeemed, late>>

(* A store call answers with an error (nothing to act on, a lost             *)
(* connection, the visitor going away) and the handler returns: what earlier *)
(* calls of the request wrote stays.                                         *)
GiveUp(s) ==
    /\ ~At(s, "free")
    /\ Finish(s)
    /\ late' = [late EXCEPT ![s] = {}]
    /\ UNCHANGED <<storeVars, redeemed>>

Janitor ==
    /\ \/ \E i \in Links : LapseInvite(i)
       \/ \E S \in SUBSET Links : PruneInvites(S)
    /\ UNCHANGED <<pc, req, redeemed, late>>

BeginRequest(s) ==
    \E u \in Users :
        \/ \E r \in Repeaters :
            \/ \E cs \in SUBSET Commands : BeginCreateLink(s, u, r, cs)
            \/ \E i \in Links : BeginDeleteInvite(s, u, r, i)
            \/ \E target \in Users : BeginUnshare(s, u, r, target)
            \/ \E target \in Users, steward \in BOOLEAN, cs \in SUBSET Commands :
                BeginSavePersonAccess(s, u, r, target, steward, cs)
            \/ \E target \in Users : BeginTransfer(s, u, r, target)
        \/ \E i \in Links : BeginAcceptInvite(s, u, i)

Next ==
    \/ \E s \in Slots :
        \/ BeginRequest(s)
        \/ handleCreateLink(s)
        \/ handleDeleteInvite(s)
        \/ handleUnshare(s)
        \/ handleSavePersonAccess(s)
        \/ handleAcceptInvite(s)
        \/ handleTransferRepeater(s)
        \/ GiveUp(s)
    \/ \E u \in Users, r \in Repeaters : handleDeleteRepeater(u, r)
    \/ Janitor

Spec == Init /\ [][Next]_vars

-----------------------------------------------------------------------------
TypeOK ==
    /\ StoreTypeOK
    /\ pc \in [Slots -> Calls]
    /\ DOMAIN req = Slots
    /\ \A s \in Slots : req[s] \in Requests(pc[s])
    /\ late \in [Slots -> SUBSET Commands]
    /\ redeemed \in [Links -> SUBSET Users]

(* The owner of a repeater never also holds a share on it, which would      *)
(* survive handing the repeater on and outlive their ownership.             *)
OwnerHoldsNoShare ==
    \A r \in Repeaters : Exists(r) => ~IsShared(r, owner[r])

(* A visitor was compared with the owner when the request began and never    *)
(* again: still, as long as their link can be redeemed, they do not own the  *)
(* repeater it leads to, whatever was handed over or re-issued meanwhile.    *)
RedeemersAreNotOwners ==
    \A s \in Slots : pc[s] \in {"IsSharedBeforeAccept", "AcceptInvite"} =>
        LET i == req[s].link IN
            /\ link[i].st # "free"
            /\ link[i].st \in {"live", "lapsed"} =>
                link[i].rep = req[s].rep /\ owner[req[s].rep] # req[s].uid

(* A share link gives a share to one person at most, however many requests  *)
(* race to redeem it.                                                       *)
LinkRedeemedOnce ==
    \A i \in Links : \A u, v \in redeemed[i] : u = v

(* A share row appears only because a live link is consumed in that very     *)
(* step, or because its holder hands the repeater on: a save that raced the *)
(* removal of a share never brings it back.                                 *)
SharesComeFromLinksOrHandovers ==
    [][\A r \in Repeaters, u \in Users :
        ~IsShared(r, u) /\ IsShared(r, u)' =>
            \/ \E i \in Links : RepeaterByInviteToken(i, r) /\ link'[i].st = "gone"
            \/ GetRepeaterOwned(u, r) /\ ~GetRepeaterOwned(u, r)']_vars

(* A repeater changes hands only when the person who owns it at that moment *)
(* asked for it, and only to somebody who is its steward at that moment: of *)
(* two racing handovers the second finds it is not the owner's any more.    *)
HandoverOnlyByOwnerToSteward ==
    [][\A r \in Repeaters :
        owner'[r] \notin {owner[r], None} =>
            /\ IsSteward(r, owner'[r])
            /\ \E s \in Slots :
                /\ At(s, "Transfer") /\ ~At(s, "Transfer")'
                /\ req[s].uid = owner[r] /\ req[s].rep = r /\ req[s].who = owner'[r]]_vars

(* Every request-level step is a step of the access the owner sees, or no   *)
(* change of it at all: races between requests show nothing else.           *)
Access == INSTANCE RepeaterAccess WITH
    holder <- owner,
    people <- share,
    outstanding <- [r \in Repeaters |-> {i \in Links : RepeaterByInviteToken(i, r)}],
    issued <- {i \in Links : link[i].st # "free"}

ImplementsRepeaterAccess == Access!AccessSpec

(* What the comments promise and the code does not keep                     *)

(* Whoever may send a command to a repeater has access to it: once their    *)
(* share is removed (and no org gives them access) they can send nothing.   *)
SendersHaveAccess ==
    \A u \in Users, r \in Repeaters, c \in Commands :
        CanSendCommand(u, r, c) => GetRepeaterForUser(u, r)

=============================================================================
