----------------------------- MODULE SharingProofs -----------------------------
(***************************************************************************)
(* Proofs about Sharing for every set of people, repeaters, commands,      *)
(* links and requests in flight.                                           *)
(***************************************************************************)
EXTENDS Sharing, TLAPS

USE DEF peopleTables, orgTables, storeVars

-----------------------------------------------------------------------------
(* The steps every request is made of keep the requests well formed, and    *)
(* dropping links keeps the links so.                                       *)

RequestsTypeOK ==
    /\ pc \in [Slots -> Calls]
    /\ DOMAIN req = Slots
    /\ \A s \in Slots : req[s] \in Requests(pc[s])

(* A request that ends leaves its slot typed.                               *)
LEMMA FinishTyped ==
  ASSUME NEW s \in Slots, RequestsTypeOK, Finish(s), DOMAIN req = Slots
  PROVE  RequestsTypeOK'
  BY DEF Finish, RequestsTypeOK, Requests, Calls

(* So does one that goes on to a call of the same kind.                     *)
LEMMA GotoTyped ==
  ASSUME NEW s \in Slots, NEW call \in Calls, RequestsTypeOK, Goto(s, call),
         Requests(pc[s]) = Requests(call)
  PROVE  RequestsTypeOK'
  BY DEF Goto, RequestsTypeOK

(* And one that begins, if it is what its first call takes.                 *)
LEMMA BeginTyped ==
  ASSUME NEW s \in Slots, NEW call \in Calls, NEW q \in Requests(call),
         RequestsTypeOK, Begin(s, call, q)
  PROVE  RequestsTypeOK'
  BY DEF Begin, RequestsTypeOK

(* Writing one cell of a table keeps the table's type.                      *)
LEMMA CellTyped ==
  ASSUME NEW A, NEW B, NEW V, NEW f \in [A -> [B -> V]], NEW a \in A, NEW b \in B, NEW v \in V
  PROVE  [f EXCEPT ![a][b] = v] \in [A -> [B -> V]]
  OBVIOUS

(* A link row that leads somewhere has a repeater and commands.             *)
LEMMA LinkFields ==
  ASSUME link \in [Links -> LinkRows], NEW i \in Links
  PROVE  /\ link[i].st \in {"free", "gone"} => link[i] = NoLink(link[i].st)
         /\ link[i].st \in {"live", "lapsed"} =>
                /\ link[i].rep \in Repeaters
                /\ link[i].cmds \in SUBSET Commands
  BY DEF LinkRows, NoLink

(* Dropping links keeps the links table's type.                             *)
LEMMA DropLinksTyped ==
  ASSUME NEW S, link \in [Links -> LinkRows], DropLinks(S)
  PROVE  link' \in [Links -> LinkRows]
  BY DEF DropLinks, LinkRows, NoLink

(* What overlapping saves do not see stays sets of commands.                *)
LEMMA GrantedTyped ==
  ASSUME late \in [Slots -> SUBSET Commands], NEW s, NEW r, NEW u, NEW cs \in SUBSET Commands,
         Granted(s, r, u, cs)
  PROVE  late' \in [Slots -> SUBSET Commands]
  BY DEF Granted

(* What a request in flight carries. *)
LEMMA RequestFields ==
  ASSUME RequestsTypeOK, NEW s \in Slots, pc[s] # "free"
  PROVE  /\ req[s].uid \in Users /\ req[s].rep \in Repeaters
         /\ req[s].steward \in BOOLEAN /\ req[s].cmds \in SUBSET Commands
         /\ pc[s] \in PersonCalls => req[s].who \in Users
         /\ pc[s] \in LinkCalls => req[s].link \in Links
  BY DEF RequestsTypeOK, Requests

(* However a request begins, it is one Begin of a well-formed request; if it *)
(* is to redeem a link, the link is live and the visitor not the owner of    *)
(* the repeater it leads to.                                                 *)
BeginsWellFormed(s, call, q) ==
    /\ Begin(s, call, q)
    /\ call = "IsSharedBeforeAccept" =>
        /\ link[q.link].st = "live" /\ link[q.link].rep = q.rep
        /\ owner[q.rep] # q.uid
    /\ call # "AcceptInvite"

(* Every request begins with arguments its first call takes.                *)
LEMMA BeginCases ==
  ASSUME NEW s \in Slots, BeginRequest(s)
  PROVE  \E call \in Calls : \E q \in Requests(call) : BeginsWellFormed(s, call, q)
<1> USE DEF BeginsWellFormed, RequireOwned, Calls, Requests, Request, PersonCalls, LinkCalls
<1>1. ASSUME NEW u \in Users, NEW r \in Repeaters, NEW cs \in SUBSET Commands,
             BeginCreateLink(s, u, r, cs)
      PROVE  \E call \in Calls : \E q \in Requests(call) : BeginsWellFormed(s, call, q)
  <2>1. Request(u, r, None, None, FALSE, cs) \in Requests("CreateInvite")
    OBVIOUS
  <2>2. QED
    BY <1>1, <2>1 DEF BeginCreateLink
<1>2. ASSUME NEW u \in Users, NEW r \in Repeaters, NEW i \in Links,
             BeginDeleteInvite(s, u, r, i)
      PROVE  \E call \in Calls : \E q \in Requests(call) : BeginsWellFormed(s, call, q)
  BY <1>2 DEF BeginDeleteInvite
<1>3. ASSUME NEW u \in Users, NEW r \in Repeaters, NEW target \in Users,
             BeginUnshare(s, u, r, target) \/ BeginTransfer(s, u, r, target)
      PROVE  \E call \in Calls : \E q \in Requests(call) : BeginsWellFormed(s, call, q)
  BY <1>3 DEF BeginUnshare, BeginTransfer
<1>4. ASSUME NEW u \in Users, NEW r \in Repeaters, NEW target \in Users,
             NEW steward \in BOOLEAN, NEW cs \in SUBSET Commands,
             BeginSavePersonAccess(s, u, r, target, steward, cs)
      PROVE  \E call \in Calls : \E q \in Requests(call) : BeginsWellFormed(s, call, q)
  BY <1>4 DEF BeginSavePersonAccess
<1>5. ASSUME NEW u \in Users, NEW i \in Links, BeginAcceptInvite(s, u, i)
      PROVE  \E call \in Calls : \E q \in Requests(call) : BeginsWellFormed(s, call, q)
  BY <1>5 DEF BeginAcceptInvite, RepeaterByInviteToken, GetRepeaterOwned
<1>6. QED
  BY <1>1, <1>2, <1>3, <1>4, <1>5 DEF BeginRequest

-----------------------------------------------------------------------------
(* Type correctness: every request writes values the tables can hold.       *)

(* Redeeming a live link writes a new share or none, and drops the link.    *)
LEMMA Redeeming ==
  ASSUME NEW i, NEW u, AcceptInvite(i, u)
  PROVE  /\ link[i].st = "live" /\ DropLinks({i}) /\ owner' = owner
         /\ \/ share' = share /\ grant' = grant
            \/ /\ share' = [share EXCEPT ![link[i].rep][u] = "shared"]
               /\ grant' = [grant EXCEPT ![link[i].rep][u] = @ \cup link[i].cmds]
<1>1. CASE IsShared(link[i].rep, u)
  BY <1>1, Zenon DEF AcceptInvite
<1>2. CASE ~IsShared(link[i].rep, u)
  BY <1>2, Zenon DEF AcceptInvite
<1>3. QED
  BY <1>1, <1>2

(* The handler that redeems either only moves on or redeems its link.       *)
LEMMA RedeemingCases ==
  ASSUME NEW s \in Slots, handleAcceptInvite(s)
  PROVE  \/ /\ At(s, "IsSharedBeforeAccept") /\ Goto(s, "AcceptInvite")
            /\ UNCHANGED <<storeVars, redeemed, late>>
         \/ /\ At(s, "AcceptInvite") /\ AcceptInvite(req[s].link, req[s].uid) /\ Finish(s)
            /\ \/ redeemed' = redeemed
               \/ redeemed' = [redeemed EXCEPT ![req[s].link] = @ \cup {req[s].uid}]
  BY Zenon DEF handleAcceptInvite

(* The tables start out typed.                                              *)
LEMMA TypeInit == Init => TypeOK
  BY DEF Init, TypeOK, StoreTypeOK, ShareKinds, Roles, LinkRows, NoLink, Calls, Requests

(* Every step of every handler keeps them so.                               *)
LEMMA TypeStep == TypeOK /\ [Next]_vars => TypeOK'
<1> SUFFICES ASSUME TypeOK, [Next]_vars PROVE TypeOK'
  OBVIOUS
<1> RequestsTypeOK
  BY DEF TypeOK, RequestsTypeOK
<1>1. ASSUME NEW s \in Slots, BeginRequest(s) PROVE TypeOK'
  BY <1>1, BeginCases, BeginTyped DEF BeginsWellFormed, Begin, TypeOK, RequestsTypeOK, StoreTypeOK
<1> USE RequestFields DEF At
<1>2. ASSUME NEW s \in Slots, handleCreateLink(s) PROVE TypeOK'
  <2>1. RequestsTypeOK'
    BY <1>2, FinishTyped DEF handleCreateLink, RequestsTypeOK
  <2>2. link' \in [Links -> LinkRows]
    BY <1>2 DEF handleCreateLink, CreateInvite, TypeOK, StoreTypeOK, LinkRows
  <2>3. QED
    BY <1>2, <2>1, <2>2
    DEF handleCreateLink, CreateInvite, TypeOK, RequestsTypeOK, StoreTypeOK
<1>3. ASSUME NEW s \in Slots, handleDeleteInvite(s) PROVE TypeOK'
  <2>1. RequestsTypeOK'
    BY <1>3, FinishTyped DEF handleDeleteInvite, RequestsTypeOK
  <2>2. QED
    BY <1>3, <2>1, DropLinksTyped
    DEF handleDeleteInvite, DeleteInvite, TypeOK, RequestsTypeOK, StoreTypeOK
<1>4. ASSUME NEW s \in Slots, handleUnshare(s) PROVE TypeOK'
  BY <1>4, FinishTyped
  DEF handleUnshare, RemoveShare, TypeOK, RequestsTypeOK, StoreTypeOK, ShareKinds
<1>5. ASSUME NEW s \in Slots, handleSavePersonAccess(s) PROVE TypeOK'
  <2> USE DEF TypeOK, StoreTypeOK, ShareKinds
  <2>1. CASE \/ /\ At(s, "IsShared") /\ Goto(s, "SetShareSteward")
                /\ UNCHANGED <<storeVars, redeemed, late>>
             \/ /\ At(s, "SetShareCommands") /\ Goto(s, "CommitShareCommands")
                /\ UNCHANGED <<storeVars, redeemed, late>>
    <3>1. RequestsTypeOK'
      BY <2>1, GotoTyped DEF Calls, Requests, PersonCalls, LinkCalls
    <3>2. QED
      BY <2>1, <3>1 DEF RequestsTypeOK
  <2>2. CASE /\ At(s, "SetShareSteward") /\ Goto(s, "SetShareCommands")
             /\ SetShareSteward(req[s].rep, req[s].who, req[s].steward)
             /\ UNCHANGED <<redeemed, late>>
    <3>1. RequestsTypeOK'
      BY <2>2, GotoTyped DEF Calls, Requests, PersonCalls, LinkCalls
    <3>2. QED
      BY <2>2, <3>1 DEF SetShareSteward, PersonCalls, RequestsTypeOK
  <2>3. CASE /\ At(s, "CommitShareCommands") /\ Finish(s) /\ UNCHANGED redeemed
             /\ SetShareCommands(req[s].rep, req[s].who, req[s].cmds, late[s])
             /\ Granted(s, req[s].rep, req[s].who, req[s].cmds)
    <3>1. RequestsTypeOK'
      BY <2>3, FinishTyped DEF RequestsTypeOK
    <3>2. late' \in [Slots -> SUBSET Commands]
      BY <2>3, GrantedTyped
    <3>3. QED
      BY <2>3, <3>1, <3>2 DEF SetShareCommands, Exists, PersonCalls, RequestsTypeOK
  <2>4. QED
    BY <1>5, <2>1, <2>2, <2>3 DEF handleSavePersonAccess
<1>6. ASSUME NEW s \in Slots, handleAcceptInvite(s) PROVE TypeOK'
  <2>1. CASE /\ At(s, "IsSharedBeforeAccept") /\ Goto(s, "AcceptInvite")
             /\ UNCHANGED <<storeVars, redeemed, late>>
    <3>1. RequestsTypeOK'
      BY <2>1, GotoTyped DEF Calls, Requests, PersonCalls, LinkCalls
    <3>2. QED
      BY <2>1, <3>1 DEF RequestsTypeOK, TypeOK, StoreTypeOK
  <2>2. CASE /\ At(s, "AcceptInvite") /\ AcceptInvite(req[s].link, req[s].uid) /\ Finish(s)
             /\ IF IsShared(link[req[s].link].rep, req[s].uid)
                THEN UNCHANGED <<redeemed, late>>
                ELSE /\ redeemed' = [redeemed EXCEPT ![req[s].link] = @ \cup {req[s].uid}]
                     /\ Granted(s, link[req[s].link].rep, req[s].uid, link[req[s].link].cmds)
    <3>1. RequestsTypeOK'
      BY <2>2, FinishTyped DEF RequestsTypeOK
    <3>2. link' \in [Links -> LinkRows]
      BY <2>2, DropLinksTyped DEF AcceptInvite, TypeOK, StoreTypeOK
    <3>3. /\ req[s].link \in Links /\ req[s].uid \in Users
          /\ link[req[s].link].cmds \in SUBSET Commands
          /\ link[req[s].link].rep \in Repeaters
      <4>1. link[req[s].link].st = "live" /\ req[s].link \in Links /\ req[s].uid \in Users
        BY <2>2, Redeeming DEF LinkCalls
      <4>2. link \in [Links -> LinkRows]
        BY DEF TypeOK, StoreTypeOK
      <4>3. QED
        BY <4>1, <4>2, LinkFields
    <3> DEFINE r == link[req[s].link].rep
               u == req[s].uid
               cs == link[req[s].link].cmds
    <3>4. share' = share \/ share' = [share EXCEPT ![r][u] = "shared"]
      BY <2>2, Redeeming
    <3>5. grant' = grant \/ grant' = [grant EXCEPT ![r][u] = @ \cup cs]
      BY <2>2, Redeeming
    <3>6. r \in Repeaters /\ u \in Users /\ cs \in SUBSET Commands
      BY <3>3
    <3> HIDE DEF r, u, cs
    <3>7. share' \in [Repeaters -> [Users -> ShareKinds]]
      <4>1. share \in [Repeaters -> [Users -> ShareKinds]] /\ "shared" \in ShareKinds
        BY DEF TypeOK, StoreTypeOK, ShareKinds
      <4>2. [share EXCEPT ![r][u] = "shared"] \in [Repeaters -> [Users -> ShareKinds]]
        BY <4>1, <3>6, CellTyped
      <4>3. QED
        BY <3>4, <4>1, <4>2
    <3>8. grant' \in [Repeaters -> [Users -> SUBSET Commands]]
      <4>1. grant \in [Repeaters -> [Users -> SUBSET Commands]]
        BY DEF TypeOK, StoreTypeOK
      <4>2. [grant EXCEPT ![r][u] = @ \cup cs] \in [Repeaters -> [Users -> SUBSET Commands]]
        BY <4>1, <3>6, CellTyped
      <4>3. QED
        BY <3>5, <4>1, <4>2
    <3>9. redeemed' \in [Links -> SUBSET Users]
      BY <2>2, <3>3 DEF TypeOK, r, u
    <3>10. late' \in [Slots -> SUBSET Commands]
      BY <2>2, <3>3, GrantedTyped DEF TypeOK
    <3>11. QED
      BY <2>2, <3>1, <3>2, <3>7, <3>8, <3>9, <3>10
      DEF AcceptInvite, TypeOK, RequestsTypeOK, StoreTypeOK
  <2>3. QED
    BY <1>6, <2>1, <2>2 DEF handleAcceptInvite
<1>7. ASSUME NEW s \in Slots, handleTransferRepeater(s) PROVE TypeOK'
  BY <1>7, FinishTyped, DropLinksTyped
  DEF handleTransferRepeater, TransferRepeaterToSteward, PersonCalls, TypeOK, RequestsTypeOK,
      StoreTypeOK, ShareKinds
<1>8. ASSUME NEW s \in Slots, GiveUp(s) PROVE TypeOK'
  BY <1>8, FinishTyped DEF GiveUp, TypeOK, RequestsTypeOK, StoreTypeOK
<1>9. ASSUME NEW u \in Users, NEW r \in Repeaters, handleDeleteRepeater(u, r) PROVE TypeOK'
  BY <1>9, DropLinksTyped
  DEF handleDeleteRepeater, DeleteRepeaterOwned, TypeOK, StoreTypeOK, ShareKinds
<1>10. CASE Janitor
  <2>1. ASSUME NEW i \in Links, LapseInvite(i), UNCHANGED <<pc, req, redeemed, late>> PROVE TypeOK'
    <3>1. link' \in [Links -> LinkRows]
      BY <2>1, LinkFields DEF LapseInvite, TypeOK, StoreTypeOK, LinkRows
    <3>2. QED
      BY <2>1, <3>1 DEF LapseInvite, TypeOK, StoreTypeOK
  <2>2. ASSUME NEW S \in SUBSET Links, PruneInvites(S), UNCHANGED <<pc, req, redeemed, late>>
        PROVE  TypeOK'
    BY <2>2, DropLinksTyped DEF PruneInvites, TypeOK, StoreTypeOK
  <2>3. QED
    BY <1>10, <2>1, <2>2 DEF Janitor
<1>11. CASE UNCHANGED vars
  BY <1>11 DEF vars, TypeOK, StoreTypeOK
<1>12. QED
  BY <1>1, <1>2, <1>3, <1>4, <1>5, <1>6, <1>7, <1>8, <1>9, <1>10, <1>11 DEF Next

(* Every request writes values the tables can hold.                         *)
THEOREM TypeCorrect == Spec => []TypeOK
  BY TypeInit, TypeStep, PTL DEF Spec

-----------------------------------------------------------------------------
(* Safety. The owner keeps no share because the only step that makes one    *)
(* from a request that was checked long ago, AcceptInvite, finds its link   *)
(* gone whenever the repeater changed hands in between; that takes what the *)
(* requests in flight know about their links. A link gives one share at     *)
(* most because it is not spent before.                                     *)

UnspentLinks == \A i \in Links : link[i].st # "gone" => redeemed[i] = {}

IInv ==
    /\ TypeOK
    /\ OwnerHoldsNoShare
    /\ RedeemersAreNotOwners
    /\ UnspentLinks
    /\ LinkRedeemedOnce

(* At first nobody has a share and no link was drawn.                       *)
LEMMA InitIInv == Init => IInv
  BY TypeInit, NoneAssumption
  DEF IInv, Init, OwnerHoldsNoShare, IsShared, Exists, RedeemersAreNotOwners, UnspentLinks,
      LinkRedeemedOnce, NoLink

(* An owner gains no share: who redeems is not one, by                      *)
(* RedeemersAreNotOwners.                                                   *)
LEMMA OwnerStep == IInv /\ [Next]_vars => OwnerHoldsNoShare'
<1> SUFFICES ASSUME IInv, [Next]_vars PROVE OwnerHoldsNoShare'
  OBVIOUS
<1> USE DEF OwnerHoldsNoShare, IsShared, Exists, At
<1> RequestsTypeOK /\ TypeOK /\ OwnerHoldsNoShare
  BY DEF IInv, TypeOK, RequestsTypeOK
<1>0. CASE UNCHANGED <<owner, share>>
  BY <1>0
<1>1. ASSUME NEW s \in Slots, handleUnshare(s) PROVE OwnerHoldsNoShare'
  BY <1>1 DEF handleUnshare, RemoveShare, TypeOK, StoreTypeOK
<1>2. ASSUME NEW s \in Slots, handleSavePersonAccess(s) PROVE OwnerHoldsNoShare'
  <2>1. CASE SetShareSteward(req[s].rep, req[s].who, req[s].steward)
    BY <2>1 DEF SetShareSteward, TypeOK, StoreTypeOK
  <2>2. QED
    BY <1>0, <1>2, <2>1 DEF handleSavePersonAccess, SetShareCommands
<1>3. ASSUME NEW s \in Slots, handleAcceptInvite(s) PROVE OwnerHoldsNoShare'
  <2>1. CASE /\ At(s, "AcceptInvite") /\ AcceptInvite(req[s].link, req[s].uid)
    <3> DEFINE r == link[req[s].link].rep
               u == req[s].uid
    <3>1. req[s].link \in Links /\ u \in Users /\ link[req[s].link].st = "live"
      BY <2>1, Redeeming, RequestFields DEF LinkCalls, At
    <3>2. r = req[s].rep /\ owner[req[s].rep] # u
      BY <2>1, <3>1 DEF IInv, RedeemersAreNotOwners, At
    <3>3. /\ owner' = owner
          /\ share' = share \/ share' = [share EXCEPT ![r][u] = "shared"]
      BY <2>1, Redeeming
    <3>4. owner[r] # u
      BY <3>2
    <3>5. /\ share \in [Repeaters -> [Users -> ShareKinds]]
          /\ owner \in [Repeaters -> Users \cup {None}]
      BY DEF TypeOK, StoreTypeOK
    <3> HIDE DEF r, u
    <3>6. CASE share' = [share EXCEPT ![r][u] = "shared"]
      <4>1. \A q \in Repeaters, v \in Users :
                q # r \/ v # u => share'[q][v] = share[q][v]
        BY <3>5, <3>6
      <4>2. QED
        BY <3>3, <3>4, <3>5, <4>1
    <3>7. QED
      BY <1>0, <3>3, <3>6
  <2>2. QED
    BY <1>0, <1>3, <2>1, RedeemingCases DEF storeVars
<1>4. ASSUME NEW s \in Slots, handleTransferRepeater(s) PROVE OwnerHoldsNoShare'
  BY <1>4, RequestFields
  DEF handleTransferRepeater, TransferRepeaterToSteward, PersonCalls, TypeOK, StoreTypeOK
<1>5. ASSUME NEW u \in Users, NEW r \in Repeaters, handleDeleteRepeater(u, r)
      PROVE  OwnerHoldsNoShare'
  BY <1>5 DEF handleDeleteRepeater, DeleteRepeaterOwned, TypeOK, StoreTypeOK
<1>6. ASSUME NEW s \in Slots, BeginRequest(s) PROVE UNCHANGED <<owner, share>>
  BY <1>6, BeginCases DEF BeginsWellFormed, Begin
<1>7. ASSUME NEW s \in Slots, handleCreateLink(s) \/ handleDeleteInvite(s) \/ GiveUp(s)
      PROVE  UNCHANGED <<owner, share>>
  BY <1>7 DEF handleCreateLink, CreateInvite, handleDeleteInvite, DeleteInvite, GiveUp
<1>8. CASE Janitor
  BY <1>0, <1>8 DEF Janitor, LapseInvite, PruneInvites
<1>9. CASE UNCHANGED vars
  BY <1>0, <1>9 DEF vars
<1>10. QED
  BY <1>0, <1>1, <1>2, <1>3, <1>4, <1>5, <1>6, <1>7, <1>8, <1>9 DEF Next

(* A handover drops the repeater's links, so whoever came by one cannot     *)
(* redeem it.                                                               *)
LEMMA RedeemersStep == IInv /\ [Next]_vars => RedeemersAreNotOwners'
<1> SUFFICES ASSUME IInv, [Next]_vars,
                    NEW t \in Slots, pc'[t] \in {"IsSharedBeforeAccept", "AcceptInvite"}
             PROVE  /\ link'[req'[t].link].st # "free"
                    /\ link'[req'[t].link].st \in {"live", "lapsed"} =>
                        /\ link'[req'[t].link].rep = req'[t].rep
                        /\ owner'[req'[t].rep] # req'[t].uid
  BY DEF RedeemersAreNotOwners
<1> DEFINE i == req[t].link
           Known == /\ req'[t] = req[t] /\ i \in Links
                    /\ req[t].rep \in Repeaters /\ req[t].uid \in Users
                    /\ link[i].st # "free"
                    /\ link[i].st \in {"live", "lapsed"} =>
                        link[i].rep = req[t].rep /\ owner[req[t].rep] # req[t].uid
           Goal == /\ link'[req'[t].link].st # "free"
                   /\ link'[req'[t].link].st \in {"live", "lapsed"} =>
                        /\ link'[req'[t].link].rep = req'[t].rep
                        /\ owner'[req'[t].rep] # req'[t].uid
<1> RequestsTypeOK /\ TypeOK /\ RedeemersAreNotOwners
  BY DEF IInv, TypeOK, RequestsTypeOK
<1> USE DEF At
(* A request that is not just beginning keeps its fields, and what it knew  *)
(* of them stands until this step.                                          *)
<1>1. ASSUME req'[t] = req[t], pc[t] \in {"IsSharedBeforeAccept", "AcceptInvite"} PROVE Known
  BY <1>1, RequestFields DEF RedeemersAreNotOwners, LinkCalls
<1>2. ASSUME NEW s \in Slots, Finish(s) PROVE Known
  BY <1>1, <1>2 DEF Finish, RequestsTypeOK
<1>3. ASSUME NEW s \in Slots, NEW call, Goto(s, call),
             call = "AcceptInvite" => At(s, "IsSharedBeforeAccept"), call # "IsSharedBeforeAccept"
      PROVE  Known
  BY <1>1, <1>3 DEF Goto, RequestsTypeOK
<1>4. ASSUME UNCHANGED <<pc, req>> PROVE Known
  BY <1>1, <1>4
<1>5. ASSUME Known, UNCHANGED <<link, owner>> PROVE Goal
  BY <1>5
<1>6. ASSUME Known, NEW S, DropLinks(S),
             \A r \in Repeaters : owner'[r] = owner[r] \/ PendingLinks(r) \subseteq S
      PROVE  Goal
  <2>1. CASE i \in S
    BY <1>6, <2>1 DEF DropLinks, NoLink
  <2>2. CASE i \notin S
    BY <1>6, <2>2 DEF DropLinks, PendingLinks
  <2>3. QED
    BY <2>1, <2>2
<1> HIDE DEF Known, Goal
<1>7. ASSUME NEW s \in Slots, BeginRequest(s) PROVE Goal
  <2>1. PICK call \in Calls : \E q \in Requests(call) : BeginsWellFormed(s, call, q)
    BY <1>7, BeginCases
  <2> PICK q \in Requests(call) : BeginsWellFormed(s, call, q)
    BY <2>1
  <2>2. UNCHANGED <<link, owner>>
    BY DEF BeginsWellFormed, Begin
  <2>3. CASE s = t
    BY <2>2, <2>3 DEF BeginsWellFormed, Begin, Goal, RequestsTypeOK
  <2>4. CASE s # t
    BY <1>1, <1>5, <2>2, <2>4 DEF BeginsWellFormed, Begin, RequestsTypeOK
  <2>5. QED
    BY <2>3, <2>4
<1>8. ASSUME NEW s \in Slots, handleCreateLink(s) PROVE Goal
  <2>1. PICK j \in Links :
            /\ link[j].st = "free"
            /\ link' = [link EXCEPT ![j] = [st |-> "live", rep |-> req[s].rep,
                                            cmds |-> req[s].cmds]]
    BY <1>8 DEF handleCreateLink, CreateInvite
  <2>2. Known /\ UNCHANGED owner
    BY <1>2, <1>8 DEF handleCreateLink, CreateInvite
  <2>3. QED
    BY <2>1, <2>2 DEF Known, Goal
<1>9. ASSUME NEW s \in Slots, handleDeleteInvite(s) PROVE Goal
  BY <1>2, <1>6, <1>9 DEF handleDeleteInvite, DeleteInvite
<1>10. ASSUME NEW s \in Slots, handleUnshare(s) \/ GiveUp(s) PROVE Goal
  BY <1>2, <1>5, <1>10 DEF handleUnshare, RemoveShare, GiveUp
<1>11. ASSUME NEW s \in Slots, handleSavePersonAccess(s) PROVE Goal
  BY <1>2, <1>3, <1>5, <1>11 DEF handleSavePersonAccess, SetShareSteward, SetShareCommands
<1>12. ASSUME NEW s \in Slots, handleAcceptInvite(s) PROVE Goal
  <2>1. CASE At(s, "IsSharedBeforeAccept") /\ Goto(s, "AcceptInvite") /\ UNCHANGED storeVars
    BY <1>3, <1>5, <2>1, Zenon
  <2>2. CASE AcceptInvite(req[s].link, req[s].uid) /\ Finish(s)
    BY <1>2, <1>6, <2>2, Redeeming
  <2>3. QED
    BY <1>12, <2>1, <2>2, RedeemingCases
<1>13. ASSUME NEW s \in Slots, handleTransferRepeater(s) PROVE Goal
  BY <1>2, <1>6, <1>13
  DEF handleTransferRepeater, TransferRepeaterToSteward, TypeOK, StoreTypeOK
<1>14. ASSUME NEW u \in Users, NEW r \in Repeaters, handleDeleteRepeater(u, r) PROVE Goal
  BY <1>4, <1>6, <1>14
  DEF handleDeleteRepeater, DeleteRepeaterOwned, TypeOK, StoreTypeOK
<1>15. ASSUME NEW j \in Links, LapseInvite(j), UNCHANGED <<pc, req>> PROVE Goal
  BY <1>4, <1>15 DEF LapseInvite, TypeOK, StoreTypeOK, Known, Goal
<1>16. ASSUME NEW S \in SUBSET Links, PruneInvites(S), UNCHANGED <<pc, req>> PROVE Goal
  BY <1>4, <1>6, <1>16 DEF PruneInvites
<1>17. ASSUME Janitor PROVE Goal
  BY <1>15, <1>16, <1>17 DEF Janitor
<1>18. ASSUME UNCHANGED vars PROVE Goal
  BY <1>4, <1>5, <1>18 DEF vars
<1>19. Goal
  BY <1>7, <1>8, <1>9, <1>10, <1>11, <1>12, <1>13, <1>14, <1>17, <1>18 DEF Next
<1>20. QED
  BY <1>19 DEF Goal

(* A link is consumed by the redemption that gives a share.                 *)
LEMMA RedeemedStep == IInv /\ [Next]_vars => (UnspentLinks /\ LinkRedeemedOnce)'
<1> SUFFICES ASSUME IInv, [Next]_vars PROVE (UnspentLinks /\ LinkRedeemedOnce)'
  OBVIOUS
<1> USE DEF UnspentLinks, LinkRedeemedOnce
<1> RequestsTypeOK /\ TypeOK /\ UnspentLinks /\ LinkRedeemedOnce
  BY DEF IInv, TypeOK, RequestsTypeOK
<1>1. ASSUME UNCHANGED redeemed,
             \A i \in Links : link'[i].st # "gone" => link[i].st # "gone"
      PROVE  (UnspentLinks /\ LinkRedeemedOnce)'
  BY <1>1
<1>2. ASSUME UNCHANGED <<redeemed, link>> PROVE (UnspentLinks /\ LinkRedeemedOnce)'
  BY <1>2
<1>3. ASSUME NEW S, DropLinks(S)
      PROVE  \A i \in Links : link'[i].st # "gone" => link'[i] = link[i]
  BY <1>3 DEF DropLinks, NoLink
<1>4. ASSUME NEW s \in Slots, BeginRequest(s) PROVE UNCHANGED <<redeemed, link>>
  BY <1>4, BeginCases DEF BeginsWellFormed, Begin
<1>5. ASSUME NEW s \in Slots, handleCreateLink(s) PROVE (UnspentLinks /\ LinkRedeemedOnce)'
  <2>1. \A i \in Links : link[i].st = "free" \/ link'[i] = link[i]
    BY <1>5 DEF handleCreateLink, CreateInvite
  <2>2. QED
    BY <1>1, <1>5, <2>1 DEF handleCreateLink
<1>6. ASSUME NEW s \in Slots, handleDeleteInvite(s) PROVE (UnspentLinks /\ LinkRedeemedOnce)'
  BY <1>1, <1>3, <1>6 DEF handleDeleteInvite, DeleteInvite
<1>7. ASSUME NEW s \in Slots, handleUnshare(s) \/ handleSavePersonAccess(s) \/ GiveUp(s)
      PROVE  UNCHANGED <<redeemed, link>>
  BY <1>7 DEF handleUnshare, RemoveShare, GiveUp,
              handleSavePersonAccess, SetShareSteward, SetShareCommands
<1>8. ASSUME NEW s \in Slots, handleAcceptInvite(s) PROVE (UnspentLinks /\ LinkRedeemedOnce)'
  <2> DEFINE i == req[s].link
             u == req[s].uid
  <2>1. CASE At(s, "AcceptInvite") /\ AcceptInvite(i, u)
    <3>1. i \in Links /\ link[i].st = "live" /\ DropLinks({i})
      BY <2>1, Redeeming, RequestFields DEF At, LinkCalls
    <3>2. link'[i].st = "gone"
      BY <3>1 DEF DropLinks, NoLink
    <3>3. redeemed[i] = {}
      BY <3>1
    <3>4. CASE redeemed' = redeemed
      BY <1>1, <1>3, <3>1, <3>4
    <3>5. CASE redeemed' = [redeemed EXCEPT ![i] = @ \cup {u}]
      <4>1. redeemed'[i] = {u} /\ \A j \in Links : j # i => redeemed'[j] = redeemed[j]
        BY <3>1, <3>3, <3>5 DEF TypeOK
      <4>2. \A j \in Links : j # i /\ link'[j].st # "gone" => link[j].st # "gone"
        BY <1>3, <3>1
      <4>3. QED
        BY <3>2, <4>1, <4>2
    <3>6. QED
      BY <1>8, <2>1, <3>4, <3>5, RedeemingCases DEF At
  <2>2. QED
    BY <1>2, <1>8, <2>1, RedeemingCases
<1>9. ASSUME NEW s \in Slots, handleTransferRepeater(s) PROVE (UnspentLinks /\ LinkRedeemedOnce)'
  BY <1>1, <1>3, <1>9 DEF handleTransferRepeater, TransferRepeaterToSteward
<1>10. ASSUME NEW u \in Users, NEW r \in Repeaters, handleDeleteRepeater(u, r)
       PROVE  (UnspentLinks /\ LinkRedeemedOnce)'
  BY <1>1, <1>3, <1>10 DEF handleDeleteRepeater, DeleteRepeaterOwned
<1>11. ASSUME NEW i \in Links, LapseInvite(i), UNCHANGED redeemed
       PROVE  (UnspentLinks /\ LinkRedeemedOnce)'
  BY <1>1, <1>11 DEF LapseInvite, TypeOK, StoreTypeOK
<1>12. ASSUME NEW S \in SUBSET Links, PruneInvites(S), UNCHANGED redeemed
       PROVE  (UnspentLinks /\ LinkRedeemedOnce)'
  BY <1>1, <1>3, <1>12 DEF PruneInvites
<1>13. QED
  BY <1>2, <1>4, <1>5, <1>6, <1>7, <1>8, <1>9, <1>10, <1>11, <1>12 DEF Next, Janitor, vars

(* So the invariant holds in every state.                                   *)
LEMMA Inductive == Spec => []IInv
<1>1. IInv /\ [Next]_vars => IInv'
  BY TypeStep, OwnerStep, RedeemersStep, RedeemedStep DEF IInv
<1>2. QED
  BY InitIInv, <1>1, PTL DEF Spec

(* Whatever requests race, nobody owns a repeater and holds a share on it.  *)
THEOREM OwnersHoldNoShare == Spec => []OwnerHoldsNoShare
<1>1. IInv => OwnerHoldsNoShare
  BY DEF IInv
<1>2. QED
  BY <1>1, Inductive, PTL

(* A visitor whose link still works does not own what it leads to, however  *)
(* long ago that was checked.                                               *)
THEOREM RedeemersNeverOwn == Spec => []RedeemersAreNotOwners
<1>1. IInv => RedeemersAreNotOwners
  BY DEF IInv
<1>2. QED
  BY <1>1, Inductive, PTL

(* A link gives a share to one person at most, however many redeem it.      *)
THEOREM LinksRedeemedOnce == Spec => []LinkRedeemedOnce
<1>1. IInv => LinkRedeemedOnce
  BY DEF IInv
<1>2. QED
  BY <1>1, Inductive, PTL

-----------------------------------------------------------------------------
(* What a single step may do to a share, and to an owner.                   *)

(* A share is never made but by consuming a live link or handing over.      *)
THEOREM SharesAreGiven == Spec => SharesComeFromLinksOrHandovers
<1> DEFINE Given(r, u) ==
      ~IsShared(r, u) /\ IsShared(r, u)' =>
          \/ \E i \in Links : RepeaterByInviteToken(i, r) /\ link'[i].st = "gone"
          \/ GetRepeaterOwned(u, r) /\ ~GetRepeaterOwned(u, r)'
<1>1. ASSUME IInv, Next, NEW r \in Repeaters, NEW u \in Users PROVE Given(r, u)
  <2> RequestsTypeOK /\ TypeOK
    BY <1>1 DEF IInv, TypeOK, RequestsTypeOK
  <2> USE DEF IsShared, At
  <2>1. CASE UNCHANGED share
    BY <2>1
  <2>2. ASSUME NEW s \in Slots, BeginRequest(s) PROVE UNCHANGED share
    BY <2>2, BeginCases DEF BeginsWellFormed, Begin
  <2>3. ASSUME NEW s \in Slots, handleCreateLink(s) \/ handleDeleteInvite(s) \/ GiveUp(s)
        PROVE  UNCHANGED share
    BY <2>3 DEF handleCreateLink, CreateInvite, handleDeleteInvite, DeleteInvite, GiveUp
  <2>4. ASSUME NEW s \in Slots, handleUnshare(s) PROVE Given(r, u)
    BY <2>4, RequestFields DEF handleUnshare, RemoveShare, PersonCalls, TypeOK, StoreTypeOK
  <2>5. ASSUME NEW s \in Slots, handleSavePersonAccess(s) PROVE Given(r, u)
    <3>1. CASE SetShareSteward(req[s].rep, req[s].who, req[s].steward)
      BY <3>1 DEF SetShareSteward, TypeOK, StoreTypeOK
    <3>2. QED
      BY <2>1, <2>5, <3>1 DEF handleSavePersonAccess, SetShareCommands
  <2>6. ASSUME NEW s \in Slots, handleAcceptInvite(s) PROVE Given(r, u)
    <3> DEFINE i == req[s].link
    <3>1. CASE At(s, "AcceptInvite") /\ AcceptInvite(i, req[s].uid)
      <4>1. i \in Links /\ link[i].st = "live" /\ link'[i].st = "gone"
        <5>1. link[i].st = "live" /\ DropLinks({i})
          BY <3>1, Redeeming
        <5>2. i \in Links
          BY <3>1, RequestFields DEF LinkCalls
        <5>3. QED
          BY <5>1, <5>2 DEF DropLinks, NoLink
      <4>2. CASE link[i].rep = r
        BY <4>1, <4>2 DEF RepeaterByInviteToken
      <4>3. CASE link[i].rep # r
        <5>1. share' = share \/ share' = [share EXCEPT ![link[i].rep][req[s].uid] = "shared"]
          BY <3>1, Redeeming
        <5>2. share \in [Repeaters -> [Users -> ShareKinds]]
          BY DEF TypeOK, StoreTypeOK
        <5>3. share'[r][u] = share[r][u]
          <6> HIDE DEF i
          <6>1. QED
            BY <4>3, <5>1, <5>2
        <5>4. QED
          BY <5>3
      <4>4. QED
        BY <4>2, <4>3
    <3>2. QED
      BY <2>1, <2>6, <3>1, RedeemingCases DEF storeVars
  <2>7. ASSUME NEW s \in Slots, handleTransferRepeater(s) PROVE Given(r, u)
    BY <2>7, RequestFields DEF handleTransferRepeater, TransferRepeaterToSteward,
                               PersonCalls, GetRepeaterOwned, TypeOK, StoreTypeOK
  <2>8. ASSUME NEW v \in Users, NEW q \in Repeaters, handleDeleteRepeater(v, q) PROVE Given(r, u)
    BY <2>8 DEF handleDeleteRepeater, DeleteRepeaterOwned, TypeOK, StoreTypeOK
  <2>9. ASSUME Janitor PROVE UNCHANGED share
    BY <2>9 DEF Janitor, LapseInvite, PruneInvites
  <2>10. QED
    BY <1>1, <2>1, <2>2, <2>3, <2>4, <2>5, <2>6, <2>7, <2>8, <2>9 DEF Next
<1>2. IInv /\ [Next]_vars => [\A r \in Repeaters, u \in Users : Given(r, u)]_vars
  BY <1>1
<1>3. QED
  BY <1>2, Inductive, PTL DEF Spec, SharesComeFromLinksOrHandovers

(* A repeater changes hands only by its owner's request to its steward.     *)
THEOREM HandoversAreAskedFor == Spec => HandoverOnlyByOwnerToSteward
<1> DEFINE AskedFor(r) ==
      owner'[r] \notin {owner[r], None} =>
          /\ IsSteward(r, owner'[r])
          /\ \E s \in Slots :
              /\ At(s, "Transfer") /\ ~At(s, "Transfer")'
              /\ req[s].uid = owner[r] /\ req[s].rep = r /\ req[s].who = owner'[r]
<1>1. ASSUME IInv, Next, NEW r \in Repeaters PROVE AskedFor(r)
  <2> RequestsTypeOK /\ TypeOK
    BY <1>1 DEF IInv, TypeOK, RequestsTypeOK
  <2>1. CASE UNCHANGED owner
    BY <2>1
  <2>2. ASSUME NEW s \in Slots, BeginRequest(s) PROVE UNCHANGED owner
    BY <2>2, BeginCases, Zenon DEF BeginsWellFormed, Begin
  <2>3. ASSUME NEW s \in Slots,
               \/ handleCreateLink(s) \/ handleDeleteInvite(s) \/ handleUnshare(s)
               \/ handleSavePersonAccess(s) \/ handleAcceptInvite(s) \/ GiveUp(s)
        PROVE  UNCHANGED owner
    BY <2>3, Zenon
    DEF handleCreateLink, CreateInvite, handleDeleteInvite, DeleteInvite, handleUnshare,
                RemoveShare, handleSavePersonAccess, SetShareSteward, SetShareCommands,
                handleAcceptInvite, AcceptInvite, GiveUp
  <2>4. ASSUME NEW s \in Slots, handleTransferRepeater(s) PROVE AskedFor(r)
    BY <2>4 DEF handleTransferRepeater, TransferRepeaterToSteward, Finish, At,
                RequestsTypeOK, TypeOK, StoreTypeOK
  <2>5. ASSUME NEW v \in Users, NEW q \in Repeaters, handleDeleteRepeater(v, q) PROVE AskedFor(r)
    BY <2>5 DEF handleDeleteRepeater, DeleteRepeaterOwned, TypeOK, StoreTypeOK
  <2>6. ASSUME Janitor PROVE UNCHANGED owner
    BY <2>6 DEF Janitor, LapseInvite, PruneInvites
  <2>7. QED
    BY <1>1, <2>1, <2>2, <2>3, <2>4, <2>5, <2>6 DEF Next
<1>2. IInv /\ [Next]_vars => [\A r \in Repeaters : AskedFor(r)]_vars
  BY <1>1
<1>3. QED
  BY <1>2, Inductive, PTL DEF Spec, HandoverOnlyByOwnerToSteward

-----------------------------------------------------------------------------
(* Sharing implements RepeaterAccess: each store call that counts is one    *)
(* step of the access its owner sees, the rest are stutters.                *)

Tickets == [r \in Repeaters |-> {i \in Links : RepeaterByInviteToken(i, r)}]
Issued == {i \in Links : link[i].st # "free"}

(* Dropping links that were drawn takes them from the outstanding tickets   *)
(* and issues none.                                                         *)
LEMMA DropTickets ==
  ASSUME TypeOK, NEW S, DropLinks(S), \A i \in S \cap Links : link[i].st # "free"
  PROVE  Tickets' = [r \in Repeaters |-> Tickets[r] \ S] /\ Issued' = Issued
  BY DEF Tickets, Issued, DropLinks, NoLink, RepeaterByInviteToken

(* Links that lead somewhere were drawn.                                    *)
LEMMA PendingDrawn ==
  ASSUME TypeOK, NEW r \in Repeaters
  PROVE  \A i \in PendingLinks(r) : link[i].st # "free"
  BY LinkFields, NoneAssumption DEF PendingLinks, NoLink, TypeOK, StoreTypeOK

(* The tickets of a repeater are among the links that lead to it.           *)
LEMMA PendingTickets ==
  ASSUME NEW r \in Repeaters
  PROVE  /\ DOMAIN Tickets = Repeaters /\ Tickets[r] \subseteq PendingLinks(r)
         /\ \A q \in Repeaters \ {r} : Tickets[q] \ PendingLinks(r) = Tickets[q]
  BY DEF Tickets, PendingLinks, RepeaterByInviteToken

(* Every step of the handlers is one of the abstract access, or none of it. *)
LEMMA RefinementStep == IInv /\ [Next]_vars => [Access!AccessNext]_(Access!accessVars)
<1> SUFFICES ASSUME IInv, [Next]_vars PROVE [Access!AccessNext]_(Access!accessVars)
  OBVIOUS
<1> RequestsTypeOK /\ TypeOK
  BY DEF IInv, TypeOK, RequestsTypeOK
<1> DEFINE Goal == [Access!AccessNext]_(Access!accessVars)
<1>1. ASSUME UNCHANGED <<owner, share, Tickets, Issued>> PROVE Goal
  BY <1>1 DEF Access!accessVars, Tickets, Issued
<1>2. ASSUME UNCHANGED <<owner, share, link>> PROVE Goal
  BY <1>1, <1>2 DEF Tickets, Issued, RepeaterByInviteToken
<1> HIDE DEF Goal
<1>3. ASSUME NEW s \in Slots, BeginRequest(s) PROVE Goal
  BY <1>2, <1>3, BeginCases DEF BeginsWellFormed, Begin
<1>4. ASSUME NEW s \in Slots, handleCreateLink(s) PROVE Goal
  <2> DEFINE r == req[s].rep
  <2>1. PICK i \in Links :
            /\ link[i].st = "free"
            /\ link' = [link EXCEPT ![i] = [st |-> "live", rep |-> r,
                                            cmds |-> req[s].cmds]]
    BY <1>4 DEF handleCreateLink, CreateInvite
  <2>2. r \in Repeaters /\ owner[r] # None /\ UNCHANGED <<owner, share>>
    BY <1>4, RequestFields DEF handleCreateLink, CreateInvite, Exists, At
  <2>3. i \notin Issued /\ Issued' = Issued \cup {i}
    BY <2>1 DEF Issued, TypeOK, StoreTypeOK
  <2>4. Tickets' = [Tickets EXCEPT ![r] = @ \cup {i}]
    <3> HIDE DEF r
    <3>1. /\ link'[i].st = "live" /\ link'[i].rep = r
          /\ \A j \in Links : j # i => link'[j] = link[j]
      BY <2>1 DEF TypeOK, StoreTypeOK
    <3>2. ASSUME NEW q \in Repeaters, NEW j \in Links
          PROVE  RepeaterByInviteToken(j, q)' <=> j \in Tickets[q] \/ (j = i /\ q = r)
      BY <2>1, <3>1 DEF Tickets, RepeaterByInviteToken
    <3>3. Tickets' = [q \in Repeaters |-> Tickets[q] \cup {j \in Links : j = i /\ q = r}]
      BY <3>2 DEF Tickets
    <3>4. Tickets \in [Repeaters -> SUBSET Links]
      BY DEF Tickets
    <3>5. QED
      BY <3>3, <3>4
  <2>5. Access!Issue(r, i)
    BY <2>2, <2>3, <2>4 DEF Access!Issue, Tickets, Issued
  <2>6. QED
    BY <2>2, <2>5 DEF Goal, Access!AccessNext
<1>5. ASSUME NEW s \in Slots, handleDeleteInvite(s) PROVE Goal
  <2> DEFINE r == req[s].rep
             i == req[s].link
  <2>1. /\ r \in Repeaters /\ i \in Links /\ UNCHANGED <<owner, share>>
        /\ DropLinks({i} \cap PendingLinks(r))
    BY <1>5, RequestFields DEF handleDeleteInvite, DeleteInvite, At, LinkCalls
  <2>2. Issued' = Issued /\ Tickets' = [q \in Repeaters |-> Tickets[q] \ ({i} \cap PendingLinks(r))]
    BY <2>1, DropTickets, PendingDrawn
  <2>3. \A q \in Repeaters : Tickets[q] \cap PendingLinks(r) = IF q = r THEN Tickets[r] ELSE {}
    BY <2>1 DEF Tickets, PendingLinks, RepeaterByInviteToken
  <2>4. CASE i \in Tickets[r]
    <3>1. Tickets' = [Tickets EXCEPT ![r] = @ \ {i}]
      BY <2>1, <2>2, <2>3, <2>4 DEF Tickets
    <3>2. Access!Void(r, i)
      BY <2>1, <2>2, <2>4, <3>1 DEF Access!Void, Tickets, Issued
    <3>3. QED
      BY <2>1, <3>2 DEF Goal, Access!AccessNext
  <2>5. CASE i \notin Tickets[r]
    <3>1. Tickets' = Tickets
      BY <2>1, <2>2, <2>3, <2>5 DEF Tickets
    <3>2. QED
      BY <1>1, <2>1, <2>2, <3>1
  <2>6. QED
    BY <2>4, <2>5
<1>6. ASSUME NEW s \in Slots, handleUnshare(s) PROVE Goal
  <2>1. /\ req[s].rep \in Repeaters /\ req[s].who \in Users /\ UNCHANGED <<owner, link>>
        /\ share' = [share EXCEPT ![req[s].rep][req[s].who] = "none"]
    BY <1>6, RequestFields DEF handleUnshare, RemoveShare, At, PersonCalls
  <2>2. Access!Revoke(req[s].rep, req[s].who)
    BY <2>1 DEF Access!Revoke, RepeaterByInviteToken
  <2>3. QED
    BY <2>1, <2>2 DEF Goal, Access!AccessNext
<1>7. ASSUME NEW s \in Slots, handleSavePersonAccess(s) PROVE Goal
  <2> DEFINE r == req[s].rep
             u == req[s].who
  <2>1. CASE At(s, "SetShareSteward") /\ SetShareSteward(r, u, req[s].steward)
    <3>1. /\ r \in Repeaters /\ u \in Users /\ UNCHANGED <<owner, link>>
          /\ share' = [share EXCEPT ![r][u] = IF @ = "none" THEN "none"
                            ELSE IF req[s].steward THEN "steward" ELSE "shared"]
      BY <2>1, RequestFields DEF SetShareSteward, At, PersonCalls
    <3>2. CASE share[r][u] = "none"
      <4>1. share' = share
        BY <3>1, <3>2 DEF TypeOK, StoreTypeOK
      <4>2. QED
        BY <1>2, <3>1, <4>1
    <3>3. CASE share[r][u] # "none"
      <4> DEFINE kind == IF req[s].steward THEN "steward" ELSE "shared"
      <4>1. kind \in {"shared", "steward"} /\ share' = [share EXCEPT ![r][u] = kind]
        BY <3>1, <3>3
      <4>2. UNCHANGED <<Tickets, Issued>>
        BY <3>1 DEF Tickets, Issued, RepeaterByInviteToken
      <4> HIDE DEF kind, r, u
      <4>3. Access!Regrade(r, u, kind)
        BY <3>1, <3>3, <4>1, <4>2 DEF Access!Regrade, Tickets, Issued
      <4>4. QED
        BY <3>1, <4>1, <4>3 DEF Goal, Access!AccessNext
    <3>4. QED
      BY <3>2, <3>3
  <2>2. QED
    BY <1>2, <1>7, <2>1 DEF handleSavePersonAccess, SetShareCommands
<1>8. ASSUME NEW s \in Slots, handleAcceptInvite(s) PROVE Goal
  <2> DEFINE i == req[s].link
             r == link[i].rep
             u == req[s].uid
  <2>1. CASE At(s, "AcceptInvite") /\ AcceptInvite(i, u)
    <3>1. /\ At(s, "AcceptInvite") /\ link[i].st = "live" /\ DropLinks({i})
          /\ UNCHANGED owner
          /\ IF share[r][u] # "none" THEN share' = share
             ELSE share' = [share EXCEPT ![r][u] = "shared"]
      BY <2>1, Zenon DEF AcceptInvite, IsShared
    <3>2. i \in Links /\ u \in Users
      BY <3>1, RequestFields DEF At, LinkCalls
    <3>3. link \in [Links -> LinkRows]
      BY DEF TypeOK, StoreTypeOK
    <3>4. r \in Repeaters /\ owner[r] # u
      <4>1. r \in Repeaters
        BY <3>1, <3>2, <3>3, LinkFields
      <4>2. r = req[s].rep /\ owner[req[s].rep] # u
        BY <3>1 DEF At, IInv, RedeemersAreNotOwners
      <4>3. QED
        BY <4>1, <4>2
    <3>5. Issued' = Issued /\ Tickets' = [q \in Repeaters |-> Tickets[q] \ {i}]
      BY <3>1, <3>2, DropTickets
    <3>6. /\ i \in Tickets[r]
          /\ \A q \in Repeaters \ {r} : Tickets[q] \ {i} = Tickets[q]
          /\ Tickets \in [Repeaters -> SUBSET Links]
      BY <3>1, <3>2, <3>4 DEF Tickets, RepeaterByInviteToken
    <3>7. share \in [Repeaters -> [Users -> ShareKinds]]
      BY DEF TypeOK, StoreTypeOK
    <3> HIDE DEF r, i, u
    <3>8. Tickets' = [Tickets EXCEPT ![r] = @ \ {i}]
      BY <3>4, <3>5, <3>6
    <3>9. share' = [share EXCEPT ![r][u] = IF @ = "none" THEN "shared" ELSE @]
      <4>1. CASE share[r][u] = "none"
        BY <3>1, <4>1
      <4>2. CASE share[r][u] # "none"
        BY <3>1, <3>2, <3>4, <3>7, <4>2
      <4>3. QED
        BY <4>1, <4>2
    <3>10. Access!Redeem(r, i, u)
      BY <3>1, <3>4, <3>5, <3>6, <3>8, <3>9 DEF Access!Redeem, Tickets, Issued
    <3>11. QED
      BY <3>2, <3>4, <3>10 DEF Goal, Access!AccessNext
  <2>2. QED
    BY <1>2, <1>8, <2>1, RedeemingCases
<1>9. ASSUME NEW s \in Slots, handleTransferRepeater(s) PROVE Goal
  <2> DEFINE r == req[s].rep
             cur == req[s].uid
             new == req[s].who
  <2>1. /\ r \in Repeaters /\ cur \in Users /\ new \in Users
        /\ TransferRepeaterToSteward(cur, r, new)
    BY <1>9, RequestFields DEF handleTransferRepeater, At, PersonCalls
  <2>2. /\ cur # new /\ owner[r] = cur /\ share[r][new] = "steward"
        /\ owner' = [owner EXCEPT ![r] = new]
        /\ share' = [share EXCEPT ![r][new] = "none", ![r][cur] = "steward"]
    BY <2>1 DEF TransferRepeaterToSteward, IsSteward
  <2>3. Issued' = Issued /\ Tickets' = [q \in Repeaters |-> Tickets[q] \ PendingLinks(r)]
    BY <2>1, DropTickets, PendingDrawn DEF TransferRepeaterToSteward
  <2>4. Tickets' = [Tickets EXCEPT ![r] = {}]
    <3>1. Tickets' = [q \in Repeaters |-> IF q = r THEN {} ELSE Tickets[q]]
      BY <2>1, <2>3, PendingTickets
    <3>2. QED
      BY <3>1, PendingTickets, <2>1
  <2>5. Access!Handover(r, new)
    BY <2>1, <2>2, <2>3, <2>4, NoneAssumption DEF Access!Handover, Tickets, Issued
  <2>6. QED
    BY <2>1, <2>5 DEF Goal, Access!AccessNext
<1>10. ASSUME NEW u \in Users, NEW r \in Repeaters, handleDeleteRepeater(u, r) PROVE Goal
  <2>1. /\ owner[r] = u /\ owner' = [owner EXCEPT ![r] = None]
        /\ share' = [share EXCEPT ![r] = [v \in Users |-> "none"]]
        /\ DropLinks(PendingLinks(r))
    BY <1>10 DEF handleDeleteRepeater, DeleteRepeaterOwned
  <2>2. Issued' = Issued /\ Tickets' = [q \in Repeaters |-> Tickets[q] \ PendingLinks(r)]
    BY <2>1, DropTickets, PendingDrawn
  <2>3. Tickets' = [Tickets EXCEPT ![r] = {}]
    <3>1. Tickets' = [q \in Repeaters |-> IF q = r THEN {} ELSE Tickets[q]]
      BY <2>2, PendingTickets
    <3>2. QED
      BY <3>1, PendingTickets
  <2>4. Access!Remove(r)
    BY <2>1, <2>2, <2>3, NoneAssumption DEF Access!Remove, Access!Nobody, Tickets, Issued
  <2>5. QED
    BY <2>4 DEF Goal, Access!AccessNext
<1>11. ASSUME NEW i \in Links, LapseInvite(i) PROVE Goal
  <2> DEFINE r == link[i].rep
  <2>1. /\ link[i].st = "live" /\ r \in Repeaters /\ UNCHANGED <<owner, share>>
        /\ link' = [link EXCEPT ![i] = [st |-> "lapsed", rep |-> r,
                                        cmds |-> link[i].cmds]]
    BY <1>11, LinkFields DEF LapseInvite, TypeOK, StoreTypeOK
  <2>2. Issued' = Issued
    BY <2>1 DEF Issued, TypeOK, StoreTypeOK
  <2>3. Tickets' = [Tickets EXCEPT ![r] = @ \ {i}] /\ i \in Tickets[r]
    <3>1. i \in Tickets[r]
      BY <2>1 DEF Tickets, RepeaterByInviteToken
    <3>2. link[i].rep = r
      OBVIOUS
    <3> HIDE DEF r
    <3>3. link'[i].st = "lapsed" /\ \A j \in Links : j # i => link'[j] = link[j]
      BY <2>1 DEF TypeOK, StoreTypeOK
    <3>4. ASSUME NEW q \in Repeaters, NEW j \in Links
          PROVE  RepeaterByInviteToken(j, q)' <=> j \in Tickets[q] /\ j # i
      BY <3>3 DEF Tickets, RepeaterByInviteToken
    <3>5. \A q \in Repeaters : q # r => i \notin Tickets[q]
      BY <3>2 DEF Tickets, RepeaterByInviteToken
    <3>6. Tickets' = [q \in Repeaters |-> Tickets[q] \ {i}]
      BY <3>4 DEF Tickets
    <3>7. Tickets \in [Repeaters -> SUBSET Links]
      BY DEF Tickets
    <3>8. QED
      BY <2>1, <3>1, <3>5, <3>6, <3>7
  <2>4. Access!Void(r, i)
    BY <2>1, <2>2, <2>3 DEF Access!Void, Tickets, Issued
  <2>5. QED
    BY <2>1, <2>4 DEF Goal, Access!AccessNext
<1>12. ASSUME NEW S \in SUBSET Links, PruneInvites(S) PROVE Goal
  <2>1. /\ Issued' = Issued /\ Tickets' = [q \in Repeaters |-> Tickets[q] \ S]
        /\ UNCHANGED <<owner, share>> /\ \A i \in S : link[i].st = "lapsed"
    BY <1>12, DropTickets DEF PruneInvites
  <2>2. Tickets' = Tickets
    BY <2>1 DEF Tickets, RepeaterByInviteToken
  <2>3. QED
    BY <1>1, <2>1, <2>2
<1>13. ASSUME NEW s \in Slots, GiveUp(s) PROVE Goal
  BY <1>2, <1>13 DEF GiveUp
<1>14. ASSUME UNCHANGED vars PROVE Goal
  BY <1>2, <1>14 DEF vars
<1>15. Goal
  BY <1>3, <1>4, <1>5, <1>6, <1>7, <1>8, <1>9, <1>10, <1>11, <1>12, <1>13, <1>14
  DEF Next, Janitor
<1>16. QED
  BY <1>15 DEF Goal

(* Every behaviour of the handlers is one of the access the owner sees.     *)
THEOREM SharingImplementsAccess == Spec => ImplementsRepeaterAccess
<1>1. Init => Access!AccessInit
  BY NoneAssumption
  DEF Init, Access!AccessInit, Access!Nobody, RepeaterByInviteToken, NoLink
<1>2. QED
  BY <1>1, RefinementStep, Inductive, PTL DEF Spec, ImplementsRepeaterAccess, Access!AccessSpec

=============================================================================
