---------------------------------- MODULE OrgProofs ----------------------------------
(***************************************************************************)
(* What is proved of OrgAccess, for any people, repeaters, commands and     *)
(* organizations and any number of requests in flight: narrowing widens     *)
(* nothing, and opt-outs end by a decision.                                 *)
(***************************************************************************)
EXTENDS OrgAccess, TLAPS

USE DEF peopleTables, orgTables, storeVars

(* What a request carries for the calls it still has to make.               *)
Carries(call, q) ==
    /\ call = "SetExcluded" => q.form \in {"include", "exclude"}
    /\ call \in {"SetExcluded", "OrgCeiling", "SetOptIn", "CommitOptIn"} =>
            q.org \in Orgs /\ q.rep \in Repeaters
    /\ call = "ExcludeOwnerRepeaters" => q.org \in Orgs /\ q.uid \in Users
    /\ call = "SetMember" => q.org \in Orgs /\ q.who \in Users

RequestsOK ==
    /\ pc \in [Slots -> Calls]
    /\ req \in [Slots -> Requests]
    /\ \A s \in Slots : Carries(pc[s], req[s])

Inv == StoreTypeOK /\ RequestsOK /\ late \in [Slots -> SUBSET Commands]

-----------------------------------------------------------------------------
(* The steps every request is made of keep the requests well formed.        *)

(* A request built of well-typed parts is one.                              *)
LEMMA RequestTyped ==
  ASSUME NEW u \in Users \cup {None}, NEW o \in Orgs \cup {None}, NEW r \in Repeaters \cup {None},
         NEW t \in Users \cup {None}, NEW f \in Forms, NEW clear \in BOOLEAN,
         NEW cs \in SUBSET Commands
  PROVE  Request(u, o, r, t, f, clear, cs) \in Requests
  BY DEF Request, Requests

(* A slot that goes on with a request its next call can use stays typed.    *)
LEMMA MoveKeeps ==
  ASSUME NEW s \in Slots, NEW call \in Calls, NEW q \in Requests, Carries(call, q), RequestsOK,
         pc' = [pc EXCEPT ![s] = call], req' = [req EXCEPT ![s] = q]
  PROVE  RequestsOK'
<1>1. pc' \in [Slots -> Calls] /\ req' \in [Slots -> Requests]
  BY DEF RequestsOK
<1>2. ASSUME NEW t \in Slots PROVE Carries(pc'[t], req'[t])
  <2>1. CASE t = s
    BY <2>1 DEF RequestsOK
  <2>2. CASE t # s
    BY <2>2 DEF RequestsOK
  <2> QED
    BY <2>1, <2>2
<1> QED
  BY <1>1, <1>2 DEF RequestsOK

(* So does one that ends.                                                   *)
LEMMA FinishKeeps ==
  ASSUME NEW s \in Slots, Finish(s), RequestsOK
  PROVE  RequestsOK'
<1>1. NoRequest \in Requests
  BY RequestTyped DEF NoRequest, Forms
<1>2. "free" \in Calls /\ Carries("free", NoRequest)
  BY DEF Calls, Carries
<1> QED
  BY <1>1, <1>2, MoveKeeps DEF Finish

(* And one that makes its next call with what it has.                       *)
LEMMA GotoKeeps ==
  ASSUME NEW s \in Slots, NEW call \in Calls, Goto(s, call), req' = req, RequestsOK,
         Carries(call, req[s])
  PROVE  RequestsOK'
<1>1. req' = [req EXCEPT ![s] = req[s]] /\ req[s] \in Requests
  BY DEF RequestsOK
<1> QED
  BY <1>1, MoveKeeps DEF Goto

(* What overlapping saves do not see stays sets of commands.                *)
LEMMA OptedInTyped ==
  ASSUME late \in [Slots -> SUBSET Commands], NEW s, NEW o, NEW r, NEW cs \in SUBSET Commands,
         OptedIn(s, o, r, cs)
  PROVE  late' \in [Slots -> SUBSET Commands]
  BY DEF OptedIn

(* Writing one cell of a table keeps the table's type.                      *)
LEMMA CellTyped ==
  ASSUME NEW A, NEW B, NEW V, NEW f \in [A -> [B -> V]], NEW a \in A, NEW b \in B, NEW v \in V
  PROVE  [f EXCEPT ![a][b] = v] \in [A -> [B -> V]]
  OBVIOUS

-----------------------------------------------------------------------------
(* Type correctness.                                                        *)

(* At first nobody asks for anything.                                       *)
LEMMA InitInv == Init => Inv
<1> SUFFICES ASSUME Init PROVE Inv
  OBVIOUS
<1>1. StoreTypeOK
  BY NoneAssumption DEF Init, StoreTypeOK, ShareKinds, Roles, LinkRows, NoLink
<1>2. NoRequest \in Requests /\ "free" \in Calls /\ Carries("free", NoRequest)
  BY RequestTyped DEF NoRequest, Forms, Calls, Carries
<1>3. RequestsOK /\ late \in [Slots -> SUBSET Commands]
  BY <1>2 DEF Init, RequestsOK
<1> QED
  BY <1>1, <1>3 DEF Inv

(* The membership tables keep their type whoever is added, promoted or      *)
(* removed.                                                                 *)
LEMMA RolesTyped ==
  ASSUME StoreTypeOK, NEW o \in Orgs, NEW u \in Users,
         \/ AddOrgMember(o, u)
         \/ RemoveOrgMember(o, u)
         \/ \E x \in {"member", "admin"} : SetOrgMemberRole(o, u, x)
  PROVE  StoreTypeOK'
<1> USE DEF StoreTypeOK, Roles
<1>1. \E x \in Roles : role' = [role EXCEPT ![o][u] = x]
  BY DEF AddOrgMember, RemoveOrgMember, SetOrgMemberRole
<1>2. role' \in [Orgs -> [Users -> Roles]]
  BY <1>1, CellTyped
<1> QED
  BY <1>2 DEF AddOrgMember, RemoveOrgMember, SetOrgMemberRole

(* Joining makes the member at once and, with mode "none", a request.       *)
LEMMA JoinStep ==
  ASSUME Inv, NEW s \in Slots, NEW u \in Users, NEW o \in Orgs, NEW none \in BOOLEAN,
         BeginJoinOrg(s, u, o, none)
  PROVE  Inv'
<1>1. StoreTypeOK' /\ late' \in [Slots -> SUBSET Commands]
  BY RolesTyped DEF BeginJoinOrg, Inv
<1>2. RequestsOK'
  <2>1. CASE UNCHANGED <<pc, req>>
    BY <2>1 DEF Inv, RequestsOK
  <2>2. CASE Begin(s, "ExcludeOwnerRepeaters", Request(u, o, None, None, "", FALSE, {}))
    <3>1. Request(u, o, None, None, "", FALSE, {}) \in Requests
      BY RequestTyped DEF Forms
    <3>2. /\ "ExcludeOwnerRepeaters" \in Calls
          /\ Carries("ExcludeOwnerRepeaters", Request(u, o, None, None, "", FALSE, {}))
      BY DEF Calls, Carries, Request
    <3> QED
      BY <2>2, <3>1, <3>2, MoveKeeps DEF Begin, Inv
  <2> QED
    BY <2>1, <2>2 DEF BeginJoinOrg
<1> QED
  BY <1>1, <1>2 DEF Inv

(* Its second call opts repeaters out.                                      *)
LEMMA ExcludeStep ==
  ASSUME Inv, NEW s \in Slots, handleJoinOrg(s)
  PROVE  Inv'
<1>1. RequestsOK'
  BY FinishKeeps DEF handleJoinOrg, Inv
<1>2. req[s].org \in Orgs /\ req[s].uid \in Users
  BY DEF handleJoinOrg, At, Inv, RequestsOK, Carries
<1>3. StoreTypeOK'
  BY <1>2 DEF handleJoinOrg, ExcludeOwnerRepeatersFromOrg, Inv, StoreTypeOK
<1> QED
  BY <1>1, <1>3 DEF handleJoinOrg, Inv

(* An admin's request on a member only reads when it begins.                *)
LEMMA BeginMemberStep ==
  ASSUME Inv, NEW s \in Slots, NEW u \in Users, NEW o \in Orgs, NEW t \in Users,
         NEW form \in {"promote", "demote", "remove"}, BeginSetOrgMember(s, u, o, t, form)
  PROVE  Inv'
<1>1. Request(None, o, None, t, form, FALSE, {}) \in Requests
  BY RequestTyped DEF Forms
<1>2. "SetMember" \in Calls /\ Carries("SetMember", Request(None, o, None, t, form, FALSE, {}))
  BY DEF Calls, Carries, Request
<1>3. RequestsOK'
  BY <1>1, <1>2, MoveKeeps DEF BeginSetOrgMember, Begin, Inv
<1> QED
  BY <1>3 DEF BeginSetOrgMember, Inv, StoreTypeOK

(* Then it changes one role.                                                *)
LEMMA MemberStep ==
  ASSUME Inv, NEW s \in Slots, handleSetOrgMember(s)
  PROVE  Inv'
<1>1. req[s].org \in Orgs /\ req[s].who \in Users
  BY DEF handleSetOrgMember, At, Inv, RequestsOK, Carries
<1>2. RequestsOK'
  BY FinishKeeps DEF handleSetOrgMember, Inv
<1>3. StoreTypeOK'
  BY <1>1, RolesTyped DEF handleSetOrgMember, Inv
<1> QED
  BY <1>2, <1>3 DEF handleSetOrgMember, Inv

(* A save of the limits page begins with what the form says.                *)
LEMMA BeginLimitsStep ==
  ASSUME Inv, NEW s \in Slots, NEW u \in Users, NEW r \in Repeaters, NEW o \in Orgs,
         NEW form \in {"include", "exclude"}, NEW clear \in BOOLEAN, NEW cs \in SUBSET Commands,
         BeginSaveRepeaterOrgLimits(s, u, r, o, form, clear, cs)
  PROVE  Inv'
<1> DEFINE q == Request(None, o, r, None, form, clear, cs)
<1>1. q \in Requests
  BY RequestTyped DEF Forms
<1>2. "SetExcluded" \in Calls /\ Carries("SetExcluded", q)
  BY DEF Calls, Carries, Request
<1>3. RequestsOK'
  BY <1>1, <1>2, MoveKeeps DEF BeginSaveRepeaterOrgLimits, Begin, Inv
<1> QED
  BY <1>3 DEF BeginSaveRepeaterOrgLimits, Inv, StoreTypeOK

(* The save goes on call by call: the switch, the ceiling, the list.        *)
LEMMA LimitsStep ==
  ASSUME Inv, NEW s \in Slots, handleSaveRepeaterOrgLimits(s)
  PROVE  Inv'
<1> DEFINE o == req[s].org
           r == req[s].rep
<1>0. /\ o \in Orgs /\ r \in Repeaters /\ req[s].chosen \in SUBSET Commands
      /\ RequestsOK /\ StoreTypeOK /\ late \in [Slots -> SUBSET Commands]
  BY DEF handleSaveRepeaterOrgLimits, At, Inv, RequestsOK, Carries, Requests
<1>a. ASSUME NEW call \in {"OrgCeiling", "SetOptIn"}, NEW cs \in SUBSET Commands,
             Goto(s, call), Choose(s, cs)
      PROVE  RequestsOK'
  <2>1. Request(None, o, r, None, "", FALSE, cs) \in Requests
    BY <1>0, RequestTyped DEF Forms
  <2>2. call \in Calls /\ Carries(call, Request(None, o, r, None, "", FALSE, cs))
    BY <1>0 DEF Calls, Carries, Request
  <2> QED
    BY <1>0, <1>a, <2>1, <2>2, MoveKeeps DEF Goto, Choose
<1>1. CASE /\ At(s, "SetExcluded")
           /\ SetRepeaterOrgExcluded(o, r, req[s].form = "exclude")
           /\ IF req[s].clear THEN Goto(s, "SetOptIn") /\ Choose(s, {})
              ELSE Goto(s, "OrgCeiling") /\ Choose(s, req[s].chosen)
           /\ UNCHANGED late
  <2>1. RequestsOK'
    BY <1>0, <1>1, <1>a
  <2>2. StoreTypeOK'
    BY <1>0, <1>1 DEF SetRepeaterOrgExcluded, StoreTypeOK
  <2> QED
    BY <1>0, <1>1, <2>1, <2>2 DEF Inv
<1>2. CASE /\ At(s, "OrgCeiling") /\ Choose(s, Stored(req[s].chosen)) /\ Goto(s, "SetOptIn")
           /\ UNCHANGED <<storeVars, late>>
  <2>1. Stored(req[s].chosen) \in SUBSET Commands
    BY <1>0 DEF Stored
  <2>2. RequestsOK'
    BY <1>2, <2>1, <1>a
  <2> QED
    BY <1>0, <1>2, <2>2 DEF Inv, StoreTypeOK
<1>3. CASE /\ At(s, "SetOptIn") /\ Goto(s, "CommitOptIn") /\ UNCHANGED <<storeVars, req, late>>
  <2>1. "CommitOptIn" \in Calls /\ Carries("CommitOptIn", req[s])
    BY <1>0 DEF Calls, Carries
  <2>2. RequestsOK'
    BY <1>0, <1>3, <2>1, GotoKeeps
  <2> QED
    BY <1>0, <1>3, <2>2 DEF Inv, StoreTypeOK
<1>4. CASE /\ At(s, "CommitOptIn") /\ SetRepeaterOrgOptIn(o, r, req[s].chosen, late[s])
           /\ OptedIn(s, o, r, req[s].chosen) /\ Finish(s)
  <2>1. RequestsOK'
    BY <1>0, <1>4, FinishKeeps
  <2>2. late' \in [Slots -> SUBSET Commands]
    BY <1>0, <1>4, OptedInTyped
  <2>3. optin' \in [Orgs -> [Repeaters -> SUBSET Commands]]
    <3>1. \E v \in SUBSET Commands : optin' = [optin EXCEPT ![o][r] = v]
      BY <1>0, <1>4 DEF SetRepeaterOrgOptIn
    <3>2. optin \in [Orgs -> [Repeaters -> SUBSET Commands]]
      BY <1>0 DEF StoreTypeOK
    <3> QED
      BY <1>0, <3>1, <3>2, CellTyped
  <2>4. StoreTypeOK'
    BY <1>0, <1>4, <2>3 DEF SetRepeaterOrgOptIn, StoreTypeOK
  <2> QED
    BY <2>1, <2>2, <2>4 DEF Inv
<1> QED
  BY <1>1, <1>2, <1>3, <1>4 DEF handleSaveRepeaterOrgLimits

(* A handover moves rows of the repeater's.                                 *)
LEMMA TransferStep ==
  ASSUME Inv, NEW u \in Users, NEW r \in Repeaters, NEW new \in Users,
         handleTransferRepeater(u, r, new)
  PROVE  Inv'
<1>1. RequestsOK' /\ late' \in [Slots -> SUBSET Commands]
  BY DEF handleTransferRepeater, Inv, RequestsOK
<1>2. link' \in [Links -> LinkRows]
  BY DEF handleTransferRepeater, TransferRepeaterToSteward, DropLinks, Inv, StoreTypeOK, LinkRows,
         NoLink
<1>3. StoreTypeOK'
  BY <1>2 DEF handleTransferRepeater, TransferRepeaterToSteward, Inv, StoreTypeOK, ShareKinds
<1> QED
  BY <1>1, <1>3 DEF Inv

(* The site admin moves one command in or out of the ceiling's tiers.       *)
LEMMA CatalogStep ==
  ASSUME Inv, NEW c \in Commands, NEW member \in BOOLEAN, NEW admin \in BOOLEAN,
         handleUpdateCommand(c, member, admin)
  PROVE  Inv'
  BY DEF handleUpdateCommand, UpdateCommandFlags, Inv, RequestsOK, StoreTypeOK

(* Every step of every handler keeps all that.                              *)
LEMMA InvStep == Inv /\ [Next]_vars => Inv'
<1> SUFFICES ASSUME Inv, [Next]_vars PROVE Inv'
  OBVIOUS
<1>1. ASSUME NEW s \in Slots, BeginRequest(s) PROVE Inv'
  <2>1. PICK u \in Users, o \in Orgs :
            \/ \E none \in BOOLEAN : BeginJoinOrg(s, u, o, none)
            \/ \E t \in Users, form \in {"promote", "demote", "remove"} :
                BeginSetOrgMember(s, u, o, t, form)
            \/ \E r \in Repeaters, form \in {"include", "exclude"}, clear \in BOOLEAN,
                  cs \in SUBSET Commands : BeginSaveRepeaterOrgLimits(s, u, r, o, form, clear, cs)
    BY <1>1 DEF BeginRequest
  <2>2. CASE \E none \in BOOLEAN : BeginJoinOrg(s, u, o, none)
    BY <2>2, JoinStep
  <2>3. CASE \E t \in Users, form \in {"promote", "demote", "remove"} :
                BeginSetOrgMember(s, u, o, t, form)
    BY <2>3, BeginMemberStep
  <2>4. CASE \E r \in Repeaters, form \in {"include", "exclude"}, clear \in BOOLEAN,
                cs \in SUBSET Commands : BeginSaveRepeaterOrgLimits(s, u, r, o, form, clear, cs)
    BY <2>4, BeginLimitsStep
  <2> QED
    BY <2>1, <2>2, <2>3, <2>4
<1>2. ASSUME NEW s \in Slots, GiveUp(s) PROVE Inv'
  BY <1>2, FinishKeeps DEF GiveUp, Inv, StoreTypeOK
<1>3. ASSUME NEW u \in Users, NEW o \in Orgs, handleLeaveOrg(u, o) PROVE Inv'
  BY <1>3, RolesTyped DEF handleLeaveOrg, Inv, RequestsOK
<1>4. CASE UNCHANGED vars
  BY <1>4 DEF vars, Inv, RequestsOK, StoreTypeOK
<1> QED
  BY <1>1, <1>2, <1>3, <1>4, ExcludeStep, MemberStep, LimitsStep, TransferStep, CatalogStep DEF Next

(* Every handler writes values the tables can hold.                         *)
THEOREM TypeCorrect == Spec => []TypeOK
<1>1. Inv => TypeOK
  BY DEF Inv, RequestsOK, Carries, TypeOK, At
<1> QED
  BY <1>1, InitInv, InvStep, PTL DEF Spec

-----------------------------------------------------------------------------
(* Narrowing. No handler of organizations touches people's grants except by *)
(* changing the owner, so what is left is that the ceiling's cut is         *)
(* monotone in the role, the ceiling and the participation.                 *)

(* A step changes an owner, or leaves people's access alone.                *)
LEMMA PeopleOrOwner ==
  ASSUME Inv, [Next]_vars, owner' = owner
  PROVE  UNCHANGED <<share, grant>>
<1>1. ASSUME NEW s \in Slots, BeginRequest(s) PROVE UNCHANGED <<share, grant>>
  BY <1>1 DEF BeginRequest, BeginJoinOrg, AddOrgMember, BeginSetOrgMember,
     BeginSaveRepeaterOrgLimits
<1>2. ASSUME NEW s \in Slots, handleJoinOrg(s) \/ GiveUp(s) PROVE UNCHANGED <<share, grant>>
  BY <1>2 DEF handleJoinOrg, ExcludeOwnerRepeatersFromOrg, GiveUp
<1>3. ASSUME NEW s \in Slots, handleSetOrgMember(s) PROVE UNCHANGED <<share, grant>>
  BY <1>3 DEF handleSetOrgMember, SetOrgMemberRole, RemoveOrgMember
<1>4. ASSUME NEW s \in Slots, handleSaveRepeaterOrgLimits(s) PROVE UNCHANGED <<share, grant>>
  BY <1>4 DEF handleSaveRepeaterOrgLimits, SetRepeaterOrgExcluded, SetRepeaterOrgOptIn
<1>5. ASSUME NEW u \in Users, NEW o \in Orgs, handleLeaveOrg(u, o) PROVE UNCHANGED <<share, grant>>
  BY <1>5 DEF handleLeaveOrg, RemoveOrgMember
<1>6. ASSUME NEW u \in Users, NEW new \in Users, NEW r \in Repeaters,
             handleTransferRepeater(u, r, new)
      PROVE  FALSE
  BY <1>6 DEF handleTransferRepeater, TransferRepeaterToSteward, Inv, StoreTypeOK
<1>7. ASSUME NEW c \in Commands, NEW member \in BOOLEAN, NEW admin \in BOOLEAN,
             handleUpdateCommand(c, member, admin)
      PROVE  UNCHANGED <<share, grant>>
  BY <1>7 DEF handleUpdateCommand, UpdateCommandFlags
<1>8. CASE UNCHANGED vars
  BY <1>8 DEF vars
<1> QED
  BY <1>1, <1>2, <1>3, <1>4, <1>5, <1>6, <1>7, <1>8 DEF Next

(* What a narrowing may yet give to people: what a list that was saved away *)
(* allowed no longer keeps from them.                                       *)
Unlisted(u, r) ==
    UNION {OrgCommands(o, u, r)' : o \in {x \in Orgs : IsMember(x, u) /\ StoresNoList(x, r)}}

WidensNothing ==
    \A u \in Users, r \in Repeaters :
        ListSendableCommandIDs(u, r)' \subseteq ListSendableCommandIDs(u, r) \cup Unlisted(u, r)

(* A list changes when a save commits: it loses its last command only when  *)
(* that save stores none.                                                   *)
LEMMA EmptiedBySave ==
  ASSUME Inv, [Next]_vars, owner' = owner, NEW o \in Orgs, NEW r \in Repeaters,
         optin[o][r] # {}, optin'[o][r] = {}
  PROVE  StoresNoList(o, r)
<1>0. optin' # optin
  OBVIOUS
<1>1. ASSUME NEW s \in Slots, BeginRequest(s) PROVE FALSE
  BY <1>0, <1>1 DEF BeginRequest, BeginJoinOrg, AddOrgMember, BeginSetOrgMember,
     BeginSaveRepeaterOrgLimits, storeVars, orgTables
<1>2. ASSUME NEW s \in Slots, handleJoinOrg(s) \/ GiveUp(s) PROVE FALSE
  BY <1>0, <1>2 DEF handleJoinOrg, ExcludeOwnerRepeatersFromOrg, GiveUp, storeVars, orgTables
<1>3. ASSUME NEW s \in Slots, handleSetOrgMember(s) PROVE FALSE
  BY <1>0, <1>3 DEF handleSetOrgMember, SetOrgMemberRole, RemoveOrgMember
<1>4. ASSUME NEW s \in Slots, handleSaveRepeaterOrgLimits(s) PROVE StoresNoList(o, r)
  <2>1. /\ At(s, "CommitOptIn") /\ Finish(s)
        /\ SetRepeaterOrgOptIn(req[s].org, req[s].rep, req[s].chosen, late[s])
    BY <1>0, <1>4 DEF handleSaveRepeaterOrgLimits, SetRepeaterOrgExcluded, storeVars, orgTables
  <2>2. req[s].org = o /\ req[s].rep = r /\ req[s].chosen = {}
    BY <2>1 DEF SetRepeaterOrgOptIn, Inv, StoreTypeOK
  <2>3. ~At(s, "CommitOptIn")'
    BY <2>1 DEF Finish, At, Inv, RequestsOK
  <2> QED
    BY <2>1, <2>2, <2>3 DEF StoresNoList
<1>5. ASSUME NEW u \in Users, NEW x \in Orgs, handleLeaveOrg(u, x) PROVE FALSE
  BY <1>0, <1>5 DEF handleLeaveOrg, RemoveOrgMember
<1>6. ASSUME NEW u \in Users, NEW new \in Users, NEW q \in Repeaters,
             handleTransferRepeater(u, q, new)
      PROVE  FALSE
  BY <1>0, <1>6 DEF handleTransferRepeater, TransferRepeaterToSteward
<1>7. ASSUME NEW c \in Commands, NEW member \in BOOLEAN, NEW admin \in BOOLEAN,
             handleUpdateCommand(c, member, admin)
      PROVE  FALSE
  BY <1>0, <1>7 DEF handleUpdateCommand, UpdateCommandFlags
<1>8. CASE UNCHANGED vars
  BY <1>0, <1>8 DEF vars, storeVars, orgTables
<1> QED
  BY <1>1, <1>2, <1>3, <1>4, <1>5, <1>6, <1>7, <1>8 DEF Next

(* Whoever is a member or an admin after a narrowing was one before.        *)
LEMMA RolesShrink ==
  ASSUME StoreTypeOK, StoreTypeOK', Narrows, NEW o \in Orgs, NEW u \in Users
  PROVE  /\ role'[o][u] # "none" => role[o][u] # "none"
         /\ role'[o][u] = "admin" => role[o][u] = "admin"
<1>1. role[o][u] \in Roles /\ role'[o][u] \in Roles
  BY DEF StoreTypeOK
<1>2. Rank(role'[o][u]) <= Rank(role[o][u])
  BY DEF Narrows
<1> QED
  BY <1>1, <1>2 DEF Roles, Rank

(* What an org lets a person run shrinks with the roles, the ceiling and    *)
(* the list, as long as there is one.                                       *)
LEMMA OrgCommandsShrink ==
  ASSUME StoreTypeOK, StoreTypeOK', Narrows, NEW o \in Orgs, NEW u \in Users, NEW r \in Repeaters,
         optin[o][r] = {} \/ optin'[o][r] # {}
  PROVE  OrgCommands(o, u, r)' \subseteq OrgCommands(o, u, r)
<1>1. optin[o][r] = {} \/ (optin'[o][r] # {} /\ optin'[o][r] \subseteq optin[o][r])
  BY DEF Narrows
<1> QED
  BY <1>1, RolesShrink DEF OrgCommands, IsOrgAdmin, Narrows

(* So does the set of orgs through which they reach the repeater.           *)
LEMMA OrgsShrink ==
  ASSUME StoreTypeOK, StoreTypeOK', Narrows, NEW o \in Orgs, NEW u \in Users, NEW r \in Repeaters,
         Participates(r, o)', IsMember(o, u)'
  PROVE  Participates(r, o) /\ IsMember(o, u)
<1>1. owner[r] \in Users /\ owner'[r] = owner[r]
  BY NoneAssumption DEF Participates, Exists, Narrows, StoreTypeOK
<1> QED
  BY <1>1, RolesShrink DEF Participates, Exists, IsMember, Narrows

(* Together: nobody may send more.                                          *)
LEMMA NarrowStep == Inv /\ Inv' /\ [Next]_vars /\ Narrows => WidensNothing
<1> SUFFICES ASSUME Inv, Inv', [Next]_vars, Narrows, NEW u \in Users, NEW r \in Repeaters,
                    NEW c \in ListSendableCommandIDs(u, r)'
             PROVE  c \in ListSendableCommandIDs(u, r) \cup Unlisted(u, r)
  BY DEF WidensNothing
<1>0. StoreTypeOK /\ StoreTypeOK'
  BY DEF Inv
<1>1. UNCHANGED <<owner, share, grant>>
  BY PeopleOrOwner DEF Narrows
<1>2. CASE GetRepeaterOwned(u, r) \/ IsSteward(r, u)
  <2>1. c \in Commands
    BY <1>1, <1>2 DEF ListSendableCommandIDs, GetRepeaterOwned, IsSteward
  <2> QED
    BY <1>2, <2>1 DEF ListSendableCommandIDs
<1>3. CASE ~(GetRepeaterOwned(u, r) \/ IsSteward(r, u))
  <2>1. ~(GetRepeaterOwned(u, r) \/ IsSteward(r, u))'
    BY <1>1, <1>3 DEF GetRepeaterOwned, IsSteward
  <2>2. \/ c \in grant'[r][u]
        \/ \E o \in Orgs : Participates(r, o)' /\ IsMember(o, u)' /\ c \in OrgCommands(o, u, r)'
    BY <2>1 DEF ListSendableCommandIDs
  <2>3. ASSUME NEW o \in Orgs, Participates(r, o)', IsMember(o, u)', c \in OrgCommands(o, u, r)'
        PROVE  \/ Participates(r, o) /\ c \in OrgCommands(o, u, r)
               \/ c \in Unlisted(u, r)
    <3>1. Participates(r, o) /\ IsMember(o, u)
      BY <1>0, <2>3, OrgsShrink
    <3>2. CASE optin[o][r] = {} \/ optin'[o][r] # {}
      BY <1>0, <2>3, <3>1, <3>2, OrgCommandsShrink
    <3>3. CASE optin[o][r] # {} /\ optin'[o][r] = {}
      <4>1. StoresNoList(o, r)
        BY <1>1, <3>3, EmptiedBySave
      <4> QED
        BY <2>3, <3>1, <4>1 DEF Unlisted
    <3> QED
      BY <3>2, <3>3
  <2>4. \/ c \in grant[r][u]
        \/ \E o \in Orgs : Participates(r, o) /\ IsMember(o, u) /\ c \in OrgCommands(o, u, r)
        \/ c \in Unlisted(u, r)
    BY <1>0, <1>1, <2>2, <2>3, OrgsShrink
  <2> QED
    BY <1>3, <2>4 DEF ListSendableCommandIDs
<1> QED
  BY <1>2, <1>3

(* Taking a membership, a role, a repeater or a command away, a command of  *)
(* a list too, gives nobody a command they could not send before, but where *)
(* the owner has just saved that there is no list.                          *)
THEOREM NarrowingHolds == Spec => NarrowingNeverWidens
<1>1. Inv /\ Inv' /\ [Next]_vars =>
        [Narrows =>
            \A u \in Users, r \in Repeaters :
                ListSendableCommandIDs(u, r)' \subseteq
                    ListSendableCommandIDs(u, r) \cup
                    UNION {OrgCommands(o, u, r)' :
                            o \in {x \in Orgs : IsMember(x, u) /\ StoresNoList(x, r)}}
          ]_storeVars
  BY NarrowStep DEF WidensNothing, Unlisted
<1> QED
  BY <1>1, InitInv, InvStep, PTL DEF Spec, NarrowingNeverWidens

-----------------------------------------------------------------------------
(* Opt-outs. Two statements delete them: the limits page's switch and the   *)
(* handover.                                                                *)

EndedByDecision ==
    \A o \in Orgs, r \in Repeaters : <<o, r>> \in excluded \ excluded' =>
        \/ \E s \in Slots :
            /\ At(s, "SetExcluded") /\ ~At(s, "SetExcluded")'
            /\ req[s].org = o /\ req[s].rep = r /\ req[s].form = "include"
        \/ owner'[r] # owner[r] /\ ~IsMember(o, owner'[r])

(* Whatever keeps every opt-out ends none.                                  *)
LEMMA NoneEnds == excluded \subseteq excluded' => EndedByDecision
  BY DEF EndedByDecision

(* The switch ends the opt-out the form names.                              *)
LEMMA SwitchStep ==
  ASSUME Inv, NEW s \in Slots, handleSaveRepeaterOrgLimits(s)
  PROVE  EndedByDecision
<1>1. CASE /\ At(s, "SetExcluded")
           /\ SetRepeaterOrgExcluded(req[s].org, req[s].rep, req[s].form = "exclude")
  <2>1. CASE req[s].form = "exclude"
    BY <1>1, <2>1, NoneEnds DEF SetRepeaterOrgExcluded
  <2>2. CASE req[s].form # "exclude"
    <3>1. req[s].form = "include"
      BY <1>1, <2>2 DEF Inv, RequestsOK, Carries, At
    <3>2. excluded' = excluded \ {<<req[s].org, req[s].rep>>}
      BY <1>1, <2>2 DEF SetRepeaterOrgExcluded
    <3>3. pc'[s] # "SetExcluded"
      BY <1>1 DEF handleSaveRepeaterOrgLimits, At, Goto, Finish, Inv, RequestsOK
    <3> QED
      BY <1>1, <3>1, <3>2, <3>3 DEF EndedByDecision, At
  <2> QED
    BY <2>1, <2>2
<1>2. CASE excluded' = excluded
  BY <1>2, NoneEnds
<1> QED
  BY <1>1, <1>2 DEF handleSaveRepeaterOrgLimits, SetRepeaterOrgOptIn

(* A handover ends those of orgs the new owner is not in.                   *)
LEMMA HandoverStep ==
  ASSUME Inv, NEW u \in Users, NEW r \in Repeaters, NEW new \in Users,
         handleTransferRepeater(u, r, new)
  PROVE  EndedByDecision
<1>1. excluded' = {e \in excluded : e[2] = r => IsMember(e[1], new)}
  BY DEF handleTransferRepeater, TransferRepeaterToSteward
<1>2. owner'[r] = new /\ owner[r] # new
  BY DEF handleTransferRepeater, TransferRepeaterToSteward, Inv, StoreTypeOK
<1>3. ASSUME NEW o \in Orgs, NEW q \in Repeaters, <<o, q>> \in excluded \ excluded'
      PROVE  q = r /\ ~IsMember(o, new)
  BY <1>1, <1>3
<1> QED
  BY <1>2, <1>3 DEF EndedByDecision

(* Every step.                                                              *)
LEMMA DecisionStep == Inv /\ [Next]_vars => EndedByDecision
<1> SUFFICES ASSUME Inv, [Next]_vars PROVE EndedByDecision
  OBVIOUS
<1>1. ASSUME NEW s \in Slots, BeginRequest(s) \/ handleJoinOrg(s) PROVE EndedByDecision
  BY <1>1, NoneEnds DEF BeginRequest, BeginJoinOrg, AddOrgMember, BeginSetOrgMember,
     BeginSaveRepeaterOrgLimits, handleJoinOrg, ExcludeOwnerRepeatersFromOrg
<1>2. ASSUME NEW s \in Slots, handleSetOrgMember(s) \/ GiveUp(s) PROVE EndedByDecision
  BY <1>2, NoneEnds DEF handleSetOrgMember, SetOrgMemberRole, RemoveOrgMember, GiveUp
<1>3. ASSUME NEW u \in Users, NEW o \in Orgs, handleLeaveOrg(u, o) PROVE EndedByDecision
  BY <1>3, NoneEnds DEF handleLeaveOrg, RemoveOrgMember
<1>4. ASSUME NEW c \in Commands, NEW member \in BOOLEAN, NEW admin \in BOOLEAN,
             handleUpdateCommand(c, member, admin)
      PROVE  EndedByDecision
  BY <1>4, NoneEnds DEF handleUpdateCommand, UpdateCommandFlags
<1>5. CASE UNCHANGED vars
  BY <1>5, NoneEnds DEF vars
<1> QED
  BY <1>1, <1>2, <1>3, <1>4, <1>5, SwitchStep, HandoverStep DEF Next

(* An opt-out ends only by the limits page's switch or by a handover to     *)
(* somebody outside the org.                                                *)
THEOREM OptOutsStay == Spec => OptOutsEndByDecision
<1>1. Inv /\ [Next]_vars =>
        [\A o \in Orgs, r \in Repeaters : <<o, r>> \in excluded \ excluded' =>
            \/ \E s \in Slots :
                /\ At(s, "SetExcluded") /\ ~At(s, "SetExcluded")'
                /\ req[s].org = o /\ req[s].rep = r /\ req[s].form = "include"
            \/ owner'[r] # owner[r] /\ ~IsMember(o, owner'[r])]_excluded
  BY DecisionStep DEF EndedByDecision
<1> QED
  BY <1>1, InitInv, InvStep, PTL DEF Spec, OptOutsEndByDecision

=============================================================================
