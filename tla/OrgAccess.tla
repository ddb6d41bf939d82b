------------------------------- MODULE OrgAccess -------------------------------
(***************************************************************************)
(* What organizations add to the access to repeaters: members share theirs *)
(* with an org unless they opt one out, and every member may then run the  *)
(* commands of the site's ceiling that the owner's opt-in list leaves      *)
(* (internal/core: orgs, org_participation, admin; transfer). Handlers are *)
(* slots that make one store call after the other, as in Sharing.          *)
(***************************************************************************)
EXTENDS AccessStore, FiniteSets, Naturals

CONSTANTS
    Slots,      \* bound: how many multi-step requests are in flight at once
    Ops         \* bound: the handlers a run starts, a subset of AllOps

AllOps == {"join", "leave", "setMember", "saveLimits", "transfer", "catalog"}

ASSUME OpsAssumption == Ops \subseteq AllOps

VARIABLES
    pc,         \* the store call each slot makes next, "free" when it serves nobody
    req,        \* who asks for what in each slot
    late        \* commands other saves opted in since a save's delete read the table

vars == <<storeVars, pc, req, late>>

Calls == {"free", "ExcludeOwnerRepeaters", "SetMember", "SetExcluded", "OrgCeiling",
          "SetOptIn", "CommitOptIn"}

(* What the calls to come need: form is the action on a member, or whether  *)
(* the Shared switch of the limits page is on.                              *)
Forms == {"", "promote", "demote", "remove", "include", "exclude"}

Request(u, o, r, target, form, clear, cs) ==
    [uid |-> u, org |-> o, rep |-> r, who |-> target, form |-> form, clear |-> clear,
     chosen |-> cs]

NoRequest == Request(None, None, None, None, "", FALSE, {})

Requests == [uid: Users \cup {None}, org: Orgs \cup {None}, rep: Repeaters \cup {None},
             who: Users \cup {None}, form: Forms, clear: BOOLEAN, chosen: SUBSET Commands]

(* Every org was created by somebody, its first admin; every repeater has   *)
(* somebody or nobody as its steward.                                       *)
Init ==
    /\ owner \in [Repeaters -> Users]
    /\ \E steward \in [Repeaters -> Users \cup {None}] :
        /\ \A r \in Repeaters : steward[r] # owner[r]
        /\ share = [r \in Repeaters |->
                        [u \in Users |-> IF u = steward[r] THEN "steward" ELSE "none"]]
    /\ grant = [r \in Repeaters |-> [u \in Users |-> {}]]
    /\ link = [i \in Links |-> NoLink("free")]
    /\ \E creator \in [Orgs -> Users] :
        role = [o \in Orgs |-> [u \in Users |-> IF u = creator[o] THEN "admin" ELSE "none"]]
    /\ excluded = {}
    /\ optin = [o \in Orgs |-> [r \in Repeaters |-> {}]]
    /\ ceiling = [member |-> {}, admin |-> Commands]
    /\ pc = [s \in Slots |-> "free"]
    /\ req = [s \in Slots |-> NoRequest]
    /\ late = [s \in Slots |-> {}]

-----------------------------------------------------------------------------
At(s, call) == pc[s] = call

Begin(s, call, request) ==
    /\ At(s, "free")
    /\ pc' = [pc EXCEPT ![s] = call]
    /\ req' = [req EXCEPT ![s] = request]

Goto(s, call) == pc' = [pc EXCEPT ![s] = call]

Finish(s) ==
    /\ pc' = [pc EXCEPT ![s] = "free"]
    /\ req' = [req EXCEPT ![s] = NoRequest]

-----------------------------------------------------------------------------
(* Joining is a first call that makes the member and, with mode "none", a   *)
(* second that opts out the repeaters they own by then.                     *)
BeginJoinOrg(s, u, o, none) ==
    /\ "join" \in Ops
    /\ AddOrgMember(o, u)
    /\ IF none THEN Begin(s, "ExcludeOwnerRepeaters", Request(u, o, None, None, "", FALSE, {}))
       ELSE At(s, "free") /\ UNCHANGED <<pc, req>>
    /\ UNCHANGED late

handleJoinOrg(s) ==
    /\ At(s, "ExcludeOwnerRepeaters")
    /\ ExcludeOwnerRepeatersFromOrg(req[s].org, req[s].uid)
    /\ Finish(s)
    /\ UNCHANGED late

handleLeaveOrg(u, o) ==
    /\ "leave" \in Ops
    /\ RemoveOrgMember(o, u)
    /\ UNCHANGED <<pc, req, late>>

(* Slip: the member in the path is not checked to be a user id. *)
BeginSetOrgMemberUnparsed(s, u, o, target, form) ==
    /\ IsOrgAdmin(o, u)
    /\ Begin(s, "SetMember", Request(None, o, None, None, form, FALSE, {}))
    /\ UNCHANGED <<storeVars, late>>

(* requireOrgAdmin, and then the action. *)
BeginSetOrgMember(s, u, o, target, form) ==
    /\ "setMember" \in Ops
    /\ IsOrgAdmin(o, u)
    /\ Begin(s, "SetMember", Request(None, o, None, target, form, FALSE, {}))
    /\ UNCHANGED <<storeVars, late>>

handleSetOrgMember(s) ==
    LET o == req[s].org
        target == req[s].who
    IN  /\ At(s, "SetMember")
        /\ \/ req[s].form = "promote" /\ SetOrgMemberRole(o, target, "admin")
           \/ req[s].form = "demote" /\ SetOrgMemberRole(o, target, "member")
           \/ req[s].form = "remove" /\ RemoveOrgMember(o, target)
        /\ Finish(s)
        /\ UNCHANGED late

-----------------------------------------------------------------------------
(* repeaterOrgContext: the repeater is the caller's and so is a membership.  *)
BeginSaveRepeaterOrgLimits(s, u, r, o, form, clear, cs) ==
    /\ "saveLimits" \in Ops
    /\ GetRepeaterOwned(u, r)
    /\ IsMember(o, u)
    /\ Begin(s, "SetExcluded", Request(None, o, r, None, form, clear, cs))
    /\ UNCHANGED <<storeVars, late>>

(* A selection as large as the whole ceiling is stored as no list at all. *)
Stored(cs) == IF Cardinality(cs) >= Cardinality(ceiling.member \cup ceiling.admin) THEN {} ELSE cs

(* What is left of the form once the switch is set: the list cs. *)
Choose(s, cs) ==
    req' = [req EXCEPT ![s] = Request(None, req[s].org, req[s].rep, None, "", FALSE, cs)]

(* s commits the opt-in rows cs: saves of the same list that run meanwhile  *)
(* do not see them.                                                         *)
OptedIn(s, o, r, cs) ==
    late' = [t \in Slots |->
        IF t = s THEN {}
        ELSE IF At(t, "CommitOptIn") /\ req[t].org = o /\ req[t].rep = r
             THEN late[t] \cup cs ELSE late[t]]

(* The participation switch is committed first; the ceiling is read unless  *)
(* the form clears the list; then the list is replaced.                     *)
handleSaveRepeaterOrgLimits(s) ==
    LET o == req[s].org
        r == req[s].rep
    IN  \/ /\ At(s, "SetExcluded")
           /\ SetRepeaterOrgExcluded(o, r, req[s].form = "exclude")
           /\ IF req[s].clear THEN Goto(s, "SetOptIn") /\ Choose(s, {})
              ELSE Goto(s, "OrgCeiling") /\ Choose(s, req[s].chosen)
           /\ UNCHANGED late
        \/ /\ At(s, "OrgCeiling")
           /\ Choose(s, Stored(req[s].chosen))
           /\ Goto(s, "SetOptIn")
           /\ UNCHANGED <<storeVars, late>>
        \/ /\ At(s, "SetOptIn")
           /\ Goto(s, "CommitOptIn")
           /\ UNCHANGED <<storeVars, req, late>>
        \/ /\ At(s, "CommitOptIn")
           /\ SetRepeaterOrgOptIn(o, r, req[s].chosen, late[s])
           /\ OptedIn(s, o, r, req[s].chosen)
           /\ Finish(s)

-----------------------------------------------------------------------------
(* The handover re-reads the owner under a lock, so it is one step here. *)
handleTransferRepeater(u, r, new) ==
    /\ "transfer" \in Ops
    /\ TransferRepeaterToSteward(u, r, new)
    /\ UNCHANGED <<pc, req, late>>

handleUpdateCommand(c, member, admin) ==
    /\ "catalog" \in Ops
    /\ UpdateCommandFlags(c, member, admin)
    /\ UNCHANGED <<pc, req, late>>

(* A store call fails, or refuses to drop the last admin. *)
GiveUp(s) ==
    /\ ~At(s, "free")
    /\ Finish(s)
    /\ late' = [late EXCEPT ![s] = {}]
    /\ UNCHANGED storeVars

BeginRequest(s) ==
    \E u \in Users, o \in Orgs :
        \/ \E none \in BOOLEAN : BeginJoinOrg(s, u, o, none)
        \/ \E target \in Users, form \in {"promote", "demote", "remove"} :
            BeginSetOrgMember(s, u, o, target, form)
        \/ \E r \in Repeaters, form \in {"include", "exclude"} :
            \/ \E cs \in SUBSET Commands : BeginSaveRepeaterOrgLimits(s, u, r, o, form, FALSE, cs)
            \/ BeginSaveRepeaterOrgLimits(s, u, r, o, form, TRUE, {})

Next ==
    \/ \E s \in Slots :
        \/ BeginRequest(s)
        \/ handleJoinOrg(s)
        \/ handleSetOrgMember(s)
        \/ handleSaveRepeaterOrgLimits(s)
        \/ GiveUp(s)
    \/ \E u \in Users, o \in Orgs : handleLeaveOrg(u, o)
    \/ \E u, new \in Users, r \in Repeaters : handleTransferRepeater(u, r, new)
    \/ \E c \in Commands, member, admin \in BOOLEAN : handleUpdateCommand(c, member, admin)

Spec == Init /\ [][Next]_vars

-----------------------------------------------------------------------------
TypeOK ==
    /\ StoreTypeOK
    /\ pc \in [Slots -> Calls]
    /\ req \in [Slots -> Requests]
    /\ \A s \in Slots : At(s, "SetMember") => req[s].who \in Users
    /\ late \in [Slots -> SUBSET Commands]

Rank(x) == CASE x = "none" -> 0 [] x = "member" -> 1 [] x = "admin" -> 2

(* The owner's save of the limits page stores no list: it was cleared, left *)
(* without a command, or given as many as the ceiling has.                  *)
StoresNoList(o, r) ==
    \E s \in Slots :
        /\ At(s, "CommitOptIn") /\ ~At(s, "CommitOptIn")'
        /\ req[s].org = o /\ req[s].rep = r /\ req[s].chosen = {}

(* Only less: no membership, role or command of the ceiling more, no        *)
(* repeater more in an org, and no list that lost its commands' limit but   *)
(* by shrinking. An empty list is no limit at all.                          *)
Narrows ==
    /\ owner' = owner /\ excluded \subseteq excluded'
    /\ \A o \in Orgs, u \in Users : Rank(role'[o][u]) <= Rank(role[o][u])
    /\ ceiling'.member \subseteq ceiling.member /\ ceiling'.admin \subseteq ceiling.admin
    /\ \A o \in Orgs, r \in Repeaters :
        optin[o][r] = {} \/ optin'[o][r] \subseteq optin[o][r]

(* Taking something away (a membership, a role, a repeater from an org, a   *)
(* command from the ceiling or from a list) never gives anybody a command   *)
(* they could not send before, although a list whose last command goes      *)
(* allows everything (share_commands.go:44): but through the org and on the *)
(* repeater for which the owner has just saved that there is no list.       *)
NarrowingNeverWidens ==
    [][Narrows =>
        \A u \in Users, r \in Repeaters :
            ListSendableCommandIDs(u, r)' \subseteq
                ListSendableCommandIDs(u, r) \cup
                UNION {OrgCommands(o, u, r)' :
                           o \in {x \in Orgs : IsMember(x, u) /\ StoresNoList(x, r)}}
      ]_storeVars

(* An opt-out ends only when somebody saves the limits page with the switch *)
(* on, or the repeater goes to an owner outside the org: not by leaving and *)
(* joining again, whatever the mode.                                        *)
OptOutsEndByDecision ==
    [][\A o \in Orgs, r \in Repeaters : <<o, r>> \in excluded \ excluded' =>
        \/ \E s \in Slots :
            /\ At(s, "SetExcluded") /\ ~At(s, "SetExcluded")'
            /\ req[s].org = o /\ req[s].rep = r /\ req[s].form = "include"
        \/ owner'[r] # owner[r] /\ ~IsMember(o, owner'[r])]_excluded

=============================================================================
