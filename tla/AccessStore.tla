------------------------------ MODULE AccessStore ------------------------------
(***************************************************************************)
(* The tables that decide who may do what on a repeater, and the store     *)
(* methods that read and write them (internal/store: shares, share         *)
(* commands, transfer, repeaters, org participation, org membership).      *)
(* Every write is one SQL statement or one transaction of the code and is  *)
(* one action here; its error results leave the tables alone and are       *)
(* modelled by the action not being enabled. The module has no Next of its *)
(* own: the handlers that call these methods are separate modules.         *)
(***************************************************************************)
CONSTANTS
    Users,      \* accounts
    Repeaters,  \* ids of repeater rows
    KeyOf,      \* public_key_hex of each repeater row
    Commands,   \* the command catalog
    Links,      \* ids of share links; an identity column, so never reused
    Orgs,       \* organizations
    None        \* no user, no repeater, no link

ASSUME NoneAssumption == None \notin Users \cup Repeaters \cup Links

VARIABLES
    owner,      \* repeaters.owner_id, None once the row is deleted
    share,      \* repeater_shares: is there a row, and is it flagged steward
    grant,      \* share_commands
    link,       \* repeater_invites with their invite_commands
    role,       \* org_members.role, "none" when there is no row
    excluded,   \* org_repeater_excludes
    optin,      \* org_repeater_command_optin
    ceiling     \* command_catalog.org_member_allowed and org_admin_allowed

peopleTables == <<owner, share, grant, link>>
orgTables == <<role, excluded, optin, ceiling>>
storeVars == <<owner, share, grant, link, role, excluded, optin, ceiling>>

ShareKinds == {"none", "shared", "steward"}
Roles == {"none", "member", "admin"}
(* "free": the id is not drawn yet; "lapsed": past expires_at, row still    *)
(* there. by is who asked for the link: no column, kept to reason about it. *)
NoLink(st) == [st |-> st, rep |-> None, cmds |-> {}]
LinkRows == {NoLink("free"), NoLink("gone")} \cup
            [st: {"live", "lapsed"}, rep: Repeaters, cmds: SUBSET Commands]

StoreTypeOK ==
    /\ owner \in [Repeaters -> Users \cup {None}]
    /\ share \in [Repeaters -> [Users -> ShareKinds]]
    /\ grant \in [Repeaters -> [Users -> SUBSET Commands]]
    /\ link \in [Links -> LinkRows]
    /\ role \in [Orgs -> [Users -> Roles]]
    /\ excluded \in SUBSET (Orgs \X Repeaters)
    /\ optin \in [Orgs -> [Repeaters -> SUBSET Commands]]
    /\ ceiling \in [member: SUBSET Commands, admin: SUBSET Commands]

-----------------------------------------------------------------------------
(* Reads *)

Exists(r) == owner[r] # None
GetRepeaterOwned(u, r) == owner[r] = u
IsShared(r, u) == share[r][u] # "none"
IsSteward(r, u) == share[r][u] = "steward"
PendingLinks(r) == {i \in Links : link[i].rep = r}
IsMember(o, u) == role[o][u] # "none"
IsOrgAdmin(o, u) == role[o][u] = "admin"

(* A repeater is in an org while its owner is a member who has not opted it *)
(* out.                                                                     *)
Participates(r, o) == Exists(r) /\ IsMember(o, owner[r]) /\ <<o, r>> \notin excluded

(* RepeaterByInviteToken: the token of a link that is neither consumed nor  *)
(* expired leads to its repeater.                                           *)
RepeaterByInviteToken(i, r) == link[i].st = "live" /\ link[i].rep = r

(* The gate of every control page, and of opening a console. *)
GetRepeaterForUser(u, r) ==
    \/ GetRepeaterOwned(u, r)
    \/ IsShared(r, u)
    \/ \E o \in Orgs : Participates(r, o) /\ IsMember(o, u)

(* What org o lets u run on r: the site ceiling of u's tier, cut down to the *)
(* repeater's opt-in list for o when it has one.                             *)
OrgCommands(o, u, r) ==
    {c \in ceiling.member \cup (IF IsOrgAdmin(o, u) THEN ceiling.admin ELSE {}) :
        optin[o][r] = {} \/ c \in optin[o][r]}

ListSendableCommandIDs(u, r) ==
    IF GetRepeaterOwned(u, r) \/ IsSteward(r, u) THEN Commands
    ELSE grant[r][u] \cup
         UNION {OrgCommands(o, u, r) : o \in {x \in Orgs : Participates(r, x) /\ IsMember(x, u)}}

CanSendCommand(u, r, c) == c \in ListSendableCommandIDs(u, r)

-----------------------------------------------------------------------------
(* Share links *)

CreateInvite(u, r, cs) ==
    /\ Exists(r)
    /\ \E i \in Links :
        /\ link[i].st = "free"
        /\ link' = [link EXCEPT ![i] = [st |-> "live", rep |-> r, cmds |-> cs]]
    /\ UNCHANGED <<owner, share, grant, orgTables>>

DropLinks(S) == link' = [i \in Links |-> IF i \in S THEN NoLink("gone") ELSE link[i]]

DeleteInvite(r, i) ==
    /\ DropLinks({i} \cap PendingLinks(r))
    /\ UNCHANGED <<owner, share, grant, orgTables>>

(* The clock passes expires_at. *)
LapseInvite(i) ==
    /\ link[i].st = "live"
    /\ link' = [link EXCEPT ![i] = [st |-> "lapsed", rep |-> link[i].rep,
                                    cmds |-> link[i].cmds]]
    /\ UNCHANGED <<owner, share, grant, orgTables>>

PruneInvites(S) ==
    /\ S # {}
    /\ \A i \in S : link[i].st = "lapsed"
    /\ DropLinks(S)
    /\ UNCHANGED <<owner, share, grant, orgTables>>

(* Slip: the link is read but not consumed. *)
AcceptInviteKeepingLink(i, u) ==
    /\ link[i].st = "live"
    /\ share' = [share EXCEPT ![link[i].rep][u] = IF @ = "none" THEN "shared" ELSE @]
    /\ grant' = [grant EXCEPT ![link[i].rep][u] = @ \cup link[i].cmds]
    /\ UNCHANGED <<owner, link, orgTables>>

(* Slip: the locked read does not look at expires_at. *)
AcceptInviteExpired(i, u) ==
    /\ link[i].st \in {"live", "lapsed"}
    /\ share' = [share EXCEPT ![link[i].rep][u] = IF @ = "none" THEN "shared" ELSE @]
    /\ grant' = [grant EXCEPT ![link[i].rep][u] = @ \cup link[i].cmds]
    /\ DropLinks({i})
    /\ UNCHANGED <<owner, orgTables>>

(* One transaction: the locked read of a live link, the share, its seeded   *)
(* commands when the share is new, and the delete that consumes the link.   *)
AcceptInvite(i, u) ==
    /\ link[i].st = "live"
    /\ LET r == link[i].rep IN
        IF IsShared(r, u)
        THEN UNCHANGED <<share, grant>>
        ELSE /\ share' = [share EXCEPT ![r][u] = "shared"]
             /\ grant' = [grant EXCEPT ![r][u] = @ \cup link[i].cmds]
    /\ DropLinks({i})
    /\ UNCHANGED <<owner, orgTables>>

-----------------------------------------------------------------------------
(* Shares and their commands *)

RemoveShare(r, u) ==
    /\ share' = [share EXCEPT ![r][u] = "none"]
    /\ UNCHANGED <<owner, grant, link, orgTables>>

(* Slip: an upsert, which brings a removed share back. *)
SetShareStewardUpsert(r, u, steward) ==
    /\ share' = [share EXCEPT ![r][u] = IF steward THEN "steward" ELSE "shared"]
    /\ UNCHANGED <<owner, grant, link, orgTables>>

(* An UPDATE: it touches an existing share and never makes one. *)
SetShareSteward(r, u, steward) ==
    /\ share' = [share EXCEPT ![r][u] =
                    IF @ = "none" THEN "none" ELSE IF steward THEN "steward" ELSE "shared"]
    /\ UNCHANGED <<owner, grant, link, orgTables>>

(* Delete all, insert the new ones. The delete sees the rows committed when  *)
(* it starts (READ COMMITTED): unseen are those committed since by others,   *)
(* and whatever of them is still there stays.                                *)
SetShareCommands(r, u, cs, unseen) ==
    /\ Exists(r)
    /\ grant' = [grant EXCEPT ![r][u] = cs \cup (unseen \cap @)]
    /\ UNCHANGED <<owner, share, link, orgTables>>

-----------------------------------------------------------------------------
(* The repeater row *)

(* Slip: the links of the old owner stay pending. *)
TransferKeepingLinks(cur, r, new) ==
    /\ cur # new /\ owner[r] = cur /\ IsSteward(r, new)
    /\ owner' = [owner EXCEPT ![r] = new]
    /\ share' = [share EXCEPT ![r][new] = "none", ![r][cur] = "steward"]
    /\ UNCHANGED <<grant, link, orgTables>>

(* Handing r from cur to its steward new, in one transaction that locks the *)
(* repeater row and re-reads owner and steward flag.                        *)
TransferRepeaterToSteward(cur, r, new) ==
    /\ cur # new
    /\ owner[r] = cur
    /\ IsSteward(r, new)
    /\ \A q \in Repeaters \ {r} : owner[q] = new => KeyOf[q] # KeyOf[r]
    /\ owner' = [owner EXCEPT ![r] = new]
    /\ grant' = [grant EXCEPT ![r][new] = {}]
    /\ share' = [share EXCEPT ![r][new] = "none", ![r][cur] = "steward"]
    /\ DropLinks(PendingLinks(r))
    /\ excluded' = {e \in excluded : e[2] = r => IsMember(e[1], new)}
    /\ UNCHANGED <<role, optin, ceiling>>

(* ON DELETE CASCADE takes everything keyed by the repeater with it. *)
DeleteRepeaterOwned(u, r) ==
    /\ owner[r] = u
    /\ owner' = [owner EXCEPT ![r] = None]
    /\ share' = [share EXCEPT ![r] = [v \in Users |-> "none"]]
    /\ grant' = [grant EXCEPT ![r] = [v \in Users |-> {}]]
    /\ DropLinks(PendingLinks(r))
    /\ excluded' = {e \in excluded : e[2] # r}
    /\ optin' = [o \in Orgs |-> [optin[o] EXCEPT ![r] = {}]]
    /\ UNCHANGED <<role, ceiling>>

-----------------------------------------------------------------------------
(* Organizations *)

SetRepeaterOrgExcluded(o, r, exclude) ==
    /\ exclude => Exists(r)
    /\ excluded' = IF exclude THEN excluded \cup {<<o, r>>} ELSE excluded \ {<<o, r>>}
    /\ UNCHANGED <<peopleTables, role, optin, ceiling>>

(* Slip: a command that has left the ceiling since is not inserted. *)
SetRepeaterOrgOptInLive(o, r, cs, unseen) ==
    /\ cs # {} => Exists(r)
    /\ optin' = [optin EXCEPT ![o][r] =
                    (cs \cap (ceiling.member \cup ceiling.admin)) \cup (unseen \cap @)]
    /\ UNCHANGED <<peopleTables, role, excluded, ceiling>>

(* Delete and insert, as SetShareCommands. *)
SetRepeaterOrgOptIn(o, r, cs, unseen) ==
    /\ cs # {} => Exists(r)
    /\ optin' = [optin EXCEPT ![o][r] = cs \cup (unseen \cap @)]
    /\ UNCHANGED <<peopleTables, role, excluded, ceiling>>

ExcludeOwnerRepeatersFromOrg(o, u) ==
    /\ excluded' = excluded \cup {<<o, r>> : r \in {q \in Repeaters : owner[q] = u}}
    /\ UNCHANGED <<peopleTables, role, optin, ceiling>>

AddOrgMember(o, u) ==
    /\ role' = [role EXCEPT ![o][u] = IF @ = "none" THEN "member" ELSE @]
    /\ UNCHANGED <<peopleTables, excluded, optin, ceiling>>

(* guardLastAdminTx: u may stop being an admin only if someone else is one. *)
NotLastAdmin(o, u) ==
    ~ (IsOrgAdmin(o, u) /\ \A v \in Users : IsOrgAdmin(o, v) => v = u)

SetOrgMemberRole(o, u, newRole) ==
    /\ newRole # "admin" => NotLastAdmin(o, u)
    /\ role' = [role EXCEPT ![o][u] = IF @ = "none" THEN "none" ELSE newRole]
    /\ UNCHANGED <<peopleTables, excluded, optin, ceiling>>

(* Slip: leaving sweeps the opt-outs of the member's repeaters, too. *)
RemoveOrgMemberSweeping(o, u) ==
    /\ NotLastAdmin(o, u)
    /\ role' = [role EXCEPT ![o][u] = "none"]
    /\ excluded' = {e \in excluded : e[1] = o => owner[e[2]] # u}
    /\ UNCHANGED <<peopleTables, optin, ceiling>>

RemoveOrgMember(o, u) ==
    /\ NotLastAdmin(o, u)
    /\ role' = [role EXCEPT ![o][u] = "none"]
    /\ UNCHANGED <<peopleTables, excluded, optin, ceiling>>

UpdateCommandFlags(c, member, admin) ==
    /\ ceiling' = [member |-> IF member THEN ceiling.member \cup {c} ELSE ceiling.member \ {c},
                   admin |-> IF admin THEN ceiling.admin \cup {c} ELSE ceiling.admin \ {c}]
    /\ UNCHANGED <<peopleTables, role, excluded, optin>>

=============================================================================
