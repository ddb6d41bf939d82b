---------------------------- MODULE RepeaterAccess -----------------------------
(***************************************************************************)
(* What sharing a repeater promises, without requests, tables or races:    *)
(* one owner, the people the owner lets in and how far, and tickets each   *)
(* of which lets in one person who is not the owner. Sharing implements it.*)
(***************************************************************************)
CONSTANTS Users, Repeaters, Links, None

VARIABLES
    holder,         \* who owns each repeater, None once it is removed
    people,         \* who else has access
    outstanding,    \* the tickets that still let somebody in, by repeater
    issued          \* every ticket ever issued

accessVars == <<holder, people, outstanding, issued>>

Nobody == [u \in Users |-> "none"]

AccessInit ==
    /\ holder \in [Repeaters -> Users]
    /\ people = [r \in Repeaters |-> Nobody]
    /\ outstanding = [r \in Repeaters |-> {}]
    /\ issued = {}

(* A ticket is issued once. *)
Issue(r, i) ==
    /\ holder[r] # None
    /\ i \notin issued
    /\ issued' = issued \cup {i}
    /\ outstanding' = [outstanding EXCEPT ![r] = @ \cup {i}]
    /\ UNCHANGED <<holder, people>>

(* Deleted or expired. *)
Void(r, i) ==
    /\ i \in outstanding[r]
    /\ outstanding' = [outstanding EXCEPT ![r] = @ \ {i}]
    /\ UNCHANGED <<holder, people, issued>>

(* The ticket is spent; it never lets in the owner. *)
Redeem(r, i, u) ==
    /\ i \in outstanding[r]
    /\ u # holder[r]
    /\ people' = [people EXCEPT ![r][u] = IF @ = "none" THEN "shared" ELSE @]
    /\ outstanding' = [outstanding EXCEPT ![r] = @ \ {i}]
    /\ UNCHANGED <<holder, issued>>

Revoke(r, u) ==
    /\ people' = [people EXCEPT ![r][u] = "none"]
    /\ UNCHANGED <<holder, outstanding, issued>>

(* Promote or demote somebody who has access. *)
Regrade(r, u, kind) ==
    /\ people[r][u] # "none"
    /\ kind \in {"shared", "steward"}
    /\ people' = [people EXCEPT ![r][u] = kind]
    /\ UNCHANGED <<holder, outstanding, issued>>

(* Owner and steward change places, and no ticket survives. *)
Handover(r, new) ==
    /\ holder[r] # None
    /\ people[r][new] = "steward"
    /\ holder' = [holder EXCEPT ![r] = new]
    /\ people' = [people EXCEPT ![r][new] = "none", ![r][holder[r]] = "steward"]
    /\ outstanding' = [outstanding EXCEPT ![r] = {}]
    /\ UNCHANGED issued

Remove(r) ==
    /\ holder[r] # None
    /\ holder' = [holder EXCEPT ![r] = None]
    /\ people' = [people EXCEPT ![r] = Nobody]
    /\ outstanding' = [outstanding EXCEPT ![r] = {}]
    /\ UNCHANGED issued

AccessNext ==
    \E r \in Repeaters :
        \/ Remove(r)
        \/ \E i \in Links : Issue(r, i) \/ Void(r, i)
        \/ \E i \in Links, u \in Users : Redeem(r, i, u)
        \/ \E u \in Users : Revoke(r, u) \/ Handover(r, u)
        \/ \E u \in Users, kind \in {"shared", "steward"} : Regrade(r, u, kind)

AccessSpec == AccessInit /\ [][AccessNext]_accessVars

=============================================================================
