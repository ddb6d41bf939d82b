SPECIFICATION Spec

CONSTANTS
    Users = {u1, u2, u3}
    Repeaters = {r1}
    KeyOf <- MCKeyOf
    Commands = {}
    Links = {i1, i2}
    Orgs = {}
    None = None
    Slots = {s1, s2}
    Ops = {"createLink", "deleteLink", "acceptInvite", "unshare", "savePerson", "transfer", "delete"}
    ReadErrors = TRUE

SYMMETRY MCSymmetry

INVARIANTS TypeOK OwnerHoldsNoShare LinkRedeemedOnce
PROPERTIES
    SharesComeFromLinksOrHandovers
    ImplementsRepeaterAccess

CHECK_DEADLOCK FALSE
