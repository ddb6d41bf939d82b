SPECIFICATION Spec
CONSTANTS
    Users = {u1, u2}
    Repeaters = {r1}
    KeyOf <- MCKeyOf
    Commands = {c1}
    Links = {i1}
    Orgs = {}
    None = None
    Slots = {s1, s2}
    Ops = {"createLink", "acceptInvite", "unshare", "savePerson"}
    ReadErrors = FALSE
SYMMETRY MCSymmetry
INVARIANTS SendersHaveAccess
