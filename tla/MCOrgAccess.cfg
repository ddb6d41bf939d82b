SPECIFICATION Spec
CONSTANTS
    Users = {u1, u2}
    Repeaters = {r1}
    KeyOf <- MCKeyOf
    Commands = {c1, c2}
    Links = {}
    Orgs = {o1}
    None = None
    Slots = {s1, s2}
    Ops = {"join", "leave", "setMember", "saveLimits", "transfer", "catalog"}
SYMMETRY MCSymmetry
INVARIANTS TypeOK
PROPERTIES NarrowingNeverWidens OptOutsEndByDecision
