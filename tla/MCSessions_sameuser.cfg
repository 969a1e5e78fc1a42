\* Two devices of one user, each with a uuid of its own.
SPECIFICATION Spec
CONSTANTS
    c1 = c1
    c2 = c2
    none = none
    Clients = {c1, c2}
    Given <- SameUserGiven
    Unset = none
    HasJid = {c1, c2}
    Pairers = {}
    Custom = {}
    NoClient = NoClient
    Main = NoClient
    Events = {e1, e2}
    Kinds = {"Connected", "Message"}
    Classes = {"Connected"}
SYMMETRY EventSymmetry
INVARIANT
    CallsReachOwnClient
CHECK_DEADLOCK FALSE
