\* A program that registers for ConnectFailure.
SPECIFICATION Spec
CONSTANTS
    c1 = c1
    c2 = c2
    none = none
    Clients = {c1}
    Given <- TwoGiven
    Unset = none
    HasJid = {}
    Pairers = {}
    Custom = {}
    NoClient = NoClient
    Main = c1
    Events = {e1, e2}
    Kinds = {"ConnectFailure"}
    Classes = {"ConnectFailure", "TemporaryBan"}
SYMMETRY EventSymmetry
INVARIANTS
    ExecutedByItsHandler
CHECK_DEADLOCK FALSE
