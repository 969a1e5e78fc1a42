\* PairPhone on a client whose device has a session.
SPECIFICATION FairSpec
CONSTANTS
    c1 = c1
    c2 = c2
    none = none
    Clients = {c2}
    Given <- TwoGiven
    Unset = none
    HasJid = {c2}
    Pairers = {c2}
    Custom = {}
    NoClient = NoClient
    Main = c2
    Events = {e1}
    Kinds = {"Connected"}
    Classes = {"Connected"}
PROPERTY
    ConnectedIsDelivered
CHECK_DEADLOCK FALSE
