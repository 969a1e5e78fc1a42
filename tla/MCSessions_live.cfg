\* One client logs in by QR code on a thread of its own, the other with a
\* pairing code on the main thread.
SPECIFICATION FairSpec
CONSTANTS
    c1 = c1
    c2 = c2
    none = none
    Clients = {c1, c2}
    Given <- TwoGiven
    Unset = none
    HasJid = {}
    Pairers = {c2}
    Custom = {}
    NoClient = NoClient
    Main = c2
    Events = {e1}
    Kinds = {"Connected"}
    Classes = {"Connected"}
PROPERTIES
    FlyingLands
    InterruptNoticed
    ShutdownEndsSessions
CHECK_DEADLOCK FALSE
