\* Two clients on threads of their own while the main thread waits for event, as
\* in ClientFactory.run: one has a device, the other logs in with PairPhone.
SPECIFICATION Spec
CONSTANTS
    c1 = c1
    c2 = c2
    none = none
    Clients = {c1, c2}
    Given <- TwoGiven
    Unset = none
    HasJid = {c1}
    Pairers = {c2}
    Custom = {}
    NoClient = NoClient
    Main = NoClient
    Events = {e1, e2}
    Kinds = {"Connected", "Message"}
    Classes = {"Connected"}
SYMMETRY EventSymmetry
INVARIANTS
    TypeOK
    LoginGate
    OneLogin
    HandlerReachesClient
    CallsReachOwnClient
    ServesUntilShutdown
PROPERTIES
    UnparkedByLogin
    DeliveryPromise
CHECK_DEADLOCK FALSE
