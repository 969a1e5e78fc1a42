\* One client that logs in by QR code on the main thread and has a blocking
\* function of its own.  Of the kinds one is reliable, one goes out under another
\* code, one never marshals and one does not unless it is empty.
SPECIFICATION Spec
CONSTANTS
    c1 = c1
    c2 = c2
    none = none
    Clients = {c1}
    Given <- TwoGiven
    Unset = none
    HasJid = {}
    Pairers = {}
    Custom = {c1}
    NoClient = NoClient
    Main = c1
    Events = {e1, e2}
    Kinds = {"Message", "ConnectFailure", "ClientOutdated", "NewsletterLiveUpdate"}
    Classes = {"Message", "ConnectFailure", "ClientOutdated", "NewsletterLiveUpdate"}
SYMMETRY EventSymmetry
INVARIANTS
    HandlerFound
PROPERTIES
    DeliveryPromise
CHECK_DEADLOCK FALSE
