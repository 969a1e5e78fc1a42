--------------------------- MODULE EventDelivery ---------------------------
(***************************************************************************)
(* What a Snakechat program may rely on when it registers a handler: an    *)
(* event accepted for a client is handed to that client's handler at most  *)
(* once, in no promised order, and it is dropped only if its kind is lossy *)
(* or the client's session has ended.  Sessions implements it.             *)
(***************************************************************************)
CONSTANTS
    Clients, Events, Kinds,
    Lossy,      \* the kinds that may be dropped
    NoClient    \* whose an event is that nobody was promised: no client

VARIABLES
    promise,    \* for every event: whose it is and how far it got
    ended       \* clients whose connect call has returned

vars == <<promise, ended>>

Blank == [client |-> NoClient, kind |-> "none", state |-> "none"]

Promises == [client: Clients, kind: Kinds, state: {"pending", "delivered", "lost"}]

Init ==
    /\ promise = [e \in Events |-> Blank]
    /\ ended = {}

\* The bridge takes charge of an event for which a handler was registered.
Accept(e, c, k) ==
    /\ promise[e] = Blank
    /\ promise' = [promise EXCEPT ![e] =
                      [client |-> c, kind |-> k, state |-> "pending"]]
    /\ UNCHANGED ended

\* A lossy kind may be dropped before the bridge takes charge of it.
Refuse(e, c, k) ==
    /\ promise[e] = Blank
    /\ k \in Lossy
    /\ promise' = [promise EXCEPT ![e] =
                      [client |-> c, kind |-> k, state |-> "lost"]]
    /\ UNCHANGED ended

\* The handler runs.
Deliver(e) ==
    /\ promise[e].state = "pending"
    /\ promise[e].client \notin ended
    /\ promise' = [promise EXCEPT ![e].state = "delivered"]
    /\ UNCHANGED ended

\* The event is dropped.
Lose(e) ==
    /\ promise[e].state = "pending"
    /\ promise[e].client \in ended \/ promise[e].kind \in Lossy
    /\ promise' = [promise EXCEPT ![e].state = "lost"]
    /\ UNCHANGED ended

End(c) ==
    /\ c \notin ended
    /\ ended' = ended \cup {c}
    /\ UNCHANGED promise

Next ==
    \/ \E e \in Events, c \in Clients, k \in Kinds : Accept(e, c, k) \/ Refuse(e, c, k)
    \/ \E e \in Events : Deliver(e) \/ Lose(e)
    \/ \E c \in Clients : End(c)

Spec == Init /\ [][Next]_vars
=============================================================================
