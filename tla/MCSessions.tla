----------------------------- MODULE MCSessions -----------------------------
(* Two clients of one process: a device of the database and a new login     *)
(* with a pairing code, created through ClientFactory.new_client.           *)
EXTENDS Sessions, TLC
CONSTANTS c1, c2, none

\* ClientFactory.new_client: one client by JID, one by uuid.
TwoGiven ==
    (c1 :> [user |-> "505", uuid |-> none, name |-> "db"]) @@
    (c2 :> [user |-> none, uuid |-> "bot", name |-> "db"])

\* Two devices of one user, each with the uuid new_client asks for.
SameUserGiven ==
    (c1 :> [user |-> "505", uuid |-> "phone", name |-> "db"]) @@
    (c2 :> [user |-> "505", uuid |-> "tablet", name |-> "db"])

EventSymmetry == Permutations(Events)
=============================================================================
