------------------------------ MODULE MCEngine ------------------------------
(***************************************************************************)
(* Small instances of Engine: the order keys of two users, with one or     *)
(* both of the ways in which an id can be zero.                            *)
(***************************************************************************)
EXTENDS Engine

Key(user, client_order) == [user |-> user, client_order |-> client_order]

ThreeKeys == {Key(1, 1), Key(1, 2), Key(2, 1)}
SafetyKeys == ThreeKeys \cup {Key(1, 0)}
TotalsKeys == ThreeKeys \cup {Key(0, 1), Key(1, 0)}
=============================================================================
