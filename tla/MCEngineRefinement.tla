------------------------- MODULE MCEngineRefinement -------------------------
EXTENDS EngineRefinement

Key(user, client_order) == [user |-> user, client_order |-> client_order]

RefinementKeys == {Key(0, 1), Key(1, 1), Key(2, 1), Key(1, 2)}
=============================================================================
