--------------------------- MODULE MCSubscriptions ---------------------------
(* Small instances of Subscriptions for TLC.                                *)
EXTENDS SubscriptionsRefinement, TLC

\* Two named nodes; one named and one nameless node.
MCResults == {[named |-> 2, nameless |-> 0], [named |-> 1, nameless |-> 1]}

MCTwoNodes == {[named |-> 2, nameless |-> 0]}

MCOneNode == {[named |-> 1, nameless |-> 0]}

MCSymmetry == Permutations(Fetches) \cup Permutations(Clients)
=============================================================================
