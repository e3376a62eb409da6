------------------------- MODULE MCCheckoutAllocation ------------------------
(***************************************************************************)
(* Instances of CheckoutAllocation for TLC.                                *)
(***************************************************************************)
EXTENDS CheckoutAllocation, TLC

\* The primary checkout of a Work item.
OneItem == {[item |-> "x", key |-> ""]}

\* The primary checkout and the one of an additional writer.
WithWriter == {[item |-> "x", key |-> ""], [item |-> "x", key |-> "w"]}

ProcessSymmetry == Permutations(Processes)

=============================================================================
