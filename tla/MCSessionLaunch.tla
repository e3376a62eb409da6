--------------------------- MODULE MCSessionLaunch ---------------------------
(***************************************************************************)
(* Instances of SessionLaunch for TLC: the launches of each run.           *)
(***************************************************************************)
EXTENDS SessionLaunch, TLC

Launch1 == [key |-> "k1", owner |-> "a", checkout |-> "writer", mode |-> "new", exclusive |-> TRUE]

\* A launch of one Work item into a checkout of its own writer session, and the
\* resumption of a session there, which may have been adopted by another item.
WriterLaunches ==
  {Launch1, [Launch1 EXCEPT !.key = "k2", !.mode = "s1"]}

ItemsAdopt == {<<"b", "item">>}

DriverSymmetry == Permutations(Drivers)

=============================================================================
