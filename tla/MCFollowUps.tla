----------------------------- MODULE MCFollowUps -----------------------------
(***************************************************************************)
(* Instances of FollowUps for TLC.                                         *)
(***************************************************************************)
EXTENDS FollowUps, TLC

\* Two messages for one session: that say the same, or not.
OneTarget == [k \in Keys |-> "s1"]
TextOfItsOwn == [k \in Keys |-> k]

SenderSymmetry == Permutations(Senders)

=============================================================================
