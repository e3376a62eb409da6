----------------------------- MODULE MCPlanning -----------------------------
(***************************************************************************)
(* Instances of Planning for TLC.  The first state of Scenarios chooses    *)
(* whether plans are published or Features created with their checkouts;   *)
(* what belongs to the other stays as it is.                               *)
(***************************************************************************)
EXTENDS Planning, TLC

CONSTANTS f1, f2, q1,
          Epics, Slugs, AdoptionKeys, MaxCreations, MaxDisturbances

VARIABLES scenario, creation, intent, adoption, assigned, checkouts, worktree, branches,
          launched, caller, alone, creations, disturbances

ASSUME SlugsAssumption == "main" \notin Slugs /\ "none" \notin Slugs

Checkout == INSTANCE FeatureCheckouts WITH planner <- launched, Callers <- Processes

ofCreation == <<creation, intent, adoption, assigned, checkouts, worktree, branches, launched,
                caller, alone, creations, disturbances>>
ofPlanning == <<source, feature, plan, added, planner, rows, file, head, process, calls>>

ScenariosInit == scenario \in {"planning", "checkouts"} /\ Init /\ Checkout!Init

ScenariosNext ==
  /\ UNCHANGED scenario
  /\ \/ scenario = "planning" /\ Next /\ UNCHANGED ofCreation
     \/ scenario = "checkouts" /\ Checkout!Next /\ UNCHANGED ofPlanning

Scenarios == ScenariosInit /\ [][ScenariosNext]_<<scenario, vars, ofCreation>>

\* One addition to the first Feature.
OneAddition == q1 :> f1
OneSlug == q1 :> "more"

ProcessSymmetry == Permutations(Processes)

-----------------------------------------------------------------------------
\* The rows of a Feature follow the state it is in, while its plan is published and
\* while its creation is repeated (planning_workflow.rs, execute_feature_create).
RowsFollow == RowsFollowState /\ Checkout!CreationsAreWhole

\* A creation that begins in order and acts alone does not fail (prepare_feature_with).
AloneSucceeds == Checkout!AloneSucceeds

\* Of FeatureCheckouts, by hand.
NotShared == Checkout!NotShared
PendingIsUnfinished == Checkout!PendingIsUnfinished

=============================================================================
