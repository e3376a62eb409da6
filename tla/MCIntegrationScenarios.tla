----------------------- MODULE MCIntegrationScenarios -----------------------
(***************************************************************************)
(* Two instances of FeatureIntegration in one run of TLC: the first state  *)
(* chooses the instance, and each has bounds of its own.                   *)
(*                                                                         *)
(* "twins": items a and b, of which b depends on a and a may conflict, are *)
(* integrated into r2 already; two processes execute and resume the one    *)
(* run for r1.                                                             *)
(*                                                                         *)
(* "repositories": one process integrates item c into both repositories by *)
(* two runs, while the item may leave review and somebody else may commit  *)
(* to a Feature checkout.                                                  *)
(***************************************************************************)
EXTENDS MCFeatureIntegration

CONSTANTS Twins,   \* the items of the first instance
          Lone     \* the process of the second

VARIABLE instance

scenarioVars == <<vars, instance>>

ScenarioInit ==
  /\ instance \in {"twins", "repositories"}
  /\ status = [d \in Items |-> "in_progress"]
  /\ interrupted = [d \in Items |-> "no"]
  /\ integrations = [d \in Items |-> [r \in Repositories |->
       IF instance = "twins" /\ d \in Twins /\ r = "r2"
         THEN [status |-> "integrated", head |-> 1] ELSE NoIntegration]]
  /\ sourceHead = [d \in Items |-> [r \in Repositories |-> 1]]
  /\ branch = sourceHead
  /\ target = [r \in Repositories |->
       IF instance = "twins" /\ r = "r2"
         THEN [i \in DOMAIN InOrder(Twins) |-> [item |-> InOrder(Twins)[i], head |-> 1]]
         ELSE << >>]
  /\ recorded = [r \in Repositories |-> Len(target[r])]
  /\ merging = [r \in Repositories |-> NoCommit]
  /\ runs = [k \in Runs |-> NoRun]
  /\ proc = [p \in Processes |-> Idle]
  /\ drift = 0
  /\ faults = 0

\* The bounds of the first instance: one run, one fault, no drift, and items that
\* stay in review.
WithinTwins ==
  /\ \A k \in Runs : runs[k].status # "absent" => k = "k1"
  /\ \A d \in Items : status[d] # "in_progress" => d \in Twins
  /\ drift = 0
  /\ faults <= 1

WithinRepositories ==
  /\ \A p \in Processes \ {Lone} : proc[p] = Idle
  /\ \A d \in Twins : status[d] = "in_progress"

Within == IF instance = "twins" THEN WithinTwins ELSE WithinRepositories

\* In the first instance no item goes back to work.
StaysInReview ==
  instance = "twins" => \A d \in Items : status[d] # "in_progress" => status'[d] # "in_progress"

ScenarioNext == Next /\ UNCHANGED instance /\ Within' /\ StaysInReview

\* A process that runs goes on running, and an interrupted run is resumed by one
\* process at least.
ScenarioSpec ==
  /\ ScenarioInit
  /\ [][ScenarioNext]_scenarioVars
  /\ \A p \in Processes : WF_vars(Step(p))
  /\ \A k \in Runs : SF_vars(Resume(Lone, k))

\* A process that executes its runs alone forgets no item (NoneForgotten), whatever
\* crashes, leaves review or is committed by others meanwhile.  Two processes can:
\* one records a conflict and ends the run that the other has still to complete.
AloneForgetsNone == instance = "repositories" => NoneForgotten

=============================================================================
