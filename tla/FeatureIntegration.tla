-------------------------- MODULE FeatureIntegration -------------------------
(***************************************************************************)
(* Integration of a Feature's accepted branches                            *)
(* (application/feature_integration.rs).                                   *)
(*                                                                         *)
(* A run is previewed, confirmed and executed for one repository of the    *)
(* Feature: it merges the queued heads into the Feature checkout in order  *)
(* of dependencies, records each merge and completes the Work items whose  *)
(* repositories are all integrated.  A run that was interrupted stays      *)
(* "running" and any process may resume it; nothing says that only one     *)
(* does.  One action is one transaction, one read or one Git command.      *)
(*                                                                         *)
(* The state of a Work item is that of WorkItemLedger; a checkpoint that   *)
(* was staged and not finished (WorkItemState) appears as interrupted.  A  *)
(* commit of an item's branch is its position on the branch, the head of   *)
(* the Feature checkout the number of commits it has, and a merged branch  *)
(* the pair of the item and the position.                                  *)
(***************************************************************************)
EXTENDS Naturals, Sequences, FiniteSetsExt, WorkItemRules

CONSTANTS Items,          \* the Feature's Work items
          Repositories,   \* repositories every item must be integrated into
          Runs,           \* idempotency keys of integration runs
          Processes,      \* concurrent workboard processes
          Dependencies,   \* pairs <<item, item it depends on>>
          ProposalOrder,  \* the items' proposal order and slug, as a rank
          Conflicting,    \* items whose branch may conflict with the Feature's
          Moves,          \* statuses that sessions and people ask for meanwhile
          MaxHead,        \* bound on the commits of a branch
          MaxDrift,       \* bound on foreign commits in the Feature checkouts
          MaxFaults       \* bound on crashes and failed commands

ASSUME OrderAssumption ==
  /\ ProposalOrder \in [Items -> Nat]
  /\ \A d, e \in Items : ProposalOrder[d] = ProposalOrder[e] => d = e
ASSUME BoundsAssumption ==
  MaxHead \in Nat \ {0} /\ MaxDrift \in Nat /\ MaxFaults \in Nat
\* No key says that an item has no open update, or one that a checkpoint overtook.
ASSUME KeysAssumption == Runs \cap {"no", "stuck"} = {}

VARIABLES
  status,        \* work_items.status
  interrupted,   \* the item's open state update: "no", the completion a run
                 \* staged, or "stuck" when a later checkpoint took its revision
  integrations,  \* work_item_integrations, by repository
  sourceHead,    \* checkouts.head of the item's checkout, by repository
  branch,        \* HEAD of that checkout
  target,        \* what was committed to the Feature checkout, by repository
  recorded,      \* checkouts.head of the Feature checkout
  merging,       \* a conflicted merge somebody has to conclude or abort
  runs,          \* feature_integration_runs with their steps
  proc,          \* what each process is doing
  drift, faults  \* counted against the bounds

item == <<status, interrupted, sourceHead, branch>>
git == <<target, merging>>
vars == <<status, interrupted, integrations, sourceHead, branch, target, recorded,
          merging, runs, proc, drift, faults>>

Foreign == [item |-> "foreign", head |-> 0]
Commits == [item : Items, head : 1..MaxHead] \cup {Foreign}
NoCommit == [item |-> "none", head |-> 0]

StepStatuses == {"pending", "integrated", "conflict", "skipped"}
RunStatuses == {"absent", "previewed", "running", "completed", "conflict", "failed"}
RunSteps == [item : Items, head : 1..MaxHead, status : StepStatuses, result : Nat]

NoRun == [status |-> "absent", repository |-> "none", steps |-> << >>]

Idle == [pc |-> "idle", run |-> "none", seen |-> << >>, pos |-> 0, result |-> 0]

Phases == {"load", "target", "drift", "failrun", "early", "preflight", "candidate", "source", "resolve",
           "contains", "merge", "complete", "finish", "failstep", "closing", "seal"}

-----------------------------------------------------------------------------
(* The queue.                                                              *)

DependsOn(d) == {e \in Items : <<d, e>> \in Dependencies}

DependencyLayer[d \in Items] ==
  IF DependsOn(d) = {} THEN 0 ELSE 1 + Max({DependencyLayer[e] : e \in DependsOn(d)})

\* Mistake: the order of the plan alone.
BeforeInPlan(d, e) == ProposalOrder[d] < ProposalOrder[e]

Before(d, e) ==
  \/ DependencyLayer[d] < DependencyLayer[e]
  \/ DependencyLayer[d] = DependencyLayer[e] /\ ProposalOrder[d] < ProposalOrder[e]

Queued(d, r) ==
  /\ integrations[d][r].status \in {"pending", "conflict"}
  /\ status[d] \in {"review", "done"}

InOrder(S) ==
  CHOOSE s \in [1..Cardinality(S) -> S] :
    \A i, j \in DOMAIN s : i < j => Before(s[i], s[j])

\* Plans with cycles are refused, so that every item is in a later layer than those it
\* depends on and there is an order.
ASSUME LayersAssumption ==
  /\ \A d \in Items : DependencyLayer[d] \in Nat
  /\ \A d, e \in Items : <<d, e>> \in Dependencies => DependencyLayer[e] < DependencyLayer[d]
ASSUME SortAssumption ==
  \A S \in SUBSET Items :
    /\ Cardinality(S) \in Nat
    /\ \E s \in [1..Cardinality(S) -> S] : \A i, j \in DOMAIN s : i < j => Before(s[i], s[j])

Candidates(r) == InOrder({d \in Items : Queued(d, r)})

\* git merge-base --is-ancestor: a merged head contains the earlier ones.
Contains(r, d, head) ==
  \E i \in DOMAIN target[r] : target[r][i].item = d /\ target[r][i].head >= head

-----------------------------------------------------------------------------
Init ==
  /\ status = [d \in Items |-> "in_progress"]
  /\ interrupted = [d \in Items |-> "no"]
  /\ integrations = [d \in Items |-> [r \in Repositories |-> NoIntegration]]
  /\ sourceHead = [d \in Items |-> [r \in Repositories |-> 1]]
  /\ branch = sourceHead
  /\ target = [r \in Repositories |-> << >>]
  /\ recorded = [r \in Repositories |-> 0]
  /\ merging = [r \in Repositories |-> NoCommit]
  /\ runs = [k \in Runs |-> NoRun]
  /\ proc = [p \in Processes |-> Idle]
  /\ drift = 0
  /\ faults = 0

At(p, pc) == proc[p].pc = pc

Goto(p, pc, pos) == proc' = [proc EXCEPT ![p].pc = pc, ![p].pos = pos]

Return(p) == proc' = [proc EXCEPT ![p] = Idle]

\* The step a process works on, as it read it, and the repository of its run.
Seen(p) == proc[p].seen[proc[p].pos]
Repository(p) == runs[proc[p].run].repository
AfterLast(p) == proc[p].pos > Len(proc[p].seen)

Reading == UNCHANGED <<item, integrations, git, recorded, runs, drift, faults>>

-----------------------------------------------------------------------------
(* Preview, confirmation and resumption.                                   *)

\* What a preview reads is checked again by nothing until the run executes, so
\* that reading it at once loses no outcome.  A key that was used is refused.
Preview(k, r) ==
  LET queue == Candidates(r)
  IN  /\ runs[k].status = "absent"
      /\ queue # << >>
      /\ runs' = [runs EXCEPT ![k] =
           [status |-> "previewed", repository |-> r,
            steps |-> [i \in DOMAIN queue |->
              [item |-> queue[i], head |-> integrations[queue[i]][r].head,
               status |-> "pending", result |-> 0]]]]
      /\ UNCHANGED <<item, integrations, git, recorded, proc, drift, faults>>

Running(r) == {k \in Runs : runs[k].status = "running" /\ runs[k].repository = r}

Confirm(p, k) ==
  /\ At(p, "idle")
  /\ runs[k].status = "previewed"
  /\ Running(runs[k].repository) = {}
  /\ runs' = [runs EXCEPT ![k].status = "running"]
  /\ proc' = [proc EXCEPT ![p] = [Idle EXCEPT !.pc = "load", !.run = k]]
  /\ UNCHANGED <<item, integrations, git, recorded, drift, faults>>

Resume(p, k) ==
  /\ At(p, "idle")
  /\ runs[k].status = "running"
  /\ proc' = [proc EXCEPT ![p] = [Idle EXCEPT !.pc = "load", !.run = k]]
  /\ Reading

-----------------------------------------------------------------------------
(* execute_run, up to the first merge.                                     *)

Load(p) ==
  /\ At(p, "load")
  /\ proc' = [proc EXCEPT ![p].pc = "target", ![p].seen = runs[proc[p].run].steps]
  /\ Reading

\* target: the Feature checkout's head as the database has it.
ReadTarget(p) ==
  /\ At(p, "target")
  /\ proc' = [proc EXCEPT ![p].pc = "drift", ![p].result = recorded[Repository(p)]]
  /\ Reading

SeenWith(p, st) == {i \in DOMAIN proc[p].seen : proc[p].seen[i].status = st}

AtRecordedIntegration(p) ==
  LET done == SeenWith(p, "integrated")
  IN  done # {} /\ proc[p].seen[Max(done)].result = Len(target[Repository(p)])

AtUnrecordedMerge(p) ==
  LET pending == SeenWith(p, "pending")
  IN  /\ pending # {}
      /\ LET first == proc[p].seen[Min(pending)]
         IN  Contains(Repository(p), first.item, first.head)

\* The Feature checkout's head is the recorded one, or one this run explains.
Drift(p) ==
  /\ At(p, "drift")
  /\ IF \/ Len(target[Repository(p)]) = proc[p].result
        \/ AtRecordedIntegration(p)
        \/ AtUnrecordedMerge(p)
       THEN Goto(p, "early", 1)
       ELSE Goto(p, "failrun", 0)
  /\ Reading

FailRun(p) ==
  /\ At(p, "failrun")
  /\ runs' = [runs EXCEPT ![proc[p].run].status = "failed"]
  /\ Return(p)
  /\ UNCHANGED <<item, integrations, git, recorded, drift, faults>>

\* complete_integration: an item that is not ready, or done already, is left
\* alone; a foreign update that is open, or a status that is not review, is an
\* error that ends the command and leaves the run running.
\* Mistake: the repository of the run decides for all of them.
CompletableHere(d, k) ==
  /\ integrations[d][runs[k].repository].status = "integrated"
  /\ interrupted[d] \in {"no", k}
  /\ status[d] = "review"

Completable(d, k) ==
  /\ IntegrationReady(integrations[d])
  /\ interrupted[d] \in {"no", k}
  /\ status[d] = "review"

ItemCompleted(p, d, pc, pos) ==
  /\ Completable(d, proc[p].run)
  /\ status' = [status EXCEPT ![d] = "done"]
  /\ interrupted' = [interrupted EXCEPT ![d] = "no"]
  /\ Goto(p, pc, pos)
  /\ UNCHANGED faults

\* The update is staged and then fails, or the process is killed.
ItemInterrupted(p, d) ==
  /\ Completable(d, proc[p].run)
  /\ faults < MaxFaults
  /\ faults' = faults + 1
  /\ interrupted' = [interrupted EXCEPT ![d] = proc[p].run]
  /\ Return(p)
  /\ UNCHANGED status

ItemLeftAlone(p, d, pc, pos) ==
  /\ \/ ~IntegrationReady(integrations[d])
     \/ interrupted[d] \in {"no", proc[p].run} /\ status[d] = "done"
  /\ Goto(p, pc, pos)
  /\ UNCHANGED <<status, interrupted, faults>>

Refused(d, k) ==
  /\ IntegrationReady(integrations[d])
  /\ interrupted[d] \notin {"no", k} \/ status[d] \notin {"review", "done"}

\* Mistake: the run goes on without the item.
RefusalIgnored(p, d, pc, pos) ==
  Refused(d, proc[p].run) /\ Goto(p, pc, pos) /\ UNCHANGED <<status, interrupted, faults>>

ItemRefused(p, d, pc, pos) ==
  Refused(d, proc[p].run) /\ Return(p) /\ UNCHANGED <<status, interrupted, faults>>

CompleteItem(p, d, pc, pos) ==
  /\ \/ ItemCompleted(p, d, pc, pos)
     \/ ItemInterrupted(p, d)
     \/ ItemLeftAlone(p, d, pc, pos)
     \/ ItemRefused(p, d, pc, pos)
  /\ UNCHANGED <<integrations, sourceHead, branch, git, recorded, runs, drift>>

\* The items of the steps that were integrated before the run was resumed.
Early(p) ==
  /\ At(p, "early")
  /\ \/ AfterLast(p) /\ Goto(p, "preflight", 1) /\ Reading
     \/ ~AfterLast(p) /\ Seen(p).status # "integrated" /\ Goto(p, "early", proc[p].pos + 1) /\ Reading
     \/ ~AfterLast(p) /\ Seen(p).status = "integrated"
          /\ CompleteItem(p, Seen(p).item, "early", proc[p].pos + 1)

\* preflight_integration of the items that are to be merged.
Preflight(p) ==
  /\ At(p, "preflight")
  /\ \/ AfterLast(p) /\ Goto(p, "candidate", 1)
     \/ /\ ~AfterLast(p)
        /\ LET d == Seen(p).item
           IN  IF \/ Seen(p).status # "pending"
                  \/ interrupted[d] = "no" /\ status[d] = "review"
                 THEN Goto(p, "preflight", proc[p].pos + 1)
                 ELSE Return(p)
  /\ Reading

-----------------------------------------------------------------------------
(* One step.                                                               *)

\* Mistake: steps that were integrated before the run was resumed are repeated.
CandidateAgain(p) ==
  /\ At(p, "candidate")
  /\ \/ AfterLast(p) /\ Goto(p, "closing", 1)
     \/ /\ ~AfterLast(p)
        /\ IF Queued(Seen(p).item, Repository(p)) THEN Goto(p, "source", proc[p].pos) ELSE Return(p)
  /\ Reading

Candidate(p) ==
  /\ At(p, "candidate")
  /\ \/ AfterLast(p) /\ Goto(p, "closing", 1)
     \/ ~AfterLast(p) /\ Seen(p).status # "pending" /\ Goto(p, "candidate", proc[p].pos + 1)
     \/ /\ ~AfterLast(p)
        /\ Seen(p).status = "pending"
        /\ IF Queued(Seen(p).item, Repository(p)) THEN Goto(p, "source", proc[p].pos) ELSE Return(p)
  /\ Reading

Source(p) ==
  /\ At(p, "source")
  /\ Goto(p, IF branch[Seen(p).item][Repository(p)] = Seen(p).head THEN "resolve" ELSE "failstep",
          proc[p].pos)
  /\ Reading

\* The head before the merge, which record_expected_target keeps for the reader.
Resolve(p) ==
  /\ At(p, "resolve")
  /\ proc' = [proc EXCEPT ![p].pc = "contains", ![p].result = Len(target[Repository(p)])]
  /\ Reading

ContainsStep(p) ==
  /\ At(p, "contains")
  /\ Goto(p, IF Contains(Repository(p), Seen(p).item, Seen(p).head) THEN "complete" ELSE "merge",
          proc[p].pos)
  /\ Reading

AfterMerge(succeeded) == IF succeeded THEN "complete" ELSE "failstep"

\* git merge: nothing to do, a merge commit, or a conflict that is left in the
\* Feature checkout, where every later merge fails.
Merge(p) ==
  LET r == Repository(p)
      commit == [item |-> Seen(p).item, head |-> Seen(p).head]
      up_to_date == Contains(r, commit.item, commit.head)
      merged == IF up_to_date THEN target[r] ELSE Append(target[r], commit)
  IN  /\ At(p, "merge")
      /\ \/ /\ merging[r] = NoCommit
            /\ target' = [target EXCEPT ![r] = merged]
            /\ proc' = [proc EXCEPT ![p].pc = AfterMerge(TRUE), ![p].result = Len(merged)]
            /\ UNCHANGED merging
         \/ /\ merging[r] = NoCommit /\ ~up_to_date /\ commit.item \in Conflicting
            /\ merging' = [merging EXCEPT ![r] = commit]
            /\ Goto(p, AfterMerge(FALSE), proc[p].pos)
            /\ UNCHANGED target
         \/ /\ merging[r] # NoCommit
            /\ Goto(p, AfterMerge(FALSE), proc[p].pos)
            /\ UNCHANGED git
      /\ UNCHANGED <<item, integrations, recorded, runs, drift, faults>>

\* complete_step: the step, the item's row and the Feature checkout's head.
CompleteStep(p) ==
  LET k == proc[p].run
      i == proc[p].pos
      r == Repository(p)
  IN  /\ At(p, "complete")
      /\ runs' = [runs EXCEPT ![k].steps[i] =
           IF @.status = "pending" THEN [@ EXCEPT !.status = "integrated", !.result = proc[p].result]
                                   ELSE @]
      /\ integrations' = [integrations EXCEPT ![Seen(p).item][r].status = "integrated"]
      /\ recorded' = [recorded EXCEPT ![r] = proc[p].result]
      /\ Goto(p, "finish", i)
      /\ UNCHANGED <<item, git, drift, faults>>

Finish(p) ==
  /\ At(p, "finish")
  /\ CompleteItem(p, Seen(p).item, "candidate", proc[p].pos + 1)

\* The failed step, those after it, the item's row and the run.
FailedSteps(steps, i) ==
  [j \in DOMAIN steps |->
     IF steps[j].status # "pending" \/ j < i THEN steps[j]
     ELSE [steps[j] EXCEPT !.status = IF j = i THEN "conflict" ELSE "skipped"]]

FailedRow(p) == [integrations EXCEPT ![Seen(p).item][Repository(p)].status = "conflict"]

FailStep(p) ==
  LET k == proc[p].run
  IN  /\ At(p, "failstep")
      /\ runs' = [runs EXCEPT ![k].status = "conflict",
                              ![k].steps = FailedSteps(@, proc[p].pos)]
      /\ integrations' = FailedRow(p)
      /\ Return(p)
      /\ UNCHANGED <<item, git, recorded, drift, faults>>

-----------------------------------------------------------------------------
(* The end of a run.                                                       *)

Closing(p) ==
  /\ At(p, "closing")
  /\ \/ AfterLast(p) /\ Goto(p, "seal", 0) /\ Reading
     \/ ~AfterLast(p) /\ CompleteItem(p, Seen(p).item, "closing", proc[p].pos + 1)

Seal(p) ==
  LET k == proc[p].run
  IN  /\ At(p, "seal")
      /\ runs' = [runs EXCEPT ![k].status = IF @ = "running" THEN "completed" ELSE @]
      /\ Return(p)
      /\ UNCHANGED <<item, integrations, git, recorded, drift, faults>>

-----------------------------------------------------------------------------
(* What happens around a run.                                              *)

\* A process is killed, or a read, a transaction or a Git query fails.
Crash(p) ==
  /\ ~At(p, "idle")
  /\ faults < MaxFaults
  /\ faults' = faults + 1
  /\ Return(p)
  /\ UNCHANGED <<item, integrations, git, recorded, runs, drift>>

\* git merge fails on the index lock or a changed file, or the head cannot be
\* read after it merged: both count as a conflict.
MergeFault(p) ==
  LET r == Repository(p)
      commit == [item |-> Seen(p).item, head |-> Seen(p).head]
  IN  /\ At(p, "merge")
      /\ faults < MaxFaults
      /\ faults' = faults + 1
      /\ \/ UNCHANGED target
         \/ /\ merging[r] = NoCommit /\ ~Contains(r, commit.item, commit.head)
            /\ target' = [target EXCEPT ![r] = Append(@, commit)]
      /\ Goto(p, AfterMerge(FALSE), proc[p].pos)
      /\ UNCHANGED <<item, integrations, merging, recorded, runs, drift>>

\* A session or a person checkpoints an item: the revision an interrupted
\* update was staged for is taken.
Checkpoint(d, to, repos) ==
  /\ ValidateTransition(status[d], to, IF to = "cancelled" THEN "cancel" ELSE "none")
  /\ status' = [status EXCEPT ![d] = to]
  /\ interrupted' = [interrupted EXCEPT ![d] = IF @ = "no" THEN "no" ELSE "stuck"]
  /\ integrations' = IF to = "review"
                       THEN [integrations EXCEPT ![d] = QueueReview(@, sourceHead[d], repos)]
                       ELSE integrations
  /\ UNCHANGED <<sourceHead, branch, git, recorded, runs, proc, drift, faults>>

\* reconcile_human finishes the completion a run left open.
Repair(d) ==
  /\ interrupted[d] \in Runs
  /\ status' = [status EXCEPT ![d] = "done"]
  /\ interrupted' = [interrupted EXCEPT ![d] = "no"]
  /\ UNCHANGED <<integrations, sourceHead, branch, git, recorded, runs, proc, drift, faults>>

\* A session commits to its branch; later the checkout is reconciled.
CommitSource(d, r) ==
  /\ branch[d][r] < MaxHead
  /\ branch' = [branch EXCEPT ![d][r] = @ + 1]
  /\ UNCHANGED <<status, interrupted, sourceHead, integrations, git, recorded, runs, proc,
                 drift, faults>>

ReconcileSource(d, r) ==
  /\ sourceHead[d][r] # branch[d][r]
  /\ sourceHead' = [sourceHead EXCEPT ![d][r] = branch[d][r]]
  /\ UNCHANGED <<status, interrupted, branch, integrations, git, recorded, runs, proc,
                 drift, faults>>

\* Somebody commits to the Feature checkout; later it is reconciled.
CommitTarget(r) ==
  /\ drift < MaxDrift
  /\ drift' = drift + 1
  /\ merging[r] = NoCommit
  /\ target' = [target EXCEPT ![r] = Append(@, Foreign)]
  /\ UNCHANGED <<item, integrations, merging, recorded, runs, proc, faults>>

ReconcileTarget(r) ==
  /\ recorded[r] # Len(target[r])
  /\ recorded' = [recorded EXCEPT ![r] = Len(target[r])]
  /\ UNCHANGED <<item, integrations, git, runs, proc, drift, faults>>

\* A person resolves a conflicted merge and commits it, or gives it up.
Conclude(r) ==
  /\ merging[r] # NoCommit
  /\ merging' = [merging EXCEPT ![r] = NoCommit]
  /\ target' \in {target, [target EXCEPT ![r] = Append(@, merging[r])]}
  /\ UNCHANGED <<item, integrations, recorded, runs, proc, drift, faults>>

-----------------------------------------------------------------------------
Step(p) ==
  \/ Load(p) \/ ReadTarget(p) \/ Drift(p) \/ FailRun(p) \/ Early(p) \/ Preflight(p)
  \/ Candidate(p) \/ Source(p) \/ Resolve(p) \/ ContainsStep(p) \/ Merge(p)
  \/ CompleteStep(p) \/ Finish(p) \/ FailStep(p) \/ Closing(p) \/ Seal(p)

Command ==
  \/ \E k \in Runs, r \in Repositories : Preview(k, r)
  \/ \E p \in Processes, k \in Runs : Confirm(p, k) \/ Resume(p, k)

Environment ==
  \/ \E p \in Processes : Crash(p) \/ MergeFault(p)
  \/ \E d \in Items : \/ Repair(d)
                      \/ \E to \in Moves, repos \in SUBSET Repositories : Checkpoint(d, to, repos)
                      \/ \E r \in Repositories : CommitSource(d, r) \/ ReconcileSource(d, r)
  \/ \E r \in Repositories : CommitTarget(r) \/ ReconcileTarget(r) \/ Conclude(r)

Next == Command \/ (\E p \in Processes : Step(p)) \/ Environment

Spec == Init /\ [][Next]_vars

-----------------------------------------------------------------------------
(* Properties.                                                             *)

\* Every variable has its type.
TypeOK ==
  /\ status \in [Items -> WorkItemStatuses]
  /\ interrupted \in [Items -> {"no", "stuck"} \cup Runs]
  /\ integrations \in [Items -> [Repositories -> [status : IntegrationStatuses, head : 0..MaxHead]]]
  /\ sourceHead \in [Items -> [Repositories -> 1..MaxHead]]
  /\ branch \in [Items -> [Repositories -> 1..MaxHead]]
  /\ target \in [Repositories -> Seq(Commits)]
  /\ recorded \in [Repositories -> Nat]
  /\ merging \in [Repositories -> Commits \cup {NoCommit}]
  /\ \A k \in Runs : /\ runs[k].status \in RunStatuses
                     /\ runs[k].repository \in Repositories \cup {"none"}
                     /\ runs[k].steps \in Seq(RunSteps)
  /\ \A p \in Processes : /\ proc[p].pc \in Phases \cup {"idle"}
                          /\ proc[p].run \in Runs \cup {"none"}
                          /\ proc[p].seen \in Seq(RunSteps)
                          /\ proc[p].pos \in Nat /\ proc[p].result \in Nat
  /\ drift \in 0..MaxDrift
  /\ faults \in 0..MaxFaults

\* A step that is recorded as integrated is merged, whatever crashed in between.
StepsAreMerged ==
  \A k \in Runs : \A i \in DOMAIN runs[k].steps :
    LET step == runs[k].steps[i]
    IN  step.status = "integrated" => Contains(runs[k].repository, step.item, step.head)

\* A run is completed only with all of its steps integrated, whatever another
\* process that executes it makes of them.
CompletedRunsIntegrated ==
  \A k \in Runs : runs[k].status = "completed" =>
    \A i \in DOMAIN runs[k].steps : runs[k].steps[i].status = "integrated"

\* The steps of a run are integrated in order of dependencies: what a merged item
\* depends on is merged, or was not queued with it.
DependencyOrder ==
  \A k \in Runs : \A i, j \in DOMAIN runs[k].steps :
    /\ runs[k].steps[j].status = "integrated"
    /\ <<runs[k].steps[j].item, runs[k].steps[i].item>> \in Dependencies
    => runs[k].steps[i].status = "integrated"

\* An item that is done has the head it was accepted with in every Feature
\* checkout.
DoneIsMerged ==
  \A d \in Items : status[d] = "done" =>
    \A r \in Repositories : Contains(r, d, integrations[d][r].head)

\* What was integrated stays integrated until a newer head is queued: with
\* it the rows of a done item stay integrated (DoneIsReady in WorkItemStateProofs).
IntegratedStays ==
  [][\A d \in Items, r \in Repositories :
       integrations[d][r].status = "integrated" =>
         \/ integrations'[d][r].status = "integrated"
         \/ integrations'[d][r].head # integrations[d][r].head]_vars

\* No item is forgotten: when no process runs, one whose repositories are all
\* integrated is done, or a run that can be resumed or an update that is open has
\* it still to complete.  A run that failed, and says so, since somebody else's
\* commit was found in the checkout, completes its items no more.
NoneForgotten ==
  (\A p \in Processes : At(p, "idle")) => \A d \in Items :
    status[d] = "review" /\ IntegrationReady(integrations[d]) =>
      \/ interrupted[d] # "no"
      \/ \E k \in Runs : /\ runs[k].status = "running" \/ (runs[k].status = "failed" /\ drift > 0)
                         /\ \E i \in DOMAIN runs[k].steps : runs[k].steps[i].item = d

=============================================================================
