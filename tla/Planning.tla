------------------------------- MODULE Planning -------------------------------
(***************************************************************************)
(* Planning and publishing Features (application/planning_workflow.rs),    *)
(* adding Work items to a published one (feature_work_item_planning.rs)    *)
(* and the planning store both write to (planning_store.rs).               *)
(*                                                                         *)
(* A managed planner proposes a plan; once the user has approved it, the   *)
(* documents are written, staged and committed in the Git repository of    *)
(* the planning store, and only then are the rows of the hierarchy         *)
(* inserted.  All publishers share the working tree and the index of that  *)
(* repository, may run at the same time, of one proposal or of several,    *)
(* and may fail or be killed anywhere; a publication is retried by calling *)
(* it again.                                                               *)
(***************************************************************************)
EXTENDS Naturals, Sequences, FiniteSets

CONSTANTS Features,        \* Features of one Epic, with slugs of their own
          Additions,       \* proposals that add one Work item to a Feature
          Of, Slug,        \* the Feature of an addition, the slug of its item
          Processes,       \* calls that may run at the same time
          MaxCalls,        \* bound on calls of several steps
          MaxMoves,        \* bound on changes of the sources of plans
          MaxGenerations,  \* bound on the proposals of one Feature
          MaxFaults        \* bound on failed and killed calls

ASSUME AdditionsAssumption == Of \in [Additions -> Features]
ASSUME NamesAssumption == Features \cap Additions = {} /\ "none" \notin Features \cup Additions
ASSUME BoundsAssumption ==
  MaxCalls \in Nat /\ MaxMoves \in Nat /\ MaxGenerations \in Nat /\ MaxFaults \in Nat

\* A plan is the document of the Feature and that of its one Work item.
PlanDocuments == <<"plan", "first">>
Paths == (Features \X {"plan", "first"}) \cup {<<Of[q], Slug[q]>> : q \in Additions}

VARIABLES
  source,    \* how often the Epic's document and the code repository changed
  feature,   \* workflow state, and the sources the planner was given
  plan,      \* feature_planning_proposals: status, generation, published commit
  added,     \* feature_work_item_proposals: status
  planner,   \* Features with an authenticated, managed planning session
  rows,      \* documents, and the Work items they are of
  file,      \* the working tree, the index and HEAD of the planning store
  head,      \* number of commits made in it
  process,   \* what each call is doing
  calls, faults

records == <<feature, plan, added, rows>>
store == <<file, head>>
vars == <<source, feature, plan, added, planner, rows, file, head, process, calls, faults>>

\* A path: what it holds, of which proposal, and what of it is staged and committed;
\* the first commit it is in and its form there; and, for the properties, whether a
\* publisher has passed over it while it was created and not yet filled.
NoFile == [of |-> "none", generation |-> 0, form |-> "absent", staged |-> "absent",
           committed |-> "absent", first |-> 0, as |-> "absent", passed |-> FALSE]
NoCall == [pc |-> "idle", of |-> "none", seen |-> 0, todo |-> <<>>, commit |-> 0]

Init ==
  /\ source = [f \in Features |-> 0]
  /\ feature = [f \in Features |-> [state |-> "absent", drafted |-> 0]]
  /\ plan = [f \in Features |-> [status |-> "none", generation |-> 0, commit |-> 0]]
  /\ added = [q \in Additions |-> "none"]
  /\ planner = {} /\ rows = {}
  /\ file = [d \in Paths |-> NoFile] /\ head = 0
  /\ process = [p \in Processes |-> NoCall]
  /\ calls = 0 /\ faults = 0

In(f, state) == feature[f].state = state
Home(x) == IF x \in Features THEN x ELSE Of[x]

At(p, pc) == process[p].pc = pc
Goto(p, pc) == process' = [process EXCEPT ![p].pc = pc]
Return(p) == process' = [process EXCEPT ![p] = NoCall]
Start(p, call) ==
  /\ At(p, "idle") /\ calls < MaxCalls
  /\ calls' = calls + 1
  /\ process' = [process EXCEPT ![p] = call]

-----------------------------------------------------------------------------
(* Planning.                                                               *)

\* can_transition_to: the states that can be left for reconciliation, and the
\* state of reconciliation itself.
ReconcilableStates == {"worktree_pending", "planning_launch_pending", "planning_active",
                       "publishing", "reconciliation_required"}

\* Mistake: any state may be left for reconciliation.
MayAlways(f) == TRUE

MayReconcile(f) == feature[f].state \in ReconcilableStates

\* activate_planning_for_binding.
Activated(f) == IF In(f, "planning_launch_pending") THEN "planning_active" ELSE feature[f].state

\* create_feature reads the Epic's row, which may be older than its document,
\* and the head of the repository, and inserts the Feature afterwards.
ReadSources(p, f) ==
  /\ In(f, "absent")
  /\ \E seen \in 0..source[f] :
       Start(p, [NoCall EXCEPT !.pc = "create", !.of = f, !.seen = seen])
  /\ UNCHANGED <<source, records, planner, store, faults>>

CreateFeature(p) ==
  LET f == process[p].of
  IN  /\ At(p, "create")
      /\ feature' = IF ~In(f, "absent") THEN feature
                    ELSE [feature EXCEPT ![f] = [state |-> "worktree_pending",
                                                 drafted |-> process[p].seen]]
      /\ Return(p)
      /\ UNCHANGED <<source, plan, added, planner, rows, store, calls, faults>>

\* The checkout of the Feature has been prepared before.
MarkLaunchPending(f) ==
  /\ In(f, "worktree_pending")
  /\ feature' = [feature EXCEPT ![f].state = "planning_launch_pending"]
  /\ UNCHANGED <<source, plan, added, planner, rows, store, process, calls, faults>>

\* A planning session is bound to the Feature, in one of the states that let it.
BindPlanner(f) ==
  /\ f \notin planner
  /\ feature[f].state \in {"planning_launch_pending", "planning_active", "planned"}
  /\ feature' = [feature EXCEPT ![f].state = Activated(f)]
  /\ planner' = planner \cup {f}
  /\ UNCHANGED <<source, plan, added, rows, store, process, calls, faults>>

\* The session is retired, or its workflow token expires.
EndPlanner(f) ==
  /\ f \in planner
  /\ planner' = planner \ {f}
  /\ UNCHANGED <<source, records, store, process, calls, faults>>

\* submit_proposal, of a new proposal made from the sources of the draft.
SubmitProposal(f) ==
  /\ f \in planner
  /\ In(f, "planning_active")
  /\ plan[f].status \in {"none", "rejected"}
  /\ plan[f].generation < MaxGenerations
  /\ feature' = [feature EXCEPT ![f].state = "awaiting_approval"]
  /\ plan' = [plan EXCEPT ![f] = [status |-> "awaiting_approval",
                                  generation |-> @.generation + 1, commit |-> 0]]
  /\ UNCHANGED <<source, added, planner, rows, store, process, calls, faults>>

Decidable(f) == In(f, "awaiting_approval")

Returned == "rejected"

Decide(f, state, status) ==
  /\ Decidable(f)
  /\ feature' = [feature EXCEPT ![f].state = state]
  /\ plan' = [plan EXCEPT ![f].status = status]
  /\ UNCHANGED <<source, added, planner, rows, store, process, calls, faults>>

RequestProposalRevision(f) == Decide(f, "planning_active", Returned)
RejectProposal(f) == Decide(f, "cancelled", Returned)
ApproveProposal(f) == Decide(f, "publishing", "publishing")

-----------------------------------------------------------------------------
(* publish_approved, up to the documents.                                  *)

\* publication_context, when the Feature is not published already.
PublishApproved(p, f) ==
  /\ In(f, "publishing") /\ plan[f].status = "publishing"
  /\ Start(p, [NoCall EXCEPT !.pc = "sources", !.of = f])
  /\ UNCHANGED <<source, records, planner, store, faults>>

\* The Epic's document and the code repository are compared with the draft.
CheckSources(p) ==
  LET f == process[p].of
  IN  /\ At(p, "sources")
      /\ Goto(p, IF source[f] = feature[f].drafted THEN "compare" ELSE "reconcile")
      /\ UNCHANGED <<source, records, planner, store, calls, faults>>

\* A transaction of its own, that checks the transition and nothing else.
MarkReconciliation(p) ==
  LET f == process[p].of
  IN  /\ At(p, "reconcile")
      /\ feature' = IF MayReconcile(f)
                    THEN [feature EXCEPT ![f].state = "reconciliation_required"] ELSE feature
      /\ Return(p)
      /\ UNCHANGED <<source, plan, added, planner, rows, store, calls, faults>>

-----------------------------------------------------------------------------
(* publish_batch_new, for a Feature or an addition.                        *)

Documents(x) == IF x \in Features THEN PlanDocuments ELSE <<Slug[x]>>
PathsOf(x) == {<<Home(x), Documents(x)[i]>> : i \in DOMAIN Documents(x)}

\* Document ids are part of the proposal, so that every proposal renders to
\* documents of its own and to the same ones each time.
GenerationOf(x) == IF x \in Features THEN plan[x].generation ELSE 1

Identical(x, d) ==
  file[d].of = x /\ file[d].generation = GenerationOf(x) /\ file[d].form = "whole"

\* Documents that are there already must be these documents.
CompareDocuments(p) ==
  LET x == process[p].of
  IN  /\ At(p, "compare")
      /\ IF \A d \in PathsOf(x) : file[d].form = "absent" \/ Identical(x, d)
         THEN process' = [process EXCEPT ![p].pc = "write", ![p].todo = Documents(x)]
         ELSE Return(p)
      /\ UNCHANGED <<source, records, planner, store, calls, faults>>

\* One document after the other is created, if there is none at its path ...
CreateDocument(p) ==
  LET x == process[p].of
      d == <<Home(x), Head(process[p].todo)>>
  IN  /\ At(p, "write") /\ process[p].todo # <<>>
      /\ \/ /\ file[d].form = "absent"
            /\ file' = [file EXCEPT ![d].of = x, ![d].generation = GenerationOf(x),
                                    ![d].form = "torn"]
            /\ Goto(p, "fill")
         \/ /\ file[d].form # "absent"
            /\ file' = [file EXCEPT ![d].passed = @ \/ file[d].form = "torn"]
            /\ process' = [process EXCEPT ![p].todo = Tail(@)]
      /\ UNCHANGED <<source, records, planner, head, calls, faults>>

\* ... and then filled.
FillDocument(p) ==
  /\ At(p, "fill")
  /\ file' = [file EXCEPT ![<<Home(process[p].of), Head(process[p].todo)>>].form = "whole"]
  /\ process' = [process EXCEPT ![p].pc = "write", ![p].todo = Tail(@)]
  /\ UNCHANGED <<source, records, planner, head, calls, faults>>

\* Mistake: a document that is tracked counts as committed.
Untracked(d) == file[d].staged = "absent"

\* path_is_changed: Git reports the path as untracked, staged or modified.
Changed(d) == file[d].form # file[d].staged \/ file[d].staged # file[d].committed

ExamineDocuments(p) ==
  /\ At(p, "write") /\ process[p].todo = <<>>
  /\ Goto(p, IF \E d \in PathsOf(process[p].of) : Changed(d) THEN "add" ELSE "head")
  /\ UNCHANGED <<source, records, planner, store, calls, faults>>

\* commit_paths stages the paths of this publication ...
AddDocuments(p) ==
  /\ At(p, "add")
  /\ file' = [d \in Paths |-> IF d \in PathsOf(process[p].of)
                              THEN [file[d] EXCEPT !.staged = file[d].form] ELSE file[d]]
  /\ Goto(p, "commit")
  /\ UNCHANGED <<source, records, planner, head, calls, faults>>

Staged == {d \in Paths : file[d].staged # file[d].committed}

\* ... and commits whatever is staged, which may be nothing any more.
CommitDocuments(p) ==
  /\ At(p, "commit")
  /\ \/ /\ Staged # {}
        /\ head' = head + 1
        /\ file' = [d \in Paths |-> IF d \notin Staged THEN file[d]
             ELSE [file[d] EXCEPT !.committed = file[d].staged,
                                  !.first = IF @ = 0 THEN head + 1 ELSE @,
                                  !.as = IF file[d].first = 0 THEN file[d].staged ELSE @]]
        /\ Goto(p, "head")
     \/ Staged = {} /\ Return(p) /\ UNCHANGED store
  /\ UNCHANGED <<source, records, planner, calls, faults>>

\* The commit that is recorded is HEAD when it is asked for.
ReadHead(p) ==
  /\ At(p, "head")
  /\ process' = [process EXCEPT ![p].pc = "rows", ![p].commit = head]
  /\ UNCHANGED <<source, records, planner, store, calls, faults>>

RowsOf(x) == {[path |-> d, of |-> x, generation |-> GenerationOf(x)] : d \in PathsOf(x)}

\* The last transaction of publish_approved.
MaterialiseFeature(p) ==
  LET f == process[p].of
  IN  /\ At(p, "rows") /\ f \in Features
      /\ \/ /\ In(f, "publishing")
            /\ rows' = rows \cup RowsOf(f)
            /\ feature' = [feature EXCEPT ![f].state = "planned"]
            /\ plan' = [plan EXCEPT ![f].status = "published", ![f].commit = process[p].commit]
         \/ ~In(f, "publishing") /\ UNCHANGED <<rows, feature, plan>>
      /\ Return(p)
      /\ UNCHANGED <<source, added, planner, store, calls, faults>>

-----------------------------------------------------------------------------
(* Additions to a published Feature.                                       *)

\* The Feature is published, and has no Work item of this slug yet.
Proposable(q) == In(Of[q], "planned") /\ ~\E r \in rows : r.path \in PathsOf(q)

\* propose checks the request against rows it reads before it inserts.
ReadFeature(p, q) ==
  /\ Of[q] \in planner /\ added[q] = "none" /\ Proposable(q)
  /\ Start(p, [NoCall EXCEPT !.pc = "propose", !.of = q])
  /\ UNCHANGED <<source, records, planner, store, faults>>

Propose(p) ==
  LET q == process[p].of
  IN  /\ At(p, "propose")
      /\ added' = IF added[q] = "none" THEN [added EXCEPT ![q] = "awaiting_approval"] ELSE added
      /\ Return(p)
      /\ UNCHANGED <<source, feature, plan, planner, rows, store, calls, faults>>

Reject(q) ==
  /\ added[q] = "awaiting_approval"
  /\ added' = [added EXCEPT ![q] = "rejected"]
  /\ UNCHANGED <<source, feature, plan, planner, rows, store, process, calls, faults>>

\* approve reads the proposal, which it does not mark, and publishes.
Approve(p, q) ==
  /\ added[q] = "awaiting_approval"
  /\ Start(p, [NoCall EXCEPT !.pc = "compare", !.of = q])
  /\ UNCHANGED <<source, records, planner, store, faults>>

\* The last transaction of approve: inserting a Work item twice fails, and the
\* proposal is updated if it is still awaiting approval.
MaterialiseAddition(p) ==
  LET q == process[p].of
  IN  /\ At(p, "rows") /\ q \in Additions
      /\ \/ /\ ~\E r \in rows : r.path \in PathsOf(q)
            /\ rows' = rows \cup RowsOf(q)
            /\ added' = [added EXCEPT ![q] = IF @ = "awaiting_approval" THEN "approved" ELSE @]
         \/ (\E r \in rows : r.path \in PathsOf(q)) /\ UNCHANGED <<rows, added>>
      /\ Return(p)
      /\ UNCHANGED <<source, feature, plan, planner, store, calls, faults>>

-----------------------------------------------------------------------------
(* What happens around the calls.                                          *)

\* The Epic's document is edited, or the code repository gets a commit.
MoveSources(f) ==
  /\ source[f] < MaxMoves
  /\ source' = [source EXCEPT ![f] = @ + 1]
  /\ UNCHANGED <<records, planner, store, process, calls, faults>>

\* The call is killed, or a file, Git or database operation of it fails.
Fail(p) ==
  /\ ~At(p, "idle") /\ faults < MaxFaults
  /\ faults' = faults + 1
  /\ Return(p)
  /\ UNCHANGED <<source, records, planner, store, calls>>

Next ==
  \/ \E f \in Features :
       \/ MarkLaunchPending(f) \/ BindPlanner(f) \/ EndPlanner(f) \/ SubmitProposal(f)
       \/ RequestProposalRevision(f) \/ RejectProposal(f) \/ ApproveProposal(f) \/ MoveSources(f)
  \/ \E q \in Additions : Reject(q)
  \/ \E p \in Processes :
       \/ \E f \in Features : ReadSources(p, f) \/ PublishApproved(p, f)
       \/ \E q \in Additions : ReadFeature(p, q) \/ Approve(p, q)
       \/ CreateFeature(p) \/ CheckSources(p) \/ MarkReconciliation(p)
       \/ CompareDocuments(p) \/ CreateDocument(p) \/ FillDocument(p) \/ ExamineDocuments(p)
       \/ AddDocuments(p) \/ CommitDocuments(p) \/ ReadHead(p)
       \/ MaterialiseFeature(p) \/ Propose(p) \/ MaterialiseAddition(p) \/ Fail(p)

Spec == Init /\ [][Next]_vars

-----------------------------------------------------------------------------
(* Properties.                                                             *)

States == {"absent", "worktree_pending", "planning_launch_pending", "planning_active",
           "awaiting_approval", "publishing", "planned", "reconciliation_required", "cancelled"}
Forms == {"absent", "torn", "whole"}
Publications == Features \cup Additions \cup {"none"}
Files == [of : Publications, generation : Nat, form : Forms, staged : Forms, committed : Forms,
          first : Nat, as : Forms, passed : BOOLEAN]

\* Every row, file and call keeps to its values.
TypeOK ==
  /\ source \in [Features -> 0..MaxMoves]
  /\ feature \in [Features -> [state : States, drafted : 0..MaxMoves]]
  /\ plan \in [Features -> [status : {"none", "awaiting_approval", "rejected", "publishing",
                                      "published"},
                            generation : 0..MaxGenerations, commit : Nat]]
  /\ added \in [Additions -> {"none", "awaiting_approval", "approved", "rejected"}]
  /\ planner \subseteq Features
  /\ rows \subseteq [path : Paths, of : Features \cup Additions, generation : Nat]
  /\ file \in [Paths -> Files]
  /\ head \in Nat
  /\ \A p \in Processes : process[p].of \in Publications /\ process[p].commit \in 0..head
  /\ calls \in 0..MaxCalls /\ faults \in 0..MaxFaults

\* Every document of a plan in the planning store is of the proposal that was
\* approved, written in full or not: a revision cannot slip in between an approval
\* and its publication, and no retry meets the documents of an earlier proposal.
DocumentsAreApproved ==
  \A d \in Paths : file[d].of \in Features =>
    LET f == file[d].of
    IN  /\ feature[f].state \in {"publishing", "planned", "reconciliation_required"}
        /\ file[d].generation = plan[f].generation

\* All paths of a published plan are first in one commit, which the recorded commit
\* contains, and each holds the whole document there, unless a publisher has passed
\* over it between its creation and its filling by another: publishers share an
\* index, commit what others have staged and fail anywhere ("a Git commit containing
\* one complete Feature document and its Work-item documents").
PublishedAreCommitted ==
  \A f \in Features : plan[f].status = "published" =>
    \E n \in 1..plan[f].commit : \A d \in PathsOf(f) :
      file[d].first = n /\ (file[d].as = "whole" \/ file[d].passed)

\* Both, of every document and every plan (publish_batch_new, commit_paths, publish_approved).
PublicationsAreTrue == DocumentsAreApproved /\ PublishedAreCommitted

\* The hierarchy has a Feature's documents and Work items exactly when it is
\* planned and its proposal published, and they are those of that proposal.
RowsFollowState ==
  \A f \in Features :
    /\ In(f, "planned") <=> plan[f].status = "published"
    /\ {r \in rows : r.of = f} = IF In(f, "planned") THEN RowsOf(f) ELSE {}

\* No late publisher, planner or reconciliation takes a publication back.
PublishedStays ==
  [][\A f \in Features : In(f, "planned") =>
       /\ In(f, "planned")'
       /\ plan'[f] = plan[f]
       /\ rows \subseteq rows']_vars

\* That commit holds complete documents: violated when a second publisher of the plan
\* passes over, stages and commits a document the first has created and not filled.
PublishedAreWhole ==
  \A f \in Features : plan[f].status = "published" =>
    \A d \in PathsOf(f) : file[d].as = "whole"

\* An addition the user has rejected creates nothing ("keep creation
\* approval-gated"): violated when it is rejected while it is being published.
RejectedCreatesNothing ==
  \A r \in rows : r.of \in Additions => added[r.of] # "rejected"

=============================================================================
