---------------------------- MODULE WorkItemState ---------------------------
(***************************************************************************)
(* Structured Work-item checkpoints (application/work_item_state.rs on     *)
(* application/planning_store.rs and application/storage.rs).              *)
(*                                                                         *)
(* A checkpoint is staged in SQLite, published into the Work item's        *)
(* Markdown document, committed in the planning store's Git repository and *)
(* then finalized in SQLite.  Every CLI command and every managed          *)
(* session's MCP server is an operating-system process of its own; they    *)
(* share the database, the document files, the Git index and HEAD, and no  *)
(* lock is held across the steps.  One action is one transaction, one read *)
(* of the disk or one Git command, so that any other process, a crash, a   *)
(* failing command or a person's editor may come between two of them.      *)
(*                                                                         *)
(* A content hash is modelled by the content it identifies, and a commit   *)
(* by what it holds for the document in question.                          *)
(***************************************************************************)
EXTENDS Naturals, FiniteSetsExt, WorkItemRules

CONSTANTS Items,         \* Work items, each with its document
          Repositories,  \* repositories every item must be integrated into
          Processes,     \* concurrent workboard processes
          Requests,      \* updates the callers may submit
          Runs,          \* Feature integration runs that may complete an item
          Payloads,      \* what a checkpoint says, beyond its status
          MaxHead,       \* bound on the commits of a source checkout
          MaxEdits,      \* bound on what people do to the documents by hand
          MaxFaults      \* bound on crashes and failed commands

Keys == {req.key : req \in Requests} \cup (Runs \X Items)

States == [revision : Nat, documentRevision : Nat,
           status : WorkItemStatuses \cup {"none"}, payload : Payloads \cup {"none"}]

NoState == [revision |-> 0, documentRevision |-> 1, status |-> "none", payload |-> "none"]

\* A document: the text people write, whether it is laid out as Workboard would
\* render it, the status in its front matter and the managed state section.
Contents == [text : 0..MaxEdits, canonical : BOOLEAN,
             status : WorkItemStatuses \cup {"torn"}, state : States]

\* What an interrupted copy leaves: a document that no longer parses.
Torn == [text |-> 0, canonical |-> FALSE, status |-> "torn", state |-> NoState]

RequestSet == [key : Keys, item : Items, status : WorkItemStatuses,
               terminal : TerminalIntents, payload : Payloads \cup {"none"},
               blocked : BOOLEAN, revision : Nat, documentRevision : Nat]

NoRequest == [key |-> <<"no", "key">>, item |-> "none", status |-> "backlog",
              terminal |-> "none", payload |-> "none", blocked |-> FALSE,
              revision |-> 0, documentRevision |-> 0]

ASSUME RequestsAssumption == Requests \subseteq RequestSet
ASSUME BoundsAssumption == MaxHead \in Nat /\ MaxEdits \in Nat /\ MaxFaults \in Nat

VARIABLES
  file,          \* the document on disk
  index,         \* the document in the planning store's Git index
  tree,          \* the document in the planning store's HEAD commit
  docHash,       \* documents.content_hash
  revisions,     \* document_revisions: revision -> content hash
  state,         \* work_item_states
  status,        \* work_items.status
  updates,       \* work_item_state_updates, by idempotency key
  integrations,  \* work_item_integrations, by repository
  results,       \* the repositories whose row holds a result_head, by item
  sourceHead,    \* checkouts.head of the item's checkout, by repository
  proc,          \* what each process is doing
  edits, faults  \* counted against the bounds

disk == <<file, index, tree>>
database == <<docHash, revisions, state, status, updates, integrations, results, sourceHead>>
vars == <<file, index, tree, docHash, revisions, state, status, updates,
          integrations, results, sourceHead, proc, edits, faults>>

-----------------------------------------------------------------------------
(* Requests, rows and rendering.                                           *)

NoRow == [publication |-> "absent", req |-> NoRequest, actor |-> "local_human",
          repos |-> {}, expected |-> Torn, commit |-> Torn]

Rows == [publication : {"absent", "pending", "reconciliation_required", "completed"},
         req : RequestSet \cup {NoRequest}, actor : StateActors,
         repos : SUBSET Repositories, expected : Contents, commit : Contents]

Idle(answer) == [pc |-> "idle", req |-> NoRequest, actor |-> "local_human", repos |-> {},
                 expected |-> Torn, candidate |-> Torn, commit |-> Torn, answer |-> answer]

\* The steps of a command, in order; "status" and "recon" are side branches.
Steps == {"lookup", "context", "verify", "render", "stage", "resume", "reread", "publish",
          "recheck", "copy", "status", "add", "commit", "head", "finalize", "recon"}

Answers == {"none", "completed", "reconcile", "failed"}

ProcessStates ==
  [pc : Steps \cup {"idle"}, req : RequestSet \cup {NoRequest}, actor : StateActors,
   repos : SUBSET Repositories, expected : Contents, candidate : Contents,
   commit : Contents, answer : Answers]

ValidateUpdate(req) ==
  /\ req.status = "blocked" => req.blocked
  /\ req.terminal = "cancel" => req.status = "cancelled"
  /\ req.terminal = "complete" => req.status = "review"

\* Mistake: the state's revision is counted with the document's.
StateFromDocument(req) ==
  [revision |-> req.documentRevision + 1, documentRevision |-> req.documentRevision + 1,
   status |-> req.status, payload |-> req.payload]

StateFromUpdate(req) ==
  [revision |-> req.revision + 1, documentRevision |-> req.documentRevision + 1,
   status |-> req.status, payload |-> req.payload]

\* Mistakes: the front matter keeps its status; a stale section replaces the text.
RenderSection(content, req) ==
  [content EXCEPT !.canonical = TRUE, !.state = StateFromUpdate(req)]

RenderWhole(content, req) ==
  [text |-> IF content.state = StateFromUpdate(req) THEN content.text ELSE 0,
   canonical |-> TRUE, status |-> req.status, state |-> StateFromUpdate(req)]

\* Rendering replaces the status and the managed section, keeps a person's text
\* and normalises its layout.
Render(content, req) ==
  [text |-> content.text, canonical |-> TRUE, status |-> req.status,
   state |-> StateFromUpdate(req)]

DocumentRevision(d) ==
  IF DOMAIN revisions[d] = {} THEN 1 ELSE Max(DOMAIN revisions[d])

\* Mistake: only updates that are behind are refused.
ValidateNotBehind(req) ==
  /\ req.revision >= state[req.item].revision
  /\ req.documentRevision >= DocumentRevision(req.item)

ValidateRevisions(req) ==
  /\ req.revision = state[req.item].revision
  /\ req.documentRevision = DocumentRevision(req.item)

\* Mistake: an item is ready as soon as none of its repositories is in conflict.
NothingInConflict(d) == \A r \in Repositories : integrations[d][r].status # "conflict"

ItemReady(d) == IntegrationReady(integrations[d])

ValidateActor(actor, req) ==
  ValidateActorTransition(actor, status[req.item], req.status, req.terminal, ItemReady(req.item))

\* PRIMARY KEY (document_id, revision) and UNIQUE (document_id, content_hash).
RevisionConflict(d, revision, hash) ==
  \/ revision \in DOMAIN revisions[d]
  \/ \E r \in DOMAIN revisions[d] : revisions[d][r] = hash

Open(row) == row.publication \in {"pending", "reconciliation_required"}

OpenUpdates(d) == {k \in Keys : Open(updates[k]) /\ updates[k].req.item = d}

-----------------------------------------------------------------------------
InitialContent ==
  [text |-> 0, canonical |-> TRUE, status |-> "ready", state |-> NoState]

Init ==
  /\ file = [d \in Items |-> InitialContent]
  /\ index = file
  /\ tree = file
  /\ docHash = file
  /\ revisions = [d \in Items |-> [n \in {1} |-> InitialContent]]
  /\ state = [d \in Items |-> NoState]
  /\ status = [d \in Items |-> "ready"]
  /\ updates = [k \in Keys |-> NoRow]
  /\ integrations = [d \in Items |-> [r \in Repositories |-> NoIntegration]]
  /\ results = [d \in Items |-> {}]
  /\ sourceHead = [d \in Items |-> [r \in Repositories |-> 0]]
  /\ proc = [p \in Processes |-> Idle("none")]
  /\ edits = 0
  /\ faults = 0

At(p, pc) == proc[p].pc = pc

Goto(p, pc) == proc' = [proc EXCEPT ![p].pc = pc]

Return(p, answer) == proc' = [proc EXCEPT ![p] = Idle(answer)]

\* What a step that only computes, or only reads, leaves alone.
Reading == UNCHANGED <<disk, database, edits, faults>>

-----------------------------------------------------------------------------
(* Commands.                                                               *)

\* update_managed and update_human: a managed session asks for the integration
\* of its own checkout, a person for that of every checkout of the item.
Submit(p, req, actor, repos) ==
  /\ At(p, "idle")
  /\ IF ValidateUpdate(req)
       THEN proc' = [proc EXCEPT ![p] = [Idle("none") EXCEPT
                       !.pc = "lookup", !.req = req, !.actor = actor, !.repos = repos]]
       ELSE Return(p, "failed")
  /\ Reading

\* complete_integration.  read_view looks at one open update, the one with the
\* latest clock reading, which may be any of them; without one it compares the
\* disk with the projection.  What is decided here is decided again when the
\* update is staged, so reading in one step loses no outcome.
IntegrationRequest(run, d) ==
  [key |-> <<run, d>>, item |-> d, status |-> "done", terminal |-> "none",
   payload |-> state[d].payload, blocked |-> FALSE, revision |-> state[d].revision,
   documentRevision |-> state[d].documentRevision]

Integrable(run, d) ==
  /\ ItemReady(d)
  /\ state[d] # NoState
  /\ state[d].status # "done"
  /\ IF OpenUpdates(d) = {}
       THEN file[d] = docHash[d] /\ docHash[d].status = status[d] /\ docHash[d].state = state[d]
       ELSE <<run, d>> \in OpenUpdates(d)

StartIntegration(p, run, d) ==
  /\ At(p, "idle")
  /\ Integrable(run, d)
  /\ proc' = [proc EXCEPT ![p] = [Idle("none") EXCEPT
                !.pc = "lookup", !.req = IntegrationRequest(run, d), !.actor = "integration"]]
  /\ Reading

\* reconcile_human: resume_staged for an update that is not completed.
Reconcile(p, k) ==
  /\ At(p, "idle")
  /\ Open(updates[k])
  /\ proc' = [proc EXCEPT ![p] = [Idle("none") EXCEPT !.pc = "resume", !.req = updates[k].req]]
  /\ Reading

-----------------------------------------------------------------------------
(* update, up to the staged row.                                           *)

\* Mistake: the key alone identifies a request.
LookupKey(p) ==
  LET row == updates[proc[p].req.key]
  IN  /\ At(p, "lookup")
      /\ \/ row.publication = "absent" /\ Goto(p, "context")
         \/ row.publication = "completed" /\ Return(p, "completed")
         \/ Open(row) /\ Goto(p, "resume")
      /\ Reading

Lookup(p) ==
  LET req == proc[p].req
      row == updates[req.key]
  IN  /\ At(p, "lookup")
      /\ \/ row.publication = "absent" /\ Goto(p, "context")
         \/ row.publication # "absent" /\ row.req # req /\ Return(p, "failed")
         \/ row.req = req /\ row.publication = "completed" /\ Return(p, "completed")
         \/ row.req = req /\ Open(row) /\ Goto(p, "resume")
      /\ Reading

Context(p) ==
  LET req == proc[p].req
  IN  /\ At(p, "context")
      /\ IF ValidateRevisions(req) /\ ValidateActor(proc[p].actor, req)
           THEN proc' = [proc EXCEPT ![p].pc = "verify", ![p].expected = docHash[req.item]]
           ELSE Return(p, "failed")
      /\ Reading

Verify(p) ==
  /\ At(p, "verify")
  /\ IF file[proc[p].req.item] = proc[p].expected
       THEN Goto(p, "render")
       ELSE Return(p, "failed")
  /\ Reading

RenderStep(p) ==
  LET d == proc[p].req.item
  IN  /\ At(p, "render")
      /\ IF file[d].status = "torn"
           THEN Return(p, "failed")
           ELSE proc' = [proc EXCEPT ![p].pc = "stage",
                                     ![p].candidate = Render(file[d], proc[p].req)]
      /\ Reading

\* The transaction that inserts the pending row repeats every check but the
\* lookup; the key is UNIQUE.  Other open rows of the item are not looked at.
Stage(p) ==
  LET req == proc[p].req
  IN  /\ At(p, "stage")
      /\ IF /\ ValidateRevisions(req)
            /\ ValidateActor(proc[p].actor, req)
            /\ docHash[req.item] = proc[p].expected
            /\ updates[req.key].publication = "absent"
           THEN /\ updates' = [updates EXCEPT ![req.key] =
                     [publication |-> "pending", req |-> req, actor |-> proc[p].actor,
                      repos |-> proc[p].repos, expected |-> proc[p].expected, commit |-> Torn]]
                /\ Goto(p, "publish")
           ELSE Return(p, "failed") /\ UNCHANGED updates
      /\ UNCHANGED <<disk, docHash, revisions, state, status, integrations, results, sourceHead,
                     edits, faults>>

\* resume_staged: the row, then the document as it is now.
Resume(p) ==
  LET row == updates[proc[p].req.key]
  IN  /\ At(p, "resume")
      /\ IF Open(row)
           THEN proc' = [proc EXCEPT ![p] = [@ EXCEPT
                           !.pc = "reread", !.actor = row.actor, !.repos = row.repos,
                           !.expected = row.expected]]
           ELSE Return(p, "failed")
      /\ Reading

Reread(p) ==
  LET d == proc[p].req.item
  IN  /\ At(p, "reread")
      /\ IF file[d].status = "torn"
           THEN Return(p, "failed")
           ELSE proc' = [proc EXCEPT ![p].pc = "publish",
                                     ![p].candidate = Render(file[d], proc[p].req)]
      /\ Reading

-----------------------------------------------------------------------------
(* publish_and_finalize.                                                   *)

\* Mistake: a document that holds the candidate already counts as edited.
PublishOnce(p) ==
  LET d == proc[p].req.item
  IN  /\ At(p, "publish")
      /\ Goto(p, IF file[d] = proc[p].expected THEN "recheck" ELSE "recon")
      /\ Reading

\* publish_reconciled_update: the document is what the row expects, or already
\* the candidate, or somebody edited it.
Publish(p) ==
  LET d == proc[p].req.item
  IN  /\ At(p, "publish")
      /\ \/ file[d] = proc[p].expected /\ Goto(p, "recheck")
         \/ file[d] # proc[p].expected /\ file[d] = proc[p].candidate /\ Goto(p, "status")
         \/ file[d] \notin {proc[p].expected, proc[p].candidate} /\ Goto(p, "recon")
      /\ Reading

Recheck(p) ==
  /\ At(p, "recheck")
  /\ Goto(p, IF file[proc[p].req.item] = proc[p].expected THEN "copy" ELSE "recon")
  /\ Reading

Copy(p) ==
  /\ At(p, "copy")
  /\ file' = [file EXCEPT ![proc[p].req.item] = proc[p].candidate]
  /\ Goto(p, "add")
  /\ UNCHANGED <<index, tree, database, edits, faults>>

\* Mistake: what is staged but not committed counts as unchanged.
FileIsChanged(d) == file[d] # index[d]

PathIsChanged(d) == file[d] # index[d] \/ index[d] # tree[d]

Status(p) ==
  /\ At(p, "status")
  /\ Goto(p, IF PathIsChanged(proc[p].req.item) THEN "add" ELSE "head")
  /\ Reading

Add(p) ==
  LET d == proc[p].req.item
  IN  /\ At(p, "add")
      /\ index' = [index EXCEPT ![d] = file[d]]
      /\ Goto(p, "commit")
      /\ UNCHANGED <<file, tree, database, edits, faults>>

\* git commit records the whole index and fails when it equals HEAD.
Commit(p) ==
  /\ At(p, "commit")
  /\ tree' = index
  /\ Goto(p, IF index = tree THEN "recon" ELSE "head")
  /\ UNCHANGED <<file, index, database, edits, faults>>

\* rev-parse HEAD, which another process may have moved since the commit.
Head(p) ==
  /\ At(p, "head")
  /\ proc' = [proc EXCEPT ![p].pc = "finalize", ![p].commit = tree[proc[p].req.item]]
  /\ Reading

CompletedRow(row, commit) == [row EXCEPT !.publication = "completed", !.commit = commit]

Finalize(p) ==
  LET req == proc[p].req
      d == req.item
      hash == proc[p].candidate
      new == StateFromUpdate(req)
  IN  /\ At(p, "finalize")
      /\ updates[req.key].publication # "completed"
      /\ ~RevisionConflict(d, new.documentRevision, hash)
      /\ docHash' = [docHash EXCEPT ![d] = hash]
      /\ revisions' = [revisions EXCEPT ![d] =
                         [n \in DOMAIN @ \cup {new.documentRevision} |->
                            IF n = new.documentRevision THEN hash ELSE @[n]]]
      /\ state' = [state EXCEPT ![d] = new]
      /\ status' = [status EXCEPT ![d] = req.status]
      /\ integrations' = IF req.status = "review"
                           THEN [integrations EXCEPT ![d] =
                                   QueueReview(@, sourceHead[d], proc[p].repos)]
                           ELSE integrations
      /\ results' = IF req.status = "review"
                      THEN [results EXCEPT ![d] =
                              ResultsKept(@, integrations[d], sourceHead[d], proc[p].repos)]
                      ELSE results
      /\ updates' = [updates EXCEPT ![req.key] = CompletedRow(@, proc[p].commit)]
      /\ Return(p, "completed")
      /\ UNCHANGED <<disk, sourceHead, edits, faults>>

\* Another process completed the row, or the history already has the revision.
FinalizeAgain(p) ==
  LET req == proc[p].req
  IN  /\ At(p, "finalize")
      /\ \/ /\ updates[req.key].publication = "completed"
            /\ Return(p, "completed")
         \/ /\ updates[req.key].publication # "completed"
            /\ RevisionConflict(req.item, req.documentRevision + 1, proc[p].candidate)
            /\ Goto(p, "recon")
      /\ Reading

ReconciliationError(p) ==
  LET k == proc[p].req.key
  IN  /\ At(p, "recon")
      /\ updates' = IF updates[k].publication = "completed"
                      THEN updates
                      ELSE [updates EXCEPT ![k].publication = "reconciliation_required"]
      /\ Return(p, "reconcile")
      /\ UNCHANGED <<disk, docHash, revisions, state, status, integrations, results, sourceHead,
                     edits, faults>>

-----------------------------------------------------------------------------
(* What happens around the commands.                                       *)

\* A read, a Git command or a transaction fails: before the row is staged the
\* command gives up, afterwards it asks for reconciliation.  A copy that fails
\* may have truncated the document.
Fault(p) ==
  /\ ~At(p, "idle")
  /\ faults < MaxFaults
  /\ faults' = faults + 1
  /\ IF proc[p].pc \in {"publish", "recheck", "copy", "status", "add", "commit", "head", "finalize"}
       THEN Goto(p, "recon")
       ELSE Return(p, "failed")
  /\ file' \in IF At(p, "copy") THEN {file, [file EXCEPT ![proc[p].req.item] = Torn]} ELSE {file}
  /\ UNCHANGED <<index, tree, database, edits>>

Crash(p) ==
  /\ ~At(p, "idle")
  /\ faults < MaxFaults
  /\ faults' = faults + 1
  /\ Return(p, "none")
  /\ file' \in IF At(p, "copy") THEN {file, [file EXCEPT ![proc[p].req.item] = Torn]} ELSE {file}
  /\ UNCHANGED <<index, tree, database, edits>>

\* A person edits the text of a document, or its front matter's layout.
ExternalEdit(d) ==
  /\ edits < MaxEdits
  /\ file[d].status # "torn"
  /\ edits' = edits + 1
  /\ \E canonical \in BOOLEAN :
       file' = [file EXCEPT ![d].text = edits + 1, ![d].canonical = canonical]
  /\ UNCHANGED <<index, tree, database, proc, faults>>

\* A person discards what is not committed.
RestoreCommitted(d) ==
  /\ edits < MaxEdits
  /\ edits' = edits + 1
  /\ PathIsChanged(d)
  /\ file' = [file EXCEPT ![d] = tree[d]]
  /\ index' = [index EXCEPT ![d] = tree[d]]
  /\ UNCHANGED <<tree, database, proc, faults>>

\* complete_step and fail_step, which write the row whatever it says: one of two
\* executors of a run may report a conflict for what the other has integrated.
Settle(d, r, outcome) ==
  /\ integrations[d][r].status # "absent"
  /\ integrations' = [integrations EXCEPT ![d][r].status = outcome]
  /\ results' = IF outcome = "integrated" THEN [results EXCEPT ![d] = @ \cup {r}] ELSE results
  /\ UNCHANGED <<disk, docHash, revisions, state, status, updates, sourceHead, proc,
                 edits, faults>>

\* New commits of the item's checkout are reconciled into checkouts.head.
AdvanceSource(d, r) ==
  /\ sourceHead[d][r] < MaxHead
  /\ sourceHead' = [sourceHead EXCEPT ![d][r] = @ + 1]
  /\ UNCHANGED <<disk, docHash, revisions, state, status, updates, integrations, results,
                 proc, edits, faults>>

-----------------------------------------------------------------------------
Command(p) ==
  \/ \E req \in Requests :
       \/ \E r \in Repositories : Submit(p, req, "managed_session", {r})
       \/ Submit(p, req, "local_human", Repositories)
  \/ \E run \in Runs, d \in Items : StartIntegration(p, run, d)
  \/ \E k \in Keys : Reconcile(p, k)

Step(p) ==
  \/ Lookup(p) \/ Context(p) \/ Verify(p) \/ RenderStep(p) \/ Stage(p)
  \/ Resume(p) \/ Reread(p)
  \/ Publish(p) \/ Recheck(p) \/ Copy(p) \/ Status(p) \/ Add(p) \/ Commit(p) \/ Head(p)
  \/ Finalize(p) \/ FinalizeAgain(p) \/ ReconciliationError(p)

Environment ==
  \/ \E p \in Processes : Fault(p) \/ Crash(p)
  \/ \E d \in Items : ExternalEdit(d) \/ RestoreCommitted(d)
  \/ \E d \in Items, r \in Repositories :
       AdvanceSource(d, r) \/ \E outcome \in {"integrated", "conflict"} : Settle(d, r, outcome)

Next == (\E p \in Processes : Command(p) \/ Step(p)) \/ Environment

Spec == Init /\ [][Next]_vars

-----------------------------------------------------------------------------
(* Properties.                                                             *)

\* Every variable has its type.
TypeOK ==
  /\ file \in [Items -> Contents]
  /\ index \in [Items -> Contents]
  /\ tree \in [Items -> Contents]
  /\ docHash \in [Items -> Contents]
  /\ DOMAIN revisions = Items
  /\ \A d \in Items : /\ DOMAIN revisions[d] \subseteq Nat
                      /\ revisions[d] \in [DOMAIN revisions[d] -> Contents]
  /\ state \in [Items -> States]
  /\ status \in [Items -> WorkItemStatuses]
  /\ updates \in [Keys -> Rows]
  /\ integrations \in [Items -> [Repositories -> [status : IntegrationStatuses, head : Nat]]]
  /\ results \in [Items -> SUBSET Repositories]
  /\ sourceHead \in [Items -> [Repositories -> Nat]]
  /\ proc \in [Processes -> ProcessStates]
  /\ edits \in 0..MaxEdits
  /\ faults \in 0..MaxFaults

\* The four projections of an item agree: the status column, the structured
\* state, the document's hash and the newest revision of its history are all of
\* the same checkpoint, whatever was staged, interrupted or replayed meanwhile.
ProjectionParity ==
  \A d \in Items :
    /\ DocumentRevision(d) = state[d].documentRevision
    /\ docHash[d] = revisions[d][DocumentRevision(d)]
    /\ docHash[d].state = state[d]
    /\ docHash[d].status = status[d]

\* Every repository of the item has a result for the head that its row asks for.
ItemMerged(d) == Repositories # {} /\ results[d] = Repositories

StillPermitted(actor, req) ==
  ValidateActorTransition(actor, status[req.item], req.status, req.terminal, ItemMerged(req.item))

StillValid(d, k) ==
  LET req == updates[k].req
  IN  /\ req.documentRevision <= state[d].documentRevision
      /\ req.documentRevision = state[d].documentRevision =>
           req.revision = state[d].revision /\ StillPermitted(updates[k].actor, req)

\* An update that is open and whose revision is still free may still be made: the
\* revision and the status that it was validated against when it was staged, outside
\* any lock, are the item's, and what an integration found merged has its result
\* still.  That its rows still say so is not promised: fail_step of a second executor
\* may have marked one as a conflict since.
StagedStillValid == \A d \in Items : \A k \in OpenUpdates(d) : StillValid(d, k)

\* No update is lost and none is applied twice: the completed updates of an item
\* and the revisions after the first are in one-to-one correspondence, and each
\* revision is the one its update was made against plus one.
HistoryOfUpdates ==
  \A d \in Items :
    LET done == {k \in Keys : updates[k].publication = "completed" /\ updates[k].req.item = d}
    IN  /\ DOMAIN revisions[d] = 1..(Cardinality(done) + 1)
        /\ \A k \in done :
             revisions[d][updates[k].req.documentRevision + 1].state = StateFromUpdate(updates[k].req)

\* When nothing runs, no update is open and no person has touched the documents,
\* the disk, the index, HEAD and the database hold the same document.
SettledParity ==
  edits = 0 /\ (\A p \in Processes : At(p, "idle")) => \A d \in Items :
    OpenUpdates(d) = {} => /\ file[d] = docHash[d]
                           /\ index[d] = docHash[d]
                           /\ tree[d] = docHash[d]

\* The commit a completed update records holds the very document whose hash the
\* revision history records for it, unless a person wrote into it meanwhile.
CompletedInCommit ==
  edits = 0 => \A k \in Keys : updates[k].publication = "completed" =>
    updates[k].commit = revisions[updates[k].req.item][updates[k].req.documentRevision + 1]

\* Another update of the item was made against the revision of this one, which
\* was staged earlier: staging does not look at the open updates of an item.
Overtaken(k) ==
  \E j \in Keys \ {k} :
    /\ updates[j].publication = "completed"
    /\ updates[j].req.item = updates[k].req.item
    /\ updates[j].req.documentRevision = updates[k].req.documentRevision

\* An update that is still open, however often it was interrupted and retried, can
\* still be published: nothing but another update takes the revision it is for.
ReconciliationActionable ==
  \A d \in Items : \A k \in OpenUpdates(d) :
    updates[k].req.documentRevision + 1 \in DOMAIN revisions[d] => Overtaken(k)

\* An item is done only when the head that each of its rows asks for has a result,
\* although readiness is checked when the update is staged and used when it is
\* finalized.  Its rows are integrated, or marked as a conflict by a second executor
\* after they had been; none asks for another head.
DoneIntegrated ==
  \A d \in Items : status[d] = "done" =>
    /\ ItemMerged(d)
    /\ \A r \in Repositories : integrations[d][r].status \in {"integrated", "conflict"}

\* History is append-only: no revision is replaced or removed, and a completed
\* update never changes again.
HistoryAppendOnly ==
  [][/\ \A d \in Items : \A n \in DOMAIN revisions[d] :
          n \in DOMAIN revisions'[d] /\ revisions'[d][n] = revisions[d][n]
     /\ \A k \in Keys : updates[k].publication = "completed" => updates'[k] = updates[k]]_vars

\* Statuses only move as the rules allow, though the move is validated when the
\* update is staged and made when it is finalized.
LegalMoves ==
  [][\A d \in Items : status'[d] # status[d] =>
       /\ status[d] \notin TerminalStatuses
       /\ status'[d] \in Successors[status[d]] \cup {"done"}
       /\ status'[d] = "done" => status[d] = "review"]_vars

Ledger == INSTANCE WorkItemLedger WITH
  Items <- Items, Repositories <- Repositories, Payloads <- Payloads, MaxHead <- MaxHead,
  status <- status, state <- state, integrations <- integrations, results <- results,
  sourceHead <- sourceHead

\* Every step of the service is an acceptance, the outcome of an integration, a
\* new commit or nothing at all to a caller who sees only the authoritative state.
ImplementsLedger == Ledger!LedgerSpec

\* A caller is told "completed" only when its own request is completed.
NoFalseSuccess ==
  [][\A p \in Processes :
       ~At(p, "idle") /\ proc'[p].answer = "completed" =>
         LET row == updates'[proc[p].req.key]
         IN  row.publication = "completed" /\ row.req = proc[p].req]_vars

\* What a person wrote and the service accepted is not undone by a later update.
AcceptedTextKept ==
  \A d \in Items : \A m, n \in DOMAIN revisions[d] :
    m <= n => revisions[d][m].text <= revisions[d][n].text

=============================================================================
