------------------------------ MODULE EpicImport ------------------------------
(***************************************************************************)
(* Epics of a workspace: proposed by a planner and approved by a person    *)
(* (workspace_planning.rs, approve_workspace_proposal of cli/lib.rs,       *)
(* create_epic of workspace.rs), or imported with their Features from the  *)
(* plans of a repository (concertable_import.rs).                          *)
(*                                                                         *)
(* Both commit documents in the planning store before they insert the rows *)
(* of the database, check against the database before that, and are        *)
(* repeated after a failure.  create_epic takes a document that it finds   *)
(* at the path of the Epic; an import goes on where its own documents are. *)
(* A preview is one Epic with one Feature here; a document is told by its  *)
(* id and title, and is torn while it is created and not written yet.      *)
(***************************************************************************)
EXTENDS Naturals, Sequences

CONSTANTS Slugs,           \* slugs of Epics
          Proposals, Previews,
          SlugOf, TitleOf, \* what is proposed or previewed
          Processes,
          MaxCalls,        \* bound on approvals
          MaxFaults        \* bound on failed and killed calls, and on moved sources

Parts == <<"epic", "feature">>
Paths == Slugs \X {"epic", "feature"}

VARIABLES
  proposals,  \* workspace_planning_proposals: status, and the Epic of the decision
  batches,    \* import_batches with their finalized memberships: the previews applied
  rows,       \* documents, with the Epic or Feature of each: its title and document
  moved,      \* previews whose source repository has another HEAD now
  file,       \* the working tree, the index and HEAD of the planning store
  process,
  overtaken,  \* previews of which a document was created by another call meanwhile
  calls, faults

bounds == <<calls, faults>>
vars == <<proposals, batches, rows, moved, file, process, overtaken, calls, faults>>

NoDocument == [title |-> "none", id |-> << >>]
TornDocument == [title |-> "torn", id |-> << >>]   \* created, and not written yet
Idle == [pc |-> "idle"]

Init ==
  /\ proposals = [q \in Proposals |-> [status |-> "awaiting_approval", epic |-> FALSE]]
  /\ batches = {} /\ moved = {} /\ overtaken = {}
  /\ rows = [d \in Paths |-> [title |-> "none", document |-> NoDocument]]
  /\ file = [d \in Paths |-> [form |-> NoDocument, staged |-> NoDocument, committed |-> NoDocument]]
  /\ process = [p \in Processes |-> Idle]
  /\ calls = 0 /\ faults = 0

At(p, pc) == process[p].pc = pc
Goto(p, pc) == process' = [process EXCEPT ![p].pc = pc]
Return(p) == process' = [process EXCEPT ![p] = Idle]
Of(p) == process[p].of
EpicPath(p) == <<SlugOf[Of(p)], "epic">>
Importing(p) == Of(p) \in Previews
PathsOf(p) == IF Importing(p) THEN {SlugOf[Of(p)]} \X {"epic", "feature"} ELSE {EpicPath(p)}
Exists(d) == file[d].form # NoDocument
HasRow(d) == rows[d].document # NoDocument

-----------------------------------------------------------------------------
(***************************************************************************)
(* Approving a proposal.                                                   *)
(***************************************************************************)

\* approve reads the proposal; one that is decided already is only answered.
Approve(p, q) ==
  /\ At(p, "idle") /\ calls < MaxCalls /\ calls' = calls + 1
  /\ process' = [process EXCEPT ![p] =
       [pc |-> IF proposals[q].status = "awaiting_approval" THEN "lookup" ELSE "decide",
        of |-> q, todo |-> << >>, epic |-> FALSE,
        document |-> [title |-> TitleOf[q], id |-> <<calls + 1>>]]]
  /\ UNCHANGED <<proposals, batches, rows, moved, file, overtaken, faults>>

\* An Epic of this slug is taken for the one proposed if it has the title.
LookUpEpic(p) ==
  /\ At(p, "lookup")
  /\ IF ~HasRow(EpicPath(p)) THEN Goto(p, "inspect")
     ELSE IF rows[EpicPath(p)].title # TitleOf[Of(p)] THEN Return(p)
     ELSE process' = [process EXCEPT ![p].pc = "decide", ![p].epic = TRUE]
  /\ UNCHANGED <<proposals, batches, rows, moved, file, overtaken, bounds>>

\* git status reports the path as untracked, staged or modified.
PathIsChanged(d) == file[d].form # file[d].staged \/ file[d].staged # file[d].committed

\* A call finds a whole document of the Epic and takes it, whatever title it has.
Take(p, pc) ==
  /\ file[EpicPath(p)].form \notin {NoDocument, TornDocument}
  /\ process' = [process EXCEPT ![p].document = file[EpicPath(p)].form, ![p].pc = pc]

\* A document that cannot be parsed is an error; where there is none, one is written.
TakeNone(p) ==
  \/ file[EpicPath(p)].form = TornDocument /\ Return(p)
  \/ file[EpicPath(p)].form = NoDocument /\ Goto(p, "write")

\* Mistake: a document that is found is not looked up in Git.
InspectFile(p) ==
  /\ At(p, "inspect") /\ (Take(p, "rows") \/ TakeNone(p))
  /\ UNCHANGED <<proposals, batches, rows, moved, file, overtaken, bounds>>

\* A failed call has left the document, or another one is about to commit it.
InspectDocument(p) ==
  /\ At(p, "inspect")
  /\ Take(p, IF PathIsChanged(EpicPath(p)) THEN "add" ELSE "rows") \/ TakeNone(p)
  /\ UNCHANGED <<proposals, batches, rows, moved, file, overtaken, bounds>>

\* write_new_bytes creates the file, which must be a new one ...
CreateNewFile(p) ==
  /\ At(p, "write")
  /\ IF Exists(EpicPath(p)) THEN Return(p) /\ UNCHANGED file
     ELSE file' = [file EXCEPT ![EpicPath(p)].form = TornDocument] /\ Goto(p, "fill")
  /\ UNCHANGED <<proposals, batches, rows, moved, overtaken, bounds>>

\* ... and then writes it.
WriteNewBytes(p) ==
  /\ At(p, "fill") /\ ~Importing(p) /\ Goto(p, "add")
  /\ file' = [file EXCEPT ![EpicPath(p)].form = process[p].document]
  /\ UNCHANGED <<proposals, batches, rows, moved, overtaken, bounds>>

\* commit_paths stages the paths of the call ...
AddPaths(p) ==
  /\ At(p, "add") /\ Goto(p, "commit")
  /\ file' = [d \in Paths |-> IF d \in PathsOf(p) THEN [file[d] EXCEPT !.staged = file[d].form]
                                                  ELSE file[d]]
  /\ UNCHANGED <<proposals, batches, rows, moved, overtaken, bounds>>

\* ... and commits all that is staged; it fails if that is nothing any more.
CommitPaths(p) ==
  /\ At(p, "commit")
  /\ IF \A d \in Paths : file[d].staged = file[d].committed
       THEN Return(p) /\ UNCHANGED file
       ELSE /\ file' = [d \in Paths |-> [file[d] EXCEPT !.committed = file[d].staged]]
            /\ Goto(p, "rows")
  /\ UNCHANGED <<proposals, batches, rows, moved, overtaken, bounds>>

\* The slug, the path and the document id are unique.
Unique(d, document) ==
  /\ ~HasRow(d)
  /\ \A e \in Paths : rows[e].document # document

InsertEpic(p) ==
  /\ At(p, "rows") /\ ~Importing(p)
  /\ IF Unique(EpicPath(p), process[p].document)
       THEN /\ rows' = [rows EXCEPT ![EpicPath(p)] =
                 [title |-> TitleOf[Of(p)], document |-> process[p].document]]
            /\ process' = [process EXCEPT ![p].pc = "decide", ![p].epic = TRUE]
       ELSE Return(p) /\ UNCHANGED rows
  /\ UNCHANGED <<proposals, batches, moved, file, overtaken, bounds>>

\* A decision that was taken meanwhile stands.
Decide(p) ==
  /\ At(p, "decide") /\ Return(p)
  /\ proposals' = IF proposals[Of(p)].status # "awaiting_approval" THEN proposals
       ELSE [proposals EXCEPT ![Of(p)] = [status |-> "approved", epic |-> process[p].epic]]
  /\ UNCHANGED <<batches, rows, moved, file, overtaken, bounds>>

Reject(q) ==
  /\ proposals[q].status = "awaiting_approval"
  /\ proposals' = [proposals EXCEPT ![q].status = "rejected"]
  /\ UNCHANGED <<batches, rows, moved, file, process, overtaken, bounds>>

-----------------------------------------------------------------------------
(***************************************************************************)
(* Applying a preview.                                                     *)
(***************************************************************************)

\* A preview that was applied is answered from its batch; its sources must not have moved.
ApplyImport(p, v) ==
  /\ At(p, "idle") /\ v \notin batches /\ v \notin moved
  /\ process' = [process EXCEPT ![p] =
       [pc |-> "preflight", of |-> v, todo |-> << >>, epic |-> FALSE,
        document |-> [title |-> TitleOf[v], id |-> << >>]]]
  /\ UNCHANGED <<proposals, batches, rows, moved, file, overtaken, bounds>>

PreflightCollisions(p) ==
  /\ At(p, "preflight")
  /\ IF \A d \in PathsOf(p) : ~HasRow(d) THEN Goto(p, "compare") ELSE Return(p)
  /\ UNCHANGED <<proposals, batches, rows, moved, file, overtaken, bounds>>

\* Documents of a preview keep the ids it gave them, and have one for each part.
DocumentOf(p, d) ==
  IF Importing(p) THEN [title |-> process[p].document.title, id |-> <<Of(p), d[2]>>]
                  ELSE process[p].document

\* Mistake: files that exist are refused, as write_new_bytes does.
CompareForNew(p) ==
  /\ At(p, "compare")
  /\ IF \A d \in PathsOf(p) : ~Exists(d)
       THEN process' = [process EXCEPT ![p].pc = "create",
              ![p].todo = [k \in DOMAIN Parts |-> <<SlugOf[Of(p)], Parts[k]>>]]
       ELSE Return(p)
  /\ UNCHANGED <<proposals, batches, rows, moved, file, overtaken, bounds>>

\* publish_batch_new refuses files that are not as it would write them ...
CompareDocuments(p) ==
  /\ At(p, "compare")
  /\ IF \A d \in PathsOf(p) : file[d].form \in {NoDocument, DocumentOf(p, d)}
       THEN process' = [process EXCEPT ![p].pc = "create",
              ![p].todo = [k \in DOMAIN Parts |-> <<SlugOf[Of(p)], Parts[k]>>]]
       ELSE Return(p)
  /\ UNCHANGED <<proposals, batches, rows, moved, file, overtaken, bounds>>

\* ... and then passes over what exists by the time it gets there.  A file that is being
\* written now may also have been created after path.exists: create_new fails.
CreateDocument(p) ==
  LET d == Head(process[p].todo) IN
  /\ At(p, "create") /\ process[p].todo # << >>
  /\ \/ /\ ~Exists(d) /\ Goto(p, "fill")
        /\ file' = [file EXCEPT ![d].form = TornDocument]
        /\ UNCHANGED overtaken
     \/ /\ Exists(d) /\ process' = [process EXCEPT ![p].todo = Tail(@)]
        /\ overtaken' = overtaken \cup IF file[d].form = DocumentOf(p, d) THEN {} ELSE {Of(p)}
        /\ UNCHANGED file
     \/ file[d].form = TornDocument /\ Return(p) /\ UNCHANGED <<file, overtaken>>
  /\ UNCHANGED <<proposals, batches, rows, moved, bounds>>

\* What was created is written.
FillDocument(p) ==
  LET d == Head(process[p].todo) IN
  /\ At(p, "fill") /\ Importing(p)
  /\ file' = [file EXCEPT ![d].form = DocumentOf(p, d)]
  /\ process' = [process EXCEPT ![p].pc = "create", ![p].todo = Tail(@)]
  /\ UNCHANGED <<proposals, batches, rows, moved, overtaken, bounds>>

ExamineDocuments(p) ==
  /\ At(p, "create") /\ process[p].todo = << >>
  /\ Goto(p, IF \E d \in PathsOf(p) : PathIsChanged(d) THEN "add" ELSE "rows")
  /\ UNCHANGED <<proposals, batches, rows, moved, file, overtaken, bounds>>

\* One transaction: the batch, the hierarchy, the documents, and their evidence.
InsertImport(p) ==
  /\ At(p, "rows") /\ Importing(p) /\ Return(p)
  /\ IF Of(p) \notin batches /\ \A d \in PathsOf(p) : Unique(d, DocumentOf(p, d))
       THEN /\ batches' = batches \cup {Of(p)}
            /\ rows' = [d \in Paths |-> IF d \in PathsOf(p)
                 THEN [title |-> TitleOf[Of(p)], document |-> DocumentOf(p, d)] ELSE rows[d]]
       ELSE UNCHANGED <<batches, rows>>
  /\ UNCHANGED <<proposals, moved, file, overtaken, bounds>>

-----------------------------------------------------------------------------
\* A call fails or is killed between two steps; a commit is made in a source repository.
Fail(p) ==
  /\ faults < MaxFaults /\ faults' = faults + 1
  /\ ~At(p, "idle") /\ Return(p)
  /\ UNCHANGED <<proposals, batches, rows, moved, file, overtaken, calls>>

MoveSource(v) ==
  /\ faults < MaxFaults /\ faults' = faults + 1
  /\ v \notin moved /\ moved' = moved \cup {v}
  /\ UNCHANGED <<proposals, batches, rows, file, process, overtaken, calls>>

Step(p) ==
  \/ LookUpEpic(p) \/ InspectDocument(p) \/ CreateNewFile(p) \/ WriteNewBytes(p)
  \/ AddPaths(p) \/ CommitPaths(p) \/ InsertEpic(p) \/ Decide(p) \/ PreflightCollisions(p)
  \/ CompareDocuments(p) \/ CreateDocument(p) \/ FillDocument(p) \/ ExamineDocuments(p)
  \/ InsertImport(p)

\* import concertable-plans apply.
ImportPlans(p) == \E v \in Previews : ApplyImport(p, v)

Next ==
  \/ \E p \in Processes :
       \/ Step(p) \/ Fail(p) \/ ImportPlans(p)
       \/ \E q \in Proposals : Approve(p, q)
  \/ \E q \in Proposals : Reject(q)
  \/ \E v \in Previews : MoveSource(v)

\* A call goes on, and the person repeats an import that failed.
Spec ==
  /\ Init /\ [][Next]_vars
  /\ \A p \in Processes : WF_vars(Step(p))
  /\ \A v \in Previews : SF_vars(\E p \in Processes : ApplyImport(p, v))

-----------------------------------------------------------------------------
\* A row of a document names what is committed at its path, unless another call created
\* that file between the comparison and the creation of an import.
RowsAreCommitted ==
  \A d \in Paths : HasRow(d) =>
    \/ file[d].committed = rows[d].document
    \/ rows[d].title \in {TitleOf[v] : v \in overtaken}

\* An approved proposal has an Epic of its slug and title, whoever else decided or created
\* one meanwhile.
ApprovedHasEpic ==
  \A q \in Proposals : proposals[q].status = "approved" =>
    /\ proposals[q].epic
    /\ rows[<<SlugOf[q], "epic">>].title = TitleOf[q]

\* A file that a call created and was killed before it wrote: nobody writes it any more.
Torn(d) ==
  /\ file[d].form = TornDocument
  /\ \A p \in Processes : At(p, "fill") =>
       d # IF Importing(p) THEN Head(process[p].todo) ELSE EpicPath(p)

\* Something else has the path or the slug of a document of a preview.
Taken(v) ==
  \E k \in DOMAIN Parts : LET d == <<SlugOf[v], Parts[k]>> IN
    \/ file[d].form \notin {NoDocument, TornDocument, [title |-> TitleOf[v], id |-> <<v, Parts[k]>>]}
    \/ HasRow(d) /\ v \notin batches

\* An import that is repeated after every failure is applied, unless its sources moved,
\* something else has taken the path or the slug of one of its documents, or a call, its
\* own ones included, was killed between creating one of its files and writing it.
ImportsEnd ==
  \A v \in Previews :
    <>(v \in batches \/ v \in moved \/ Taken(v) \/ \E k \in DOMAIN Parts : Torn(<<SlugOf[v], Parts[k]>>))

\* By hand, violated: an import that was killed can be repeated whatever step it was at.
KilledImportsEnd == \A v \in Previews : <>(v \in batches \/ v \in moved \/ Taken(v))

\* By hand, violated: a row names what is committed, whatever other calls do.
AllRowsAreCommitted == \A d \in Paths : HasRow(d) => file[d].committed = rows[d].document

\* By hand, violated: a document of an Epic has the title of its row.
TitlesAgree == \A d \in Paths : HasRow(d) => rows[d].title = rows[d].document.title

\* By hand, violated: a proposal that was rejected leaves no Epic.
RejectedHasNone ==
  \A q \in Proposals : proposals[q].status = "rejected" =>
    rows[<<SlugOf[q], "epic">>].title # TitleOf[q]

=============================================================================
