------------------------- MODULE WorkItemStateProofs ------------------------
(***************************************************************************)
(* Theorems about WorkItemState, for every set of items, repositories,     *)
(* processes, requests and runs and every bound.                           *)
(*                                                                         *)
(* The argument: an open update was staged against a revision that the     *)
(* item has or had.  If the item still has it, nothing the update was      *)
(* validated against has changed; if not, the revision it would write is   *)
(* taken and the history refuses it.  So what was checked when the update  *)
(* was staged holds when it is finalized, without a lock in between.  And  *)
(* since a revision is taken once, the completed updates of an item are    *)
(* its revisions, one for one.                                             *)
(*                                                                         *)
(* Of the files no such thing is true, since nothing checks them when an   *)
(* update is finalized.  With one process they agree with the database     *)
(* unless an update is open, which is shown last.                          *)
(***************************************************************************)
EXTENDS WorkItemState, FiniteSetTheorems, TLAPS

(* Types.  A process that runs, and a row that exists, has a real request. *)

ProcessesTyped ==
  /\ proc \in [Processes -> ProcessStates]
  /\ \A p \in Processes : ~At(p, "idle") => proc[p].req \in RequestSet

RowsTyped ==
  \A k \in Keys : updates[k].publication # "absent" =>
    updates[k].req \in RequestSet /\ updates[k].req.key = k

\* Types, in the form that is inductive.
Typed == TypeOK /\ ProcessesTyped /\ RowsTyped

\* The contents that do not come from a request have their type.
LEMMA ContentTypes ==
  /\ NoState \in States
  /\ Torn \in Contents
  /\ InitialContent \in Contents
BY BoundsAssumption DEF NoState, States, Torn, Contents, InitialContent, WorkItemStatuses

\* A process that has answered is a process state.
LEMMA IdleType ==
  ASSUME NEW answer \in Answers
  PROVE  Idle(answer) \in ProcessStates
BY ContentTypes DEF Idle, ProcessStates, StateActors

\* The fields of a request, and the state it asks for, have their types.
LEMMA RequestTypes ==
  ASSUME NEW req \in RequestSet
  PROVE  /\ req.key \in Keys /\ req.item \in Items /\ req.status \in WorkItemStatuses
         /\ req.payload \in Payloads \cup {"none"}
         /\ req.revision \in Nat /\ req.documentRevision \in Nat
         /\ StateFromUpdate(req) \in States
BY DEF RequestSet, StateFromUpdate, States

\* A request rendered into a document gives a document.
LEMMA RenderType ==
  ASSUME NEW req \in RequestSet, NEW content \in Contents
  PROVE  Render(content, req) \in Contents
BY RequestTypes DEF Render, Contents

\* A process that goes on to its next step, or answers, is a process state.
LEMMA GotoTyped ==
  ASSUME ProcessesTyped, NEW p \in Processes, ~At(p, "idle"), NEW pc \in Steps, Goto(p, pc)
  PROVE  ProcessesTyped'
<1>1. proc[p] \in ProcessStates
  BY DEF ProcessesTyped
<1>2. [proc[p] EXCEPT !.pc = pc] \in ProcessStates
  BY <1>1 DEF ProcessStates
<1>3. proc' = [proc EXCEPT ![p] = [proc[p] EXCEPT !.pc = pc]]
  BY DEF Goto
<1>4. proc' \in [Processes -> ProcessStates]
  BY <1>2, <1>3 DEF ProcessesTyped
<1>5. ASSUME NEW q \in Processes, ~At(q, "idle")'
      PROVE  proc'[q].req \in RequestSet
  <2>1. CASE q = p
    <3>1. proc'[q].req = proc[p].req
      BY <1>3, <1>1, <2>1 DEF ProcessesTyped, ProcessStates
    <3> QED
      BY <3>1 DEF ProcessesTyped
  <2>2. CASE q # p
    BY <1>3, <1>5, <2>2 DEF ProcessesTyped, At
  <2> QED
    BY <2>1, <2>2
<1> QED
  BY <1>4, <1>5 DEF ProcessesTyped

\* The same when a process answers and is idle again.
LEMMA ReturnTyped ==
  ASSUME ProcessesTyped, NEW p \in Processes, NEW answer \in Answers, Return(p, answer)
  PROVE  ProcessesTyped'
<1>1. proc' = [proc EXCEPT ![p] = Idle(answer)]
  BY DEF Return
<1>2. proc' \in [Processes -> ProcessStates]
  BY <1>1, IdleType DEF ProcessesTyped
<1>3. ASSUME NEW q \in Processes, ~At(q, "idle")'
      PROVE  proc'[q].req \in RequestSet
  BY <1>1, <1>3 DEF ProcessesTyped, At, Idle
<1> QED
  BY <1>2, <1>3 DEF ProcessesTyped

\* The same when a step also stores what it read or computed.
LEMMA ReplaceTyped ==
  ASSUME ProcessesTyped, NEW p \in Processes, NEW next \in ProcessStates,
         next.req \in RequestSet, proc' = [proc EXCEPT ![p] = next]
  PROVE  ProcessesTyped'
<1>1. proc' \in [Processes -> ProcessStates]
  BY DEF ProcessesTyped
<1>2. ASSUME NEW q \in Processes, ~At(q, "idle")'
      PROVE  proc'[q].req \in RequestSet
  BY <1>2 DEF ProcessesTyped, At
<1> QED
  BY <1>1, <1>2 DEF ProcessesTyped

-----------------------------------------------------------------------------
\* A step that only reads keeps the types of everything but its process.
LEMMA ReadingTyped ==
  ASSUME Typed, Reading, ProcessesTyped'
  PROVE  Typed'
BY DEF Typed, TypeOK, ProcessesTyped, RowsTyped, Reading, disk, database

\* A step that changes neither the database nor its bounds leaves its types.
LEMMA DiskTyped ==
  ASSUME Typed, UNCHANGED database, ProcessesTyped',
         file' \in [Items -> Contents], index' \in [Items -> Contents],
         tree' \in [Items -> Contents], edits' \in 0..MaxEdits, faults' \in 0..MaxFaults
  PROVE  Typed'
BY DEF Typed, TypeOK, ProcessesTyped, RowsTyped, database

\* The initial state is typed.
LEMMA InitTyped == Init => Typed
<1> SUFFICES ASSUME Init PROVE Typed
  OBVIOUS
<1>1. [n \in {1} |-> InitialContent] \in [DOMAIN [n \in {1} |-> InitialContent] -> Contents]
  BY ContentTypes
<1>2. /\ DOMAIN revisions = Items
      /\ \A d \in Items : /\ DOMAIN revisions[d] \subseteq Nat
                          /\ revisions[d] \in [DOMAIN revisions[d] -> Contents]
  BY <1>1 DEF Init
<1>3. NoRow \in Rows
  BY ContentTypes DEF NoRow, Rows, StateActors
<1>4. updates \in [Keys -> Rows] /\ RowsTyped
  BY <1>3 DEF Init, RowsTyped, NoRow
<1>5. proc \in [Processes -> ProcessStates]
  BY IdleType DEF Init, Answers
<1>6. ProcessesTyped
  BY <1>5 DEF Init, ProcessesTyped, At, Idle
<1>7. /\ file \in [Items -> Contents] /\ index \in [Items -> Contents]
      /\ tree \in [Items -> Contents] /\ docHash \in [Items -> Contents]
  BY ContentTypes DEF Init
<1>8. /\ state \in [Items -> States]
      /\ status \in [Items -> WorkItemStatuses]
      /\ integrations \in [Items -> [Repositories -> [status : IntegrationStatuses, head : Nat]]]
      /\ results \in [Items -> SUBSET Repositories]
      /\ sourceHead \in [Items -> [Repositories -> Nat]]
      /\ edits \in 0..MaxEdits /\ faults \in 0..MaxFaults
  BY ContentTypes, BoundsAssumption
     DEF Init, WorkItemStatuses, NoIntegration, IntegrationStatuses
<1> QED
  BY <1>2, <1>4, <1>5, <1>6, <1>7, <1>8 DEF Typed, TypeOK

\* Starting a command.
LEMMA CommandTyped ==
  ASSUME Typed, NEW p \in Processes, Command(p)
  PROVE  Typed'
<1> DEFINE Started(req, pc, actor, repos) ==
      [Idle("none") EXCEPT !.pc = pc, !.req = req, !.actor = actor, !.repos = repos]
<1>1. ASSUME NEW req \in RequestSet, NEW pc \in Steps, NEW actor \in StateActors,
             NEW repos \in SUBSET Repositories
      PROVE  Started(req, pc, actor, repos) \in ProcessStates
  BY <1>1, ContentTypes DEF Idle, ProcessStates, Answers
<1>2. ASSUME NEW req \in Requests, NEW actor \in StateActors, NEW repos \in SUBSET Repositories,
             Submit(p, req, actor, repos)
      PROVE  Typed'
  <2>1. req \in RequestSet
    BY RequestsAssumption
  <2>2. CASE ValidateUpdate(req)
    <3>1. proc' = [proc EXCEPT ![p] = Started(req, "lookup", actor, repos)]
      BY <1>2, <2>2 DEF Submit
    <3>2. Started(req, "lookup", actor, repos) \in ProcessStates
      BY <1>1, <2>1 DEF Steps
    <3>3. Started(req, "lookup", actor, repos).req = req
      BY DEF Idle
    <3>4. ProcessesTyped'
      BY <3>1, <3>2, <3>3, <2>1, ReplaceTyped DEF Typed
    <3> QED
      BY <1>2, <3>4, ReadingTyped DEF Submit
  <2>3. CASE ~ValidateUpdate(req)
    BY <1>2, <2>3, ReturnTyped, ReadingTyped DEF Submit, Typed, Answers
  <2> QED
    BY <2>2, <2>3
<1>3. ASSUME NEW run \in Runs, NEW d \in Items, StartIntegration(p, run, d)
      PROVE  Typed'
  <2> DEFINE req == IntegrationRequest(run, d)
             next == [Idle("none") EXCEPT !.pc = "lookup", !.req = req, !.actor = "integration"]
  <2>1. <<run, d>> \in Keys
    BY DEF Keys
  <2>2. state[d] \in States
    BY DEF Typed, TypeOK
  <2>3. req \in RequestSet
    BY <2>1, <2>2 DEF IntegrationRequest, RequestSet, States, WorkItemStatuses, TerminalIntents
  <2>4. next \in ProcessStates /\ next.req = req
    BY <2>3, ContentTypes DEF Idle, ProcessStates, Answers, StateActors, Steps
  <2>5. ProcessesTyped'
    BY <1>3, <2>3, <2>4, ReplaceTyped DEF StartIntegration, Typed
  <2> QED
    BY <1>3, <2>5, ReadingTyped DEF StartIntegration
<1>4. ASSUME NEW k \in Keys, Reconcile(p, k)
      PROVE  Typed'
  <2> DEFINE next == [Idle("none") EXCEPT !.pc = "resume", !.req = updates[k].req]
  <2>1. updates[k].req \in RequestSet
    BY <1>4 DEF Reconcile, Open, Typed, RowsTyped
  <2>2. next \in ProcessStates /\ next.req = updates[k].req
    BY <2>1, ContentTypes DEF Idle, ProcessStates, Answers, StateActors, Steps
  <2>3. ProcessesTyped'
    BY <1>4, <2>1, <2>2, ReplaceTyped DEF Reconcile, Typed
  <2> QED
    BY <1>4, <2>3, ReadingTyped DEF Reconcile
<1> QED
  BY <1>2, <1>3, <1>4 DEF Command, StateActors

-----------------------------------------------------------------------------
\* The steps of update and publication that change only the process.
LEMMA ReadingStepsTyped ==
  ASSUME Typed, NEW p \in Processes,
         \/ Lookup(p) \/ Context(p) \/ Verify(p) \/ RenderStep(p) \/ Resume(p) \/ Reread(p)
         \/ Publish(p) \/ Recheck(p) \/ Status(p) \/ Head(p) \/ FinalizeAgain(p)
  PROVE  Typed'
<1> DEFINE req == proc[p].req
<1>0. ~At(p, "idle") /\ req \in RequestSet /\ proc[p] \in ProcessStates /\ Reading
  BY DEF Typed, ProcessesTyped, At, Lookup, Context, Verify, RenderStep, Resume, Reread,
         Publish, Recheck, Status, Head, FinalizeAgain
<1>1. /\ req.key \in Keys /\ req.item \in Items
      /\ file[req.item] \in Contents /\ tree[req.item] \in Contents
      /\ docHash[req.item] \in Contents /\ updates[req.key] \in Rows
  BY <1>0, RequestTypes DEF Typed, TypeOK
<1>2. Render(file[req.item], req) \in Contents
  BY <1>0, <1>1, RenderType
<1>3. ASSUME NEW pc \in Steps, Goto(p, pc) PROVE Typed'
  BY <1>0, <1>3, GotoTyped, ReadingTyped DEF Typed
<1>4. ASSUME NEW answer \in Answers, Return(p, answer) PROVE Typed'
  BY <1>0, <1>4, ReturnTyped, ReadingTyped DEF Typed
<1>5. ASSUME NEW next \in ProcessStates, next.req = req, proc' = [proc EXCEPT ![p] = next]
      PROVE  Typed'
  BY <1>0, <1>5, ReplaceTyped, ReadingTyped DEF Typed
<1>6. CASE Lookup(p)
  BY <1>3, <1>4, <1>6 DEF Lookup, Steps, Answers
<1>7. CASE Context(p)
  <2> DEFINE next == [proc[p] EXCEPT !.pc = "verify", !.expected = docHash[req.item]]
  <2>1. next \in ProcessStates /\ next.req = req
    BY <1>0, <1>1 DEF ProcessStates, Steps
  <2>2. proc' = [proc EXCEPT ![p] = next] \/ Return(p, "failed")
    BY <1>7 DEF Context
  <2> QED
    BY <1>4, <1>5, <2>1, <2>2 DEF Answers
<1>8. CASE Verify(p)
  BY <1>3, <1>4, <1>8 DEF Verify, Steps, Answers
<1>9. CASE RenderStep(p) \/ Reread(p)
  <2> DEFINE next(pc) == [proc[p] EXCEPT !.pc = pc, !.candidate = Render(file[req.item], req)]
  <2>1. /\ next("stage") \in ProcessStates /\ next("stage").req = req
        /\ next("publish") \in ProcessStates /\ next("publish").req = req
    BY <1>0, <1>2 DEF ProcessStates, Steps
  <2>2. \/ proc' = [proc EXCEPT ![p] = next("stage")]
        \/ proc' = [proc EXCEPT ![p] = next("publish")]
        \/ Return(p, "failed")
    BY <1>9 DEF RenderStep, Reread
  <2> QED
    BY <1>4, <1>5, <2>1, <2>2 DEF Answers
<1>10. CASE Resume(p)
  <2> DEFINE row == updates[req.key]
             next == [proc[p] EXCEPT !.pc = "reread", !.actor = row.actor,
                                     !.repos = row.repos, !.expected = row.expected]
  <2>1. next \in ProcessStates /\ next.req = req
    BY <1>0, <1>1 DEF ProcessStates, Steps, Rows
  <2>2. proc' = [proc EXCEPT ![p] = next] \/ Return(p, "failed")
    BY <1>10 DEF Resume
  <2> QED
    BY <1>4, <1>5, <2>1, <2>2 DEF Answers
<1>11. CASE Publish(p) \/ Recheck(p) \/ Status(p)
  BY <1>3, <1>11 DEF Publish, Recheck, Status, Steps
<1>12. CASE Head(p)
  <2> DEFINE next == [proc[p] EXCEPT !.pc = "finalize", !.commit = tree[req.item]]
  <2>1. next \in ProcessStates /\ next.req = req
    BY <1>0, <1>1 DEF ProcessStates, Steps
  <2>2. proc' = [proc EXCEPT ![p] = next]
    BY <1>12 DEF Head
  <2> QED
    BY <1>5, <2>1, <2>2
<1>13. CASE FinalizeAgain(p)
  BY <1>3, <1>4, <1>13 DEF FinalizeAgain, Steps, Answers
<1> QED
  BY <1>6, <1>7, <1>8, <1>9, <1>10, <1>11, <1>12, <1>13

\* The steps that write the document, the index or HEAD.
LEMMA DiskStepsTyped ==
  ASSUME Typed, NEW p \in Processes, Copy(p) \/ Add(p) \/ Commit(p)
  PROVE  Typed'
<1> DEFINE d == proc[p].req.item
<1>1. ~At(p, "idle") /\ proc[p].req \in RequestSet /\ proc[p] \in ProcessStates
  BY DEF Typed, ProcessesTyped, At, Copy, Add, Commit
<1>2. d \in Items /\ proc[p].candidate \in Contents
  BY <1>1, RequestTypes DEF ProcessStates
<1>3. /\ file' \in [Items -> Contents] /\ index' \in [Items -> Contents]
      /\ tree' \in [Items -> Contents]
  BY <1>2 DEF Copy, Add, Commit, Typed, TypeOK
<1>4. ProcessesTyped'
  BY <1>1, GotoTyped DEF Copy, Add, Commit, Typed, Steps
<1>5. UNCHANGED database /\ edits' \in 0..MaxEdits /\ faults' \in 0..MaxFaults
  BY DEF Copy, Add, Commit, Typed, TypeOK
<1> QED
  BY <1>3, <1>4, <1>5, DiskTyped

\* Replacing one row by another of the same update.
LEMMA RowReplacedTyped ==
  ASSUME Typed, NEW k \in Keys, NEW row \in Rows,
         row.req \in RequestSet, row.req.key = k, updates' = [updates EXCEPT ![k] = row]
  PROVE  updates' \in [Keys -> Rows] /\ RowsTyped'
<1>1. updates' \in [Keys -> Rows]
  BY DEF Typed, TypeOK
<1>2. ASSUME NEW j \in Keys, updates'[j].publication # "absent"
      PROVE  updates'[j].req \in RequestSet /\ updates'[j].req.key = j
  <2>1. updates'[j] = updates[j] \/ (j = k /\ updates'[j] = row)
    BY DEF Typed, TypeOK
  <2> QED
    BY <1>2, <2>1 DEF Typed, RowsTyped
<1> QED
  BY <1>1, <1>2 DEF RowsTyped

\* Staging inserts a typed row.
LEMMA StageTyped ==
  ASSUME Typed, NEW p \in Processes, Stage(p)
  PROVE  Typed'
<1> DEFINE req == proc[p].req
           row == [publication |-> "pending", req |-> req, actor |-> proc[p].actor,
                   repos |-> proc[p].repos, expected |-> proc[p].expected, commit |-> Torn]
<1>1. ~At(p, "idle") /\ req \in RequestSet /\ proc[p] \in ProcessStates
  BY DEF Typed, ProcessesTyped, At, Stage
<1>2. req.key \in Keys /\ row \in Rows /\ row.req = req
  BY <1>1, RequestTypes, ContentTypes DEF ProcessStates, Rows
<1>3. ProcessesTyped'
  BY <1>1, GotoTyped, ReturnTyped DEF Stage, Typed, Steps, Answers
<1>4. updates' = [updates EXCEPT ![req.key] = row] \/ updates' = updates
  BY DEF Stage
<1>5. updates' \in [Keys -> Rows] /\ RowsTyped'
  <2>1. CASE updates' = updates
    BY <2>1 DEF Typed, TypeOK, RowsTyped
  <2>2. CASE updates' = [updates EXCEPT ![req.key] = row]
    BY <1>1, <1>2, <2>2, RowReplacedTyped
  <2> QED
    BY <1>4, <2>1, <2>2
<1>6. UNCHANGED <<disk, docHash, revisions, state, status, integrations, results, sourceHead,
                  edits, faults>>
  BY DEF Stage
<1> QED
  BY <1>3, <1>5, <1>6 DEF Typed, TypeOK, ProcessesTyped, disk

-----------------------------------------------------------------------------
\* A process past the staging transaction works on a row of its own request.
StagedSteps == {"resume", "reread", "publish", "recheck", "copy", "status", "add", "commit",
                "head", "finalize", "recon"}

HasRow(p) ==
  LET row == updates[proc[p].req.key]
  IN  row.publication # "absent" /\ row.req = proc[p].req

\* A process past the staging transaction has its row.
StagedRows == \A p \in Processes : proc[p].pc \in StagedSteps => HasRow(p)

\* Recording why a publication stopped keeps the types.
LEMMA ReconciliationErrorTyped ==
  ASSUME Typed, StagedRows, NEW p \in Processes, ReconciliationError(p)
  PROVE  Typed'
<1> DEFINE k == proc[p].req.key
           row == [updates[k] EXCEPT !.publication = "reconciliation_required"]
<1>1. ~At(p, "idle") /\ proc[p].req \in RequestSet /\ HasRow(p)
  BY DEF Typed, ProcessesTyped, At, ReconciliationError, StagedRows, StagedSteps
<1>2. k \in Keys /\ updates[k] \in Rows
  BY <1>1, RequestTypes DEF Typed, TypeOK
<1>3. row \in Rows /\ row.req = proc[p].req
  BY <1>1, <1>2 DEF Rows, HasRow
<1>4. updates' = updates \/ updates' = [updates EXCEPT ![k] = row]
  BY DEF ReconciliationError
<1>5. updates' \in [Keys -> Rows] /\ RowsTyped'
  <2>1. CASE updates' = updates
    BY <2>1 DEF Typed, TypeOK, RowsTyped
  <2>2. CASE updates' = [updates EXCEPT ![k] = row]
    BY <1>1, <1>2, <1>3, <2>2, RowReplacedTyped
  <2> QED
    BY <1>4, <2>1, <2>2
<1>6. ProcessesTyped'
  BY ReturnTyped DEF ReconciliationError, Typed, Answers
<1>7. UNCHANGED <<disk, docHash, revisions, state, status, integrations, results, sourceHead,
                  edits, faults>>
  BY DEF ReconciliationError
<1> QED
  BY <1>5, <1>6, <1>7 DEF Typed, TypeOK, ProcessesTyped, disk

\* The revision finalization adds to a document's history.
LEMMA FinalizeTyped ==
  ASSUME Typed, StagedRows, NEW p \in Processes, Finalize(p)
  PROVE  Typed'
<1> DEFINE req == proc[p].req
           d == req.item
           hash == proc[p].candidate
           new == StateFromUpdate(req)
           row == [updates[req.key] EXCEPT !.publication = "completed", !.commit = proc[p].commit]
<1>1. ~At(p, "idle") /\ req \in RequestSet /\ proc[p] \in ProcessStates /\ HasRow(p)
  BY DEF Typed, ProcessesTyped, At, Finalize, StagedRows, StagedSteps
<1>2. /\ req.key \in Keys /\ d \in Items /\ req.status \in WorkItemStatuses
      /\ new \in States /\ hash \in Contents /\ updates[req.key] \in Rows
      /\ proc[p].repos \in SUBSET Repositories /\ proc[p].commit \in Contents
  BY <1>1, RequestTypes DEF ProcessStates, Typed, TypeOK
<1>3. row \in Rows /\ row.req = req
  BY <1>1, <1>2 DEF Rows, HasRow
<1>4. updates' \in [Keys -> Rows] /\ RowsTyped'
  <2>1. updates' = [updates EXCEPT ![req.key] = row]
    BY DEF Finalize, CompletedRow
  <2> QED
    BY <1>1, <1>2, <1>3, <2>1, RowReplacedTyped
<1>5. ProcessesTyped'
  BY ReturnTyped DEF Finalize, Typed, Answers
<1>6. docHash' \in [Items -> Contents] /\ state' \in [Items -> States]
      /\ status' \in [Items -> WorkItemStatuses]
  BY <1>2 DEF Finalize, Typed, TypeOK
<1>7. /\ DOMAIN revisions' = Items
      /\ \A e \in Items : /\ DOMAIN revisions'[e] \subseteq Nat
                          /\ revisions'[e] \in [DOMAIN revisions'[e] -> Contents]
  <2> DEFINE longer == [n \in DOMAIN revisions[d] \cup {new.documentRevision} |->
                          IF n = new.documentRevision THEN hash ELSE revisions[d][n]]
  <2>1. revisions' = [revisions EXCEPT ![d] = longer]
    BY DEF Finalize
  <2>2. longer \in [DOMAIN longer -> Contents] /\ DOMAIN longer \subseteq Nat
    BY <1>2 DEF Typed, TypeOK, States
  <2>3. \A e \in Items : revisions'[e] = IF e = d THEN longer ELSE revisions[e]
    BY <2>1 DEF Typed, TypeOK
  <2>4. DOMAIN revisions' = Items
    BY <2>1 DEF Typed, TypeOK
  <2> QED
    BY <2>2, <2>3, <2>4 DEF Typed, TypeOK
<1>8. integrations' \in [Items -> [Repositories -> [status : IntegrationStatuses, head : Nat]]]
  <2> DEFINE queued == QueueReview(integrations[d], sourceHead[d], proc[p].repos)
  <2>1. /\ integrations[d] \in [Repositories -> [status : IntegrationStatuses, head : Nat]]
        /\ sourceHead[d] \in [Repositories -> Nat]
    BY <1>2 DEF Typed, TypeOK
  <2>2. queued \in [Repositories -> [status : IntegrationStatuses, head : Nat]]
    BY <2>1 DEF QueueReview, QueuedRow, IntegrationStatuses
  <2>3. integrations' = IF proc[p].req.status = "review"
                          THEN [integrations EXCEPT ![d] = queued] ELSE integrations
    BY Zenon DEF Finalize
  <2> HIDE DEF queued
  <2> QED
    BY <2>2, <2>3 DEF Typed, TypeOK
<1>9. results' \in [Items -> SUBSET Repositories]
  <2> DEFINE kept == ResultsKept(results[d], integrations[d], sourceHead[d], proc[p].repos)
  <2>1. results \in [Items -> SUBSET Repositories] /\ kept \in SUBSET Repositories
    BY <1>2 DEF Typed, TypeOK, ResultsKept
  <2>2. results' = IF proc[p].req.status = "review"
                     THEN [results EXCEPT ![d] = kept] ELSE results
    BY Zenon DEF Finalize
  <2> HIDE DEF kept
  <2> QED
    BY <2>1, <2>2
<1>10. UNCHANGED <<disk, sourceHead, edits, faults>>
  BY DEF Finalize
<1> QED
  BY <1>4, <1>5, <1>6, <1>7, <1>8, <1>9, <1>10 DEF Typed, TypeOK, ProcessesTyped, disk

\* So do the edits, commits, resets and merges made outside the service.
LEMMA EnvironmentTyped ==
  ASSUME Typed, Environment
  PROVE  Typed'
<1>1. ASSUME NEW p \in Processes, Fault(p) \/ Crash(p)
      PROVE  Typed'
  <2> DEFINE d == proc[p].req.item
             torn == [file EXCEPT ![d] = Torn]
  <2>1. ~At(p, "idle") /\ proc[p].req \in RequestSet
    BY <1>1 DEF Typed, ProcessesTyped, Fault, Crash
  <2>2. d \in Items
    BY <2>1, RequestTypes
  <2>3. file \in [Items -> Contents] /\ torn \in [Items -> Contents]
    BY <2>2, ContentTypes DEF Typed, TypeOK
  <2>4. file' = file \/ file' = torn
    BY <1>1 DEF Fault, Crash
  <2>5. ProcessesTyped'
    BY <1>1, <2>1, GotoTyped, ReturnTyped DEF Fault, Crash, Typed, Steps, Answers
  <2>6. /\ UNCHANGED database /\ faults' = faults + 1 /\ faults < MaxFaults
        /\ UNCHANGED <<index, tree, edits>>
    BY <1>1 DEF Fault, Crash
  <2>7. /\ faults' \in 0..MaxFaults /\ edits' \in 0..MaxEdits
        /\ index' \in [Items -> Contents] /\ tree' \in [Items -> Contents]
    BY <2>6, BoundsAssumption DEF Typed, TypeOK
  <2> QED
    BY <2>3, <2>4, <2>5, <2>6, <2>7, DiskTyped
<1>2. ASSUME NEW d \in Items, ExternalEdit(d)
      PROVE  Typed'
  <2>1. PICK canonical \in BOOLEAN :
          file' = [file EXCEPT ![d].text = edits + 1, ![d].canonical = canonical]
    BY <1>2 DEF ExternalEdit
  <2> DEFINE edited == [file[d] EXCEPT !.text = edits + 1, !.canonical = canonical]
  <2>2. file[d] \in Contents /\ edits + 1 \in 0..MaxEdits
    BY <1>2, BoundsAssumption DEF ExternalEdit, Typed, TypeOK
  <2>3. edited \in Contents
    BY <2>2 DEF Contents
  <2>4. file' \in [Items -> Contents]
    BY <2>1, <2>3 DEF Typed, TypeOK
  <2>5. UNCHANGED <<index, tree, database, proc, faults>> /\ edits' = edits + 1
    BY <1>2 DEF ExternalEdit
  <2>6. ProcessesTyped'
    BY <2>5 DEF Typed, ProcessesTyped, At
  <2> QED
    BY <2>2, <2>4, <2>5, <2>6, DiskTyped DEF Typed, TypeOK
<1>3. ASSUME NEW d \in Items, RestoreCommitted(d)
      PROVE  Typed'
  <2>1. file' \in [Items -> Contents] /\ index' \in [Items -> Contents]
    BY <1>3 DEF RestoreCommitted, Typed, TypeOK
  <2>2. /\ UNCHANGED <<tree, database, proc, faults>>
        /\ edits' \in 0..MaxEdits
    BY <1>3, BoundsAssumption DEF RestoreCommitted, Typed, TypeOK
  <2>3. ProcessesTyped'
    BY <2>2 DEF Typed, ProcessesTyped, At
  <2> QED
    BY <2>1, <2>2, <2>3, DiskTyped DEF Typed, TypeOK
<1>4. ASSUME NEW d \in Items, NEW r \in Repositories, NEW outcome \in {"integrated", "conflict"},
             Settle(d, r, outcome)
      PROVE  Typed'
  <2> DEFINE rows == [integrations[d] EXCEPT ![r].status = outcome]
  <2>1. integrations' \in [Items -> [Repositories -> [status : IntegrationStatuses, head : Nat]]]
    <3>1. integrations' = [integrations EXCEPT ![d] = rows]
      BY <1>4 DEF Settle
    <3>2. integrations[d] \in [Repositories -> [status : IntegrationStatuses, head : Nat]]
      BY DEF Typed, TypeOK
    <3>3. [integrations[d][r] EXCEPT !.status = outcome] \in [status : IntegrationStatuses, head : Nat]
      BY <3>2 DEF IntegrationStatuses
    <3>4. rows \in [Repositories -> [status : IntegrationStatuses, head : Nat]]
      BY <3>2, <3>3
    <3> QED
      BY <3>1, <3>4 DEF Typed, TypeOK
  <2>2. results' \in [Items -> SUBSET Repositories]
    BY <1>4 DEF Settle, Typed, TypeOK
  <2> QED
    BY <1>4, <2>1, <2>2 DEF Settle, Typed, TypeOK, ProcessesTyped, RowsTyped, At, disk
<1>5. ASSUME NEW d \in Items, NEW r \in Repositories, AdvanceSource(d, r)
      PROVE  Typed'
  <2>1. sourceHead' \in [Items -> [Repositories -> Nat]]
    BY <1>5 DEF AdvanceSource, Typed, TypeOK
  <2> QED
    BY <1>5, <2>1 DEF AdvanceSource, Typed, TypeOK, ProcessesTyped, RowsTyped, At, disk
<1> QED
  BY <1>1, <1>2, <1>3, <1>4, <1>5 DEF Environment

\* Every step keeps the types.
LEMMA NextTyped ==
  ASSUME Typed, StagedRows, [Next]_vars
  PROVE  Typed'
<1>1. ASSUME NEW p \in Processes, Command(p) PROVE Typed'
  BY <1>1, CommandTyped
<1>2. ASSUME NEW p \in Processes, Step(p) PROVE Typed'
  BY <1>2, ReadingStepsTyped, DiskStepsTyped, StageTyped, ReconciliationErrorTyped,
     FinalizeTyped DEF Step
<1>3. CASE Environment
  BY <1>3, EnvironmentTyped
<1>4. CASE UNCHANGED vars
  BY <1>4 DEF vars, Typed, TypeOK, ProcessesTyped, RowsTyped, At
<1> QED
  BY <1>1, <1>2, <1>3, <1>4 DEF Next

\* A row that exists stays, and stays the row of its request.
RowsKept ==
  \A k \in Keys : updates[k].publication # "absent" =>
    updates'[k].publication # "absent" /\ updates'[k].req = updates[k].req

\* The three transactions that write a row, and everything else.
LEMMA UpdatesWritten ==
  ASSUME [Next]_vars, updates' # updates
  PROVE  \E p \in Processes : Stage(p) \/ ReconciliationError(p) \/ Finalize(p)
<1>1. ASSUME NEW p \in Processes, Command(p) PROVE UNCHANGED updates
  BY <1>1 DEF Command, Submit, StartIntegration, Reconcile, Reading, database
<1>2. ASSUME NEW p \in Processes, Step(p), ~Stage(p), ~ReconciliationError(p), ~Finalize(p)
      PROVE  UNCHANGED updates
  BY <1>2 DEF Step, Lookup, Context, Verify, RenderStep, Resume, Reread, Publish, Recheck,
              Copy, Status, Add, Commit, Head, FinalizeAgain, Reading, database
<1>3. ASSUME Environment PROVE UNCHANGED updates
  BY <1>3 DEF Environment, Fault, Crash, ExternalEdit, RestoreCommitted, Settle, AdvanceSource,
              database
<1>4. ASSUME UNCHANGED vars PROVE UNCHANGED updates
  BY <1>4 DEF vars
<1> QED
  BY <1>1, <1>2, <1>3, <1>4 DEF Next

\* A row that was staged stays, for the same request.
LEMMA NextKeepsRows ==
  ASSUME Typed, StagedRows, [Next]_vars
  PROVE  RowsKept
<1>1. CASE updates' = updates
  BY <1>1 DEF RowsKept
<1>2. ASSUME NEW p \in Processes, Stage(p) PROVE RowsKept
  BY <1>2 DEF Stage, RowsKept, Typed, TypeOK
<1>3. ASSUME NEW p \in Processes, ReconciliationError(p) PROVE RowsKept
  BY <1>3 DEF ReconciliationError, RowsKept, Typed, TypeOK
<1>4. ASSUME NEW p \in Processes, Finalize(p) PROVE RowsKept
  BY <1>4 DEF Finalize, CompletedRow, RowsKept, Typed, TypeOK
<1> QED
  BY <1>1, <1>2, <1>3, <1>4, UpdatesWritten

\* Only the process that takes a step changes its own entry.
LEMMA OthersUnchanged ==
  ASSUME Typed, NEW p \in Processes, Command(p) \/ Step(p) \/ Fault(p) \/ Crash(p)
  PROVE  \A q \in Processes : q # p => proc'[q] = proc[q]
<1>1. CASE Command(p)
  BY <1>1 DEF Command, Submit, StartIntegration, Reconcile, Return, Typed, TypeOK
<1>2. CASE Step(p)
  <2>1. CASE Lookup(p) \/ Context(p) \/ Verify(p) \/ RenderStep(p) \/ Stage(p) \/ Resume(p)
             \/ Reread(p)
    BY <2>1 DEF Lookup, Context, Verify, RenderStep, Stage, Resume, Reread, Goto, Return,
                Typed, TypeOK
  <2>2. CASE Publish(p) \/ Recheck(p) \/ Copy(p) \/ Status(p) \/ Add(p) \/ Commit(p) \/ Head(p)
    BY <2>2 DEF Publish, Recheck, Copy, Status, Add, Commit, Head, Goto, Typed, TypeOK
  <2>3. CASE Finalize(p) \/ FinalizeAgain(p) \/ ReconciliationError(p)
    BY <2>3 DEF Finalize, FinalizeAgain, ReconciliationError, Goto, Return, Typed, TypeOK
  <2> QED
    BY <1>2, <2>1, <2>2, <2>3 DEF Step
<1>3. CASE Fault(p) \/ Crash(p)
  BY <1>3 DEF Fault, Crash, Goto, Return, Typed, TypeOK
<1> QED
  BY <1>1, <1>2, <1>3

\* A process that answers is idle.
LEMMA AfterReturn ==
  ASSUME Typed, NEW p \in Processes, NEW answer, Return(p, answer)
  PROVE  proc'[p].pc = "idle"
BY DEF Return, Idle, Typed, TypeOK

\* A process that goes on keeps its request.
LEMMA AfterGoto ==
  ASSUME Typed, NEW p \in Processes, NEW pc, Goto(p, pc)
  PROVE  proc'[p].pc = pc /\ proc'[p].req = proc[p].req
<1>1. proc[p] \in ProcessStates
  BY DEF Typed, TypeOK
<1> QED
  BY <1>1 DEF Goto, Typed, TypeOK, ProcessStates

\* A process gets past the staging transaction by staging its row, by finding it
\* or by being asked to reconcile it, and keeps its request.
LEMMA EntersStaged ==
  ASSUME Typed, NEW p \in Processes, Command(p) \/ Step(p) \/ Fault(p) \/ Crash(p),
         proc'[p].pc \in StagedSteps
  PROVE  \/ proc[p].pc \in StagedSteps /\ proc'[p].req = proc[p].req
         \/ /\ updates'[proc'[p].req.key].publication # "absent"
            /\ updates'[proc'[p].req.key].req = proc'[p].req
<1>0. proc[p] \in ProcessStates
  BY DEF Typed, TypeOK
<1>1. CASE Command(p)
  <2>1. ASSUME NEW k \in Keys, Reconcile(p, k)
        PROVE  /\ proc'[p].req = updates[k].req /\ updates' = updates
               /\ updates[k].publication # "absent" /\ updates[k].req.key = k
    BY <2>1 DEF Reconcile, Open, Idle, Reading, database, Typed, TypeOK, RowsTyped
  <2>2. ASSUME NEW req, NEW actor, NEW repos, Submit(p, req, actor, repos) PROVE FALSE
    <3>1. \/ proc' = [proc EXCEPT ![p] = [Idle("none") EXCEPT
                        !.pc = "lookup", !.req = req, !.actor = actor, !.repos = repos]]
          \/ Return(p, "failed")
      BY <2>2 DEF Submit
    <3>2. proc'[p].pc \in {"lookup", "idle"}
      BY <3>1, AfterReturn DEF Idle, Typed, TypeOK
    <3> QED
      BY <3>2 DEF StagedSteps
  <2>3. ASSUME NEW run, NEW d, StartIntegration(p, run, d) PROVE FALSE
    BY <2>3 DEF StartIntegration, Idle, StagedSteps, Typed, TypeOK
  <2> QED
    BY <1>1, <2>1, <2>2, <2>3 DEF Command
<1>2. CASE Lookup(p)
  <2>1. Goto(p, "resume") /\ updates' = updates
        /\ updates[proc[p].req.key].req = proc[p].req /\ Open(updates[proc[p].req.key])
    BY <1>2, AfterReturn, AfterGoto DEF Lookup, StagedSteps, Reading, database
  <2>2. proc'[p].req = proc[p].req
    BY <1>0, <2>1 DEF Goto, Typed, TypeOK, ProcessStates
  <2> QED
    BY <2>1, <2>2 DEF Open
<1>3. CASE Stage(p)
  <2> DEFINE req == proc[p].req
  <2>1. /\ Goto(p, "publish")
        /\ updates' = [updates EXCEPT ![req.key] =
                         [publication |-> "pending", req |-> req, actor |-> proc[p].actor,
                          repos |-> proc[p].repos, expected |-> proc[p].expected, commit |-> Torn]]
    BY <1>3 DEF Stage, Return, Idle, StagedSteps, Typed, TypeOK
  <2>2. proc'[p].req = req
    BY <1>0, <2>1 DEF Goto, Typed, TypeOK, ProcessStates
  <2>3. req.key \in Keys
    BY <1>3, RequestTypes DEF Stage, At, Typed, ProcessesTyped
  <2> QED
    BY <2>1, <2>2, <2>3 DEF Typed, TypeOK
<1>4. CASE Context(p) \/ Verify(p) \/ RenderStep(p)
  <2>1. proc'[p].pc \in {"verify", "render", "stage", "idle"}
    <3>1. CASE Context(p)
      <4>1. CASE Return(p, "failed")
        BY <4>1, AfterReturn
      <4>2. CASE ~Return(p, "failed")
        BY <1>0, <3>1, <4>2 DEF Context, Typed, TypeOK, ProcessStates
      <4> QED
        BY <4>1, <4>2
    <3>2. CASE Verify(p)
      BY <3>2, AfterReturn, AfterGoto DEF Verify
    <3>3. CASE RenderStep(p)
      <4>1. CASE Return(p, "failed")
        BY <4>1, AfterReturn
      <4>2. CASE ~Return(p, "failed")
        BY <1>0, <3>3, <4>2 DEF RenderStep, Typed, TypeOK, ProcessStates
      <4> QED
        BY <4>1, <4>2
    <3> QED
      BY <1>4, <3>1, <3>2, <3>3
  <2> QED
    BY <2>1 DEF StagedSteps
<1>5. CASE Resume(p) \/ Reread(p)
  <2>1. ~Return(p, "failed")
    BY AfterReturn DEF StagedSteps
  <2>2. proc'[p].req = proc[p].req
    <3> DEFINE row == updates[proc[p].req.key]
               resumed == [proc[p] EXCEPT !.pc = "reread", !.actor = row.actor,
                                          !.repos = row.repos, !.expected = row.expected]
               reread == [proc[p] EXCEPT !.pc = "publish",
                            !.candidate = Render(file[proc[p].req.item], proc[p].req)]
    <3>1. proc' = [proc EXCEPT ![p] = resumed] \/ proc' = [proc EXCEPT ![p] = reread]
      BY <1>5, <2>1 DEF Resume, Reread
    <3>2. resumed.req = proc[p].req /\ reread.req = proc[p].req
      BY <1>0 DEF ProcessStates
    <3>3. proc'[p] = resumed \/ proc'[p] = reread
      BY <3>1 DEF Typed, TypeOK
    <3> QED
      BY <3>2, <3>3
  <2> QED
    BY <1>5, <2>2 DEF Resume, Reread, At, StagedSteps
<1>6. CASE Publish(p) \/ Recheck(p) \/ Copy(p) \/ Status(p) \/ Add(p) \/ Commit(p) \/ Head(p)
  BY <1>0, <1>6 DEF Publish, Recheck, Copy, Status, Add, Commit, Head, Goto, At, StagedSteps,
                    Typed, TypeOK, ProcessStates
<1>7. CASE Finalize(p) \/ FinalizeAgain(p) \/ ReconciliationError(p)
  BY <1>0, <1>7 DEF Finalize, FinalizeAgain, ReconciliationError, Goto, Return, Idle, At,
                    StagedSteps, Typed, TypeOK, ProcessStates
<1>8. CASE Fault(p)
  BY <1>0, <1>8 DEF Fault, Goto, Return, Idle, At, StagedSteps, Typed, TypeOK, ProcessStates
<1>9. CASE Crash(p)
  BY <1>9 DEF Crash, Return, Idle, StagedSteps, Typed, TypeOK
<1> QED
  BY <1>1, <1>2, <1>3, <1>4, <1>5, <1>6, <1>7, <1>8, <1>9 DEF Step

\* A process past the staging transaction has its row, after every step.
LEMMA NextStaged ==
  ASSUME Typed, StagedRows, [Next]_vars
  PROVE  StagedRows'
<1>0. RowsKept
  BY NextKeepsRows
<1>1. ASSUME NEW q \in Processes, proc[q].pc \in StagedSteps, proc'[q].req = proc[q].req
      PROVE  HasRow(q)'
  <2>1. proc[q].req.key \in Keys
    BY <1>1, RequestTypes DEF Typed, ProcessesTyped, At, StagedSteps
  <2> QED
    BY <1>0, <1>1, <2>1 DEF StagedRows, HasRow, RowsKept
<1>2. ASSUME NEW p \in Processes, Command(p) \/ Step(p) \/ Fault(p) \/ Crash(p),
             NEW q \in Processes, proc'[q].pc \in StagedSteps
      PROVE  HasRow(q)'
  <2>1. CASE q = p
    BY <1>1, <1>2, <2>1, EntersStaged DEF HasRow
  <2>2. CASE q # p
    <3>1. proc'[q] = proc[q]
      BY <1>2, <2>2, OthersUnchanged
    <3> QED
      BY <1>1, <1>2, <3>1
  <2> QED
    BY <2>1, <2>2
<1>3. ASSUME proc' = proc PROVE StagedRows'
  BY <1>1, <1>3 DEF StagedRows
<1>4. \/ \E p \in Processes : Command(p) \/ Step(p) \/ Fault(p) \/ Crash(p)
      \/ proc' = proc
  BY DEF Next, Environment, ExternalEdit, RestoreCommitted, Settle, AdvanceSource, vars
<1> QED
  BY <1>2, <1>3, <1>4 DEF StagedRows

\* No process is past it initially.
LEMMA InitStaged == Init => StagedRows
BY DEF Init, StagedRows, StagedSteps, Idle

\* The types and the staged rows are inductive together.
LEMMA TypedInvariant == Spec => [](Typed /\ StagedRows)
<1>1. Init => Typed /\ StagedRows
  BY InitTyped, InitStaged
<1>2. Typed /\ StagedRows /\ [Next]_vars => (Typed /\ StagedRows)'
  BY NextTyped, NextStaged
<1> QED
  BY <1>1, <1>2, PTL DEF Spec

\* Every variable keeps its type in every reachable state.
THEOREM TypeCorrect == Spec => []TypeOK
<1>1. Typed => TypeOK
  BY DEF Typed
<1> QED
  BY <1>1, TypedInvariant, PTL

-----------------------------------------------------------------------------
(* The ledger: history, state, status and document hash of an item.        *)

\* Revisions are numbered without gaps and the newest is what the item shows.
Parity(d) ==
  LET n == state[d].documentRevision
  IN  /\ n \in Nat \ {0}
      /\ DOMAIN revisions[d] = 1..n
      /\ docHash[d] = revisions[d][n]
      /\ docHash[d].state = state[d]
      /\ docHash[d].status = status[d]

RenderedSteps == {"stage", "publish", "recheck", "copy", "status", "add", "commit", "head",
                  "finalize"}

\* What a process publishes carries the state its request asks for.
Rendered(p) ==
  proc[p].pc \in RenderedSteps =>
    /\ proc[p].candidate.state = StateFromUpdate(proc[p].req)
    /\ proc[p].candidate.status = proc[p].req.status

\* A row that is integrated has a result, and one that has a result was integrated.
RowsHaveResults ==
  \A d \in Items, r \in Repositories :
    /\ integrations[d][r].status = "integrated" => r \in results[d]
    /\ r \in results[d] => integrations[d][r].status \in {"integrated", "conflict"}

\* What is needed of the history, next to what the runs check, to take a step.
LedgerInv ==
  /\ \A d \in Items : Parity(d)
  /\ \A p \in Processes : Rendered(p)
  /\ RowsHaveResults
  /\ StagedStillValid
  /\ DoneIntegrated

\* The inductive invariant.
IInv == Typed /\ StagedRows /\ LedgerInv

\* The largest element of 1..n.
LEMMA MaxOfInterval ==
  ASSUME NEW n \in Nat \ {0}
  PROVE  Max(1..n) = n
<1>1. \E x \in 1..n : \A y \in 1..n : x >= y
  BY n \in 1..n
<1>2. Max(1..n) \in 1..n /\ \A y \in 1..n : Max(1..n) >= y
  BY <1>1 DEF Max
<1> QED
  BY <1>2

\* With parity, the newest revision of an item is the number in its history.
LEMMA CurrentRevision ==
  ASSUME NEW d, Parity(d)
  PROVE  DocumentRevision(d) = state[d].documentRevision
<1>1. DOMAIN revisions[d] # {}
  BY DEF Parity
<1> QED
  BY <1>1, MaxOfInterval DEF Parity, DocumentRevision

\* The steps that write the database.
LEMMA DatabaseWritten ==
  ASSUME [Next]_vars, database' # database
  PROVE  \/ \E p \in Processes : Stage(p) \/ ReconciliationError(p) \/ Finalize(p)
         \/ \E d \in Items, r \in Repositories :
              AdvanceSource(d, r) \/ \E outcome \in {"integrated", "conflict"} : Settle(d, r, outcome)
<1>1. ASSUME NEW p \in Processes, Command(p) PROVE UNCHANGED database
  BY <1>1 DEF Command, Submit, StartIntegration, Reconcile, Reading
<1>2. ASSUME NEW p \in Processes, Step(p), ~Stage(p), ~ReconciliationError(p), ~Finalize(p)
      PROVE  UNCHANGED database
  BY <1>2 DEF Step, Lookup, Context, Verify, RenderStep, Resume, Reread, Publish, Recheck,
              Copy, Status, Add, Commit, Head, FinalizeAgain, Reading
<1>3. ASSUME \/ \E p \in Processes : Fault(p) \/ Crash(p)
             \/ \E d \in Items : ExternalEdit(d) \/ RestoreCommitted(d)
      PROVE  UNCHANGED database
  BY <1>3 DEF Fault, Crash, ExternalEdit, RestoreCommitted
<1>4. ASSUME UNCHANGED vars PROVE UNCHANGED database
  BY <1>4 DEF vars, database
<1> QED
  BY <1>1, <1>2, <1>3, <1>4 DEF Next, Environment

\* An update that is finalized was staged for the revision the item still has, so
\* what it was validated against holds.
LEMMA FinalizeIsCurrent ==
  ASSUME IInv, NEW p \in Processes, Finalize(p)
  PROVE  LET req == proc[p].req
             d == req.item
         IN  /\ req \in RequestSet /\ d \in Items /\ HasRow(p) /\ req.key \in Keys
             /\ req.documentRevision = state[d].documentRevision
             /\ req.revision = state[d].revision
             /\ StillPermitted(updates[req.key].actor, req)
             /\ proc[p].candidate.state = StateFromUpdate(req)
             /\ proc[p].candidate.status = req.status
<1> DEFINE req == proc[p].req
           d == req.item
           k == req.key
<1>1. req \in RequestSet /\ HasRow(p)
  BY DEF Finalize, At, IInv, Typed, ProcessesTyped, StagedRows, StagedSteps
<1>2. d \in Items /\ k \in Keys /\ req.documentRevision \in Nat
      /\ StateFromUpdate(req).documentRevision = req.documentRevision + 1
  BY <1>1, RequestTypes DEF StateFromUpdate
<1>3. updates[k] \in Rows
  BY <1>2 DEF IInv, Typed, TypeOK
<1>4. Open(updates[k])
  BY <1>1, <1>3 DEF HasRow, Rows, Open, Finalize
<1>5. k \in OpenUpdates(d)
  BY <1>1, <1>2, <1>4 DEF OpenUpdates, HasRow
<1>6. /\ req.documentRevision <= state[d].documentRevision
      /\ req.documentRevision = state[d].documentRevision =>
           req.revision = state[d].revision /\ StillPermitted(updates[k].actor, req)
  BY <1>1, <1>2, <1>5 DEF IInv, LedgerInv, StagedStillValid, StillValid, HasRow
<1>7. req.documentRevision + 1 \notin 1..state[d].documentRevision
  BY <1>2 DEF Finalize, RevisionConflict, IInv, LedgerInv, Parity
<1>8. state[d].documentRevision \in Nat \ {0}
  BY <1>2 DEF IInv, LedgerInv, Parity
<1>9. req.documentRevision = state[d].documentRevision
  BY <1>2, <1>6, <1>7, <1>8
<1>10. Rendered(p) /\ proc[p].pc = "finalize"
  BY DEF IInv, LedgerInv, Finalize, At
<1> QED
  BY <1>1, <1>2, <1>6, <1>9, <1>10 DEF Rendered, RenderedSteps

\* The initial state satisfies the invariant of the ledger.
LEMMA InitLedger == Init => LedgerInv
<1> SUFFICES ASSUME Init PROVE LedgerInv
  OBVIOUS
<1>1. \A d \in Items : Parity(d)
  BY DEF Init, Parity, InitialContent, NoState
<1>2. \A p \in Processes : Rendered(p)
  BY DEF Init, Rendered, RenderedSteps, Idle
<1>3. StagedStillValid
  BY DEF Init, StagedStillValid, OpenUpdates, Open, NoRow
<1>4. DoneIntegrated
  BY DEF Init, DoneIntegrated
<1>5. RowsHaveResults
  BY DEF Init, RowsHaveResults, NoIntegration
<1> QED
  BY <1>1, <1>2, <1>3, <1>4, <1>5 DEF LedgerInv

\* Finalizing adds the next revision and makes the four projections its own.
LEMMA FinalizeParity ==
  ASSUME IInv, NEW p \in Processes, Finalize(p)
  PROVE  \A e \in Items : Parity(e)'
<1>0. PICK req \in RequestSet, d \in Items : req = proc[p].req /\ d = req.item
  BY FinalizeIsCurrent
<1>1. Parity(d)
  BY DEF IInv, LedgerInv
<1>2. PICK n \in Nat \ {0} : n = state[d].documentRevision
  BY <1>1 DEF Parity
<1> DEFINE new == StateFromUpdate(req)
           longer(hash) == [m \in 1..(n + 1) |-> IF m = n + 1 THEN hash ELSE revisions[d][m]]
<1>3. PICK hash : hash = proc[p].candidate /\ hash.state = new /\ hash.status = req.status
  BY <1>0, FinalizeIsCurrent
<1>4. new.documentRevision = n + 1
  BY <1>0, <1>2, FinalizeIsCurrent DEF StateFromUpdate
<1>5. 1..n \cup {n + 1} = 1..(n + 1)
  OBVIOUS
<1>6. /\ docHash' = [docHash EXCEPT ![d] = hash] /\ state' = [state EXCEPT ![d] = new]
      /\ status' = [status EXCEPT ![d] = req.status]
      /\ revisions' = [revisions EXCEPT ![d] =
                         [m \in DOMAIN @ \cup {n + 1} |-> IF m = n + 1 THEN hash ELSE @[m]]]
  BY <1>0, <1>3, <1>4 DEF Finalize
<1>7. revisions' = [revisions EXCEPT ![d] = longer(hash)]
  BY <1>1, <1>2, <1>5, <1>6 DEF Parity
<1>8. docHash'[d] = hash /\ state'[d] = new /\ status'[d] = req.status
      /\ revisions'[d] = longer(hash)
  BY <1>6, <1>7 DEF IInv, Typed, TypeOK
<1>9. Parity(d)'
  <2>1. state'[d].documentRevision = n + 1 /\ DOMAIN revisions'[d] = 1..(n + 1)
    BY <1>4, <1>8
  <2>2. revisions'[d][n + 1] = hash
    BY <1>8
  <2> QED
    BY <1>3, <1>8, <2>1, <2>2 DEF Parity
<1>10. ASSUME NEW e \in Items, e # d PROVE Parity(e)'
  <2>1. UNCHANGED <<docHash[e], state[e], status[e], revisions[e]>>
    BY <1>6, <1>10 DEF IInv, Typed, TypeOK
  <2>2. Parity(e)
    BY DEF IInv, LedgerInv
  <2> QED
    BY <2>1, <2>2 DEF Parity
<1> QED
  BY <1>9, <1>10

\* Of the open updates of the item, none is for the revision that becomes current.
LEMMA FinalizeStillValid ==
  ASSUME IInv, NEW p \in Processes, Finalize(p)
  PROVE  StagedStillValid'
<1>0. PICK req \in RequestSet, d \in Items : req = proc[p].req /\ d = req.item
  BY FinalizeIsCurrent
<1>1. req.key \in Keys /\ updates[req.key] \in Rows
  BY <1>0, FinalizeIsCurrent DEF IInv, Typed, TypeOK
<1>2. /\ state' = [state EXCEPT ![d] = StateFromUpdate(req)]
      /\ status' = [status EXCEPT ![d] = req.status]
      /\ updates' = [updates EXCEPT ![req.key].publication = "completed",
                                    ![req.key].commit = proc[p].commit]
      /\ \A e \in Items : e # d => results'[e] = results[e]
  BY <1>0 DEF Finalize, CompletedRow, IInv, Typed, TypeOK
<1>3. updates'[req.key].publication = "completed"
  BY <1>1, <1>2 DEF IInv, Typed, TypeOK, Rows
<1>4. state'[d].documentRevision = state[d].documentRevision + 1
      /\ state[d].documentRevision \in Nat
  BY <1>0, <1>2, FinalizeIsCurrent DEF StateFromUpdate, IInv, LedgerInv, Parity, Typed, TypeOK
<1>5. ASSUME NEW e \in Items, NEW k \in Keys, (k \in OpenUpdates(e))'
      PROVE  StillValid(e, k)'
  <2>1. k # req.key /\ updates'[k] = updates[k]
    BY <1>1, <1>2, <1>3, <1>5 DEF OpenUpdates, Open, IInv, Typed, TypeOK
  <2>2. k \in OpenUpdates(e)
    BY <1>5, <2>1 DEF OpenUpdates
  <2>3. StillValid(e, k)
    BY <2>2 DEF IInv, LedgerInv, StagedStillValid
  <2>4. updates[k].req.documentRevision \in Nat /\ updates[k].req.item = e
    BY <2>2, RequestTypes DEF OpenUpdates, Open, IInv, Typed, RowsTyped
  <2>5. CASE e = d
    BY <1>4, <2>1, <2>3, <2>4, <2>5 DEF StillValid
  <2>6. CASE e # d
    <3>1. state'[e] = state[e] /\ status'[e] = status[e] /\ results'[e] = results[e]
      BY <1>2, <2>6 DEF IInv, Typed, TypeOK
    <3> QED
      BY <2>1, <2>3, <2>4, <3>1 DEF StillValid, StillPermitted, ItemMerged
  <2> QED
    BY <2>5, <2>6
<1> QED
  BY <1>5 DEF StagedStillValid, OpenUpdates

\* Only an integration writes done, and it was ready when it was staged.
LEMMA FinalizeDone ==
  ASSUME IInv, NEW p \in Processes, Finalize(p)
  PROVE  DoneIntegrated'
<1>0. PICK req \in RequestSet, d \in Items : req = proc[p].req /\ d = req.item
  BY FinalizeIsCurrent
<1>1. StillPermitted(updates[req.key].actor, req)
  BY <1>0, FinalizeIsCurrent
<1>2. /\ status' = [status EXCEPT ![d] = req.status]
      /\ req.status # "review" => UNCHANGED <<integrations, results>>
      /\ \A e \in Items : e # d => integrations'[e] = integrations[e] /\ results'[e] = results[e]
  BY <1>0 DEF Finalize, IInv, Typed, TypeOK
<1>3. ASSUME NEW e \in Items, status'[e] = "done"
      PROVE  /\ ItemMerged(e)'
             /\ \A r \in Repositories : integrations'[e][r].status \in {"integrated", "conflict"}
  <2>1. CASE e = d
    <3>1. req.status = "done"
      BY <1>2, <1>3, <2>1 DEF IInv, Typed, TypeOK
    <3>2. ItemMerged(d)
      BY <1>0, <1>1, <3>1 DEF StillPermitted, ValidateActorTransition, ValidateTransition
    <3>3. \A r \in Repositories : integrations[d][r].status \in {"integrated", "conflict"}
      BY <3>2 DEF ItemMerged, IInv, LedgerInv, RowsHaveResults
    <3> QED
      BY <1>2, <2>1, <3>1, <3>2, <3>3 DEF ItemMerged
  <2>2. CASE e # d
    BY <1>2, <1>3, <2>2 DEF IInv, LedgerInv, DoneIntegrated, ItemMerged, Typed, TypeOK
  <2> QED
    BY <2>1, <2>2
<1> QED
  BY <1>3 DEF DoneIntegrated

\* A review clears the results of the rows it resets, and of no other.
LEMMA FinalizeResults ==
  ASSUME IInv, NEW p \in Processes, Finalize(p)
  PROVE  RowsHaveResults'
<1>0. PICK req \in RequestSet, d \in Items : req = proc[p].req /\ d = req.item
  BY FinalizeIsCurrent
<1> DEFINE queued == QueueReview(integrations[d], sourceHead[d], proc[p].repos)
           kept == ResultsKept(results[d], integrations[d], sourceHead[d], proc[p].repos)
<1>1. CASE req.status = "review"
  <2>1. /\ integrations' = [integrations EXCEPT ![d] = queued]
        /\ results' = [results EXCEPT ![d] = kept]
    BY <1>0, <1>1, Zenon DEF Finalize
  <2>2. ASSUME NEW r \in Repositories
        PROVE  /\ queued[r].status = "integrated" => r \in kept
               /\ r \in kept => queued[r].status \in {"integrated", "conflict"}
    <3>1. /\ integrations[d][r].status = "integrated" => r \in results[d]
          /\ r \in results[d] => integrations[d][r].status \in {"integrated", "conflict"}
      BY DEF IInv, LedgerInv, RowsHaveResults
    <3>2. queued[r] = IF r \in proc[p].repos
                        THEN QueuedRow(integrations[d][r], sourceHead[d][r])
                        ELSE integrations[d][r]
      BY DEF QueueReview, IInv, Typed, TypeOK
    <3>3. r \in kept <=> /\ r \in results[d]
                         /\ r \in proc[p].repos =>
                              QueuedRow(integrations[d][r], sourceHead[d][r]) = integrations[d][r]
      BY DEF ResultsKept
    <3> QED
      BY <3>1, <3>2, <3>3 DEF QueuedRow
  <2> HIDE DEF queued, kept
  <2>3. ASSUME NEW e \in Items
        PROVE  /\ integrations'[e] = IF e = d THEN queued ELSE integrations[e]
               /\ results'[e] = IF e = d THEN kept ELSE results[e]
    BY <2>1 DEF IInv, Typed, TypeOK
  <2> QED
    BY <2>2, <2>3 DEF RowsHaveResults, IInv, LedgerInv
<1>2. CASE req.status # "review"
  <2>1. UNCHANGED <<integrations, results>>
    BY <1>0, <1>2 DEF Finalize
  <2> QED
    BY <2>1 DEF RowsHaveResults, IInv, LedgerInv
<1> QED
  BY <1>1, <1>2

-----------------------------------------------------------------------------
\* The steps that leave the item's projections alone.
LEMMA LedgerUnchanged ==
  ASSUME LedgerInv, UNCHANGED database
  PROVE  (\A d \in Items : Parity(d)') /\ RowsHaveResults'
         /\ StagedStillValid' /\ DoneIntegrated'
<1>1. \A d \in Items : Parity(d)'
  BY DEF LedgerInv, Parity, database
<1>2. StagedStillValid'
  BY DEF LedgerInv, StagedStillValid, StillValid, OpenUpdates, StillPermitted, ItemMerged, database
<1>3. DoneIntegrated' /\ RowsHaveResults'
  BY DEF LedgerInv, DoneIntegrated, RowsHaveResults, ItemMerged, database
<1> QED
  BY <1>1, <1>2, <1>3

\* An item whose rows are all integrated has all their results, so whoever may move it
\* on account of the rows may do so on account of the results.
LEMMA ReadyIsMerged ==
  ASSUME IInv, NEW d \in Items, NEW actor, NEW from, NEW to, NEW terminal,
         ValidateActorTransition(actor, from, to, terminal, ItemReady(d))
  PROVE  ValidateActorTransition(actor, from, to, terminal, ItemMerged(d))
<1>1. DOMAIN integrations[d] = Repositories /\ results[d] \in SUBSET Repositories
  BY DEF IInv, Typed, TypeOK
<1>2. ItemReady(d) => ItemMerged(d)
  BY <1>1 DEF ItemReady, ItemMerged, IntegrationReady, IInv, LedgerInv, RowsHaveResults
<1> QED
  BY <1>2 DEF ValidateActorTransition

\* A row is staged only when it is valid.
LEMMA StageLedger ==
  ASSUME IInv, NEW p \in Processes, Stage(p)
  PROVE  (\A d \in Items : Parity(d)') /\ RowsHaveResults'
         /\ StagedStillValid' /\ DoneIntegrated'
<1>0. PICK req \in RequestSet : req = proc[p].req
  BY DEF IInv, Typed, ProcessesTyped, At, Stage
<1>1. UNCHANGED <<docHash, revisions, state, status, integrations, results>>
  BY DEF Stage
<1>2. (\A d \in Items : Parity(d)') /\ RowsHaveResults' /\ DoneIntegrated'
  BY <1>1 DEF IInv, LedgerInv, Parity, RowsHaveResults, DoneIntegrated, ItemMerged
<1>3. ASSUME NEW d \in Items, NEW k \in Keys, (k \in OpenUpdates(d))'
      PROVE  StillValid(d, k)'
  <2>1. CASE updates'[k] = updates[k]
    <3>1. StillValid(d, k)
      BY <1>3, <2>1 DEF OpenUpdates, IInv, LedgerInv, StagedStillValid
    <3> QED
      BY <1>1, <2>1, <3>1 DEF StillValid, StillPermitted, ItemMerged
  <2>2. CASE updates'[k] # updates[k]
    <3>1. /\ ValidateRevisions(req) /\ ValidateActor(proc[p].actor, req)
          /\ k = req.key
          /\ updates'[k] = [publication |-> "pending", req |-> req, actor |-> proc[p].actor,
                            repos |-> proc[p].repos, expected |-> proc[p].expected, commit |-> Torn]
      BY <1>0, <2>2 DEF Stage, IInv, Typed, TypeOK
    <3>2. updates'[k].req = req /\ updates'[k].actor = proc[p].actor /\ req.item = d
      BY <1>3, <3>1 DEF OpenUpdates
    <3>3. DocumentRevision(d) = state[d].documentRevision /\ state[d].documentRevision \in Nat
      BY CurrentRevision DEF IInv, LedgerInv, Parity
    <3>4. StillPermitted(proc[p].actor, req)
      BY <3>1, <3>2, ReadyIsMerged DEF ValidateActor, StillPermitted
    <3> QED
      BY <1>1, <3>1, <3>2, <3>3, <3>4 DEF StillValid, ValidateRevisions, StillPermitted, ItemMerged
  <2> QED
    BY <2>1, <2>2
<1>4. StagedStillValid'
  BY <1>3 DEF StagedStillValid, OpenUpdates
<1> QED
  BY <1>2, <1>4

\* Recording why a publication stopped completes nothing and moves no item.
LEMMA ReconciliationErrorLedger ==
  ASSUME IInv, NEW p \in Processes, ReconciliationError(p)
  PROVE  (\A d \in Items : Parity(d)') /\ RowsHaveResults'
         /\ StagedStillValid' /\ DoneIntegrated'
<1>1. UNCHANGED <<docHash, revisions, state, status, integrations, results>>
  BY DEF ReconciliationError
<1>2. (\A d \in Items : Parity(d)') /\ RowsHaveResults' /\ DoneIntegrated'
  BY <1>1 DEF IInv, LedgerInv, Parity, RowsHaveResults, DoneIntegrated, ItemMerged
<1>3. PICK key \in Keys : key = proc[p].req.key
  BY RequestTypes DEF IInv, Typed, ProcessesTyped, At, ReconciliationError
<1>4. HasRow(p)
  BY DEF IInv, StagedRows, StagedSteps, At, ReconciliationError
<1>5. ASSUME NEW k \in Keys
      PROVE  /\ updates'[k].req = updates[k].req /\ updates'[k].actor = updates[k].actor
             /\ Open(updates'[k]) => Open(updates[k])
  <2>1. updates[k] \in Rows
    BY DEF IInv, Typed, TypeOK
  <2>2. CASE updates'[k] = updates[k]
    BY <2>2
  <2>3. CASE updates'[k] # updates[k]
    <3>1. k = key /\ updates[k].publication # "completed"
          /\ updates'[k] = [updates[k] EXCEPT !.publication = "reconciliation_required"]
      BY <1>3, <2>3 DEF ReconciliationError, IInv, Typed, TypeOK
    <3>2. updates[k].publication # "absent"
      BY <1>3, <1>4, <3>1 DEF HasRow
    <3> QED
      BY <2>1, <3>1, <3>2 DEF Rows, Open
  <2> QED
    BY <2>2, <2>3
<1>6. ASSUME NEW d \in Items, NEW k \in Keys, (k \in OpenUpdates(d))'
      PROVE  StillValid(d, k)'
  <2>1. StillValid(d, k)
    BY <1>5, <1>6 DEF OpenUpdates, IInv, LedgerInv, StagedStillValid
  <2> QED
    BY <1>1, <1>5, <2>1 DEF StillValid, StillPermitted, ItemMerged
<1>7. StagedStillValid'
  BY <1>6 DEF StagedStillValid, OpenUpdates
<1> QED
  BY <1>2, <1>7

\* An outcome adds a result or marks a row as a conflict, and takes no result away, so a
\* done item and an integration that is being published keep what they depend on.
LEMMA SettleLedger ==
  ASSUME IInv, NEW d \in Items, NEW r \in Repositories,
         NEW outcome \in {"integrated", "conflict"}, Settle(d, r, outcome)
  PROVE  (\A e \in Items : Parity(e)') /\ RowsHaveResults'
         /\ StagedStillValid' /\ DoneIntegrated'
<1>1. UNCHANGED <<docHash, revisions, state, status, updates>>
  BY DEF Settle
<1>2. \A e \in Items : Parity(e)'
  BY <1>1 DEF IInv, LedgerInv, Parity
<1>3. /\ integrations \in [Items -> [Repositories -> [status : IntegrationStatuses, head : Nat]]]
      /\ results \in [Items -> SUBSET Repositories]
  BY DEF IInv, Typed, TypeOK
<1>4. ASSUME NEW e \in Items, NEW q \in Repositories
      PROVE  integrations'[e][q].status =
               IF e = d /\ q = r THEN outcome ELSE integrations[e][q].status
  BY <1>3 DEF Settle
<1>5. ASSUME NEW e \in Items
      PROVE  results'[e] = IF e = d /\ outcome = "integrated" THEN results[e] \cup {r} ELSE results[e]
  BY <1>3 DEF Settle
<1>6. RowsHaveResults'
  <2> SUFFICES ASSUME NEW e \in Items, NEW q \in Repositories
               PROVE  /\ integrations'[e][q].status = "integrated" => q \in results'[e]
                      /\ q \in results'[e] =>
                           integrations'[e][q].status \in {"integrated", "conflict"}
    BY DEF RowsHaveResults
  <2>1. /\ integrations[e][q].status = "integrated" => q \in results[e]
        /\ q \in results[e] => integrations[e][q].status \in {"integrated", "conflict"}
    BY DEF IInv, LedgerInv, RowsHaveResults
  <2>2. integrations'[e][q].status = IF e = d /\ q = r THEN outcome ELSE integrations[e][q].status
    BY <1>4
  <2>3. q \in results'[e] <=> q \in results[e] \/ (e = d /\ outcome = "integrated" /\ q = r)
    BY <1>5
  <2> QED
    BY <2>1, <2>2, <2>3
<1>7. \A e \in Items : ItemMerged(e) => ItemMerged(e)'
  BY <1>3, <1>5 DEF ItemMerged
<1>8. DoneIntegrated'
  BY <1>1, <1>4, <1>7 DEF IInv, LedgerInv, DoneIntegrated
<1>9. ASSUME NEW e \in Items, NEW k \in Keys, (k \in OpenUpdates(e))'
      PROVE  StillValid(e, k)'
  <2>1. StillValid(e, k) /\ updates[k].req.item = e
    BY <1>1, <1>9 DEF OpenUpdates, IInv, LedgerInv, StagedStillValid
  <2> QED
    BY <1>1, <1>7, <2>1 DEF StillValid, StillPermitted, ValidateActorTransition
<1>10. StagedStillValid'
  BY <1>9 DEF StagedStillValid, OpenUpdates
<1> QED
  BY <1>2, <1>6, <1>8, <1>10

\* A new commit on a source branch changes no row.
LEMMA AdvanceSourceLedger ==
  ASSUME IInv, NEW d \in Items, NEW r \in Repositories, AdvanceSource(d, r)
  PROVE  (\A e \in Items : Parity(e)') /\ RowsHaveResults'
         /\ StagedStillValid' /\ DoneIntegrated'
<1>1. UNCHANGED <<docHash, revisions, state, status, updates, integrations, results>>
  BY DEF AdvanceSource
<1>2. (\A e \in Items : Parity(e)') /\ RowsHaveResults' /\ DoneIntegrated'
  BY <1>1 DEF IInv, LedgerInv, Parity, RowsHaveResults, DoneIntegrated, ItemMerged
<1>3. StagedStillValid'
  BY <1>1 DEF IInv, LedgerInv, StagedStillValid, StillValid, OpenUpdates, StillPermitted,
              ItemMerged
<1> QED
  BY <1>2, <1>3

\* A process gets something to publish by rendering it, and keeps it.
LEMMA EntersRendered ==
  ASSUME Typed, NEW p \in Processes, Command(p) \/ Step(p) \/ Fault(p) \/ Crash(p),
         proc'[p].pc \in RenderedSteps
  PROVE  /\ proc'[p].req = proc[p].req
         /\ \/ proc[p].pc \in RenderedSteps /\ proc'[p].candidate = proc[p].candidate
            \/ proc'[p].candidate = Render(file[proc[p].req.item], proc[p].req)
<1>0. proc[p] \in ProcessStates /\ proc[p].pc \in Steps \cup {"idle"}
  BY DEF Typed, TypeOK, ProcessStates
<1>1. ASSUME NEW answer, Return(p, answer) PROVE FALSE
  BY <1>1, AfterReturn DEF RenderedSteps
<1>2. ASSUME NEW pc, Goto(p, pc), proc[p].pc \in RenderedSteps
      PROVE  proc'[p].req = proc[p].req /\ proc'[p].candidate = proc[p].candidate
  BY <1>0, <1>2 DEF Goto, Typed, TypeOK, ProcessStates
<1>3. ASSUME NEW pc, Goto(p, pc) PROVE pc \in RenderedSteps
  BY <1>3, AfterGoto
<1>4. CASE Command(p)
  <2>1. ASSUME NEW req, NEW actor, NEW repos, Submit(p, req, actor, repos) PROVE FALSE
    <3>1. proc' = [proc EXCEPT ![p] = [Idle("none") EXCEPT
                     !.pc = "lookup", !.req = req, !.actor = actor, !.repos = repos]]
      BY <1>1, <2>1 DEF Submit
    <3>2. proc'[p].pc = "lookup"
      BY <3>1 DEF Idle, Typed, TypeOK
    <3> QED
      BY <3>2 DEF RenderedSteps
  <2>2. ASSUME NEW run, NEW d, StartIntegration(p, run, d) PROVE FALSE
    BY <2>2 DEF StartIntegration, Idle, RenderedSteps, Typed, TypeOK
  <2>3. ASSUME NEW k, Reconcile(p, k) PROVE FALSE
    BY <2>3 DEF Reconcile, Idle, RenderedSteps, Typed, TypeOK
  <2> QED
    BY <1>4, <2>1, <2>2, <2>3 DEF Command
<1>5. CASE Lookup(p)
  BY <1>1, <1>3, <1>5 DEF Lookup, RenderedSteps
<1>6. CASE Context(p)
  <2>1. proc' = [proc EXCEPT ![p] = [proc[p] EXCEPT !.pc = "verify",
                                                    !.expected = docHash[proc[p].req.item]]]
    BY <1>1, <1>6 DEF Context
  <2>2. proc'[p].pc = "verify"
    BY <1>0, <2>1 DEF Typed, TypeOK, ProcessStates
  <2> QED
    BY <2>2 DEF RenderedSteps
<1>7. CASE Verify(p)
  BY <1>1, <1>3, <1>7 DEF Verify, RenderedSteps
<1>8. CASE RenderStep(p) \/ Reread(p)
  <2> DEFINE next(pc) == [proc[p] EXCEPT !.pc = pc,
                            !.candidate = Render(file[proc[p].req.item], proc[p].req)]
  <2>1. proc' = [proc EXCEPT ![p] = next("stage")] \/ proc' = [proc EXCEPT ![p] = next("publish")]
    BY <1>1, <1>8 DEF RenderStep, Reread
  <2>2. /\ next("stage").req = proc[p].req
        /\ next("stage").candidate = Render(file[proc[p].req.item], proc[p].req)
        /\ next("publish").req = proc[p].req
        /\ next("publish").candidate = Render(file[proc[p].req.item], proc[p].req)
    BY <1>0 DEF ProcessStates
  <2>3. proc'[p] = next("stage") \/ proc'[p] = next("publish")
    BY <2>1 DEF Typed, TypeOK
  <2> QED
    BY <2>2, <2>3
<1>9. CASE Resume(p)
  <2> DEFINE row == updates[proc[p].req.key]
  <2>1. proc' = [proc EXCEPT ![p] = [proc[p] EXCEPT !.pc = "reread", !.actor = row.actor,
                                       !.repos = row.repos, !.expected = row.expected]]
    BY <1>1, <1>9 DEF Resume
  <2>2. proc'[p].pc = "reread"
    BY <1>0, <2>1 DEF Typed, TypeOK, ProcessStates
  <2> QED
    BY <2>2 DEF RenderedSteps
<1>10. CASE Stage(p) \/ Publish(p) \/ Recheck(p) \/ Copy(p) \/ Status(p) \/ Add(p) \/ Commit(p)
  <2>1. proc[p].pc \in RenderedSteps
    BY <1>10 DEF Stage, Publish, Recheck, Copy, Status, Add, Commit, At, RenderedSteps
  <2>2. \E pc \in Steps : Goto(p, pc)
    BY <1>1, <1>10 DEF Stage, Publish, Recheck, Copy, Status, Add, Commit, Steps
  <2> QED
    BY <1>2, <2>1, <2>2
<1>11. CASE Head(p)
  <2> DEFINE next == [proc[p] EXCEPT !.pc = "finalize", !.commit = tree[proc[p].req.item]]
  <2>1. next.req = proc[p].req /\ next.candidate = proc[p].candidate
    BY <1>0 DEF ProcessStates
  <2>2. proc'[p] = next /\ proc[p].pc \in RenderedSteps
    BY <1>11 DEF Head, At, RenderedSteps, Typed, TypeOK
  <2> QED
    BY <2>1, <2>2
<1>12. CASE Finalize(p) \/ FinalizeAgain(p) \/ ReconciliationError(p)
  <2>1. Goto(p, "recon") \/ Return(p, "completed") \/ Return(p, "reconcile")
    BY <1>12 DEF Finalize, FinalizeAgain, ReconciliationError
  <2> QED
    BY <1>1, <1>3, <2>1 DEF RenderedSteps
<1>13. CASE Fault(p) \/ Crash(p)
  <2>1. Goto(p, "recon") \/ Return(p, "failed") \/ Return(p, "none")
    BY <1>13 DEF Fault, Crash
  <2> QED
    BY <1>1, <1>3, <2>1 DEF RenderedSteps
<1> QED
  BY <1>4, <1>5, <1>6, <1>7, <1>8, <1>9, <1>10, <1>11, <1>12, <1>13 DEF Step

\* What a process publishes is what its row was rendered to, after every step.
LEMMA NextRendered ==
  ASSUME IInv, [Next]_vars
  PROVE  \A q \in Processes : Rendered(q)'
<1>1. ASSUME NEW p \in Processes, Command(p) \/ Step(p) \/ Fault(p) \/ Crash(p),
             NEW q \in Processes
      PROVE  Rendered(q)'
  <2>1. CASE q = p
    <3>1. Rendered(p)
      BY DEF IInv, LedgerInv
    <3>2. \A content, req : /\ Render(content, req).state = StateFromUpdate(req)
                            /\ Render(content, req).status = req.status
      BY DEF Render
    <3> SUFFICES ASSUME proc'[p].pc \in RenderedSteps
                 PROVE  /\ proc'[p].candidate.state = StateFromUpdate(proc'[p].req)
                        /\ proc'[p].candidate.status = proc'[p].req.status
      BY <2>1 DEF Rendered, StateFromUpdate
    <3> QED
      BY <1>1, <3>1, <3>2, EntersRendered DEF IInv, Rendered
  <2>2. CASE q # p
    <3>1. proc'[q] = proc[q]
      BY <1>1, <2>2, OthersUnchanged DEF IInv
    <3> QED
      BY <3>1 DEF IInv, LedgerInv, Rendered
  <2> QED
    BY <2>1, <2>2
<1>2. ASSUME proc' = proc, NEW q \in Processes PROVE Rendered(q)'
  BY <1>2 DEF IInv, LedgerInv, Rendered
<1>3. \/ \E p \in Processes : Command(p) \/ Step(p) \/ Fault(p) \/ Crash(p)
      \/ proc' = proc
  BY DEF Next, Environment, ExternalEdit, RestoreCommitted, Settle, AdvanceSource, vars
<1> QED
  BY <1>1, <1>2, <1>3

\* Every step keeps the invariant of the ledger.
LEMMA NextLedgerInv ==
  ASSUME IInv, [Next]_vars
  PROVE  LedgerInv'
<1>1. (\A d \in Items : Parity(d)') /\ RowsHaveResults' /\ StagedStillValid' /\ DoneIntegrated'
  <2>1. CASE database' = database
    BY <2>1, LedgerUnchanged DEF IInv
  <2>2. CASE database' # database
    BY <2>2, DatabaseWritten, StageLedger, ReconciliationErrorLedger, FinalizeParity,
       FinalizeStillValid, FinalizeDone, FinalizeResults, SettleLedger, AdvanceSourceLedger
  <2> QED
    BY <2>1, <2>2
<1> QED
  BY <1>1, NextRendered DEF LedgerInv

\* A result is recorded with the outcome it is of.
LEMMA ResultsAreRecorded ==
  ASSUME IInv, [Next]_vars, NEW d \in Items, NEW r \in Repositories,
         r \notin results[d], r \in results'[d]
  PROVE  integrations'[d][r].status = "integrated"
<1>1. results' # results
  OBVIOUS
<1>2. database' # database
  BY <1>1 DEF database
<1>3. /\ integrations \in [Items -> [Repositories -> [status : IntegrationStatuses, head : Nat]]]
      /\ results \in [Items -> SUBSET Repositories]
  BY DEF IInv, Typed, TypeOK
<1>4. ASSUME NEW p \in Processes, Stage(p) \/ ReconciliationError(p) PROVE FALSE
  BY <1>1, <1>4 DEF Stage, ReconciliationError
<1>5. ASSUME NEW p \in Processes, Finalize(p) PROVE FALSE
  <2>1. results'[d] \subseteq results[d]
    BY <1>3, <1>5 DEF Finalize, ResultsKept
  <2> QED
    BY <2>1
<1>6. ASSUME NEW e \in Items, NEW q \in Repositories, AdvanceSource(e, q) PROVE FALSE
  BY <1>1, <1>6 DEF AdvanceSource
<1>7. ASSUME NEW e \in Items, NEW q \in Repositories, NEW outcome \in {"integrated", "conflict"},
             Settle(e, q, outcome)
      PROVE  integrations'[d][r].status = "integrated"
  <2>1. e = d /\ q = r /\ outcome = "integrated"
    BY <1>3, <1>7 DEF Settle
  <2> QED
    BY <1>3, <1>7, <2>1 DEF Settle
<1> QED
  BY <1>2, <1>4, <1>5, <1>6, <1>7, DatabaseWritten

\* The inductive invariant holds in every reachable state.
LEMMA Inductive == Spec => []IInv
<1>1. Init => IInv
  BY InitTyped, InitStaged, InitLedger DEF IInv
<1>2. IInv /\ [Next]_vars => IInv'
  BY NextTyped, NextStaged, NextLedgerInv DEF IInv
<1> QED
  BY <1>1, <1>2, PTL DEF Spec

\* The status column, the structured state, the document's hash and the newest
\* revision of an item are always of the same checkpoint.
THEOREM ProjectionsAgree == Spec => []ProjectionParity
<1>1. IInv => ProjectionParity
  BY CurrentRevision DEF IInv, LedgerInv, Parity, ProjectionParity
<1> QED
  BY <1>1, Inductive, PTL

\* An open update whose revision is free is always still valid.
THEOREM StagedUpdatesStayValid == Spec => []StagedStillValid
<1>1. IInv => StagedStillValid
  BY DEF IInv, LedgerInv
<1> QED
  BY <1>1, Inductive, PTL

\* Every head that the rows of a done item ask for has its result, whatever a second
\* executor reports of it afterwards.
THEOREM DoneOnlyIntegrated == Spec => []DoneIntegrated
<1>1. IInv => DoneIntegrated
  BY DEF IInv, LedgerInv
<1> QED
  BY <1>1, Inductive, PTL

\* No row is taken back: what FeatureIntegrationProofs shows (IntegratedKept) of the
\* outcomes of a Feature that one process at a time integrates.
NoneTakenBack ==
  [][\A d \in Items, r \in Repositories :
       integrations[d][r].status = "integrated" => integrations'[d][r].status # "conflict"]_vars

\* Where none is, the rows of a done item are all integrated: with one executor, the
\* readiness that was checked when the update was staged holds ever after.
THEOREM DoneIsReady ==
  Spec /\ NoneTakenBack =>
    [](\A d \in Items : status[d] = "done" => IntegrationReady(integrations[d]))
<1> DEFINE Kept == \A d \in Items, r \in Repositories :
              integrations[d][r].status = "integrated" => integrations'[d][r].status # "conflict"
           AllIntegrated == \A d \in Items, r \in Repositories :
              r \in results[d] => integrations[d][r].status = "integrated"
           Ready == \A d \in Items : status[d] = "done" => IntegrationReady(integrations[d])
<1>1. Init => AllIntegrated
  BY DEF Init
<1>2. IInv /\ IInv' /\ [Next]_vars /\ [Kept]_vars /\ AllIntegrated => AllIntegrated'
  <2> SUFFICES ASSUME IInv, IInv', [Next]_vars, [Kept]_vars, AllIntegrated,
                      NEW d \in Items, NEW r \in Repositories, r \in results'[d]
               PROVE  integrations'[d][r].status = "integrated"
    OBVIOUS
  <2>1. CASE UNCHANGED vars
    BY <2>1 DEF vars
  <2>2. CASE ~UNCHANGED vars
    <3>1. integrations[d][r].status = "integrated" => integrations'[d][r].status # "conflict"
      BY <2>2
    <3>2. integrations'[d][r].status \in {"integrated", "conflict"}
      BY DEF IInv, LedgerInv, RowsHaveResults
    <3>3. CASE r \in results[d]
      BY <3>1, <3>2, <3>3
    <3>4. CASE r \notin results[d]
      BY <3>4, ResultsAreRecorded
    <3> QED
      BY <3>3, <3>4
  <2> QED
    BY <2>1, <2>2
<1>3. IInv /\ AllIntegrated => Ready
  BY DEF IInv, LedgerInv, DoneIntegrated, ItemMerged, IntegrationReady, Typed, TypeOK
<1>4. NoneTakenBack => [][Kept]_vars
  BY DEF NoneTakenBack
<1> QED
  BY <1>1, <1>2, <1>3, <1>4, Inductive, PTL DEF Spec

-----------------------------------------------------------------------------
(* Action properties and the abstract ledger.                              *)

\* Statuses only move as the rules allow.
THEOREM MovesAreLegal == Spec => LegalMoves
<1> DEFINE Legal == \A d \in Items : status'[d] # status[d] =>
              /\ status[d] \notin TerminalStatuses
              /\ status'[d] \in Successors[status[d]] \cup {"done"}
              /\ status'[d] = "done" => status[d] = "review"
<1>1. IInv /\ [Next]_vars => [Legal]_vars
  <2> SUFFICES ASSUME IInv, [Next]_vars PROVE Legal
    OBVIOUS
  <2>1. ASSUME NEW p \in Processes, Finalize(p) PROVE Legal
    <3>0. PICK req \in RequestSet, d \in Items : req = proc[p].req /\ d = req.item
      BY <2>1, FinalizeIsCurrent
    <3>1. StillPermitted(updates[req.key].actor, req)
      BY <2>1, <3>0, FinalizeIsCurrent
    <3>2. status' = [status EXCEPT ![d] = req.status]
      BY <2>1, <3>0 DEF Finalize
    <3> SUFFICES ASSUME NEW e \in Items, status'[e] # status[e]
                 PROVE  /\ status[e] \notin TerminalStatuses
                        /\ status'[e] \in Successors[status[e]] \cup {"done"}
                        /\ status'[e] = "done" => status[e] = "review"
      OBVIOUS
    <3>3. e = d /\ status'[e] = req.status
      BY <3>2 DEF IInv, Typed, TypeOK
    <3> QED
      BY <3>0, <3>1, <3>3
         DEF StillPermitted, ValidateActorTransition, ValidateTransition, TerminalStatuses
  <2>2. CASE database' = database
    BY <2>2 DEF database
  <2>3. ASSUME NEW p \in Processes, Stage(p) \/ ReconciliationError(p) PROVE Legal
    BY <2>3 DEF Stage, ReconciliationError
  <2>4. ASSUME NEW d \in Items, NEW r \in Repositories,
               AdvanceSource(d, r) \/ \E outcome \in {"integrated", "conflict"} : Settle(d, r, outcome)
        PROVE  Legal
    BY <2>4 DEF AdvanceSource, Settle
  <2> QED
    BY <2>1, <2>2, <2>3, <2>4, DatabaseWritten
<1>2. [][Legal]_vars => LegalMoves
  BY DEF LegalMoves
<1> QED
  BY <1>1, <1>2, Inductive, PTL DEF Spec

\* No revision is replaced or removed and no completed update changes.
THEOREM HistoryIsAppendOnly == Spec => HistoryAppendOnly
<1> DEFINE Appended ==
      /\ \A d \in Items : \A n \in DOMAIN revisions[d] :
           n \in DOMAIN revisions'[d] /\ revisions'[d][n] = revisions[d][n]
      /\ \A k \in Keys : updates[k].publication = "completed" => updates'[k] = updates[k]
<1>1. IInv /\ [Next]_vars => [Appended]_vars
  <2> SUFFICES ASSUME IInv, [Next]_vars PROVE Appended
    OBVIOUS
  <2>1. ASSUME NEW p \in Processes, Finalize(p) PROVE Appended
    <3>0. PICK req \in RequestSet, d \in Items : req = proc[p].req /\ d = req.item
      BY <2>1, FinalizeIsCurrent
    <3>1. PICK n : n = StateFromUpdate(req).documentRevision
      OBVIOUS
    <3>2. /\ n \notin DOMAIN revisions[d]
          /\ revisions' = [revisions EXCEPT ![d] =
                [m \in DOMAIN @ \cup {n} |-> IF m = n THEN proc[p].candidate ELSE @[m]]]
          /\ updates[req.key].publication # "completed"
          /\ \A k \in Keys : k # req.key => updates'[k] = updates[k]
      BY <2>1, <3>0, <3>1 DEF Finalize, RevisionConflict, IInv, Typed, TypeOK
    <3> QED
      BY <3>2 DEF IInv, Typed, TypeOK
  <2>2. CASE database' = database
    BY <2>2 DEF database
  <2>3. ASSUME NEW p \in Processes, Stage(p) PROVE Appended
    BY <2>3 DEF Stage, IInv, Typed, TypeOK
  <2>4. ASSUME NEW p \in Processes, ReconciliationError(p) PROVE Appended
    BY <2>4 DEF ReconciliationError, IInv, Typed, TypeOK
  <2>5. ASSUME NEW d \in Items, NEW r \in Repositories,
               AdvanceSource(d, r) \/ \E outcome \in {"integrated", "conflict"} : Settle(d, r, outcome)
        PROVE  Appended
    BY <2>5 DEF AdvanceSource, Settle
  <2> QED
    BY <2>1, <2>2, <2>3, <2>4, <2>5, DatabaseWritten
<1>2. [][Appended]_vars => HistoryAppendOnly
  BY DEF HistoryAppendOnly
<1> QED
  BY <1>1, <1>2, Inductive, PTL DEF Spec

\* Staging, files, commits, crashes and retries are invisible to a caller: the
\* service implements the abstract ledger.
THEOREM Refinement == Spec => ImplementsLedger
<1>1. Init => Ledger!LedgerInit
  BY DEF Init, NoState, Ledger!LedgerInit, Ledger!NoIntegration, NoIntegration
<1>2. IInv /\ [Next]_vars => [Ledger!LedgerNext]_(Ledger!ledgerVars)
  <2> SUFFICES ASSUME IInv, [Next]_vars
               PROVE  Ledger!LedgerNext \/ UNCHANGED Ledger!ledgerVars
    OBVIOUS
  <2>1. ASSUME NEW p \in Processes, Finalize(p) PROVE Ledger!LedgerNext
    <3>0. PICK req \in RequestSet, d \in Items : req = proc[p].req /\ d = req.item
      BY <2>1, FinalizeIsCurrent
    <3>1. /\ StillPermitted(updates[req.key].actor, req)
          /\ req.revision = state[d].revision
          /\ req.documentRevision = state[d].documentRevision
      BY <2>1, <3>0, FinalizeIsCurrent
    <3>2. req.status \in WorkItemStatuses /\ req.payload \in Payloads \cup {"none"}
          /\ proc[p].repos \in SUBSET Repositories
      BY <2>1, <3>0, RequestTypes DEF IInv, Typed, TypeOK, ProcessStates
    <3>3. Ledger!LegalMove(d, req.status)
      BY <3>0, <3>1, <3>2
         DEF StillPermitted, ItemMerged, ValidateActorTransition, ValidateTransition,
             Ledger!LegalMove, TerminalStatuses, Ledger!TerminalStatuses, Successors,
             Ledger!Successors
    <3>4. Ledger!Accept(d, req.status, req.payload, proc[p].repos)
      BY <2>1, <3>0, <3>1, <3>3
         DEF Finalize, StateFromUpdate, Ledger!Accept, QueueReview, Ledger!QueueReview,
             QueuedRow, Ledger!QueuedRow, ResultsKept, Ledger!ResultsKept
    <3> QED
      BY <3>2, <3>4 DEF Ledger!LedgerNext, WorkItemStatuses, Ledger!WorkItemStatuses
  <2>2. CASE database' = database
    BY <2>2 DEF database, Ledger!ledgerVars
  <2>3. ASSUME NEW p \in Processes, Stage(p) \/ ReconciliationError(p)
        PROVE  UNCHANGED Ledger!ledgerVars
    BY <2>3 DEF Stage, ReconciliationError, Ledger!ledgerVars
  <2>4. ASSUME NEW d \in Items, NEW r \in Repositories, AdvanceSource(d, r)
        PROVE  Ledger!LedgerNext
    BY <2>4 DEF AdvanceSource, Ledger!AdvanceSource, Ledger!LedgerNext, disk
  <2>5. ASSUME NEW d \in Items, NEW r \in Repositories, NEW outcome \in {"integrated", "conflict"},
               Settle(d, r, outcome)
        PROVE  Ledger!LedgerNext
    BY <2>5 DEF Settle, Ledger!Settle, Ledger!LedgerNext
  <2> QED
    BY <2>1, <2>2, <2>3, <2>4, <2>5, DatabaseWritten
<1> QED
  BY <1>1, <1>2, Inductive, PTL DEF Spec, ImplementsLedger, Ledger!LedgerSpec

-----------------------------------------------------------------------------
(* What callers are told, and what the history says of the updates.        *)

\* A process that runs has not answered its caller.
Unanswered == \A p \in Processes : ~At(p, "idle") => proc[p].answer = "none"

\* The row of a process's request is completed once its step is taken.
RowCompleted(p) ==
  LET row == updates'[proc[p].req.key]
  IN  row.publication = "completed" /\ row.req = proc[p].req

\* What a step does to the answer of its process: it keeps silent, fails, or says
\* that the update is completed, which it then is.
LEMMA StepAnswers ==
  ASSUME IInv, Unanswered, NEW p \in Processes,
         Command(p) \/ Step(p) \/ Fault(p) \/ Crash(p)
  PROVE  /\ ~At(p, "idle")' => proc'[p].answer = "none"
         /\ ~At(p, "idle") /\ proc'[p].answer = "completed" => RowCompleted(p)
<1>0. proc \in [Processes -> ProcessStates] /\ proc[p] \in ProcessStates /\ Typed
  BY DEF IInv, Typed, TypeOK
<1>1. ASSUME NEW answer, Return(p, answer)
      PROVE  At(p, "idle")' /\ proc'[p].answer = answer
  BY <1>0, <1>1 DEF Return, Idle, At
<1>2. ASSUME NEW pc, Goto(p, pc), ~At(p, "idle")
      PROVE  proc'[p].answer = "none"
  <2>1. proc'[p] = [proc[p] EXCEPT !.pc = pc]
    BY <1>0, <1>2 DEF Goto
  <2>2. proc'[p].answer = proc[p].answer
    BY <1>0, <2>1 DEF ProcessStates
  <2> QED
    BY <1>2, <2>2 DEF Unanswered
<1>3. ASSUME proc'[p].answer = "none" \/ (At(p, "idle")' /\ proc'[p].answer # "completed")
      PROVE  /\ ~At(p, "idle")' => proc'[p].answer = "none"
             /\ ~At(p, "idle") /\ proc'[p].answer = "completed" => RowCompleted(p)
  BY <1>3
<1>4. CASE Command(p)
  <2>1. ASSUME NEW req, NEW actor, NEW repos, Submit(p, req, actor, repos)
        PROVE  proc'[p].answer = "none" \/ (At(p, "idle")' /\ proc'[p].answer # "completed")
    <3>1. \/ proc' = [proc EXCEPT ![p] = [Idle("none") EXCEPT
                        !.pc = "lookup", !.req = req, !.actor = actor, !.repos = repos]]
          \/ Return(p, "failed")
      BY <2>1 DEF Submit
    <3>2. CASE Return(p, "failed")
      BY <1>1, <3>2
    <3>3. CASE proc' = [proc EXCEPT ![p] = [Idle("none") EXCEPT
                          !.pc = "lookup", !.req = req, !.actor = actor, !.repos = repos]]
      BY <1>0, <3>3 DEF Idle
    <3> QED
      BY <3>1, <3>2, <3>3
  <2>2. ASSUME NEW run, NEW d, StartIntegration(p, run, d) PROVE proc'[p].answer = "none"
    BY <1>0, <2>2 DEF StartIntegration, Idle
  <2>3. ASSUME NEW k, Reconcile(p, k) PROVE proc'[p].answer = "none"
    BY <1>0, <2>3 DEF Reconcile, Idle
  <2>4. proc'[p].answer = "none" \/ (At(p, "idle")' /\ proc'[p].answer # "completed")
    BY <1>4, <2>1, <2>2, <2>3 DEF Command
  <2> QED
    BY <1>3, <2>4
<1>5. CASE Lookup(p)
  <2>1. ~At(p, "idle") /\ updates' = updates
    BY <1>5 DEF Lookup, At, Reading, database
  <2>2. CASE Return(p, "completed") /\ RowCompleted(p)
    BY <1>1, <2>2
  <2>3. CASE Goto(p, "context") \/ Goto(p, "resume")
    BY <1>2, <1>3, <2>1, <2>3
  <2>4. CASE Return(p, "failed")
    BY <1>1, <1>3, <2>4
  <2> QED
    BY <1>5, <2>1, <2>2, <2>3, <2>4 DEF Lookup, RowCompleted
<1>6. CASE Context(p) \/ RenderStep(p) \/ Resume(p) \/ Reread(p)
  <2> DEFINE row == updates[proc[p].req.key]
             verify == [proc[p] EXCEPT !.pc = "verify", !.expected = docHash[proc[p].req.item]]
             next(pc) == [proc[p] EXCEPT !.pc = pc,
                            !.candidate = Render(file[proc[p].req.item], proc[p].req)]
             resumed == [proc[p] EXCEPT !.pc = "reread", !.actor = row.actor,
                                        !.repos = row.repos, !.expected = row.expected]
  <2>1. ~At(p, "idle")
    BY <1>6 DEF Context, RenderStep, Resume, Reread, At
  <2>2. \/ proc' = [proc EXCEPT ![p] = verify]
        \/ proc' = [proc EXCEPT ![p] = next("stage")]
        \/ proc' = [proc EXCEPT ![p] = next("publish")]
        \/ proc' = [proc EXCEPT ![p] = resumed]
        \/ Return(p, "failed")
    BY <1>6 DEF Context, RenderStep, Resume, Reread
  <2>3. /\ verify.answer = proc[p].answer /\ next("stage").answer = proc[p].answer
        /\ next("publish").answer = proc[p].answer /\ resumed.answer = proc[p].answer
    BY <1>0 DEF ProcessStates
  <2>4. proc[p].answer = "none"
    BY <2>1 DEF Unanswered
  <2> HIDE DEF verify, next, resumed
  <2>5. CASE Return(p, "failed")
    BY <1>1, <1>3, <2>5
  <2>6. CASE ~Return(p, "failed")
    <3>1. proc'[p] \in {verify, next("stage"), next("publish"), resumed}
      BY <1>0, <2>2, <2>6
    <3> QED
      BY <1>3, <2>3, <2>4, <3>1
  <2> QED
    BY <2>5, <2>6
<1>7. CASE Verify(p) \/ Stage(p) \/ Publish(p) \/ Recheck(p) \/ Copy(p) \/ Status(p) \/ Add(p)
           \/ Commit(p)
  <2>1. ~At(p, "idle")
    BY <1>7 DEF Verify, Stage, Publish, Recheck, Copy, Status, Add, Commit, At
  <2>2. Return(p, "failed") \/ \E pc \in Steps : Goto(p, pc)
    BY <1>7 DEF Verify, Stage, Publish, Recheck, Copy, Status, Add, Commit, Steps
  <2>3. CASE Return(p, "failed")
    BY <1>1, <1>3, <2>3
  <2>4. CASE \E pc \in Steps : Goto(p, pc)
    BY <1>2, <1>3, <2>1, <2>4
  <2> QED
    BY <2>2, <2>3, <2>4
<1>8. CASE Head(p)
  <2> DEFINE next == [proc[p] EXCEPT !.pc = "finalize", !.commit = tree[proc[p].req.item]]
  <2>1. proc'[p] = next /\ proc[p].answer = "none"
    BY <1>0, <1>8 DEF Head, At, Unanswered
  <2>2. next.answer = proc[p].answer
    BY <1>0 DEF ProcessStates
  <2> HIDE DEF next
  <2> QED
    BY <1>3, <2>1, <2>2
<1>9. CASE Finalize(p)
  <2> DEFINE k == proc[p].req.key
  <2>1. /\ updates' = [updates EXCEPT ![k] = CompletedRow(updates[k], proc[p].commit)]
        /\ Return(p, "completed")
    BY <1>9 DEF Finalize
  <2>2. HasRow(p) /\ k \in Keys /\ updates[k] \in Rows /\ updates \in [Keys -> Rows]
    BY <1>9, FinalizeIsCurrent DEF IInv, Typed, TypeOK
  <2>3. updates'[k] = CompletedRow(updates[k], proc[p].commit)
    BY <2>1, <2>2
  <2>4. /\ CompletedRow(updates[k], proc[p].commit).publication = "completed"
        /\ CompletedRow(updates[k], proc[p].commit).req = updates[k].req
    BY <2>2 DEF CompletedRow, Rows
  <2>5. RowCompleted(p)
    BY <2>2, <2>3, <2>4 DEF RowCompleted, HasRow
  <2> QED
    BY <1>1, <2>1, <2>5
<1>10. CASE FinalizeAgain(p)
  <2>1. ~At(p, "idle") /\ updates' = updates /\ HasRow(p)
    BY <1>10 DEF FinalizeAgain, At, Reading, database, IInv, StagedRows, StagedSteps
  <2>2. CASE Goto(p, "recon")
    BY <1>2, <1>3, <2>1, <2>2
  <2>3. CASE updates[proc[p].req.key].publication = "completed" /\ Return(p, "completed")
    BY <1>1, <2>1, <2>3 DEF RowCompleted, HasRow
  <2> QED
    BY <1>10, <2>2, <2>3 DEF FinalizeAgain
<1>11. CASE ReconciliationError(p)
  BY <1>1, <1>3, <1>11 DEF ReconciliationError
<1>12. CASE Fault(p) \/ Crash(p)
  <2>1. ~At(p, "idle")
    BY <1>12 DEF Fault, Crash
  <2>2. Goto(p, "recon") \/ Return(p, "failed") \/ Return(p, "none")
    BY <1>12 DEF Fault, Crash
  <2> QED
    BY <1>1, <1>2, <1>3, <2>1, <2>2
<1> QED
  BY <1>4, <1>5, <1>6, <1>7, <1>8, <1>9, <1>10, <1>11, <1>12 DEF Step

\* The steps of the environment leave every process alone.
LEMMA WhoSteps ==
  ASSUME [Next]_vars
  PROVE  \/ \E p \in Processes : Command(p) \/ Step(p) \/ Fault(p) \/ Crash(p)
         \/ proc' = proc
BY DEF Next, Environment, ExternalEdit, RestoreCommitted, Settle, AdvanceSource, vars

\* A running process keeps silent until it answers.
LEMMA NextUnanswered ==
  ASSUME IInv, Unanswered, [Next]_vars
  PROVE  Unanswered'
<1>1. ASSUME NEW p \in Processes, Command(p) \/ Step(p) \/ Fault(p) \/ Crash(p)
      PROVE  Unanswered'
  <2>1. ASSUME NEW q \in Processes, ~At(q, "idle")' PROVE proc'[q].answer = "none"
    <3>1. CASE q = p
      BY <1>1, <2>1, <3>1, StepAnswers
    <3>2. CASE q # p
      <4>1. proc'[q] = proc[q]
        BY <1>1, <3>2, OthersUnchanged DEF IInv
      <4> QED
        BY <2>1, <4>1 DEF Unanswered, At
    <3> QED
      BY <3>1, <3>2
  <2> QED
    BY <2>1 DEF Unanswered
<1>2. CASE proc' = proc
  BY <1>2 DEF Unanswered, At
<1> QED
  BY <1>1, <1>2, WhoSteps

\* A caller is told that its update is completed only when the row of its own
\* request is, whoever completed it.
THEOREM SuccessIsTrue == Spec => NoFalseSuccess
<1> DEFINE True ==
      \A p \in Processes :
       ~At(p, "idle") /\ proc'[p].answer = "completed" =>
         LET row == updates'[proc[p].req.key]
         IN  row.publication = "completed" /\ row.req = proc[p].req
<1>1. IInv /\ Unanswered /\ [Next]_vars => [True]_vars
  <2> SUFFICES ASSUME IInv, Unanswered, [Next]_vars,
                      NEW p \in Processes, ~At(p, "idle"), proc'[p].answer = "completed"
               PROVE  RowCompleted(p)
    BY DEF RowCompleted
  <2>1. proc'[p] # proc[p]
    BY DEF Unanswered
  <2>2. PICK q \in Processes : Command(q) \/ Step(q) \/ Fault(q) \/ Crash(q)
    BY <2>1, WhoSteps
  <2>3. p = q
    BY <2>1, <2>2, OthersUnchanged DEF IInv
  <2> QED
    BY <2>2, <2>3, StepAnswers
<1>2. Init => IInv /\ Unanswered
  <2>1. Init => IInv
    BY InitTyped, InitStaged, InitLedger DEF IInv
  <2>2. Init => Unanswered
    BY DEF Init, Unanswered, At, Idle
  <2> QED
    BY <2>1, <2>2
<1>3. IInv /\ Unanswered /\ [Next]_vars => (IInv /\ Unanswered)'
  BY NextTyped, NextStaged, NextLedgerInv, NextUnanswered DEF IInv
<1>4. [][True]_vars => NoFalseSuccess
  BY DEF NoFalseSuccess
<1> QED
  BY <1>1, <1>2, <1>3, <1>4, PTL DEF Spec

-----------------------------------------------------------------------------
(* The completed updates of an item are the revisions after its first.     *)

Done(d) == {k \in Keys : updates[k].publication = "completed" /\ updates[k].req.item = d}

\* Each completed update left the revision after the one it was made against.
Recorded(d) ==
  \A k \in Done(d) :
    /\ updates[k].req.documentRevision + 1 \in DOMAIN revisions[d]
    /\ revisions[d][updates[k].req.documentRevision + 1].state = StateFromUpdate(updates[k].req)

\* Each revision but the first was left by one.
Made(d) ==
  \A n \in 2..state[d].documentRevision :
    \E k \in Done(d) : updates[k].req.documentRevision + 1 = n

\* There are as many.
Counted(d) ==
  IsFiniteSet(Done(d)) /\ state[d].documentRevision = Cardinality(Done(d)) + 1

\* No row is for a revision before the first.
RowsAfterFirst ==
  \A k \in Keys : updates[k].publication # "absent" => updates[k].req.documentRevision >= 1

HistoryInv ==
  /\ \A d \in Items : Recorded(d) /\ Made(d) /\ Counted(d)
  /\ RowsAfterFirst

\* Initially nothing is completed and every item has its first revision only.
LEMMA InitHistory == Init => HistoryInv
<1> SUFFICES ASSUME Init PROVE HistoryInv
  OBVIOUS
<1>1. ASSUME NEW d \in Items PROVE Recorded(d) /\ Made(d) /\ Counted(d)
  <2>1. Done(d) = {}
    BY DEF Init, Done, NoRow
  <2>2. state[d].documentRevision = 1
    BY DEF Init, NoState
  <2> QED
    BY <2>1, <2>2, FS_EmptySet DEF Recorded, Made, Counted
<1>2. RowsAfterFirst
  BY DEF Init, RowsAfterFirst, NoRow
<1> QED
  BY <1>1, <1>2 DEF HistoryInv

\* Steps that complete no update and write no revision keep the correspondence.
LEMMA HistoryKept ==
  ASSUME HistoryInv, UNCHANGED <<revisions, state>>, RowsAfterFirst',
         \A d \in Items : Done(d)' = Done(d),
         \A d \in Items : \A k \in Done(d) : updates'[k].req = updates[k].req
  PROVE  HistoryInv'
<1>1. ASSUME NEW d \in Items PROVE Recorded(d)' /\ Made(d)' /\ Counted(d)'
  <2>1. Recorded(d) /\ Made(d) /\ Counted(d)
    BY DEF HistoryInv
  <2>2. \A k : StateFromUpdate(updates[k].req)' = StateFromUpdate(updates'[k].req)
    BY DEF StateFromUpdate
  <2>3. Recorded(d)'
    BY <2>1, <2>2 DEF Recorded
  <2>4. Made(d)'
    BY <2>1 DEF Made
  <2>5. Counted(d)'
    BY <2>1 DEF Counted
  <2> QED
    BY <2>3, <2>4, <2>5
<1> QED
  BY <1>1 DEF HistoryInv

\* Staging inserts a row against the current revision, and completes none.
LEMMA StageHistory ==
  ASSUME IInv, HistoryInv, NEW p \in Processes, Stage(p)
  PROVE  HistoryInv'
<1> DEFINE req == proc[p].req
           row == [publication |-> "pending", req |-> req, actor |-> proc[p].actor,
                   repos |-> proc[p].repos, expected |-> proc[p].expected, commit |-> Torn]
<1>1. UNCHANGED <<revisions, state>>
  BY DEF Stage
<1>2. CASE updates' = updates
  BY <1>1, <1>2, HistoryKept DEF HistoryInv, RowsAfterFirst, Done
<1>3. CASE updates' # updates
  <2>1. /\ updates' = [updates EXCEPT ![req.key] = row] /\ ValidateRevisions(req)
        /\ updates[req.key].publication = "absent"
    BY <1>3 DEF Stage
  <2>2. req \in RequestSet /\ req.item \in Items /\ req.key \in Keys
    BY RequestTypes DEF Stage, At, IInv, Typed, ProcessesTyped
  <2>3. req.documentRevision >= 1
    <3>1. Parity(req.item)
      BY <2>2 DEF IInv, LedgerInv
    <3>2. state[req.item].documentRevision \in Nat \ {0}
      BY <3>1 DEF Parity
    <3>3. DocumentRevision(req.item) = state[req.item].documentRevision
      BY <3>1, CurrentRevision
    <3>4. req.documentRevision = DocumentRevision(req.item)
      BY <2>1 DEF ValidateRevisions
    <3> QED
      BY <3>2, <3>3, <3>4
  <2>4. \A k \in Keys : updates'[k] = IF k = req.key THEN row ELSE updates[k]
    BY <2>1 DEF IInv, Typed, TypeOK
  <2>5. row.publication = "pending" /\ row.req = req
    OBVIOUS
  <2> HIDE DEF row
  <2>6. RowsAfterFirst'
    BY <2>3, <2>4, <2>5 DEF HistoryInv, RowsAfterFirst
  <2>7. \A d \in Items : Done(d)' = Done(d)
    BY <2>1, <2>2, <2>4, <2>5 DEF Done
  <2>8. \A d \in Items : \A k \in Done(d) : updates'[k].req = updates[k].req
    BY <2>1, <2>4 DEF Done
  <2> QED
    BY <1>1, <2>6, <2>7, <2>8, HistoryKept
<1> QED
  BY <1>2, <1>3

\* Asking for reconciliation completes no row and touches no completed one.
LEMMA ReconciliationErrorHistory ==
  ASSUME IInv, HistoryInv, NEW p \in Processes, ReconciliationError(p)
  PROVE  HistoryInv'
<1> DEFINE j == proc[p].req.key
<1>1. UNCHANGED <<revisions, state>>
  BY DEF ReconciliationError
<1>2. CASE updates' = updates
  BY <1>1, <1>2, HistoryKept DEF HistoryInv, RowsAfterFirst, Done
<1>3. CASE updates' # updates
  <2> DEFINE row == [updates[j] EXCEPT !.publication = "reconciliation_required"]
  <2>1. updates[j].publication # "completed" /\ updates' = [updates EXCEPT ![j] = row]
    BY <1>3 DEF ReconciliationError
  <2>2. HasRow(p) /\ j \in Keys /\ updates[j] \in Rows
    BY RequestTypes DEF ReconciliationError, At, IInv, Typed, TypeOK, ProcessesTyped,
                        StagedRows, StagedSteps
  <2>3. row.publication = "reconciliation_required" /\ row.req = updates[j].req
    BY <2>2 DEF Rows
  <2>4. \A k \in Keys : updates'[k] = IF k = j THEN row ELSE updates[k]
    BY <2>1 DEF IInv, Typed, TypeOK
  <2> HIDE DEF row
  <2>5. RowsAfterFirst'
    BY <2>2, <2>3, <2>4 DEF HistoryInv, RowsAfterFirst, HasRow
  <2>6. \A d \in Items : Done(d)' = Done(d)
    BY <2>1, <2>3, <2>4 DEF Done
  <2>7. \A d \in Items : \A k \in Done(d) : updates'[k].req = updates[k].req
    BY <2>3, <2>4 DEF Done
  <2> QED
    BY <1>1, <2>5, <2>6, <2>7, HistoryKept
<1> QED
  BY <1>2, <1>3

\* Finalizing completes one update and adds the revision it was made for.
LEMMA FinalizeHistory ==
  ASSUME IInv, HistoryInv, NEW p \in Processes, Finalize(p)
  PROVE  HistoryInv'
<1>0. PICK req \in RequestSet, d \in Items : req = proc[p].req /\ d = req.item
  BY FinalizeIsCurrent
<1>1. PICK k \in Keys : k = req.key
  BY <1>0, FinalizeIsCurrent
<1>2. PICK n \in Nat \ {0} : n = state[d].documentRevision /\ DOMAIN revisions[d] = 1..n
  BY DEF IInv, LedgerInv, Parity
<1>3. PICK hash : hash = proc[p].candidate
  OBVIOUS
<1> DEFINE new == StateFromUpdate(req)
<1>4. /\ req.documentRevision = n /\ new.documentRevision = n + 1
      /\ hash.state = new
  BY <1>0, <1>2, <1>3, FinalizeIsCurrent DEF StateFromUpdate
<1>5. /\ revisions' = [revisions EXCEPT ![d] =
             [m \in DOMAIN @ \cup {n + 1} |-> IF m = n + 1 THEN hash ELSE @[m]]]
      /\ state' = [state EXCEPT ![d] = new]
  BY <1>0, <1>3, <1>4 DEF Finalize
<1>6. /\ state'[d] = new
      /\ \A e \in Items : e # d => revisions'[e] = revisions[e] /\ state'[e] = state[e]
      /\ DOMAIN revisions'[d] = 1..(n + 1)
      /\ revisions'[d][n + 1] = hash
      /\ \A m \in 1..n : revisions'[d][m] = revisions[d][m]
  <2>1. revisions'[d] = [m \in 1..n \cup {n + 1} |-> IF m = n + 1 THEN hash ELSE revisions[d][m]]
    BY <1>2, <1>5 DEF IInv, Typed, TypeOK
  <2>2. 1..n \cup {n + 1} = 1..(n + 1) /\ n + 1 \notin 1..n
    OBVIOUS
  <2>3. /\ state'[d] = new
        /\ \A e \in Items : e # d => revisions'[e] = revisions[e] /\ state'[e] = state[e]
    BY <1>5 DEF IInv, Typed, TypeOK
  <2> QED
    BY <2>1, <2>2, <2>3
<1> DEFINE row == CompletedRow(updates[k], proc[p].commit)
<1>7. /\ updates[k].publication # "completed" /\ updates[k].req = req
      /\ updates[k].publication # "absent"
      /\ updates' = [updates EXCEPT ![k] = row]
  BY <1>0, <1>1, FinalizeIsCurrent DEF Finalize, HasRow
<1>8. row.publication = "completed" /\ row.req = req
  <2>1. updates[k] \in Rows
    BY DEF IInv, Typed, TypeOK
  <2> QED
    BY <1>7, <2>1 DEF CompletedRow, Rows
<1>9. \A j \in Keys : updates'[j] = IF j = k THEN row ELSE updates[j]
  BY <1>7 DEF IInv, Typed, TypeOK
<1> HIDE DEF row, new
<1>10. /\ Done(d)' = Done(d) \cup {k} /\ k \notin Done(d)
       /\ \A e \in Items : e # d => Done(e)' = Done(e) /\ k \notin Done(e)
       /\ \A e \in Items : \A j \in Done(e) : j # k /\ updates'[j] = updates[j]
  BY <1>0, <1>7, <1>8, <1>9 DEF Done
<1>11. \A r : StateFromUpdate(r)' = StateFromUpdate(r)
  BY DEF StateFromUpdate
<1>12. updates'[k].req = req
  BY <1>8, <1>9
<1>13. Recorded(d)'
  <2>1. Recorded(d)
    BY DEF HistoryInv
  <2>2. ASSUME NEW j \in Done(d)'
        PROVE  /\ updates'[j].req.documentRevision + 1 \in DOMAIN revisions'[d]
               /\ revisions'[d][updates'[j].req.documentRevision + 1].state
                    = StateFromUpdate(updates'[j].req)
    <3>1. CASE j = k
      BY <1>4, <1>6, <1>12, <3>1 DEF new
    <3>2. CASE j # k
      <4>1. j \in Done(d) /\ updates'[j] = updates[j]
        BY <1>10, <2>2, <3>2
      <4>2. updates[j].req.documentRevision + 1 \in 1..n
        BY <1>2, <2>1, <4>1 DEF Recorded
      <4>3. revisions'[d][updates[j].req.documentRevision + 1]
              = revisions[d][updates[j].req.documentRevision + 1]
        BY <1>6, <4>2
      <4>4. updates[j].req.documentRevision + 1 \in 1..(n + 1)
        BY <4>2
      <4> QED
        BY <1>6, <2>1, <4>1, <4>3, <4>4 DEF Recorded
    <3> QED
      BY <3>1, <3>2
  <2> QED
    BY <1>11, <2>2 DEF Recorded
<1>14. Made(d)'
  <2>1. state'[d].documentRevision = n + 1
    BY <1>4, <1>6
  <2>2. ASSUME NEW m \in 2..(n + 1)
        PROVE  \E j \in Done(d)' : updates'[j].req.documentRevision + 1 = m
    <3>1. CASE m = n + 1
      BY <1>4, <1>10, <1>12, <3>1
    <3>2. CASE m # n + 1
      <4>1. m \in 2..n
        BY <2>2, <3>2
      <4>2. PICK j \in Done(d) : updates[j].req.documentRevision + 1 = m
        BY <1>2, <4>1 DEF HistoryInv, Made
      <4> QED
        BY <1>10, <4>2
    <3> QED
      BY <3>1, <3>2
  <2> QED
    BY <2>1, <2>2 DEF Made
<1>15. Counted(d)'
  <2>1. IsFiniteSet(Done(d)) /\ n = Cardinality(Done(d)) + 1
    BY <1>2 DEF HistoryInv, Counted
  <2>2. /\ IsFiniteSet(Done(d) \cup {k})
        /\ Cardinality(Done(d) \cup {k}) = Cardinality(Done(d)) + 1
    BY <1>10, <2>1, FS_AddElement
  <2>3. state'[d].documentRevision = n + 1
    BY <1>4, <1>6
  <2> QED
    BY <1>10, <2>1, <2>2, <2>3 DEF Counted
<1>16. ASSUME NEW e \in Items, e # d PROVE Recorded(e)' /\ Made(e)' /\ Counted(e)'
  <2>1. Recorded(e) /\ Made(e) /\ Counted(e)
    BY DEF HistoryInv
  <2>2. /\ Done(e)' = Done(e) /\ revisions'[e] = revisions[e] /\ state'[e] = state[e]
        /\ \A j \in Done(e) : updates'[j] = updates[j]
    BY <1>6, <1>10, <1>16
  <2>3. Recorded(e)'
    BY <1>11, <2>1, <2>2 DEF Recorded
  <2>4. Made(e)'
    BY <2>1, <2>2 DEF Made
  <2>5. Counted(e)'
    BY <2>1, <2>2 DEF Counted
  <2> QED
    BY <2>3, <2>4, <2>5
<1>17. RowsAfterFirst'
  BY <1>4, <1>7, <1>9, <1>8 DEF HistoryInv, RowsAfterFirst
<1> QED
  BY <1>13, <1>14, <1>15, <1>16, <1>17 DEF HistoryInv

\* Every step keeps the correspondence.
LEMMA NextHistory ==
  ASSUME IInv, HistoryInv, [Next]_vars
  PROVE  HistoryInv'
<1>1. CASE UNCHANGED <<revisions, state, updates>>
  BY <1>1, HistoryKept DEF HistoryInv, RowsAfterFirst, Done
<1>2. CASE ~UNCHANGED <<revisions, state, updates>>
  <2>1. database' # database
    BY <1>2 DEF database
  <2>2. ASSUME NEW d \in Items, NEW r \in Repositories,
               AdvanceSource(d, r) \/ \E outcome \in {"integrated", "conflict"} : Settle(d, r, outcome)
        PROVE  FALSE
    BY <1>2, <2>2 DEF AdvanceSource, Settle
  <2> QED
    BY <2>1, <2>2, DatabaseWritten, StageHistory, ReconciliationErrorHistory, FinalizeHistory
<1> QED
  BY <1>1, <1>2

\* The correspondence holds in every reachable state.
LEMMA HistoryInvariant == Spec => [](IInv /\ HistoryInv)
<1>1. Init => IInv /\ HistoryInv
  BY InitTyped, InitStaged, InitLedger, InitHistory DEF IInv
<1>2. IInv /\ HistoryInv /\ [Next]_vars => (IInv /\ HistoryInv)'
  BY NextTyped, NextStaged, NextLedgerInv, NextHistory DEF IInv
<1> QED
  BY <1>1, <1>2, PTL DEF Spec

\* No update is lost and none is applied twice: the completed updates of an item
\* are as many as the revisions after its first, and each left its own.
THEOREM UpdatesAreRevisions == Spec => []HistoryOfUpdates
<1>1. IInv /\ HistoryInv => HistoryOfUpdates
  <2> SUFFICES ASSUME IInv, HistoryInv, NEW d \in Items
               PROVE  /\ DOMAIN revisions[d] = 1..(Cardinality(Done(d)) + 1)
                      /\ \A k \in Done(d) :
                           revisions[d][updates[k].req.documentRevision + 1].state
                             = StateFromUpdate(updates[k].req)
    BY DEF HistoryOfUpdates, Done
  <2>1. Recorded(d) /\ Counted(d) /\ Parity(d)
    BY DEF HistoryInv, IInv, LedgerInv
  <2> QED
    BY <2>1 DEF Recorded, Counted, Parity
<1> QED
  BY <1>1, HistoryInvariant, PTL

\* An open update can be published until another one takes its revision.
THEOREM ReconciliationStaysPossible == Spec => []ReconciliationActionable
<1>1. IInv /\ HistoryInv => ReconciliationActionable
  <2> SUFFICES ASSUME IInv, HistoryInv, NEW d \in Items, NEW k \in OpenUpdates(d),
                      updates[k].req.documentRevision + 1 \in DOMAIN revisions[d]
               PROVE  Overtaken(k)
    BY DEF ReconciliationActionable
  <2>1. /\ k \in Keys /\ updates[k].req.item = d /\ updates[k].publication # "absent"
        /\ updates[k].publication # "completed"
    BY DEF OpenUpdates, Open
  <2>2. updates[k].req.documentRevision \in Nat /\ updates[k].req.documentRevision >= 1
    BY <2>1, RequestTypes DEF HistoryInv, RowsAfterFirst, IInv, Typed, RowsTyped
  <2>3. DOMAIN revisions[d] = 1..state[d].documentRevision /\ state[d].documentRevision \in Nat
    BY DEF IInv, LedgerInv, Parity
  <2>4. updates[k].req.documentRevision + 1 \in 2..state[d].documentRevision
    BY <2>2, <2>3
  <2>5. PICK j \in Done(d) :
          updates[j].req.documentRevision + 1 = updates[k].req.documentRevision + 1
    BY <2>4 DEF HistoryInv, Made
  <2>6. j \in Keys /\ updates[j].publication = "completed" /\ updates[j].req.item = d
    BY <2>5 DEF Done
  <2>7. updates[j].req.documentRevision \in Nat
    BY <2>6, RequestTypes DEF IInv, Typed, RowsTyped
  <2> QED
    BY <2>1, <2>2, <2>5, <2>6, <2>7 DEF Overtaken
<1> QED
  BY <1>1, HistoryInvariant, PTL

-----------------------------------------------------------------------------
(* The disk and the database, when one process works: an item whose document *)
(* is not the same everywhere has an update that is open, and the process     *)
(* that publishes an update knows how far its document has got.               *)

\* No two processes.
OneProcess == \A p, q \in Processes : p = q

\* Disk, index, HEAD and database hold the same document of an item.
Settled(d) == file[d] = docHash[d] /\ index[d] = docHash[d] /\ tree[d] = docHash[d]

\* What a process that publishes has done so far.
OpenSteps == StagedSteps \ {"resume", "recon"}

Published(p) ==
  LET d == proc[p].req.item
  IN  /\ proc[p].pc \in OpenSteps => Open(updates[proc[p].req.key])
      /\ proc[p].pc \in {"status", "add", "commit", "head", "finalize"} =>
           file[d] = proc[p].candidate
      /\ proc[p].pc \in {"commit", "head", "finalize"} => index[d] = proc[p].candidate
      /\ proc[p].pc \in {"head", "finalize"} => tree[d] = proc[p].candidate

\* The inductive invariant: while nobody edits, what is not settled has an open update.
SettledInv ==
  edits = 0 =>
    /\ \A d \in Items : OpenUpdates(d) = {} => Settled(d)
    /\ \A p \in Processes : Published(p)

\* A process that goes on keeps what it publishes.
LEMMA GotoKeepsCandidate ==
  ASSUME Typed, NEW p \in Processes, NEW pc, Goto(p, pc)
  PROVE  /\ proc'[p].pc = pc /\ proc'[p].req = proc[p].req
         /\ proc'[p].candidate = proc[p].candidate
<1>1. proc[p] \in ProcessStates
  BY DEF Typed, TypeOK
<1> QED
  BY <1>1 DEF Goto, Typed, TypeOK, ProcessStates

\* The item and the key of what a process publishes are of the instance.
LEMMA RequestOf ==
  ASSUME Typed, NEW p \in Processes, proc[p].pc \in StagedSteps
  PROVE  proc[p].req.item \in Items /\ proc[p].req.key \in Keys
BY RequestTypes DEF Typed, ProcessesTyped, At, StagedSteps

\* The commands and the steps before the row.
LEMMA CommandPublishes ==
  ASSUME Typed, NEW p \in Processes, Command(p)
  PROVE  UNCHANGED <<disk, database>> /\ Published(p)'
<1>1. proc'[p].pc \in {"idle", "lookup", "resume"}
  <2>1. ASSUME NEW req, NEW actor, NEW repos, Submit(p, req, actor, repos)
        PROVE  proc'[p].pc \in {"idle", "lookup"}
    <3>1. \/ proc' = [proc EXCEPT ![p] = [Idle("none") EXCEPT
                        !.pc = "lookup", !.req = req, !.actor = actor, !.repos = repos]]
          \/ Return(p, "failed")
      BY <2>1 DEF Submit
    <3> QED
      BY <3>1, AfterReturn DEF Idle, Typed, TypeOK
  <2>2. ASSUME NEW run, NEW d, StartIntegration(p, run, d) PROVE proc'[p].pc = "lookup"
    BY <2>2 DEF StartIntegration, Idle, Typed, TypeOK
  <2>3. ASSUME NEW k, Reconcile(p, k) PROVE proc'[p].pc = "resume"
    BY <2>3 DEF Reconcile, Idle, Typed, TypeOK
  <2> QED
    BY <2>1, <2>2, <2>3 DEF Command
<1>2. UNCHANGED <<disk, database>>
  BY DEF Command, Submit, StartIntegration, Reconcile, Reading
<1> QED
  BY <1>1, <1>2 DEF Published, OpenSteps, StagedSteps

\* The steps that only read.
LEMMA ReadingPublishes ==
  ASSUME Typed, StagedRows, NEW p \in Processes, Published(p),
         \/ Lookup(p) \/ Context(p) \/ Verify(p) \/ RenderStep(p) \/ Resume(p) \/ Reread(p)
         \/ Publish(p) \/ Recheck(p) \/ Status(p) \/ Head(p) \/ FinalizeAgain(p)
  PROVE  UNCHANGED <<disk, database>> /\ Published(p)'
<1>1. proc[p] \in ProcessStates
  BY DEF Typed, TypeOK
<1>2. UNCHANGED <<disk, database>>
  BY DEF Lookup, Context, Verify, RenderStep, Resume, Reread, Publish, Recheck, Status, Head,
         FinalizeAgain, Reading
<1>3. UNCHANGED <<file, index, tree, updates>>
  BY <1>2 DEF disk, database
<1>4. ASSUME NEW answer, Return(p, answer) PROVE Published(p)'
  BY <1>4, AfterReturn DEF Published, OpenSteps, StagedSteps
<1> SUFFICES Published(p)'
  BY <1>2
<1>5. CASE Lookup(p)
  <2>1. \/ \E pc \in {"context", "resume"} : Goto(p, pc)
        \/ \E answer \in {"completed", "failed"} : Return(p, answer)
    BY <1>5 DEF Lookup
  <2> QED
    BY <1>4, <2>1, GotoKeepsCandidate DEF Published, OpenSteps, StagedSteps
<1>6. CASE Context(p)
  <2>1. CASE Return(p, "failed")
    BY <1>4, <2>1
  <2>2. CASE ~Return(p, "failed")
    <3>1. proc'[p].pc = "verify"
      BY <1>1, <1>6, <2>2 DEF Context, Typed, TypeOK, ProcessStates
    <3> QED
      BY <3>1 DEF Published, OpenSteps, StagedSteps
  <2> QED
    BY <2>1, <2>2
<1>7. CASE Verify(p)
  <2>1. Goto(p, "render") \/ Return(p, "failed")
    BY <1>7 DEF Verify
  <2> QED
    BY <1>4, <2>1, GotoKeepsCandidate DEF Published, OpenSteps, StagedSteps
<1>8. CASE RenderStep(p)
  <2>1. CASE Return(p, "failed")
    BY <1>4, <2>1
  <2>2. CASE ~Return(p, "failed")
    <3>1. proc'[p].pc = "stage"
      BY <1>1, <1>8, <2>2 DEF RenderStep, Typed, TypeOK, ProcessStates
    <3> QED
      BY <3>1 DEF Published, OpenSteps, StagedSteps
  <2> QED
    BY <2>1, <2>2
<1>9. CASE Resume(p)
  <2>1. CASE Return(p, "failed")
    BY <1>4, <2>1
  <2>2. CASE ~Return(p, "failed")
    <3> DEFINE row == updates[proc[p].req.key]
               resumed == [proc[p] EXCEPT !.pc = "reread", !.actor = row.actor,
                                          !.repos = row.repos, !.expected = row.expected]
    <3>1. Open(row) /\ proc' = [proc EXCEPT ![p] = resumed]
      BY <1>9, <2>2 DEF Resume
    <3>2. resumed.pc = "reread" /\ resumed.req = proc[p].req
      BY <1>1 DEF ProcessStates
    <3>3. proc'[p].pc = "reread" /\ proc'[p].req = proc[p].req
      BY <3>1, <3>2 DEF Typed, TypeOK
    <3> QED
      BY <1>3, <3>1, <3>3 DEF Published, OpenSteps, StagedSteps, Open
  <2> QED
    BY <2>1, <2>2
<1>10. CASE Reread(p)
  <2>1. CASE Return(p, "failed")
    BY <1>4, <2>1
  <2>2. CASE ~Return(p, "failed")
    <3>1. proc'[p].pc = "publish" /\ proc'[p].req = proc[p].req /\ proc[p].pc = "reread"
      BY <1>1, <1>10, <2>2 DEF Reread, At, Typed, TypeOK, ProcessStates
    <3> QED
      BY <1>3, <3>1 DEF Published, OpenSteps, StagedSteps, Open
  <2> QED
    BY <2>1, <2>2
<1>11. CASE Publish(p)
  <2>1. /\ proc[p].pc = "publish"
        /\ \/ Goto(p, "recheck") \/ Goto(p, "recon")
           \/ file[proc[p].req.item] = proc[p].candidate /\ Goto(p, "status")
    BY <1>11 DEF Publish, At
  <2> QED
    BY <1>3, <2>1, GotoKeepsCandidate DEF Published, OpenSteps, StagedSteps, Open
<1>12. CASE Recheck(p)
  <2>1. proc[p].pc = "recheck" /\ \E pc \in {"copy", "recon"} : Goto(p, pc)
    BY <1>12 DEF Recheck, At
  <2> QED
    BY <1>3, <2>1, GotoKeepsCandidate DEF Published, OpenSteps, StagedSteps, Open
<1>13. CASE Status(p)
  <2> DEFINE d == proc[p].req.item
  <2>1. /\ proc[p].pc = "status"
        /\ \/ Goto(p, "add")
           \/ file[d] = index[d] /\ index[d] = tree[d] /\ Goto(p, "head")
    BY <1>13 DEF Status, At, PathIsChanged
  <2> QED
    BY <1>3, <2>1, GotoKeepsCandidate DEF Published, OpenSteps, StagedSteps, Open
<1>14. CASE Head(p)
  <2>1. /\ proc[p].pc = "head" /\ proc'[p].pc = "finalize" /\ proc'[p].req = proc[p].req
        /\ proc'[p].candidate = proc[p].candidate
    BY <1>1, <1>14 DEF Head, At, Typed, TypeOK, ProcessStates
  <2> QED
    BY <1>3, <2>1 DEF Published, OpenSteps, StagedSteps, Open
<1>15. CASE FinalizeAgain(p)
  <2>1. Return(p, "completed") \/ Goto(p, "recon")
    BY <1>15 DEF FinalizeAgain
  <2> QED
    BY <1>4, <2>1, GotoKeepsCandidate DEF Published, OpenSteps, StagedSteps
<1> QED
  BY <1>5, <1>6, <1>7, <1>8, <1>9, <1>10, <1>11, <1>12, <1>13, <1>14, <1>15

\* While an update is open the item's document may be anything; what is staged or
\* committed of another item is what its document is.
LEMMA WritingSettles ==
  ASSUME IInv, NEW p \in Processes, Published(p),
         \A d \in Items : OpenUpdates(d) = {} => Settled(d),
         Copy(p) \/ Add(p) \/ Commit(p)
  PROVE  (\A d \in Items : OpenUpdates(d) = {} => Settled(d))' /\ Published(p)'
<1> DEFINE e == proc[p].req.item
<1>1. proc[p].pc \in {"copy", "add", "commit"} /\ UNCHANGED <<docHash, updates>>
  BY DEF Copy, Add, Commit, At, database
<1>2. e \in Items /\ proc[p].req.key \in Keys /\ Typed /\ HasRow(p)
  BY <1>1, RequestOf DEF IInv, StagedRows, StagedSteps
<1>3. Open(updates[proc[p].req.key]) /\ updates[proc[p].req.key].req.item = e
  BY <1>1, <1>2 DEF Published, HasRow, OpenSteps, StagedSteps
<1>4. OpenUpdates(e) # {} /\ \A d \in Items : OpenUpdates(d)' = OpenUpdates(d)
  BY <1>1, <1>2, <1>3 DEF OpenUpdates, Open
<1>5. CASE Copy(p)
  <2>1. /\ file' = [file EXCEPT ![e] = proc[p].candidate] /\ UNCHANGED <<index, tree>>
        /\ Goto(p, "add")
    BY <1>5 DEF Copy
  <2>2. \A d \in Items : OpenUpdates(d)' = {} => Settled(d)'
    BY <1>1, <1>2, <1>4, <2>1 DEF Settled, Typed, TypeOK
  <2>3. /\ proc'[p].pc = "add" /\ proc'[p].req = proc[p].req
        /\ proc'[p].candidate = proc[p].candidate /\ file'[e] = proc[p].candidate
    BY <1>2, <2>1, GotoKeepsCandidate DEF Typed, TypeOK
  <2> QED
    BY <1>1, <1>3, <2>2, <2>3 DEF Published, Open
<1>6. CASE Add(p)
  <2>1. /\ index' = [index EXCEPT ![e] = file[e]] /\ UNCHANGED <<file, tree>>
        /\ Goto(p, "commit") /\ proc[p].pc = "add"
    BY <1>6 DEF Add, At
  <2>2. \A d \in Items : OpenUpdates(d)' = {} => Settled(d)'
    BY <1>1, <1>2, <1>4, <2>1 DEF Settled, Typed, TypeOK
  <2>3. /\ proc'[p].pc = "commit" /\ proc'[p].req = proc[p].req
        /\ proc'[p].candidate = proc[p].candidate /\ file'[e] = file[e] /\ index'[e] = file[e]
    BY <1>2, <2>1, GotoKeepsCandidate DEF Typed, TypeOK
  <2> QED
    BY <1>1, <1>3, <2>1, <2>2, <2>3 DEF Published, Open
<1>7. CASE Commit(p)
  <2>1. /\ tree' = index /\ UNCHANGED <<file, index>> /\ proc[p].pc = "commit"
        /\ \E pc \in {"recon", "head"} : Goto(p, pc)
    BY <1>7 DEF Commit, At
  <2>2. \A d \in Items : OpenUpdates(d)' = {} => Settled(d)'
    BY <1>1, <1>4, <2>1 DEF Settled
  <2>3. /\ proc'[p].pc \in {"recon", "head"} /\ proc'[p].req = proc[p].req
        /\ proc'[p].candidate = proc[p].candidate
    BY <1>2, <2>1, GotoKeepsCandidate
  <2> QED
    BY <1>1, <1>3, <2>1, <2>2, <2>3 DEF Published, Open, OpenSteps, StagedSteps
<1> QED
  BY <1>5, <1>6, <1>7

\* The transactions: a row is opened, closed with everything in place, or kept open.
LEMMA RowsSettle ==
  ASSUME IInv, NEW p \in Processes, Published(p),
         \A d \in Items : OpenUpdates(d) = {} => Settled(d),
         Stage(p) \/ Finalize(p) \/ ReconciliationError(p)
  PROVE  (\A d \in Items : OpenUpdates(d) = {} => Settled(d))' /\ Published(p)'
<1> DEFINE e == proc[p].req.item
           k == proc[p].req.key
<1>1. UNCHANGED <<file, index, tree>> /\ Typed
  BY DEF Stage, Finalize, ReconciliationError, disk, IInv
<1>2. ASSUME NEW answer, Return(p, answer) PROVE Published(p)'
  BY <1>1, <1>2, AfterReturn DEF Published, OpenSteps, StagedSteps
<1>3. CASE Stage(p)
  <2>1. k \in Keys
    BY <1>1, <1>3, RequestTypes DEF Stage, At, Typed, ProcessesTyped
  <2>2. docHash' = docHash
    BY <1>3 DEF Stage
  <2>3. CASE updates' = updates /\ Return(p, "failed")
    BY <1>1, <1>2, <2>2, <2>3 DEF OpenUpdates, Settled
  <2>4. CASE ~(updates' = updates /\ Return(p, "failed"))
    <3>1. /\ updates[k].publication = "absent" /\ Goto(p, "publish")
          /\ updates' = [updates EXCEPT ![k] =
                           [publication |-> "pending", req |-> proc[p].req, actor |-> proc[p].actor,
                            repos |-> proc[p].repos, expected |-> proc[p].expected, commit |-> Torn]]
      BY <1>3, <2>4 DEF Stage
    <3>2. Open(updates'[k]) /\ \A j \in Keys : Open(updates[j]) => updates'[j] = updates[j]
      BY <1>1, <2>1, <3>1 DEF Open, Typed, TypeOK
    <3>3. \A d \in Items : OpenUpdates(d) \subseteq OpenUpdates(d)'
      BY <3>2 DEF OpenUpdates
    <3>4. \A d \in Items : OpenUpdates(d)' = {} => Settled(d)'
      BY <1>1, <2>2, <3>3 DEF Settled
    <3>5. proc'[p].pc = "publish" /\ proc'[p].req = proc[p].req
      BY <1>1, <3>1, GotoKeepsCandidate
    <3> QED
      BY <3>2, <3>4, <3>5 DEF Published, Open
  <2> QED
    BY <2>3, <2>4
<1>4. CASE Finalize(p)
  <2>1. /\ proc[p].pc = "finalize" /\ Return(p, "completed")
        /\ docHash' = [docHash EXCEPT ![e] = proc[p].candidate]
        /\ updates' = [updates EXCEPT ![k] = CompletedRow(updates[k], proc[p].commit)]
    BY <1>4 DEF Finalize, At
  <2>2. e \in Items /\ k \in Keys /\ HasRow(p)
    BY <1>1, <2>1, RequestOf DEF StagedSteps, IInv, StagedRows
  <2>3. file[e] = proc[p].candidate /\ index[e] = proc[p].candidate /\ tree[e] = proc[p].candidate
    BY <2>1 DEF Published
  <2>4. \A j \in Keys : j # k => updates'[j] = updates[j]
    BY <1>1, <2>1, <2>2 DEF Typed, TypeOK
  <2>5. \A d \in Items \ {e} : OpenUpdates(d) \subseteq OpenUpdates(d)'
    BY <2>2, <2>4 DEF OpenUpdates, HasRow
  <2>6. \A d \in Items : OpenUpdates(d)' = {} => Settled(d)'
    BY <1>1, <2>1, <2>2, <2>3, <2>5 DEF Settled, Typed, TypeOK
  <2> QED
    BY <1>2, <2>1, <2>6
<1>5. CASE ReconciliationError(p)
  <2>1. /\ proc[p].pc = "recon" /\ Return(p, "reconcile") /\ docHash' = docHash
        /\ updates' = IF updates[k].publication = "completed" THEN updates
                      ELSE [updates EXCEPT ![k].publication = "reconciliation_required"]
    BY <1>5 DEF ReconciliationError, At
  <2>2. k \in Keys /\ HasRow(p) /\ updates[k] \in Rows
    BY <1>1, <2>1, RequestOf DEF StagedSteps, IInv, StagedRows, Typed, TypeOK
  <2>3. \A j \in Keys : Open(updates[j]) => Open(updates'[j]) /\ updates'[j].req = updates[j].req
    BY <1>1, <2>1, <2>2 DEF Open, Typed, TypeOK, Rows
  <2>4. \A d \in Items : OpenUpdates(d) \subseteq OpenUpdates(d)'
    BY <2>3 DEF OpenUpdates
  <2> QED
    BY <1>1, <1>2, <2>1, <2>4 DEF Settled
<1> QED
  BY <1>3, <1>4, <1>5

\* A command that fails or crashes leaves its row open, whatever it leaves of the document.
LEMMA InterruptionSettles ==
  ASSUME IInv, NEW p \in Processes, Published(p),
         \A d \in Items : OpenUpdates(d) = {} => Settled(d),
         Fault(p) \/ Crash(p)
  PROVE  (\A d \in Items : OpenUpdates(d) = {} => Settled(d))' /\ Published(p)'
<1> DEFINE e == proc[p].req.item
<1>1. /\ UNCHANGED <<index, tree, docHash, updates>> /\ Typed
      /\ \/ file' = file
         \/ proc[p].pc = "copy" /\ file' = [file EXCEPT ![e] = Torn]
  BY DEF Fault, Crash, At, database, IInv
<1>2. Goto(p, "recon") \/ \E answer \in {"none", "failed"} : Return(p, answer)
  BY DEF Fault, Crash
<1>3. Published(p)'
  BY <1>1, <1>2, AfterReturn, GotoKeepsCandidate DEF Published, OpenSteps, StagedSteps
<1>4. \A d \in Items : OpenUpdates(d)' = OpenUpdates(d)
  BY <1>1 DEF OpenUpdates
<1>5. CASE file' = file
  BY <1>1, <1>3, <1>4, <1>5 DEF Settled
<1>6. CASE proc[p].pc = "copy" /\ file' = [file EXCEPT ![e] = Torn]
  <2>1. e \in Items /\ proc[p].req.key \in Keys /\ HasRow(p)
    BY <1>1, <1>6, RequestOf DEF StagedSteps, IInv, StagedRows
  <2>2. OpenUpdates(e) # {}
    BY <1>6, <2>1 DEF Published, HasRow, OpenUpdates, OpenSteps, StagedSteps
  <2> QED
    BY <1>1, <1>3, <1>4, <1>6, <2>1, <2>2 DEF Settled, Typed, TypeOK
<1> QED
  BY <1>1, <1>5, <1>6

\* Every step of the one process, and of the Features around it, keeps the invariant.
LEMMA NextSettles ==
  ASSUME OneProcess, IInv, SettledInv, [Next]_vars
  PROVE  SettledInv'
<1> SUFFICES ASSUME edits' = 0
             PROVE  (\A d \in Items : OpenUpdates(d) = {} => Settled(d))'
                    /\ (\A p \in Processes : Published(p))'
  BY DEF SettledInv
<1>1. ASSUME NEW p \in Processes, Command(p) \/ Step(p) \/ Fault(p) \/ Crash(p)
      PROVE  /\ (\A d \in Items : OpenUpdates(d) = {} => Settled(d))'
             /\ (\A q \in Processes : Published(q))'
  <2>1. edits = 0
    BY <1>1 DEF Command, Submit, StartIntegration, Reconcile, Step, Lookup, Context, Verify,
                RenderStep, Stage, Resume, Reread, Publish, Recheck, Copy, Status, Add, Commit,
                Head, Finalize, FinalizeAgain, ReconciliationError, Fault, Crash, Reading
  <2>2. (\A d \in Items : OpenUpdates(d) = {} => Settled(d)) /\ Published(p)
    BY <2>1 DEF SettledInv
  <2>3. ASSUME UNCHANGED <<disk, database>>
        PROVE  (\A d \in Items : OpenUpdates(d) = {} => Settled(d))'
    BY <2>2, <2>3 DEF disk, database, OpenUpdates, Settled
  <2>4. (\A d \in Items : OpenUpdates(d) = {} => Settled(d))' /\ Published(p)'
    <3>1. CASE Command(p)
      BY <2>3, <3>1, CommandPublishes DEF IInv
    <3>2. CASE Lookup(p) \/ Context(p) \/ Verify(p) \/ RenderStep(p) \/ Resume(p) \/ Reread(p)
               \/ Publish(p) \/ Recheck(p) \/ Status(p) \/ Head(p) \/ FinalizeAgain(p)
      BY <2>2, <2>3, <3>2, ReadingPublishes DEF IInv
    <3>3. CASE Copy(p) \/ Add(p) \/ Commit(p)
      BY <2>2, <3>3, WritingSettles
    <3>4. CASE Stage(p) \/ Finalize(p) \/ ReconciliationError(p)
      BY <2>2, <3>4, RowsSettle
    <3>5. CASE Fault(p) \/ Crash(p)
      BY <2>2, <3>5, InterruptionSettles
    <3> QED
      BY <1>1, <3>1, <3>2, <3>3, <3>4, <3>5 DEF Step
  <2> QED
    BY <2>4 DEF OneProcess
<1>2. CASE \/ \E d \in Items, r \in Repositories :
                AdvanceSource(d, r) \/ \E outcome \in {"integrated", "conflict"} : Settle(d, r, outcome)
           \/ UNCHANGED vars
  <2>1. UNCHANGED <<file, index, tree, docHash, updates, proc, edits>>
    BY <1>2 DEF AdvanceSource, Settle, disk, vars
  <2> QED
    BY <2>1 DEF SettledInv, OpenUpdates, Settled, Published
<1>3. ASSUME NEW d \in Items, ExternalEdit(d) \/ RestoreCommitted(d) PROVE FALSE
  <2>1. edits \in 0..MaxEdits /\ edits' = edits + 1
    BY <1>3 DEF ExternalEdit, RestoreCommitted, IInv, Typed, TypeOK
  <2> QED
    BY <2>1, BoundsAssumption
<1> QED
  BY <1>1, <1>2, <1>3 DEF Next, Environment

\* With one process, after any number of crashes and failed commands, every item without an
\* open update has the same document on disk, in the index, in HEAD and in the database
\* (publish_and_finalize).  With two it has not: one may commit what the other has copied.
THEOREM SettledAlone == OneProcess /\ Spec => []SettledParity
<1> SUFFICES ASSUME OneProcess PROVE Spec => []SettledParity
  OBVIOUS
<1>1. Init => SettledInv
  BY DEF Init, SettledInv, Settled, Published, OpenSteps, StagedSteps, Idle
<1>2. IInv /\ SettledInv /\ [Next]_vars => SettledInv'
  BY NextSettles
<1>3. SettledInv => SettledParity
  BY DEF SettledInv, SettledParity, Settled
<1> QED
  BY <1>1, <1>2, <1>3, Inductive, PTL DEF Spec

================================================================================
