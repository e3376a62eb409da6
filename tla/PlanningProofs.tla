---------------------------- MODULE PlanningProofs -----------------------------
(***************************************************************************)
(* Proofs about the publication of plans and the creation of Features with *)
(* their checkouts, for every set of Features, Epics, slugs, additions and *)
(* processes and every bound.                                              *)
(*                                                                         *)
(* Publishers share working tree, index and HEAD and lock nothing.  What   *)
(* makes a publication whole is that all documents of a plan are staged in *)
(* one step, once each is there, so that whoever commits first commits all *)
(* of them; that a plan which was approved stays as it is; that an         *)
(* addition never has the path of a document of the plan; and that what a  *)
(* publisher has gone past is whole or was passed over while unfilled.     *)
(*                                                                         *)
(* Commands that create Features each commit one row at a time and hold    *)
(* nothing between two steps.  What they know stays true all the same,     *)
(* since no step takes a row back that another has relied on, and what one *)
(* that acts alone has found of Git and of its rows is what it then needs. *)
(***************************************************************************)
EXTENDS MCPlanning, TLAPS

\* The states of a call while it looks at what to publish, publishes, and has
\* written its documents.
Written == {"add", "commit", "head", "rows"}
Publishing == {"compare", "write", "fill"} \cup Written
Checked == {"sources", "reconcile"} \cup Publishing
Phases == {"idle", "create", "propose"} \cup Checked

\* The states of a Feature whose plan was approved, none of which is left.
Approved == {"publishing", "planned", "reconciliation_required"}

\* The addition has not the slug of a document of the plan.
Free(q) == Slug[q] \notin {"plan", "first"}

\* What there is to write of a publication, in the states of its call.
Left(x) ==
  IF x \in Features THEN {PlanDocuments, <<"first">>, <<>>} ELSE {<<Slug[x]>>, <<>>}

\* The paths of what a call has written when todo is left.
Passed(x, todo) ==
  IF todo = <<>> THEN PathsOf(x)
  ELSE IF x \in Features /\ todo = <<"first">> THEN {<<x, "plan">>} ELSE {}

Todos == {<<>>} \cup UNION {Left(x) : x \in Features \cup Additions}

Call == [pc : Phases, of : Publications, seen : 0..MaxMoves, todo : Todos, commit : Nat]

\* The file at every path of S is there, or is staged, or was committed.
There(F, S) == \A d \in S : F[d].form # "absent"
IsStaged(F, S) == \A d \in S : F[d].staged # "absent"
IsCommitted(F, S) == \A d \in S : F[d].first # 0

\* What a call knows of its publication, with files F and Features G.
CallOK(c, F, G) ==
  /\ c.pc # "idle" => c.of # "none"
  /\ c.pc \in {"create", "sources", "reconcile"} => c.of \in Features
  /\ c.pc = "propose" => c.of \in Additions
  /\ c.pc \in Checked /\ c.of \in Features => G[c.of].state \in Approved
  /\ c.pc \in {"propose"} \cup Publishing /\ c.of \in Additions => Free(c.of)
  /\ c.pc \in {"write", "fill"} => c.todo \in Left(c.of) /\ There(F, Passed(c.of, c.todo))
  /\ c.pc = "fill" => c.todo # <<>> /\ F[<<Home(c.of), Head(c.todo)>>].form # "absent"
  /\ c.pc \in Written => There(F, PathsOf(c.of))
  /\ c.pc = "commit" => IsStaged(F, PathsOf(c.of))
  /\ c.pc \in {"head", "rows"} => IsCommitted(F, PathsOf(c.of))
  /\ c.pc = "rows" => \A d \in PathsOf(c.of) : F[d].first <= c.commit

Called ==
  /\ process \in [Processes -> Call]
  /\ \A p \in Processes : CallOK(process[p], file, feature)

\* The parts of TypeOK but for the calls.
Typed ==
  /\ source \in [Features -> 0..MaxMoves]
  /\ feature \in [Features -> [state : States, drafted : 0..MaxMoves]]
  /\ plan \in [Features -> [status : {"none", "awaiting_approval", "rejected", "publishing",
                                      "published"},
                            generation : 0..MaxGenerations, commit : Nat]]
  /\ added \in [Additions -> {"none", "awaiting_approval", "approved", "rejected"}]
  /\ planner \subseteq Features
  /\ rows \subseteq [path : Paths, of : Features \cup Additions, generation : Nat]
  /\ file \in [Paths -> Files]
  /\ head \in Nat
  /\ calls \in 0..MaxCalls /\ faults \in 0..MaxFaults

\* The number of the first commit of a document tells whether there is one, and
\* the documents of a plan are staged and first committed together.
Together ==
  /\ \A d \in Paths :
       /\ file[d].staged = "absent" => file[d].committed = "absent"
       /\ file[d].committed = "absent" <=> file[d].first = 0
       /\ file[d].first <= head
  /\ \A f \in Features :
       LET d == <<f, "plan">>
           e == <<f, "first">>
       IN  /\ file[d].staged = "absent" <=> file[e].staged = "absent"
           /\ file[d].first = file[e].first

\* What has been proposed has not the slug of a document of the plan; a commit
\* that a process or a plan has is one there is.
Proposed == \A q \in Additions : added[q] # "none" => Free(q)
Commits == \A p \in Processes : process[p].commit <= head

\* The paths of a published plan are in one commit, which the recorded one contains.
CommittedTogether ==
  \A f \in Features : plan[f].status = "published" =>
    \E n \in 1..plan[f].commit : \A d \in PathsOf(f) : file[d].first = n
ApprovedTogether == DocumentsAreApproved /\ CommittedTogether

\* The inductive invariant, but for what a path holds when it is committed.
PublicationInv ==
  /\ Typed /\ Called /\ Together /\ Proposed /\ Commits
  /\ ApprovedTogether /\ RowsFollowState

-----------------------------------------------------------------------------
(* The documents of a publication.                                         *)

\* The documents of a plan.
LEMMA PlanPaths ==
  ASSUME NEW f \in Features
  PROVE  /\ PathsOf(f) = {<<f, "plan">>, <<f, "first">>} /\ PathsOf(f) \subseteq Paths
         /\ Home(f) = f /\ Documents(f) = PlanDocuments
<1>1. Documents(f) = <<"plan", "first">> /\ Home(f) = f
  BY DEF Documents, PlanDocuments, Home
<1>2. PathsOf(f) = {<<f, <<"plan", "first">>[i]>> : i \in DOMAIN <<"plan", "first">>}
  BY <1>1 DEF PathsOf
<1>3. DOMAIN <<"plan", "first">> = {1, 2}
  OBVIOUS
<1> QED
  BY <1>1, <1>2, <1>3 DEF Paths, PlanDocuments

\* The document of an addition.
LEMMA AdditionPaths ==
  ASSUME NEW q \in Additions
  PROVE  /\ PathsOf(q) = {<<Of[q], Slug[q]>>} /\ PathsOf(q) \subseteq Paths
         /\ Home(q) = Of[q] /\ Documents(q) = <<Slug[q]>> /\ q \notin Features /\ Of[q] \in Features
<1>1. q \notin Features
  BY NamesAssumption
<1>2. Documents(q) = <<Slug[q]>> /\ Home(q) = Of[q]
  BY <1>1 DEF Documents, Home
<1>3. PathsOf(q) = {<<Of[q], <<Slug[q]>>[i]>> : i \in DOMAIN <<Slug[q]>>}
  BY <1>2 DEF PathsOf
<1>4. DOMAIN <<Slug[q]>> = {1} /\ <<Slug[q]>>[1] = Slug[q]
  OBVIOUS
<1> QED
  BY <1>1, <1>2, <1>3, <1>4, AdditionsAssumption DEF Paths

\* A publication has other paths than the plan of a Feature, unless it is that.
LEMMA ApartFromPlans ==
  ASSUME NEW f \in Features, NEW x \in Features \cup Additions, x # f,
         x \in Additions => Free(x)
  PROVE  PathsOf(x) \cap PathsOf(f) = {}
<1>1. CASE x \in Features
  BY <1>1, PlanPaths
<1>2. CASE x \in Additions
  BY <1>2, PlanPaths, AdditionPaths DEF Free
<1> QED
  BY <1>1, <1>2

\* What is left of a publication, and passed.
LEMMA Passing ==
  ASSUME NEW x \in Features \cup Additions, NEW todo \in Left(x)
  PROVE  /\ Documents(x) \in Left(x) /\ Documents(x) # <<>> /\ Passed(x, Documents(x)) = {}
         /\ todo = <<>> => Passed(x, todo) = PathsOf(x)
         /\ todo # <<>> => /\ Tail(todo) \in Left(x)
                           /\ <<Home(x), Head(todo)>> \in PathsOf(x)
                           /\ Passed(x, Tail(todo)) =
                                Passed(x, todo) \cup {<<Home(x), Head(todo)>>}
<1>1. CASE x \in Features
  <2>1. LET t == <<"plan", "first">>
        IN  Head(t) = "plan" /\ Tail(t) = <<"first">> /\ t # <<>> /\ t # <<"first">>
    OBVIOUS
  <2>2. LET t == <<"first">> IN Head(t) = "first" /\ Tail(t) = <<>> /\ t # <<>>
    OBVIOUS
  <2> QED
    BY <1>1, <2>1, <2>2, PlanPaths DEF Left, Passed, PlanDocuments
<1>2. CASE x \in Additions
  <2>1. LET t == <<Slug[x]>> IN Head(t) = Slug[x] /\ Tail(t) = <<>> /\ t # <<>>
    OBVIOUS
  <2> QED
    BY <1>2, <2>1, AdditionPaths DEF Left, Passed
<1> QED
  BY <1>1, <1>2

-----------------------------------------------------------------------------
(* Calls.                                                                  *)

\* Files and Features as a step may leave them: a document that is there, staged
\* or committed stays so, and a plan that was approved too.
FilesGrow(F, G) ==
  \A d \in Paths :
    /\ F[d].form # "absent" => G[d].form # "absent"
    /\ F[d].staged # "absent" => G[d].staged # "absent"
    /\ F[d].first # 0 => G[d].first = F[d].first
FeaturesStay(F, G) == \A f \in Features : F[f].state \in Approved => G[f].state \in Approved

\* What a call knows stays true.
LEMMA CallStays ==
  ASSUME NEW F, NEW G, FilesGrow(F, G), NEW M, NEW N, FeaturesStay(M, N),
         NEW c \in Call, CallOK(c, F, M)
  PROVE  CallOK(c, G, N)
<1>1. CASE c.pc = "idle"
  BY <1>1 DEF CallOK, Checked, Publishing, Written
<1>2. CASE c.pc # "idle"
  <2>1. c.of \in Features \cup Additions
    BY <1>2 DEF CallOK, Call, Publications
  <2>2. PathsOf(c.of) \subseteq Paths
    BY <2>1, PlanPaths, AdditionPaths
  <2>3. c.todo \in Left(c.of) => Passed(c.of, c.todo) \subseteq PathsOf(c.of)
    BY <2>1, PlanPaths DEF Passed
  <2>4. c.todo \in Left(c.of) /\ c.todo # <<>> => <<Home(c.of), Head(c.todo)>> \in Paths
    BY <2>1, <2>2, Passing
  <2>5. \A S : S \subseteq Paths =>
          /\ (There(F, S) => There(G, S)) /\ (IsStaged(F, S) => IsStaged(G, S))
          /\ IsCommitted(F, S) => IsCommitted(G, S) /\ \A d \in S : G[d].first = F[d].first
    BY DEF FilesGrow, There, IsStaged, IsCommitted
  <2>6. c.of \in Features /\ M[c.of].state \in Approved => N[c.of].state \in Approved
    BY DEF FeaturesStay
  <2>7. c.pc \in {"write", "fill"} => c.todo \in Left(c.of) /\ There(G, Passed(c.of, c.todo))
    BY <2>2, <2>3, <2>5 DEF CallOK
  <2>8. c.pc = "fill" => c.todo # <<>> /\ G[<<Home(c.of), Head(c.todo)>>].form # "absent"
    BY <2>4 DEF CallOK, FilesGrow
  <2>9. c.pc \in Written => There(G, PathsOf(c.of))
    BY <2>2, <2>5 DEF CallOK
  <2>10. c.pc = "commit" => IsStaged(G, PathsOf(c.of))
    BY <2>2, <2>5, <2>9 DEF CallOK, Written
  <2>11. /\ c.pc \in {"head", "rows"} => IsCommitted(G, PathsOf(c.of))
         /\ c.pc = "rows" => \A d \in PathsOf(c.of) : G[d].first <= c.commit
    BY <2>2, <2>5 DEF CallOK
  <2> QED
    BY <2>6, <2>7, <2>8, <2>9, <2>10, <2>11 DEF CallOK
<1> QED
  BY <1>1, <1>2

\* The calls after a step of one of them ...
LEMMA Acting ==
  ASSUME Called, NEW p \in Processes, NEW n \in Call, process' = [process EXCEPT ![p] = n],
         CallOK(n, file', feature'), FilesGrow(file, file'), FeaturesStay(feature, feature')
  PROVE  Called'
<1>1. process' \in [Processes -> Call]
  BY DEF Called
<1>2. ASSUME NEW q \in Processes PROVE CallOK(process'[q], file', feature')
  <2>1. CASE q = p
    BY <2>1 DEF Called
  <2>2. CASE q # p
    <3>1. process'[q] = process[q] /\ process[q] \in Call /\ CallOK(process[q], file, feature)
      BY <2>2 DEF Called
    <3> QED
      BY <3>1, CallStays
  <2> QED
    BY <2>1, <2>2
<1> QED
  BY <1>1, <1>2 DEF Called

\* ... and after a step of none.
LEMMA NobodyActs ==
  ASSUME Called, process' = process, FilesGrow(file, file'), FeaturesStay(feature, feature')
  PROVE  Called'
<1>1. ASSUME NEW q \in Processes PROVE CallOK(process[q], file', feature')
  BY CallStays DEF Called
<1> QED
  BY <1>1 DEF Called

\* Nothing happens to files, or to Features.
LEMMA Unchanged ==
  /\ UNCHANGED file => FilesGrow(file, file')
  /\ UNCHANGED feature => FeaturesStay(feature, feature')
BY DEF FilesGrow, FeaturesStay

\* A call that is over.
LEMMA NoCallOK ==
  /\ NoCall \in Call /\ NoCall.commit = 0
  /\ \A F, G : CallOK(NoCall, F, G)
<1>1. 0 \in 0..MaxMoves /\ "none" \in Publications /\ <<>> \in Todos /\ "idle" \in Phases
  BY BoundsAssumption DEF Publications, Todos, Phases
<1>2. NoCall \in Call
  BY <1>1 DEF NoCall, Call
<1> QED
  BY <1>2 DEF NoCall, CallOK, Checked, Publishing, Written

\* A step of calls, sources and planners alone.
LEMMA OnlyCalls ==
  ASSUME PublicationInv, UNCHANGED <<feature, plan, added, rows, file, head>>,
         source' \in [Features -> 0..MaxMoves], planner' \subseteq Features,
         calls' \in 0..MaxCalls, faults' \in 0..MaxFaults,
         Called', Commits'
  PROVE  PublicationInv'
<1>1. Typed'
  BY DEF PublicationInv, Typed
<1>2. Together' /\ Proposed'
  BY DEF PublicationInv, Together, Proposed, Free
<1>3. ApprovedTogether'
  BY DEF PublicationInv, ApprovedTogether, DocumentsAreApproved, CommittedTogether, PathsOf,
         Documents, Home
<1>4. RowsFollowState'
  BY DEF PublicationInv, RowsFollowState, In, RowsOf, GenerationOf, PathsOf, Documents, Home
<1> QED
  BY <1>1, <1>2, <1>3, <1>4 DEF PublicationInv

\* One call goes on, and changes nothing but itself.
LEMMA OneCall ==
  ASSUME PublicationInv, UNCHANGED <<source, planner, feature, plan, added, rows, file, head>>,
         calls' \in 0..MaxCalls, faults' \in 0..MaxFaults,
         NEW p \in Processes, NEW n \in Call, process' = [process EXCEPT ![p] = n],
         CallOK(n, file, feature), n.commit <= head
  PROVE  PublicationInv'
<1>1. Called'
  BY Acting, Unchanged DEF PublicationInv
<1>2. Commits'
  BY DEF PublicationInv, Called, Commits
<1> QED
  BY <1>1, <1>2, OnlyCalls DEF PublicationInv, Typed

\* A call that starts.
LEMMA Starting ==
  ASSUME PublicationInv, UNCHANGED <<source, planner, feature, plan, added, rows, file, head, faults>>,
         NEW p \in Processes, NEW n \in Call, Start(p, n), CallOK(n, file, feature), n.commit = 0
  PROVE  PublicationInv'
<1>1. calls' \in 0..MaxCalls /\ faults' \in 0..MaxFaults /\ n.commit <= head
  BY BoundsAssumption DEF PublicationInv, Typed, Start
<1>2. process' = [process EXCEPT ![p] = n]
  BY DEF Start
<1> QED
  BY <1>1, <1>2, OneCall

\* The initial state.
LEMMA InitPublication == Init => PublicationInv
<1> SUFFICES ASSUME Init PROVE PublicationInv
  OBVIOUS
<1> USE DEF Init
<1>1. Typed
  <2>1. 0 \in 0..MaxMoves /\ 0 \in 0..MaxGenerations /\ 0 \in 0..MaxCalls /\ 0 \in 0..MaxFaults
    BY BoundsAssumption
  <2> QED
    BY <2>1 DEF Typed, States, Publications, Forms, Files, NoFile
<1>2. Called
  BY NoCallOK DEF Called
<1>3. Together /\ Proposed /\ Commits
  <2>1. \A f \in Features : <<f, "plan">> \in Paths /\ <<f, "first">> \in Paths
    BY DEF Paths
  <2> QED
    BY <2>1, NoCallOK DEF Together, Proposed, Commits, NoFile
<1>4. ApprovedTogether
  <2>1. \A f \in Features : f # "none"
    BY NamesAssumption
  <2> QED
    BY <2>1 DEF ApprovedTogether, DocumentsAreApproved, CommittedTogether, NoFile
<1>5. RowsFollowState
  BY DEF RowsFollowState, In
<1> QED
  BY <1>1, <1>2, <1>3, <1>4, <1>5 DEF PublicationInv

-----------------------------------------------------------------------------
(* Steps of calls alone.                                                   *)

\* A call that only goes to another state.
LEMMA Going ==
  ASSUME Called, NEW p \in Processes, NEW pc \in Phases, Goto(p, pc)
  PROVE  LET n == [process[p] EXCEPT !.pc = pc]
         IN  /\ process' = [process EXCEPT ![p] = n] /\ n \in Call
             /\ n.pc = pc /\ n.of = process[p].of /\ n.todo = process[p].todo
             /\ n.commit = process[p].commit /\ n.seen = process[p].seen
<1>1. process[p] \in Call
  BY DEF Called
<1> QED
  BY <1>1 DEF Goto, Call

\* A call that returns or fails, and changes nothing else.
LEMMA Returning ==
  ASSUME PublicationInv, NEW p \in Processes, Return(p),
         UNCHANGED <<source, planner, feature, plan, added, rows, file, head, calls>>,
         faults' \in 0..MaxFaults
  PROVE  PublicationInv'
<1>1. process' = [process EXCEPT ![p] = NoCall] /\ CallOK(NoCall, file, feature)
  BY NoCallOK DEF Return
<1>2. calls' \in 0..MaxCalls /\ NoCall.commit <= head
  BY NoCallOK DEF PublicationInv, Typed
<1> QED
  BY <1>1, <1>2, NoCallOK, OneCall

\* A call that starts with a publication.
LEMMA StartingAt ==
  ASSUME NEW x \in Features \cup Additions, NEW pc \in Phases, NEW seen \in 0..MaxMoves
  PROVE  LET n == [NoCall EXCEPT !.pc = pc, !.of = x, !.seen = seen]
             m == [NoCall EXCEPT !.pc = pc, !.of = x]
         IN  /\ n \in Call /\ n.pc = pc /\ n.of = x /\ n.commit = 0
             /\ m \in Call /\ m.pc = pc /\ m.of = x /\ m.commit = 0
<1>1. NoCall \in Call /\ NoCall.commit = 0
  BY NoCallOK
<1>2. x \in Publications
  BY DEF Publications
<1> QED
  BY <1>1, <1>2 DEF Call

\* create_feature reads what the Feature will be drafted from.
LEMMA ReadSourcesStep ==
  ASSUME PublicationInv, NEW p \in Processes, NEW f \in Features, ReadSources(p, f)
  PROVE  PublicationInv'
<1>1. PICK seen \in 0..source[f] : Start(p, [NoCall EXCEPT !.pc = "create", !.of = f, !.seen = seen])
  BY DEF ReadSources
<1> DEFINE n == [NoCall EXCEPT !.pc = "create", !.of = f, !.seen = seen]
<1>2. seen \in 0..MaxMoves
  BY BoundsAssumption DEF PublicationInv, Typed
<1>3. n \in Call /\ n.pc = "create" /\ n.of = f /\ n.commit = 0
  <2>1. "create" \in Phases /\ f \in Features \cup Additions
    BY DEF Phases
  <2>2. NoCall \in Call /\ NoCall.commit = 0 /\ f \in Publications
    BY NoCallOK DEF Publications
  <2> QED
    BY <1>2, <2>1, <2>2 DEF Call
<1> HIDE DEF n
<1>4. f # "none"
  BY NamesAssumption
<1>5. CallOK(n, file, feature)
  BY <1>3, <1>4 DEF CallOK, Checked, Publishing, Written
<1>6. Start(p, n)
  BY <1>1 DEF n
<1> QED
  BY <1>3, <1>5, <1>6, Starting DEF ReadSources, records, store

\* publish_approved begins for a proposal that was approved.
LEMMA PublishApprovedStep ==
  ASSUME PublicationInv, NEW p \in Processes, NEW f \in Features, PublishApproved(p, f)
  PROVE  PublicationInv'
<1> DEFINE n == [NoCall EXCEPT !.pc = "sources", !.of = f]
<1>3. n \in Call /\ n.pc = "sources" /\ n.of = f /\ n.commit = 0
  <2>1. "sources" \in Phases /\ f \in Features \cup Additions /\ 0 \in 0..MaxMoves
    BY BoundsAssumption DEF Phases, Checked
  <2> QED
    BY <2>1, StartingAt, Zenon
<1> HIDE DEF n
<1>4. f # "none" /\ feature[f].state \in Approved
  BY NamesAssumption DEF PublishApproved, In, Approved
<1>5. f \notin Additions
  BY NamesAssumption
<1>6. CallOK(n, file, feature)
  BY <1>3, <1>4, <1>5 DEF CallOK, Checked, Publishing, Written
<1>7. Start(p, n)
  BY DEF n, PublishApproved
<1> QED
  BY <1>3, <1>6, <1>7, Starting DEF PublishApproved, records, store

\* A slug that no row has, of a published Feature, is not one of its plan.
LEMMA ReadFeatureStep ==
  ASSUME PublicationInv, NEW p \in Processes, NEW q \in Additions, ReadFeature(p, q)
  PROVE  PublicationInv'
<1> DEFINE n == [NoCall EXCEPT !.pc = "propose", !.of = q]
<1>3. n \in Call /\ n.pc = "propose" /\ n.of = q /\ n.commit = 0
  <2>1. "propose" \in Phases /\ q \in Features \cup Additions /\ 0 \in 0..MaxMoves
    BY BoundsAssumption DEF Phases
  <2> QED
    BY <2>1, StartingAt, Zenon
<1> HIDE DEF n
<1>4. q # "none" /\ q \notin Features
  BY NamesAssumption
<1>5. Free(q)
  <2> DEFINE f == Of[q]
  <2>1. f \in Features /\ In(f, "planned") /\ ~\E r \in rows : r.path \in PathsOf(q)
    BY AdditionPaths DEF ReadFeature, Proposable
  <2>2. RowsOf(f) \subseteq rows
    BY <2>1 DEF PublicationInv, RowsFollowState
  <2> HIDE DEF f
  <2>3. ASSUME NEW d \in PathsOf(f) PROVE d \notin PathsOf(q)
    <3>1. [path |-> d, of |-> f, generation |-> GenerationOf(f)] \in rows
      BY <2>2 DEF RowsOf
    <3> QED
      BY <2>1, <3>1
  <2>4. PathsOf(f) = {<<f, "plan">>, <<f, "first">>} /\ PathsOf(q) = {<<f, Slug[q]>>}
    BY <2>1, PlanPaths, AdditionPaths DEF f
  <2> QED
    BY <2>3, <2>4 DEF Free
<1>6. CallOK(n, file, feature)
  BY <1>3, <1>4, <1>5 DEF CallOK, Checked, Publishing, Written
<1>7. Start(p, n)
  BY DEF n, ReadFeature
<1> QED
  BY <1>3, <1>6, <1>7, Starting DEF ReadFeature, records, store

\* approve begins for an addition that was proposed.
LEMMA ApproveStep ==
  ASSUME PublicationInv, NEW p \in Processes, NEW q \in Additions, Approve(p, q)
  PROVE  PublicationInv'
<1> DEFINE n == [NoCall EXCEPT !.pc = "compare", !.of = q]
<1>3. n \in Call /\ n.pc = "compare" /\ n.of = q /\ n.commit = 0
  <2>1. "compare" \in Phases /\ q \in Features \cup Additions /\ 0 \in 0..MaxMoves
    BY BoundsAssumption DEF Phases, Checked, Publishing
  <2> QED
    BY <2>1, StartingAt, Zenon
<1> HIDE DEF n
<1>4. q # "none" /\ q \notin Features
  BY NamesAssumption
<1>5. Free(q)
  BY DEF PublicationInv, Proposed, Approve
<1>6. CallOK(n, file, feature)
  BY <1>3, <1>4, <1>5 DEF CallOK, Checked, Publishing, Written
<1>7. Start(p, n)
  BY DEF n, Approve
<1> QED
  BY <1>3, <1>6, <1>7, Starting DEF Approve, records, store

\* The sources are compared with the draft.
LEMMA CheckSourcesStep ==
  ASSUME PublicationInv, NEW p \in Processes, CheckSources(p)
  PROVE  PublicationInv'
<1> DEFINE pc == IF source[process[p].of] = feature[process[p].of].drafted
                 THEN "compare" ELSE "reconcile"
           n == [process[p] EXCEPT !.pc = pc]
<1>1. Called /\ Goto(p, pc) /\ pc \in Phases /\ pc \in {"compare", "reconcile"}
  BY DEF PublicationInv, CheckSources, Phases, Checked, Publishing
<1> HIDE DEF pc
<1>2. /\ process' = [process EXCEPT ![p] = n] /\ n \in Call
      /\ n.pc = pc /\ n.of = process[p].of /\ n.commit = process[p].commit
  BY <1>1, Going
<1> HIDE DEF n
<1>3. /\ process[p].of \in Features /\ process[p].of # "none" /\ process[p].of \notin Additions
      /\ feature[process[p].of].state \in Approved
  BY <1>1, NamesAssumption DEF Called, CallOK, CheckSources, At, Checked
<1>4. CallOK(n, file, feature)
  BY <1>1, <1>2, <1>3 DEF CallOK, Checked, Publishing, Written
<1>5. n.commit <= head
  BY <1>2 DEF PublicationInv, Commits
<1>6. /\ UNCHANGED <<source, planner, feature, plan, added, rows, file, head>>
      /\ calls' \in 0..MaxCalls /\ faults' \in 0..MaxFaults
  BY DEF CheckSources, records, store, PublicationInv, Typed
<1> QED
  BY <1>2, <1>4, <1>5, <1>6, OneCall

\* The publication of a call.
LEMMA OfCall ==
  ASSUME Called, NEW p \in Processes, process[p].pc \in Checked
  PROVE  /\ process[p] \in Call /\ CallOK(process[p], file, feature)
         /\ process[p].of \in Features \cup Additions /\ process[p].of # "none"
<1>1. process[p] \in Call /\ CallOK(process[p], file, feature) /\ process[p].pc # "idle"
  BY DEF Called, Checked, Publishing, Written
<1> QED
  BY <1>1 DEF CallOK, Call, Publications

\* A call goes on to another state of the same publication, and nothing else
\* happens.
LEMMA GoingOn ==
  ASSUME PublicationInv, UNCHANGED <<source, planner, records, store, calls, faults>>,
         NEW p \in Processes, NEW n \in Call, process' = [process EXCEPT ![p] = n],
         CallOK(n, file, feature), n.commit <= head
  PROVE  PublicationInv'
<1>1. calls' \in 0..MaxCalls /\ faults' \in 0..MaxFaults
  BY DEF PublicationInv, Typed
<1> QED
  BY <1>1, OneCall DEF records, store

\* The documents that are there are compared, and all are to be written.
LEMMA CompareDocumentsStep ==
  ASSUME PublicationInv, NEW p \in Processes, CompareDocuments(p)
  PROVE  PublicationInv'
<1> DEFINE x == process[p].of
           n == [process[p] EXCEPT !.pc = "write", !.todo = Documents(x)]
<1>1. /\ process[p] \in Call /\ CallOK(process[p], file, feature)
      /\ x \in Features \cup Additions /\ x # "none" /\ process[p].pc = "compare"
  BY OfCall DEF PublicationInv, CompareDocuments, At, Checked, Publishing
<1>2. CASE process' = [process EXCEPT ![p].pc = "write", ![p].todo = Documents(x)]
  <2>1. process' = [process EXCEPT ![p] = n]
    BY <1>2 DEF PublicationInv, Called
  <2>2. /\ Documents(x) \in Left(x) /\ Passed(x, Documents(x)) = {}
        /\ Documents(x) \in Todos
    BY <1>1, Passing DEF Todos, Left
  <2>3. n \in Call /\ n.pc = "write" /\ n.of = x /\ n.todo = Documents(x) /\ n.commit = process[p].commit
    BY <1>1, <2>2 DEF Call, Phases, Checked, Publishing
  <2> HIDE DEF n
  <2>4. CallOK(n, file, feature)
    BY <1>1, <2>2, <2>3 DEF CallOK, Checked, Publishing, Written, There
  <2> QED
    BY <2>1, <2>3, <2>4, GoingOn DEF PublicationInv, Commits, CompareDocuments
<1>3. CASE Return(p)
  BY <1>3, Returning DEF CompareDocuments, records, store, PublicationInv, Typed
<1> QED
  BY <1>2, <1>3 DEF CompareDocuments

\* All documents are written; if none is changed, all are committed.
LEMMA ExamineDocumentsStep ==
  ASSUME PublicationInv, NEW p \in Processes, ExamineDocuments(p)
  PROVE  PublicationInv'
<1> DEFINE x == process[p].of
           pc == IF \E d \in PathsOf(x) : Changed(d) THEN "add" ELSE "head"
           n == [process[p] EXCEPT !.pc = pc]
<1>1. /\ process[p] \in Call /\ CallOK(process[p], file, feature)
      /\ x \in Features \cup Additions /\ x # "none" /\ process[p].pc = "write"
      /\ process[p].todo = <<>>
  BY OfCall DEF PublicationInv, ExamineDocuments, At, Checked, Publishing
<1>2. There(file, PathsOf(x)) /\ PathsOf(x) \subseteq Paths
  BY <1>1, Passing, PlanPaths, AdditionPaths DEF CallOK
<1>3. pc = "head" => IsCommitted(file, PathsOf(x))
  <2> SUFFICES ASSUME NEW d \in PathsOf(x), ~Changed(d) PROVE file[d].first # 0
    BY DEF IsCommitted
  <2>1. d \in Paths /\ file[d].form # "absent" /\ file[d].committed = file[d].form
    BY <1>2 DEF There, Changed
  <2> QED
    BY <2>1 DEF PublicationInv, Together
<1>4. Called /\ Goto(p, pc) /\ pc \in Phases /\ pc \in {"add", "head"}
  BY DEF PublicationInv, ExamineDocuments, Phases, Checked, Publishing, Written
<1> HIDE DEF pc
<1>5. /\ process' = [process EXCEPT ![p] = n] /\ n \in Call
      /\ n.pc = pc /\ n.of = x /\ n.commit = process[p].commit
  BY <1>4, Going
<1> HIDE DEF n
<1>6. CallOK(n, file, feature)
  BY <1>1, <1>2, <1>3, <1>4, <1>5 DEF CallOK, Checked, Publishing, Written
<1> QED
  BY <1>5, <1>6, GoingOn DEF PublicationInv, Commits, ExamineDocuments

\* HEAD is no older than the commit of any document.
LEMMA ReadHeadStep ==
  ASSUME PublicationInv, NEW p \in Processes, ReadHead(p)
  PROVE  PublicationInv'
<1> DEFINE x == process[p].of
           n == [process[p] EXCEPT !.pc = "rows", !.commit = head]
<1>1. /\ process[p] \in Call /\ CallOK(process[p], file, feature)
      /\ x \in Features \cup Additions /\ x # "none" /\ process[p].pc = "head"
  BY OfCall DEF PublicationInv, ReadHead, At, Checked, Publishing, Written
<1>2. process' = [process EXCEPT ![p] = n]
  BY DEF ReadHead, PublicationInv, Called
<1>3. n \in Call /\ n.pc = "rows" /\ n.of = x /\ n.commit = head /\ head \in Nat
  BY <1>1 DEF Call, Phases, Checked, Publishing, Written, PublicationInv, Typed
<1> HIDE DEF n
<1>4. \A d \in PathsOf(x) : file[d].first <= head
  BY <1>1, PlanPaths, AdditionPaths DEF PublicationInv, Together
<1>5. CallOK(n, file, feature)
  BY <1>1, <1>3, <1>4 DEF CallOK, Checked, Publishing, Written
<1>6. n.commit <= head
  BY <1>3
<1> QED
  BY <1>2, <1>3, <1>5, <1>6, GoingOn DEF ReadHead

\* A call fails or is killed.
LEMMA FailStep ==
  ASSUME PublicationInv, NEW p \in Processes, Fail(p)
  PROVE  PublicationInv'
<1>1. faults' \in 0..MaxFaults
  BY BoundsAssumption DEF Fail, PublicationInv, Typed
<1> QED
  BY <1>1, Returning DEF Fail, records, store

\* The steps around the calls that touch no row and no file.
LEMMA OthersStep ==
  ASSUME PublicationInv, NEW f \in Features, MoveSources(f) \/ EndPlanner(f)
  PROVE  PublicationInv'
<1>1. UNCHANGED <<feature, plan, added, rows, file, head, process, calls, faults>>
  BY DEF MoveSources, EndPlanner, records, store
<1>2. source' \in [Features -> 0..MaxMoves] /\ planner' \subseteq Features
  <2>1. CASE MoveSources(f)
    BY <2>1, BoundsAssumption DEF MoveSources, PublicationInv, Typed
  <2>2. CASE EndPlanner(f)
    BY <2>2 DEF EndPlanner, PublicationInv, Typed
  <2> QED
    BY <2>1, <2>2
<1>3. Called' /\ Commits'
  BY <1>1, NobodyActs, Unchanged DEF PublicationInv, Commits
<1> QED
  BY <1>1, <1>2, <1>3, OnlyCalls DEF PublicationInv, Typed

\* The calls when one of them returns and what the others know stays.
LEMMA ReturnKeeps ==
  ASSUME PublicationInv, NEW p \in Processes, Return(p), FilesGrow(file, file'),
         FeaturesStay(feature, feature'), head' = head
  PROVE  Called' /\ Commits'
<1>1. /\ process' = [process EXCEPT ![p] = NoCall] /\ NoCall \in Call
      /\ CallOK(NoCall, file', feature') /\ NoCall.commit = 0
  BY NoCallOK DEF Return
<1>2. Called'
  BY <1>1, Acting DEF PublicationInv
<1>3. ASSUME NEW q \in Processes PROVE process'[q].commit <= head'
  <2>1. process[q].commit <= head /\ 0 <= head /\ process \in [Processes -> Call]
    BY DEF PublicationInv, Commits, Called, Typed
  <2>2. process'[q] = process[q] \/ process'[q] = NoCall
    BY <1>1, <2>1
  <2> QED
    BY <1>1, <2>1, <2>2
<1> QED
  BY <1>2, <1>3 DEF Commits

-----------------------------------------------------------------------------
(* Steps of Features.                                                      *)

Statuses == {"none", "awaiting_approval", "rejected", "publishing", "published"}

\* A Feature that is not published, and will not be by this step, gets another
\* state or another proposal; when it is approved it stays so, with its proposal.
LEMMA FeatureMoves ==
  ASSUME PublicationInv, UNCHANGED <<source, added, rows, store, calls, faults>>,
         planner' \subseteq Features,
         process' = process \/ \E p \in Processes : Return(p),
         NEW f \in Features, ~In(f, "planned"),
         NEW r \in [state : States \ {"planned"}, drafted : 0..MaxMoves],
         NEW s \in [status : Statuses \ {"published"}, generation : 0..MaxGenerations, commit : Nat],
         feature' = [feature EXCEPT ![f] = r], plan' = [plan EXCEPT ![f] = s],
         In(f, "publishing") \/ In(f, "reconciliation_required") =>
           r.state \in Approved /\ s.generation = plan[f].generation
  PROVE  PublicationInv'
<1>1. /\ feature'[f] = r /\ plan'[f] = s /\ ~In(f, "planned")'
      /\ \A g \in Features : g # f => feature'[g] = feature[g] /\ plan'[g] = plan[g]
      /\ file' = file /\ head' = head
  BY DEF PublicationInv, Typed, In, store
<1>2. Typed'
  <2>1. r \in [state : States, drafted : 0..MaxMoves]
    OBVIOUS
  <2>2. s \in [status : Statuses, generation : 0..MaxGenerations, commit : Nat]
    OBVIOUS
  <2>3. feature' \in [Features -> [state : States, drafted : 0..MaxMoves]]
    BY <2>1 DEF PublicationInv, Typed
  <2>4. plan' \in [Features -> [status : Statuses, generation : 0..MaxGenerations, commit : Nat]]
    BY <2>2 DEF PublicationInv, Typed, Statuses
  <2> QED
    BY <1>1, <2>3, <2>4 DEF PublicationInv, Typed, Statuses
<1>3. FilesGrow(file, file') /\ FeaturesStay(feature, feature')
  BY <1>1 DEF FilesGrow, FeaturesStay, Approved, In
<1>4. Called' /\ Commits'
  <2>1. CASE process' = process
    BY <1>1, <1>3, <2>1, NobodyActs DEF PublicationInv, Commits
  <2>2. ASSUME NEW p \in Processes, Return(p) PROVE Called' /\ Commits'
    BY <1>1, <1>3, <2>2, ReturnKeeps
  <2> QED
    BY <2>1, <2>2
<1>5. Together' /\ Proposed'
  BY <1>1 DEF PublicationInv, Together, Proposed, Free
<1>6. ApprovedTogether'
  <2>1. DocumentsAreApproved'
    <3> SUFFICES ASSUME NEW d \in Paths, file[d].of \in Features
                 PROVE  /\ feature'[file[d].of].state \in Approved
                        /\ file[d].generation = plan'[file[d].of].generation
      BY <1>1 DEF DocumentsAreApproved, Approved
    <3>1. /\ feature[file[d].of].state \in Approved
          /\ file[d].generation = plan[file[d].of].generation
      BY DEF PublicationInv, ApprovedTogether, DocumentsAreApproved, Approved
    <3> QED
      BY <1>1, <3>1 DEF Approved, In
  <2>2. CommittedTogether'
    BY <1>1 DEF PublicationInv, ApprovedTogether, CommittedTogether, PathsOf, Documents, Home
  <2> QED
    BY <2>1, <2>2 DEF ApprovedTogether
<1>7. RowsFollowState'
  <2> SUFFICES ASSUME NEW g \in Features
               PROVE  /\ feature'[g].state = "planned" <=> plan'[g].status = "published"
                      /\ {w \in rows : w.of = g} =
                           IF feature'[g].state = "planned" THEN RowsOf(g)' ELSE {}
    BY DEF RowsFollowState, In
  <2>1. /\ feature[g].state = "planned" <=> plan[g].status = "published"
        /\ {w \in rows : w.of = g} = IF feature[g].state = "planned" THEN RowsOf(g) ELSE {}
    BY DEF PublicationInv, RowsFollowState, In
  <2>2. g # f => RowsOf(g)' = RowsOf(g)
    BY <1>1 DEF RowsOf, GenerationOf, PathsOf, Documents, Home
  <2>3. r.state # "planned" /\ s.status # "published"
    OBVIOUS
  <2> QED
    BY <1>1, <2>1, <2>2, <2>3 DEF In
<1> QED
  BY <1>2, <1>4, <1>5, <1>6, <1>7 DEF PublicationInv

\* The rows of a Feature are what they are declared to be.
LEMMA RowTypes ==
  ASSUME PublicationInv, NEW f \in Features
  PROVE  /\ feature[f] \in [state : States, drafted : 0..MaxMoves]
         /\ plan[f] \in [status : Statuses, generation : 0..MaxGenerations, commit : Nat]
         /\ ~In(f, "planned") =>
              plan[f] \in [status : Statuses \ {"published"}, generation : 0..MaxGenerations,
                           commit : Nat]
         /\ feature = [feature EXCEPT ![f] = feature[f]]
         /\ plan = [plan EXCEPT ![f] = plan[f]]
<1>1. feature[f] \in [state : States, drafted : 0..MaxMoves]
  BY DEF PublicationInv, Typed
<1>2. plan[f] \in [status : Statuses, generation : 0..MaxGenerations, commit : Nat]
  BY DEF PublicationInv, Typed, Statuses
<1>3. ~In(f, "planned") => plan[f].status # "published"
  BY DEF PublicationInv, RowsFollowState
<1>4. feature = [feature EXCEPT ![f] = feature[f]]
  BY DEF PublicationInv, Typed
<1>5. plan = [plan EXCEPT ![f] = plan[f]]
  BY DEF PublicationInv, Typed
<1>6. ~In(f, "planned") =>
        plan[f] \in [status : Statuses \ {"published"}, generation : 0..MaxGenerations, commit : Nat]
  BY <1>2, <1>3
<1> QED
  BY <1>1, <1>2, <1>4, <1>5, <1>6

\* A Feature whose proposal stays gets another state.
LEMMA StateMoves ==
  ASSUME PublicationInv, UNCHANGED <<source, plan, added, rows, store, calls, faults>>,
         planner' \subseteq Features,
         process' = process \/ \E p \in Processes : Return(p),
         NEW f \in Features, ~In(f, "planned"), NEW state \in States \ {"planned"},
         feature' = [feature EXCEPT ![f].state = state],
         In(f, "publishing") \/ In(f, "reconciliation_required") => state \in Approved
  PROVE  PublicationInv'
<1> DEFINE r == [feature[f] EXCEPT !.state = state]
<1>1. feature' = [feature EXCEPT ![f] = r] /\ plan' = [plan EXCEPT ![f] = plan[f]]
  BY RowTypes DEF PublicationInv, Typed
<1>2. r \in [state : States \ {"planned"}, drafted : 0..MaxMoves] /\ r.state = state
  BY RowTypes
<1> HIDE DEF r
<1>3. /\ plan[f] \in [status : Statuses \ {"published"}, generation : 0..MaxGenerations,
                       commit : Nat]
  BY RowTypes
<1>4. UNCHANGED <<source, added, rows, store, calls, faults>>
  OBVIOUS
<1>5. In(f, "publishing") \/ In(f, "reconciliation_required") =>
        r.state \in Approved /\ plan[f].generation = plan[f].generation
  BY <1>2
<1>6. process' = process \/ \E p \in Processes : Return(p)
  OBVIOUS
<1> DEFINE s == plan[f]
<1>7. /\ s \in [status : Statuses \ {"published"}, generation : 0..MaxGenerations, commit : Nat]
      /\ plan' = [plan EXCEPT ![f] = s] /\ s.generation = plan[f].generation
  BY <1>1, <1>3
<1> HIDE DEF s
<1> QED
  BY ZenonT(60), <1>1, <1>2, <1>4, <1>5, <1>6, <1>7, FeatureMoves

\* A Feature is created if there is none.
LEMMA CreateFeatureStep ==
  ASSUME PublicationInv, NEW p \in Processes, CreateFeature(p)
  PROVE  PublicationInv'
<1> DEFINE f == process[p].of
           r == [state |-> "worktree_pending", drafted |-> process[p].seen]
<1>1. process[p] \in Call /\ CallOK(process[p], file, feature) /\ process[p].pc = "create"
  BY DEF PublicationInv, Called, CreateFeature, At
<1>2. f \in Features /\ process[p].seen \in 0..MaxMoves
  BY <1>1 DEF CallOK, Call
<1>3. CASE In(f, "absent")
  <2>1. feature' = [feature EXCEPT ![f] = r] /\ plan' = [plan EXCEPT ![f] = plan[f]]
    BY <1>2, <1>3, RowTypes DEF CreateFeature
  <2>2. r \in [state : States \ {"planned"}, drafted : 0..MaxMoves]
    BY <1>2 DEF States
  <2> HIDE DEF r
  <2>3. /\ plan[f] \in [status : Statuses \ {"published"}, generation : 0..MaxGenerations,
                         commit : Nat]
        /\ ~In(f, "planned") /\ ~In(f, "publishing") /\ ~In(f, "reconciliation_required")
    BY <1>2, <1>3, RowTypes DEF In
  <2>4. /\ UNCHANGED <<source, added, rows, store, calls, faults>> /\ planner' \subseteq Features
        /\ \E q \in Processes : Return(q)
    BY DEF CreateFeature, PublicationInv, Typed
  <2> HIDE DEF f
  <2> QED
    BY <1>2, <2>1, <2>2, <2>3, <2>4, FeatureMoves
<1>4. CASE ~In(f, "absent")
  BY <1>4, Returning DEF CreateFeature, store, PublicationInv, Typed
<1> QED
  BY <1>3, <1>4

\* A published Feature is not marked for reconciliation.
LEMMA MarkReconciliationStep ==
  ASSUME PublicationInv, NEW p \in Processes, MarkReconciliation(p)
  PROVE  PublicationInv'
<1> DEFINE f == process[p].of
<1>1. process[p] \in Call /\ CallOK(process[p], file, feature) /\ process[p].pc = "reconcile"
  BY DEF PublicationInv, Called, MarkReconciliation, At
<1>2. f \in Features
  BY <1>1 DEF CallOK
<1>3. CASE MayReconcile(f)
  <2>1. /\ feature' = [feature EXCEPT ![f].state = "reconciliation_required"]
        /\ ~In(f, "planned") /\ "reconciliation_required" \in States \ {"planned"}
        /\ "reconciliation_required" \in Approved
    BY <1>3 DEF MarkReconciliation, MayReconcile, ReconcilableStates, In, States, Approved
  <2>2. /\ UNCHANGED <<source, plan, added, rows, store, calls, faults>> /\ planner' \subseteq Features
        /\ \E q \in Processes : Return(q)
    BY DEF MarkReconciliation, PublicationInv, Typed
  <2> HIDE DEF f
  <2> QED
    BY <1>2, <2>1, <2>2, StateMoves
<1>4. CASE ~MayReconcile(f)
  BY <1>4, Returning DEF MarkReconciliation, store, PublicationInv, Typed
<1> QED
  BY <1>3, <1>4

\* A launch is recorded, or a planner bound, which leaves a published Feature as it is.
LEMMA PlannerStep ==
  ASSUME PublicationInv, NEW f \in Features, MarkLaunchPending(f) \/ BindPlanner(f)
  PROVE  PublicationInv'
<1>1. /\ UNCHANGED <<source, plan, added, rows, store, process, calls, faults>>
      /\ planner' \subseteq Features
  BY DEF MarkLaunchPending, BindPlanner, PublicationInv, Typed
<1>2. CASE In(f, "planned")
  <2>1. feature' = feature
    BY <1>2, RowTypes DEF MarkLaunchPending, BindPlanner, In, Activated
  <2>2. Called' /\ Commits'
    BY <1>1, <2>1, NobodyActs, Unchanged DEF PublicationInv, Commits, store
  <2>3. /\ UNCHANGED <<feature, plan, added, rows, file, head>>
        /\ source' \in [Features -> 0..MaxMoves] /\ calls' \in 0..MaxCalls /\ faults' \in 0..MaxFaults
    BY <1>1, <2>1 DEF store, PublicationInv, Typed
  <2> QED
    BY <1>1, <2>2, <2>3, OnlyCalls
<1>3. CASE ~In(f, "planned")
  <2>1. PICK state \in {"planning_launch_pending", "planning_active"} :
          feature' = [feature EXCEPT ![f].state = state]
    BY <1>3 DEF MarkLaunchPending, BindPlanner, In, Activated
  <2>2. ~In(f, "publishing") /\ ~In(f, "reconciliation_required")
    BY DEF MarkLaunchPending, BindPlanner, In
  <2>3. state \in States \ {"planned"}
    BY <2>1 DEF States
  <2> QED
    BY <1>1, <1>3, <2>1, <2>2, <2>3, StateMoves
<1> QED
  BY <1>2, <1>3

\* A proposal is submitted, or decided.
LEMMA ProposalStep ==
  ASSUME PublicationInv, NEW f \in Features,
         \/ SubmitProposal(f) \/ RequestProposalRevision(f) \/ RejectProposal(f)
         \/ ApproveProposal(f)
  PROVE  PublicationInv'
<1>1. /\ UNCHANGED <<source, added, planner, rows, store, process, calls, faults>>
      /\ In(f, "planning_active") \/ In(f, "awaiting_approval")
  BY DEF SubmitProposal, RequestProposalRevision, RejectProposal, ApproveProposal, Decide, Decidable
<1>2. PICK state \in States \ {"planned"} : feature' = [feature EXCEPT ![f].state = state]
  BY DEF SubmitProposal, RequestProposalRevision, RejectProposal, ApproveProposal, Decide, States
<1>3. /\ plan[f] \in [status : Statuses \ {"published"}, generation : 0..MaxGenerations, commit : Nat]
      /\ feature[f] \in [state : States, drafted : 0..MaxMoves]
      /\ ~In(f, "planned") /\ ~In(f, "publishing") /\ ~In(f, "reconciliation_required")
  BY <1>1, RowTypes DEF In
<1> DEFINE r == [feature[f] EXCEPT !.state = state]
<1>4. feature' = [feature EXCEPT ![f] = r] /\ r \in [state : States \ {"planned"}, drafted : 0..MaxMoves]
  BY <1>2, <1>3 DEF PublicationInv, Typed
<1> HIDE DEF r
<1>5. PICK s \in [status : Statuses \ {"published"}, generation : 0..MaxGenerations, commit : Nat] :
        plan' = [plan EXCEPT ![f] = s]
  <2>1. CASE SubmitProposal(f)
    <3> DEFINE s == [status |-> "awaiting_approval", generation |-> plan[f].generation + 1, commit |-> 0]
    <3>1. plan' = [plan EXCEPT ![f] = s] /\ plan[f].generation < MaxGenerations
      BY <2>1 DEF SubmitProposal
    <3>2. plan[f].generation + 1 \in 0..MaxGenerations
      BY <1>3, <3>1, BoundsAssumption
    <3>3. s \in [status : Statuses \ {"published"}, generation : 0..MaxGenerations, commit : Nat]
      BY <3>2 DEF Statuses
    <3> QED
      BY <3>1, <3>3
  <2>2. CASE RequestProposalRevision(f) \/ RejectProposal(f) \/ ApproveProposal(f)
    <3>1. PICK status \in Statuses \ {"published"} : plan' = [plan EXCEPT ![f].status = status]
      BY <2>2 DEF RequestProposalRevision, RejectProposal, ApproveProposal, Decide, Returned, Statuses
    <3> DEFINE s == [plan[f] EXCEPT !.status = status]
    <3>2. plan' = [plan EXCEPT ![f] = s]
      BY <3>1 DEF PublicationInv, Typed
    <3>3. s \in [status : Statuses \ {"published"}, generation : 0..MaxGenerations, commit : Nat]
      BY <1>3
    <3> QED
      BY <3>2, <3>3
  <2> QED
    BY <2>1, <2>2
<1> QED
  BY <1>1, <1>3, <1>4, <1>5, FeatureMoves DEF PublicationInv, Typed

-----------------------------------------------------------------------------
(* Steps of additions.                                                     *)

\* Additions change, or get their rows.
LEMMA AdditionMoves ==
  ASSUME PublicationInv, UNCHANGED <<source, feature, plan, planner, store, calls, faults>>,
         added' \in [Additions -> {"none", "awaiting_approval", "approved", "rejected"}], Proposed',
         NEW W, W \subseteq [path : Paths, of : Additions, generation : Nat], rows' = rows \cup W,
         Called', Commits'
  PROVE  PublicationInv'
<1>1. \A w \in W : /\ w.of \notin Features
                  /\ w \in [path : Paths, of : Features \cup Additions, generation : Nat]
  BY NamesAssumption
<1>2. Typed'
  BY <1>1 DEF PublicationInv, Typed, store
<1>3. Together'
  BY DEF PublicationInv, Together, store
<1>4. ApprovedTogether'
  BY DEF PublicationInv, ApprovedTogether, DocumentsAreApproved, CommittedTogether, PathsOf,
         Documents, Home, store
<1>5. RowsFollowState'
  <2> SUFFICES ASSUME NEW f \in Features
               PROVE  /\ feature[f].state = "planned" <=> plan[f].status = "published"
                      /\ {w \in rows' : w.of = f} =
                           IF feature[f].state = "planned" THEN RowsOf(f) ELSE {}
    BY DEF RowsFollowState, In, RowsOf, GenerationOf, PathsOf, Documents, Home
  <2>1. {w \in rows' : w.of = f} = {w \in rows : w.of = f}
    BY <1>1
  <2> QED
    BY <2>1 DEF PublicationInv, RowsFollowState, In
<1> QED
  BY <1>2, <1>3, <1>4, <1>5 DEF PublicationInv

\* What is proposed has a slug of its own.
LEMMA ProposeStep ==
  ASSUME PublicationInv, NEW p \in Processes, Propose(p)
  PROVE  PublicationInv'
<1> DEFINE q == process[p].of
<1>1. process[p] \in Call /\ CallOK(process[p], file, feature) /\ process[p].pc = "propose"
  BY DEF PublicationInv, Called, Propose, At
<1>2. q \in Additions /\ Free(q)
  BY <1>1 DEF CallOK
<1>3. /\ added' \in [Additions -> {"none", "awaiting_approval", "approved", "rejected"}]
      /\ \A r \in Additions : added'[r] # "none" => added[r] # "none" \/ r = q
  BY <1>2 DEF Propose, PublicationInv, Typed
<1>4. Proposed'
  BY <1>2, <1>3 DEF PublicationInv, Proposed, Free
<1>5. Called' /\ Commits'
  BY ReturnKeeps, Unchanged DEF Propose, store
<1>6. rows' = rows \cup {} /\ {} \subseteq [path : Paths, of : Additions, generation : Nat]
  BY DEF Propose
<1>7. UNCHANGED <<source, feature, plan, planner, store, calls, faults>>
  BY DEF Propose
<1> QED
  BY <1>3, <1>4, <1>5, <1>6, <1>7, AdditionMoves

\* A rejected addition keeps its slug.
LEMMA RejectStep ==
  ASSUME PublicationInv, NEW q \in Additions, Reject(q)
  PROVE  PublicationInv'
<1>3. /\ added' \in [Additions -> {"none", "awaiting_approval", "approved", "rejected"}]
      /\ \A r \in Additions : added'[r] # "none" => added[r] # "none"
  BY DEF Reject, PublicationInv, Typed
<1>4. Proposed'
  BY <1>3 DEF PublicationInv, Proposed, Free
<1>5. Called' /\ Commits'
  BY NobodyActs, Unchanged DEF Reject, store, PublicationInv, Commits
<1>6. rows' = rows \cup {} /\ {} \subseteq [path : Paths, of : Additions, generation : Nat]
  BY DEF Reject
<1>7. UNCHANGED <<source, feature, plan, planner, store, calls, faults>>
  BY DEF Reject
<1> QED
  BY <1>3, <1>4, <1>5, <1>6, <1>7, AdditionMoves

\* The rows of an addition are none of a plan.
LEMMA MaterialiseAdditionStep ==
  ASSUME PublicationInv, NEW p \in Processes, MaterialiseAddition(p)
  PROVE  PublicationInv'
<1> DEFINE q == process[p].of
<1>1. q \in Additions /\ q \notin Features
  BY NamesAssumption DEF MaterialiseAddition
<1>2. PICK W \in {{}, RowsOf(q)} : rows' = rows \cup W
  BY DEF MaterialiseAddition
<1>3. W \subseteq [path : Paths, of : Additions, generation : Nat]
  <2>1. PathsOf(q) \subseteq Paths /\ GenerationOf(q) = 1
    BY <1>1, AdditionPaths DEF GenerationOf
  <2> QED
    BY <1>1, <1>2, <2>1 DEF RowsOf
<1>4. /\ added' \in [Additions -> {"none", "awaiting_approval", "approved", "rejected"}]
      /\ \A r \in Additions : added'[r] # "none" => added[r] # "none"
  BY <1>1 DEF MaterialiseAddition, PublicationInv, Typed
<1>5. Proposed'
  BY <1>4 DEF PublicationInv, Proposed, Free
<1>6. Called' /\ Commits'
  BY ReturnKeeps, Unchanged DEF MaterialiseAddition, store
<1>7. UNCHANGED <<source, feature, plan, planner, store, calls, faults>>
  BY DEF MaterialiseAddition
<1> QED
  BY <1>2, <1>3, <1>4, <1>5, <1>6, <1>7, AdditionMoves

\* The plan is published: its documents are committed, together, and no later
\* than the commit that is recorded.
LEMMA MaterialiseFeatureStep ==
  ASSUME PublicationInv, NEW p \in Processes, MaterialiseFeature(p)
  PROVE  PublicationInv'
<1> DEFINE f == process[p].of
           c == process[p].commit
<1>1. /\ process[p] \in Call /\ CallOK(process[p], file, feature) /\ process[p].pc = "rows"
      /\ f \in Features
  BY DEF PublicationInv, Called, MaterialiseFeature, At
<1>2. CASE ~In(f, "publishing")
  BY <1>2, Returning DEF MaterialiseFeature, store, PublicationInv, Typed
<1>3. CASE In(f, "publishing")
  <2>1. /\ rows' = rows \cup RowsOf(f) /\ feature' = [feature EXCEPT ![f].state = "planned"]
        /\ plan' = [plan EXCEPT ![f].status = "published", ![f].commit = c]
        /\ UNCHANGED <<source, added, planner, file, head, calls, faults>> /\ Return(p)
    BY <1>3 DEF MaterialiseFeature, store
  <2>2. /\ plan[f] \in [status : Statuses, generation : 0..MaxGenerations, commit : Nat]
        /\ feature[f] \in [state : States, drafted : 0..MaxMoves] /\ c \in Nat
    BY <1>1, RowTypes DEF Call
  <2>3. /\ feature' \in [Features -> [state : States, drafted : 0..MaxMoves]]
        /\ feature'[f].state = "planned"
        /\ \A g \in Features : g # f => feature'[g] = feature[g]
    BY <1>1, <2>1, <2>2 DEF PublicationInv, Typed, States
  <2>4. plan' = [plan EXCEPT ![f] = [plan[f] EXCEPT !.status = "published", !.commit = c]]
    BY <1>1, <2>1 DEF PublicationInv, Typed
  <2>5. /\ plan'[f].status = "published" /\ plan'[f].commit = c
        /\ plan'[f].generation = plan[f].generation
        /\ \A g \in Features : g # f => plan'[g] = plan[g]
    BY <1>1, <2>2, <2>4 DEF PublicationInv, Typed
  <2>6. plan' \in [Features -> [status : Statuses, generation : 0..MaxGenerations, commit : Nat]]
    <3>1. [plan[f] EXCEPT !.status = "published", !.commit = c]
            \in [status : Statuses, generation : 0..MaxGenerations, commit : Nat]
      BY <2>2 DEF Statuses
    <3> HIDE DEF c
    <3> QED
      BY <1>1, <2>4, <3>1 DEF PublicationInv, Typed, Statuses
  <2>7. Typed'
    <3>1. RowsOf(f) \subseteq [path : Paths, of : Features \cup Additions, generation : Nat]
      BY <1>1, <2>2, PlanPaths, BoundsAssumption DEF RowsOf, GenerationOf
    <3> QED
      BY <2>1, <2>3, <2>6, <3>1 DEF PublicationInv, Typed, Statuses
  <2>8. Called' /\ Commits'
    <3>1. FeaturesStay(feature, feature')
      BY <2>3 DEF FeaturesStay, Approved
    <3> QED
      BY <2>1, <3>1, ReturnKeeps, Unchanged
  <2>9. Together' /\ Proposed'
    BY <2>1 DEF PublicationInv, Together, Proposed, Free
  <2>10. ApprovedTogether'
    <3>1. DocumentsAreApproved'
      <4> SUFFICES ASSUME NEW d \in Paths, file[d].of \in Features
                   PROVE  /\ feature'[file[d].of].state \in Approved
                          /\ file[d].generation = plan'[file[d].of].generation
        BY <2>1 DEF DocumentsAreApproved, Approved
      <4>1. /\ feature[file[d].of].state \in Approved
            /\ file[d].generation = plan[file[d].of].generation
        BY DEF PublicationInv, ApprovedTogether, DocumentsAreApproved, Approved
      <4> QED
        BY <2>3, <2>5, <4>1 DEF Approved
    <3>2. CommittedTogether'
      <4> SUFFICES ASSUME NEW g \in Features, plan'[g].status = "published"
                   PROVE  \E n \in 1..plan'[g].commit : \A d \in PathsOf(g) : file[d].first = n
        BY <2>1 DEF CommittedTogether, PathsOf, Documents, Home
      <4>1. CASE g # f
        BY <2>5, <4>1 DEF PublicationInv, ApprovedTogether, CommittedTogether
      <4>2. CASE g = f
        <5> DEFINE n == file[<<f, "plan">>].first
        <5>1. PathsOf(f) = {<<f, "plan">>, <<f, "first">>} /\ <<f, "plan">> \in Paths
          BY <1>1, PlanPaths
        <5>2. n # 0 /\ n <= c /\ file[<<f, "first">>].first = n
          BY <1>1, <5>1 DEF CallOK, IsCommitted, PublicationInv, Together
        <5>3. n \in Nat
          BY <5>1 DEF PublicationInv, Typed, Files
        <5>4. n \in 1..c
          BY <2>2, <5>2, <5>3
        <5> HIDE DEF c
        <5> QED
          BY <2>5, <4>2, <5>1, <5>2, <5>4
      <4> QED
        BY <4>1, <4>2
    <3> QED
      BY <3>1, <3>2 DEF ApprovedTogether
  <2>11. RowsFollowState'
    <3> SUFFICES ASSUME NEW g \in Features
                 PROVE  /\ feature'[g].state = "planned" <=> plan'[g].status = "published"
                        /\ {w \in rows' : w.of = g} =
                             IF feature'[g].state = "planned" THEN RowsOf(g)' ELSE {}
      BY DEF RowsFollowState, In
    <3>1. /\ feature[g].state = "planned" <=> plan[g].status = "published"
          /\ {w \in rows : w.of = g} = IF feature[g].state = "planned" THEN RowsOf(g) ELSE {}
      BY DEF PublicationInv, RowsFollowState, In
    <3>2. RowsOf(g)' = RowsOf(g)
      BY <2>5 DEF RowsOf, GenerationOf, PathsOf, Documents, Home
    <3>3. \A w \in RowsOf(f) : w.of = f
      BY DEF RowsOf
    <3>4. g = f => feature[g].state # "planned"
      BY <1>3 DEF In
    <3>5. CASE g = f
      <4>1. {w \in rows : w.of = f} = {}
        BY <3>1, <3>4, <3>5
      <4>2. {w \in rows' : w.of = f} = RowsOf(f)
        BY <2>1, <3>3, <4>1
      <4> HIDE DEF f
      <4> QED
        BY <2>3, <2>5, <3>2, <3>5, <4>2
    <3>6. CASE g # f
      <4>1. {w \in rows' : w.of = g} = {w \in rows : w.of = g}
        BY <2>1, <3>3, <3>6
      <4> HIDE DEF f
      <4> QED
        BY <2>3, <2>5, <3>1, <3>2, <3>6, <4>1
    <3> QED
      BY <3>5, <3>6
  <2> QED
    BY <2>7, <2>8, <2>9, <2>10, <2>11 DEF PublicationInv
<1> QED
  BY <1>2, <1>3

-----------------------------------------------------------------------------
(* Steps of files.                                                         *)

\* Documents that are there, staged or committed stay so, and those there are
\* after the step are of plans that were approved.
LEMMA FilesMove ==
  ASSUME PublicationInv, UNCHANGED <<source, records, planner, calls, faults>>,
         file' \in [Paths -> Files],
         head' \in Nat, head <= head', FilesGrow(file, file'), DocumentsAreApproved', Together',
         NEW p \in Processes, NEW n \in Call, process' = [process EXCEPT ![p] = n],
         CallOK(n, file', feature), n.commit <= head'
  PROVE  PublicationInv'
<1>1. Typed'
  BY DEF PublicationInv, Typed, records
<1>2. Called'
  <2>1. feature' = feature
    BY DEF records
  <2> QED
    BY <2>1, Acting, Unchanged DEF PublicationInv
<1>3. Commits'
  <2> SUFFICES ASSUME NEW q \in Processes PROVE process'[q].commit <= head'
    BY DEF Commits
  <2>1. process[q].commit <= head /\ process[q].commit \in Nat /\ head \in Nat
    BY DEF PublicationInv, Called, Commits, Call, Typed
  <2>2. process'[q] = process[q] \/ process'[q] = n
    BY DEF PublicationInv, Called
  <2> QED
    BY <2>1, <2>2
<1>4. Proposed'
  BY DEF PublicationInv, Proposed, Free, records
<1>5. CommittedTogether'
  <2> SUFFICES ASSUME NEW f \in Features, plan[f].status = "published"
               PROVE  \E m \in 1..plan[f].commit : \A d \in PathsOf(f) : file'[d].first = m
    BY DEF CommittedTogether, PathsOf, Documents, Home, records
  <2>1. PICK m \in 1..plan[f].commit : \A d \in PathsOf(f) : file[d].first = m
    BY DEF PublicationInv, ApprovedTogether, CommittedTogether
  <2>2. m # 0 /\ PathsOf(f) \subseteq Paths
    BY <2>1, PlanPaths
  <2> QED
    BY <2>1, <2>2 DEF FilesGrow
<1>6. RowsFollowState'
  BY DEF PublicationInv, RowsFollowState, In, RowsOf, GenerationOf, PathsOf, Documents, Home, records
<1> QED
  BY <1>1, <1>2, <1>3, <1>4, <1>5, <1>6 DEF PublicationInv, ApprovedTogether

\* What staging and commits make of a file is not who wrote it.
LEMMA SameDocuments ==
  ASSUME PublicationInv, UNCHANGED records,
         \A d \in Paths : file'[d].of = file[d].of /\ file'[d].generation = file[d].generation
  PROVE  DocumentsAreApproved'
BY DEF PublicationInv, ApprovedTogether, DocumentsAreApproved, records

\* A document is created where there is none, or the next one is looked at.
LEMMA CreateDocumentStep ==
  ASSUME PublicationInv, NEW p \in Processes, CreateDocument(p)
  PROVE  PublicationInv'
<1> DEFINE x == process[p].of
           todo == process[p].todo
           d == <<Home(x), Head(todo)>>
<1>1. /\ process[p] \in Call /\ CallOK(process[p], file, feature) /\ process[p].pc = "write"
      /\ x \in Features \cup Additions /\ x # "none" /\ todo # <<>>
  BY OfCall DEF PublicationInv, CreateDocument, At, Checked, Publishing
<1>2. todo \in Left(x) /\ There(file, Passed(x, todo))
  BY <1>1 DEF CallOK
<1>3. /\ d \in PathsOf(x) /\ PathsOf(x) \subseteq Paths /\ Tail(todo) \in Left(x)
      /\ Passed(x, Tail(todo)) = Passed(x, todo) \cup {d}
  BY <1>1, <1>2, Passing, PlanPaths, AdditionPaths
<1>4. UNCHANGED <<source, records, planner, head, calls, faults>>
  BY DEF CreateDocument
<1>5. CASE file[d].form # "absent"
  <2> DEFINE n == [process[p] EXCEPT !.todo = Tail(todo)]
             b == file[d].passed \/ file[d].form = "torn"
             new == [file[d] EXCEPT !.passed = b]
  <2>1. process' = [process EXCEPT ![p] = n] /\ file' = [file EXCEPT ![d] = new]
    BY <1>3, <1>5 DEF CreateDocument, PublicationInv, Called, Typed
  <2>2. /\ n \in Call /\ n.pc = "write" /\ n.of = x /\ n.todo = Tail(todo)
        /\ n.commit = process[p].commit
    BY <1>1, <1>3 DEF Call, Todos
  <2> HIDE DEF n
  <2>3. /\ new \in Files /\ new.of = file[d].of /\ new.generation = file[d].generation
        /\ new.form = file[d].form /\ new.staged = file[d].staged
        /\ new.committed = file[d].committed /\ new.first = file[d].first
    <3>1. file[d] \in Files /\ b \in BOOLEAN
      BY <1>3 DEF PublicationInv, Typed
    <3> HIDE DEF b
    <3> QED
      BY <3>1 DEF Files
  <2> HIDE DEF new, d
  <2>4. /\ file' \in [Paths -> Files]
        /\ \A e \in Paths : /\ file'[e].of = file[e].of /\ file'[e].generation = file[e].generation
                             /\ file'[e].form = file[e].form /\ file'[e].staged = file[e].staged
                             /\ file'[e].committed = file[e].committed
                             /\ file'[e].first = file[e].first
    <3>1. file' \in [Paths -> Files] /\ file'[d] = new
          /\ \A e \in Paths : e # d => file'[e] = file[e]
      BY <1>3, <2>1, <2>3 DEF PublicationInv, Typed
    <3> QED
      BY <2>3, <3>1
  <2>5. FilesGrow(file, file') /\ DocumentsAreApproved'
    BY <1>4, <2>4, SameDocuments DEF FilesGrow
  <2>6. Together'
    <3>1. \A f \in Features : <<f, "plan">> \in Paths /\ <<f, "first">> \in Paths
      BY DEF Paths
    <3> QED
      BY <1>4, <2>4, <3>1 DEF PublicationInv, Together
  <2>7. There(file', Passed(x, Tail(todo)))
    <3>1. Passed(x, todo) \subseteq PathsOf(x)
      BY <1>1, <1>2, PlanPaths DEF Passed
    <3> QED
      BY <1>2, <1>3, <1>5, <2>4, <3>1 DEF There
  <2>8. CallOK(n, file', feature)
    BY <1>1, <1>3, <2>2, <2>7 DEF CallOK, Checked, Publishing, Written
  <2>9. head' \in Nat /\ head <= head' /\ n.commit <= head'
    BY <1>4, <2>2 DEF PublicationInv, Commits, Typed
  <2> QED
    BY <1>4, <2>1, <2>2, <2>4, <2>5, <2>6, <2>8, <2>9, FilesMove
<1>6. CASE file[d].form = "absent"
  <2> DEFINE n == [process[p] EXCEPT !.pc = "fill"]
             new == [file[d] EXCEPT !.of = x, !.generation = GenerationOf(x), !.form = "torn"]
  <2>1. file' = [file EXCEPT ![d] = new] /\ Goto(p, "fill")
    BY <1>3, <1>6 DEF CreateDocument, PublicationInv, Typed
  <2>2. file[d] \in Files
    BY <1>3 DEF PublicationInv, Typed
  <2>3. GenerationOf(x) \in Nat
    BY <1>1, RowTypes, BoundsAssumption DEF GenerationOf
  <2>4. /\ new \in Files
        /\ new.of = x /\ new.generation = GenerationOf(x) /\ new.form = "torn"
        /\ new.staged = file[d].staged /\ new.committed = file[d].committed
        /\ new.first = file[d].first
    BY <1>1, <2>2, <2>3 DEF Publications, Forms, Files
  <2> HIDE DEF new, d
  <2>5. /\ file' \in [Paths -> Files]
        /\ file'[d] = new /\ \A e \in Paths : e # d => file'[e] = file[e]
    BY <1>3, <2>1, <2>4 DEF PublicationInv, Typed
  <2>6. FilesGrow(file, file')
    BY <1>6, <2>4, <2>5 DEF FilesGrow
  <2>7. Together'
    <3>1. \A e \in Paths : /\ file'[e].staged = file[e].staged
                           /\ file'[e].committed = file[e].committed
                           /\ file'[e].first = file[e].first
      BY <2>4, <2>5
    <3>2. \A f \in Features : <<f, "plan">> \in Paths /\ <<f, "first">> \in Paths
      BY DEF Paths
    <3> QED
      BY <1>4, <3>1, <3>2 DEF PublicationInv, Together
  <2>8. DocumentsAreApproved'
    <3> SUFFICES ASSUME NEW e \in Paths, file'[e].of \in Features
                 PROVE  /\ feature[file'[e].of].state \in Approved
                        /\ file'[e].generation = plan[file'[e].of].generation
      BY <1>4 DEF DocumentsAreApproved, Approved, records
    <3>1. CASE e = d
      BY <1>1, <2>4, <2>5, <3>1 DEF CallOK, Checked, Publishing, GenerationOf
    <3>2. CASE e # d
      BY <2>5, <3>2 DEF PublicationInv, ApprovedTogether, DocumentsAreApproved, Approved
    <3> QED
      BY <3>1, <3>2
  <2>9. Called /\ "fill" \in Phases
    BY DEF PublicationInv, Phases, Checked, Publishing
  <2>10. /\ process' = [process EXCEPT ![p] = n] /\ n \in Call /\ n.pc = "fill" /\ n.of = x
         /\ n.todo = todo /\ n.commit = process[p].commit
    BY <2>1, <2>9, Going
  <2> HIDE DEF n
  <2>11. There(file', Passed(x, todo)) /\ file'[<<Home(x), Head(todo)>>].form # "absent"
    <3>1. Passed(x, todo) \subseteq PathsOf(x)
      BY <1>1, <1>2, PlanPaths DEF Passed
    <3> QED
      BY <1>2, <1>3, <2>4, <2>5, <2>6, <3>1 DEF There, FilesGrow, d
  <2>12. CallOK(n, file', feature)
    BY <1>1, <1>2, <2>10, <2>11 DEF CallOK, Checked, Publishing, Written
  <2>13. head' \in Nat /\ head <= head' /\ n.commit <= head'
    BY <1>4, <2>10 DEF PublicationInv, Commits, Typed
  <2> QED
    BY <1>4, <2>5, <2>6, <2>7, <2>8, <2>10, <2>12, <2>13, FilesMove
<1> QED
  BY <1>5, <1>6

\* A document that was created is filled.
LEMMA FillDocumentStep ==
  ASSUME PublicationInv, NEW p \in Processes, FillDocument(p)
  PROVE  PublicationInv'
<1> DEFINE x == process[p].of
           todo == process[p].todo
           d == <<Home(x), Head(todo)>>
           n == [process[p] EXCEPT !.pc = "write", !.todo = Tail(todo)]
           new == [file[d] EXCEPT !.form = "whole"]
<1>1. /\ process[p] \in Call /\ CallOK(process[p], file, feature) /\ process[p].pc = "fill"
      /\ x \in Features \cup Additions /\ x # "none"
  BY OfCall DEF PublicationInv, FillDocument, At, Checked, Publishing
<1>2. todo \in Left(x) /\ There(file, Passed(x, todo)) /\ todo # <<>>
  BY <1>1 DEF CallOK
<1>3. /\ d \in PathsOf(x) /\ PathsOf(x) \subseteq Paths /\ Tail(todo) \in Left(x)
      /\ Passed(x, Tail(todo)) = Passed(x, todo) \cup {d} /\ Passed(x, todo) \subseteq PathsOf(x)
  BY <1>1, <1>2, Passing, PlanPaths, AdditionPaths DEF Passed
<1>4. UNCHANGED <<source, records, planner, head, calls, faults>>
  BY DEF FillDocument
<1>5. file' = [file EXCEPT ![d] = new] /\ process' = [process EXCEPT ![p] = n]
  BY <1>3 DEF FillDocument, PublicationInv, Typed, Called
<1>6. /\ new \in Files
      /\ new.of = file[d].of /\ new.generation = file[d].generation /\ new.form = "whole"
      /\ new.staged = file[d].staged /\ new.committed = file[d].committed
      /\ new.first = file[d].first
  <2>1. file[d] \in Files
    BY <1>3 DEF PublicationInv, Typed
  <2> HIDE DEF d
  <2> QED
    BY <2>1 DEF Files, Forms
<1>7. /\ n \in Call /\ n.pc = "write" /\ n.of = x /\ n.todo = Tail(todo)
      /\ n.commit = process[p].commit
  BY <1>1, <1>3 DEF Call, Todos, Phases, Checked, Publishing
<1> HIDE DEF new, d, n
<1>8. /\ file' \in [Paths -> Files]
      /\ file'[d] = new /\ \A e \in Paths : e # d => file'[e] = file[e]
  BY <1>3, <1>5, <1>6 DEF PublicationInv, Typed
<1>9. FilesGrow(file, file') /\ file'[d].form # "absent"
  BY <1>6, <1>8 DEF FilesGrow
<1>10. DocumentsAreApproved'
  <2>1. \A e \in Paths : file'[e].of = file[e].of /\ file'[e].generation = file[e].generation
    BY <1>6, <1>8
  <2> QED
    BY <1>4, <2>1, SameDocuments
<1>11. Together'
  <2>1. \A e \in Paths : /\ file'[e].staged = file[e].staged
                         /\ file'[e].committed = file[e].committed
                         /\ file'[e].first = file[e].first
    BY <1>6, <1>8
  <2>2. \A f \in Features : <<f, "plan">> \in Paths /\ <<f, "first">> \in Paths
    BY DEF Paths
  <2> QED
    BY <1>4, <2>1, <2>2 DEF PublicationInv, Together
<1>12. There(file', Passed(x, Tail(todo)))
  <2> SUFFICES ASSUME NEW e \in Passed(x, todo) \cup {d} PROVE file'[e].form # "absent"
    BY <1>3 DEF There
  <2> QED
    BY <1>2, <1>3, <1>9 DEF There, FilesGrow
<1>13. CallOK(n, file', feature)
  BY <1>1, <1>3, <1>7, <1>12 DEF CallOK, Checked, Publishing, Written
<1>14. head' \in Nat /\ head <= head' /\ n.commit <= head'
  BY <1>4, <1>7 DEF PublicationInv, Commits, Typed
<1> QED
  BY <1>4, <1>5, <1>7, <1>8, <1>9, <1>10, <1>11, <1>13, <1>14, FilesMove

\* All documents of a publication are staged in one step.
LEMMA AddDocumentsStep ==
  ASSUME PublicationInv, NEW p \in Processes, AddDocuments(p)
  PROVE  PublicationInv'
<1> DEFINE x == process[p].of
           n == [process[p] EXCEPT !.pc = "commit"]
<1>1. /\ process[p] \in Call /\ CallOK(process[p], file, feature) /\ process[p].pc = "add"
      /\ x \in Features \cup Additions /\ x # "none"
  BY OfCall DEF PublicationInv, AddDocuments, At, Checked, Publishing, Written
<1>2. There(file, PathsOf(x)) /\ (x \in Additions => Free(x))
  BY <1>1 DEF CallOK, Publishing, Written
<1>3. PathsOf(x) \subseteq Paths
  BY <1>1, PlanPaths, AdditionPaths
<1>4. UNCHANGED <<source, records, planner, head, calls, faults>>
  BY DEF AddDocuments
<1>5. Called /\ Goto(p, "commit") /\ "commit" \in Phases
  BY DEF PublicationInv, AddDocuments, Phases, Checked, Publishing, Written
<1>6. /\ process' = [process EXCEPT ![p] = n] /\ n \in Call /\ n.pc = "commit" /\ n.of = x
      /\ n.commit = process[p].commit
  BY <1>5, Going
<1> HIDE DEF n
<1>7. \A e \in Paths : file'[e] = IF e \in PathsOf(x)
                                  THEN [file[e] EXCEPT !.staged = file[e].form] ELSE file[e]
  BY DEF AddDocuments
<1>8. file' \in [Paths -> Files]
  <2>1. \A e \in Paths : file[e] \in Files
    BY DEF PublicationInv, Typed
  <2>2. \A e \in Paths : [file[e] EXCEPT !.staged = file[e].form] \in Files
    BY <2>1 DEF Files
  <2> QED
    BY <2>1, <2>2 DEF AddDocuments
<1>9. \A e \in Paths : /\ file'[e].of = file[e].of /\ file'[e].generation = file[e].generation
                       /\ file'[e].form = file[e].form /\ file'[e].committed = file[e].committed
                       /\ file'[e].first = file[e].first
                       /\ e \in PathsOf(x) => file'[e].staged = file[e].form
                       /\ e \notin PathsOf(x) => file'[e].staged = file[e].staged
  <2> TAKE e \in Paths
  <2>1. file[e] \in Files
    BY DEF PublicationInv, Typed
  <2> DEFINE new == [file[e] EXCEPT !.staged = file[e].form]
  <2> USE DEF Files
  <2>2. /\ new.of = file[e].of /\ new.generation = file[e].generation /\ new.form = file[e].form
        /\ new.committed = file[e].committed /\ new.first = file[e].first
        /\ new.staged = file[e].form
    BY <2>1
  <2>3. file'[e] = IF e \in PathsOf(x) THEN new ELSE file[e]
    BY <1>7
  <2> HIDE DEF new, x
  <2> QED
    BY <2>2, <2>3
<1>10. \A e \in PathsOf(x) : e \in Paths /\ file[e].form # "absent" /\ file'[e].staged # "absent"
  <2> TAKE e \in PathsOf(x)
  <2>1. e \in Paths /\ file[e].form # "absent"
    BY <1>2, <1>3 DEF There
  <2>2. file'[e].staged = file[e].form
    BY <1>9, <2>1
  <2> QED
    BY <2>1, <2>2
<1>11. FilesGrow(file, file')
  BY <1>9, <1>10 DEF FilesGrow
<1>12. DocumentsAreApproved'
  BY <1>4, <1>9, SameDocuments
<1>13. Together'
  <2>1. ASSUME NEW e \in Paths
        PROVE  /\ file'[e].staged = "absent" => file'[e].committed = "absent"
               /\ file'[e].committed = "absent" <=> file'[e].first = 0
               /\ file'[e].first <= head'
    BY <1>4, <1>9, <1>10 DEF PublicationInv, Together
  <2>2. ASSUME NEW f \in Features
        PROVE  /\ file'[<<f, "plan">>].staged = "absent" <=> file'[<<f, "first">>].staged = "absent"
               /\ file'[<<f, "plan">>].first = file'[<<f, "first">>].first
    <3>1. PathsOf(f) = {<<f, "plan">>, <<f, "first">>} /\ PathsOf(f) \subseteq Paths
      BY PlanPaths
    <3>2. x = f \/ PathsOf(x) \cap PathsOf(f) = {}
      <4>1. ASSUME x # f PROVE PathsOf(x) \cap PathsOf(f) = {}
        <5>1. x \in Features \cup Additions /\ (x \in Additions => Free(x))
          BY <1>1, <1>2
        <5> HIDE DEF x
        <5> QED
          BY <4>1, <5>1, ApartFromPlans, Zenon
      <4> QED
        BY <4>1
    <3>3. /\ file[<<f, "plan">>].staged = "absent" <=> file[<<f, "first">>].staged = "absent"
          /\ file[<<f, "plan">>].first = file[<<f, "first">>].first
      BY DEF PublicationInv, Together
    <3> HIDE DEF x
    <3> QED
      BY <1>9, <1>10, <3>1, <3>2, <3>3
  <2> QED
    BY <2>1, <2>2 DEF Together
<1>14. CallOK(n, file', feature)
  <2>1. There(file', PathsOf(x)) /\ IsStaged(file', PathsOf(x))
    BY <1>9, <1>10 DEF There, IsStaged
  <2> QED
    BY <1>1, <1>6, <2>1 DEF CallOK, Checked, Publishing, Written
<1>15. head' \in Nat /\ head <= head' /\ n.commit <= head'
  BY <1>4, <1>6 DEF PublicationInv, Commits, Typed
<1> QED
  BY <1>4, <1>6, <1>8, <1>11, <1>12, <1>13, <1>14, <1>15, FilesMove

\* All that is staged is committed in one step, whoever staged it.
LEMMA CommitDocumentsStep ==
  ASSUME PublicationInv, NEW p \in Processes, CommitDocuments(p)
  PROVE  PublicationInv'
<1> DEFINE x == process[p].of
           n == [process[p] EXCEPT !.pc = "head"]
<1>1. /\ process[p] \in Call /\ CallOK(process[p], file, feature) /\ process[p].pc = "commit"
      /\ x \in Features \cup Additions /\ x # "none"
  BY OfCall DEF PublicationInv, CommitDocuments, At, Checked, Publishing, Written
<1>2. CASE Staged = {} /\ Return(p) /\ UNCHANGED store
  BY <1>2, Returning DEF CommitDocuments, records, store, PublicationInv, Typed
<1>3. CASE Staged # {}
  <2>1. There(file, PathsOf(x)) /\ IsStaged(file, PathsOf(x)) /\ PathsOf(x) \subseteq Paths
    BY <1>1, PlanPaths, AdditionPaths DEF CallOK, Publishing, Written
  <2>2. UNCHANGED <<source, records, planner, calls, faults>> /\ head' = head + 1 /\ head \in Nat
    BY <1>3 DEF CommitDocuments, PublicationInv, Typed
  <2>3. Called /\ Goto(p, "head") /\ "head" \in Phases
    BY <1>3 DEF PublicationInv, CommitDocuments, Phases, Checked, Publishing, Written
  <2>4. /\ process' = [process EXCEPT ![p] = n] /\ n \in Call /\ n.pc = "head" /\ n.of = x
        /\ n.commit = process[p].commit
    BY <2>3, Going
  <2> HIDE DEF n
  <2>5. \A e \in Paths : file[e] \in Files
    BY DEF PublicationInv, Typed
  <2> DEFINE new(e) == [file[e] EXCEPT !.committed = file[e].staged,
                                       !.first = IF file[e].first = 0 THEN head + 1 ELSE file[e].first,
                                       !.as = IF file[e].first = 0 THEN file[e].staged ELSE file[e].as]
  <2>6. file' = [e \in Paths |-> IF e \notin Staged THEN file[e] ELSE new(e)]
    BY <1>3 DEF CommitDocuments
  <2>7. \A e \in Paths :
          /\ new(e) \in Files
          /\ new(e).of = file[e].of /\ new(e).generation = file[e].generation
          /\ new(e).form = file[e].form /\ new(e).staged = file[e].staged
          /\ new(e).committed = file[e].staged
          /\ new(e).first = IF file[e].first = 0 THEN head + 1 ELSE file[e].first
          /\ new(e).as = IF file[e].first = 0 THEN file[e].staged ELSE file[e].as
          /\ new(e).passed = file[e].passed
    <3> TAKE e \in Paths
    <3> DEFINE m == IF file[e].first = 0 THEN head + 1 ELSE file[e].first
               a == IF file[e].first = 0 THEN file[e].staged ELSE file[e].as
    <3>1. m \in Nat /\ a \in Forms /\ file[e].staged \in Forms
      BY <2>2, <2>5 DEF Files
    <3>2. new(e) = [file[e] EXCEPT !.committed = file[e].staged, !.first = m, !.as = a]
      OBVIOUS
    <3> HIDE DEF m, a, new
    <3>3. /\ new(e) \in Files
          /\ new(e).of = file[e].of /\ new(e).generation = file[e].generation
          /\ new(e).form = file[e].form /\ new(e).staged = file[e].staged
          /\ new(e).committed = file[e].staged /\ new(e).first = m
          /\ new(e).as = a /\ new(e).passed = file[e].passed
      BY <2>5, <3>1, <3>2 DEF Files
    <3> QED
      BY <3>3 DEF m, a
  <2> HIDE DEF new
  <2>8. file' \in [Paths -> Files]
    BY <2>5, <2>6, <2>7
  <2>9. \A e \in Paths : /\ file'[e].of = file[e].of /\ file'[e].generation = file[e].generation
                         /\ file'[e].form = file[e].form /\ file'[e].staged = file[e].staged
                         /\ file'[e].committed = file[e].staged
    BY <2>6, <2>7 DEF Staged
  <2>10. \A e \in Paths :
           file'[e].first = IF file[e].staged = file[e].committed \/ file[e].first # 0
                            THEN file[e].first ELSE head + 1
    BY <2>6, <2>7 DEF Staged
  <2>11. \A e \in Paths : /\ file[e].staged = "absent" => file[e].committed = "absent"
                          /\ file[e].committed = "absent" <=> file[e].first = 0
                          /\ file[e].first <= head
    BY DEF PublicationInv, Together
  <2>12. FilesGrow(file, file')
    BY <2>9, <2>10 DEF FilesGrow
  <2>13. DocumentsAreApproved'
    BY <2>2, <2>9, SameDocuments
  <2>14. Together'
    <3>1. ASSUME NEW e \in Paths
          PROVE  /\ file'[e].staged = "absent" => file'[e].committed = "absent"
                 /\ file'[e].committed = "absent" <=> file'[e].first = 0
                 /\ file'[e].first <= head'
      <4>1. file[e].first \in Nat
        BY <2>5 DEF Files
      <4> QED
        BY <2>2, <2>9, <2>10, <2>11, <4>1
    <3>2. ASSUME NEW f \in Features
          PROVE  /\ file'[<<f, "plan">>].staged = "absent" <=> file'[<<f, "first">>].staged = "absent"
                 /\ file'[<<f, "plan">>].first = file'[<<f, "first">>].first
      <4>1. <<f, "plan">> \in Paths /\ <<f, "first">> \in Paths
        BY DEF Paths
      <4>2. /\ file[<<f, "plan">>].staged = "absent" <=> file[<<f, "first">>].staged = "absent"
            /\ file[<<f, "plan">>].first = file[<<f, "first">>].first
        BY DEF PublicationInv, Together
      <4> QED
        BY <2>9, <2>10, <2>11, <4>1, <4>2
    <3> QED
      BY <3>1, <3>2 DEF Together
  <2>15. CallOK(n, file', feature)
    <3>1. There(file', PathsOf(x))
      BY <2>1, <2>9 DEF There
    <3>2. IsCommitted(file', PathsOf(x))
      <4> SUFFICES ASSUME NEW e \in PathsOf(x) PROVE file'[e].first # 0
        BY DEF IsCommitted
      <4>1. e \in Paths /\ file[e].staged # "absent"
        BY <2>1 DEF IsStaged
      <4> QED
        BY <2>2, <2>10, <2>11, <4>1
    <3> QED
      BY <1>1, <2>4, <3>1, <3>2 DEF CallOK, Checked, Publishing, Written
  <2>16. head' \in Nat /\ head <= head' /\ n.commit <= head'
    <3>1. process[p].commit <= head /\ process[p].commit \in Nat
      BY <1>1 DEF PublicationInv, Commits, Call
    <3> QED
      BY <2>2, <2>4, <3>1
  <2> QED
    BY <2>2, <2>4, <2>8, <2>12, <2>13, <2>14, <2>15, <2>16, FilesMove
<1> QED
  BY <1>2, <1>3 DEF CommitDocuments

-----------------------------------------------------------------------------
(* What a path holds when it is committed.                                 *)

\* A document was passed over by nobody while it was unfilled, or that is known.
Sound(r) == r.form = "whole" \/ r.passed

\* So is all that a call has gone past ...
CallSound(c, F) ==
  /\ c.pc \in {"write", "fill"} => \A d \in Passed(c.of, c.todo) : Sound(F[d])
  /\ c.pc \in Written => \A d \in PathsOf(c.of) : Sound(F[d])

\* ... and therefore all that is staged, and all that was committed.
FileSound(r) ==
  /\ r.staged = "torn" => r.passed
  /\ r.as = "torn" => r.passed
  /\ r.first # 0 => r.as # "absent"

Accounted ==
  /\ \A p \in Processes : CallSound(process[p], file)
  /\ \A d \in Paths : FileSound(file[d])

\* A document that is filled, or known to have been passed over, stays so.
StaysSound(F, G) == \A d \in Paths : Sound(F[d]) => Sound(G[d])

\* What a call has gone past has paths.
LEMMA PassedPaths ==
  ASSUME NEW c \in Call, NEW F, NEW M, CallOK(c, F, M)
  PROVE  /\ c.pc \in {"write", "fill"} => Passed(c.of, c.todo) \subseteq Paths
         /\ c.pc \in Written => PathsOf(c.of) \subseteq Paths
<1>1. CASE c.pc \in {"write", "fill"} \cup Written
  <2>1. c.of \in Features \cup Additions
    BY <1>1 DEF CallOK, Call, Publications, Written
  <2>2. PathsOf(c.of) \subseteq Paths /\ Passed(c.of, c.todo) \subseteq PathsOf(c.of)
    BY <2>1, PlanPaths, AdditionPaths DEF Passed
  <2> QED
    BY <2>2
<1> QED
  BY <1>1

\* The calls after a step of one of them.
LEMMA OneSound ==
  ASSUME Called, Accounted, StaysSound(file, file'), NEW p \in Processes, NEW n,
         process' = [process EXCEPT ![p] = n], CallSound(n, file')
  PROVE  \A q \in Processes : CallSound(process'[q], file')
<1> SUFFICES ASSUME NEW q \in Processes PROVE CallSound(process'[q], file')
  OBVIOUS
<1>1. CASE q = p
  BY <1>1 DEF Called
<1>2. CASE q # p
  <2>1. process'[q] = process[q] /\ process[q] \in Call /\ CallOK(process[q], file, feature)
    BY <1>2 DEF Called
  <2>2. CallSound(process[q], file)
    BY DEF Accounted
  <2>3. CallSound(process[q], file')
    BY <2>1, <2>2, PassedPaths DEF CallSound, StaysSound
  <2> QED
    BY <2>1, <2>3
<1> QED
  BY <1>1, <1>2

\* A step of one call, or of none, that touches no file.
LEMMA NoFileMoves ==
  ASSUME Called, Accounted, UNCHANGED file,
         \/ UNCHANGED process
         \/ \E p \in Processes : \E n : process' = [process EXCEPT ![p] = n] /\ CallSound(n, file)
  PROVE  Accounted'
<1>1. StaysSound(file, file')
  BY DEF StaysSound
<1>2. CASE UNCHANGED process
  BY <1>2 DEF Accounted
<1>3. ASSUME NEW p \in Processes, NEW n, process' = [process EXCEPT ![p] = n], CallSound(n, file)
      PROVE  Accounted'
  <2>1. CallSound(n, file')
    BY <1>3
  <2>2. \A q \in Processes : CallSound(process'[q], file')
    BY <1>1, <1>3, <2>1, OneSound
  <2> QED
    BY <2>2 DEF Accounted
<1> QED
  BY <1>2, <1>3

\* A call that returns, or starts, or has not begun to write.
LEMMA SoundBefore ==
  ASSUME NEW c, c.pc \notin {"write", "fill"} \cup Written, NEW F
  PROVE  CallSound(c, F)
BY DEF CallSound

\* Documents change so that what is sound stays so, and one call goes on.
LEMMA FilesSound ==
  ASSUME Called, Accounted, StaysSound(file, file'), \A d \in Paths : FileSound(file'[d]),
         NEW p \in Processes, NEW n, process' = [process EXCEPT ![p] = n], CallSound(n, file')
  PROVE  Accounted'
<1>1. \A q \in Processes : CallSound(process'[q], file')
  BY OneSound
<1> QED
  BY <1>1 DEF Accounted

\* A document is created, filled, or passed over.
LEMMA WritingSound ==
  ASSUME PublicationInv, Accounted, NEW p \in Processes, CreateDocument(p) \/ FillDocument(p)
  PROVE  Accounted'
<1> DEFINE x == process[p].of
           todo == process[p].todo
           d == <<Home(x), Head(todo)>>
<1>1. /\ process[p] \in Call /\ CallOK(process[p], file, feature)
      /\ process[p].pc \in {"write", "fill"} /\ x \in Features \cup Additions
  BY OfCall DEF PublicationInv, CreateDocument, FillDocument, At, Checked, Publishing
<1>2. todo # <<>> /\ todo \in Left(x)
  BY <1>1 DEF CallOK, CreateDocument, FillDocument, At
<1>3. /\ d \in Paths /\ Passed(x, Tail(todo)) = Passed(x, todo) \cup {d}
      /\ Passed(x, Tail(todo)) \subseteq Paths
  <2>1. PathsOf(x) \subseteq Paths /\ Passed(x, todo) \subseteq PathsOf(x)
    BY <1>1, PlanPaths, AdditionPaths DEF Passed
  <2> QED
    BY <1>1, <1>2, <2>1, Passing
<1>4. file[d] \in Files /\ FileSound(file[d]) /\ CallSound(process[p], file)
  BY <1>3 DEF PublicationInv, Typed, Accounted
<1>5. PICK new : /\ file' = [file EXCEPT ![d] = new]
                 /\ new.staged = file[d].staged /\ new.as = file[d].as /\ new.first = file[d].first
                 /\ file[d].passed => new.passed
                 /\ file[d].form = "whole" => new.form = "whole"
                 /\ \/ process'[p].pc = "write" /\ process'[p].todo = Tail(todo) /\ Sound(new)
                    \/ process'[p].pc = "fill" /\ process'[p].todo = todo
  <2>1. CASE CreateDocument(p) /\ file[d].form = "absent"
    <3> DEFINE new == [file[d] EXCEPT !.of = x, !.generation = GenerationOf(x), !.form = "torn"]
    <3>1. file' = [file EXCEPT ![d] = new]
      BY <1>3, <2>1 DEF CreateDocument, PublicationInv, Typed
    <3>2. process'[p].pc = "fill" /\ process'[p].todo = todo
      BY <1>1, <2>1 DEF CreateDocument, Goto, PublicationInv, Called, Call
    <3>3. /\ new.staged = file[d].staged /\ new.as = file[d].as /\ new.first = file[d].first
          /\ new.passed = file[d].passed
      BY <1>4 DEF Files
    <3> QED
      BY <2>1, <3>1, <3>2, <3>3, Zenon
  <2>2. CASE CreateDocument(p) /\ file[d].form # "absent"
    <3> DEFINE b == file[d].passed \/ file[d].form = "torn"
               new == [file[d] EXCEPT !.passed = b]
    <3>1. file' = [file EXCEPT ![d] = new]
      BY <1>3, <2>2 DEF CreateDocument, PublicationInv, Typed
    <3>2. process'[p].pc = "write" /\ process'[p].todo = Tail(todo)
      BY <1>1, <2>2 DEF CreateDocument, At, PublicationInv, Called, Call
    <3>3. /\ new.staged = file[d].staged /\ new.as = file[d].as /\ new.first = file[d].first
          /\ new.passed = b /\ new.form = file[d].form
      BY <1>4 DEF Files
    <3>4. Sound(new)
      BY <1>4, <2>2, <3>3 DEF Sound, Files, Forms
    <3> QED
      BY <3>1, <3>2, <3>3, <3>4, Zenon
  <2>3. CASE FillDocument(p)
    <3> DEFINE new == [file[d] EXCEPT !.form = "whole"]
    <3>1. file' = [file EXCEPT ![d] = new]
      BY <1>3, <2>3 DEF FillDocument, PublicationInv, Typed
    <3>2. process'[p].pc = "write" /\ process'[p].todo = Tail(todo)
      BY <1>1, <2>3 DEF FillDocument, PublicationInv, Called, Call
    <3>3. /\ new.staged = file[d].staged /\ new.as = file[d].as /\ new.first = file[d].first
          /\ new.passed = file[d].passed /\ new.form = "whole"
      BY <1>4 DEF Files
    <3>4. Sound(new)
      BY <3>3 DEF Sound
    <3> QED
      BY <3>1, <3>2, <3>3, <3>4, Zenon
  <2> QED
    BY <2>1, <2>2, <2>3
<1> HIDE DEF d
<1>6. file'[d] = new /\ \A e \in Paths : e # d => file'[e] = file[e]
  BY <1>3, <1>5 DEF PublicationInv, Typed
<1>7. StaysSound(file, file')
  BY <1>5, <1>6 DEF StaysSound, Sound
<1>8. \A e \in Paths : FileSound(file'[e])
  BY <1>4, <1>5, <1>6 DEF FileSound, Accounted
<1>9. PICK n : process' = [process EXCEPT ![p] = n] /\ n = process'[p]
  <2>1. PICK n : process' = [process EXCEPT ![p] = n]
    <3>1. process \in [Processes -> Call]
      BY DEF PublicationInv, Called
    <3> QED
      BY <3>1 DEF CreateDocument, FillDocument, Goto
  <2> QED
    BY <2>1 DEF PublicationInv, Called
<1>10. n.of = x
  BY <1>1, <1>9 DEF CreateDocument, FillDocument, Goto, PublicationInv, Called, Call
<1>11. \A e \in Passed(x, todo) : Sound(file'[e])
  BY <1>1, <1>3, <1>4, <1>7 DEF CallSound, StaysSound
<1>12. CallSound(n, file')
  BY <1>3, <1>5, <1>6, <1>9, <1>10, <1>11 DEF CallSound, Written
<1> QED
  BY <1>7, <1>8, <1>9, <1>12, FilesSound DEF PublicationInv

\* Documents are staged as they are, or committed as they are staged.
LEMMA StoringSound ==
  ASSUME PublicationInv, Accounted, NEW p \in Processes, AddDocuments(p) \/ CommitDocuments(p)
  PROVE  Accounted'
<1> DEFINE x == process[p].of
<1>1. /\ process[p] \in Call /\ process[p].pc \in {"add", "commit"}
      /\ x \in Features \cup Additions /\ CallOK(process[p], file, feature)
  BY OfCall DEF PublicationInv, AddDocuments, CommitDocuments, At, Checked, Publishing, Written
<1>2. PathsOf(x) \subseteq Paths
  BY <1>1, PlanPaths, AdditionPaths
<1>3. \A d \in Paths : file[d] \in Files /\ FileSound(file[d])
  BY DEF PublicationInv, Typed, Accounted
<1>4. \A d \in PathsOf(x) : Sound(file[d])
  BY <1>1 DEF Accounted, CallSound, Written
<1>5. ASSUME StaysSound(file, file'), \A d \in Paths : FileSound(file'[d]),
             NEW pc \in Phases \cap Written, Goto(p, pc)
      PROVE  Accounted'
  <2> DEFINE n == [process[p] EXCEPT !.pc = pc]
  <2>1. process' = [process EXCEPT ![p] = n] /\ n.pc = pc /\ n.of = x
    BY <1>5, Going DEF PublicationInv
  <2> HIDE DEF n
  <2>2. \A d \in PathsOf(x) : Sound(file'[d])
    BY <1>2, <1>4, <1>5 DEF StaysSound
  <2>3. CallSound(n, file')
    BY <1>5, <2>1, <2>2 DEF CallSound, Written
  <2> QED
    BY <1>5, <2>1, <2>3, FilesSound DEF PublicationInv
<1>6. CASE AddDocuments(p)
  <2>1. \A d \in Paths : /\ d \in PathsOf(x) => file'[d].staged = file[d].form
                         /\ d \notin PathsOf(x) => file'[d].staged = file[d].staged
                         /\ file'[d].form = file[d].form /\ file'[d].as = file[d].as
                         /\ file'[d].first = file[d].first /\ file'[d].passed = file[d].passed
    <3> TAKE d \in Paths
    <3> DEFINE new == [file[d] EXCEPT !.staged = file[d].form]
    <3>1. file'[d] = IF d \in PathsOf(x) THEN new ELSE file[d]
      BY <1>6 DEF AddDocuments
    <3>2. /\ new.staged = file[d].form /\ new.form = file[d].form /\ new.as = file[d].as
          /\ new.first = file[d].first /\ new.passed = file[d].passed
      BY <1>3 DEF Files
    <3> HIDE DEF new, x
    <3> QED
      BY <3>1, <3>2
  <2>2. StaysSound(file, file')
    BY <2>1 DEF StaysSound, Sound
  <2>3. \A d \in Paths : FileSound(file'[d])
    BY <1>3, <1>4, <2>1 DEF FileSound, Sound
  <2>4. Goto(p, "commit") /\ "commit" \in Phases \cap Written
    BY <1>6 DEF AddDocuments, Phases, Checked, Publishing, Written
  <2> QED
    BY <1>5, <2>2, <2>3, <2>4
<1>7. CASE CommitDocuments(p) /\ Staged # {}
  <2>1. \A d \in Paths :
          /\ file'[d].form = file[d].form /\ file'[d].staged = file[d].staged
          /\ file'[d].passed = file[d].passed
          /\ d \in Staged /\ file[d].first = 0 => file'[d].as = file[d].staged
          /\ ~(d \in Staged /\ file[d].first = 0) =>
               file'[d].as = file[d].as /\ file'[d].first = file[d].first
    <3> TAKE d \in Paths
    <3> DEFINE m == IF file[d].first = 0 THEN head + 1 ELSE file[d].first
               a == IF file[d].first = 0 THEN file[d].staged ELSE file[d].as
               new == [file[d] EXCEPT !.committed = file[d].staged, !.first = m, !.as = a]
    <3>1. file'[d] = IF d \notin Staged THEN file[d] ELSE new
      BY <1>7 DEF CommitDocuments
    <3>2. file[d] \in Files
      BY <1>3
    <3> HIDE DEF m, a
    <3>3. /\ new.form = file[d].form /\ new.staged = file[d].staged
          /\ new.passed = file[d].passed /\ new.as = a /\ new.first = m
      BY <3>2 DEF Files
    <3> HIDE DEF new
    <3> QED
      BY <3>1, <3>3 DEF m, a
  <2>2. StaysSound(file, file')
    BY <2>1 DEF StaysSound, Sound
  <2>3. \A d \in Staged : d \in Paths /\ file[d].staged # "absent"
    BY DEF Staged, PublicationInv, Together
  <2>4. \A d \in Paths : FileSound(file'[d])
    BY <1>3, <2>1, <2>3 DEF FileSound
  <2>5. Goto(p, "head") /\ "head" \in Phases \cap Written
    BY <1>7 DEF CommitDocuments, Phases, Checked, Publishing, Written
  <2> QED
    BY <1>5, <2>2, <2>4, <2>5
<1>8. CASE CommitDocuments(p) /\ Staged = {}
  <2>1. Return(p) /\ UNCHANGED file
    BY <1>8 DEF CommitDocuments, store
  <2>2. CallSound(NoCall, file)
    BY SoundBefore DEF NoCall, Written
  <2> QED
    BY <2>1, <2>2, NoFileMoves DEF Return, PublicationInv
<1> QED
  BY <1>6, <1>7, <1>8

\* A step that changes no document.
LEMMA CallsSound ==
  ASSUME PublicationInv, Accounted, Next, UNCHANGED file
  PROVE  Accounted'
<1>1. \A F : CallSound(NoCall, F)
  BY SoundBefore DEF NoCall, Written
<1>2. ASSUME NEW p \in Processes, Return(p) PROVE Accounted'
  BY <1>1, <1>2, NoFileMoves DEF Return, PublicationInv
<1>3. ASSUME UNCHANGED process PROVE Accounted'
  BY <1>3, NoFileMoves DEF PublicationInv
<1>4. ASSUME NEW p \in Processes, NEW pc \in Phases \ ({"write", "fill"} \cup Written),
             NEW x \in Features \cup Additions, NEW seen \in 0..MaxMoves,
             \/ Start(p, [NoCall EXCEPT !.pc = pc, !.of = x, !.seen = seen])
             \/ Start(p, [NoCall EXCEPT !.pc = pc, !.of = x])
      PROVE  Accounted'
  <2> DEFINE n == [NoCall EXCEPT !.pc = pc, !.of = x, !.seen = seen]
             m == [NoCall EXCEPT !.pc = pc, !.of = x]
  <2>1. n.pc = pc /\ m.pc = pc
    BY DEF NoCall
  <2>2. process' = [process EXCEPT ![p] = n] \/ process' = [process EXCEPT ![p] = m]
    BY <1>4 DEF Start
  <2> HIDE DEF n, m
  <2>3. CallSound(n, file) /\ CallSound(m, file)
    BY <2>1, SoundBefore
  <2> QED
    BY <2>2, <2>3, NoFileMoves DEF PublicationInv
<1>5. ASSUME NEW p \in Processes, NEW f \in Features, ReadSources(p, f) \/ PublishApproved(p, f)
      PROVE  Accounted'
  <2>1. PICK pc \in {"create", "sources"}, seen \in 0..MaxMoves :
          \/ Start(p, [NoCall EXCEPT !.pc = pc, !.of = f, !.seen = seen])
          \/ Start(p, [NoCall EXCEPT !.pc = pc, !.of = f])
    <3>1. 0..source[f] \subseteq 0..MaxMoves /\ 0 \in 0..MaxMoves
      BY BoundsAssumption DEF PublicationInv, Typed
    <3> QED
      BY <1>5, <3>1, Zenon DEF ReadSources, PublishApproved
  <2>2. pc \in Phases \ ({"write", "fill"} \cup Written) /\ f \in Features \cup Additions
    BY <2>1 DEF Phases, Checked, Publishing, Written
  <2> QED
    BY <1>4, <2>1, <2>2
<1>6. ASSUME NEW p \in Processes, NEW q \in Additions, ReadFeature(p, q) \/ Approve(p, q)
      PROVE  Accounted'
  <2>1. PICK pc \in {"propose", "compare"} : Start(p, [NoCall EXCEPT !.pc = pc, !.of = q])
    BY <1>6, Zenon DEF ReadFeature, Approve
  <2>2. /\ pc \in Phases \ ({"write", "fill"} \cup Written) /\ q \in Features \cup Additions
        /\ 0 \in 0..MaxMoves
    BY <2>1, BoundsAssumption DEF Phases, Checked, Publishing, Written
  <2> QED
    BY <1>4, <2>1, <2>2
<1>7. ASSUME NEW p \in Processes, CheckSources(p) PROVE Accounted'
  <2>1. PICK pc \in {"compare", "reconcile"} : Goto(p, pc)
    BY <1>7 DEF CheckSources
  <2>2. pc \in Phases /\ pc \notin {"write", "fill"} \cup Written /\ Called
    BY <2>1 DEF Phases, Checked, Publishing, Written, PublicationInv
  <2> DEFINE n == [process[p] EXCEPT !.pc = pc]
  <2>3. process' = [process EXCEPT ![p] = n] /\ n.pc = pc
    BY <2>1, <2>2, Going
  <2> HIDE DEF n
  <2>4. CallSound(n, file)
    BY <2>2, <2>3, SoundBefore
  <2> QED
    BY <2>2, <2>3, <2>4, NoFileMoves
<1>8. ASSUME NEW p \in Processes, CompareDocuments(p), ~Return(p) PROVE Accounted'
  <2> DEFINE x == process[p].of
             n == [process[p] EXCEPT !.pc = "write", !.todo = Documents(x)]
  <2>1. process[p] \in Call /\ x \in Features \cup Additions
    BY <1>8, OfCall DEF PublicationInv, CompareDocuments, At, Checked, Publishing
  <2>2. process' = [process EXCEPT ![p] = n]
    BY <1>8 DEF CompareDocuments, PublicationInv, Called
  <2>3. n.pc = "write" /\ n.of = x /\ n.todo = Documents(x)
    BY <2>1 DEF Call
  <2>4. Passed(x, Documents(x)) = {}
    BY <2>1, Passing DEF Left
  <2> HIDE DEF n
  <2>5. CallSound(n, file)
    BY <2>3, <2>4 DEF CallSound, Written
  <2> QED
    BY <2>2, <2>5, NoFileMoves DEF PublicationInv
<1>9. ASSUME NEW p \in Processes, ExamineDocuments(p) \/ ReadHead(p) PROVE Accounted'
  <2> DEFINE x == process[p].of
  <2>1. PICK n : /\ process' = [process EXCEPT ![p] = n]
                 /\ n.pc \in Written /\ n.of = x
    <3>1. CASE ExamineDocuments(p)
      <4>1. PICK pc \in {"add", "head"} : Goto(p, pc)
        BY <3>1 DEF ExamineDocuments
      <4>2. Called /\ pc \in Phases /\ pc \in Written
        BY <4>1 DEF PublicationInv, Phases, Checked, Publishing, Written
      <4> DEFINE m == [process[p] EXCEPT !.pc = pc]
      <4>3. process' = [process EXCEPT ![p] = m] /\ m.pc = pc /\ m.of = x
        BY <4>1, <4>2, Going
      <4> HIDE DEF m
      <4> QED
        BY <4>2, <4>3
    <3>2. CASE ReadHead(p)
      <4> DEFINE m == [process[p] EXCEPT !.pc = "rows", !.commit = head]
      <4>1. process' = [process EXCEPT ![p] = m] /\ process[p] \in Call
        BY <3>2 DEF ReadHead, PublicationInv, Called
      <4>2. m.pc \in Written /\ m.of = x
        BY <4>1 DEF Call, Written
      <4> QED
        BY <4>1, <4>2
    <3> QED
      BY <1>9, <3>1, <3>2
  <2>2. \A d \in PathsOf(x) : Sound(file[d])
    <3>1. CallSound(process[p], file)
      BY DEF Accounted
    <3>2. CASE ReadHead(p)
      BY <3>1, <3>2 DEF CallSound, ReadHead, At, Written
    <3>3. CASE ExamineDocuments(p)
      BY <3>1, <3>3 DEF CallSound, ExamineDocuments, At, Passed
    <3> QED
      BY <1>9, <3>2, <3>3
  <2>3. CallSound(n, file)
    BY <2>1, <2>2 DEF CallSound, Written
  <2> QED
    BY <2>1, <2>3, NoFileMoves DEF PublicationInv
<1>10. ASSUME NEW p \in Processes,
              \/ CreateDocument(p) \/ FillDocument(p) \/ AddDocuments(p) \/ CommitDocuments(p)
       PROVE  Accounted'
  BY <1>10, WritingSound, StoringSound
<1> QED
  BY <1>2, <1>3, <1>5, <1>6, <1>7, <1>8, <1>9, <1>10
     DEF Next, MarkLaunchPending, BindPlanner, EndPlanner, SubmitProposal, RequestProposalRevision,
         RejectProposal, ApproveProposal, Decide, MoveSources, Reject, CreateFeature,
         MarkReconciliation, MaterialiseFeature, Propose, MaterialiseAddition, Fail

\* Every step keeps what is known of the documents.
LEMMA AccountedStep == PublicationInv /\ Accounted /\ [Next]_vars => Accounted'
<1> SUFFICES ASSUME PublicationInv, Accounted, [Next]_vars PROVE Accounted'
  OBVIOUS
<1>1. CASE UNCHANGED vars
  BY <1>1, NoFileMoves DEF vars, PublicationInv
<1>2. CASE Next /\ UNCHANGED file
  BY <1>2, CallsSound
<1>3. CASE Next /\ file' # file
  <2>1. \E p \in Processes :
          CreateDocument(p) \/ FillDocument(p) \/ AddDocuments(p) \/ CommitDocuments(p)
    BY <1>3 DEF Next, store, MarkLaunchPending, BindPlanner, EndPlanner, SubmitProposal,
       RequestProposalRevision, RejectProposal, ApproveProposal, Decide, MoveSources, Reject,
       ReadSources, PublishApproved, ReadFeature, Approve, CreateFeature, CheckSources,
       MarkReconciliation, CompareDocuments, ExamineDocuments, ReadHead, MaterialiseFeature,
       Propose, MaterialiseAddition, Fail
  <2> QED
    BY <2>1, WritingSound, StoringSound
<1> QED
  BY <1>1, <1>2, <1>3

-----------------------------------------------------------------------------
(* Theorems.                                                               *)

\* Every step keeps the invariant.
LEMMA PublicationStep == PublicationInv /\ [Next]_vars => PublicationInv'
<1> SUFFICES ASSUME PublicationInv, [Next]_vars PROVE PublicationInv'
  OBVIOUS
<1>1. CASE UNCHANGED vars
  <2>1. UNCHANGED <<source, feature, plan, added, planner, rows, file, head, process, calls, faults>>
    BY <1>1 DEF vars
  <2>2. Called' /\ Commits'
    BY <2>1, NobodyActs, Unchanged DEF PublicationInv, Commits
  <2> QED
    BY <2>1, <2>2, OnlyCalls DEF PublicationInv, Typed
<1>2. ASSUME NEW f \in Features,
             \/ MarkLaunchPending(f) \/ BindPlanner(f) \/ EndPlanner(f) \/ SubmitProposal(f)
             \/ RequestProposalRevision(f) \/ RejectProposal(f) \/ ApproveProposal(f)
             \/ MoveSources(f)
      PROVE  PublicationInv'
  BY <1>2, PlannerStep, OthersStep, ProposalStep
<1>3. ASSUME NEW q \in Additions, Reject(q) PROVE PublicationInv'
  BY <1>3, RejectStep
<1>4. ASSUME NEW p \in Processes, NEW f \in Features, ReadSources(p, f) \/ PublishApproved(p, f)
      PROVE  PublicationInv'
  BY <1>4, ReadSourcesStep, PublishApprovedStep
<1>5. ASSUME NEW p \in Processes, NEW q \in Additions, ReadFeature(p, q) \/ Approve(p, q)
      PROVE  PublicationInv'
  BY <1>5, ReadFeatureStep, ApproveStep
<1>6. ASSUME NEW p \in Processes,
             \/ CreateFeature(p) \/ CheckSources(p) \/ MarkReconciliation(p)
             \/ CompareDocuments(p) \/ ExamineDocuments(p) \/ ReadHead(p) \/ Fail(p)
      PROVE  PublicationInv'
  BY <1>6, CreateFeatureStep, CheckSourcesStep, MarkReconciliationStep, CompareDocumentsStep,
     ExamineDocumentsStep, ReadHeadStep, FailStep
<1>7. ASSUME NEW p \in Processes,
             \/ CreateDocument(p) \/ FillDocument(p) \/ AddDocuments(p) \/ CommitDocuments(p)
             \/ MaterialiseFeature(p) \/ Propose(p) \/ MaterialiseAddition(p)
      PROVE  PublicationInv'
  BY <1>7, CreateDocumentStep, FillDocumentStep, AddDocumentsStep, CommitDocumentsStep,
     MaterialiseFeatureStep, ProposeStep, MaterialiseAdditionStep
<1> QED
  BY <1>1, <1>2, <1>3, <1>4, <1>5, <1>6, <1>7 DEF Next

\* The invariant holds of every state of the planning store.
THEOREM Inductive == Spec => []PublicationInv
BY InitPublication, PublicationStep, PTL DEF Spec

\* Rows, files and calls keep to their values (TypeOK).
THEOREM Types == Spec => []TypeOK
<1>1. PublicationInv => TypeOK
  <2> SUFFICES ASSUME PublicationInv PROVE TypeOK
    OBVIOUS
  <2>1. ASSUME NEW p \in Processes
        PROVE  process[p].of \in Publications /\ process[p].commit \in 0..head
    <3>1. process[p] \in Call /\ process[p].commit <= head /\ head \in Nat
      BY DEF PublicationInv, Called, Commits, Typed
    <3> QED
      BY <3>1 DEF Call
  <2> QED
    BY <2>1 DEF PublicationInv, Typed, TypeOK
<1> QED
  BY <1>1, Inductive, PTL

\* What is known of the documents holds of every state.
THEOREM Documented == Spec => []Accounted
<1>1. Init => Accounted
  <2>1. \A F : CallSound(NoCall, F)
    BY SoundBefore DEF NoCall, Written
  <2>2. FileSound(NoFile)
    BY DEF FileSound, NoFile
  <2> QED
    BY <2>1, <2>2 DEF Init, Accounted
<1> QED
  BY <1>1, AccountedStep, Inductive, PTL DEF Spec

\* The planning store holds documents of approved proposals only; the paths of a
\* published plan are first in one commit, which the recorded commit contains, and
\* each holds the whole document there unless a publisher has passed over it between
\* its creation and its filling (publish_batch_new, commit_paths, publish_approved).
THEOREM PublicationsTrue == Spec => []PublicationsAreTrue
<1>1. PublicationInv /\ Accounted => PublicationsAreTrue
  <2> SUFFICES ASSUME PublicationInv, Accounted PROVE PublicationsAreTrue
    OBVIOUS
  <2>1. PublishedAreCommitted
    <3> SUFFICES ASSUME NEW f \in Features, plan[f].status = "published"
                 PROVE  \E n \in 1..plan[f].commit : \A d \in PathsOf(f) :
                          file[d].first = n /\ (file[d].as = "whole" \/ file[d].passed)
      BY DEF PublishedAreCommitted
    <3>1. PICK n \in 1..plan[f].commit : \A d \in PathsOf(f) : file[d].first = n
      BY DEF PublicationInv, ApprovedTogether, CommittedTogether
    <3>2. ASSUME NEW d \in PathsOf(f) PROVE file[d].as = "whole" \/ file[d].passed
      <4>1. d \in Paths /\ file[d].first # 0
        BY <3>1, PlanPaths
      <4>2. file[d] \in Files /\ FileSound(file[d])
        BY <4>1 DEF PublicationInv, Typed, Accounted
      <4> QED
        BY <4>1, <4>2 DEF Files, Forms, FileSound
    <3> QED
      BY <3>1, <3>2
  <2> QED
    BY <2>1 DEF PublicationsAreTrue, PublicationInv, ApprovedTogether
<1> QED
  BY <1>1, Inductive, Documented, PTL

\* The hierarchy has the rows of a Feature exactly when it is planned and its
\* proposal published, and they are those of that proposal (publish_approved).
THEOREM Rows == Spec => []RowsFollowState
<1>1. PublicationInv => RowsFollowState
  BY DEF PublicationInv
<1> QED
  BY <1>1, Inductive, PTL

\* What a step keeps of a published Feature.
Kept(f) == In(f, "planned")' /\ plan'[f] = plan[f] /\ rows \subseteq rows'

\* No late publisher, planner or reconciliation takes a publication back
\* (publication_context, mark_reconciliation, create_feature).
THEOREM PublishedPlansStay == Spec => PublishedStays
<1>1. ASSUME PublicationInv, [Next]_vars, NEW f \in Features, In(f, "planned") PROVE Kept(f)
  <2>1. UNCHANGED records => Kept(f)
    BY <1>1 DEF records, Kept, In
  <2>2. /\ feature \in [Features -> [state : States, drafted : 0..MaxMoves]]
        /\ feature[f].state = "planned"
        /\ plan \in [Features -> [status : Statuses, generation : 0..MaxGenerations, commit : Nat]]
    BY <1>1 DEF PublicationInv, Typed, In, Statuses
  <2>3. CASE UNCHANGED vars
    BY <2>1, <2>3 DEF vars, records
  <2>4. ASSUME NEW g \in Features,
               \/ MarkLaunchPending(g) \/ BindPlanner(g) \/ SubmitProposal(g)
               \/ RequestProposalRevision(g) \/ RejectProposal(g) \/ ApproveProposal(g)
        PROVE  Kept(f)
    <3>1. CASE MarkLaunchPending(g) \/ BindPlanner(g)
      BY <2>2, <3>1 DEF MarkLaunchPending, BindPlanner, Activated, In, Kept
    <3>2. CASE SubmitProposal(g)
      BY <2>2, <3>2 DEF SubmitProposal, In, Kept
    <3>3. CASE RequestProposalRevision(g) \/ RejectProposal(g) \/ ApproveProposal(g)
      BY <2>2, <3>3 DEF RequestProposalRevision, RejectProposal, ApproveProposal, Decide, Decidable,
         In, Kept
    <3> QED
      BY <2>4, <3>1, <3>2, <3>3
  <2>5. ASSUME NEW g \in Features, EndPlanner(g) \/ MoveSources(g) PROVE Kept(f)
    BY <2>1, <2>5 DEF EndPlanner, MoveSources
  <2>6. ASSUME NEW q \in Additions, Reject(q) PROVE Kept(f)
    BY <2>2, <2>6 DEF Reject, In, Kept
  <2>7. ASSUME NEW p \in Processes,
               \/ \E g \in Features : ReadSources(p, g) \/ PublishApproved(p, g)
               \/ \E q \in Additions : ReadFeature(p, q) \/ Approve(p, q)
               \/ CheckSources(p) \/ CompareDocuments(p) \/ CreateDocument(p) \/ FillDocument(p)
               \/ ExamineDocuments(p) \/ AddDocuments(p) \/ CommitDocuments(p) \/ ReadHead(p)
               \/ Fail(p)
        PROVE  Kept(f)
    <3>1. UNCHANGED records
      BY <2>7 DEF ReadSources, PublishApproved, ReadFeature, Approve, CheckSources, CompareDocuments,
         CreateDocument, FillDocument, ExamineDocuments, AddDocuments, CommitDocuments, ReadHead, Fail
    <3> QED
      BY <2>1, <3>1
  <2>8. ASSUME NEW p \in Processes, CreateFeature(p) \/ MarkReconciliation(p) PROVE Kept(f)
    BY <2>2, <2>8 DEF CreateFeature, MarkReconciliation, MayReconcile, ReconcilableStates, In, Kept
  <2>9. ASSUME NEW p \in Processes, MaterialiseFeature(p) \/ Propose(p) \/ MaterialiseAddition(p)
        PROVE  Kept(f)
    BY <2>2, <2>9 DEF MaterialiseFeature, Propose, MaterialiseAddition, In, Kept
  <2> QED
    BY <1>1, <2>3, <2>4, <2>5, <2>6, <2>7, <2>8, <2>9 DEF Next
<1>2. PublicationInv /\ [Next]_vars =>
        [\A f \in Features : In(f, "planned") =>
           /\ In(f, "planned")'
           /\ plan'[f] = plan[f]
           /\ rows \subseteq rows']_vars
  BY <1>1 DEF Kept
<1> QED
  BY <1>2, Inductive, PTL DEF Spec, PublishedStays

-----------------------------------------------------------------------------
(* Features and their checkouts.                                          *)

\* The states of a Feature and of a command, and the type of what a creation keeps.
CreationStates == {"absent", "worktree_pending", "planning_launch_pending"}
CallerStates ==
  {"idle", "current", "reuse", "intent", "look", "add", "resolve", "persist", "mark", "begin",
   "insert", "failed", "adopt"}
CallerRow ==
  [pc : CallerStates, of : Checkout!Pairs \cup {Checkout!NoFeature},
   key : AdoptionKeys \cup {Checkout!None}, found : Checkout!Places \cup {Checkout!None}]

CreationTyped ==
  /\ creation \in [Checkout!Pairs -> CreationStates]
  /\ intent \in [Checkout!Pairs -> {"absent", "pending", "completed"}]
  /\ assigned \in [Checkout!Pairs -> Checkout!Places \cup {Checkout!None}]
  /\ checkouts \in [Checkout!Places -> {"unknown", "available", "missing"}]
  /\ worktree \in [Checkout!Places -> {"own", "gone", "other"}]
  /\ launched \in [Checkout!Pairs -> Checkout!Places \cup {Checkout!None}]
  /\ caller \in [Processes -> CallerRow]

\* What a command knows of its Feature and of the checkout it has found.
Knows(p) ==
  LET c == caller[p]
      f == caller[p].of
  IN  /\ c.pc # "idle" => f \in Checkout!Pairs /\ creation[f] # "absent"
      /\ c.pc \in {"reuse", "persist", "mark", "begin", "insert", "adopt"} =>
           c.found \in Checkout!Places
      /\ c.pc \in {"reuse", "mark", "begin", "insert", "adopt"} => checkouts[c.found] # "unknown"
      /\ c.pc = "reuse" => assigned[f] # Checkout!None
      /\ c.pc \in {"look", "add", "resolve", "persist", "mark", "begin", "insert"} =>
           intent[f] # "absent"
      /\ c.pc \in {"begin", "insert"} => creation[f] = "planning_launch_pending"

\* What stands in no way of a command that began in order and acted alone since.
InOrderStill(p) ==
  LET c == caller[p]
      f == caller[p].of
      s == Checkout!Place(f)
  IN  c.pc # "idle" =>
        /\ c.pc \notin {"failed", "adopt"} /\ launched[f] = Checkout!None
        /\ c.pc \in {"current", "intent", "look"} =>
             worktree[s] = "own" \/ (worktree[s] = "gone" /\ s \notin branches)
        /\ c.pc = "add" => worktree[s] = "gone" /\ s \notin branches
        /\ c.pc = "resolve" => worktree[s] = "own"
        /\ c.pc \in {"reuse", "mark", "begin"} =>
             assigned[f] = c.found /\ checkouts[c.found] = "available"

\* The inductive invariant of creation: each command knows what its next step relies on,
\* and nothing stands in the way of one that began in order and is alone.
CreationInv ==
  /\ CreationTyped /\ Checkout!CreationsAreWhole
  /\ alone \subseteq Processes
  /\ \A p \in Processes : Knows(p)
  /\ \A p \in alone : InOrderStill(p)

\* What no step takes back.
Grows ==
  /\ \A f \in Checkout!Pairs :
       /\ creation[f] # "absent" => creation'[f] # "absent"
       /\ creation[f] = "planning_launch_pending" => creation'[f] = "planning_launch_pending"
       /\ intent[f] # "absent" => intent'[f] # "absent"
       /\ assigned[f] # Checkout!None => assigned'[f] # Checkout!None
  /\ \A c \in Checkout!Places : checkouts[c] # "unknown" => checkouts'[c] # "unknown"

\* A step of one command.
Moves(p) ==
  /\ CreationTyped' /\ Checkout!CreationsAreWhole' /\ Grows
  /\ \A q \in Processes \ {p} : caller'[q] = caller[q]
  /\ Knows(p)'
  /\ alone' \subseteq {p} /\ (p \in alone' => InOrderStill(p)')

\* No checkout and no Feature have names that no place and no pair has, and the worktree
\* of a Feature is at a place (default_feature_worktree).
LEMMA PlacesAre ==
  /\ Checkout!None = "none" /\ Checkout!None \notin Checkout!Places
  /\ Checkout!NoFeature \notin Checkout!Pairs
  /\ \A f \in Checkout!Pairs : Checkout!Place(f) \in Slugs
  /\ \A s \in Slugs : s \in Checkout!Places
BY SlugsAssumption DEF Checkout!None, Checkout!Main, Checkout!Places, Checkout!NoFeature,
     Checkout!Pairs, Checkout!Place

\* What a command knows is not undone by others, as no step takes a row back.
LEMMA KnowsStill ==
  ASSUME CreationTyped, Grows, NEW q \in Processes, Knows(q), caller'[q] = caller[q]
  PROVE  Knows(q)'
BY DEF Knows, Grows

\* A step of one command keeps the invariant.
LEMMA MovesKeep ==
  ASSUME CreationInv, NEW p \in Processes, Moves(p)
  PROVE  CreationInv'
<1>1. \A q \in Processes : Knows(q)'
  <2> SUFFICES ASSUME NEW q \in Processes PROVE Knows(q)'
    OBVIOUS
  <2>1. CASE q = p
    BY <2>1 DEF Moves
  <2>2. CASE q # p
    <3>1. caller'[q] = caller[q] /\ Grows /\ CreationTyped /\ Knows(q)
      BY <2>2 DEF Moves, CreationInv
    <3> QED
      BY <3>1, KnowsStill
  <2> QED
    BY <2>1, <2>2
<1>2. \A q \in alone' : InOrderStill(q)'
  BY DEF Moves
<1> QED
  BY <1>1, <1>2 DEF CreationInv, Moves

\* What the steps of a command do to it.
LEMMA GotoIs ==
  ASSUME CreationTyped, NEW p \in Processes, NEW pc \in CallerStates, Checkout!Goto(p, pc)
  PROVE  /\ caller' \in [Processes -> CallerRow]
         /\ caller'[p].pc = pc /\ caller'[p].of = caller[p].of
         /\ caller'[p].found = caller[p].found
         /\ \A q \in Processes \ {p} : caller'[q] = caller[q]
<1>1. caller[p] \in CallerRow /\ caller' = [caller EXCEPT ![p] = [caller[p] EXCEPT !.pc = pc]]
  BY DEF CreationTyped, Checkout!Goto
<1>2. [caller[p] EXCEPT !.pc = pc]
        = [pc |-> pc, of |-> caller[p].of, key |-> caller[p].key, found |-> caller[p].found]
  BY <1>1 DEF CallerRow
<1>3. caller'[p] = [pc |-> pc, of |-> caller[p].of, key |-> caller[p].key, found |-> caller[p].found]
  BY <1>1, <1>2 DEF CreationTyped
<1>4. caller'[p] \in CallerRow
  BY <1>1, <1>3 DEF CallerRow
<1> QED
  BY <1>1, <1>3, <1>4 DEF CreationTyped

\* A command that has found its checkout remembers it.
LEMMA FoundIs ==
  ASSUME CreationTyped, NEW p \in Processes, NEW pc \in CallerStates, NEW c \in Checkout!Places,
         Checkout!Found(p, c, pc)
  PROVE  /\ caller' \in [Processes -> CallerRow]
         /\ caller'[p].pc = pc /\ caller'[p].of = caller[p].of /\ caller'[p].found = c
         /\ \A q \in Processes \ {p} : caller'[q] = caller[q]
<1>1. caller[p] \in CallerRow
      /\ caller' = [[caller EXCEPT ![p] = [caller[p] EXCEPT !.pc = pc]] EXCEPT ![p] = [@ EXCEPT !.found = c]]
  BY DEF CreationTyped, Checkout!Found
<1>2. [[caller[p] EXCEPT !.pc = pc] EXCEPT !.found = c]
        = [pc |-> pc, of |-> caller[p].of, key |-> caller[p].key, found |-> c]
  <2>1. PICK s, f, k, d : caller[p] = [pc |-> s, of |-> f, key |-> k, found |-> d]
    BY <1>1 DEF CallerRow
  <2> DEFINE m == [pc |-> pc, of |-> f, key |-> k, found |-> d]
  <2>2. [caller[p] EXCEPT !.pc = pc] = m
    BY <2>1
  <2>3. [m EXCEPT !.found = c] = [pc |-> pc, of |-> f, key |-> k, found |-> c]
    OBVIOUS
  <2>4. caller[p].of = f /\ caller[p].key = k
    BY <2>1
  <2> HIDE DEF m
  <2> QED
    BY <2>2, <2>3, <2>4
<1>3. caller'[p] = [[caller[p] EXCEPT !.pc = pc] EXCEPT !.found = c]
  BY <1>1 DEF CreationTyped
<1>4. caller'[p] \in CallerRow
  BY <1>1, <1>2, <1>3 DEF CallerRow
<1> QED
  BY <1>1, <1>2, <1>3, <1>4 DEF CreationTyped

\* A command that ends leaves nothing of itself.
LEMMA ReturnIs ==
  ASSUME CreationTyped, NEW p \in Processes, Checkout!Return(p)
  PROVE  /\ caller' \in [Processes -> CallerRow]
         /\ caller'[p].pc = "idle"
         /\ \A q \in Processes \ {p} : caller'[q] = caller[q]
BY DEF CreationTyped, CallerRow, CallerStates, Checkout!Return, Checkout!NoCaller

\* create_feature inserts the row or returns the one that is there.
LEMMA CreateMoves ==
  ASSUME CreationInv, NEW p \in Processes, NEW f \in Checkout!Pairs, Checkout!Create(p, f)
  PROVE  Moves(p)
<1>1. /\ caller' \in [Processes -> CallerRow]
      /\ caller'[p].pc = "current" /\ caller'[p].of = f
      /\ \A q \in Processes \ {p} : caller'[q] = caller[q]
  <2>1. caller' = [caller EXCEPT ![p] = [Checkout!NoCaller EXCEPT !.pc = "current", !.of = f]]
    BY DEF Checkout!Create, Checkout!Start
  <2>2. [Checkout!NoCaller EXCEPT !.pc = "current", !.of = f]
          = [pc |-> "current", of |-> f, key |-> Checkout!None, found |-> Checkout!None]
    <3> DEFINE m == [pc |-> "current", of |-> Checkout!NoFeature, key |-> Checkout!None, found |-> Checkout!None]
    <3>1. [Checkout!NoCaller EXCEPT !.pc = "current"] = m
      BY DEF Checkout!NoCaller
    <3>2. [m EXCEPT !.of = f]
            = [pc |-> "current", of |-> f, key |-> Checkout!None, found |-> Checkout!None]
      OBVIOUS
    <3> HIDE DEF m
    <3> QED
      BY <3>1, <3>2
  <2> QED
    BY <2>1, <2>2 DEF CreationInv, CreationTyped, CallerRow, CallerStates
<1>2. /\ UNCHANGED <<intent, assigned, checkouts, launched, worktree, branches>>
      /\ creation' = [creation EXCEPT ![f] = IF @ = "absent" THEN "worktree_pending" ELSE @]
      /\ alone' = IF Checkout!InOrder(f) THEN {p} ELSE {}
  BY DEF Checkout!Create, Checkout!git
<1>3. CreationTyped' /\ Grows /\ Checkout!CreationsAreWhole'
  BY <1>1, <1>2 DEF CreationInv, CreationTyped, CreationStates, Grows, Checkout!CreationsAreWhole
<1>4. Knows(p)' /\ (p \in alone' => InOrderStill(p)')
  BY <1>1, <1>2, <1>3 DEF Knows, InOrderStill, Checkout!InOrder, CreationInv, CreationTyped, Checkout!Place
<1> QED
  BY <1>1, <1>2, <1>3, <1>4 DEF Moves

\* The steps that read, of prepare_feature_with and begin, change only the command.
LEMMA LookingMoves ==
  ASSUME CreationInv, NEW p \in Processes,
         \/ Checkout!Current(p) \/ Checkout!Look(p) \/ Checkout!Resolve(p)
         \/ Checkout!Begin(p) \/ Checkout!Fail(p)
  PROVE  Moves(p)
<1>1. /\ UNCHANGED <<creation, intent, assigned, checkouts, launched, worktree, branches>>
      /\ alone' = alone \cap {p} /\ CreationTyped
  BY DEF Checkout!Current, Checkout!Look, Checkout!Resolve, Checkout!Begin, Checkout!Fail,
         Checkout!Step, Checkout!rows, Checkout!git, CreationInv
<1>2. Knows(p) /\ (p \in alone' => InOrderStill(p))
  BY <1>1 DEF CreationInv
<1>3. /\ caller' \in [Processes -> CallerRow] /\ \A q \in Processes \ {p} : caller'[q] = caller[q]
      /\ Knows(p)' /\ (p \in alone' => InOrderStill(p)')
  <2>1. CASE Checkout!Current(p)
    <3>1. CASE Checkout!Goto(p, "intent") /\ ~(/\ assigned[caller[p].of] # Checkout!None
                /\ checkouts[assigned[caller[p].of]] = "available"
                /\ worktree[assigned[caller[p].of]] # "gone") /\ caller[p].pc = "current"
      BY <1>1, <1>2, <3>1, GotoIs DEF CallerStates, Knows, InOrderStill
    <3>2. CASE /\ assigned[caller[p].of] # Checkout!None
                /\ checkouts[assigned[caller[p].of]] = "available"
                /\ caller[p].pc = "current"
                /\ Checkout!Found(p, assigned[caller[p].of], "reuse")
      <4>1. caller[p].of \in Checkout!Pairs /\ assigned[caller[p].of] \in Checkout!Places
        BY <1>1, <1>2, <3>2 DEF Knows, CreationTyped
      <4> QED
        BY <1>1, <1>2, <3>2, <4>1, FoundIs DEF CallerStates, Knows, InOrderStill
    <3> QED
      BY <2>1, <3>1, <3>2 DEF Checkout!Current, Checkout!At
  <2>2. CASE Checkout!Look(p)
    <3>1. /\ caller[p].pc = "look"
          /\ Checkout!Goto(p, IF worktree[Checkout!Place(caller[p].of)] = "gone" THEN "add" ELSE "resolve")
      BY <2>2 DEF Checkout!Look, Checkout!At
    <3> QED
      BY <1>1, <1>2, <3>1, GotoIs DEF CallerStates, Knows, InOrderStill
  <2>3. CASE Checkout!Resolve(p)
    <3> DEFINE c == Checkout!Place(caller[p].of)
    <3>1. /\ caller[p].pc = "resolve" /\ caller[p].of \in Checkout!Pairs /\ c \in Checkout!Places
          /\ IF worktree[c] = "own" THEN Checkout!Found(p, c, "persist") ELSE Checkout!Goto(p, "failed")
      BY <1>2, <2>3, PlacesAre DEF Checkout!Resolve, Checkout!At, Knows
    <3>2. CASE worktree[c] = "own" /\ Checkout!Found(p, c, "persist")
      BY <1>1, <1>2, <3>1, <3>2, FoundIs DEF CallerStates, Knows, InOrderStill
    <3>3. CASE worktree[c] # "own" /\ Checkout!Goto(p, "failed")
      BY <1>1, <1>2, <3>1, <3>3, GotoIs DEF CallerStates, Knows, InOrderStill
    <3> QED
      BY <3>1, <3>2, <3>3
  <2>4. CASE Checkout!Begin(p)
    <3>1. /\ caller[p].pc = "begin"
          /\ \/ Checkout!Goto(p, "insert")
             \/ /\ Checkout!Goto(p, "failed")
                /\ ~(/\ assigned[caller[p].of] = caller[p].found
                     /\ checkouts[caller[p].found] = "available"
                     /\ launched[caller[p].of] = Checkout!None)
      BY <2>4 DEF Checkout!Begin, Checkout!At
    <3> QED
      BY <1>1, <1>2, <3>1, GotoIs DEF CallerStates, Knows, InOrderStill
  <2>5. CASE Checkout!Fail(p)
    BY <1>1, <2>5, ReturnIs DEF Checkout!Fail, Knows, InOrderStill
  <2> QED
    BY <2>1, <2>2, <2>3, <2>4, <2>5
<1> QED
  BY <1>1, <1>3 DEF Moves, CreationInv, CreationTyped, Grows, Checkout!CreationsAreWhole

\* record_reuse has a checkout that the Feature has.
LEMMA RecordReuseMoves ==
  ASSUME CreationInv, NEW p \in Processes, Checkout!RecordReuse(p)
  PROVE  Moves(p)
<1>1. /\ UNCHANGED <<creation, assigned, checkouts, launched, worktree, branches>>
      /\ intent' = [intent EXCEPT ![caller[p].of] = IF @ = "absent" THEN "completed" ELSE @]
      /\ alone' = alone \cap {p} /\ CreationTyped /\ caller[p].pc = "reuse"
      /\ Checkout!Goto(p, "mark")
  BY DEF Checkout!RecordReuse, Checkout!Step, Checkout!At, Checkout!git, CreationInv
<1>2. Knows(p) /\ (p \in alone' => InOrderStill(p)) /\ Checkout!CreationsAreWhole
  BY <1>1 DEF CreationInv
<1>3. /\ caller' \in [Processes -> CallerRow] /\ \A q \in Processes \ {p} : caller'[q] = caller[q]
      /\ caller'[p].pc = "mark" /\ caller'[p].of = caller[p].of /\ caller'[p].found = caller[p].found
  BY <1>1, GotoIs DEF CallerStates
<1>4. caller[p].of \in Checkout!Pairs /\ assigned[caller[p].of] # Checkout!None
  BY <1>1, <1>2 DEF Knows
<1>5. CreationTyped' /\ Grows /\ Checkout!CreationsAreWhole'
  BY <1>1, <1>2, <1>3, <1>4 DEF CreationTyped, Grows, Checkout!CreationsAreWhole
<1>6. Knows(p)' /\ (p \in alone' => InOrderStill(p)')
  BY <1>1, <1>2, <1>3, <1>4, <1>5 DEF Knows, InOrderStill, CreationTyped
<1> QED
  BY <1>1, <1>3, <1>5, <1>6 DEF Moves

\* ensure_pending_intent leaves an intent that is there.
LEMMA EnsureIntentMoves ==
  ASSUME CreationInv, NEW p \in Processes, Checkout!EnsureIntent(p)
  PROVE  Moves(p)
<1>1. /\ UNCHANGED <<creation, assigned, checkouts, launched, worktree, branches>>
      /\ intent' = [intent EXCEPT ![caller[p].of] = IF @ = "absent" THEN "pending" ELSE @]
      /\ alone' = alone \cap {p} /\ CreationTyped /\ caller[p].pc = "intent"
      /\ Checkout!Goto(p, "look")
  BY DEF Checkout!EnsureIntent, Checkout!Step, Checkout!At, Checkout!git, CreationInv
<1>2. Knows(p) /\ (p \in alone' => InOrderStill(p)) /\ Checkout!CreationsAreWhole
  BY <1>1 DEF CreationInv
<1>3. /\ caller' \in [Processes -> CallerRow] /\ \A q \in Processes \ {p} : caller'[q] = caller[q]
      /\ caller'[p].pc = "look" /\ caller'[p].of = caller[p].of /\ caller'[p].found = caller[p].found
  BY <1>1, GotoIs DEF CallerStates
<1>4. caller[p].of \in Checkout!Pairs
  BY <1>1, <1>2 DEF Knows
<1>5. CreationTyped' /\ Grows /\ Checkout!CreationsAreWhole'
  BY <1>1, <1>2, <1>3, <1>4 DEF CreationTyped, Grows, Checkout!CreationsAreWhole
<1>6. Knows(p)' /\ (p \in alone' => InOrderStill(p)')
  BY <1>1, <1>2, <1>3, <1>4, <1>5 DEF Knows, InOrderStill, CreationTyped
<1> QED
  BY <1>1, <1>3, <1>5, <1>6 DEF Moves

\* recreate fails only where a worktree or a branch is in the way.
LEMMA AddMoves ==
  ASSUME CreationInv, NEW p \in Processes, Checkout!Add(p)
  PROVE  Moves(p)
<1> DEFINE c == Checkout!Place(caller[p].of)
<1>1. /\ UNCHANGED <<creation, intent, assigned, checkouts, launched>>
      /\ alone' = alone \cap {p} /\ CreationTyped /\ caller[p].pc = "add"
      /\ \/ /\ worktree[c] = "gone" /\ c \notin branches
            /\ worktree' = [worktree EXCEPT ![c] = "own"]
            /\ Checkout!Found(p, c, "persist")
         \/ /\ worktree[c] # "gone" \/ c \in branches
            /\ Checkout!Goto(p, "failed") /\ worktree' = worktree
  BY DEF Checkout!Add, Checkout!Step, Checkout!At, Checkout!git, Checkout!rows, CreationInv
<1>2. Knows(p) /\ (p \in alone' => InOrderStill(p)) /\ Checkout!CreationsAreWhole
  BY <1>1 DEF CreationInv
<1>3. caller[p].of \in Checkout!Pairs /\ c \in Checkout!Places
  BY <1>1, <1>2, PlacesAre DEF Knows
<1>4. /\ caller' \in [Processes -> CallerRow] /\ \A q \in Processes \ {p} : caller'[q] = caller[q]
      /\ caller'[p].of = caller[p].of
      /\ \/ caller'[p].pc = "persist" /\ caller'[p].found = c
         \/ caller'[p].pc = "failed" /\ (worktree[c] # "gone" \/ c \in branches)
      /\ worktree' \in [Checkout!Places -> {"own", "gone", "other"}]
  <2>1. CASE Checkout!Found(p, c, "persist") /\ worktree' = [worktree EXCEPT ![c] = "own"]
    BY <1>1, <1>3, <2>1, FoundIs DEF CallerStates, CreationTyped
  <2>2. CASE (worktree[c] # "gone" \/ c \in branches) /\ Checkout!Goto(p, "failed") /\ worktree' = worktree
    BY <1>1, <2>2, GotoIs DEF CallerStates, CreationTyped
  <2> QED
    BY <1>1, <2>1, <2>2
<1>5. CreationTyped' /\ Grows /\ Checkout!CreationsAreWhole'
  BY <1>1, <1>2, <1>4 DEF CreationTyped, Grows, Checkout!CreationsAreWhole
<1>6. Knows(p)' /\ (p \in alone' => InOrderStill(p)')
  BY <1>1, <1>2, <1>3, <1>4 DEF Knows, InOrderStill
<1> QED
  BY <1>1, <1>4, <1>5, <1>6 DEF Moves

\* persist_checkout registers, assigns and completes in one transaction.
LEMMA PersistMoves ==
  ASSUME CreationInv, NEW p \in Processes, Checkout!Persist(p)
  PROVE  Moves(p)
<1>1. /\ UNCHANGED <<creation, launched, worktree, branches>>
      /\ checkouts' = [checkouts EXCEPT ![caller[p].found] = "available"]
      /\ assigned' = [assigned EXCEPT ![caller[p].of] = caller[p].found]
      /\ intent' = [intent EXCEPT ![caller[p].of] = "completed"]
      /\ alone' = alone \cap {p} /\ CreationTyped /\ caller[p].pc = "persist"
      /\ Checkout!Goto(p, "mark")
  BY DEF Checkout!Persist, Checkout!Step, Checkout!At, Checkout!git, CreationInv
<1>2. Knows(p) /\ (p \in alone' => InOrderStill(p)) /\ Checkout!CreationsAreWhole
  BY <1>1 DEF CreationInv
<1>3. /\ caller' \in [Processes -> CallerRow] /\ \A q \in Processes \ {p} : caller'[q] = caller[q]
      /\ caller'[p].pc = "mark" /\ caller'[p].of = caller[p].of /\ caller'[p].found = caller[p].found
  BY <1>1, GotoIs DEF CallerStates
<1>4. /\ caller[p].of \in Checkout!Pairs /\ caller[p].found \in Checkout!Places
      /\ caller[p].found # Checkout!None /\ creation[caller[p].of] # "absent"
  BY <1>1, <1>2, PlacesAre DEF Knows
<1>5. CreationTyped' /\ Grows
  BY <1>1, <1>2, <1>3, <1>4 DEF CreationTyped, Grows
<1>6. Checkout!CreationsAreWhole'
  BY <1>1, <1>2, <1>4, PlacesAre DEF CreationTyped, Checkout!CreationsAreWhole
<1>7. Knows(p)' /\ (p \in alone' => InOrderStill(p)')
  BY <1>1, <1>2, <1>3, <1>4 DEF Knows, InOrderStill, CreationTyped
<1> QED
  BY <1>1, <1>3, <1>5, <1>6, <1>7 DEF Moves

\* mark_launch_pending looks at the checkout the Feature has by then.
LEMMA MarkMoves ==
  ASSUME CreationInv, NEW p \in Processes, Checkout!MarkLaunchPending(p)
  PROVE  Moves(p)
<1> DEFINE f == caller[p].of
<1>1. /\ UNCHANGED <<intent, assigned, checkouts, launched, worktree, branches>>
      /\ alone' = alone \cap {p} /\ CreationTyped /\ caller[p].pc = "mark"
      /\ \/ /\ creation[f] = "planning_launch_pending" /\ creation' = creation
            /\ Checkout!Goto(p, "begin")
         \/ /\ creation[f] = "worktree_pending" /\ assigned[f] = caller[p].found
            /\ creation' = [creation EXCEPT ![f] = "planning_launch_pending"]
            /\ Checkout!Goto(p, "begin")
         \/ /\ assigned[f] # caller[p].found /\ creation' = creation
            /\ Checkout!Goto(p, "failed")
  BY DEF Checkout!MarkLaunchPending, Checkout!Step, Checkout!At, Checkout!git, CreationInv
<1>2. Knows(p) /\ (p \in alone' => InOrderStill(p)) /\ Checkout!CreationsAreWhole
  BY <1>1 DEF CreationInv
<1>3. /\ f \in Checkout!Pairs /\ caller[p].found \in Checkout!Places
      /\ caller[p].found # Checkout!None /\ intent[f] # "absent"
  BY <1>1, <1>2, PlacesAre DEF Knows
<1>4. /\ caller' \in [Processes -> CallerRow] /\ \A q \in Processes \ {p} : caller'[q] = caller[q]
      /\ caller'[p].of = f /\ caller'[p].found = caller[p].found
      /\ \/ caller'[p].pc = "begin"
         \/ caller'[p].pc = "failed" /\ assigned[f] # caller[p].found
  BY <1>1, GotoIs DEF CallerStates
<1>5. creation' \in [Checkout!Pairs -> CreationStates] /\ (caller'[p].pc = "begin" => creation'[f] = "planning_launch_pending")
  <2>1. "begin" # "failed" /\ (Checkout!Goto(p, "failed") => caller'[p].pc = "failed")
    BY <1>1, GotoIs DEF CallerStates
  <2> QED
    BY <1>1, <1>3, <2>1 DEF CreationTyped, CreationStates
<1>6. Grows
  BY <1>1, <1>3 DEF CreationTyped, Grows
<1>7. CreationTyped' /\ Checkout!CreationsAreWhole'
  <2>1. CASE creation' = creation
    BY <1>1, <1>2, <1>4, <1>5, <2>1 DEF CreationTyped, Checkout!CreationsAreWhole
  <2>2. CASE assigned[f] = caller[p].found /\ creation' = [creation EXCEPT ![f] = "planning_launch_pending"]
    BY <1>1, <1>2, <1>3, <1>4, <1>5, <2>2 DEF CreationTyped, Checkout!CreationsAreWhole
  <2> QED
    BY <1>1, <2>1, <2>2
<1>8. Knows(p)' /\ (p \in alone' => InOrderStill(p)')
  BY <1>1, <1>2, <1>3, <1>4, <1>5, <1>6 DEF Knows, InOrderStill, Grows
<1> QED
  BY <1>1, <1>4, <1>6, <1>7, <1>8 DEF Moves

\* insert_launch_intent launches the planner of a Feature that waits for it.
LEMMA InsertMoves ==
  ASSUME CreationInv, NEW p \in Processes, Checkout!Insert(p)
  PROVE  Moves(p)
<1> DEFINE f == caller[p].of
<1>1. /\ UNCHANGED <<creation, intent, assigned, checkouts, worktree, branches>>
      /\ alone' = alone \cap {p} /\ CreationTyped /\ caller[p].pc = "insert"
      /\ \/ /\ launched' = [launched EXCEPT ![f] = caller[p].found] /\ Checkout!Return(p)
         \/ /\ launched[f] # Checkout!None /\ launched' = launched /\ Checkout!Goto(p, "failed")
  BY DEF Checkout!Insert, Checkout!Step, Checkout!At, Checkout!git, CreationInv
<1>2. Knows(p) /\ (p \in alone' => InOrderStill(p)) /\ Checkout!CreationsAreWhole
  BY <1>1 DEF CreationInv
<1>3. /\ f \in Checkout!Pairs /\ caller[p].found \in Checkout!Places
      /\ creation[f] = "planning_launch_pending"
  BY <1>1, <1>2, PlacesAre DEF Knows
<1>4. /\ caller' \in [Processes -> CallerRow] /\ \A q \in Processes \ {p} : caller'[q] = caller[q]
      /\ \/ caller'[p].pc = "idle"
         \/ caller'[p].pc = "failed" /\ caller'[p].of = f /\ launched[f] # Checkout!None
  BY <1>1, GotoIs, ReturnIs DEF CallerStates
<1>5. CreationTyped' /\ Grows
  BY <1>1, <1>3, <1>4 DEF CreationTyped, Grows
<1>6. Checkout!CreationsAreWhole'
  BY <1>1, <1>2, <1>3 DEF CreationTyped, Checkout!CreationsAreWhole
<1>7. Knows(p)' /\ (p \in alone' => InOrderStill(p)')
  BY <1>1, <1>2, <1>3, <1>4 DEF Knows, InOrderStill
<1> QED
  BY <1>1, <1>4, <1>5, <1>6, <1>7 DEF Moves

\* An adoption gives the Feature a registered checkout, and a crash leaves the rows.
LEMMA AdoptionMoves ==
  ASSUME CreationInv, NEW p \in Processes,
         \/ \E k \in AdoptionKeys, f \in Checkout!Pairs, c \in Checkout!Places :
              Checkout!ReadAdoption(p, k, f, c)
         \/ Checkout!Adopt(p) \/ Checkout!Crash(p)
  PROVE  Moves(p)
<1>1. CreationTyped /\ Checkout!CreationsAreWhole /\ Knows(p) /\ (p \in alone => InOrderStill(p))
  BY DEF CreationInv
<1>2. ASSUME NEW k \in AdoptionKeys, NEW f \in Checkout!Pairs, NEW c \in Checkout!Places,
             Checkout!ReadAdoption(p, k, f, c)
      PROVE  Moves(p)
  <2>1. /\ UNCHANGED <<creation, intent, assigned, checkouts, launched, worktree, branches>>
        /\ alone' = {} /\ creation[f] # "absent" /\ checkouts[c] = "available"
        /\ caller' = [caller EXCEPT ![p] = [pc |-> "adopt", of |-> f, key |-> k, found |-> c]]
    BY <1>2 DEF Checkout!ReadAdoption, Checkout!Start, Checkout!rows, Checkout!git
  <2>2. CreationTyped' /\ Grows /\ Checkout!CreationsAreWhole'
    BY <1>1, <2>1 DEF CreationTyped, Grows, Checkout!CreationsAreWhole, CallerRow, CallerStates
  <2>3. Knows(p)'
    BY <1>1, <2>1 DEF Knows, CreationTyped
  <2> QED
    BY <1>1, <2>1, <2>2, <2>3 DEF Moves, CreationTyped
<1>3. CASE Checkout!Adopt(p)
  <2>1. /\ UNCHANGED <<creation, intent, checkouts, launched, worktree, branches>>
        /\ alone' = alone \cap {p} /\ caller[p].pc = "adopt" /\ Checkout!Return(p)
        /\ \/ assigned' = assigned
           \/ assigned' = [assigned EXCEPT ![caller[p].of] = caller[p].found]
    BY <1>3 DEF Checkout!Adopt, Checkout!Step, Checkout!At, Checkout!git
  <2>2. /\ caller[p].of \in Checkout!Pairs /\ caller[p].found \in Checkout!Places
        /\ caller[p].found # Checkout!None
        /\ creation[caller[p].of] # "absent" /\ checkouts[caller[p].found] # "unknown"
    BY <1>1, <2>1, PlacesAre DEF Knows
  <2>3. /\ caller' \in [Processes -> CallerRow] /\ \A q \in Processes \ {p} : caller'[q] = caller[q]
        /\ caller'[p].pc = "idle"
    BY <1>1, <2>1, ReturnIs
  <2>4. CreationTyped' /\ Grows
    BY <1>1, <2>1, <2>2, <2>3 DEF CreationTyped, Grows
  <2>5. Checkout!CreationsAreWhole'
    <3>1. CASE assigned' = assigned
      BY <1>1, <2>1, <3>1 DEF Checkout!CreationsAreWhole
    <3>2. CASE assigned' = [assigned EXCEPT ![caller[p].of] = caller[p].found]
      BY <1>1, <2>1, <2>2, <3>2 DEF Checkout!CreationsAreWhole, CreationTyped
    <3> QED
      BY <2>1, <3>1, <3>2
  <2> QED
    BY <2>1, <2>3, <2>4, <2>5 DEF Moves, Knows, InOrderStill
<1>4. CASE Checkout!Crash(p)
  <2>1. /\ UNCHANGED <<creation, intent, assigned, checkouts, launched, worktree, branches>>
        /\ alone' = {} /\ Checkout!Return(p)
    BY <1>4 DEF Checkout!Crash, Checkout!rows, Checkout!git
  <2>2. /\ caller' \in [Processes -> CallerRow] /\ \A q \in Processes \ {p} : caller'[q] = caller[q]
        /\ caller'[p].pc = "idle"
    BY <1>1, <2>1, ReturnIs
  <2> QED
    BY <1>1, <2>1, <2>2 DEF Moves, Knows, CreationTyped, Grows, Checkout!CreationsAreWhole
<1> QED
  BY <1>2, <1>3, <1>4

\* What happens around the commands takes no registration back and lets no command
\* count as alone.
LEMMA AroundKeeps ==
  ASSUME CreationInv,
         \/ Checkout!EnsureRepositoryCheckout
         \/ \E c \in Checkout!Places : Checkout!Reconcile(c)
         \/ \E s \in Slugs : Checkout!Disturb(s)
  PROVE  CreationInv'
<1>1. CreationTyped /\ Checkout!CreationsAreWhole /\ \A p \in Processes : Knows(p)
  BY DEF CreationInv
<1>2. /\ UNCHANGED <<creation, intent, assigned, launched, caller>> /\ alone' = {}
      /\ checkouts' \in [Checkout!Places -> {"unknown", "available", "missing"}]
      /\ worktree' \in [Checkout!Places -> {"own", "gone", "other"}]
      /\ \A c \in Checkout!Places : checkouts[c] # "unknown" => checkouts'[c] # "unknown"
  <2>1. CASE Checkout!EnsureRepositoryCheckout
    BY <1>1, <2>1 DEF Checkout!EnsureRepositoryCheckout, CreationTyped, Checkout!git
  <2>2. ASSUME NEW c \in Checkout!Places, Checkout!Reconcile(c)
        PROVE  /\ UNCHANGED <<creation, intent, assigned, launched, caller, worktree>> /\ alone' = {}
               /\ checkouts' \in [Checkout!Places -> {"unknown", "available", "missing"}]
               /\ \A d \in Checkout!Places : checkouts[d] # "unknown" => checkouts'[d] # "unknown"
    BY <1>1, <2>2 DEF Checkout!Reconcile, CreationTyped, Checkout!git
  <2>3. ASSUME NEW s \in Slugs, Checkout!Disturb(s)
        PROVE  /\ UNCHANGED <<creation, intent, assigned, launched, caller, checkouts>> /\ alone' = {}
               /\ worktree' \in [Checkout!Places -> {"own", "gone", "other"}]
    BY <1>1, <2>3, PlacesAre DEF Checkout!Disturb, CreationTyped, Checkout!rows
  <2> QED
    BY <1>1, <2>1, <2>2, <2>3 DEF CreationTyped
<1>3. CreationTyped' /\ Grows /\ Checkout!CreationsAreWhole'
  BY <1>1, <1>2 DEF CreationTyped, Grows, Checkout!CreationsAreWhole
<1>4. \A p \in Processes : Knows(p)'
  BY <1>1, <1>2, <1>3, KnowsStill
<1> QED
  BY <1>2, <1>3, <1>4 DEF CreationInv

\* The inductive invariant holds before any Feature is created.
LEMMA CreationStart == Checkout!Init => CreationInv
BY PlacesAre DEF Checkout!Init, CreationInv, CreationTyped, Knows, Checkout!NoCaller, CallerRow,
     CallerStates, CreationStates, Checkout!CreationsAreWhole

\* Every step of creation keeps the inductive invariant.
LEMMA CreationStep ==
  ASSUME CreationInv, Checkout!Next
  PROVE  CreationInv'
<1>1. ASSUME NEW p \in Processes, NEW f \in Checkout!Pairs, Checkout!Create(p, f)
      PROVE  CreationInv'
  BY <1>1, CreateMoves, MovesKeep
<1>2. ASSUME NEW p \in Processes,
             \/ Checkout!Current(p) \/ Checkout!Look(p) \/ Checkout!Resolve(p)
             \/ Checkout!Begin(p) \/ Checkout!Fail(p)
      PROVE  CreationInv'
  BY <1>2, LookingMoves, MovesKeep
<1>3. ASSUME NEW p \in Processes,
             \/ Checkout!RecordReuse(p) \/ Checkout!EnsureIntent(p) \/ Checkout!Add(p)
             \/ Checkout!Persist(p) \/ Checkout!MarkLaunchPending(p) \/ Checkout!Insert(p)
      PROVE  CreationInv'
  BY <1>3, RecordReuseMoves, EnsureIntentMoves, AddMoves, PersistMoves, MarkMoves, InsertMoves,
     MovesKeep
<1>4. ASSUME NEW p \in Processes,
             \/ \E k \in AdoptionKeys, f \in Checkout!Pairs, c \in Checkout!Places :
                  Checkout!ReadAdoption(p, k, f, c)
             \/ Checkout!Adopt(p) \/ Checkout!Crash(p)
      PROVE  CreationInv'
  BY <1>4, AdoptionMoves, MovesKeep
<1> QED
  BY <1>1, <1>2, <1>3, <1>4, AroundKeeps DEF Checkout!Next

\* The bound on faults, which both parts share, is kept.
LEMMA FaultsStay ==
  ASSUME faults \in 0..MaxFaults, Checkout!Next
  PROVE  faults' \in 0..MaxFaults
<1>1. faults' = faults \/ (faults < MaxFaults /\ faults' = faults + 1)
  BY ZenonT(60) DEF Checkout!Next, Checkout!Create, Checkout!Start, Checkout!Step, Checkout!Current,
     Checkout!RecordReuse, Checkout!EnsureIntent, Checkout!Look, Checkout!Add, Checkout!Resolve,
     Checkout!Persist, Checkout!MarkLaunchPending, Checkout!Begin, Checkout!Insert, Checkout!Fail,
     Checkout!ReadAdoption, Checkout!Adopt, Checkout!Crash, Checkout!EnsureRepositoryCheckout,
     Checkout!Reconcile, Checkout!Disturb
<1> QED
  BY <1>1, BoundsAssumption

\* The inductive invariant of both parts.
ScenariosInv == PublicationInv /\ CreationInv

\* A step of one part keeps the invariant of the other, whose rows it leaves.
LEMMA ScenariosStep ==
  ScenariosInv /\ [ScenariosNext]_<<scenario, vars, ofCreation>> => ScenariosInv'
<1> SUFFICES ASSUME ScenariosInv, [ScenariosNext]_<<scenario, vars, ofCreation>>
             PROVE  ScenariosInv'
  OBVIOUS
<1>1. ASSUME UNCHANGED ofCreation PROVE CreationInv'
  <2>1. UNCHANGED <<creation, intent, assigned, checkouts, worktree, branches, launched, caller, alone>>
    BY <1>1 DEF ofCreation
  <2> QED
    BY <2>1 DEF ScenariosInv, CreationInv, CreationTyped, Knows, InOrderStill, Checkout!CreationsAreWhole
<1>2. CASE UNCHANGED ofCreation /\ [Next]_vars
  BY <1>1, <1>2, PublicationStep DEF ScenariosInv
<1>3. CASE Checkout!Next /\ UNCHANGED ofPlanning
  <2>1. CreationInv'
    BY <1>3, CreationStep DEF ScenariosInv
  <2>2. /\ UNCHANGED <<source, feature, plan, added, planner, rows, file, head, process, calls>>
        /\ faults' \in 0..MaxFaults
    BY <1>3, FaultsStay DEF ofPlanning, ScenariosInv, PublicationInv, Typed
  <2>3. Called' /\ Commits'
    BY <2>2, NobodyActs, Unchanged DEF ScenariosInv, PublicationInv, Commits
  <2>4. PublicationInv'
    BY <2>2, <2>3, OnlyCalls DEF ScenariosInv, PublicationInv, Typed
  <2> QED
    BY <2>1, <2>4 DEF ScenariosInv
<1> QED
  BY <1>2, <1>3 DEF ScenariosNext

\* Publication and creation keep their inductive invariants (planning_workflow.rs,
\* checkout.rs).
THEOREM ScenariosInductive == Scenarios => []ScenariosInv
<1>1. ScenariosInit => ScenariosInv
  BY InitPublication, CreationStart DEF ScenariosInit, ScenariosInv
<1> QED
  BY <1>1, ScenariosStep, PTL DEF Scenarios

\* The rows of a Feature always go together: those of the hierarchy are there exactly when
\* it is planned, a planner was launched only for a Feature that waits for it, and such a
\* Feature has an intent and a checkout that is registered, however creations are repeated,
\* cut short by crashes and raced by adoptions (planning_workflow.rs, execute_feature_create).
THEOREM RowsAllFollow == Scenarios => []RowsFollow
<1>1. ScenariosInv => RowsFollow
  BY DEF ScenariosInv, PublicationInv, CreationInv, RowsFollow
<1> QED
  BY <1>1, ScenariosInductive, PTL

\* From whatever crashed creations, other commands, people and adoptions have left, a creation
\* that begins with nothing in its way and acts alone does not fail: prepare_feature_with
\* finds its own worktree again, mark_launch_pending the checkout it has just recorded, and
\* begin the Feature in that checkout, available (execute_feature_create).
THEOREM CreationsAloneSucceed == Scenarios => []AloneSucceeds
<1>1. ScenariosInv => AloneSucceeds
  BY DEF ScenariosInv, CreationInv, InOrderStill, AloneSucceeds, Checkout!AloneSucceeds, Checkout!At
<1> QED
  BY <1>1, ScenariosInductive, PTL

================================================================================
