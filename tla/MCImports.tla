------------------------------- MODULE MCImports -------------------------------
(***************************************************************************)
(* SessionCatalogue and EpicImport in one run of TLC: the first state      *)
(* chooses whether catalogues of sessions are imported or Epics and plans, *)
(* and each has bounds of its own.  Variables of one name are shared, the  *)
(* others of the import that does not run stay as they are.                *)
(***************************************************************************)
EXTENDS Naturals, Sequences, TLC

CONSTANTS Nothing, Importers, MaxImportFaults,
          Natives, Conversations, Codebases, Worktrees, Items, Home, Belongs, Listed,
          Registrations, OpenPlaces, Reviewed,          \* those of SessionCatalogue, as are
          MaxSessionImports, MaxActs,
          Slugs, Proposals, Plans, SlugOf, TitleOf, MaxApprovals,   \* those of EpicImport
          n1, n2, c1, c2, c3, r1, r2, w1, w2, q1, q2, i1, i2, v1, v2

\* Ids are of different kinds, and a catalogue lists conversations by the ids they have for
\* good: no two catalogues list different sessions under one.
ASSUME CatalogueAssumption ==
  /\ Natives \cap Conversations = {}
  /\ Nothing \notin Natives \cup Conversations \cup Items \cup Codebases
  /\ Belongs \in [Items -> Codebases]
  /\ \A v \in DOMAIN Listed : /\ DOMAIN Listed[v] \subseteq Conversations
                               /\ \A c \in DOMAIN Listed[v] :
                                    /\ Listed[v][c].native \in Natives
                                    /\ Listed[v][c].tree \in Worktrees \cup {Nothing}
  /\ \A v, w \in DOMAIN Listed : \A c \in DOMAIN Listed[v] \cap DOMAIN Listed[w] :
       Listed[v][c].native = Listed[w][c].native
  /\ \A p \in Reviewed : /\ p.catalogue \in DOMAIN Listed
                          /\ DOMAIN p.adopt \subseteq DOMAIN Listed[p.catalogue]
                          /\ \A c \in DOMAIN p.adopt : p.adopt[c] \in Items \cup {Nothing}

\* What is proposed or planned has a slug.
ASSUME EpicsAssumption ==
  /\ Proposals \cap Plans = {}
  /\ SlugOf \in [Proposals \cup Plans -> Slugs]

\* Session c1 is placed in r2 by the second catalogue only, and n2 is listed under
\* another id there.
TwoHomes == w1 :> r1 @@ w2 :> r2
TwoItems == i1 :> r1 @@ i2 :> r2
Row(native, home, tree, cwd) == [native |-> native, home |-> home, tree |-> tree, cwd |-> cwd]
TwoCatalogues ==
  v1 :> (c1 :> Row(n1, Nothing, Nothing, Nothing) @@ c2 :> Row(n2, r1, w1, q1)) @@
  v2 :> (c1 :> Row(n1, r2, Nothing, q2) @@ c3 :> Row(n2, r1, w1, q1))
OpenPaths == v1 :> (w1 :> q1 @@ w2 :> Nothing) @@ v2 :> (w1 :> q1 @@ w2 :> q2)
NoneOrMoved == {w1 :> Nothing @@ w2 :> Nothing, w1 :> Nothing @@ w2 :> q1}
Selections ==
  {[catalogue |-> v1, adopt |-> (c1 :> Nothing @@ c2 :> i1)],
   [catalogue |-> v2, adopt |-> (c1 :> i2)],
   [catalogue |-> v2, adopt |-> (c3 :> Nothing)]}

\* By hand, for DismissedIsFinal: the second import of a session adopts it for nobody.
Dismissable ==
  {[catalogue |-> v1, adopt |-> (c1 :> Nothing @@ c2 :> Nothing)],
   [catalogue |-> v2, adopt |-> (c3 :> Nothing)]}

\* Proposals and plans for one slug, each with a title of its own.
OneSlug == [x \in Proposals \cup Plans |-> CHOOSE s \in Slugs : TRUE]
OwnTitle == [x \in Proposals \cup Plans |-> x]

VARIABLES importing,
          sessions, sources, associations, candidates, destinations, current, held, backup, acts,
          proposals, rows, moved, file, overtaken,
          batches, process, calls, failures

Catalogue == INSTANCE SessionCatalogue WITH
  None <- Nothing, Repositories <- Codebases, Open <- OpenPlaces, Previews <- Reviewed,
  Processes <- Importers, MaxCalls <- MaxSessionImports, MaxFaults <- MaxImportFaults,
  faults <- failures
Epics == INSTANCE EpicImport WITH
  Previews <- Plans, Processes <- Importers, MaxCalls <- MaxApprovals,
  MaxFaults <- MaxImportFaults, faults <- failures

ofSessions == <<sessions, sources, associations, candidates, destinations, current, held,
                backup, acts>>
ofEpics == <<proposals, rows, moved, file, overtaken>>
importsVars == <<importing, ofSessions, ofEpics, batches, process, calls, failures>>

Idling == "unused"

ImportsInit ==
  \/ /\ importing = "sessions" /\ Catalogue!Init
     /\ proposals = Idling /\ rows = Idling /\ moved = Idling /\ file = Idling
     /\ overtaken = Idling
  \/ /\ importing = "epics" /\ Epics!Init
     /\ sessions = Idling /\ sources = Idling /\ associations = Idling
     /\ candidates = Idling /\ destinations = Idling /\ current = Idling
     /\ held = Idling /\ backup = Idling /\ acts = Idling

ImportsNext ==
  /\ UNCHANGED importing
  /\ \/ importing = "sessions" /\ Catalogue!Next /\ UNCHANGED ofEpics
     \/ importing = "epics" /\ Epics!Next /\ UNCHANGED ofSessions

\* The fairness of EpicImport; nothing of SessionCatalogue has to happen.
ImportsSpec ==
  /\ ImportsInit /\ [][ImportsNext]_importsVars
  /\ \A p \in Importers :
       WF_importsVars(importing = "epics" /\ Epics!Step(p) /\ UNCHANGED <<importing, ofSessions>>)
  /\ \A v \in Plans :
       SF_importsVars(/\ importing = "epics" /\ UNCHANGED <<importing, ofSessions>>
                      /\ \E p \in Importers : Epics!ApplyImport(p, v))

-----------------------------------------------------------------------------
\* Rows that were decided before their transaction name the right session all the same:
\* each conversation of a batch, and each transcript, leads to the native session it was
\* listed for, under one id, whoever discovered that session between the look-up and the
\* transaction; and a candidate that is confirmed was adopted by an item of its own
\* repository (apply_context_catalogue_import, adopt_imported_session_candidate, refresh).
CandidatesAreTheirs ==
  importing = "sessions" => Catalogue!SessionsAreTheirs /\ Catalogue!ConfirmedIsAdopted

\* No import, repeated import or reconciliation changes a decision of a person on a
\* candidate, but that reconciliation deletes one that was dismissed and that a catalogue
\* imported for its repository places in another (reconcile_legacy_candidates,
\* enrich_legacy_candidates).
DecisionsStay == [][importing = "sessions" => Catalogue!DecisionKept]_importsVars

\* A row of a document names what is committed at its path, unless another call created
\* that file between the comparison and the creation of an import; and an approved proposal
\* has an Epic of its slug and title, whoever else decided or created one meanwhile
\* (create_epic, publish_batch_new, approve_workspace_proposal, decide).
EpicsAreTrue == importing = "epics" => Epics!RowsAreCommitted /\ Epics!ApprovedHasEpic

\* An import that is repeated after every failure is applied, unless its sources moved,
\* something else has taken the path or the slug of one of its documents, or a call was
\* killed between creating one of its files and writing it (apply, publish_batch_new).
ImportsEnd ==
  \A v \in Plans :
    <>(\/ importing = "sessions" \/ v \in batches \/ v \in moved \/ Epics!Taken(v)
       \/ \E k \in DOMAIN Epics!Parts : Epics!Torn(<<SlugOf[v], Epics!Parts[k]>>))

\* By hand, violated: a session that an import has adopted is a confirmed candidate, the
\* checkout of a candidate is one of its repository, and so on, as the two modules state.
AdoptedIsConfirmed == importing = "sessions" => Catalogue!AdoptedIsConfirmed
CheckoutIsTheirs == importing = "sessions" => Catalogue!CheckoutIsTheirs
DismissedIsFinal == importing = "sessions" => Catalogue!DismissedIsFinal
AllRowsAreCommitted == importing = "epics" => Epics!AllRowsAreCommitted
KilledImportsEnd ==
  \A v \in Plans :
    <>(importing = "sessions" \/ v \in batches \/ v \in moved \/ Epics!Taken(v))
TitlesAgree == importing = "epics" => Epics!TitlesAgree
RejectedHasNone == importing = "epics" => Epics!RejectedHasNone

=============================================================================
