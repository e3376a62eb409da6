--------------------------- MODULE SessionCatalogue ---------------------------
(***************************************************************************)
(* Importing the sessions of an older catalogue (legacy_import.rs), next   *)
(* to whatever else discovers and associates sessions (session_launch.rs,  *)
(* native_sources.rs).                                                     *)
(*                                                                         *)
(* A catalogue is backed up and previewed; a person marks in the preview   *)
(* which sessions to take and which Work items adopt them, and applies it  *)
(* for one repository.  The batch, its sessions, candidates, adoptions and *)
(* history are written in one transaction, but what decides them is read   *)
(* before: the id under which each session is known, one look-up a session.*)
(* A preview that has been applied is not applied again: its candidates    *)
(* are reconciled with the evidence of the catalogue, and enriched.        *)
(*                                                                         *)
(* A session has the id its catalogue lists it under, or the one made up   *)
(* when Workboard discovered it, here the native session itself.           *)
(***************************************************************************)
EXTENDS Naturals

CONSTANTS
  Natives,        \* sessions of the providers: pairs of a provider and a native id
  Conversations,  \* ids under which catalogues list sessions
  Repositories, Worktrees, Items, None,
  Home,           \* [Worktrees -> Repositories]
  Belongs,        \* [Items -> Repositories], work_item_repositories
  Listed,         \* per catalogue: [Conversations -> [native, home, tree, cwd]], or None
  Registrations,  \* where the worktrees that are checkouts may be at first: [Worktrees -> Paths]
  Open,           \* per catalogue: [Worktrees -> Paths], the open path of each worktree
  Previews,       \* reviewed previews: [catalogue, adopt], of selected conversations
  Processes,
  MaxCalls,       \* bound on imports that are applied
  MaxActs,        \* bound on discoveries and decisions made beside them
  MaxFaults       \* bound on crashes and replaced backups

Ids == Natives \cup Conversations
Catalogues == DOMAIN Listed

VARIABLES
  sessions,      \* native_sessions: the native session of each id
  sources,       \* native_session_sources: the session of each transcript
  associations,  \* native_session_associations
  candidates,    \* imported_session_candidates, by session
  batches,       \* import_batches: the repository each preview was applied for
  destinations,  \* import_source_destinations of each preview
  current,       \* checkout_paths without an end, by worktree that is a checkout
  held,          \* all checkout_paths
  backup,        \* the catalogue in the file that the previews name
  process,
  calls, acts, faults

found == <<sessions, sources>>
checkouts == <<current, held>>
imports == <<batches, destinations>>
bounds == <<calls, acts, faults>>
vars == <<sessions, sources, associations, candidates, batches, destinations, current,
          held, backup, process, calls, acts, faults>>

Idle == [pc |-> "idle"]
NoCandidate == [status |-> "absent"]

\* No preview lists one native session twice.
ValidPreview(p) ==
  \A c, e \in DOMAIN p.adopt :
    Listed[p.catalogue][c].native = Listed[p.catalogue][e].native => c = e

\* An older release imported sessions without looking at their evidence: it may have
\* left a batch whose candidates belong to another repository.
OlderCandidate(r, v) ==
  {[repository |-> r, checkout |-> None, status |-> s, told |-> v] :
     s \in {"unassigned", "ignored"}}

Init ==
  /\ \E p \in Previews \cup {None}, r \in Repositories :
       IF p = None
         THEN /\ sessions = [d \in Ids |-> None]
              /\ candidates = [d \in Ids |-> NoCandidate]
              /\ batches = [q \in Previews |-> None]
              /\ destinations = [q \in Previews |-> << >>]
         ELSE LET taken == DOMAIN p.adopt IN
              /\ ValidPreview(p) /\ \A c \in taken : p.adopt[c] = None
              /\ sessions = [d \in Ids |-> IF d \in taken THEN Listed[p.catalogue][d].native
                                                          ELSE None]
              /\ \E older \in [taken -> OlderCandidate(r, p.catalogue)] :
                   candidates = [d \in Ids |-> IF d \in taken THEN older[d] ELSE NoCandidate]
              /\ batches = [q \in Previews |-> IF q = p THEN r ELSE None]
              /\ destinations = [q \in Previews |->
                                  IF q = p THEN [c \in taken |-> c] ELSE << >>]
  /\ sources = [n \in Natives |-> None]
  /\ associations = {}
  /\ current \in Registrations
  /\ held = [w \in Worktrees |-> {current[w]} \ {None}]
  /\ backup \in Catalogues
  /\ process = [i \in Processes |-> Idle]
  /\ calls = 0 /\ acts = 0 /\ faults = 0

At(i, pc) == process[i].pc = pc
Return(i) == process' = [process EXCEPT ![i] = Idle]
Goto(i, pc) == process' = [process EXCEPT ![i].pc = pc]

\* native_sessions has one row for a native session.
Known(n) == {d \in Ids : sessions[d] = n}
Associated(d) == \E a \in associations : a.session = d /\ a.current

-----------------------------------------------------------------------------
(***************************************************************************)
(* The evidence of a catalogue on the repository of a session.             *)
(***************************************************************************)

\* The places under which a catalogue knows a repository.
Roots(v, r) == {Open[v][w] : w \in {x \in Worktrees : Home[x] = r}} \ {None}

\* The latest context decides, then the worktree, then the directory observed last; a
\* repository without places can be neither confirmed nor excluded.
MatchesRepository(v, c, r) ==
  LET row == Listed[v][c] IN
  IF row.home # None THEN row.home = r
  ELSE IF row.tree # None THEN Home[row.tree] = r
  ELSE row.cwd = None \/ Roots(v, r) = {} \/ row.cwd \in Roots(v, r)

Selected(i) == DOMAIN process[i].preview.adopt
Row(i, c) == Listed[process[i].preview.catalogue][c]

\* The copy that is read has the hash that was reviewed.
VerifiedSnapshot(i) == backup = process[i].preview.catalogue

-----------------------------------------------------------------------------
(***************************************************************************)
(* Applying a preview.                                                     *)
(***************************************************************************)

\* The batch is looked up by the hash of the preview, for this repository.
ExistingImport(p, r) == batches[p] = r

Apply(i, p, r) ==
  /\ At(i, "idle") /\ calls < MaxCalls /\ calls' = calls + 1
  /\ ValidPreview(p)
  /\ process' = [process EXCEPT ![i] =
       [pc |-> IF ExistingImport(p, r) THEN "replay" ELSE "import", preview |-> p,
        repository |-> r, found |-> << >>, doomed |-> {}]]
  /\ UNCHANGED <<found, associations, candidates, imports, checkouts, backup, acts, faults>>

Mismatched(i) ==
  {c \in Selected(i) :
     ~MatchesRepository(process[i].preview.catalogue, c, process[i].repository)}

\* A repetition looks the batch up again only if the backup is still what was reviewed;
\* otherwise it answers at once.
Replay(i) ==
  /\ At(i, "replay")
  /\ IF ~VerifiedSnapshot(i) THEN Return(i)
     ELSE IF Mismatched(i) = {} THEN Goto(i, "enrich")
     ELSE process' = [process EXCEPT ![i].pc = "reconcile",
            ![i].doomed = {destinations[process[i].preview][c] :
              c \in Mismatched(i) \cap DOMAIN destinations[process[i].preview]}]
  /\ UNCHANGED <<found, associations, candidates, imports, checkouts, backup, bounds>>

\* Mistake: the candidates are deleted whatever was decided since they were read.
ReconcileAll(i) ==
  /\ At(i, "reconcile") /\ Goto(i, "enrich")
  /\ candidates' = [d \in Ids |->
       IF d \in process[i].doomed /\ candidates[d].status # "absent" /\
          candidates[d].repository = process[i].repository THEN NoCandidate ELSE candidates[d]]
  /\ UNCHANGED <<found, associations, imports, checkouts, backup, bounds>>

\* The candidates of this repository that the evidence places elsewhere are deleted, all
\* of them or, once a person has decided for one, none.
Reconcile(i) ==
  LET here == {d \in process[i].doomed :
                 candidates[d].status # "absent" /\
                 candidates[d].repository = process[i].repository}
      confirmed == {d \in here : candidates[d].status = "confirmed" \/ Associated(d)}
  IN
  /\ At(i, "reconcile")
  /\ IF confirmed # {}
       THEN Return(i) /\ UNCHANGED candidates
       ELSE /\ candidates' = [d \in Ids |-> IF d \in here THEN NoCandidate ELSE candidates[d]]
            /\ Goto(i, "enrich")
  /\ UNCHANGED <<found, associations, imports, checkouts, backup, bounds>>

\* The pinned copy is verified and the selection compared with its evidence.
Import(i) ==
  /\ At(i, "import")
  /\ IF VerifiedSnapshot(i) /\ Selected(i) # {} /\ Mismatched(i) = {}
       THEN Goto(i, "resolve") ELSE Return(i)
  /\ UNCHANGED <<found, associations, candidates, imports, checkouts, backup, bounds>>

\* A session that is known keeps its id; another gets the one that the preview proposes,
\* unless that names another session.
Resolve(i, c) ==
  LET n == Row(i, c).native
      destination == IF Known(n) # {} THEN CHOOSE d \in Known(n) : TRUE ELSE c
      taken == {process[i].found[e] : e \in DOMAIN process[i].found}
  IN
  /\ At(i, "resolve") /\ c \in Selected(i) \ DOMAIN process[i].found
  /\ IF sessions[c] \notin {None, n} \/ destination \in taken
       THEN Return(i)
       ELSE process' = [process EXCEPT ![i].found =
              [e \in DOMAIN @ \cup {c} |-> IF e = c THEN destination ELSE @[e]]]
  /\ UNCHANGED <<found, associations, candidates, imports, checkouts, backup, bounds>>

ValidateCandidateAdoptions(i) ==
  /\ At(i, "resolve") /\ DOMAIN process[i].found = Selected(i)
  /\ IF \A c \in Selected(i) : LET item == process[i].preview.adopt[c] IN
          item # None => Belongs[item] = process[i].repository
       THEN Goto(i, "write") ELSE Return(i)
  /\ UNCHANGED <<found, associations, candidates, imports, checkouts, backup, bounds>>

-----------------------------------------------------------------------------
(***************************************************************************)
(* The transaction of an import.  It fails as a whole if one of its rows   *)
(* violates a constraint.                                                  *)
(***************************************************************************)

Destinations(i) == {process[i].found[c] : c \in Selected(i)}
Source(i, d) == CHOOSE c \in Selected(i) : process[i].found[c] = d
Adopted(i) == {c \in Selected(i) : process[i].preview.adopt[c] # None}

\* Worktrees of the repository that the catalogue lists with an open path.
ImportedTrees(i) ==
  {w \in Worktrees : Home[w] = process[i].repository /\
                     Open[process[i].preview.catalogue][w] # None}
ListedPath(i, w) == Open[process[i].preview.catalogue][w]

\* A checkout that has a path keeps it, and the listed one becomes history.
ImportedPaths(i) ==
  [w \in Worktrees |-> IF w \in ImportedTrees(i) /\ current[w] = None
                         THEN ListedPath(i, w) ELSE current[w]]
ImportedHistory(i) ==
  [w \in Worktrees |-> IF w \in ImportedTrees(i) THEN held[w] \cup {ListedPath(i, w)}
                       ELSE held[w]]

\* ON CONFLICT (provider, native_id) DO NOTHING: the id found before is not looked at.
ImportedSessions(i) ==
  [d \in Ids |-> IF d \in Destinations(i) /\ Known(Row(i, Source(i, d)).native) = {}
                   THEN Row(i, Source(i, d)).native ELSE sessions[d]]

\* ON CONFLICT (workspace_id, session_id) DO NOTHING: an earlier candidate stays.
ImportedCandidates(i) ==
  [d \in Ids |->
    IF d \in Destinations(i) /\ candidates[d].status = "absent"
      THEN LET c == Source(i, d)
               tree == Row(i, c).tree
           IN [repository |-> process[i].repository,
               checkout |-> IF tree # None /\ Home[tree] = process[i].repository
                              THEN tree ELSE None,
               status |-> IF c \in Adopted(i) THEN "confirmed" ELSE "unassigned",
               told |-> process[i].preview.catalogue]
      ELSE candidates[d]]

ImportedAssociations(i) ==
  {[session |-> process[i].found[c], item |-> process[i].preview.adopt[c],
    current |-> TRUE] : c \in Adopted(i)}

ImportedSources(i) ==
  [n \in Natives |->
    IF \E c \in Selected(i) : Row(i, c).native = n /\ sources[n] = None
      THEN process[i].found[CHOOSE c \in Selected(i) : Row(i, c).native = n]
      ELSE sources[n]]

\* Mistake: the foreign keys are not enforced.
UncheckedConstraints(i) ==
  /\ batches[process[i].preview] = None
  /\ \A c \in Adopted(i) : ~Associated(process[i].found[c])

\* Unique preview_hash, checkout_paths_current_path, the primary key of sessions, the
\* foreign keys to them, one current association, and one session for a transcript.
Constraints(i) ==
  /\ batches[process[i].preview] = None
  /\ \A w \in Worktrees : \A x \in Worktrees \ {w} :
       ImportedPaths(i)[w] = ImportedPaths(i)[x] => ImportedPaths(i)[w] = None
  /\ \A d \in Ids : sessions[d] # None => ImportedSessions(i)[d] = sessions[d]
  /\ \A d \in Destinations(i) : ImportedSessions(i)[d] # None
  /\ \A c \in Adopted(i) : ~Associated(process[i].found[c])
  /\ \A c \in Selected(i) : sources[Row(i, c).native] \in {None, process[i].found[c]}

Write(i) ==
  /\ At(i, "write") /\ Constraints(i)
  /\ batches' = [batches EXCEPT ![process[i].preview] = process[i].repository]
  /\ destinations' = [destinations EXCEPT ![process[i].preview] = process[i].found]
  /\ current' = ImportedPaths(i)
  /\ held' = ImportedHistory(i)
  /\ sessions' = ImportedSessions(i)
  /\ candidates' = ImportedCandidates(i)
  /\ associations' = associations \cup ImportedAssociations(i)
  /\ sources' = ImportedSources(i)
  /\ Goto(i, "enrich")
  /\ UNCHANGED <<backup, bounds>>

WriteFails(i) ==
  /\ At(i, "write") /\ ~Constraints(i) /\ Return(i)
  /\ UNCHANGED <<found, associations, candidates, imports, checkouts, backup, bounds>>

\* The deepest checkout of the repository that ever was where the session was last seen.
CheckoutForPath(i, c) ==
  LET inside == {w \in Worktrees : Home[w] = process[i].repository /\ Row(i, c).cwd \in held[w]}
  IN IF inside = {} THEN None ELSE CHOOSE w \in inside : TRUE

\* A transaction of its own, which takes what the catalogue tells of each session to its
\* candidate, whichever repository that belongs to.  What it reads before only grows.
Enrich(i) ==
  LET destination == destinations[process[i].preview] IN
  /\ At(i, "enrich") /\ Return(i)
  /\ candidates' = [d \in Ids |->
       IF candidates[d].status # "absent" /\ \E c \in DOMAIN destination : destination[c] = d
         THEN LET c == CHOOSE e \in DOMAIN destination : destination[e] = d IN
              [candidates[d] EXCEPT
                 !.checkout = IF @ = None THEN CheckoutForPath(i, c) ELSE @,
                 !.told = process[i].preview.catalogue]
         ELSE candidates[d]]
  /\ UNCHANGED <<found, associations, imports, checkouts, backup, bounds>>

-----------------------------------------------------------------------------
(***************************************************************************)
(* Decisions of a person, and what else happens to sessions.               *)
(***************************************************************************)
Act == acts < MaxActs /\ acts' = acts + 1

AdoptImported(d, item) ==
  /\ Act
  /\ candidates[d].status = "unassigned" /\ candidates[d].repository = Belongs[item]
  /\ ~Associated(d)
  /\ associations' = associations \cup {[session |-> d, item |-> item, current |-> TRUE]}
  /\ candidates' = [candidates EXCEPT ![d].status = "confirmed"]
  /\ UNCHANGED <<found, imports, checkouts, backup, process, calls, faults>>

IgnoreImported(d) ==
  /\ Act /\ candidates[d].status = "unassigned"
  /\ candidates' = [candidates EXCEPT ![d].status = "ignored"]
  /\ UNCHANGED <<found, associations, imports, checkouts, backup, process, calls, faults>>

\* A hook of a session that Workboard does not know yet.
EnsureNativeSession(n) ==
  /\ Act /\ Known(n) = {}
  /\ sessions' = [sessions EXCEPT ![n] = n]
  /\ UNCHANGED <<sources, associations, candidates, imports, checkouts, backup, process, calls,
                 faults>>

\* A scan of the transcripts discovers sessions, too, and takes each transcript over.
Refresh(n) ==
  LET d == IF Known(n) # {} THEN CHOOSE e \in Known(n) : TRUE ELSE n IN
  /\ Act /\ sources[n] # d
  /\ sessions' = [sessions EXCEPT ![d] = n]
  /\ sources' = [sources EXCEPT ![n] = d]
  /\ UNCHANGED <<associations, candidates, imports, checkouts, backup, process, calls, faults>>

\* A managed session is bound to an item, or closed.
Bind(d, item) ==
  /\ Act /\ sessions[d] # None /\ ~Associated(d)
  /\ associations' = associations \cup {[session |-> d, item |-> item, current |-> TRUE]}
  /\ UNCHANGED <<found, candidates, imports, checkouts, backup, process, calls, faults>>

CloseSession(d) ==
  /\ Act /\ Associated(d)
  /\ associations' = {[a EXCEPT !.current = a.current /\ a.session # d] : a \in associations}
  /\ UNCHANGED <<found, candidates, imports, checkouts, backup, process, calls, faults>>

\* The file of the backup is replaced, or a process crashes.
ReplaceBackup(v) ==
  /\ faults < MaxFaults /\ faults' = faults + 1
  /\ backup # v /\ backup' = v
  /\ UNCHANGED <<found, associations, candidates, imports, checkouts, process, calls, acts>>

Crash(i) ==
  /\ faults < MaxFaults /\ faults' = faults + 1
  /\ ~At(i, "idle") /\ Return(i)
  /\ UNCHANGED <<found, associations, candidates, imports, checkouts, backup, calls, acts>>

Step(i) ==
  \/ Replay(i) \/ Reconcile(i) \/ Import(i)
  \/ \E c \in Conversations : Resolve(i, c)
  \/ ValidateCandidateAdoptions(i) \/ Write(i) \/ WriteFails(i) \/ Enrich(i)

\* session adopt-imported and ignore-imported.
Decision(d) == IgnoreImported(d) \/ \E item \in Items : AdoptImported(d, item)

\* import context-catalogue apply.
ImportCatalogue(i) == \E p \in Previews, r \in Repositories : Apply(i, p, r)

Next ==
  \/ \E i \in Processes : ImportCatalogue(i) \/ Step(i) \/ Crash(i)
  \/ \E d \in Ids : Decision(d) \/ CloseSession(d) \/ \E item \in Items : Bind(d, item)
  \/ \E n \in Natives : EnsureNativeSession(n) \/ Refresh(n)
  \/ \E v \in Catalogues : ReplaceBackup(v)

Spec == Init /\ [][Next]_vars

-----------------------------------------------------------------------------
\* Rows that were decided before their transaction name the right session all the same:
\* each conversation of a batch, and each transcript, leads to the native session it was
\* listed for, under one id (apply_context_catalogue_import, refresh), whoever discovered
\* that session between the look-up and the transaction.
SessionsAreTheirs ==
  /\ \A p \in Previews : \A c \in DOMAIN destinations[p] :
       sessions[destinations[p][c]] = Listed[p.catalogue][c].native
  /\ \A n \in Natives : sources[n] # None => sessions[sources[n]] = n
  /\ \A n \in Natives : \A d, e \in Known(n) : d = e

\* A candidate that is confirmed was adopted by an item of its own repository, whether an
\* import or a person adopted it, and whatever other imports say of the session.
ConfirmedIsAdopted ==
  \A d \in Ids : candidates[d].status = "confirmed" =>
    \E a \in associations : a.session = d /\ Belongs[a.item] = candidates[d].repository

\* A preview that was applied for the repository of the candidate places its session in
\* another.
Misplaced(d) ==
  \E p \in Previews :
    /\ batches[p] = candidates[d].repository
    /\ \E c \in DOMAIN destinations[p] :
         destinations[p][c] = d /\ ~MatchesRepository(p.catalogue, c, candidates[d].repository)

\* The candidate keeps its repository, and what was decided on it.
Kept(d) ==
  candidates'[d].status = candidates[d].status /\ candidates'[d].repository = candidates[d].repository

\* No import, repeated import or reconciliation changes a decision of a person: what is
\* confirmed stays so in its repository, whatever a catalogue tells of it; what is ignored
\* stays so too, but for a candidate that is misplaced, which reconciliation deletes, and
\* the decision with it.
DecisionKept ==
  \A d \in Ids :
    /\ candidates[d].status = "confirmed" => Kept(d)
    /\ candidates[d].status = "ignored" =>
         Kept(d) \/ (candidates'[d] = NoCandidate /\ Misplaced(d))

DecisionsStay == [][DecisionKept]_vars

\* By hand, violated: a session that a person has dismissed is not offered again.  It is,
\* by an import that follows the reconciliation of its candidate.
DismissedIsFinal ==
  \A d \in Ids : [](candidates[d].status = "ignored" => [](candidates[d].status # "unassigned"))

\* By hand, violated: a session that an import has adopted is a confirmed candidate.  A
\* candidate that an earlier import left is not confirmed by it.
AdoptedIsConfirmed ==
  \A p \in Previews : \A c \in DOMAIN destinations[p] :
    p.adopt[c] # None => candidates[destinations[p][c]].status = "confirmed"

\* By hand, violated: the checkout of a candidate is one of its repository.
CheckoutIsTheirs ==
  \A d \in Ids : candidates[d].status # "absent" /\ candidates[d].checkout # None =>
    Home[candidates[d].checkout] = candidates[d].repository

=============================================================================
