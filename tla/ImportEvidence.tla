---------------------------- MODULE ImportEvidence ----------------------------
(***************************************************************************)
(* What proves which documents an import of plans made: migrations 23 to   *)
(* 30 of storage.rs, the triggers they leave behind, and the imports       *)
(* (concertable_import.rs) of this release and of earlier ones that still  *)
(* have the database open.                                                 *)
(*                                                                         *)
(* A batch has an Epic, a Feature and perhaps a Work item; an Epic that no *)
(* file describes is synthetic.  Its rows are memberships (23), their      *)
(* finalization (24), which views over the hierarchy have to confirm (25,  *)
(* 26), the evidence of each member (27, 28) and the attestation of a      *)
(* synthetic one (27, 29, 30).  A transaction that a trigger refuses       *)
(* leaves nothing; neither does a migration that somebody else has made    *)
(* since it was looked up, which finds its tables and views there.         *)
(***************************************************************************)
EXTENDS Naturals, FiniteSets

CONSTANTS Batches,
          Releases,     \* schemas of the releases that import
          MaxReparents  \* bound on rows of the hierarchy that are moved

Current == 30
Parts == {"epic", "feature", "work_item"}

VARIABLES
  version,  \* the migrations are applied in order, up to this one
  import,   \* the rows of each batch
  reparents

vars == <<version, import, reparents>>

NoEvidence == [from |-> "none", revision |-> 0]
From(provenance, revision) == [from |-> provenance, revision |-> revision]
\* revised are the documents with a revision newer than the imported one, which is 1.
Absent == [made |-> {}, sources |-> {}, members |-> {}, finalized |-> FALSE,
           evidence |-> [d \in Parts |-> NoEvidence], attested |-> "none", revised |-> {}]

Init == version = 22 /\ import = [b \in Batches |-> Absent] /\ reparents = 0

-----------------------------------------------------------------------------
(***************************************************************************)
(* The views.                                                              *)
(***************************************************************************)

\* concertable_import_expected_documents: the rows created at the time of the import whose
\* documents have a revision of that time.
Expected(x) == x.made

\* An Epic may lack a source if one of its Features has one.
Generated(x) == "epic" \in x.members \ x.sources /\ "feature" \in x.members \cap x.sources

MembershipFails(x) ==
  \/ x.members = {} \/ x.members # Expected(x)
  \/ ~(x.sources \subseteq x.members)
  \/ x.members \ x.sources # (IF Generated(x) THEN {"epic"} ELSE {})

\* Every row of the hierarchy has its document, as they are inserted together.
CohortFails(x) == "feature" \notin Expected(x)

EvidenceFails(x) ==
  \E d \in x.members :
    \/ x.evidence[d].revision # 1
    \/ x.evidence[d].from = "source" /\ d \notin x.sources
    \/ x.evidence[d].from = "synthetic" /\ (d # "epic" \/ d \in x.sources)
    \/ x.evidence[d].from = "synthetic" /\ x.evidence["feature"].from # "source"

ProvenanceFails(x) ==
  \E d \in x.members :
    x.evidence[d] # NoEvidence /\
      (x.evidence[d].from = "synthetic") # (d = "epic" /\ x.attested # "none")

-----------------------------------------------------------------------------
(***************************************************************************)
(* The triggers.                                                           *)
(***************************************************************************)

\* import_document_membership_finalizations_valid, which each migration replaces.
Finalizable(s, x) ==
  /\ x.members # {}
  /\ s >= 25 => ~MembershipFails(x)
  /\ s >= 26 => ~CohortFails(x)
  /\ s >= 28 => ~EvidenceFails(x)
  /\ s >= 29 => ~ProvenanceFails(x)

\* Mistake: an attestation can be replaced after migration 30.
AttestableAgain(x, authority) ==
  /\ Generated(x)
  /\ x.finalized = (authority = "explicit_repair")
  /\ version >= 29 => x.evidence["epic"].from # "source"

\* import_feature_membership_parent_immutable and its like, of 25.
ParentFixed(x) == version >= 25 /\ x.finalized

\* import_document_synthetic_attestations_valid, with the triggers of 29 and 30 beside it.
Attestable(x, authority) ==
  /\ Generated(x)
  /\ x.finalized = (authority = "explicit_repair")
  /\ version >= 29 => x.evidence["epic"].from # "source"
  /\ version >= 30 => x.attested = "none"

-----------------------------------------------------------------------------
(***************************************************************************)
(* Imports.                                                                *)
(***************************************************************************)

\* What a release of version r inserts, in one transaction.
Inserted(r, made, sources) ==
  [Absent EXCEPT
     !.made = made, !.sources = sources,
     !.members = IF r >= 23 THEN made ELSE {},
     !.finalized = r >= 24,
     !.attested = IF r >= 27 /\ "epic" \notin sources THEN "import_preview" ELSE "none",
     !.evidence = [d \in Parts |->
       IF r < 27 \/ d \notin made THEN NoEvidence
       ELSE From(IF d \in sources THEN "source" ELSE "synthetic", 1)]]

\* Mistake: the rows are not finalized before they are complete.
ApplyUnchecked(b, r) ==
  /\ import[b].made = {} /\ r <= version
  /\ \E made \in {{"epic", "feature"}, Parts}, sources \in {{"feature"}, {"epic", "feature"}} :
       import' = [import EXCEPT ![b] = Inserted(r, made, sources \cup (made \ {"epic"}))]
  /\ UNCHANGED <<version, reparents>>

\* A preview that was applied is answered from its batch and inserts nothing.  An earlier
\* release applies one only if it opened the database before it was migrated further.
Apply(b, r) ==
  /\ import[b].made = {} /\ r <= version
  /\ \E made \in {{"epic", "feature"}, Parts}, sources \in {{"feature"}, {"epic", "feature"}} :
       LET x == Inserted(r, made, sources \cup (made \ {"epic"})) IN
       /\ x.finalized => Finalizable(version, x)
       /\ import' = [import EXCEPT ![b] = x]
  /\ UNCHANGED <<version, reparents>>

\* existing_concertable_import: how a repeated import is answered.
Answer(b) ==
  LET x == import[b] IN
  IF x.made = {} THEN "new"
  ELSE IF ~x.finalized THEN "unfinalized"
  ELSE IF MembershipFails(x) \/ CohortFails(x) \/ EvidenceFails(x) \/ ProvenanceFails(x)
    THEN "invalid"
  ELSE "already applied"

-----------------------------------------------------------------------------
(***************************************************************************)
(* Migrations: the rows each makes, and what it checks of them.            *)
(***************************************************************************)

\* 23 takes the documents observed at the time of the import, 24 those whose hierarchy was
\* created then, and finalizes them; 28 states the evidence of what is finalized.
BackfillMembers(x) == [x EXCEPT !.members = Expected(x)]
BackfillFinalizations(x) ==
  [x EXCEPT !.members = Expected(x), !.finalized = Expected(x) # {}]
BackfillEvidence(x) ==
  [x EXCEPT !.evidence = [d \in Parts |->
     IF ~x.finalized \/ d \notin x.members \/ x.evidence[d] # NoEvidence THEN x.evidence[d]
     ELSE IF d \in x.sources THEN From("source", 1)
     ELSE IF d = "epic" /\ x.attested # "none" THEN From("synthetic", 1)
     ELSE NoEvidence]]

Backfilled(v, x) ==
  CASE v = 23 -> BackfillMembers(x)
    [] v = 24 -> BackfillFinalizations(x)
    [] v = 28 -> BackfillEvidence(x)
    [] OTHER -> x

\* 24 also wants every batch with members or sources to be finalized.
ValidMemberships(x) ==
  x.members # {} \/ x.sources # {} \/ x.finalized =>
    x.finalized /\ x.members # {} /\ ~MembershipFails(x) /\ ~CohortFails(x)
Validated(v, x) ==
  CASE v = 24 -> ValidMemberships(x)
    [] v = 25 -> x.finalized => ~MembershipFails(x)
    [] v = 26 -> x.finalized => ~MembershipFails(x) /\ ~CohortFails(x)
    [] v = 28 -> x.finalized => ~MembershipFails(x) /\ ~CohortFails(x) /\ ~EvidenceFails(x)
    [] v = 29 -> x.finalized => ~ProvenanceFails(x)
    [] OTHER -> TRUE

Migrate ==
  /\ version < Current /\ version' = version + 1
  /\ import' = [b \in Batches |-> Backfilled(version', import[b])]
  /\ \A b \in Batches : Validated(version', import'[b])
  /\ UNCHANGED reparents

-----------------------------------------------------------------------------
\* A person attests a synthetic Epic, as the message of 28 asks; until 30 INSERT OR REPLACE
\* may take the place of an attestation that is there.
Attest(b) ==
  /\ version >= 27 /\ Attestable(import[b], "explicit_repair")
  /\ import' = [import EXCEPT ![b].attested = "explicit_repair"]
  /\ UNCHANGED <<version, reparents>>

AttestMissing(b) == import[b].attested = "none" /\ Attest(b)

\* An update gives an imported document a newer revision.
Revise(b, d) ==
  /\ d \in import[b].made
  /\ import' = [import EXCEPT ![b].revised = @ \cup {d}]
  /\ UNCHANGED <<version, reparents>>

\* A Work item or a Feature, with its own, is moved elsewhere: by hand, as no command does.
Reparent(b, d) ==
  /\ reparents < MaxReparents /\ reparents' = reparents + 1
  /\ d \in import[b].made \ {"epic"} /\ ~ParentFixed(import[b])
  /\ import' = [import EXCEPT ![b].made = @ \ (IF d = "feature" THEN {d, "work_item"} ELSE {d})]
  /\ UNCHANGED version

Next ==
  \/ Migrate
  \/ \E b \in Batches :
       \/ Attest(b)
       \/ \E d \in Parts : Reparent(b, d)
       \/ \E r \in Releases : Apply(b, r)
       \/ \E d \in Parts : Revise(b, d)

\* The database is opened until it is migrated, and the synthetic Epics that the failure
\* of migration 28 names are attested.
Fairness ==
  /\ WF_vars(Migrate)
  /\ \A b \in Batches : WF_vars(AttestMissing(b))
Spec == Init /\ [][Next]_vars /\ Fairness

-----------------------------------------------------------------------------
\* What is finalized is what was imported, from migration 25 all of its documents and no
\* other, wherever rows were moved before, and from 28 each with evidence of the revision that was imported and of its source, or
\* of an attestation where no file describes it.
FinalizedIsTrue ==
  \A b \in Batches : LET x == import[b] IN x.finalized =>
    /\ version >= 25 => x.members = x.made
    /\ version >= 28 => \A d \in x.made :
         x.evidence[d] = From(IF d \in x.sources THEN "source" ELSE "synthetic", 1)
    /\ version >= 28 => (x.attested # "none") = ("epic" \notin x.sources)

\* What is finalized stays so, with its members and the evidence it has, through later
\* migrations, imports, updates and repairs; the last migration fixes attestations too.
FinalizedKept ==
  \A b \in Batches : import[b].finalized =>
    /\ import'[b].finalized
    /\ import'[b].members = import[b].members
    /\ \A d \in Parts : import[b].evidence[d] # NoEvidence => import'[b].evidence[d] = import[b].evidence[d]
    /\ version = Current => import'[b].attested = import[b].attested
FinalizedStays == [][FinalizedKept]_vars

\* A batch that 24 or 25 may refuse: what was moved has to be moved back.
Moved(b) == ~(import[b].sources \subseteq import[b].made)

\* By hand, violated: an import that is repeated is answered.  What an earlier release
\* inserts after migration 24 is finalized by nobody.
ImportsAreAnswered == \A b \in Batches : version = Current => Answer(b) # "unfinalized"

=============================================================================
