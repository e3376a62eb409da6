---------------------------- MODULE StorageUpgrade ---------------------------
(***************************************************************************)
(* The upgrade of the database when it is opened (application/storage.rs), *)
(* for the migrations that settle which repository an import batch belongs *)
(* to: 14 adds the column and guesses, 15 repairs it from immutable        *)
(* evidence, 16 and 17 guard it and add attestations, 18 audits every      *)
(* batch, 19 to 22 guard and repair the attestations.  23 stands for all   *)
(* later ones.                                                             *)
(*                                                                         *)
(* Every process that opens the database migrates it.  A migration is      *)
(* looked up first and applied in a transaction of its own afterwards, so  *)
(* that several processes can find the same one missing; up to schema 14   *)
(* the migrations 15 to 22 are one transaction.  One action is one read or *)
(* one transaction.  Processes of the earlier release that made the        *)
(* database still import batches, and a person repairs what an upgrade     *)
(* complains of.                                                           *)
(***************************************************************************)
EXTENDS Naturals, Sequences, FiniteSets

CONSTANTS Processes,     \* processes of this release
          Batches,       \* rows of import_batches
          Repositories,  \* repositories of the workspace that hold code
          Store,         \* its planning repository, which owns no batch
          None,
          Releases,      \* schemas of the databases that earlier releases left
          MaxMistakes,   \* bound on attestations that cannot be used
          MaxCrashes      \* bound on crashes and failing statements

ASSUME UpgradeAssumption ==
  /\ Store \notin Repositories /\ None \notin Repositories \cup {Store}
  /\ Releases \subseteq {13, 14, 15, 17, 20}

VARIABLES
  release,    \* the schema the database was found with
  applied,    \* schema_migrations
  schema,     \* user_version
  batch,      \* import_batches
  evidence,   \* repositories that a batch's source path or legacy records name
  attested,   \* import_batch_repository_attestations
  proc,       \* what each process is doing
  mistakes, crashes

ownersVars == <<release, applied, schema, batch, evidence, attested, proc, mistakes, crashes>>

Versions == 14..23

\* made is "direct" when the batch is not older than migration 14; for is the
\* repository it was imported into.
NoBatch == [made |-> "absent", for |-> None, owner |-> None]
NoAttestation == [repository |-> None, authority |-> "none"]
NoOwners == [b \in Batches |-> None]

Present == {b \in Batches : batch[b].made # "absent"}
Direct(b) == batch[b].made = "direct"

Attestation(r, authority) == [repository |-> r, authority |-> authority]

-----------------------------------------------------------------------------
(* What an earlier release left.                                           *)

\* Before 14 no batch had a repository, and at 14 the older ones had a guess.  An
\* earlier migration 15 set the repository of every batch from the evidence, also
\* of those that had been imported into another one.
Absent == [row |-> NoBatch, named |-> {}, attested |-> NoAttestation]

OlderBatches(v) ==
  {[row |-> [made |-> "before", for |-> None, owner |-> r], named |-> S,
    attested |-> IF v < 20 THEN NoAttestation ELSE Attestation(r, "immutable_evidence")] :
     r \in Repositories \cup {None, Store}, S \in SUBSET Repositories}

DirectBatches(v) ==
  {[row |-> [made |-> "direct", for |-> q, owner |-> r], named |-> S,
    attested |-> IF v < 20 THEN NoAttestation
                 ELSE Attestation(r, IF r = q THEN "captured_direct" ELSE "explicit_repair")] :
     q \in Repositories, r \in Repositories, S \in SUBSET Repositories}

Left(v) ==
  {Absent}
  \cup {o \in OlderBatches(v) : /\ v = 13 => o.row.owner = None
                                /\ v >= 15 => o.row.owner \in o.named}
  \cup {o \in DirectBatches(v) : v # 13 /\ (v = 14 => o.row.owner = o.row.for)}

Idle == [todo |-> << >>, looked |-> FALSE, captured |-> NoOwners]

OwnersInit ==
  /\ release \in Releases
  /\ applied = {v \in Versions : v <= release}
  /\ schema = release
  /\ \E left \in [Batches -> Left(release)] :
       /\ batch = [b \in Batches |-> left[b].row]
       /\ evidence = [b \in Batches |-> left[b].named]
       /\ attested = [b \in Batches |-> left[b].attested]
  /\ proc = [p \in Processes |-> Idle]
  /\ mistakes = 0
  /\ crashes = 0

-----------------------------------------------------------------------------
(* What the migrations do to the batches.                                  *)

\* The repository that a batch's evidence names, if it names one only.
Unique(b) ==
  IF \E r \in Repositories : evidence[b] = {r} THEN CHOOSE r \in Repositories : evidence[b] = {r}
  ELSE None

\* Mistake: what an earlier release has left is taken for what was imported.
CapturedAlways ==
  [b \in Batches |-> IF Direct(b) /\ batch[b].owner \in Repositories THEN batch[b].owner ELSE None]

\* capture_schema_14_direct_ownership: once 15 is applied the owners of direct
\* batches may be lost.
Captured ==
  [b \in Batches |->
     IF 15 \notin applied /\ Direct(b) /\ batch[b].owner \in Repositories
       THEN batch[b].owner ELSE None]

\* What the audit makes of a batch: what was captured or a person attested for a
\* direct one, its evidence for an older one.
Verdict(b, captured) ==
  IF ~Direct(b)
    THEN IF Unique(b) = None THEN NoAttestation ELSE Attestation(Unique(b), "immutable_evidence")
  ELSE IF captured[b] # None THEN Attestation(captured[b], "captured_direct")
  ELSE IF attested[b].authority = "explicit_repair" /\ attested[b].repository \in Repositories
    THEN attested[b] ELSE NoAttestation

\* Every batch has a verdict, and a row is inserted only where there is none.
Auditable(captured) ==
  \A b \in Present :
    LET verdict == Verdict(b, captured)
    IN  /\ verdict # NoAttestation
        /\ verdict.authority # "explicit_repair" => attested[b] = NoAttestation

Audit(captured) ==
  /\ Auditable(captured)
  /\ batch' = [b \in Batches |->
       IF b \in Present THEN [batch[b] EXCEPT !.owner = Verdict(b, captured).repository]
       ELSE batch[b]]
  /\ attested' = [b \in Batches |->
       IF b \in Present THEN Verdict(b, captured) ELSE attested[b]]

\* repair_pre_audit_attestations: before the audit only a person's attestation of a
\* direct batch is of use.
RepairAttestations ==
  attested' = [b \in Batches |->
    IF 18 \in applied
         \/ /\ Direct(b) /\ attested[b].authority = "explicit_repair"
            /\ attested[b].repository \in Repositories
      THEN attested[b] ELSE NoAttestation]

\* Migration 14: the first repository that the evidence names, else for plans that
\* of one of their items, if any.
Guess ==
  /\ \E guess \in [Batches -> Repositories \cup {Store, None}] :
       /\ \A b \in Batches : IF b \in Present /\ evidence[b] # {}
                              THEN guess[b] \in evidence[b]
                              ELSE b \notin Present => guess[b] = None
       /\ batch' = [b \in Batches |-> [batch[b] EXCEPT !.owner = guess[b]]]
  /\ UNCHANGED attested

DiscardInvalid ==
  attested' = [b \in Batches |->
    IF attested[b].repository \in Repositories THEN attested[b] ELSE NoAttestation]

-----------------------------------------------------------------------------
(* The steps of migrate.                                                   *)

\* The steps that are no migration have numbers of their own.
Capture == 1
Choose == 2
Whole == 3
Audited == 4
Prepare == 5

Doing(p, step) == proc[p].todo # << >> /\ Head(proc[p].todo) = step

Advance(p) == proc' = [proc EXCEPT ![p].todo = Tail(@), ![p].looked = FALSE]

Continue(p, steps) == proc' = [proc EXCEPT ![p].todo = steps]

Fail(p) == proc' = [proc EXCEPT ![p] = Idle]

Database == <<applied, schema, batch, attested>>
Outside == <<release, evidence, mistakes, crashes>>

Open(p) ==
  /\ proc[p].todo = << >>
  /\ Continue(p, <<14, Capture, Choose>>)
  /\ UNCHANGED <<Database, Outside>>

\* apply_validated_migration, before its transaction.
Look(p) ==
  \E v \in Versions :
    /\ Doing(p, v)
    /\ ~proc[p].looked
    /\ IF v \in applied THEN Advance(p) ELSE proc' = [proc EXCEPT ![p].looked = TRUE]
    /\ UNCHANGED <<Database, Outside>>

Migrate(v, captured) ==
  \/ v = 14 /\ Guess
  \/ v = 18 /\ Audit(captured)
  \/ v = 19 /\ DiscardInvalid /\ UNCHANGED batch
  \/ v = 21 /\ RepairAttestations /\ UNCHANGED batch
  \/ v \in {16, 17, 20, 22, 23} /\ UNCHANGED <<batch, attested>>

Record(S, v) == applied' = applied \cup S /\ schema' = v

\* Its transaction: another process may have applied it since, whose tables,
\* triggers or row in schema_migrations then stand in the way.
Apply(p) ==
  \E v \in Versions :
    /\ Doing(p, v)
    /\ proc[p].looked
    /\ \/ /\ v \notin applied
          /\ Migrate(v, proc[p].captured)
          /\ Record({v}, v)
          /\ Advance(p)
       \/ /\ v \in applied \/ (v = 18 /\ ~Auditable(proc[p].captured))
          /\ Fail(p)
          /\ UNCHANGED Database
    /\ UNCHANGED Outside

ReadOwners(p) ==
  /\ Doing(p, Capture)
  /\ proc' = [proc EXCEPT ![p].todo = Tail(@), ![p].captured = Captured]
  /\ UNCHANGED <<Database, Outside>>

ChoosePath(p) ==
  /\ Doing(p, Choose)
  /\ Continue(p, IF 15 \in applied THEN <<16, 17, Audited>> ELSE <<Whole, 23>>)
  /\ UNCHANGED <<Database, Outside>>

LookForAudit(p) ==
  /\ Doing(p, Audited)
  /\ Continue(p, (IF 18 \in applied THEN << >> ELSE <<19, 21, Prepare>>)
                    \o <<18, 19, 20, 21, 22, 23>>)
  /\ UNCHANGED <<Database, Outside>>

PrepareAudit(p) ==
  /\ Doing(p, Prepare)
  /\ RepairAttestations
  /\ Advance(p)
  /\ UNCHANGED <<applied, schema, batch, Outside>>

\* apply_import_repository_migrations_atomically.  Migration 15 wants a repository
\* for every batch, which the audit then settles.
Repairable(captured) == \A b \in Present : captured[b] # None \/ Unique(b) # None

\* Mistake: the repair is committed before the audit.
ApplyInTwo(p) ==
  LET captured == proc[p].captured
  IN  /\ Doing(p, Whole)
      /\ 15 \notin applied /\ Repairable(captured)
      /\ batch' = [b \in Batches |-> IF b \notin Present THEN batch[b]
           ELSE [batch[b] EXCEPT !.owner = IF captured[b] # None THEN captured[b] ELSE Unique(b)]]
      /\ Record({15, 16, 17}, 17)
      /\ Continue(p, <<19, 21, Prepare, 18, 19, 20, 21, 22, 23>>)
      /\ UNCHANGED <<attested, Outside>>

ApplyWhole(p) ==
  LET captured == proc[p].captured
  IN  /\ Doing(p, Whole)
      /\ \/ /\ 15 \notin applied
            /\ Repairable(captured)
            /\ Audit(captured)
            /\ Record(15..22, 22)
            /\ Advance(p)
         \/ /\ 15 \in applied \/ ~Repairable(captured) \/ ~Auditable(captured)
            /\ Fail(p)
            /\ UNCHANGED Database
      /\ UNCHANGED Outside

\* The process is killed, or a statement fails and its transaction is rolled back.
Crash(p) ==
  /\ proc[p].todo # << >>
  /\ crashes < MaxCrashes
  /\ crashes' = crashes + 1
  /\ Fail(p)
  /\ UNCHANGED <<Database, release, evidence, mistakes>>

-----------------------------------------------------------------------------
(* Others.                                                                 *)

\* A process of the earlier release imports: that of schema 13 knows no column, and
\* the trigger of 15 refuses its row.
Import(b, r, names) ==
  /\ batch[b] = NoBatch
  /\ release = 13 => 15 \notin applied
  /\ batch' = [batch EXCEPT ![b] =
       IF 14 \in applied
         THEN [made |-> "direct", for |-> r, owner |-> IF release = 13 THEN None ELSE r]
         ELSE [made |-> "before", for |-> None, owner |-> None]]
  /\ evidence' = [evidence EXCEPT ![b] = names]
  /\ UNCHANGED <<release, applied, schema, attested, proc, mistakes, crashes>>

\* A person, or a registration, records a path that a batch was imported from.
RecordPath(b, r) ==
  /\ b \in Present
  /\ r \notin evidence[b]
  /\ evidence' = [evidence EXCEPT ![b] = @ \cup {r}]
  /\ UNCHANGED <<release, Database, proc, mistakes, crashes>>

\* A person inserts an attestation by hand; triggers guard the table later.
Attest(b, r, authority) ==
  /\ 17 \in applied
  /\ b \in Present
  /\ attested[b] = NoAttestation
  /\ {19, 21} \cap applied # {} => r \in Repositories
  /\ attested' = [attested EXCEPT ![b] = Attestation(r, authority)]
  /\ IF Direct(b) /\ authority = "explicit_repair" /\ r \in Repositories
       THEN UNCHANGED mistakes
       ELSE mistakes < MaxMistakes /\ mistakes' = mistakes + 1
  /\ UNCHANGED <<release, applied, schema, batch, evidence, proc, crashes>>

-----------------------------------------------------------------------------
Step(p) ==
  \/ Look(p) \/ Apply(p) \/ ReadOwners(p) \/ ChoosePath(p) \/ ApplyWhole(p)
  \/ LookForAudit(p) \/ PrepareAudit(p)

Environment ==
  \E b \in Batches, r \in Repositories \cup {Store} :
    \/ r # Store /\ \E names \in SUBSET Repositories : Import(b, r, names)
    \/ r # Store /\ RecordPath(b, r)
    \/ \E authority \in {"explicit_repair", "captured_direct"} : Attest(b, r, authority)

OwnersNext == Environment \/ \E p \in Processes : Open(p) \/ Step(p) \/ Crash(p)

OwnersSpec == OwnersInit /\ [][OwnersNext]_ownersVars

-----------------------------------------------------------------------------
(* Properties.                                                             *)

\* Every variable has its type.
OwnersTypeOK ==
  /\ release \in Releases
  /\ applied \subseteq Versions
  /\ schema \in 13..23
  /\ batch \in [Batches -> [made : {"absent", "before", "direct"},
                            for : Repositories \cup {None},
                            owner : Repositories \cup {Store, None}]]
  /\ evidence \in [Batches -> SUBSET Repositories]
  /\ attested \in [Batches -> [repository : Repositories \cup {Store, None},
                               authority : {"none", "captured_direct", "immutable_evidence",
                                            "explicit_repair"}]]
  /\ \A p \in Processes : /\ proc[p].todo \in Seq(Versions \cup 1..5)
                          /\ proc[p].looked \in BOOLEAN
                          /\ proc[p].captured \in [Batches -> Repositories \cup {None}]
  /\ mistakes \in 0..MaxMistakes
  /\ crashes \in 0..MaxCrashes

\* What the audit settled is true: a direct batch belongs to the repository it was
\* imported into, unless a person has attested another one, and an older batch to
\* one that its evidence names; whatever earlier releases, rivals and crashes left.
AuditedAreTrue ==
  18 \in applied => \A b \in Present :
    IF Direct(b)
      THEN \/ batch[b].owner = batch[b].for
           \/ attested[b] = Attestation(batch[b].owner, "explicit_repair")
      ELSE /\ attested[b] = Attestation(batch[b].owner, "immutable_evidence")
           /\ batch[b].owner \in evidence[b]

\* An audit is final: no later migration, and no process that found one missing
\* before a rival applied it, changes a batch or an attestation again.
AuditStays ==
  [][18 \in applied => \A b \in Present :
       /\ batch'[b] = batch[b]
       /\ attested[b] # NoAttestation => attested'[b] = attested[b]]_ownersVars

=============================================================================
