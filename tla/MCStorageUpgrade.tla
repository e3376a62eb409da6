-------------------------- MODULE MCStorageUpgrade --------------------------
(***************************************************************************)
(* Instances of StorageUpgrade and ImportEvidence for TLC, in one run: the *)
(* first state chooses which of the two stretches of the upgrade the       *)
(* database goes through, that of the owners of batches or that of their   *)
(* evidence.  The variables of the other stay as they are.                 *)
(***************************************************************************)
EXTENDS StorageUpgrade, TLC

CONSTANTS Upgrades,                         \* a subset of {"owners", "evidence"}
          ImportedBatches, ImportReleases, MaxReparents   \* those of ImportEvidence

ASSUME ReleasesAssumption == ImportReleases \subseteq Nat

VARIABLES upgrade, version, import, reparents

Evidence == INSTANCE ImportEvidence WITH
  Batches <- ImportedBatches, Releases <- ImportReleases

upgradeVars == <<upgrade, ownersVars, version, import, reparents>>
Unused == "unused"

UpgradeInit ==
  /\ upgrade \in Upgrades
  /\ IF upgrade = "owners"
       THEN OwnersInit /\ version = Unused /\ import = Unused /\ reparents = Unused
       ELSE /\ Evidence!Init
            /\ release = Unused /\ applied = Unused /\ schema = Unused /\ batch = Unused
            /\ evidence = Unused /\ attested = Unused /\ proc = Unused
            /\ mistakes = Unused /\ crashes = Unused

Owners(A) == upgrade = "owners" /\ A /\ UNCHANGED <<upgrade, version, import, reparents>>
Evidences(A) == upgrade = "evidence" /\ A /\ UNCHANGED <<upgrade, ownersVars>>

UpgradeNext ==
  /\ UNCHANGED upgrade
  /\ \/ upgrade = "owners" /\ OwnersNext /\ UNCHANGED <<version, import, reparents>>
     \/ upgrade = "evidence" /\ Evidence!Next /\ UNCHANGED ownersVars

-----------------------------------------------------------------------------
\* A batch that no repair the upgrade asks for can settle: an older one whose
\* evidence names several repositories, or one that a process of schema 13 imported
\* after migration 14, since the table of attestations is made by the transaction
\* that refuses the batch.
Unrepairable(b) ==
  \/ batch[b].made = "before" /\ Cardinality(evidence[b]) > 1
  \/ Direct(b) /\ batch[b].owner = None /\ 17 \notin applied

\* The database is opened again after each failure, and repaired as the failure asks.
Repair(b) ==
  \/ \E r \in Repositories : Attest(b, r, "explicit_repair") /\ Direct(b)
  \/ \E r \in Repositories : RecordPath(b, r) /\ evidence[b] = {}

UpgradeSpec ==
  /\ UpgradeInit /\ [][UpgradeNext]_upgradeVars
  /\ \A p \in Processes :
       WF_upgradeVars(Owners(Open(p))) /\ WF_upgradeVars(Owners(Step(p)))
  /\ \A b \in Batches : SF_upgradeVars(Owners(Repair(b)))
  /\ WF_upgradeVars(Evidences(Evidence!Migrate))
  /\ \A b \in ImportedBatches : WF_upgradeVars(Evidences(Evidence!AttestMissing(b)))

-----------------------------------------------------------------------------
\* What the upgrade settles is true: the owners that the audit gives to batches, whatever
\* earlier releases, rivals and crashes left (settle), and the members and the evidence of
\* a finalized import, whatever release inserted it and whenever (the migrations 23 to 30).
SettledIsTrue == IF upgrade = "owners" THEN AuditedAreTrue ELSE Evidence!FinalizedIsTrue

\* No later migration, import, update or repair takes back what is finalized (the triggers
\* of migrations 24 to 30).
FinalizedStays == [][upgrade = "evidence" => Evidence!FinalizedKept]_upgradeVars

\* Unless nothing can be done about the owner of a batch, the upgrade always ends; and of
\* the evidence, unless rows were moved by hand, the attestations it asks for are all it
\* needs (migrate).
UpgradesEnd ==
  <>(IF upgrade = "owners" THEN applied = Versions \/ \E b \in Batches : Unrepairable(b)
                           ELSE \/ version = Evidence!Current
                              \/ \E b \in ImportedBatches : Evidence!Moved(b))

\* By hand, violated: what the message of a failed audit promises, that once every direct
\* batch it names has an explicit_repair row, a retry goes through.
PromisedRepairEnds ==
  <>(upgrade = "owners" =>
       applied = Versions \/ \E b \in Batches : Cardinality(evidence[b]) > 1)

\* By hand, violated: an import that is repeated is answered.
ImportsAreAnswered == upgrade = "evidence" => Evidence!ImportsAreAnswered

=============================================================================
