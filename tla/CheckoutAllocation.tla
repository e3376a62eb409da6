-------------------------- MODULE CheckoutAllocation -------------------------
(***************************************************************************)
(* Isolated checkouts of Work items (application/checkout.rs, git.rs).     *)
(*                                                                         *)
(* A Work item's checkout is a Git worktree on a branch of its own whose   *)
(* path and branch follow from the item, and for an additional writer from *)
(* its reservation.  A preparation finds, restores or creates the worktree *)
(* and records its readiness; a reconciliation looks at a recorded         *)
(* checkout again.  Both read the database, ask Git, and write what they   *)
(* saw in one later transaction.  What guards that write is the primary    *)
(* key of the reconciliation events: the generation after the one read.    *)
(*                                                                         *)
(* One action is one transaction, one read or one look at the disk through *)
(* Git.  A commit is its position on the branch.  People move, delete and  *)
(* fill directories and switch branches; branches are not deleted and      *)
(* commits are not taken back.                                             *)
(***************************************************************************)
EXTENDS Naturals

CONSTANTS Allocations,   \* records [item, key]; the key is "" for the primary one
          Processes,     \* concurrent workboard processes
          Keys,          \* idempotency keys that a caller may send again
          MaxHead,       \* bound on the commits of a branch
          MaxGenerations, \* bound on the recorded generation when a call begins
          MaxTampers,    \* bound on what people do to the directories
          MaxFaults      \* bound on crashes and failed commands

ASSUME AllocationAssumption ==
  /\ \A a \in Allocations : DOMAIN a = {"item", "key"} /\ a.item # "feature"
  /\ MaxHead \in Nat \ {0} /\ MaxGenerations \in Nat
  /\ MaxTampers \in Nat /\ MaxFaults \in Nat

VARIABLES
  place,      \* what is at a checkout's path
  head,       \* the last commit of its branch, 0 when there is no branch
  base,       \* the Feature head that the program created the branch from
  feature,    \* the checkouts row of the Feature checkout
  readiness,  \* checkout_readiness, and the checkouts row that goes with it
  events,     \* generations in checkout_reconciliation_events
  intents,    \* operation_intents: what a key stands for, whatever their status
  writers,    \* checkouts with a bound or adopted managed session
  proc,       \* what each process is doing
  alone,      \* the process, if any, that found everything in order when it began
              \* and has been the only one to act since; only properties read it
  tampers, faults  \* counted against the bounds

disk == <<place, head, base>>
database == <<feature, readiness, events, intents, writers>>
vars == <<place, head, base, feature, readiness, events, intents, writers, proc,
          alone, tampers, faults>>

\* The Feature checkout, which planning made: branches start at its head.
Feature == [item |-> "feature", key |-> ""]
Checkouts == Allocations \cup {Feature}

\* At the path there may be nothing, an empty directory, other content, the worktree
\* on its branch or on another one, or another worktree on that branch; or there is
\* nothing because the branch is checked out somewhere else.
Places == {"absent", "empty", "foreign", "own", "switched", "replaced", "elsewhere"}
Worktrees == {"own", "switched", "replaced"}
NeedBranch == Worktrees \cup {"elsewhere"}

\* git_worktree_identity, the administrative directory of the worktree.
Identity(at) == IF at = "replaced" THEN "other" ELSE "own"

Availabilities == {"available", "missing"}

NoReadiness ==
  [generation |-> 0, availability |-> "none", head |-> 0, identity |-> "none"]

\* Every launch makes a key of its own unless the caller sends one.
Fresh == "fresh"

Intent(k, a, source) == [key |-> k, of |-> a, source |-> source]

NoSight == [at |-> "absent", head |-> 0]

Idle ==
  [pc |-> "idle", of |-> Feature, key |-> Fresh, source |-> 0, current |-> NoReadiness,
   seen |-> NoSight]

-----------------------------------------------------------------------------
Init ==
  /\ place = [c \in Checkouts |-> IF c = Feature THEN "own" ELSE "absent"]
  /\ head = [c \in Checkouts |-> IF c = Feature THEN 1 ELSE 0]
  /\ base = [a \in Allocations |-> 0]
  /\ feature = [availability |-> "available", head |-> 1]
  /\ readiness = [a \in Allocations |-> NoReadiness]
  /\ events = [a \in Allocations |-> {}]
  /\ intents = {}
  /\ writers = {}
  /\ proc = [p \in Processes |-> Idle]
  /\ alone = {}
  /\ tampers = 0
  /\ faults = 0

At(p, pc) == proc[p].pc = pc

Goto(p, pc) == proc' = [proc EXCEPT ![p].pc = pc]

Return(p) == proc' = [proc EXCEPT ![p] = Idle]

-----------------------------------------------------------------------------
(* prepare_work_item_allocation.                                           *)

\* work_item_context: an available Feature checkout, whose recorded head is the
\* source revision.
BeginPrepare(p, a, k) ==
  /\ At(p, "idle")
  /\ readiness[a].generation < MaxGenerations
  /\ feature.availability = "available"
  /\ proc' = [proc EXCEPT ![p] =
       [Idle EXCEPT !.pc = "parent", !.of = a, !.key = k, !.source = feature.head]]
  /\ UNCHANGED <<disk, database, tampers, faults>>

ResolveParent(p) ==
  /\ At(p, "parent")
  /\ IF place[Feature] = "own" /\ head[Feature] = proc[p].source
       THEN Goto(p, "readiness")
       ELSE Return(p)
  /\ UNCHANGED <<disk, database, tampers, faults>>

\* The path, branch and parent of a recorded allocation are derived, and do not change;
\* no other checkout has them, so reject_allocation_collision never refuses one.
ReadReadiness(p) ==
  /\ At(p, "readiness")
  /\ LET row == readiness[proc[p].of]
     IN  proc' = [proc EXCEPT ![p].current = row,
                              ![p].pc = IF row = NoReadiness THEN "intent" ELSE "writer"]
  /\ UNCHANGED <<disk, database, tampers, faults>>

RejectActiveWriter(p) ==
  /\ At(p, "writer")
  /\ IF proc[p].of \in writers THEN Return(p) ELSE Goto(p, "intent")
  /\ UNCHANGED <<disk, database, tampers, faults>>

\* A key stands for one allocation and one source revision.
KeyTaken(k, a, source) ==
  \E i \in intents : i.key = k /\ k # Fresh /\ (i.of # a \/ i.source # source)

\* A key that was sent before stands for the intent it was first sent for.
Sent(k) == k # Fresh /\ \E i \in intents : i.key = k

EnsureIntent(p) ==
  /\ At(p, "intent")
  /\ LET k == proc[p].key
         a == proc[p].of
         source == proc[p].source
     IN  IF KeyTaken(k, a, source)
           THEN Return(p) /\ UNCHANGED intents
           ELSE /\ Goto(p, "look")
                /\ intents' = IF Sent(k) THEN intents ELSE intents \cup {Intent(k, a, source)}
  /\ UNCHANGED <<disk, feature, readiness, events, writers, tampers, faults>>

\* What Git resolved is the recorded worktree, on its branch.
Acceptable(current, at) ==
  /\ at \in {"own", "replaced"}
  /\ current = NoReadiness \/ current.identity = Identity(at)

\* A checkout that was recorded and is not what was recorded is corrected.
Refused(p) == IF proc[p].current = NoReadiness THEN Return(p) ELSE Goto(p, "missing")

\* What validate_work_item_resolved and validate_reconciled_identity make of it.
Judge(p, at, oid) ==
  IF Acceptable(proc[p].current, at)
    THEN proc' = [proc EXCEPT ![p].pc = "persist", ![p].seen = [at |-> at, head |-> oid]]
    ELSE Refused(p)

LookAtTarget(p) ==
  /\ At(p, "look")
  /\ LET a == proc[p].of
     IN  \/ place[a] \in Worktrees /\ Judge(p, place[a], head[a])
         \/ place[a] = "foreign" /\ Refused(p)
         \/ place[a] \in {"absent", "empty", "elsewhere"} /\ Goto(p, "materialize")
  /\ UNCHANGED <<disk, database, tampers, faults>>

-----------------------------------------------------------------------------
(* Git (git.rs): materialize, restore_missing_worktree and recreate.       *)

\* remove_empty_target: the directory is looked at again.
Free(a) == place[a] \in {"absent", "empty"}

\* Where work-item/<item> is a branch, Git cannot create work-item/<item>/writer/<key>:
\* a ref is a file or a directory.
Shadows(b, a) == a.item = b.item /\ (a.key = "") # (b.key = "") /\ head[b] > 0

BranchPossible(a) == head[a] > 0 \/ \A b \in Allocations : ~Shadows(b, a)

\* An existing branch is checked out again, a new one starts at the source revision.
AddWorktree(p, a) ==
  /\ Free(a)
  /\ BranchPossible(a)
  /\ place' = [place EXCEPT ![a] = "own"]
  /\ IF head[a] > 0
       THEN UNCHANGED <<head, base>>
       ELSE head' = [head EXCEPT ![a] = 1] /\ base' = [base EXCEPT ![a] = proc[p].source]
  /\ Judge(p, "own", head'[a])

\* Git refuses; an empty directory is removed by then.
RefuseWorktree(p, a) ==
  /\ ~Free(a) \/ ~BranchPossible(a)
  /\ place' = IF Free(a) THEN [place EXCEPT ![a] = "absent"] ELSE place
  /\ Return(p)
  /\ UNCHANGED <<head, base>>

\* Mistake: the branch is always created.
MaterializeNew(p) ==
  /\ At(p, "materialize")
  /\ IF head[proc[p].of] > 0
       THEN Return(p) /\ UNCHANGED disk
       ELSE AddWorktree(p, proc[p].of) \/ RefuseWorktree(p, proc[p].of)
  /\ UNCHANGED <<database, tampers, faults>>

Materialize(p) ==
  /\ At(p, "materialize")
  /\ AddWorktree(p, proc[p].of) \/ RefuseWorktree(p, proc[p].of)
  /\ UNCHANGED <<database, tampers, faults>>

-----------------------------------------------------------------------------
(* The transactions that record what was seen.                             *)

\* Mistake: INSERT OR REPLACE.
Recordable(a, generation) == generation >= 1

\* PRIMARY KEY (checkout_id, generation): the generation is still to be recorded.
Unrecorded(a, generation) == generation \notin events[a]

\* Mistake: only what is available becomes an event.
RecordAvailable(a, row) ==
  events' = IF row.availability = "missing" THEN events
            ELSE [events EXCEPT ![a] = @ \cup {row.generation}]

RecordEvent(a, row) == events' = [events EXCEPT ![a] = @ \cup {row.generation}]

\* One transaction: all of it or, when another process was faster, nothing.
WriteReadiness(p, row) ==
  LET a == proc[p].of
      next == [row EXCEPT !.generation = proc[p].current.generation + 1]
  IN  \/ /\ Unrecorded(a, next.generation)
         /\ readiness' = [readiness EXCEPT ![a] = next]
         /\ RecordEvent(a, next)
      \/ ~Unrecorded(a, next.generation) /\ UNCHANGED <<readiness, events>>

Observed(p, row) ==
  [row EXCEPT !.availability = "available", !.head = proc[p].seen.head]

\* persist_work_item_readiness.
Persist(p) ==
  /\ At(p, "persist")
  /\ WriteReadiness(p, [Observed(p, proc[p].current) EXCEPT !.identity = Identity(proc[p].seen.at)])
  /\ Return(p)
  /\ UNCHANGED <<disk, feature, intents, writers, tampers, faults>>

\* record_unavailable and mark_registered_checkout_missing: the recorded head stays.
RecordUnavailable(p) ==
  /\ At(p, "missing")
  /\ IF proc[p].of = Feature
       THEN feature' = [feature EXCEPT !.availability = "missing"] /\ UNCHANGED <<readiness, events>>
       ELSE /\ WriteReadiness(p, [proc[p].current EXCEPT !.availability = "missing"])
            /\ UNCHANGED feature
  /\ Return(p)
  /\ UNCHANGED <<disk, intents, writers, tampers, faults>>

-----------------------------------------------------------------------------
(* reconcile_registered_checkout.                                          *)

BeginReconcile(p, c) ==
  /\ At(p, "idle")
  /\ c # Feature => readiness[c] # NoReadiness /\ readiness[c].generation < MaxGenerations
  /\ proc' = [proc EXCEPT ![p] =
       [Idle EXCEPT !.pc = "resolve", !.of = c,
                    !.current = IF c = Feature THEN NoReadiness ELSE readiness[c]]]
  /\ UNCHANGED <<disk, database, tampers, faults>>

Resolve(p) ==
  /\ At(p, "resolve")
  /\ LET c == proc[p].of
     IN  IF Acceptable(proc[p].current, place[c])
           THEN proc' = [proc EXCEPT ![p].pc = "record",
                                     ![p].seen = [at |-> place[c], head |-> head[c]]]
           ELSE Goto(p, "missing")
  /\ UNCHANGED <<disk, database, tampers, faults>>

\* record_registered_checkout_reconciliation: the row of a Feature checkout, which has
\* no readiness, takes whatever was seen.
Record(p) ==
  /\ At(p, "record")
  /\ IF proc[p].of = Feature
       THEN /\ feature' = [availability |-> "available", head |-> proc[p].seen.head]
            /\ UNCHANGED <<readiness, events>>
       ELSE WriteReadiness(p, Observed(p, proc[p].current)) /\ UNCHANGED feature
  /\ Return(p)
  /\ UNCHANGED <<disk, intents, writers, tampers, faults>>

-----------------------------------------------------------------------------
(* Sessions, people and faults.                                            *)

\* Work in a checkout: a session's commits, or an integration in the Feature checkout.
CommitWork(c) ==
  /\ place[c] = "own"
  /\ head[c] < MaxHead
  /\ head' = [head EXCEPT ![c] = @ + 1]
  /\ UNCHANGED <<place, base, database, proc, tampers, faults>>

\* A session is bound to an available checkout (SessionLaunch) and let go.
BindWriter(a) ==
  /\ readiness[a].availability = "available"
  /\ a \notin writers
  /\ writers' = writers \cup {a}
  /\ UNCHANGED <<disk, feature, readiness, events, intents, proc, tampers, faults>>

ReleaseWriter(a) ==
  /\ a \in writers
  /\ writers' = writers \ {a}
  /\ UNCHANGED <<disk, feature, readiness, events, intents, proc, tampers, faults>>

\* A person removes, moves, fills or switches a directory.
Tamper(c) ==
  /\ tampers < MaxTampers
  /\ tampers' = tampers + 1
  /\ \E at \in Places \ {place[c]} :
       /\ at \in NeedBranch => head[c] > 0
       /\ c = Feature => at \in {"own", "absent"}
       /\ place' = [place EXCEPT ![c] = at]
  /\ UNCHANGED <<head, base, database, proc, faults>>

\* A Git command fails.  A worktree that cannot be read is taken for an occupied or
\* a lost one; a directory that was empty may be gone.
FailGit(p) ==
  /\ faults < MaxFaults
  /\ faults' = faults + 1
  /\ \/ At(p, "parent") /\ Return(p) /\ UNCHANGED place
     \/ At(p, "look") /\ place[proc[p].of] \in Worktrees /\ Refused(p) /\ UNCHANGED place
     \/ At(p, "resolve") /\ Goto(p, "missing") /\ UNCHANGED place
     \/ /\ At(p, "materialize")
        /\ Return(p)
        /\ place' = IF Free(proc[p].of) THEN [place EXCEPT ![proc[p].of] = "absent"] ELSE place
  /\ UNCHANGED <<head, base, database, tampers>>

Crash(p) ==
  /\ ~At(p, "idle")
  /\ faults < MaxFaults
  /\ faults' = faults + 1
  /\ Return(p)
  /\ UNCHANGED <<disk, database, tampers>>

-----------------------------------------------------------------------------
Step(p) ==
  \/ ResolveParent(p) \/ ReadReadiness(p) \/ RejectActiveWriter(p) \/ EnsureIntent(p)
  \/ LookAtTarget(p) \/ Materialize(p) \/ Persist(p) \/ RecordUnavailable(p)
  \/ Resolve(p) \/ Record(p)

Environment ==
  \/ \E c \in Checkouts : CommitWork(c) \/ Tamper(c)
  \/ \E a \in Allocations : BindWriter(a) \/ ReleaseWriter(a)
  \/ \E p \in Processes : FailGit(p) \/ Crash(p)

\* A recorded checkout is as it was recorded.
AsRecorded(c) ==
  Acceptable(IF c = Feature THEN NoReadiness ELSE readiness[c], place[c])

\* The Feature checkout is as it was recorded, no session works in the allocation, and
\* its worktree is as it was recorded or nothing is in the way of one.
InOrder(a) ==
  /\ place[Feature] = "own" /\ feature.head = head[Feature]
  /\ a \notin writers
  /\ \/ AsRecorded(a)
     \/ place[a] \in {"absent", "empty"} /\ readiness[a].identity # "other"

Next ==
  \/ \E p \in Processes :
       \/ \E a \in Allocations, k \in Keys \cup {Fresh} :
            BeginPrepare(p, a, k) /\ alone' = IF InOrder(a) /\ k = Fresh THEN {p} ELSE {}
       \/ \E c \in Checkouts :
            BeginReconcile(p, c) /\ alone' = IF AsRecorded(c) THEN {p} ELSE {}
       \/ Step(p) /\ alone' = IF p \in alone /\ proc'[p] # Idle THEN {p} ELSE {}
  \/ Environment /\ alone' = {}

Spec == Init /\ [][Next]_vars

-----------------------------------------------------------------------------
(* Properties.                                                             *)

ReadinessRows ==
  [generation : Nat, availability : Availabilities \cup {"none"}, head : 0..MaxHead,
   identity : {"none", "own", "other"}]

Phases == {"idle", "parent", "readiness", "writer", "intent", "look", "materialize", "persist",
           "missing", "resolve", "record"}

Calls ==
  [pc : Phases, of : Checkouts, key : Keys \cup {Fresh}, source : 0..MaxHead,
   current : ReadinessRows, seen : [at : Places, head : 0..MaxHead]]

\* Every variable keeps its type; a branch has a first commit from which it started,
\* and what needs a branch is never found without one.
TypeOK ==
  /\ place \in [Checkouts -> Places]
  /\ head \in [Checkouts -> 0..MaxHead]
  /\ base \in [Allocations -> 0..MaxHead]
  /\ \A a \in Allocations : (base[a] > 0) = (head[a] > 0)
  /\ \A c \in Checkouts : place[c] \in NeedBranch => head[c] > 0
  /\ feature \in [availability : Availabilities, head : 1..MaxHead]
  /\ readiness \in [Allocations -> ReadinessRows]
  /\ events \in [Allocations -> SUBSET (Nat \ {0})]
  /\ intents \subseteq [key : Keys \cup {Fresh}, of : Allocations, source : 1..MaxHead]
  /\ writers \subseteq Allocations
  /\ proc \in [Processes -> Calls]
  /\ alone \in SUBSET Processes
  /\ tampers \in 0..MaxTampers /\ faults \in 0..MaxFaults

\* The reconciliation events of a checkout are its generations, one after the other
\* without a gap, up to the one its readiness has.
EveryGenerationRecorded ==
  \A a \in Allocations : events[a] = 1..readiness[a].generation

\* Git is not touched before the intent is recorded, and the intent says the truth:
\* every branch was created from the very revision that an intent for it names,
\* although the Feature checkout moves and callers send a key again.
BranchesFromIntents ==
  \A a \in Allocations :
    head[a] > 0 => \E i \in intents : i.of = a /\ i.source = base[a]

\* A process that looked at a worktree earlier and records it later does not undo
\* what another process saw after it: the recorded head never goes back.
HeadsNeverRegress ==
  [][\A a \in Allocations : readiness'[a].head >= readiness[a].head]_vars

\* What people put at a derived path, even after it was found empty, is left alone.
OccupiedIsUntouched ==
  [][(\E p \in Processes : Step(p)) =>
       \A c \in Checkouts : place[c] \notin {"absent", "empty"} => place'[c] = place[c]]_vars

\* What is recorded of a checkout is what a look at it would say.
Truthful(c) ==
  LET row == IF c = Feature THEN feature ELSE readiness[c]
  IN  place[c] \in {"own", "replaced"} /\ row.availability = "available" /\ row.head = head[c]

\* A call that ends by itself, and not in a crash, after it was alone.
SucceedsAlone(p) ==
  p \in alone /\ At(p, "idle")' /\ faults' = faults =>
    \A c \in Checkouts : c = proc[p].of => Truthful(c)'

\* Whatever crashes, failures and rivals left behind, a preparation or reconciliation
\* of a checkout that is in order succeeds when nothing interferes, and what it
\* records is true.
RetrySucceeds == [][\A p \in Processes : SucceedsAlone(p)]_vars

\* An additional writer of a Work item gets a checkout of its own.
AdditionalWriterServed ==
  [][\A p \in Processes : proc[p].of.key # "" => SucceedsAlone(p)]_vars

=============================================================================
