----------------------- MODULE CheckoutAllocationProofs -----------------------
(***************************************************************************)
(* Theorems about CheckoutAllocation, for every set of allocations,        *)
(* processes and keys and every bound.                                     *)
(*                                                                         *)
(* The argument: what a process read of a checkout is what is recorded or  *)
(* has been replaced by a later generation.  In the first case nothing was *)
(* recorded since the process read it, and what it saw is newer than what  *)
(* it replaces; in the second the event of its generation exists and the   *)
(* transaction writes nothing.                                             *)
(***************************************************************************)
EXTENDS CheckoutAllocation, TLAPS

-----------------------------------------------------------------------------
(* The inductive invariant.                                                *)

PreparePhases == {"parent", "readiness", "writer", "intent", "look", "materialize", "persist"}
SeenPhases == {"persist", "record"}
CorrectedPhases == {"missing", "resolve", "record"}

\* A preparation is of an allocation and from a commit; what was seen is a commit.
Roles ==
  \A p \in Processes :
    /\ proc[p].pc \in PreparePhases =>
         proc[p].of \in Allocations /\ proc[p].source \in 1..MaxHead
    /\ proc[p].pc \in SeenPhases => proc[p].seen.head \in 1..MaxHead

\* There is a row from the first generation on.
Rows ==
  \A a \in Allocations :
    /\ readiness[a].generation = 0 => readiness[a] = NoReadiness
    /\ readiness[a].generation > 0 => readiness[a].identity # "none"

\* What a process read is what is recorded, or older.
IsBehind(call) ==
  call.of \in Allocations =>
    /\ call.current.generation <= readiness[call.of].generation
    /\ call.current.generation = readiness[call.of].generation =>
         call.current = readiness[call.of]
    /\ call.current.generation = 0 => call.current = NoReadiness
    /\ call.pc \in CorrectedPhases => call.current.generation > 0

Behind == \A p \in Processes : IsBehind(proc[p])

\* Neither a row nor a process is ahead of the branch, and what a process saw is not
\* behind what it had read.
InReach(call) ==
  call.of \in Allocations =>
    /\ call.current.head <= head[call.of]
    /\ call.pc \in SeenPhases =>
         call.current.head <= call.seen.head /\ call.seen.head <= head[call.of]

Heads ==
  /\ \A a \in Allocations : readiness[a].head <= head[a]
  /\ \A p \in Processes : InReach(proc[p])

\* A process that may create a worktree has its intent.
Announced ==
  \A p \in Processes : proc[p].pc \in {"look", "materialize"} =>
    \E i \in intents : i.of = proc[p].of /\ i.source = proc[p].source

\* The parts that are inductive, each on the ones before it.
Typed == TypeOK /\ Roles
Generations == Rows /\ Behind /\ EveryGenerationRecorded
Traced == Announced /\ BranchesFromIntents

-----------------------------------------------------------------------------
(* What is true of a process that is alone.                                *)

\* No item has both a primary and an additional allocation.
OneKind == \A a, b \in Allocations : a.item = b.item => (a.key = "") = (b.key = "")

UpToDate(p) ==
  proc[p].of \in Allocations => proc[p].current = readiness[proc[p].of]

Unhindered(p) ==
  LET a == proc[p].of
  IN  /\ a \notin writers
      /\ proc[p].key = Fresh
      /\ \/ AsRecorded(a)
         \/ place[a] \in {"absent", "empty"} /\ readiness[a].identity # "other"

\* At each step, that what the step checks will be found in order.
WellPlaced(p) ==
  /\ proc[p].pc \in Phases \ {"idle", "missing"}
  /\ proc[p].pc \in PreparePhases \ {"persist"} => Unhindered(p)
  /\ proc[p].pc = "parent" => place[Feature] = "own" /\ head[Feature] = proc[p].source
  /\ proc[p].pc \notin {"parent", "readiness"} => UpToDate(p)
  /\ proc[p].pc = "materialize" => place[proc[p].of] \in {"absent", "empty"}
  /\ proc[p].pc = "resolve" => Acceptable(proc[p].current, place[proc[p].of])
  /\ proc[p].pc \in SeenPhases =>
       /\ place[proc[p].of] \in {"own", "replaced"}
       /\ proc[p].seen = [at |-> place[proc[p].of], head |-> head[proc[p].of]]

Alone == \A p \in alone : WellPlaced(p)

-----------------------------------------------------------------------------
(* Types.                                                                  *)

\* The Feature checkout is no allocation, and what a process starts from has its type.
LEMMA ConstantTypes ==
  /\ Feature \in Checkouts /\ Feature \notin Allocations
  /\ 1 \in 1..MaxHead
  /\ NoReadiness \in ReadinessRows
  /\ Idle \in Calls
<1>1. Feature \notin Allocations
  BY AllocationAssumption DEF Feature
<1>2. NoReadiness \in ReadinessRows
  BY AllocationAssumption DEF NoReadiness, ReadinessRows
<1>3. [at |-> "absent", head |-> 0] \in [at : Places, head : 0..MaxHead]
  BY AllocationAssumption DEF Places
<1>4. Idle \in Calls
  BY <1>2, <1>3, AllocationAssumption DEF Idle, Calls, Phases, Checkouts, NoSight
<1> QED
  BY <1>1, <1>2, <1>4, AllocationAssumption DEF Checkouts

\* The initial state is typed.
LEMMA InitTyped == Init => Typed
<1> SUFFICES ASSUME Init PROVE Typed
  OBVIOUS
<1>1. proc \in [Processes -> Calls]
  BY ConstantTypes DEF Init
<1>2. readiness \in [Allocations -> ReadinessRows]
  BY ConstantTypes DEF Init
<1>3. /\ place \in [Checkouts -> Places] /\ head \in [Checkouts -> 0..MaxHead]
      /\ \A c \in Checkouts : place[c] \in NeedBranch => head[c] > 0
  BY AllocationAssumption DEF Init, Places, NeedBranch, Worktrees
<1>4. /\ base \in [Allocations -> 0..MaxHead]
      /\ \A a \in Allocations : (base[a] > 0) = (head[a] > 0)
  BY ConstantTypes, AllocationAssumption DEF Init, Checkouts
<1>5. feature \in [availability : Availabilities, head : 1..MaxHead]
  BY AllocationAssumption DEF Init, Availabilities
<1>6. TypeOK
  BY <1>1, <1>2, <1>3, <1>4, <1>5, AllocationAssumption DEF Init, TypeOK
<1>7. Roles
  BY DEF Init, Roles, Idle, PreparePhases, SeenPhases
<1> QED
  BY <1>6, <1>7 DEF Typed

\* What one process does, as a new value of its call.
Becomes(p, call) == proc' = [proc EXCEPT ![p] = call]

\* A call in its role.
InRole(call) ==
  /\ call \in Calls
  /\ call.pc \in PreparePhases => call.of \in Allocations /\ call.source \in 1..MaxHead
  /\ call.pc \in SeenPhases => call.seen.head \in 1..MaxHead

\* A process whose call changes into one in its role keeps the processes typed.
LEMMA BecomesTyped ==
  ASSUME Typed, NEW p \in Processes, NEW call, InRole(call), Becomes(p, call)
  PROVE  proc' \in [Processes -> Calls] /\ Roles'
BY DEF Typed, TypeOK, Roles, InRole, Becomes

\* A call that goes on or returns stays in its role.
LEMMA GotoTyped ==
  ASSUME Typed, NEW p \in Processes, NEW pc \in Phases, Goto(p, pc),
         pc \in PreparePhases => proc[p].of \in Allocations /\ proc[p].source \in 1..MaxHead,
         pc \notin SeenPhases
  PROVE  proc' \in [Processes -> Calls] /\ Roles'
<1> DEFINE call == [proc[p] EXCEPT !.pc = pc]
<1>1. proc[p] \in Calls
  BY DEF Typed, TypeOK
<1>2. call \in Calls /\ call.pc = pc /\ call.of = proc[p].of /\ call.source = proc[p].source
  BY <1>1 DEF Calls
<1>3. InRole(call)
  BY <1>2 DEF InRole
<1>4. Becomes(p, call)
  BY DEF Goto, Becomes
<1> HIDE DEF call
<1> QED
  BY <1>3, <1>4, BecomesTyped

\* The same when a call returns.
LEMMA ReturnTyped ==
  ASSUME Typed, NEW p \in Processes, Return(p)
  PROVE  proc' \in [Processes -> Calls] /\ Roles'
<1>1. InRole(Idle)
  BY ConstantTypes DEF InRole, Idle, PreparePhases, SeenPhases
<1> QED
  BY <1>1, BecomesTyped DEF Return, Becomes

\* The disk and the database without the processes and the counters.
Stored == <<place, head, base, feature, readiness, events, intents, writers>>

\* A step that only moves a process keeps the types.
LEMMA ReadingTyped ==
  ASSUME Typed, UNCHANGED Stored, proc' \in [Processes -> Calls], Roles',
         alone' \in SUBSET Processes, tampers' \in 0..MaxTampers, faults' \in 0..MaxFaults
  PROVE  Typed'
BY DEF Typed, TypeOK, Stored

\* A row under its next generation is a row.
LEMMA NextRowType ==
  ASSUME NEW row \in ReadinessRows, NEW current \in ReadinessRows
  PROVE  [row EXCEPT !.generation = current.generation + 1] \in ReadinessRows
BY DEF ReadinessRows

\* Writing a row of its type keeps readiness and events typed.
LEMMA WriteTyped ==
  ASSUME Typed, NEW p \in Processes, proc[p].of \in Allocations,
         NEW row \in ReadinessRows, WriteReadiness(p, row)
  PROVE  /\ readiness' \in [Allocations -> ReadinessRows]
         /\ events' \in [Allocations -> SUBSET (Nat \ {0})]
<1> DEFINE a == proc[p].of
           next == [row EXCEPT !.generation = proc[p].current.generation + 1]
<1>1. proc[p].current \in ReadinessRows
  BY DEF Typed, TypeOK, Calls
<1>2. next \in ReadinessRows /\ next.generation \in Nat \ {0}
  BY <1>1, NextRowType DEF ReadinessRows
<1>3. CASE UNCHANGED <<readiness, events>>
  BY <1>3 DEF Typed, TypeOK
<1>4. CASE readiness' = [readiness EXCEPT ![a] = next] /\ RecordEvent(a, next)
  BY <1>2, <1>4 DEF Typed, TypeOK, RecordEvent
<1> QED
  BY <1>3, <1>4 DEF WriteReadiness

\* What Judge makes of an acceptable or a refused worktree.
LEMMA JudgeTyped ==
  ASSUME Typed, NEW p \in Processes, proc[p].pc \in PreparePhases,
         NEW at \in Places, NEW oid \in 0..MaxHead, at \in Worktrees => oid > 0, Judge(p, at, oid)
  PROVE  proc' \in [Processes -> Calls] /\ Roles'
<1>1. CASE Acceptable(proc[p].current, at)
  <2> DEFINE call == [proc[p] EXCEPT !.pc = "persist", !.seen = [at |-> at, head |-> oid]]
  <2>1. proc[p] \in Calls /\ proc[p].of \in Allocations /\ proc[p].source \in 1..MaxHead
    BY DEF Typed, TypeOK, Roles
  <2>2. oid \in 1..MaxHead
    BY <1>1, AllocationAssumption DEF Acceptable, Worktrees
  <2>3. [at |-> at, head |-> oid] \in [at : Places, head : 0..MaxHead]
    OBVIOUS
  <2>4. /\ call \in Calls /\ call.pc = "persist" /\ call.of = proc[p].of
        /\ call.source = proc[p].source /\ call.seen.head = oid
    BY <2>1, <2>3 DEF Calls, Phases
  <2>5. InRole(call)
    BY <2>1, <2>2, <2>4 DEF InRole
  <2>6. Becomes(p, call)
    BY <1>1 DEF Judge, Becomes
  <2> HIDE DEF call
  <2> QED
    BY <2>5, <2>6, BecomesTyped
<1>2. CASE ~Acceptable(proc[p].current, at) /\ Refused(p)
  BY <1>2, ReturnTyped, GotoTyped DEF Refused, Phases, PreparePhases, SeenPhases
<1> QED
  BY <1>1, <1>2 DEF Judge

\* The steps of a preparation up to its intent.
LEMMA ApproachTyped ==
  ASSUME Typed, alone' \in SUBSET Processes, NEW p \in Processes,
         \/ \E a \in Allocations, k \in Keys \cup {Fresh} : BeginPrepare(p, a, k)
         \/ ResolveParent(p) \/ ReadReadiness(p) \/ RejectActiveWriter(p) \/ EnsureIntent(p)
  PROVE  Typed'
<1> USE DEF Typed
<1>0. proc[p] \in Calls /\ feature.head \in 1..MaxHead
  BY DEF TypeOK
<1>1. ASSUME NEW a \in Allocations, NEW k \in Keys \cup {Fresh}, BeginPrepare(p, a, k)
      PROVE  Typed'
  <2> DEFINE call ==
        [Idle EXCEPT !.pc = "parent", !.of = a, !.key = k, !.source = feature.head]
  <2>0. feature.head \in 0..MaxHead /\ a \in Checkouts /\ "parent" \in Phases
    BY <1>0, AllocationAssumption DEF Checkouts, Phases
  <2>1. /\ call \in Calls /\ call.pc = "parent" /\ call.of = a
        /\ call.source = feature.head
    BY <2>0, ConstantTypes DEF Calls
  <2>2. InRole(call)
    BY <1>0, <2>1 DEF InRole, SeenPhases
  <2>3. Becomes(p, call)
    BY <1>1 DEF BeginPrepare, Becomes
  <2> HIDE DEF call
  <2>4. UNCHANGED Stored /\ UNCHANGED <<tampers, faults>>
    BY <1>1 DEF BeginPrepare, disk, database, Stored
  <2> QED
    BY <2>2, <2>3, <2>4, BecomesTyped, ReadingTyped DEF TypeOK
<1>2. CASE ResolveParent(p)
  <2>1. UNCHANGED Stored /\ UNCHANGED <<tampers, faults>>
    BY <1>2 DEF ResolveParent, disk, database, Stored
  <2>2. (Goto(p, "readiness") \/ Return(p)) /\ proc[p].pc = "parent"
    BY <1>2 DEF ResolveParent, At
  <2>3. proc' \in [Processes -> Calls] /\ Roles'
    BY <2>2, GotoTyped, ReturnTyped DEF Roles, Phases, PreparePhases, SeenPhases
  <2> QED
    BY <2>1, <2>3, ReadingTyped DEF TypeOK
<1>3. CASE ReadReadiness(p)
  <2> DEFINE row == readiness[proc[p].of]
             call == [proc[p] EXCEPT !.current = row,
                                     !.pc = IF row = NoReadiness THEN "intent" ELSE "writer"]
  <2>1. proc[p].of \in Allocations /\ proc[p].source \in 1..MaxHead
    BY <1>3 DEF ReadReadiness, At, Roles, PreparePhases
  <2>2. row \in ReadinessRows
    BY <2>1 DEF TypeOK
  <2>3. /\ call \in Calls /\ call.of = proc[p].of /\ call.source = proc[p].source
        /\ call.pc \in {"intent", "writer"}
    BY <1>0, <2>2 DEF Calls, Phases
  <2>4. InRole(call)
    BY <2>1, <2>3 DEF InRole, SeenPhases
  <2>5. Becomes(p, call)
    BY <1>3, <1>0 DEF ReadReadiness, Becomes, TypeOK, Calls
  <2> HIDE DEF call
  <2>6. UNCHANGED Stored /\ UNCHANGED <<tampers, faults>>
    BY <1>3 DEF ReadReadiness, disk, database, Stored
  <2> QED
    BY <2>4, <2>5, <2>6, BecomesTyped, ReadingTyped DEF TypeOK
<1>4. CASE RejectActiveWriter(p)
  <2>1. UNCHANGED Stored /\ UNCHANGED <<tampers, faults>>
    BY <1>4 DEF RejectActiveWriter, disk, database, Stored
  <2>2. (Goto(p, "intent") \/ Return(p)) /\ proc[p].pc = "writer"
    BY <1>4 DEF RejectActiveWriter, At
  <2>3. proc' \in [Processes -> Calls] /\ Roles'
    BY <2>2, GotoTyped, ReturnTyped DEF Roles, Phases, PreparePhases, SeenPhases
  <2> QED
    BY <2>1, <2>3, ReadingTyped DEF TypeOK
<1>5. CASE EnsureIntent(p)
  <2>1. proc[p].pc = "intent" /\ proc[p].of \in Allocations /\ proc[p].source \in 1..MaxHead
    BY <1>5 DEF EnsureIntent, At, Roles, PreparePhases
  <2>2. proc' \in [Processes -> Calls] /\ Roles'
    BY <1>5, <2>1, GotoTyped, ReturnTyped DEF EnsureIntent, Phases, PreparePhases, SeenPhases
  <2>3. Intent(proc[p].key, proc[p].of, proc[p].source)
          \in [key : Keys \cup {Fresh}, of : Allocations, source : 1..MaxHead]
    BY <1>0, <2>1 DEF Intent, Calls
  <2>4. intents' \subseteq [key : Keys \cup {Fresh}, of : Allocations, source : 1..MaxHead]
    BY <1>5, <2>3 DEF EnsureIntent, TypeOK
  <2> QED
    BY <1>5, <2>2, <2>4 DEF EnsureIntent, TypeOK, disk
<1> QED
  BY <1>1, <1>2, <1>3, <1>4, <1>5

\* The look at the target and the Git command.
LEMMA TargetTyped ==
  ASSUME Typed, alone' \in SUBSET Processes, NEW p \in Processes,
         LookAtTarget(p) \/ Materialize(p)
  PROVE  Typed'
<1> USE DEF Typed
<1> DEFINE a == proc[p].of
<1>0. /\ proc[p].pc \in {"look", "materialize"} /\ proc[p].pc \in PreparePhases
      /\ a \in Allocations /\ a \in Checkouts /\ proc[p].source \in 1..MaxHead
  BY DEF LookAtTarget, Materialize, At, Roles, PreparePhases, Checkouts
<1>1. CASE LookAtTarget(p)
  <2>1. UNCHANGED Stored /\ UNCHANGED <<tampers, faults>>
    BY <1>1 DEF LookAtTarget, disk, database, Stored
  <2>2. CASE place[a] \in Worktrees /\ Judge(p, place[a], head[a])
    <3>1. place[a] \in Places /\ head[a] \in 0..MaxHead /\ head[a] > 0
      BY <1>0, <2>2 DEF TypeOK, NeedBranch
    <3> QED
      BY <1>0, <2>1, <2>2, <3>1, JudgeTyped, ReadingTyped DEF TypeOK
  <2>3. CASE Refused(p) \/ Goto(p, "materialize")
    <3>1. proc' \in [Processes -> Calls] /\ Roles'
      BY <1>0, <2>3, GotoTyped, ReturnTyped
         DEF Refused, Phases, PreparePhases, SeenPhases
    <3> QED
      BY <2>1, <3>1, ReadingTyped DEF TypeOK
  <2> QED
    BY <1>1, <2>2, <2>3 DEF LookAtTarget
<1>2. CASE Materialize(p) /\ AddWorktree(p, a)
  <2>1. place' \in [Checkouts -> Places]
    BY <1>2, <1>0 DEF AddWorktree, TypeOK, Places
  <2>2. /\ head' \in [Checkouts -> 0..MaxHead] /\ base' \in [Allocations -> 0..MaxHead]
        /\ \A b \in Allocations : (base'[b] > 0) = (head'[b] > 0)
        /\ \A c \in Checkouts : place'[c] \in NeedBranch => head'[c] > 0
        /\ head'[a] > 0
    <3>1. CASE head[a] > 0
      BY <1>2, <1>0, <3>1 DEF AddWorktree, TypeOK, Places
    <3>2. CASE ~(head[a] > 0)
      BY <1>2, <1>0, <3>2, AllocationAssumption DEF AddWorktree, TypeOK, Places, Checkouts
    <3> QED
      BY <3>1, <3>2
  <2>3. proc' \in [Processes -> Calls] /\ Roles'
    BY <1>2, <1>0, <2>2, JudgeTyped DEF AddWorktree, Places
  <2> QED
    BY <1>2, <2>1, <2>2, <2>3 DEF Materialize, TypeOK, database
<1>3. CASE Materialize(p) /\ RefuseWorktree(p, a)
  <2>1. /\ place' \in [Checkouts -> Places]
        /\ \A c \in Checkouts : place'[c] \in NeedBranch => head'[c] > 0
    BY <1>3, <1>0 DEF RefuseWorktree, TypeOK, Places, NeedBranch, Worktrees
  <2>2. proc' \in [Processes -> Calls] /\ Roles'
    BY <1>3, ReturnTyped DEF RefuseWorktree
  <2> QED
    BY <1>3, <2>1, <2>2 DEF Materialize, RefuseWorktree, TypeOK, database
<1> QED
  BY <1>1, <1>2, <1>3 DEF Materialize

\* The transactions that record what was seen.
LEMMA RecordingTyped ==
  ASSUME Typed, alone' \in SUBSET Processes, NEW p \in Processes,
         Persist(p) \/ RecordUnavailable(p) \/ Record(p)
  PROVE  Typed'
<1> USE DEF Typed
<1> DEFINE call == proc[p]
<1>0. /\ call \in Calls /\ call.current \in ReadinessRows /\ call.seen.head \in 0..MaxHead
      /\ call.of \in Checkouts
  BY DEF TypeOK, Calls
<1>1. proc' \in [Processes -> Calls] /\ Roles'
  BY ReturnTyped DEF Persist, RecordUnavailable, Record
<1>2. Observed(p, call.current) \in ReadinessRows
  BY <1>0 DEF Observed, ReadinessRows, Availabilities
<1>3. CASE Persist(p)
  <2> DEFINE row == [Observed(p, call.current) EXCEPT !.identity = Identity(call.seen.at)]
  <2>1. call.of \in Allocations
    BY <1>3 DEF Persist, At, Roles, PreparePhases
  <2>2. row \in ReadinessRows
    BY <1>2 DEF ReadinessRows, Identity
  <2>3. WriteReadiness(p, row)
    BY <1>3 DEF Persist
  <2> HIDE DEF row
  <2>4. readiness' \in [Allocations -> ReadinessRows] /\ events' \in [Allocations -> SUBSET (Nat \ {0})]
    BY <2>1, <2>2, <2>3, WriteTyped
  <2> QED
    BY <1>1, <1>3, <2>4 DEF Persist, TypeOK, disk
<1>4. CASE RecordUnavailable(p) \/ Record(p)
  <2>1. CASE call.of = Feature
    <3>1. feature' \in [availability : Availabilities, head : 1..MaxHead]
      BY <1>4, <2>1 DEF RecordUnavailable, Record, TypeOK, Availabilities, At, Roles, SeenPhases
    <3> QED
      BY <1>1, <1>4, <2>1, <3>1 DEF RecordUnavailable, Record, TypeOK, disk
  <2>2. CASE call.of # Feature
    <3>1. call.of \in Allocations
      BY <1>0, <2>2 DEF Checkouts
    <3>2. [call.current EXCEPT !.availability = "missing"] \in ReadinessRows
      BY <1>0 DEF ReadinessRows, Availabilities
    <3>3. PICK row \in ReadinessRows : WriteReadiness(p, row)
      BY <1>4, <2>2, <1>2, <3>2 DEF RecordUnavailable, Record
    <3>4. /\ readiness' \in [Allocations -> ReadinessRows]
          /\ events' \in [Allocations -> SUBSET (Nat \ {0})]
      BY <3>1, <3>3, WriteTyped
    <3> QED
      BY <1>1, <1>4, <2>2, <3>4 DEF RecordUnavailable, Record, TypeOK, disk
  <2> QED
    BY <2>1, <2>2
<1> QED
  BY <1>3, <1>4

\* A reconciliation that begins and looks.
LEMMA ReconcileTyped ==
  ASSUME Typed, alone' \in SUBSET Processes, NEW p \in Processes,
         (\E c \in Checkouts : BeginReconcile(p, c)) \/ Resolve(p)
  PROVE  Typed'
<1> USE DEF Typed
<1>1. ASSUME NEW c \in Checkouts, BeginReconcile(p, c)
      PROVE  Typed'
  <2> DEFINE current == IF c = Feature THEN NoReadiness ELSE readiness[c]
             call == [Idle EXCEPT !.pc = "resolve", !.of = c, !.current = current]
  <2>1. current \in ReadinessRows
    BY ConstantTypes DEF TypeOK, Checkouts
  <2> HIDE DEF current
  <2>2. call \in Calls /\ call.pc = "resolve"
    BY <2>1, ConstantTypes DEF Calls, Phases
  <2>3. InRole(call)
    BY <2>2 DEF InRole, PreparePhases, SeenPhases
  <2>4. Becomes(p, call)
    BY <1>1 DEF BeginReconcile, Becomes, current
  <2> HIDE DEF call
  <2>5. UNCHANGED Stored /\ UNCHANGED <<tampers, faults>>
    BY <1>1 DEF BeginReconcile, disk, database, Stored
  <2> QED
    BY <2>3, <2>4, <2>5, BecomesTyped, ReadingTyped DEF TypeOK
<1>2. CASE Resolve(p)
  <2> DEFINE c == proc[p].of
             call == [proc[p] EXCEPT !.pc = "record",
                                     !.seen = [at |-> place[c], head |-> head[c]]]
  <2>1. UNCHANGED Stored /\ UNCHANGED <<tampers, faults>>
    BY <1>2 DEF Resolve, disk, database, Stored
  <2>2. proc[p] \in Calls /\ c \in Checkouts /\ place[c] \in Places /\ head[c] \in 0..MaxHead
    BY DEF TypeOK, Calls
  <2>3. CASE Acceptable(proc[p].current, place[c])
    <3>1. [at |-> place[c], head |-> head[c]] \in [at : Places, head : 0..MaxHead]
      BY <2>2
    <3>2. call \in Calls /\ call.pc = "record" /\ call.seen.head = head[c]
      BY <2>2, <3>1 DEF Calls, Phases
    <3>3. head[c] \in 1..MaxHead
      BY <2>2, <2>3, AllocationAssumption DEF Acceptable, TypeOK, NeedBranch, Worktrees
    <3>4. InRole(call)
      BY <3>2, <3>3 DEF InRole, PreparePhases
    <3>5. Becomes(p, call)
      BY <1>2, <2>2, <2>3 DEF Resolve, Becomes, TypeOK, Calls
    <3> HIDE DEF call
    <3> QED
      BY <2>1, <3>4, <3>5, BecomesTyped, ReadingTyped DEF TypeOK
  <2>4. CASE ~Acceptable(proc[p].current, place[c])
    <3>1. proc' \in [Processes -> Calls] /\ Roles'
      BY <1>2, <2>4, GotoTyped DEF Resolve, Phases, PreparePhases, SeenPhases
    <3> QED
      BY <2>1, <3>1, ReadingTyped DEF TypeOK
  <2> QED
    BY <2>3, <2>4
<1> QED
  BY <1>1, <1>2

\* Commits, sessions, people and failures.
LEMMA EnvironmentTyped ==
  ASSUME Typed, alone' \in SUBSET Processes, Environment
  PROVE  Typed'
<1> USE DEF Typed
<1>1. ASSUME NEW c \in Checkouts, CommitWork(c)
      PROVE  Typed'
  <2>1. /\ head' \in [Checkouts -> 0..MaxHead]
        /\ \A a \in Allocations : (base[a] > 0) = (head'[a] > 0)
        /\ \A b \in Checkouts : place[b] \in NeedBranch => head'[b] > 0
    BY <1>1, AllocationAssumption
       DEF CommitWork, TypeOK, NeedBranch, Worktrees, Checkouts
  <2> QED
    BY <1>1, <2>1 DEF CommitWork, TypeOK, Roles, database
<1>2. ASSUME NEW c \in Checkouts, Tamper(c)
      PROVE  Typed'
  <2>1. /\ place' \in [Checkouts -> Places]
        /\ \A b \in Checkouts : place'[b] \in NeedBranch => head[b] > 0
        /\ tampers' \in 0..MaxTampers
    BY <1>2, AllocationAssumption DEF Tamper, TypeOK
  <2> QED
    BY <1>2, <2>1 DEF Tamper, TypeOK, Roles, database
<1>3. ASSUME NEW a \in Allocations, BindWriter(a) \/ ReleaseWriter(a)
      PROVE  Typed'
  BY <1>3 DEF BindWriter, ReleaseWriter, TypeOK, Roles, disk
<1>4. ASSUME NEW p \in Processes, FailGit(p) \/ Crash(p)
      PROVE  Typed'
  <2>1. faults' \in 0..MaxFaults
    BY <1>4, AllocationAssumption DEF FailGit, Crash, TypeOK
  <2>2. proc' \in [Processes -> Calls] /\ Roles'
    BY <1>4, GotoTyped, ReturnTyped
       DEF FailGit, Crash, Refused, Phases, PreparePhases, SeenPhases
  <2>3. /\ place' \in [Checkouts -> Places]
        /\ \A c \in Checkouts : place'[c] \in NeedBranch => head[c] > 0
    BY <1>4 DEF FailGit, Crash, TypeOK, Places, NeedBranch, Worktrees, disk
  <2> QED
    BY <1>4, <2>1, <2>2, <2>3 DEF FailGit, Crash, TypeOK, database, disk
<1> QED
  BY <1>1, <1>2, <1>3, <1>4 DEF Environment

\* Every step keeps the types.
LEMMA NextTyped == Typed /\ [Next]_vars => Typed'
<1> SUFFICES ASSUME Typed, [Next]_vars PROVE Typed'
  OBVIOUS
<1>1. CASE UNCHANGED vars
  BY <1>1 DEF Typed, TypeOK, Roles, vars
<1>2. CASE Next
  <2>1. alone' \in SUBSET Processes
    BY <1>2 DEF Next
  <2> QED
    BY <1>2, <2>1, ApproachTyped, TargetTyped, RecordingTyped, ReconcileTyped, EnvironmentTyped
       DEF Next, Step
<1> QED
  BY <1>1, <1>2

\* Every variable keeps its type, and no branch is without the revision it began at:
\* the state that CheckoutService and Git build together is always one they can read.
THEOREM TypeCorrect == Spec => []TypeOK
<1>1. Typed => TypeOK
  BY DEF Typed
<1> QED
  BY <1>1, InitTyped, NextTyped, PTL DEF Spec

-----------------------------------------------------------------------------
(* Generations.                                                            *)

\* The fields of a call that goes on or returns, and the calls of the others.
LEMMA GotoFields ==
  ASSUME Typed, NEW p \in Processes, NEW pc, Goto(p, pc)
  PROVE  /\ proc'[p].pc = pc /\ proc'[p].of = proc[p].of /\ proc'[p].source = proc[p].source
         /\ proc'[p].current = proc[p].current /\ proc'[p].seen = proc[p].seen
         /\ proc'[p].key = proc[p].key
         /\ \A q \in Processes \ {p} : proc'[q] = proc[q]
BY DEF Typed, TypeOK, Calls, Goto

\* A call that returns is idle, and the others are as they were.
LEMMA ReturnFields ==
  ASSUME Typed, NEW p \in Processes, Return(p)
  PROVE  /\ proc'[p] = Idle /\ Idle.of = Feature /\ Idle.pc = "idle"
         /\ \A q \in Processes \ {p} : proc'[q] = proc[q]
BY DEF Typed, TypeOK, Calls, Return, Idle

\* Judge accepts, gives up or goes on to correct the record; it reads nothing again.
LEMMA JudgeFields ==
  ASSUME Typed, NEW p \in Processes, NEW at, NEW oid, Judge(p, at, oid)
  PROVE  /\ \A q \in Processes \ {p} : proc'[q] = proc[q]
         /\ \/ /\ Acceptable(proc[p].current, at)
               /\ proc'[p].pc = "persist" /\ proc'[p].of = proc[p].of
               /\ proc'[p].current = proc[p].current
               /\ proc'[p].seen = [at |-> at, head |-> oid]
            \/ /\ ~Acceptable(proc[p].current, at)
               /\ proc[p].current = NoReadiness /\ Return(p)
            \/ /\ ~Acceptable(proc[p].current, at)
               /\ proc[p].current # NoReadiness /\ Goto(p, "missing")
<1>1. proc[p] \in Calls
  BY DEF Typed, TypeOK
<1>2. CASE Acceptable(proc[p].current, at)
  BY <1>1, <1>2 DEF Typed, TypeOK, Calls, Judge
<1>3. CASE ~Acceptable(proc[p].current, at)
  BY <1>3, GotoFields, ReturnFields DEF Judge, Refused
<1> QED
  BY <1>2, <1>3

\* What a call in the middle of its way reads has its type.
LEMMA CallTypes ==
  ASSUME Typed, NEW p \in Processes
  PROVE  /\ proc[p] \in Calls /\ proc[p].of \in Checkouts
         /\ proc[p].current \in ReadinessRows /\ proc[p].current.generation \in Nat
         /\ proc[p].current.head \in Nat /\ proc[p].seen.head \in Nat
         /\ proc[p].of \in Allocations =>
              /\ readiness[proc[p].of] \in ReadinessRows
              /\ readiness[proc[p].of].generation \in Nat
              /\ readiness[proc[p].of].head \in Nat
BY AllocationAssumption DEF Typed, TypeOK, Calls, ReadinessRows

\* What a process would record of a checkout that it saw is a row.
LEMMA ObservedTypes ==
  ASSUME Typed, NEW p \in Processes
  PROVE  LET seen == Observed(p, proc[p].current)
             filled == [seen EXCEPT !.identity = Identity(proc[p].seen.at)]
         IN  /\ seen \in ReadinessRows /\ seen.identity = proc[p].current.identity
             /\ seen.head = proc[p].seen.head /\ seen.availability = "available"
             /\ filled \in ReadinessRows /\ filled.identity # "none"
             /\ filled.head = proc[p].seen.head /\ filled.availability = "available"
<1> DEFINE row == proc[p].current
           seen == Observed(p, row)
           filled == [seen EXCEPT !.identity = Identity(proc[p].seen.at)]
<1>1. row \in ReadinessRows /\ proc[p] \in Calls
  BY CallTypes
<1>2. proc[p].seen \in [at : Places, head : 0..MaxHead]
  BY <1>1 DEF Calls
<1>3. proc[p].seen.head \in 0..MaxHead
  BY <1>2
<1> HIDE DEF row
<1>4. /\ seen \in ReadinessRows /\ seen.identity = row.identity
      /\ seen.head = proc[p].seen.head /\ seen.availability = "available"
  BY <1>1, <1>3 DEF Observed, ReadinessRows, Availabilities
<1> HIDE DEF seen
<1>5. Identity(proc[p].seen.at) \in {"own", "other"}
  BY DEF Identity
<1>6. /\ filled \in ReadinessRows /\ filled.identity # "none"
      /\ filled.head = seen.head /\ filled.availability = seen.availability
  BY <1>4, <1>5 DEF ReadinessRows
<1> QED
  BY <1>4, <1>6 DEF seen, row

\* A row that is marked missing is a row.
LEMMA MissingTypes ==
  ASSUME NEW row \in ReadinessRows
  PROVE  LET lost == [row EXCEPT !.availability = "missing"]
         IN  /\ lost \in ReadinessRows /\ lost.identity = row.identity /\ lost.head = row.head
BY DEF ReadinessRows, Availabilities

\* The transaction writes the generation after the recorded one, of a process that
\* read the recorded one, or nothing.
LEMMA WriteNext ==
  ASSUME Typed, Generations, NEW p \in Processes, proc[p].of \in Allocations,
         NEW row \in ReadinessRows, WriteReadiness(p, row)
  PROVE  \/ UNCHANGED <<readiness, events>>
         \/ LET a == proc[p].of
                g == readiness[a].generation + 1
            IN  /\ proc[p].current = readiness[a]
                /\ readiness' = [readiness EXCEPT ![a] = [row EXCEPT !.generation = g]]
                /\ events' = [events EXCEPT ![a] = 1..g]
<1> DEFINE a == proc[p].of
           n == proc[p].current.generation + 1
           next == [row EXCEPT !.generation = n]
<1>1. n - 1 \in Nat /\ readiness[a].generation \in Nat /\ n - 1 = proc[p].current.generation
  BY CallTypes
<1>2. CASE /\ n \notin events[a] /\ readiness' = [readiness EXCEPT ![a] = next]
           /\ events' = [events EXCEPT ![a] = @ \cup {n}]
  <2>1. n - 1 <= readiness[a].generation
    BY <1>1 DEF Generations, Behind, IsBehind
  <2>2. events[a] = 1..readiness[a].generation
    BY DEF Generations, EveryGenerationRecorded
  <2>3. n = readiness[a].generation + 1
    BY <1>1, <1>2, <2>1, <2>2
  <2>4. proc[p].current = readiness[a]
    BY <1>1, <2>3 DEF Generations, Behind, IsBehind
  <2>5. events[a] \cup {n} = 1..n
    BY <1>1, <2>2, <2>3
  <2>6. events' = [events EXCEPT ![a] = 1..n]
    BY <1>2, <2>5
  <2> QED
    BY <1>2, <2>3, <2>4, <2>6
<1>3. CASE UNCHANGED <<readiness, events>>
  BY <1>3
<1>4. next.generation = n
  BY <1>1 DEF ReadinessRows
<1> QED
  BY <1>2, <1>3, <1>4 DEF WriteReadiness, Unrecorded, RecordEvent

\* Initially nothing is recorded and nobody has read anything.
LEMMA InitGenerations == Init => Generations
<1> SUFFICES ASSUME Init PROVE Generations
  OBVIOUS
<1>1. Rows /\ EveryGenerationRecorded
  BY DEF Init, Rows, EveryGenerationRecorded, NoReadiness
<1>2. Behind
  BY ConstantTypes DEF Init, Behind, IsBehind, Idle
<1> QED
  BY <1>1, <1>2 DEF Generations

\* A step that writes no readiness keeps the generations if its own call stays behind.
LEMMA KeptGenerations ==
  ASSUME Typed, Generations, UNCHANGED <<readiness, events>>, NEW p \in Processes,
         IsBehind(proc[p])', \A q \in Processes \ {p} : proc'[q] = proc[q]
  PROVE  Generations'
<1>1. Behind'
  BY DEF Generations, Behind, IsBehind
<1> QED
  BY <1>1 DEF Generations, Rows, EveryGenerationRecorded

\* A call that goes on stays behind.
LEMMA GotoGenerations ==
  ASSUME Typed, Generations, UNCHANGED <<readiness, events>>, NEW p \in Processes,
         NEW pc, Goto(p, pc),
         pc \in CorrectedPhases /\ proc[p].of \in Allocations => proc[p].current.generation > 0
  PROVE  Generations'
<1>1. IsBehind(proc[p])'
  BY GotoFields DEF Generations, Behind, IsBehind
<1> QED
  BY <1>1, GotoFields, KeptGenerations

\* A call that returns is of no allocation.
LEMMA ReturnGenerations ==
  ASSUME Typed, Generations, UNCHANGED <<readiness, events>>, NEW p \in Processes, Return(p)
  PROVE  Generations'
<1>1. IsBehind(proc[p])'
  BY ReturnFields, ConstantTypes DEF IsBehind
<1> QED
  BY <1>1, ReturnFields, KeptGenerations

\* The transaction that writes a row keeps the generations, and ends the call.
LEMMA WriteGenerations ==
  ASSUME Typed, Generations, NEW p \in Processes, proc[p].of \in Allocations,
         NEW row \in ReadinessRows, WriteReadiness(p, row), Return(p),
         proc[p].current = readiness[proc[p].of] => row.identity # "none"
  PROVE  Generations'
<1> DEFINE a == proc[p].of
           g == readiness[a].generation + 1
           next == [row EXCEPT !.generation = g]
<1>1. CASE UNCHANGED <<readiness, events>>
  BY <1>1, ReturnGenerations
<1>2. CASE /\ proc[p].current = readiness[a]
           /\ readiness' = [readiness EXCEPT ![a] = next]
           /\ events' = [events EXCEPT ![a] = 1..g]
  <2>1. g \in Nat /\ g > 0 /\ g = readiness[a].generation + 1
    BY CallTypes
  <2>2. next.generation = g /\ next.identity # "none"
    BY <1>2, <2>1 DEF ReadinessRows
  <2>3. /\ readiness'[a] = next /\ events'[a] = 1..g
        /\ \A b \in Allocations \ {a} : readiness'[b] = readiness[b] /\ events'[b] = events[b]
    BY <1>2 DEF Typed, TypeOK
  <2> HIDE DEF next, g
  <2>4. Rows' /\ EveryGenerationRecorded'
    BY <2>1, <2>2, <2>3 DEF Generations, Rows, EveryGenerationRecorded
  <2>5. ASSUME NEW q \in Processes PROVE IsBehind(proc[q])'
    <3>1. CASE q = p
      BY <3>1, ReturnFields, ConstantTypes DEF IsBehind
    <3>2. CASE q # p
      <4>1. proc'[q] = proc[q] /\ IsBehind(proc[q]) /\ proc[q].current.generation \in Nat
        BY <3>2, ReturnFields, CallTypes DEF Generations, Behind
      <4>2. CASE proc[q].of = a
        <5>1. proc[q].current.generation < g
          BY <2>1, <4>1, <4>2, CallTypes DEF IsBehind
        <5> QED
          BY <2>1, <2>2, <2>3, <4>1, <4>2, <5>1 DEF IsBehind
      <4>3. CASE proc[q].of # a
        BY <2>3, <4>1, <4>3 DEF IsBehind
      <4> QED
        BY <4>2, <4>3
    <3> QED
      BY <3>1, <3>2
  <2> QED
    BY <2>4, <2>5 DEF Generations, Behind
<1> QED
  BY <1>1, <1>2, WriteNext

\* Every step keeps the generations.
LEMMA NextGenerations == Typed /\ Generations /\ [Next]_vars => Generations'
<1> SUFFICES ASSUME Typed, Generations, [Next]_vars PROVE Generations'
  OBVIOUS
<1>1. ASSUME NEW p \in Processes, NEW a \in Allocations, NEW k \in Keys \cup {Fresh},
             BeginPrepare(p, a, k)
      PROVE  Generations'
  <2>1. /\ proc'[p].of = a /\ proc'[p].current = NoReadiness /\ proc'[p].pc = "parent"
        /\ \A q \in Processes \ {p} : proc'[q] = proc[q]
        /\ UNCHANGED <<readiness, events>>
    BY <1>1 DEF BeginPrepare, Typed, TypeOK, Idle, database
  <2>2. readiness[a].generation \in Nat /\ NoReadiness.generation = 0
    BY DEF Typed, TypeOK, ReadinessRows, NoReadiness
  <2>3. IsBehind(proc[p])'
    BY <2>1, <2>2 DEF IsBehind, Generations, Rows, CorrectedPhases
  <2> QED
    BY <2>1, <2>3, KeptGenerations
<1>2. ASSUME NEW p \in Processes, NEW c \in Checkouts, BeginReconcile(p, c)
      PROVE  Generations'
  <2>1. /\ proc'[p].of = c /\ (c \in Allocations => proc'[p].current = readiness[c])
        /\ \A q \in Processes \ {p} : proc'[q] = proc[q]
        /\ UNCHANGED <<readiness, events>>
    BY <1>2, ConstantTypes DEF BeginReconcile, Typed, TypeOK, Idle, database
  <2>2. c \in Allocations => readiness[c].generation \in Nat /\ readiness[c] # NoReadiness
    BY <1>2, ConstantTypes DEF BeginReconcile, Typed, TypeOK, ReadinessRows
  <2>3. IsBehind(proc[p])'
    BY <2>1, <2>2 DEF IsBehind, Generations, Rows
  <2> QED
    BY <2>1, <2>3, KeptGenerations
<1>3. ASSUME NEW p \in Processes, ResolveParent(p) \/ RejectActiveWriter(p) \/ EnsureIntent(p)
      PROVE  Generations'
  BY <1>3, GotoGenerations, ReturnGenerations
     DEF ResolveParent, RejectActiveWriter, EnsureIntent, CorrectedPhases, database
<1>4. ASSUME NEW p \in Processes, ReadReadiness(p)
      PROVE  Generations'
  <2>1. /\ proc'[p].of = proc[p].of /\ proc'[p].current = readiness[proc[p].of]
        /\ proc'[p].pc \in {"intent", "writer"}
        /\ \A q \in Processes \ {p} : proc'[q] = proc[q]
        /\ UNCHANGED <<readiness, events>>
    BY <1>4 DEF ReadReadiness, Typed, TypeOK, Calls, database
  <2>2. IsBehind(proc[p])'
    BY <2>1, CallTypes DEF IsBehind, Generations, Rows, CorrectedPhases
  <2> QED
    BY <2>1, <2>2, KeptGenerations
<1>5. ASSUME NEW p \in Processes, Refused(p), UNCHANGED <<readiness, events>>,
             proc[p].of \in Allocations
      PROVE  Generations'
  <2>1. proc[p].current # NoReadiness => proc[p].current.generation > 0
    BY <1>5, CallTypes DEF Generations, Behind, IsBehind
  <2> QED
    BY <1>5, <2>1, GotoGenerations, ReturnGenerations DEF Refused
<1>6. ASSUME NEW p \in Processes, NEW at, NEW oid, Judge(p, at, oid),
             UNCHANGED <<readiness, events>>, proc[p].of \in Allocations
      PROVE  Generations'
  <2>1. CASE Acceptable(proc[p].current, at)
    <3>1. IsBehind(proc[p])'
      BY <1>6, <2>1, JudgeFields DEF IsBehind, Generations, Behind, CorrectedPhases
    <3> QED
      BY <1>6, <3>1, JudgeFields, KeptGenerations
  <2>2. CASE Refused(p)
    BY <1>5, <1>6, <2>2
  <2> QED
    BY <1>6, <2>1, <2>2 DEF Judge
<1>7. ASSUME NEW p \in Processes, LookAtTarget(p) \/ Materialize(p)
      PROVE  Generations'
  <2>1. proc[p].of \in Allocations /\ UNCHANGED <<readiness, events>>
    BY <1>7 DEF LookAtTarget, Materialize, database, Typed, Roles, At, PreparePhases
  <2>2. CASE \E at, oid : Judge(p, at, oid)
    BY <1>6, <2>1, <2>2
  <2>3. CASE Refused(p) \/ Goto(p, "materialize") \/ Return(p)
    BY <1>5, <2>1, <2>3, GotoGenerations, ReturnGenerations DEF CorrectedPhases
  <2> QED
    BY <1>7, <2>2, <2>3 DEF LookAtTarget, Materialize, AddWorktree, RefuseWorktree
<1>8. ASSUME NEW p \in Processes, Persist(p)
      PROVE  Generations'
  <2> DEFINE row == [Observed(p, proc[p].current) EXCEPT !.identity = Identity(proc[p].seen.at)]
  <2>1. proc[p].of \in Allocations
    BY <1>8 DEF Persist, At, Typed, Roles, PreparePhases
  <2>2. row \in ReadinessRows /\ row.identity # "none"
    BY ObservedTypes
  <2>3. WriteReadiness(p, row) /\ Return(p)
    BY <1>8 DEF Persist
  <2> HIDE DEF row
  <2> QED
    BY <2>1, <2>2, <2>3, WriteGenerations
<1>9. ASSUME NEW p \in Processes, RecordUnavailable(p) \/ Record(p)
      PROVE  Generations'
  <2>1. Return(p) /\ proc[p].pc \in CorrectedPhases
    BY <1>9 DEF RecordUnavailable, Record, At, CorrectedPhases
  <2>2. CASE proc[p].of = Feature
    BY <1>9, <2>1, <2>2, ReturnGenerations DEF RecordUnavailable, Record
  <2>3. CASE proc[p].of # Feature
    <3>1. proc[p].of \in Allocations
      BY <2>3, CallTypes DEF Checkouts
    <3>2. proc[p].current.generation > 0
      BY <2>1, <3>1 DEF Generations, Behind, IsBehind
    <3>3. proc[p].current = readiness[proc[p].of] => proc[p].current.identity # "none"
      BY <3>1, <3>2 DEF Generations, Rows
    <3>4. /\ [proc[p].current EXCEPT !.availability = "missing"] \in ReadinessRows
          /\ [proc[p].current EXCEPT !.availability = "missing"].identity = proc[p].current.identity
          /\ Observed(p, proc[p].current) \in ReadinessRows
          /\ Observed(p, proc[p].current).identity = proc[p].current.identity
      BY CallTypes, ObservedTypes, MissingTypes
    <3>5. PICK row \in ReadinessRows :
            row.identity = proc[p].current.identity /\ WriteReadiness(p, row)
      BY <1>9, <2>3, <3>4 DEF RecordUnavailable, Record
    <3> QED
      BY <2>1, <3>1, <3>3, <3>5, WriteGenerations
  <2> QED
    BY <2>2, <2>3
<1>10. ASSUME NEW p \in Processes, Resolve(p)
       PROVE  Generations'
  <2>1. UNCHANGED <<readiness, events>> /\ proc[p].pc \in CorrectedPhases
    BY <1>10 DEF Resolve, database, At, CorrectedPhases
  <2>2. proc[p].of \in Allocations => proc[p].current.generation > 0
    BY <2>1 DEF Generations, Behind, IsBehind
  <2>3. CASE Goto(p, "missing")
    BY <2>1, <2>2, <2>3, GotoGenerations
  <2>4. CASE ~Goto(p, "missing")
    <3>1. /\ proc'[p].of = proc[p].of /\ proc'[p].current = proc[p].current
          /\ \A q \in Processes \ {p} : proc'[q] = proc[q]
      BY <1>10, <2>4, CallTypes DEF Resolve, Typed, TypeOK, Calls
    <3>2. IsBehind(proc[p])'
      BY <2>1, <2>2, <3>1 DEF IsBehind, Generations, Behind
    <3> QED
      BY <2>1, <3>1, <3>2, KeptGenerations
  <2> QED
    BY <2>3, <2>4
<1>11. CASE UNCHANGED <<readiness, events, proc>>
  BY <1>11 DEF Generations, Rows, Behind, IsBehind, EveryGenerationRecorded
<1>12. ASSUME NEW p \in Processes, FailGit(p) \/ Crash(p)
       PROVE  Generations'
  <2>1. UNCHANGED <<readiness, events>>
    BY <1>12 DEF FailGit, Crash, database
  <2>2. CASE Return(p)
    BY <2>1, <2>2, ReturnGenerations
  <2>3. CASE proc[p].pc = "look" /\ Refused(p)
    BY <1>5, <2>1, <2>3 DEF Typed, Roles, PreparePhases
  <2>4. CASE proc[p].pc = "resolve" /\ Goto(p, "missing")
    <3>1. proc[p].of \in Allocations => proc[p].current.generation > 0
      BY <2>4 DEF Generations, Behind, IsBehind, CorrectedPhases
    <3> QED
      BY <2>1, <2>4, <3>1, GotoGenerations
  <2> QED
    BY <1>12, <2>2, <2>3, <2>4 DEF FailGit, Crash, At
<1>13. CASE Environment
  <2>1. CASE \E p \in Processes : FailGit(p) \/ Crash(p)
    BY <1>12, <2>1
  <2>2. CASE ~\E p \in Processes : FailGit(p) \/ Crash(p)
    BY <1>11, <1>13, <2>2
       DEF Environment, CommitWork, Tamper, BindWriter, ReleaseWriter, database
  <2> QED
    BY <2>1, <2>2
<1>14. CASE UNCHANGED vars
  BY <1>11, <1>14 DEF vars
<1> QED
  BY <1>1, <1>2, <1>3, <1>4, <1>7, <1>8, <1>9, <1>10, <1>13, <1>14 DEF Next, Step

\* The reconciliation events of a checkout are its generations, without a gap, up to the
\* one that its readiness has, whatever record_unavailable, persist_work_item_readiness
\* and record_registered_checkout_reconciliation write over each other.
THEOREM EveryGenerationIsRecorded == Spec => []EveryGenerationRecorded
<1>1. Init => Typed /\ Generations
  BY InitTyped, InitGenerations
<1>2. Typed /\ Generations /\ [Next]_vars => (Typed /\ Generations)'
  BY NextTyped, NextGenerations
<1>3. Typed /\ Generations => EveryGenerationRecorded
  BY DEF Generations
<1> QED
  BY <1>1, <1>2, <1>3, PTL DEF Spec

-----------------------------------------------------------------------------
(* Recorded heads.                                                         *)

\* Initially there is nothing to be ahead of.
LEMMA InitHeads == Init => Heads
<1> SUFFICES ASSUME Init PROVE Heads
  OBVIOUS
<1>1. ASSUME NEW a \in Allocations PROVE readiness[a].head <= head[a]
  <2>1. head[a] = 0
    BY ConstantTypes DEF Init, Checkouts
  <2>2. readiness[a].head = 0
    BY DEF Init, NoReadiness
  <2> QED
    BY <2>1, <2>2
<1>2. \A p \in Processes : InReach(proc[p])
  BY ConstantTypes DEF Init, InReach, Idle
<1> QED
  BY <1>1, <1>2 DEF Heads

\* Branches only grow.
LEMMA BranchesGrow ==
  ASSUME Typed, [Next]_vars
  PROVE  /\ \A c \in Checkouts : head[c] \in Nat /\ head'[c] \in Nat /\ head[c] <= head'[c]
         /\ \A a \in Allocations : head[a] \in Nat /\ head'[a] \in Nat /\ head[a] <= head'[a]
<1>1. \A c \in Checkouts : head[c] \in Nat /\ head'[c] \in Nat
  BY NextTyped, AllocationAssumption DEF Typed, TypeOK
<1>2. ASSUME NEW p \in Processes, Step(p)
      PROVE  UNCHANGED head \/ \E c \in Checkouts : head[c] = 0 /\ head' = [head EXCEPT ![c] = 1]
  <2>1. CASE Materialize(p) /\ AddWorktree(p, proc[p].of)
    <3> DEFINE c == proc[p].of
    <3>1. c \in Checkouts /\ head[c] \in Nat
      BY <1>1, CallTypes
    <3>2. UNCHANGED head \/ (~(head[c] > 0) /\ head' = [head EXCEPT ![c] = 1])
      BY <2>1 DEF AddWorktree
    <3>3. head[c] > 0 \/ head[c] = 0
      BY <3>1
    <3> QED
      BY <3>1, <3>2, <3>3
  <2> QED
    BY <1>2, <2>1
       DEF Step, ResolveParent, ReadReadiness, RejectActiveWriter, EnsureIntent, LookAtTarget,
           Materialize, RefuseWorktree, Persist, RecordUnavailable, Resolve, Record, disk
<1>3. CASE UNCHANGED head
  BY <1>1, <1>3 DEF Checkouts
<1>4. ASSUME NEW c \in Checkouts, head[c] = 0 /\ head' = [head EXCEPT ![c] = 1]
      PROVE  \A b \in Checkouts : head[b] <= head'[b]
  BY <1>1, <1>4 DEF Typed, TypeOK
<1>5. ASSUME NEW c \in Checkouts, CommitWork(c)
      PROVE  \A b \in Checkouts : head[b] <= head'[b]
  BY <1>1, <1>5 DEF CommitWork, Typed, TypeOK
<1>6. CASE Environment
  BY <1>1, <1>3, <1>5, <1>6
     DEF Environment, CommitWork, Tamper, BindWriter, ReleaseWriter, FailGit, Crash, disk, Checkouts
<1>7. CASE UNCHANGED vars
  BY <1>3, <1>7 DEF vars
<1>8. CASE Next
  BY <1>1, <1>2, <1>3, <1>4, <1>6, <1>8
     DEF Next, BeginPrepare, BeginReconcile, disk, Checkouts
<1> QED
  BY <1>1, <1>7, <1>8 DEF Checkouts

\* A step that writes no readiness keeps the heads if its own call stays in reach.
LEMMA KeptHeads ==
  ASSUME Typed, Heads, [Next]_vars, UNCHANGED readiness, NEW p \in Processes,
         InReach(proc[p])', \A q \in Processes \ {p} : proc'[q] = proc[q]
  PROVE  Heads'
<1>1. \A a \in Allocations : readiness[a].head \in Nat
  BY AllocationAssumption DEF Typed, TypeOK, ReadinessRows
<1>2. \A a \in Allocations : readiness'[a].head <= head'[a]
  BY <1>1, BranchesGrow DEF Heads
<1>3. ASSUME NEW q \in Processes \ {p} PROVE InReach(proc[q])'
  BY <1>3, BranchesGrow, CallTypes DEF Heads, InReach
<1> QED
  BY <1>2, <1>3 DEF Heads

\* A call that goes on stays in reach.
LEMMA GotoHeads ==
  ASSUME Typed, Heads, [Next]_vars, UNCHANGED readiness, NEW p \in Processes,
         NEW pc, Goto(p, pc), pc \notin SeenPhases
  PROVE  Heads'
<1>1. InReach(proc[p])'
  BY GotoFields, BranchesGrow, CallTypes DEF Heads, InReach
<1> QED
  BY <1>1, GotoFields, KeptHeads

\* A call that returns reaches for nothing.
LEMMA ReturnHeads ==
  ASSUME Typed, Heads, [Next]_vars, UNCHANGED readiness, NEW p \in Processes, Return(p)
  PROVE  Heads'
<1>1. InReach(proc[p])'
  BY ReturnFields, ConstantTypes DEF InReach
<1> QED
  BY <1>1, ReturnFields, KeptHeads

\* The transaction records a head that is not behind the one it replaces.
LEMMA WriteHeads ==
  ASSUME Typed, Generations, Heads, [Next]_vars, NEW p \in Processes, proc[p].of \in Allocations,
         NEW row \in ReadinessRows, WriteReadiness(p, row), Return(p),
         proc[p].current.head <= row.head, row.head <= head[proc[p].of]
  PROVE  Heads' /\ \A a \in Allocations : readiness'[a].head >= readiness[a].head
<1> DEFINE a == proc[p].of
           g == readiness[a].generation + 1
           next == [row EXCEPT !.generation = g]
<1>0. \A b \in Allocations : readiness[b].head \in Nat
  BY AllocationAssumption DEF Typed, TypeOK, ReadinessRows
<1>1. CASE UNCHANGED readiness
  BY <1>0, <1>1, ReturnHeads
<1>2. CASE proc[p].current = readiness[a] /\ readiness' = [readiness EXCEPT ![a] = next]
  <2>1. next.head = row.head /\ row.head \in Nat
    BY AllocationAssumption DEF ReadinessRows
  <2>2. readiness'[a] = next /\ \A b \in Allocations \ {a} : readiness'[b] = readiness[b]
    BY <1>2 DEF Typed, TypeOK
  <2> HIDE DEF next
  <2>3. \A b \in Allocations :
          readiness'[b].head >= readiness[b].head /\ readiness'[b].head <= head'[b]
    BY <1>0, <1>2, <2>1, <2>2, BranchesGrow DEF Heads
  <2>4. ASSUME NEW q \in Processes PROVE InReach(proc[q])'
    <3>1. CASE q = p
      BY <3>1, ReturnFields, ConstantTypes DEF InReach
    <3>2. CASE q # p
      BY <3>2, ReturnFields, BranchesGrow, CallTypes DEF Heads, InReach
    <3> QED
      BY <3>1, <3>2
  <2> QED
    BY <2>3, <2>4 DEF Heads
<1> QED
  BY <1>1, <1>2, WriteNext

\* What a call saw at a worktree is not behind what it had read.
LEMMA JudgeHeads ==
  ASSUME Typed, Heads, [Next]_vars, UNCHANGED readiness, NEW p \in Processes,
         proc[p].of \in Allocations, NEW at, NEW oid \in Nat, Judge(p, at, oid),
         head[proc[p].of] <= oid, oid <= head'[proc[p].of]
  PROVE  Heads'
<1>1. CASE Acceptable(proc[p].current, at)
  <2>0. /\ proc'[p].of = proc[p].of /\ proc'[p].current = proc[p].current
        /\ proc'[p].seen = [at |-> at, head |-> oid]
    BY <1>1, JudgeFields, Zenon
  <2>1. /\ proc'[p].of = proc[p].of /\ proc'[p].current = proc[p].current
        /\ proc'[p].seen.head = oid
    BY <2>0
  <2>2. proc[p].current.head <= head[proc[p].of] /\ proc[p].current.head \in Nat
    BY CallTypes DEF Heads, InReach
  <2>3. /\ head[proc[p].of] \in Nat /\ head'[proc[p].of] \in Nat
        /\ head[proc[p].of] <= head'[proc[p].of]
    BY BranchesGrow
  <2>4. InReach(proc[p])'
    BY <2>1, <2>2, <2>3 DEF InReach
  <2> QED
    BY <1>1, <2>4, JudgeFields, KeptHeads
<1>2. CASE ~Acceptable(proc[p].current, at)
  BY <1>2, GotoHeads, ReturnHeads DEF Judge, Refused, SeenPhases
<1> QED
  BY <1>1, <1>2

\* Every step keeps the heads, and records none that is behind.
LEMMA NextHeads ==
  ASSUME Typed, Generations, Heads, [Next]_vars
  PROVE  Heads' /\ \A a \in Allocations : readiness'[a].head >= readiness[a].head
<1>0. \A a \in Allocations : readiness[a].head \in Nat
  BY AllocationAssumption DEF Typed, TypeOK, ReadinessRows
<1>1. ASSUME NEW p \in Processes, NEW a \in Allocations, NEW k \in Keys \cup {Fresh},
             BeginPrepare(p, a, k)
      PROVE  Heads' /\ UNCHANGED readiness
  <2>1. /\ proc'[p].of = a /\ proc'[p].current = NoReadiness /\ proc'[p].pc = "parent"
        /\ \A q \in Processes \ {p} : proc'[q] = proc[q]
        /\ UNCHANGED readiness
    BY <1>1 DEF BeginPrepare, Typed, TypeOK, Idle, database
  <2>2. InReach(proc[p])'
    BY <2>1, BranchesGrow DEF InReach, NoReadiness, SeenPhases
  <2> QED
    BY <2>1, <2>2, KeptHeads
<1>2. ASSUME NEW p \in Processes, NEW c \in Checkouts, BeginReconcile(p, c)
      PROVE  Heads' /\ UNCHANGED readiness
  <2>1. /\ proc'[p].of = c /\ (c \in Allocations => proc'[p].current = readiness[c])
        /\ proc'[p].pc = "resolve"
        /\ \A q \in Processes \ {p} : proc'[q] = proc[q]
        /\ UNCHANGED <<readiness, head>>
    BY <1>2, ConstantTypes DEF BeginReconcile, Typed, TypeOK, Idle, database, disk
  <2>2. InReach(proc[p])'
    BY <2>1 DEF InReach, Heads, SeenPhases
  <2> QED
    BY <2>1, <2>2, KeptHeads
<1>3. ASSUME NEW p \in Processes,
             \/ ResolveParent(p) \/ RejectActiveWriter(p) \/ EnsureIntent(p)
             \/ FailGit(p) \/ Crash(p)
      PROVE  Heads' /\ UNCHANGED readiness
  BY <1>3, GotoHeads, ReturnHeads
     DEF ResolveParent, RejectActiveWriter, EnsureIntent, FailGit, Crash, Refused, SeenPhases,
         database
<1>4. ASSUME NEW p \in Processes, ReadReadiness(p)
      PROVE  Heads' /\ UNCHANGED readiness
  <2>1. /\ proc'[p].of = proc[p].of /\ proc'[p].current = readiness[proc[p].of]
        /\ proc'[p].pc \in {"intent", "writer"}
        /\ \A q \in Processes \ {p} : proc'[q] = proc[q]
        /\ UNCHANGED <<readiness, head>>
    BY <1>4 DEF ReadReadiness, Typed, TypeOK, Calls, database, disk
  <2>2. InReach(proc[p])'
    BY <2>1 DEF InReach, Heads, SeenPhases
  <2> QED
    BY <2>1, <2>2, KeptHeads
<1>5. ASSUME NEW p \in Processes, LookAtTarget(p) \/ Materialize(p)
      PROVE  Heads' /\ UNCHANGED readiness
  <2>1. proc[p].of \in Allocations /\ UNCHANGED readiness
    BY <1>5 DEF LookAtTarget, Materialize, database, Typed, Roles, At, PreparePhases
  <2>2. CASE \E at : Judge(p, at, head'[proc[p].of])
    BY <2>1, <2>2, JudgeHeads, BranchesGrow
  <2>3. CASE Refused(p) \/ Goto(p, "materialize") \/ Return(p)
    BY <2>1, <2>3, GotoHeads, ReturnHeads DEF Refused, SeenPhases
  <2>4. CASE LookAtTarget(p)
    <3>1. UNCHANGED head
      BY <2>4 DEF LookAtTarget, disk
    <3> QED
      BY <2>2, <2>3, <2>4, <3>1 DEF LookAtTarget
  <2>5. CASE Materialize(p)
    BY <2>2, <2>3, <2>5 DEF Materialize, AddWorktree, RefuseWorktree
  <2> QED
    BY <1>5, <2>1, <2>4, <2>5
<1>6. ASSUME NEW p \in Processes, Persist(p)
      PROVE  Heads' /\ \A a \in Allocations : readiness'[a].head >= readiness[a].head
  <2> DEFINE row == [Observed(p, proc[p].current) EXCEPT !.identity = Identity(proc[p].seen.at)]
  <2>1. proc[p].of \in Allocations /\ proc[p].pc \in SeenPhases
    BY <1>6 DEF Persist, At, Typed, Roles, PreparePhases, SeenPhases
  <2>2. row \in ReadinessRows /\ row.head = proc[p].seen.head
    BY ObservedTypes
  <2>3. WriteReadiness(p, row) /\ Return(p)
    BY <1>6 DEF Persist
  <2>4. proc[p].current.head <= proc[p].seen.head /\ proc[p].seen.head <= head[proc[p].of]
    BY <2>1 DEF Heads, InReach
  <2> HIDE DEF row
  <2> QED
    BY <2>1, <2>2, <2>3, <2>4, WriteHeads
<1>7. ASSUME NEW p \in Processes, RecordUnavailable(p) \/ Record(p)
      PROVE  Heads' /\ \A a \in Allocations : readiness'[a].head >= readiness[a].head
  <2>1. Return(p)
    BY <1>7 DEF RecordUnavailable, Record
  <2>2. CASE proc[p].of = Feature
    BY <1>0, <1>7, <2>1, <2>2, ReturnHeads DEF RecordUnavailable, Record
  <2>3. CASE proc[p].of # Feature
    <3>1. proc[p].of \in Allocations
      BY <2>3, CallTypes DEF Checkouts
    <3>2. proc[p].current.head <= proc[p].current.head /\ proc[p].current.head <= head[proc[p].of]
      BY <3>1, CallTypes DEF Heads, InReach
    <3>3. CASE RecordUnavailable(p)
      <4> DEFINE row == [proc[p].current EXCEPT !.availability = "missing"]
      <4>1. row \in ReadinessRows /\ row.head = proc[p].current.head
        BY CallTypes, MissingTypes
      <4>2. WriteReadiness(p, row)
        BY <2>3, <3>3 DEF RecordUnavailable
      <4> HIDE DEF row
      <4> QED
        BY <2>1, <3>1, <3>2, <4>1, <4>2, WriteHeads
    <3>4. CASE Record(p)
      <4> DEFINE row == Observed(p, proc[p].current)
      <4>1. row \in ReadinessRows /\ row.head = proc[p].seen.head
        BY ObservedTypes
      <4>2. WriteReadiness(p, row) /\ proc[p].pc = "record"
        BY <2>3, <3>4 DEF Record, At
      <4>3. proc[p].current.head <= proc[p].seen.head /\ proc[p].seen.head <= head[proc[p].of]
        BY <3>1, <4>2 DEF Heads, InReach, SeenPhases
      <4> HIDE DEF row
      <4> QED
        BY <2>1, <3>1, <4>1, <4>2, <4>3, WriteHeads
    <3> QED
      BY <1>7, <3>3, <3>4
  <2> QED
    BY <2>2, <2>3
<1>8. ASSUME NEW p \in Processes, Resolve(p)
      PROVE  Heads' /\ UNCHANGED readiness
  <2>1. UNCHANGED <<readiness, head>>
    BY <1>8 DEF Resolve, database, disk
  <2>2. CASE Goto(p, "missing")
    BY <2>1, <2>2, GotoHeads DEF SeenPhases
  <2>3. CASE ~Goto(p, "missing")
    <3>1. /\ proc'[p].of = proc[p].of /\ proc'[p].current = proc[p].current
          /\ proc'[p].seen.head = head[proc[p].of]
          /\ \A q \in Processes \ {p} : proc'[q] = proc[q]
      BY <1>8, <2>3, CallTypes DEF Resolve, Typed, TypeOK, Calls
    <3>2. InReach(proc[p])'
      BY <2>1, <3>1, BranchesGrow DEF InReach, Heads
    <3> QED
      BY <2>1, <3>1, <3>2, KeptHeads
  <2> QED
    BY <2>1, <2>2, <2>3
<1>9. CASE UNCHANGED <<readiness, proc>>
  <2>1. \A a \in Allocations : readiness'[a].head <= head'[a]
    BY <1>0, <1>9, BranchesGrow DEF Heads
  <2>2. ASSUME NEW q \in Processes PROVE InReach(proc[q])'
    BY <1>9, BranchesGrow, CallTypes DEF Heads, InReach
  <2> QED
    BY <1>0, <1>9, <2>1, <2>2 DEF Heads
<1>10. CASE \/ UNCHANGED vars
            \/ \E c \in Checkouts : CommitWork(c) \/ Tamper(c)
            \/ \E a \in Allocations : BindWriter(a) \/ ReleaseWriter(a)
  <2>1. UNCHANGED <<readiness, proc>>
    BY <1>10 DEF vars, CommitWork, Tamper, BindWriter, ReleaseWriter, database
  <2> QED
    BY <1>0, <1>9, <2>1
<1>11. CASE \E p \in Processes :
              \/ \E a \in Allocations, k \in Keys \cup {Fresh} : BeginPrepare(p, a, k)
              \/ \E c \in Checkouts : BeginReconcile(p, c)
              \/ Step(p) \/ FailGit(p) \/ Crash(p)
  BY <1>0, <1>1, <1>2, <1>3, <1>4, <1>5, <1>6, <1>7, <1>8, <1>11 DEF Step
<1> QED
  BY <1>10, <1>11 DEF Next, Environment

\* What a process saw earlier and records later does not undo what another process saw
\* after it, although no lock spans the two.
THEOREM HeadsDoNotRegress == Spec => HeadsNeverRegress
<1>1. Init => Typed /\ Generations /\ Heads
  BY InitTyped, InitGenerations, InitHeads
<1>2. Typed /\ Generations /\ Heads /\ [Next]_vars => (Typed /\ Generations /\ Heads)'
  BY NextTyped, NextGenerations, NextHeads
<1>3. Typed /\ Generations /\ Heads /\ [Next]_vars
        => [\A a \in Allocations : readiness'[a].head >= readiness[a].head]_vars
  BY NextHeads
<1> QED
  BY <1>1, <1>2, <1>3, PTL DEF Spec, HeadsNeverRegress

-----------------------------------------------------------------------------
(* Intents and branches.                                                   *)

\* Initially there are no branches and no process has got far.
LEMMA InitTraced == Init => Traced
<1> SUFFICES ASSUME Init PROVE Traced
  OBVIOUS
<1>1. \A a \in Allocations : head[a] = 0
  BY ConstantTypes DEF Init, Checkouts
<1>2. \A p \in Processes : proc[p].pc = "idle"
  BY DEF Init, Idle
<1> QED
  BY <1>1, <1>2 DEF Traced, Announced, BranchesFromIntents

\* A step keeps the trace if no intent is lost, its own call is announced when it may
\* create a worktree, and a branch that is new starts where an intent says.
LEMMA KeptTraced ==
  ASSUME Typed, Traced, intents \subseteq intents', NEW p \in Processes,
         \A q \in Processes \ {p} : proc'[q] = proc[q],
         proc'[p].pc \in {"look", "materialize"} =>
           \E i \in intents' : i.of = proc'[p].of /\ i.source = proc'[p].source,
         \A a \in Allocations : head'[a] > 0 =>
           \/ head[a] > 0 /\ base'[a] = base[a]
           \/ \E i \in intents' : i.of = a /\ i.source = base'[a]
  PROVE  Traced'
<1>1. Announced'
  BY DEF Traced, Announced
<1>2. BranchesFromIntents'
  BY DEF Traced, BranchesFromIntents
<1> QED
  BY <1>1, <1>2 DEF Traced

\* After ensure_work_item_intent there is an intent for what was asked.
LEMMA EnsureTraced ==
  ASSUME Typed, Traced, NEW p \in Processes, EnsureIntent(p)
  PROVE  Traced'
<1> DEFINE k == proc[p].key
           a == proc[p].of
           source == proc[p].source
<1>1. /\ UNCHANGED <<head, base>>
      /\ \/ KeyTaken(k, a, source) /\ Return(p) /\ UNCHANGED intents
         \/ /\ ~KeyTaken(k, a, source) /\ Goto(p, "look")
            /\ intents' = IF Sent(k) THEN intents ELSE intents \cup {Intent(k, a, source)}
  BY DEF EnsureIntent, disk
<1>2. CASE Return(p) /\ UNCHANGED intents
  <2>1. proc'[p].pc = "idle"
    BY <1>2, ReturnFields
  <2> QED
    BY <1>1, <1>2, <2>1, ReturnFields, KeptTraced
       DEF Traced, BranchesFromIntents
<1>3. CASE /\ ~KeyTaken(k, a, source) /\ Goto(p, "look")
           /\ intents' = IF Sent(k) THEN intents ELSE intents \cup {Intent(k, a, source)}
  <2>1. proc'[p].of = a /\ proc'[p].source = source
    BY <1>3, GotoFields
  <2>2. \E i \in intents' : i.of = a /\ i.source = source
    <3>1. CASE Sent(k)
      BY <1>3, <3>1 DEF Sent, KeyTaken
    <3>2. CASE ~Sent(k)
      <4>1. Intent(k, a, source).of = a /\ Intent(k, a, source).source = source
        BY DEF Intent
      <4> QED
        BY <1>3, <3>2, <4>1
    <3> QED
      BY <3>1, <3>2
  <2>3. intents \subseteq intents'
    BY <1>3
  <2> QED
    BY <1>1, <1>3, <2>1, <2>2, <2>3, GotoFields, KeptTraced
<1> QED
  BY <1>1, <1>2, <1>3

\* A worktree is created for the intent that the process has.
LEMMA AddTraced ==
  ASSUME Typed, Traced, NEW p \in Processes, Materialize(p), AddWorktree(p, proc[p].of)
  PROVE  Traced'
<1> DEFINE a == proc[p].of
<1>1. /\ a \in Allocations /\ a \in Checkouts /\ UNCHANGED intents
      /\ \E i \in intents : i.of = a /\ i.source = proc[p].source
  BY DEF Materialize, At, Typed, Roles, PreparePhases, Traced, Announced, database, Checkouts
<1>2. Judge(p, "own", head'[a])
  BY DEF AddWorktree
<1>3. /\ proc'[p].pc \in {"persist", "missing", "idle"}
      /\ \A q \in Processes \ {p} : proc'[q] = proc[q]
  <2>1. CASE proc'[p].pc = "persist"
    BY <1>2, <2>1, JudgeFields
  <2>2. CASE Return(p)
    BY <2>2, ReturnFields
  <2>3. CASE Goto(p, "missing")
    BY <2>3, GotoFields
  <2> QED
    BY <1>2, <2>1, <2>2, <2>3, JudgeFields
<1>4. CASE UNCHANGED <<head, base>>
  BY <1>1, <1>3, <1>4, KeptTraced DEF Traced, BranchesFromIntents
<1>5. CASE head' = [head EXCEPT ![a] = 1] /\ base' = [base EXCEPT ![a] = proc[p].source]
  <2>1. \A b \in Allocations : head'[b] > 0 =>
          \/ head[b] > 0 /\ base'[b] = base[b]
          \/ \E i \in intents' : i.of = b /\ i.source = base'[b]
    BY <1>1, <1>5 DEF Typed, TypeOK, Checkouts
  <2> QED
    BY <1>1, <1>3, <2>1, KeptTraced
<1> QED
  BY <1>4, <1>5 DEF AddWorktree

\* Every step keeps the trace.
LEMMA NextTraced == Typed /\ Traced /\ [Next]_vars => Traced'
<1> SUFFICES ASSUME Typed, Traced, [Next]_vars PROVE Traced'
  OBVIOUS
<1>1. ASSUME NEW p \in Processes, UNCHANGED <<head, base, intents>>,
             \A q \in Processes \ {p} : proc'[q] = proc[q],
             \/ proc'[p].pc \notin {"look", "materialize"}
             \/ /\ proc[p].pc \in {"look", "materialize"}
                /\ proc'[p].of = proc[p].of /\ proc'[p].source = proc[p].source
      PROVE  Traced'
  BY <1>1, KeptTraced DEF Traced, Announced, BranchesFromIntents
<1>2. ASSUME NEW p \in Processes, UNCHANGED <<head, base, intents>>,
             \/ Return(p)
             \/ \E pc : Goto(p, pc) /\ (pc \notin {"look", "materialize"} \/ At(p, "look"))
             \/ Refused(p)
             \/ \E at, oid : Judge(p, at, oid)
      PROVE  Traced'
  <2>1. CASE Return(p)
    BY <1>1, <1>2, <2>1, ReturnFields
  <2>2. ASSUME NEW pc, Goto(p, pc), pc \notin {"look", "materialize"} \/ At(p, "look")
        PROVE  Traced'
    BY <1>1, <1>2, <2>2, GotoFields DEF At
  <2>3. CASE Refused(p)
    BY <2>1, <2>2, <2>3 DEF Refused
  <2>4. ASSUME NEW at, NEW oid, Judge(p, at, oid)
        PROVE  Traced'
    <3>1. CASE proc'[p].pc = "persist"
      BY <1>1, <1>2, <2>4, <3>1, JudgeFields
    <3>2. CASE Return(p) \/ Goto(p, "missing")
      BY <2>1, <2>2, <3>2
    <3> QED
      BY <2>4, <3>1, <3>2, JudgeFields
  <2> QED
    BY <1>2, <2>1, <2>2, <2>3, <2>4
<1>3. ASSUME NEW p \in Processes,
             \/ \E a \in Allocations, k \in Keys \cup {Fresh} : BeginPrepare(p, a, k)
             \/ \E c \in Checkouts : BeginReconcile(p, c)
             \/ ReadReadiness(p)
      PROVE  Traced'
  <2>1. /\ UNCHANGED <<head, base, intents>>
        /\ proc'[p].pc \notin {"look", "materialize"}
        /\ \A q \in Processes \ {p} : proc'[q] = proc[q]
    <3>1. ASSUME NEW a \in Allocations, NEW k \in Keys \cup {Fresh}, BeginPrepare(p, a, k)
          PROVE  proc'[p].pc = "parent"
      BY <3>1 DEF BeginPrepare, Typed, TypeOK, Idle
    <3>2. ASSUME NEW c \in Checkouts, BeginReconcile(p, c)
          PROVE  proc'[p].pc = "resolve"
      BY <3>2 DEF BeginReconcile, Typed, TypeOK, Idle
    <3>3. CASE ReadReadiness(p)
      <4>1. proc'[p].pc \in {"intent", "writer"}
        BY <3>3 DEF ReadReadiness, Typed, TypeOK, Calls
      <4> QED
        BY <3>3, <4>1 DEF ReadReadiness, Typed, TypeOK, disk, database
    <3> QED
      BY <1>3, <3>1, <3>2, <3>3 DEF BeginPrepare, BeginReconcile, Typed, TypeOK, disk, database
  <2> QED
    BY <1>1, <2>1
<1>4. ASSUME NEW p \in Processes,
             ResolveParent(p) \/ RejectActiveWriter(p) \/ FailGit(p) \/ Crash(p)
      PROVE  Traced'
  BY <1>2, <1>4 DEF ResolveParent, RejectActiveWriter, FailGit, Crash, disk, database
<1>5. ASSUME NEW p \in Processes, LookAtTarget(p)
      PROVE  Traced'
  BY <1>2, <1>5 DEF LookAtTarget, disk, database
<1>6. ASSUME NEW p \in Processes, Materialize(p)
      PROVE  Traced'
  BY <1>2, <1>6, AddTraced DEF Materialize, RefuseWorktree, database
<1>7. ASSUME NEW p \in Processes, Persist(p) \/ RecordUnavailable(p) \/ Record(p)
      PROVE  Traced'
  BY <1>2, <1>7 DEF Persist, RecordUnavailable, Record, disk
<1>8. ASSUME NEW p \in Processes, Resolve(p)
      PROVE  Traced'
  <2>1. CASE Goto(p, "missing")
    BY <1>2, <1>8, <2>1 DEF Resolve, disk, database
  <2>2. CASE ~Goto(p, "missing")
    <3>1. /\ UNCHANGED <<head, base, intents>>
          /\ proc'[p].pc = "record" /\ \A q \in Processes \ {p} : proc'[q] = proc[q]
      BY <1>8, <2>2 DEF Resolve, Typed, TypeOK, Calls, disk, database
    <3> QED
      BY <1>1, <3>1
  <2> QED
    BY <2>1, <2>2
<1>9. CASE \/ UNCHANGED vars
           \/ \E c \in Checkouts : Tamper(c)
           \/ \E a \in Allocations : BindWriter(a) \/ ReleaseWriter(a)
  <2>1. UNCHANGED <<head, base, intents, proc>>
    BY <1>9 DEF vars, Tamper, BindWriter, ReleaseWriter, database, disk
  <2> QED
    BY <2>1 DEF Traced, Announced, BranchesFromIntents
<1>10. ASSUME NEW c \in Checkouts, CommitWork(c)
       PROVE  Traced'
  <2>1. UNCHANGED <<base, intents, proc>>
    BY <1>10 DEF CommitWork, database
  <2>2. head[c] > 0
    BY <1>10 DEF CommitWork, Typed, TypeOK, NeedBranch, Worktrees
  <2>3. \A a \in Allocations : head'[a] > 0 => head[a] > 0
    BY <1>10, <2>2 DEF CommitWork, Typed, TypeOK, Checkouts
  <2> QED
    BY <2>1, <2>3 DEF Traced, Announced, BranchesFromIntents
<1> QED
  BY <1>3, <1>4, <1>5, <1>6, <1>7, <1>8, <1>9, <1>10, EnsureTraced DEF Next, Step, Environment

\* materialize_checkout is not called before ensure_work_item_intent, and every branch
\* starts at the very revision that an intent for it names, although the Feature
\* checkout moves and callers send a key again.
THEOREM BranchesStartFromIntents == Spec => []BranchesFromIntents
<1>1. Init => Typed /\ Traced
  BY InitTyped, InitTraced
<1>2. Typed /\ Traced /\ [Next]_vars => (Typed /\ Traced)'
  BY NextTyped, NextTraced
<1>3. Typed /\ Traced => BranchesFromIntents
  BY DEF Traced
<1> QED
  BY <1>1, <1>2, <1>3, PTL DEF Spec

-----------------------------------------------------------------------------
(* What people put in the way.                                             *)

\* Neither materialize_checkout nor any other step touches a path at which there is
\* something, even if it was free when LookAtTarget looked.
THEOREM OccupiedStaysUntouched == Spec => OccupiedIsUntouched
<1> DEFINE A == (\E p \in Processes : Step(p)) =>
                  \A c \in Checkouts : place[c] \notin {"absent", "empty"} => place'[c] = place[c]
<1>1. ASSUME Typed, NEW p \in Processes, Step(p)
      PROVE  \A c \in Checkouts : place[c] \notin {"absent", "empty"} => place'[c] = place[c]
  <2>1. CASE Materialize(p)
    <3>1. UNCHANGED place \/ (Free(proc[p].of) /\ \E at : place' = [place EXCEPT ![proc[p].of] = at])
      BY <2>1 DEF Materialize, AddWorktree, RefuseWorktree
    <3> QED
      BY <1>1, <3>1 DEF Free, Typed, TypeOK
  <2>2. CASE UNCHANGED place
    BY <2>2
  <2> QED
    BY <1>1, <2>1, <2>2
       DEF Step, ResolveParent, ReadReadiness, RejectActiveWriter, EnsureIntent, LookAtTarget,
           Persist, RecordUnavailable, Resolve, Record, disk
<1>2. Typed /\ [Next]_vars => [A]_vars
  BY <1>1
<1> QED
  BY <1>2, InitTyped, NextTyped, PTL DEF Spec, OccupiedIsUntouched

-----------------------------------------------------------------------------
(* Retries.                                                                *)

\* A preparation or reconciliation of a checkout in order begins well placed.
LEMMA BeginWellPlaced ==
  ASSUME Typed, NEW p \in Processes
  PROVE  /\ \A a \in Allocations, k \in Keys \cup {Fresh} :
              BeginPrepare(p, a, k) /\ InOrder(a) /\ k = Fresh => WellPlaced(p)'
         /\ \A c \in Checkouts :
              BeginReconcile(p, c) /\ AsRecorded(c) => WellPlaced(p)'
<1>1. ASSUME NEW a \in Allocations, BeginPrepare(p, a, Fresh), InOrder(a)
      PROVE  WellPlaced(p)'
  <2>1. /\ proc'[p].pc = "parent" /\ proc'[p].of = a /\ proc'[p].key = Fresh
        /\ proc'[p].source = feature.head
        /\ UNCHANGED <<disk, database>>
    BY <1>1 DEF BeginPrepare, Typed, TypeOK, Idle
  <2>2. Unhindered(p)'
    BY <1>1, <2>1 DEF Unhindered, InOrder, AsRecorded, disk, database
  <2>3. place'[Feature] = "own" /\ head'[Feature] = proc'[p].source
    BY <1>1, <2>1 DEF InOrder, disk
  <2> QED
    BY <2>1, <2>2, <2>3 DEF WellPlaced, Phases, SeenPhases
<1>2. ASSUME NEW c \in Checkouts, BeginReconcile(p, c), AsRecorded(c)
      PROVE  WellPlaced(p)'
  <2>1. /\ proc'[p].pc = "resolve" /\ proc'[p].of = c
        /\ proc'[p].current = IF c = Feature THEN NoReadiness ELSE readiness[c]
        /\ UNCHANGED <<disk, database>>
    BY <1>2 DEF BeginReconcile, Typed, TypeOK, Idle
  <2>2. UpToDate(p)' /\ Acceptable(proc'[p].current, place'[c])
    BY <1>2, <2>1, ConstantTypes DEF UpToDate, AsRecorded, disk, database
  <2> QED
    BY <2>1, <2>2 DEF WellPlaced, Phases, PreparePhases, SeenPhases
<1> QED
  BY <1>1, <1>2

\* A row that is written by a process that read the recorded one is written.
LEMMA CurrentIsWritten ==
  ASSUME Typed, Generations, NEW p \in Processes, proc[p].of \in Allocations, UpToDate(p),
         NEW row \in ReadinessRows, WriteReadiness(p, row)
  PROVE  /\ readiness'[proc[p].of].availability = row.availability
         /\ readiness'[proc[p].of].head = row.head
<1> DEFINE a == proc[p].of
           n == proc[p].current.generation + 1
<1>1. proc[p].current = readiness[a] /\ readiness[a].generation \in Nat
  BY CallTypes DEF UpToDate
<1>2. events[a] = 1..readiness[a].generation
  BY DEF Generations, EveryGenerationRecorded
<1>3. n \notin events[a]
  BY <1>1, <1>2
<1>4. readiness' = [readiness EXCEPT ![a] = [row EXCEPT !.generation = n]]
  BY <1>3 DEF WriteReadiness, Unrecorded
<1>5. readiness'[a] = [row EXCEPT !.generation = n]
  BY <1>4 DEF Typed, TypeOK
<1> QED
  BY <1>5 DEF ReadinessRows

\* The look of a process that is alone finds the worktree or a free path.
LEMMA LookWellPlaced ==
  ASSUME Typed, NEW p \in Processes, WellPlaced(p), LookAtTarget(p)
  PROVE  WellPlaced(p)'
<1> DEFINE a == proc[p].of
<1>1. /\ a \in Allocations /\ a \in Checkouts /\ a # Feature /\ UNCHANGED <<disk, database>>
      /\ Unhindered(p) /\ proc[p].current = readiness[a]
  BY ConstantTypes
     DEF LookAtTarget, At, Typed, Roles, PreparePhases, WellPlaced, UpToDate, Checkouts
<1>2. CASE AsRecorded(a)
  <2>1. Acceptable(proc[p].current, place[a]) /\ place[a] \in {"own", "replaced"}
    BY <1>1, <1>2 DEF AsRecorded, Acceptable
  <2>2. Judge(p, place[a], head[a])
    BY <2>1 DEF LookAtTarget, Worktrees
  <2>3. /\ proc'[p].pc = "persist" /\ proc'[p].of = a /\ proc'[p].current = proc[p].current
        /\ proc'[p].seen = [at |-> place[a], head |-> head[a]]
    BY <2>1, <2>2, JudgeFields, Zenon
  <2> QED
    BY <1>1, <2>1, <2>3 DEF WellPlaced, UpToDate, Phases, disk, database
<1>3. CASE ~AsRecorded(a)
  <2>1. place[a] \in {"absent", "empty"}
    BY <1>1, <1>3 DEF Unhindered
  <2>2. Goto(p, "materialize")
    BY <2>1 DEF LookAtTarget, Worktrees
  <2>3. Unhindered(p)'
    BY <1>1, <2>2, GotoFields DEF Unhindered, AsRecorded, disk, database
  <2>4. UpToDate(p)'
    BY <1>1, <2>2, GotoFields DEF UpToDate, database
  <2> QED
    BY <1>1, <2>1, <2>2, <2>3, <2>4, GotoFields DEF WellPlaced, Phases, SeenPhases, disk
<1> QED
  BY <1>2, <1>3

\* The Git command of a process that is alone succeeds, if no branch is in the way.
LEMMA MaterializeWellPlaced ==
  ASSUME OneKind, Typed, Generations, NEW p \in Processes, WellPlaced(p), Materialize(p)
  PROVE  WellPlaced(p)'
<1> DEFINE a == proc[p].of
<1>1. /\ a \in Allocations /\ a \in Checkouts /\ a # Feature /\ UNCHANGED database
      /\ Unhindered(p) /\ proc[p].current = readiness[a]
      /\ place[a] \in {"absent", "empty"}
  BY ConstantTypes
     DEF Materialize, At, Typed, Roles, PreparePhases, WellPlaced, UpToDate, Checkouts
<1>2. AddWorktree(p, a)
  BY <1>1 DEF Materialize, RefuseWorktree, Free, BranchPossible, Shadows, OneKind
<1>3. place'[a] = "own" /\ Judge(p, "own", head'[a])
  BY <1>1, <1>2 DEF AddWorktree, Typed, TypeOK
<1>4. readiness[a].identity # "other"
  BY <1>1 DEF Unhindered, AsRecorded, Acceptable
<1>5. readiness[a] = NoReadiness \/ readiness[a].identity = "own"
  <2>1. readiness[a].generation = 0 \/ readiness[a].generation > 0
    BY <1>1, CallTypes
  <2>2. readiness[a].identity \in {"none", "own", "other"}
    BY <1>1, CallTypes DEF ReadinessRows
  <2> QED
    BY <1>1, <1>4, <2>1, <2>2 DEF Generations, Rows
<1>6. Acceptable(proc[p].current, "own")
  BY <1>1, <1>5 DEF Acceptable, Identity
<1>7. /\ proc'[p].pc = "persist" /\ proc'[p].of = a /\ proc'[p].current = proc[p].current
      /\ proc'[p].seen = [at |-> "own", head |-> head'[a]]
  BY <1>3, <1>6, JudgeFields, Zenon
<1> QED
  BY <1>1, <1>3, <1>7 DEF WellPlaced, UpToDate, Phases, database

\* A step of a process that is alone leaves it well placed, or ends its call after what
\* is recorded is true.
LEMMA StepWellPlaced ==
  ASSUME OneKind, Typed, Generations, NEW p \in Processes, WellPlaced(p), Step(p)
  PROVE  \/ WellPlaced(p)'
         \/ Return(p) /\ \A c \in Checkouts : c = proc[p].of => Truthful(c)'
<1> DEFINE a == proc[p].of
<1>0. a \in Checkouts /\ (a # Feature => a \in Allocations)
  BY CallTypes DEF Checkouts
<1>1. CASE ResolveParent(p)
  <2>1. Goto(p, "readiness") /\ UNCHANGED <<disk, database>> /\ Unhindered(p)
    BY <1>1 DEF ResolveParent, WellPlaced, At, PreparePhases
  <2>2. Unhindered(p)'
    BY <2>1, GotoFields DEF Unhindered, AsRecorded, disk, database
  <2> QED
    BY <2>1, <2>2, GotoFields DEF WellPlaced, Phases, SeenPhases
<1>2. CASE ReadReadiness(p)
  <2>1. /\ proc'[p].of = a /\ proc'[p].current = readiness[a] /\ proc'[p].key = proc[p].key
        /\ proc'[p].pc \in {"intent", "writer"}
        /\ UNCHANGED <<disk, database>> /\ Unhindered(p)
    BY <1>2 DEF ReadReadiness, Typed, TypeOK, Calls, WellPlaced, At, PreparePhases
  <2>2. Unhindered(p)' /\ UpToDate(p)'
    BY <2>1 DEF Unhindered, UpToDate, AsRecorded, disk, database
  <2> QED
    BY <2>1, <2>2 DEF WellPlaced, Phases, SeenPhases
<1>3. CASE RejectActiveWriter(p)
  <2>1. Unhindered(p) /\ UpToDate(p)
    BY <1>3 DEF RejectActiveWriter, WellPlaced, At, PreparePhases
  <2>2. Goto(p, "intent") /\ UNCHANGED <<disk, database>>
    BY <1>3, <2>1 DEF RejectActiveWriter, Unhindered
  <2>3. Unhindered(p)' /\ UpToDate(p)'
    BY <2>1, <2>2, GotoFields DEF Unhindered, UpToDate, AsRecorded, disk, database
  <2> QED
    BY <2>2, <2>3, GotoFields DEF WellPlaced, Phases, SeenPhases
<1>4. CASE EnsureIntent(p)
  <2>1. Unhindered(p) /\ UpToDate(p)
    BY <1>4 DEF EnsureIntent, WellPlaced, At, PreparePhases
  <2>2. ~KeyTaken(proc[p].key, a, proc[p].source)
    BY <2>1 DEF KeyTaken, Unhindered
  <2>3. Goto(p, "look") /\ UNCHANGED <<place, head, base, readiness, writers>>
    BY <1>4, <2>2 DEF EnsureIntent, disk
  <2>4. Unhindered(p)' /\ UpToDate(p)'
    BY <2>1, <2>3, GotoFields DEF Unhindered, UpToDate, AsRecorded
  <2> QED
    BY <2>3, <2>4, GotoFields DEF WellPlaced, Phases, SeenPhases
<1>5. CASE LookAtTarget(p) \/ Materialize(p)
  BY <1>5, LookWellPlaced, MaterializeWellPlaced
<1>6. CASE Persist(p)
  <2> DEFINE row == [Observed(p, proc[p].current) EXCEPT !.identity = Identity(proc[p].seen.at)]
  <2>1. /\ a \in Allocations /\ a # Feature /\ UpToDate(p) /\ UNCHANGED disk
        /\ place[a] \in {"own", "replaced"} /\ proc[p].seen.head = head[a]
    BY <1>6, ConstantTypes
       DEF Persist, At, Typed, Roles, PreparePhases, SeenPhases, WellPlaced
  <2>2. /\ row \in ReadinessRows /\ row.head = proc[p].seen.head
        /\ row.availability = "available"
    BY ObservedTypes
  <2>3. WriteReadiness(p, row) /\ Return(p)
    BY <1>6 DEF Persist
  <2> HIDE DEF row
  <2>4. readiness'[a].availability = "available" /\ readiness'[a].head = head[a]
    BY <2>1, <2>2, <2>3, CurrentIsWritten
  <2> QED
    BY <1>0, <2>1, <2>3, <2>4 DEF Truthful, disk
<1>7. CASE RecordUnavailable(p)
  BY <1>7 DEF RecordUnavailable, At, WellPlaced
<1>8. CASE Resolve(p)
  <2>1. /\ Acceptable(proc[p].current, place[a]) /\ UpToDate(p) /\ UNCHANGED <<disk, database>>
    BY <1>8 DEF Resolve, At, WellPlaced
  <2>2. /\ proc'[p].pc = "record" /\ proc'[p].of = a /\ proc'[p].current = proc[p].current
        /\ proc'[p].seen = [at |-> place[a], head |-> head[a]]
    BY <1>8, <2>1, CallTypes DEF Resolve, Typed, TypeOK, Calls
  <2> QED
    BY <2>1, <2>2
       DEF WellPlaced, UpToDate, Acceptable, Phases, PreparePhases, disk, database
<1>9. CASE Record(p)
  <2>1. /\ UpToDate(p) /\ UNCHANGED disk /\ Return(p)
        /\ place[a] \in {"own", "replaced"} /\ proc[p].seen.head = head[a]
    BY <1>9 DEF Record, At, SeenPhases, WellPlaced
  <2>2. CASE a = Feature
    BY <1>0, <1>9, <2>1, <2>2 DEF Record, Truthful, disk
  <2>3. CASE a # Feature
    <3> DEFINE row == Observed(p, proc[p].current)
    <3>1. /\ row \in ReadinessRows /\ row.head = proc[p].seen.head
          /\ row.availability = "available"
      BY ObservedTypes
    <3>2. WriteReadiness(p, row)
      BY <1>9, <2>3 DEF Record
    <3> HIDE DEF row
    <3>3. readiness'[a].availability = "available" /\ readiness'[a].head = head[a]
      BY <1>0, <2>1, <2>3, <3>1, <3>2, CurrentIsWritten
    <3> QED
      BY <1>0, <2>1, <2>3, <3>3 DEF Truthful, disk
  <2> QED
    BY <2>2, <2>3
<1> QED
  BY <1>1, <1>2, <1>3, <1>4, <1>5, <1>6, <1>7, <1>8, <1>9 DEF Step

\* Every step keeps those that are alone well placed, and ends no call of theirs before
\* what is recorded is true.
LEMMA NextAlone ==
  ASSUME OneKind, Typed, Generations, Alone, [Next]_vars
  PROVE  Alone' /\ \A p \in Processes : SucceedsAlone(p)
<1>1. ASSUME NEW q \in alone, proc'[q] = proc[q] PROVE SucceedsAlone(q)
  BY <1>1 DEF SucceedsAlone, At, Alone, WellPlaced
<1>2. CASE UNCHANGED vars
  <2>1. Alone'
    BY <1>2
       DEF Alone, WellPlaced, Unhindered, UpToDate, AsRecorded, Acceptable, vars
  <2>2. ASSUME NEW p \in Processes PROVE SucceedsAlone(p)
    BY <1>1, <1>2 DEF SucceedsAlone, vars
  <2> QED
    BY <2>1, <2>2
<1>3. CASE Environment /\ alone' = {}
  <2>1. CASE faults' = faults + 1
    BY <1>3, <2>1, AllocationAssumption DEF Alone, SucceedsAlone, Typed, TypeOK
  <2>2. CASE UNCHANGED proc
    BY <1>1, <1>3, <2>2 DEF Alone, SucceedsAlone
  <2> QED
    BY <1>3, <2>1, <2>2
       DEF Environment, CommitWork, Tamper, BindWriter, ReleaseWriter, FailGit, Crash
<1>4. ASSUME NEW p \in Processes, NEW a \in Allocations, NEW k \in Keys \cup {Fresh},
             BeginPrepare(p, a, k), alone' = IF InOrder(a) /\ k = Fresh THEN {p} ELSE {}
      PROVE  Alone' /\ \A q \in Processes : SucceedsAlone(q)
  <2>1. Alone'
    BY <1>4, BeginWellPlaced DEF Alone
  <2>2. p \notin alone /\ \A q \in Processes \ {p} : proc'[q] = proc[q]
    BY <1>4 DEF BeginPrepare, At, Alone, WellPlaced, Typed, TypeOK
  <2> QED
    BY <1>1, <2>1, <2>2 DEF SucceedsAlone
<1>5. ASSUME NEW p \in Processes, NEW c \in Checkouts,
             BeginReconcile(p, c), alone' = IF AsRecorded(c) THEN {p} ELSE {}
      PROVE  Alone' /\ \A q \in Processes : SucceedsAlone(q)
  <2>1. Alone'
    BY <1>5, BeginWellPlaced DEF Alone
  <2>2. p \notin alone /\ \A q \in Processes \ {p} : proc'[q] = proc[q]
    BY <1>5 DEF BeginReconcile, At, Alone, WellPlaced, Typed, TypeOK
  <2> QED
    BY <1>1, <2>1, <2>2 DEF SucceedsAlone
<1>6. ASSUME NEW p \in Processes, Step(p),
             alone' = IF p \in alone /\ proc'[p] # Idle THEN {p} ELSE {}
      PROVE  Alone' /\ \A q \in Processes : SucceedsAlone(q)
  <2>1. \A q \in Processes \ {p} : proc'[q] = proc[q]
    BY <1>6, GotoFields, ReturnFields, JudgeFields
       DEF Step, ResolveParent, ReadReadiness, RejectActiveWriter, EnsureIntent, LookAtTarget,
           Refused, Materialize, AddWorktree, RefuseWorktree, Persist, RecordUnavailable, Resolve,
           Record, Typed, TypeOK
  <2>2. p \in alone =>
          \/ WellPlaced(p)'
          \/ proc'[p] = Idle /\ \A c \in Checkouts : c = proc[p].of => Truthful(c)'
    BY <1>6, StepWellPlaced, ReturnFields DEF Alone
  <2>3. Alone'
    BY <1>6, <2>2 DEF Alone
  <2>4. SucceedsAlone(p)
    BY <2>2 DEF SucceedsAlone, WellPlaced, At
  <2> QED
    BY <1>1, <2>1, <2>3, <2>4 DEF SucceedsAlone
<1> QED
  BY <1>2, <1>3, <1>4, <1>5, <1>6 DEF Next

\* Whatever crashes, failures and rivals left behind, a preparation or reconciliation of
\* a checkout that is in order succeeds when nothing interferes, and what it records is
\* true, provided that no item has a primary checkout and an additional one.
THEOREM RetriesSucceed == OneKind /\ Spec => RetrySucceeds
<1> SUFFICES ASSUME OneKind PROVE Spec => RetrySucceeds
  OBVIOUS
<1>1. Init => Typed /\ Generations /\ Alone
  BY InitTyped, InitGenerations DEF Init, Alone
<1>2. Typed /\ Generations /\ Alone /\ [Next]_vars => (Typed /\ Generations /\ Alone)'
  BY NextTyped, NextGenerations, NextAlone
<1>3. Typed /\ Generations /\ Alone /\ [Next]_vars => [\A p \in Processes : SucceedsAlone(p)]_vars
  BY NextAlone
<1> QED
  BY <1>1, <1>2, <1>3, PTL DEF Spec, RetrySucceeds
=============================================================================
