----------------------- MODULE FeatureIntegrationProofs ------------------------
(***************************************************************************)
(* Proofs about the integration of a Feature, for every set of Items,      *)
(* repositories, runs and processes and every bound.                       *)
(*                                                                         *)
(* Any number of processes may execute one run, each with the steps as it  *)
(* read them.  What keeps the record of a run true is that a step leaves   *)
(* "pending" once, for good, that a process goes past a step only when it  *)
(* has left it, and that a failure ends all steps that are left at once.   *)
(*                                                                         *)
(* That no item is forgotten needs more: a process that runs alone.  It    *)
(* has still to come to every step of an item that could be completed.     *)
(***************************************************************************)
EXTENDS MCIntegrationScenarios, SequenceTheorems, TLAPS

\* The states of a process that goes through the steps, and that works on one.
Stepping == {"source", "resolve", "contains", "merge", "complete", "finish", "failstep"}
Walking == {"early", "preflight", "candidate", "closing"} \cup Stepping

RunType == [status : RunStatuses, repository : Repositories \cup {"none"}, steps : Seq(RunSteps)]
ProcessType == [pc : Phases \cup {"idle"}, run : Runs \cup {"none"}, seen : Seq(RunSteps),
                pos : Nat, result : Nat]
Row == [status : IntegrationStatuses, head : 0..MaxHead]

\* TypeOK, with rows that exist having a head.
Typed ==
  /\ status \in [Items -> WorkItemStatuses]
  /\ interrupted \in [Items -> {"no", "stuck"} \cup Runs]
  /\ integrations \in [Items -> [Repositories -> Row]]
  /\ \A d \in Items, r \in Repositories :
       integrations[d][r].status # "absent" => integrations[d][r].head # 0
  /\ sourceHead \in [Items -> [Repositories -> 1..MaxHead]]
  /\ branch \in [Items -> [Repositories -> 1..MaxHead]]
  /\ target \in [Repositories -> Seq(Commits)]
  /\ recorded \in [Repositories -> Nat]
  /\ merging \in [Repositories -> Commits \cup {NoCommit}]
  /\ runs \in [Runs -> RunType]
  /\ proc \in [Processes -> ProcessType]
  /\ drift \in 0..MaxDrift
  /\ faults \in 0..MaxFaults

\* A list of commits has a head of an item.
Has(commits, d, head) ==
  \E i \in DOMAIN commits : commits[i].item = d /\ commits[i].head >= head

\* The steps of a run, or as they were read before: a step that was not pending
\* is not pending any more.
SameSteps(s, t) ==
  /\ Len(s) = Len(t)
  /\ \A i \in 1..Len(s) : /\ s[i].item = t[i].item /\ s[i].head = t[i].head
                          /\ s[i].status # "pending" => t[i].status # "pending"

\* A run, with targets T: its steps are in order, what is integrated is merged,
\* and comes before what is not, and nothing is pending after a failure.
RunOK(run, T) ==
  /\ run.status = "absent" => run.steps = <<>>
  /\ run.status # "absent" => run.repository \in Repositories
  /\ run.status \in {"previewed", "running"} =>
       \A i \in 1..Len(run.steps) : run.steps[i].status \in {"pending", "integrated"}
  /\ run.status = "completed" =>
       \A i \in 1..Len(run.steps) : run.steps[i].status = "integrated"
  /\ \A i, j \in 1..Len(run.steps) : i < j =>
       /\ Before(run.steps[i].item, run.steps[j].item)
       /\ run.steps[j].status = "integrated" => run.steps[i].status = "integrated"
       /\ run.steps[i].status \in {"conflict", "skipped"} => run.steps[j].status # "pending"
  /\ \A i \in 1..Len(run.steps) : run.steps[i].status = "integrated" =>
       Has(T[run.repository], run.steps[i].item, run.steps[i].head)

\* A process, with runs R and targets T.
ProcessOK(c, R, T) ==
  c.pc # "idle" =>
    LET run == R[c.run]
        ended(j) == run.steps[j].status # "pending"
    IN  /\ c.run \in Runs /\ run.status # "absent"
        /\ c.pc # "load" => SameSteps(c.seen, run.steps)
        /\ c.pc \in Walking => c.pos >= 1
        /\ c.pc \in Stepping => c.pos <= Len(c.seen)
        /\ c.pc \in {"candidate"} \cup Stepping => \A j \in 1..Len(c.seen) : j < c.pos => ended(j)
        /\ c.pc = "finish" => ended(c.pos)
        /\ c.pc \in {"closing", "seal"} => \A j \in 1..Len(c.seen) : ended(j)
        /\ c.pc = "complete" => Has(T[run.repository], c.seen[c.pos].item, c.seen[c.pos].head)

RunsOK == \A k \in Runs : RunOK(runs[k], target)
ProcessesOK == \A p \in Processes : ProcessOK(proc[p], runs, target)

\* The rows that were queued for the steps of a run.
RowsExist ==
  \A k \in Runs : \A i \in 1..Len(runs[k].steps) :
    integrations[runs[k].steps[i].item][runs[k].repository].head # 0

\* The inductive invariant.
IntegrationInv == Typed /\ RunsOK /\ ProcessesOK /\ RowsExist

-----------------------------------------------------------------------------
(* Runs and targets only grow.                                             *)

\* What later runs and targets keep of earlier ones.
RunsGrow(R, S) ==
  \A k \in Runs : R[k].status # "absent" =>
    /\ S[k].status # "absent" /\ S[k].repository = R[k].repository
    /\ SameSteps(R[k].steps, S[k].steps)
TargetsGrow(T, U) ==
  \A r \in Repositories : \A d, head : Has(T[r], d, head) => Has(U[r], d, head)

\* The steps of a run stay the same when they stay the same twice.
LEMMA SameTwice ==
  ASSUME NEW s, NEW t, NEW u, SameSteps(s, t), SameSteps(t, u)
  PROVE  SameSteps(s, u)
BY DEF SameSteps

\* What a process knows stays true.
LEMMA ProcessStays ==
  ASSUME NEW R, NEW S, RunsGrow(R, S), NEW T, NEW U, TargetsGrow(T, U),
         NEW c \in ProcessType, ProcessOK(c, R, T),
         \A k \in Runs : R[k].status # "absent" => R[k].repository \in Repositories
  PROVE  ProcessOK(c, S, U)
<1> SUFFICES ASSUME c.pc # "idle" PROVE ProcessOK(c, S, U)
  BY DEF ProcessOK
<1> DEFINE k == c.run
<1>1. k \in Runs /\ R[k].status # "absent" /\ R[k].repository \in Repositories
  BY DEF ProcessOK
<1>2. S[k].status # "absent" /\ S[k].repository = R[k].repository /\ SameSteps(R[k].steps, S[k].steps)
  BY <1>1 DEF RunsGrow
<1>3. c.pc # "load" => SameSteps(c.seen, R[k].steps) /\ SameSteps(c.seen, S[k].steps)
  BY <1>2, SameTwice DEF ProcessOK
<1>4. c.pc # "load" => \A j \in 1..Len(c.seen) :
        R[k].steps[j].status # "pending" => S[k].steps[j].status # "pending"
  BY <1>2, <1>3 DEF SameSteps
<1>5. c.pc \in Stepping => c.pos \in 1..Len(c.seen)
  <2>1. c.pos \in Nat /\ Len(c.seen) \in Nat
    BY DEF ProcessType
  <2> QED
    BY <2>1 DEF ProcessOK, Walking
<1>6. c.pc = "complete" => Has(U[S[k].repository], c.seen[c.pos].item, c.seen[c.pos].head)
  BY <1>1, <1>2 DEF ProcessOK, TargetsGrow
<1>7. c.pc = "finish" => S[k].steps[c.pos].status # "pending"
  BY <1>4, <1>5 DEF ProcessOK, Stepping
<1>8. c.pc \in {"candidate"} \cup Stepping =>
        \A j \in 1..Len(c.seen) : j < c.pos => S[k].steps[j].status # "pending"
  BY <1>4 DEF ProcessOK, Stepping
<1>9. c.pc \in {"closing", "seal"} => \A j \in 1..Len(c.seen) : S[k].steps[j].status # "pending"
  BY <1>4 DEF ProcessOK
<1> QED
  BY <1>1, <1>2, <1>3, <1>6, <1>7, <1>8, <1>9 DEF ProcessOK

\* What RunsOK says of a run that exists.
LEMMA RunExists ==
  ASSUME IntegrationInv
  PROVE  \A k \in Runs : runs[k].status # "absent" => runs[k].repository \in Repositories
BY DEF IntegrationInv, RunsOK, RunOK

\* The processes after a step of one of them ...
LEMMA Acting ==
  ASSUME IntegrationInv, NEW p \in Processes, NEW n \in ProcessType,
         proc' = [proc EXCEPT ![p] = n], ProcessOK(n, runs', target'),
         RunsGrow(runs, runs'), TargetsGrow(target, target')
  PROVE  ProcessesOK' /\ proc' \in [Processes -> ProcessType]
<1>1. proc' \in [Processes -> ProcessType]
  BY DEF IntegrationInv, Typed
<1>2. ASSUME NEW q \in Processes PROVE ProcessOK(proc'[q], runs', target')
  <2>1. CASE q = p
    BY <2>1 DEF IntegrationInv, Typed
  <2>2. CASE q # p
    <3>1. proc'[q] = proc[q] /\ proc[q] \in ProcessType /\ ProcessOK(proc[q], runs, target)
      BY <2>2 DEF IntegrationInv, Typed, ProcessesOK
    <3> QED
      BY <3>1, ProcessStays, RunExists
  <2> QED
    BY <2>1, <2>2
<1> QED
  BY <1>1, <1>2 DEF ProcessesOK

\* ... and after a step of none.
LEMMA NobodyActs ==
  ASSUME IntegrationInv, proc' = proc, RunsGrow(runs, runs'), TargetsGrow(target, target')
  PROVE  ProcessesOK' /\ proc' \in [Processes -> ProcessType]
<1>1. ASSUME NEW q \in Processes PROVE ProcessOK(proc[q], runs', target')
  <2>1. proc[q] \in ProcessType /\ ProcessOK(proc[q], runs, target)
    BY DEF IntegrationInv, Typed, ProcessesOK
  <2> QED
    BY <2>1, ProcessStays, RunExists
<1> QED
  BY <1>1 DEF ProcessesOK, IntegrationInv, Typed

\* Nothing happens to runs, or to targets.
LEMMA Unchanged ==
  ASSUME IntegrationInv
  PROVE  /\ UNCHANGED runs => RunsGrow(runs, runs')
         /\ UNCHANGED target => TargetsGrow(target, target')
BY DEF RunsGrow, TargetsGrow, SameSteps

\* One process goes on, and with it the state of an item at most.
LEMMA OneProcess ==
  ASSUME IntegrationInv,
         UNCHANGED <<integrations, sourceHead, branch, git, recorded, runs, drift>>,
         status' \in [Items -> WorkItemStatuses],
         interrupted' \in [Items -> {"no", "stuck"} \cup Runs], faults' \in 0..MaxFaults,
         NEW p \in Processes, NEW n \in ProcessType, proc' = [proc EXCEPT ![p] = n],
         ProcessOK(n, runs, target)
  PROVE  IntegrationInv'
<1>1. ProcessesOK' /\ proc' \in [Processes -> ProcessType]
  <2>1. runs' = runs /\ target' = target
    BY DEF git
  <2> QED
    BY <2>1, Acting, Unchanged
<1>2. Typed'
  BY <1>1 DEF IntegrationInv, Typed, git
<1>3. RunsOK' /\ RowsExist'
  BY DEF IntegrationInv, RunsOK, RowsExist, git
<1> QED
  BY <1>1, <1>2, <1>3 DEF IntegrationInv

\* A process that is idle again.
LEMMA IdleOK ==
  /\ Idle \in ProcessType
  /\ \A R, T : ProcessOK(Idle, R, T)
<1>1. "idle" \in Phases \cup {"idle"} /\ "none" \in Runs \cup {"none"} /\ <<>> \in Seq(RunSteps) /\ 0 \in Nat
  OBVIOUS
<1>2. Idle \in ProcessType /\ Idle.pc = "idle"
  BY <1>1 DEF Idle, ProcessType
<1> QED
  BY <1>2 DEF ProcessOK

\* What is known of a process that runs.
LEMMA Acts ==
  ASSUME IntegrationInv, NEW p \in Processes, proc[p].pc # "idle"
  PROVE  /\ proc[p] \in ProcessType /\ ProcessOK(proc[p], runs, target)
         /\ proc[p].run \in Runs /\ runs[proc[p].run] \in RunType
         /\ RunOK(runs[proc[p].run], target)
         /\ runs[proc[p].run].status # "absent" /\ Repository(p) \in Repositories
         /\ proc[p].seen \in Seq(RunSteps) /\ Len(proc[p].seen) \in Nat /\ proc[p].pos \in Nat
         /\ proc[p].result \in Nat
         /\ proc[p].pc \in Walking /\ ~AfterLast(p) =>
              proc[p].pos \in 1..Len(proc[p].seen) /\ Seen(p) \in RunSteps
         /\ proc[p].pc \in Stepping =>
              proc[p].pos \in 1..Len(proc[p].seen) /\ Seen(p) \in RunSteps
<1>1. proc[p] \in ProcessType /\ ProcessOK(proc[p], runs, target)
  BY DEF IntegrationInv, Typed, ProcessesOK
<1>2. /\ proc[p].seen \in Seq(RunSteps) /\ Len(proc[p].seen) \in Nat /\ proc[p].pos \in Nat
      /\ proc[p].result \in Nat
  BY <1>1 DEF ProcessType
<1>3. proc[p].run \in Runs /\ runs[proc[p].run].status # "absent"
  BY <1>1 DEF ProcessOK
<1>4. /\ runs[proc[p].run] \in RunType /\ RunOK(runs[proc[p].run], target)
      /\ Repository(p) \in Repositories
  BY <1>3, RunExists DEF IntegrationInv, Typed, RunsOK, Repository
<1>5. proc[p].pc \in Walking /\ ~AfterLast(p) => proc[p].pos \in 1..Len(proc[p].seen)
  BY <1>1, <1>2 DEF ProcessOK, AfterLast
<1>6. proc[p].pc \in Stepping => proc[p].pos \in 1..Len(proc[p].seen)
  BY <1>1, <1>2 DEF ProcessOK, Walking
<1>7. proc[p].pos \in 1..Len(proc[p].seen) => Seen(p) \in RunSteps
  BY <1>2, ElementOfSeq DEF Seen
<1> QED
  BY <1>1, <1>2, <1>3, <1>4, <1>5, <1>6, <1>7

\* A process that goes to another place of the same steps.
LEMMA Going ==
  ASSUME IntegrationInv, NEW p \in Processes, NEW pc \in Phases, NEW pos \in Nat, Goto(p, pc, pos)
  PROVE  \E n \in ProcessType :
           /\ proc' = [proc EXCEPT ![p] = n] /\ n.pc = pc /\ n.pos = pos
           /\ n.run = proc[p].run /\ n.seen = proc[p].seen /\ n.result = proc[p].result
<1> DEFINE n == [proc[p] EXCEPT !.pc = pc, !.pos = pos]
<1>1. proc[p] \in ProcessType
  BY DEF IntegrationInv, Typed
<1>2. /\ n \in ProcessType /\ n.pc = pc /\ n.pos = pos
      /\ n.run = proc[p].run /\ n.seen = proc[p].seen /\ n.result = proc[p].result
  BY <1>1 DEF ProcessType
<1>3. proc' = [proc EXCEPT ![p] = n]
  BY DEF Goto, IntegrationInv, Typed
<1> HIDE DEF n
<1> QED
  BY <1>2, <1>3

-----------------------------------------------------------------------------
(* Steps of processes alone.                                               *)

\* What else does not change when a process goes on, and what may.
Nothing == UNCHANGED <<integrations, sourceHead, branch, git, recorded, runs, drift>>
ItemsTyped ==
  /\ status' \in [Items -> WorkItemStatuses]
  /\ interrupted' \in [Items -> {"no", "stuck"} \cup Runs]
  /\ faults' \in 0..MaxFaults

\* Reading changes nothing.
LEMMA OnlyReads == IntegrationInv /\ Reading => Nothing /\ ItemsTyped
BY DEF IntegrationInv, Typed, Reading, Nothing, ItemsTyped, item

\* The steps before one are not pending.
EndedBefore(p, pos) ==
  \A j \in 1..Len(proc[p].seen) : j < pos => runs[proc[p].run].steps[j].status # "pending"

\* A process may go to pc, at pos.
MayGo(p, pc, pos) ==
  /\ pc \in Walking => pos >= 1
  /\ pc \in Stepping => pos <= Len(proc[p].seen)
  /\ pc \in {"candidate"} \cup Stepping => EndedBefore(p, pos)
  /\ pc = "finish" => runs[proc[p].run].steps[pos].status # "pending"
  /\ pc \in {"closing", "seal"} => EndedBefore(p, Len(proc[p].seen) + 1)
  /\ pc = "complete" => Contains(Repository(p), proc[p].seen[pos].item, proc[p].seen[pos].head)

\* A process that has read its steps goes on.
LEMMA Walks ==
  ASSUME IntegrationInv, Nothing, ItemsTyped, NEW p \in Processes, proc[p].pc \notin {"idle", "load"},
         NEW pc \in Phases, pc # "load", NEW pos \in Nat, Goto(p, pc, pos), MayGo(p, pc, pos)
  PROVE  IntegrationInv'
<1>1. PICK n \in ProcessType :
        /\ proc' = [proc EXCEPT ![p] = n] /\ n.pc = pc /\ n.pos = pos
        /\ n.run = proc[p].run /\ n.seen = proc[p].seen /\ n.result = proc[p].result
  BY Going
<1>2. /\ proc[p].run \in Runs /\ runs[proc[p].run].status # "absent" /\ Len(proc[p].seen) \in Nat
      /\ SameSteps(proc[p].seen, runs[proc[p].run].steps)
  BY Acts DEF ProcessOK
<1>3. pc \in {"closing", "seal"} =>
        \A j \in 1..Len(proc[p].seen) : runs[proc[p].run].steps[j].status # "pending"
  BY SMTT(30), <1>2 DEF MayGo, EndedBefore
<1>4. ProcessOK(n, runs, target)
  BY <1>1, <1>2, <1>3 DEF ProcessOK, MayGo, EndedBefore, Contains, Has, Repository
<1> QED
  BY <1>1, <1>4, OneProcess DEF Nothing, ItemsTyped

\* A process that returns.
LEMMA Returns ==
  ASSUME IntegrationInv, Nothing, ItemsTyped, NEW p \in Processes, Return(p)
  PROVE  IntegrationInv'
<1>1. proc' = [proc EXCEPT ![p] = Idle]
  BY DEF Return
<1> QED
  BY <1>1, IdleOK, OneProcess DEF Nothing, ItemsTyped

\* Completing an item is of the item, and the process goes on or returns.
LEMMA Completing ==
  ASSUME IntegrationInv, NEW p \in Processes, proc[p].pc # "idle", NEW d \in Items, NEW pc, NEW pos,
         CompleteItem(p, d, pc, pos)
  PROVE  Nothing /\ ItemsTyped /\ (Goto(p, pc, pos) \/ Return(p))
<1>1. Nothing /\ (Goto(p, pc, pos) \/ Return(p))
  BY DEF CompleteItem, ItemCompleted, ItemInterrupted, ItemLeftAlone, ItemRefused, Nothing
<1>2. proc[p].run \in Runs
  BY Acts
<1>3. status' \in [Items -> WorkItemStatuses]
  BY DEF CompleteItem, ItemCompleted, ItemInterrupted, ItemLeftAlone, ItemRefused, IntegrationInv,
     Typed, WorkItemStatuses
<1>4. interrupted' \in [Items -> {"no", "stuck"} \cup Runs]
  BY <1>2 DEF CompleteItem, ItemCompleted, ItemInterrupted, ItemLeftAlone, ItemRefused, IntegrationInv,
     Typed
<1>5. faults' \in 0..MaxFaults
  BY BoundsAssumption DEF CompleteItem, ItemCompleted, ItemInterrupted, ItemLeftAlone, ItemRefused,
     IntegrationInv, Typed
<1> QED
  BY <1>1, <1>3, <1>4, <1>5 DEF ItemsTyped

\* The steps are read.
LEMMA LoadStep ==
  ASSUME IntegrationInv, NEW p \in Processes, Load(p)
  PROVE  IntegrationInv'
<1> DEFINE n == [proc[p] EXCEPT !.pc = "target", !.seen = runs[proc[p].run].steps]
<1>1. /\ proc[p] \in ProcessType /\ proc[p].run \in Runs /\ runs[proc[p].run].status # "absent"
      /\ runs[proc[p].run].steps \in Seq(RunSteps)
  BY Acts DEF Load, At, RunType
<1>2. proc' = [proc EXCEPT ![p] = n]
  BY DEF Load, IntegrationInv, Typed
<1>3. n \in ProcessType /\ n.pc = "target" /\ n.run = proc[p].run /\ n.seen = runs[proc[p].run].steps
  BY <1>1 DEF ProcessType, Phases
<1> HIDE DEF n
<1>4. ProcessOK(n, runs, target)
  BY <1>1, <1>3 DEF ProcessOK, Walking, Stepping, SameSteps
<1> QED
  BY <1>2, <1>3, <1>4, OneProcess, OnlyReads DEF Load, Nothing, ItemsTyped

\* A head is read, and nothing else about the process changes.
LEMMA HeadStep ==
  ASSUME IntegrationInv, NEW p \in Processes, ReadTarget(p) \/ Resolve(p)
  PROVE  IntegrationInv'
<1>1. /\ proc[p] \in ProcessType /\ ProcessOK(proc[p], runs, target) /\ Repository(p) \in Repositories
      /\ proc[p].pc \in {"target", "resolve"}
  BY Acts DEF ReadTarget, Resolve, At
<1>2. PICK head \in Nat : \E pc \in {"drift", "contains"} :
        /\ proc' = [proc EXCEPT ![p].pc = pc, ![p].result = head]
        /\ pc = "contains" => proc[p].pc = "resolve"
  <2>1. recorded[Repository(p)] \in Nat
    BY <1>1 DEF IntegrationInv, Typed
  <2>2. target[Repository(p)] \in Seq(Commits)
    BY <1>1 DEF IntegrationInv, Typed
  <2>3. Len(target[Repository(p)]) \in Nat
    BY <2>2
  <2> QED
    BY <2>1, <2>3 DEF ReadTarget, Resolve, At
<1>3. PICK pc \in {"drift", "contains"} :
        /\ proc' = [proc EXCEPT ![p].pc = pc, ![p].result = head]
        /\ pc = "contains" => proc[p].pc = "resolve"
  BY <1>2
<1> DEFINE n == [proc[p] EXCEPT !.pc = pc, !.result = head]
<1>4. proc' = [proc EXCEPT ![p] = n]
  BY <1>3 DEF IntegrationInv, Typed
<1>5. /\ n \in ProcessType /\ n.pc = pc /\ n.run = proc[p].run /\ n.seen = proc[p].seen
      /\ n.pos = proc[p].pos
  BY <1>1 DEF ProcessType, Phases
<1> HIDE DEF n
<1>6. ProcessOK(n, runs, target)
  BY <1>1, <1>3, <1>5 DEF ProcessOK, Walking, Stepping
<1> QED
  BY <1>4, <1>5, <1>6, OneProcess, OnlyReads DEF ReadTarget, Resolve, Nothing, ItemsTyped

\* The checkout is compared, which tells where to go on.
LEMMA DriftStep ==
  ASSUME IntegrationInv, NEW p \in Processes, Drift(p)
  PROVE  IntegrationInv'
<1>1. Nothing /\ ItemsTyped /\ proc[p].pc \notin {"idle", "load"}
  BY OnlyReads DEF Drift, At
<1>2. CASE Goto(p, "early", 1)
  <2>1. MayGo(p, "early", 1) /\ "early" \in Phases
    BY DEF MayGo, Stepping, Phases
  <2> QED
    BY <1>1, <1>2, <2>1, Walks
<1>3. CASE Goto(p, "failrun", 0)
  <2>1. MayGo(p, "failrun", 0) /\ "failrun" \in Phases
    BY DEF MayGo, Stepping, Walking, Phases
  <2> QED
    BY <1>1, <1>3, <2>1, Walks
<1> QED
  BY <1>2, <1>3 DEF Drift

\* Before the first merge, the items of earlier steps are completed ...
LEMMA EarlyStep ==
  ASSUME IntegrationInv, NEW p \in Processes, Early(p)
  PROVE  IntegrationInv'
<1>1. proc[p].pc = "early" /\ proc[p].pc \notin {"idle", "load"} /\ proc[p].pc \in Walking
  BY DEF Early, At, Walking
<1>2. proc[p].pos \in Nat /\ (~AfterLast(p) => Seen(p) \in RunSteps)
  BY <1>1, Acts
<1>3. /\ MayGo(p, "preflight", 1) /\ MayGo(p, "early", proc[p].pos + 1)
      /\ "preflight" \in Phases /\ "early" \in Phases /\ proc[p].pos + 1 \in Nat
  BY <1>2 DEF MayGo, Stepping, Phases
<1>4. CASE Reading /\ (Goto(p, "preflight", 1) \/ Goto(p, "early", proc[p].pos + 1))
  BY <1>1, <1>3, <1>4, OnlyReads, Walks
<1>5. CASE ~AfterLast(p) /\ CompleteItem(p, Seen(p).item, "early", proc[p].pos + 1)
  <2>1. Seen(p).item \in Items
    BY <1>2, <1>5 DEF RunSteps
  <2>2. Nothing /\ ItemsTyped /\ (Goto(p, "early", proc[p].pos + 1) \/ Return(p))
    BY <1>1, <1>5, <2>1, Completing
  <2> QED
    BY <1>1, <1>3, <2>2, Walks, Returns
<1> QED
  BY <1>4, <1>5 DEF Early

\* ... and those of the later ones checked.
LEMMA PreflightStep ==
  ASSUME IntegrationInv, NEW p \in Processes, Preflight(p)
  PROVE  IntegrationInv'
<1>1. /\ proc[p].pc \notin {"idle", "load"} /\ Nothing /\ ItemsTyped
  BY OnlyReads DEF Preflight, At
<1>2. proc[p].pos \in Nat /\ Len(proc[p].seen) \in Nat
  BY <1>1, Acts
<1>3. /\ MayGo(p, "candidate", 1) /\ MayGo(p, "preflight", proc[p].pos + 1)
      /\ "candidate" \in Phases /\ "preflight" \in Phases /\ proc[p].pos + 1 \in Nat
  BY <1>2 DEF MayGo, Stepping, EndedBefore, Phases
<1>4. \/ Goto(p, "candidate", 1) \/ Goto(p, "preflight", proc[p].pos + 1) \/ Return(p)
  BY DEF Preflight
<1> QED
  BY <1>1, <1>3, <1>4, Walks, Returns

\* A step that is pending no more is passed.
LEMMA CandidateStep ==
  ASSUME IntegrationInv, NEW p \in Processes, Candidate(p)
  PROVE  IntegrationInv'
<1>1. proc[p].pc = "candidate" /\ proc[p].pc \notin {"idle", "load"} /\ Nothing /\ ItemsTyped
  BY OnlyReads DEF Candidate, At
<1> DEFINE pos == proc[p].pos
<1>2. /\ pos \in Nat /\ Len(proc[p].seen) \in Nat /\ EndedBefore(p, pos) /\ pos >= 1
      /\ SameSteps(proc[p].seen, runs[proc[p].run].steps)
  BY <1>1, Acts DEF ProcessOK, EndedBefore, Walking
<1>3. CASE AfterLast(p) /\ Goto(p, "closing", 1)
  <2>1. MayGo(p, "closing", 1) /\ "closing" \in Phases
    BY <1>2, <1>3 DEF MayGo, Stepping, AfterLast, EndedBefore, Phases
  <2> QED
    BY <1>1, <1>3, <2>1, Walks
<1>4. CASE ~AfterLast(p) /\ Seen(p).status # "pending" /\ Goto(p, "candidate", pos + 1)
  <2>1. pos \in 1..Len(proc[p].seen)
    BY <1>2, <1>4 DEF AfterLast
  <2>2. runs[proc[p].run].steps[pos].status # "pending"
    BY <1>2, <1>4, <2>1 DEF SameSteps, Seen
  <2>3. EndedBefore(p, pos + 1)
    BY <1>2, <2>2 DEF EndedBefore
  <2>4. MayGo(p, "candidate", pos + 1) /\ "candidate" \in Phases /\ pos + 1 \in Nat
    BY <1>2, <2>3 DEF MayGo, Stepping, Phases
  <2> QED
    BY <1>1, <1>4, <2>4, Walks
<1>5. CASE ~AfterLast(p) /\ Goto(p, "source", pos)
  <2>1. MayGo(p, "source", pos) /\ "source" \in Phases
    BY <1>2, <1>5 DEF MayGo, Stepping, AfterLast, Phases
  <2> QED
    BY <1>1, <1>2, <1>5, <2>1, Walks
<1>6. CASE Return(p)
  BY <1>1, <1>6, Returns
<1> QED
  BY <1>3, <1>4, <1>5, <1>6 DEF Candidate

\* The heads of the branches are compared with what is to be merged.
LEMMA CompareStep ==
  ASSUME IntegrationInv, NEW p \in Processes, Source(p) \/ ContainsStep(p)
  PROVE  IntegrationInv'
<1>1. proc[p].pc \in {"source", "contains"} /\ Nothing /\ ItemsTyped
  BY OnlyReads DEF Source, ContainsStep, At
<1> DEFINE pos == proc[p].pos
<1>2. /\ pos \in Nat /\ Len(proc[p].seen) \in Nat /\ EndedBefore(p, pos)
      /\ pos >= 1 /\ pos <= Len(proc[p].seen)
  BY <1>1, Acts DEF ProcessOK, EndedBefore, Walking, Stepping
<1>3. PICK pc \in {"resolve", "failstep", "merge", "complete"} :
        /\ Goto(p, pc, pos)
        /\ pc = "complete" => Contains(Repository(p), Seen(p).item, Seen(p).head)
  BY DEF Source, ContainsStep
<1>4. MayGo(p, pc, pos) /\ pc \in Phases /\ pc # "load"
  BY <1>2, <1>3 DEF MayGo, Seen, Phases
<1> QED
  BY <1>1, <1>2, <1>3, <1>4, Walks

\* After a step its item is completed, and the next one taken ...
LEMMA FinishStep ==
  ASSUME IntegrationInv, NEW p \in Processes, Finish(p)
  PROVE  IntegrationInv'
<1>1. proc[p].pc = "finish" /\ proc[p].pc \notin {"idle", "load"}
  BY DEF Finish, At
<1> DEFINE pos == proc[p].pos
<1>2. /\ pos \in Nat /\ Len(proc[p].seen) \in Nat /\ EndedBefore(p, pos) /\ Seen(p) \in RunSteps
      /\ runs[proc[p].run].steps[pos].status # "pending"
  BY <1>1, Acts DEF ProcessOK, EndedBefore, Stepping
<1>3. EndedBefore(p, pos + 1)
  BY <1>2 DEF EndedBefore
<1>4. MayGo(p, "candidate", pos + 1) /\ "candidate" \in Phases /\ pos + 1 \in Nat
  BY <1>2, <1>3 DEF MayGo, Stepping, Phases
<1>5. Nothing /\ ItemsTyped /\ (Goto(p, "candidate", pos + 1) \/ Return(p))
  BY <1>1, <1>2, Completing DEF Finish, RunSteps
<1> QED
  BY <1>1, <1>4, <1>5, Walks, Returns

\* ... and after the last one all items are completed that are not.
LEMMA ClosingStep ==
  ASSUME IntegrationInv, NEW p \in Processes, Closing(p)
  PROVE  IntegrationInv'
<1>1. proc[p].pc = "closing" /\ proc[p].pc \notin {"idle", "load"} /\ proc[p].pc \in Walking
  BY DEF Closing, At, Walking
<1> DEFINE pos == proc[p].pos
<1>2. /\ pos \in Nat /\ Len(proc[p].seen) \in Nat /\ EndedBefore(p, Len(proc[p].seen) + 1)
      /\ ~AfterLast(p) => Seen(p) \in RunSteps
  BY <1>1, Acts DEF ProcessOK, EndedBefore
<1>3. /\ MayGo(p, "seal", 0) /\ MayGo(p, "closing", pos + 1)
      /\ "seal" \in Phases /\ "closing" \in Phases /\ pos + 1 \in Nat
  BY <1>2 DEF MayGo, Stepping, Walking, Phases
<1>4. CASE AfterLast(p) /\ Goto(p, "seal", 0) /\ Reading
  BY <1>1, <1>3, <1>4, OnlyReads, Walks
<1>5. CASE ~AfterLast(p) /\ CompleteItem(p, Seen(p).item, "closing", pos + 1)
  <2>1. Nothing /\ ItemsTyped /\ (Goto(p, "closing", pos + 1) \/ Return(p))
    BY <1>1, <1>2, <1>5, Completing DEF RunSteps
  <2> QED
    BY <1>1, <1>3, <2>1, Walks, Returns
<1> QED
  BY <1>4, <1>5 DEF Closing

\* A process is killed.
LEMMA CrashStep ==
  ASSUME IntegrationInv, NEW p \in Processes, Crash(p)
  PROVE  IntegrationInv'
<1>1. Nothing /\ ItemsTyped
  BY BoundsAssumption DEF Crash, Nothing, ItemsTyped, IntegrationInv, Typed, item
<1> QED
  BY <1>1, Returns DEF Crash

-----------------------------------------------------------------------------
(* Steps that change runs, rows or targets.                                *)

\* A target with more commits has what it had.
LEMMA HasMore ==
  ASSUME NEW T, NEW U, NEW n \in Nat, NEW m \in Nat, n <= m, DOMAIN T = 1..n, DOMAIN U = 1..m,
         \A i \in 1..n : U[i] = T[i]
  PROVE  \A d, head : Has(T, d, head) => Has(U, d, head)
BY DEF Has

\* A commit is made in the checkout of one repository.
LEMMA Appending ==
  ASSUME IntegrationInv, NEW r \in Repositories, NEW commit \in Commits,
         target' = [target EXCEPT ![r] = Append(target[r], commit)]
  PROVE  /\ target' \in [Repositories -> Seq(Commits)] /\ TargetsGrow(target, target')
         /\ Has(target'[r], commit.item, commit.head)
         /\ Len(target'[r]) \in Nat
<1> DEFINE T == target[r]
           U == Append(T, commit)
<1>1. target \in [Repositories -> Seq(Commits)]
  BY DEF IntegrationInv, Typed
<1>2. T \in Seq(Commits)
  BY <1>1
<1> HIDE DEF T
<1>3. /\ U \in Seq(Commits) /\ Len(U) = Len(T) + 1 /\ Len(T) \in Nat
      /\ \A i \in 1..Len(T) : U[i] = T[i]
      /\ U[Len(T) + 1] = commit
      /\ DOMAIN T = 1..Len(T) /\ DOMAIN U = 1..Len(U)
  BY <1>2, AppendProperties, LenProperties
<1> HIDE DEF U
<1>4. \A d, head : Has(T, d, head) => Has(U, d, head)
  <2>1. Len(U) \in Nat /\ Len(T) <= Len(U)
    BY <1>3
  <2> QED
    BY <1>3, <2>1, HasMore
<1>5. target' = [target EXCEPT ![r] = U]
  BY DEF U, T
<1>6. target' \in [Repositories -> Seq(Commits)] /\ target'[r] = U
  BY <1>1, <1>3, <1>5
<1>7. TargetsGrow(target, target')
  BY <1>1, <1>4, <1>5 DEF TargetsGrow, T
<1>8. Has(U, commit.item, commit.head)
  <2>1. Len(T) + 1 \in DOMAIN U
    BY <1>3
  <2>2. commit.head \in Nat
    BY BoundsAssumption DEF Commits, Foreign
  <2>3. commit.head >= commit.head
    BY <2>2
  <2> QED
    BY <1>3, <2>1, <2>3 DEF Has
<1>9. Len(U) \in Nat
  BY <1>3
<1> QED
  BY <1>6, <1>7, <1>8, <1>9

\* The runs are as good with what their targets have got.
LEMMA RunsStay ==
  ASSUME IntegrationInv, UNCHANGED runs, TargetsGrow(target, target')
  PROVE  RunsOK'
<1> SUFFICES ASSUME NEW k \in Runs PROVE RunOK(runs[k], target')
  BY DEF RunsOK
<1>1. RunOK(runs[k], target)
  BY DEF IntegrationInv, RunsOK
<1>2. /\ runs[k].steps = <<>> \/ runs[k].repository \in Repositories
      /\ Len(<<>>) = 0
  BY <1>1 DEF RunOK
<1>3. \A i \in 1..Len(runs[k].steps) : runs[k].steps[i].status = "integrated" =>
        Has(target'[runs[k].repository], runs[k].steps[i].item, runs[k].steps[i].head)
  BY SMTT(30), <1>1, <1>2 DEF RunOK, TargetsGrow
<1> QED
  BY <1>1, <1>3 DEF RunOK

\* One process goes on while a target grows.
LEMMA OneProcessMerges ==
  ASSUME IntegrationInv, UNCHANGED <<item, integrations, recorded, runs, drift>>,
         target' \in [Repositories -> Seq(Commits)], TargetsGrow(target, target'),
         merging' \in [Repositories -> Commits \cup {NoCommit}], faults' \in 0..MaxFaults,
         NEW p \in Processes, NEW n \in ProcessType, proc' = [proc EXCEPT ![p] = n],
         ProcessOK(n, runs, target')
  PROVE  IntegrationInv'
<1>1. ProcessesOK' /\ proc' \in [Processes -> ProcessType]
  <2>1. runs' = runs
    OBVIOUS
  <2> QED
    BY <2>1, Acting, Unchanged
<1>2. Typed'
  BY <1>1 DEF IntegrationInv, Typed, item
<1>3. RowsExist'
  BY DEF IntegrationInv, RowsExist
<1> QED
  BY <1>1, <1>2, <1>3, RunsStay DEF IntegrationInv

\* A merge has the commit in the target, or it has not and the step fails.
LEMMA MergeStep ==
  ASSUME IntegrationInv, NEW p \in Processes, Merge(p) \/ MergeFault(p)
  PROVE  IntegrationInv'
<1> DEFINE r == Repository(p)
           pos == proc[p].pos
           commit == [item |-> Seen(p).item, head |-> Seen(p).head]
<1>1. proc[p].pc = "merge"
  BY DEF Merge, MergeFault, At
<1>2. /\ proc[p] \in ProcessType /\ ProcessOK(proc[p], runs, target) /\ r \in Repositories
      /\ Seen(p) \in RunSteps /\ pos \in Nat
  BY <1>1, Acts DEF Stepping
<1>3. commit \in Commits /\ commit.item = Seen(p).item /\ commit.head = Seen(p).head
  BY <1>2 DEF RunSteps, Commits
<1> HIDE DEF r, commit
<1>4. UNCHANGED <<item, integrations, recorded, runs, drift>>
  BY DEF Merge, MergeFault
<1>10. faults' = faults \/ (faults < MaxFaults /\ faults' = faults + 1)
  BY DEF Merge, MergeFault
<1>11. faults' \in 0..MaxFaults
  BY <1>10, BoundsAssumption DEF IntegrationInv, Typed
<1>5. merging' \in [Repositories -> Commits \cup {NoCommit}]
  BY <1>2, <1>3 DEF Merge, MergeFault, git, IntegrationInv, Typed, r, commit
<1>6. \/ target' = target
      \/ target' = [target EXCEPT ![r] = Append(target[r], commit)]
  <2>1. target = [target EXCEPT ![r] = target[r]]
    BY <1>2 DEF IntegrationInv, Typed
  <2> QED
    BY <2>1 DEF Merge, MergeFault, git, r, commit
<1>7. target' \in [Repositories -> Seq(Commits)] /\ TargetsGrow(target, target')
  BY <1>2, <1>3, <1>6, Appending, Unchanged DEF IntegrationInv, Typed
<1>8. PICK n \in ProcessType :
        /\ proc' = [proc EXCEPT ![p] = n] /\ n.pc \in {"complete", "failstep"}
        /\ n.run = proc[p].run /\ n.seen = proc[p].seen /\ n.pos = pos
        /\ n.pc = "complete" => Has(target'[r], Seen(p).item, Seen(p).head)
  <2>1. CASE Goto(p, "failstep", pos)
    <3>1. "failstep" \in Phases
      BY DEF Phases
    <3> QED
      BY <1>2, <2>1, <3>1, Going
  <2>2. CASE /\ ~Goto(p, "failstep", pos) /\ Merge(p)
    <3> DEFINE merged == IF Contains(r, commit.item, commit.head) THEN target[r]
                         ELSE Append(target[r], commit)
               result == Len(merged)
               n == [proc[p] EXCEPT !.pc = "complete", !.result = result]
    <3>1. /\ target' = [target EXCEPT ![r] = merged]
          /\ proc' = [proc EXCEPT ![p].pc = "complete", ![p].result = result]
      BY <2>2 DEF Merge, AfterMerge, r, commit
    <3>2. proc' = [proc EXCEPT ![p] = n]
      BY <3>1 DEF IntegrationInv, Typed
    <3>3. target'[r] = merged
      BY <1>2, <3>1 DEF IntegrationInv, Typed
    <3>4. result \in Nat /\ Has(merged, commit.item, commit.head)
      <4>1. target[r] \in Seq(Commits)
        BY <1>2 DEF IntegrationInv, Typed
      <4>2. CASE Contains(r, commit.item, commit.head)
        BY <4>1, <4>2 DEF Contains, Has
      <4>3. CASE ~Contains(r, commit.item, commit.head)
        BY <1>2, <1>3, <3>1, <3>3, <4>3, Appending
      <4> QED
        BY <4>2, <4>3
    <3>5. /\ n \in ProcessType /\ n.pc = "complete" /\ n.run = proc[p].run /\ n.seen = proc[p].seen
          /\ n.pos = pos
      <4> HIDE DEF merged, result
      <4> QED
        BY <1>2, <3>4 DEF ProcessType, Phases
    <3> HIDE DEF n
    <3> QED
      BY <1>3, <3>2, <3>3, <3>4, <3>5
  <2> QED
    BY <2>1, <2>2 DEF Merge, MergeFault, AfterMerge
<1>9. ProcessOK(n, runs, target')
  BY <1>1, <1>2, <1>8 DEF ProcessOK, Walking, Stepping, r, Repository, Seen
<1> QED
  BY <1>4, <1>5, <1>7, <1>8, <1>9, <1>11, OneProcessMerges

\* Somebody else commits to a Feature checkout, or ends a conflicted merge there.
LEMMA CommitStep ==
  ASSUME IntegrationInv, NEW r \in Repositories, CommitTarget(r) \/ Conclude(r)
  PROVE  IntegrationInv'
<1>1. /\ UNCHANGED <<item, integrations, recorded, runs, proc, faults>> /\ drift' \in 0..MaxDrift
  BY BoundsAssumption DEF CommitTarget, Conclude, IntegrationInv, Typed
<1>2. merging' \in [Repositories -> Commits \cup {NoCommit}]
  BY DEF CommitTarget, Conclude, IntegrationInv, Typed
<1>3. \/ target' = target
      \/ \E commit \in Commits : target' = [target EXCEPT ![r] = Append(target[r], commit)]
  BY DEF CommitTarget, Conclude, IntegrationInv, Typed, Commits
<1>4. target' \in [Repositories -> Seq(Commits)] /\ TargetsGrow(target, target')
  BY <1>3, Appending, Unchanged DEF IntegrationInv, Typed
<1>5. ProcessesOK' /\ proc' \in [Processes -> ProcessType]
  BY <1>1, <1>4, NobodyActs, Unchanged
<1>6. Typed'
  BY <1>1, <1>2, <1>4, <1>5 DEF IntegrationInv, Typed, item
<1>7. RowsExist'
  BY <1>1 DEF IntegrationInv, RowsExist
<1> QED
  BY <1>1, <1>4, <1>5, <1>6, <1>7, RunsStay DEF IntegrationInv
\* One run changes, and keeps its steps.
LEMMA OneRun ==
  ASSUME IntegrationInv, UNCHANGED target, NEW k \in Runs, NEW run \in RunType,
         runs' = [runs EXCEPT ![k] = run], RunOK(run, target),
         runs[k].status # "absent" =>
           /\ run.status # "absent" /\ run.repository = runs[k].repository
           /\ SameSteps(runs[k].steps, run.steps)
  PROVE  RunsOK' /\ runs' \in [Runs -> RunType] /\ RunsGrow(runs, runs')
<1>1. runs' \in [Runs -> RunType] /\ runs'[k] = run /\ (\A j \in Runs \ {k} : runs'[j] = runs[j])
  BY DEF IntegrationInv, Typed
<1>2. RunsOK'
  BY <1>1 DEF RunsOK, IntegrationInv
<1>3. RunsGrow(runs, runs')
  <2>1. ASSUME NEW j \in Runs, runs[j].status # "absent"
        PROVE  /\ runs'[j].status # "absent" /\ runs'[j].repository = runs[j].repository
               /\ SameSteps(runs[j].steps, runs'[j].steps)
    <3>1. SameSteps(runs[j].steps, runs[j].steps)
      BY DEF SameSteps
    <3> QED
      BY <1>1, <2>1, <3>1
  <2> QED
    BY <2>1 DEF RunsGrow
<1> QED
  BY <1>1, <1>2, <1>3

\* Rows keep their heads, and no new run is made.
HeadsStay ==
  \A d \in Items, r \in Repositories : integrations[d][r].head # 0 => integrations'[d][r].head # 0
NoneMade == \A k \in Runs : runs'[k].status # "absent" => runs[k].status # "absent"

\* The rows of a run stay.
LEMMA RowsStay ==
  ASSUME IntegrationInv, RunsOK', runs' \in [Runs -> RunType], RunsGrow(runs, runs'),
         HeadsStay, NoneMade
  PROVE  RowsExist'
<1> SUFFICES ASSUME NEW k \in Runs, NEW i \in 1..Len(runs'[k].steps)
             PROVE  integrations'[runs'[k].steps[i].item][runs'[k].repository].head # 0
  BY DEF RowsExist
<1>1. runs'[k].status # "absent"
  <2>1. runs'[k].status = "absent" => runs'[k].steps = <<>>
    BY DEF RunsOK, RunOK
  <2>2. Len(<<>>) = 0
    OBVIOUS
  <2> QED
    BY <2>1, <2>2
<1>2. runs[k].status # "absent"
  BY <1>1 DEF NoneMade
<1>3. /\ runs'[k].repository = runs[k].repository /\ i \in 1..Len(runs[k].steps)
      /\ runs'[k].steps[i].item = runs[k].steps[i].item
  BY <1>2 DEF RunsGrow, SameSteps
<1>4. /\ integrations[runs[k].steps[i].item][runs[k].repository].head # 0
      /\ runs[k].repository \in Repositories
  BY <1>2, <1>3, RunExists DEF IntegrationInv, RowsExist
<1>5. runs[k].steps[i].item \in Items
  <2>1. runs[k].steps \in Seq(RunSteps)
    BY DEF IntegrationInv, Typed, RunType
  <2>2. runs[k].steps[i] \in RunSteps
    BY <1>3, <2>1, ElementOfSeq
  <2> QED
    BY <2>2 DEF RunSteps
<1> QED
  BY <1>3, <1>4, <1>5 DEF HeadsStay

\* One process changes one run, and with it rows and the recorded head.
LEMMA OneRecords ==
  ASSUME IntegrationInv, UNCHANGED <<item, git, drift, faults>>,
         integrations' \in [Items -> [Repositories -> Row]],
         \A d \in Items, r \in Repositories :
           integrations'[d][r].status # "absent" => integrations'[d][r].head # 0,
         recorded' \in [Repositories -> Nat], HeadsStay, NoneMade,
         RunsOK', runs' \in [Runs -> RunType], RunsGrow(runs, runs'),
         NEW p \in Processes, NEW n \in ProcessType, proc' = [proc EXCEPT ![p] = n],
         ProcessOK(n, runs', target)
  PROVE  IntegrationInv'
<1>1. ProcessesOK' /\ proc' \in [Processes -> ProcessType]
  <2>1. target' = target
    BY DEF git
  <2> QED
    BY <2>1, Acting, Unchanged
<1>2. Typed'
  BY <1>1 DEF IntegrationInv, Typed, git, item
<1> QED
  BY <1>1, <1>2, RowsStay DEF IntegrationInv

\* The status of a run changes, and that of none of its steps.
LEMMA Status ==
  ASSUME IntegrationInv, UNCHANGED target, NEW k \in Runs, NEW st \in RunStatuses \ {"absent"},
         runs' = [runs EXCEPT ![k].status = st], runs[k].status # "absent",
         st \in {"previewed", "running"} => runs[k].status \in {"previewed", "running"},
         st = "completed" => \A i \in 1..Len(runs[k].steps) : runs[k].steps[i].status = "integrated"
  PROVE  /\ RunsOK' /\ runs' \in [Runs -> RunType] /\ RunsGrow(runs, runs')
         /\ runs'[k].status = st /\ NoneMade
<1> DEFINE run == [runs[k] EXCEPT !.status = st]
<1>1. runs[k] \in RunType /\ RunOK(runs[k], target)
  BY DEF IntegrationInv, Typed, RunsOK
<1>2. /\ run \in RunType /\ run.status = st /\ run.repository = runs[k].repository
      /\ run.steps = runs[k].steps
  BY <1>1 DEF RunType
<1>3. runs' = [runs EXCEPT ![k] = run]
  BY DEF IntegrationInv, Typed
<1> HIDE DEF run
<1>4. RunOK(run, target)
  BY <1>1, <1>2 DEF RunOK
<1>5. SameSteps(runs[k].steps, run.steps)
  BY <1>2 DEF SameSteps
<1>6. RunsOK' /\ runs' \in [Runs -> RunType] /\ RunsGrow(runs, runs')
  BY <1>2, <1>3, <1>4, <1>5, OneRun
<1>7. runs'[k] = run /\ \A j \in Runs \ {k} : runs'[j] = runs[j]
  BY <1>3 DEF IntegrationInv, Typed
<1>8. NoneMade
  BY <1>7 DEF NoneMade
<1> QED
  BY <1>2, <1>6, <1>7, <1>8

\* A run is started, or started again.
LEMMA StartStep ==
  ASSUME IntegrationInv, NEW p \in Processes, NEW k \in Runs, Confirm(p, k) \/ Resume(p, k)
  PROVE  IntegrationInv'
<1> DEFINE n == [Idle EXCEPT !.pc = "load", !.run = k]
<1>1. n \in ProcessType /\ n.pc = "load" /\ n.run = k
  BY IdleOK DEF Idle, ProcessType, Phases
<1>2. proc' = [proc EXCEPT ![p] = n] /\ UNCHANGED <<item, integrations, git, recorded, drift, faults>>
  BY DEF Confirm, Resume, Reading
<1>3. /\ RunsOK' /\ runs' \in [Runs -> RunType] /\ RunsGrow(runs, runs') /\ NoneMade
      /\ runs'[k].status # "absent"
  <2>1. CASE Confirm(p, k)
    <3>1. /\ runs' = [runs EXCEPT ![k].status = "running"] /\ runs[k].status = "previewed"
          /\ UNCHANGED target /\ "running" \in RunStatuses \ {"absent"}
      BY <2>1 DEF Confirm, git, RunStatuses
    <3> QED
      BY <3>1, Status
  <2>2. CASE Resume(p, k)
    <3>1. UNCHANGED runs /\ UNCHANGED target /\ runs[k].status = "running"
      BY <2>2 DEF Resume, Reading, git
    <3> QED
      BY <3>1, Unchanged DEF IntegrationInv, Typed, RunsOK, NoneMade
  <2> QED
    BY <2>1, <2>2
<1> HIDE DEF n
<1>4. ProcessOK(n, runs', target)
  BY <1>1, <1>3 DEF ProcessOK, Walking, Stepping
<1> QED
  BY <1>1, <1>2, <1>3, <1>4, OneRecords DEF IntegrationInv, Typed, HeadsStay

\* A run fails before its first merge, or all of its steps have ended.
LEMMA EndStep ==
  ASSUME IntegrationInv, NEW p \in Processes, FailRun(p) \/ Seal(p)
  PROVE  IntegrationInv'
<1> DEFINE k == proc[p].run
<1>1. proc[p].pc \in {"failrun", "seal"}
  BY DEF FailRun, Seal, At
<1>2. /\ ProcessOK(proc[p], runs, target) /\ k \in Runs /\ runs[k] \in RunType
      /\ RunOK(runs[k], target) /\ runs[k].status # "absent"
  BY <1>1, Acts
<1>3. /\ proc' = [proc EXCEPT ![p] = Idle] /\ UNCHANGED target
      /\ UNCHANGED <<item, integrations, git, recorded, drift, faults>>
  BY DEF FailRun, Seal, Return, git
<1>4. RunsOK' /\ runs' \in [Runs -> RunType] /\ RunsGrow(runs, runs') /\ NoneMade
  <2>1. CASE FailRun(p)
    <3>1. /\ runs' = [runs EXCEPT ![k].status = "failed"] /\ "failed" \in RunStatuses \ {"absent"}
          /\ "failed" \notin {"previewed", "running"} /\ "failed" # "completed"
      BY <2>1 DEF FailRun, RunStatuses
    <3> QED
      BY <1>2, <1>3, <3>1, Status
  <2>2. CASE Seal(p) /\ runs[k].status = "running"
    <3>1. \A i \in 1..Len(runs[k].steps) : runs[k].steps[i].status = "integrated"
      <4>1. /\ SameSteps(proc[p].seen, runs[k].steps)
            /\ \A j \in 1..Len(proc[p].seen) : runs[k].steps[j].status # "pending"
        BY <1>2, <2>2 DEF ProcessOK, Seal, At
      <4> QED
        BY <1>2, <2>2, <4>1 DEF RunOK, SameSteps
    <3>2. /\ runs' = [runs EXCEPT ![k].status = "completed"] /\ "completed" \in RunStatuses \ {"absent"}
          /\ "completed" \notin {"previewed", "running"}
      BY <2>2 DEF Seal, RunStatuses
    <3> QED
      BY <1>2, <1>3, <3>1, <3>2, Status
  <2>3. CASE Seal(p) /\ runs[k].status # "running"
    <3>1. runs' = runs
      BY <1>2, <2>3 DEF Seal, IntegrationInv, Typed, RunType
    <3> QED
      BY <1>3, <3>1, Unchanged DEF IntegrationInv, Typed, RunsOK, NoneMade
  <2> QED
    BY <2>1, <2>2, <2>3
<1> QED
  BY <1>3, <1>4, IdleOK, OneRecords DEF IntegrationInv, Typed, HeadsStay

\* The row of an item gets the outcome of its step.
LEMMA RowSettled ==
  ASSUME IntegrationInv, NEW d \in Items, NEW r \in Repositories, NEW st \in {"integrated", "conflict"},
         integrations[d][r].head # 0,
         integrations' = [integrations EXCEPT ![d][r].status = st]
  PROVE  /\ integrations' \in [Items -> [Repositories -> Row]]
         /\ \A e \in Items, q \in Repositories :
              integrations'[e][q].status # "absent" => integrations'[e][q].head # 0
         /\ HeadsStay
<1> DEFINE row == [integrations[d][r] EXCEPT !.status = st]
           rows == [integrations[d] EXCEPT ![r] = row]
<1>1. integrations \in [Items -> [Repositories -> Row]]
  BY DEF IntegrationInv, Typed
<1>2. integrations[d][r] \in Row
  BY <1>1
<1>3. row \in Row /\ row.head = integrations[d][r].head
  BY <1>2 DEF Row, IntegrationStatuses
<1>4. integrations' = [integrations EXCEPT ![d] = rows]
  BY <1>1
<1> HIDE DEF row
<1>5. /\ rows \in [Repositories -> Row] /\ rows[r] = row
      /\ \A q \in Repositories \ {r} : rows[q] = integrations[d][q]
  BY <1>1, <1>3
<1> HIDE DEF rows
<1>6. integrations' \in [Items -> [Repositories -> Row]]
  BY <1>1, <1>4, <1>5
<1>7. ASSUME NEW e \in Items, NEW q \in Repositories
      PROVE  \/ integrations'[e][q] = integrations[e][q]
             \/ integrations'[e][q].head # 0 /\ e = d /\ q = r
  BY <1>1, <1>3, <1>4, <1>5
<1>8. \A e \in Items, q \in Repositories :
        integrations[e][q].status # "absent" => integrations[e][q].head # 0
  BY DEF IntegrationInv, Typed
<1> QED
  BY <1>6, <1>7, <1>8 DEF HeadsStay

\* The step a process works on, with its row.
LEMMA WorksOn ==
  ASSUME IntegrationInv, NEW p \in Processes, proc[p].pc \in Stepping
  PROVE  /\ SameSteps(proc[p].seen, runs[proc[p].run].steps)
         /\ proc[p].pos \in 1..Len(runs[proc[p].run].steps)
         /\ runs[proc[p].run].steps \in Seq(RunSteps)
         /\ Seen(p).item \in Items /\ integrations[Seen(p).item][Repository(p)].head # 0
         /\ EndedBefore(p, proc[p].pos)
<1>1. proc[p].pc # "idle" /\ proc[p].pc # "load"
  BY DEF Stepping
<1>2. /\ ProcessOK(proc[p], runs, target) /\ proc[p].run \in Runs /\ runs[proc[p].run] \in RunType
      /\ proc[p].pos \in 1..Len(proc[p].seen) /\ Seen(p) \in RunSteps
  BY <1>1, Acts
<1>3. /\ SameSteps(proc[p].seen, runs[proc[p].run].steps)
      /\ \A j \in 1..Len(proc[p].seen) : j < proc[p].pos => runs[proc[p].run].steps[j].status # "pending"
  BY <1>1, <1>2 DEF ProcessOK
<1>4. /\ proc[p].pos \in 1..Len(runs[proc[p].run].steps)
      /\ runs[proc[p].run].steps[proc[p].pos].item = Seen(p).item
  BY <1>2, <1>3 DEF SameSteps, Seen
<1>5. integrations[Seen(p).item][Repository(p)].head # 0
  BY <1>2, <1>4 DEF IntegrationInv, RowsExist, Repository
<1> QED
  BY <1>2, <1>3, <1>4, <1>5 DEF RunSteps, RunType, EndedBefore

\* A run whose step i is integrated, and one whose step i fails.
Integrated(run, i, head) ==
  [run EXCEPT !.steps =
    [run.steps EXCEPT ![i] = [run.steps[i] EXCEPT !.status = "integrated", !.result = head]]]
Failed(run, i) == [run EXCEPT !.status = "conflict", !.steps = FailedSteps(run.steps, i)]

\* A step of a run that is pending is integrated, after those before it.
LEMMA StepIntegrated ==
  ASSUME NEW run \in RunType, run.status # "absent", NEW T, RunOK(run, T), NEW i \in 1..Len(run.steps), NEW head \in Nat,
         \A j \in 1..Len(run.steps) : j < i => run.steps[j].status # "pending",
         run.steps[i].status = "pending", Has(T[run.repository], run.steps[i].item, run.steps[i].head)
  PROVE  /\ Integrated(run, i, head) \in RunType /\ RunOK(Integrated(run, i, head), T)
         /\ SameSteps(run.steps, Integrated(run, i, head).steps)
         /\ Integrated(run, i, head).status = run.status
         /\ Integrated(run, i, head).repository = run.repository
         /\ Integrated(run, i, head).steps[i].status = "integrated"
<1> DEFINE new == Integrated(run, i, head)
           step == [run.steps[i] EXCEPT !.status = "integrated", !.result = head]
           steps == [run.steps EXCEPT ![i] = step]
<1>1. run.steps \in Seq(RunSteps) /\ run.steps[i] \in RunSteps /\ Len(run.steps) \in Nat
  BY ElementOfSeq, LenProperties DEF RunType
<1>2. /\ step \in RunSteps /\ step.status = "integrated"
      /\ step.item = run.steps[i].item /\ step.head = run.steps[i].head
  BY <1>1 DEF RunSteps, StepStatuses
<1>3. new = [run EXCEPT !.steps = steps]
  BY DEF Integrated
<1> HIDE DEF step, new
<1>4. /\ steps \in Seq(RunSteps) /\ Len(steps) = Len(run.steps)
      /\ \A j \in 1..Len(run.steps) : steps[j] = IF j = i THEN step ELSE run.steps[j]
  BY <1>1, <1>2, ExceptSeq
<1> HIDE DEF steps
<1>5. /\ new \in RunType /\ new.steps = steps /\ new.status = run.status
      /\ new.repository = run.repository
  BY <1>3, <1>4 DEF RunType
<1>6. SameSteps(run.steps, steps)
  BY <1>2, <1>4 DEF SameSteps
<1>7. ASSUME NEW j \in 1..Len(steps)
      PROVE  /\ steps[j].item = run.steps[j].item /\ steps[j].head = run.steps[j].head
             /\ \/ steps[j].status = run.steps[j].status
                \/ j = i /\ steps[j].status = "integrated"
  BY <1>2, <1>4
<1>8. ASSUME NEW j \in 1..Len(steps), j < i PROVE run.steps[j].status = "integrated"
  <2>1. run.steps[j].status \in StepStatuses
    <3>1. run.steps[j] \in RunSteps
      BY <1>1, <1>4, ElementOfSeq
    <3> QED
      BY <3>1 DEF RunSteps
  <2> QED
    BY <1>4, <1>8, <2>1 DEF RunOK, StepStatuses
<1>9. RunOK(new, T)
  <2>1. new.status \in {"previewed", "running"} =>
          \A j \in 1..Len(steps) : steps[j].status \in {"pending", "integrated"}
    BY <1>4, <1>5, <1>7 DEF RunOK
  <2>2. new.status = "completed" => \A j \in 1..Len(steps) : steps[j].status = "integrated"
    BY <1>4, <1>5, <1>7 DEF RunOK
  <2>3. ASSUME NEW g \in 1..Len(steps), NEW j \in 1..Len(steps), g < j
        PROVE  /\ Before(steps[g].item, steps[j].item)
               /\ steps[j].status = "integrated" => steps[g].status = "integrated"
               /\ steps[g].status \in {"conflict", "skipped"} => steps[j].status # "pending"
    <3>1. /\ Before(run.steps[g].item, run.steps[j].item)
          /\ run.steps[j].status = "integrated" => run.steps[g].status = "integrated"
          /\ run.steps[g].status \in {"conflict", "skipped"} => run.steps[j].status # "pending"
      BY <1>4, <2>3 DEF RunOK
    <3>2. j = i => run.steps[g].status = "integrated"
      BY <1>8, <2>3
    <3> QED
      BY <1>7, <3>1, <3>2
  <2>4. \A j \in 1..Len(steps) : steps[j].status = "integrated" =>
          Has(T[run.repository], steps[j].item, steps[j].head)
    BY <1>4, <1>7 DEF RunOK
  <2>5. new.status # "absent" /\ new.repository \in Repositories
    BY <1>5 DEF RunOK
  <2> QED
    BY ONLY <1>5, <2>1, <2>2, <2>3, <2>4, <2>5 DEF RunOK
<1>10. new.steps[i].status = "integrated"
  BY <1>2, <1>4, <1>5
<1> QED
  BY <1>5, <1>6, <1>9, <1>10 DEF new

\* The outcome of a merge is recorded, once.
LEMMA CompletedStep ==
  ASSUME IntegrationInv, NEW p \in Processes, CompleteStep(p)
  PROVE  IntegrationInv'
<1> DEFINE k == proc[p].run
           i == proc[p].pos
           r == Repository(p)
           step == runs[k].steps[i]
           new == Integrated(runs[k], i, proc[p].result)
<1>1. proc[p].pc = "complete" /\ proc[p].pc \in Stepping /\ proc[p].pc # "idle"
  BY DEF CompleteStep, At, Stepping
<1>2. /\ proc[p] \in ProcessType /\ ProcessOK(proc[p], runs, target) /\ k \in Runs
      /\ runs[k] \in RunType /\ RunOK(runs[k], target) /\ runs[k].status # "absent"
      /\ r \in Repositories /\ proc[p].result \in Nat /\ i \in Nat
  BY <1>1, Acts
<1>3. /\ SameSteps(proc[p].seen, runs[k].steps) /\ i \in 1..Len(runs[k].steps)
      /\ runs[k].steps \in Seq(RunSteps) /\ EndedBefore(p, i)
      /\ Seen(p).item \in Items /\ integrations[Seen(p).item][r].head # 0
  BY <1>1, WorksOn
<1>12. runs' = [runs EXCEPT ![k] = IF step.status = "pending" THEN new ELSE runs[k]]
  <2>1. runs' = [runs EXCEPT ![k].steps[i] =
                   IF step.status = "pending"
                     THEN [step EXCEPT !.status = "integrated", !.result = proc[p].result]
                     ELSE step]
    BY DEF CompleteStep
  <2>2. CASE step.status = "pending"
    BY <1>2, <2>1, <2>2 DEF Integrated, IntegrationInv, Typed, RunType
  <2>3. CASE step.status # "pending"
    <3>1. runs' = [runs EXCEPT ![k].steps[i] = step]
      BY <2>1, <2>3
    <3>2. [runs[k].steps EXCEPT ![i] = step] = runs[k].steps
      BY <1>3
    <3>3. [runs[k] EXCEPT !.steps = runs[k].steps] = runs[k]
      BY <1>2 DEF RunType
    <3>4. runs' = [runs EXCEPT ![k] = [runs[k] EXCEPT !.steps = [runs[k].steps EXCEPT ![i] = step]]]
      BY <1>2, <3>1 DEF IntegrationInv, Typed
    <3> QED
      BY <2>3, <3>2, <3>3, <3>4
  <2> QED
    BY <2>2, <2>3
<1>4. /\ UNCHANGED <<item, git, drift, faults>>
      /\ integrations' = [integrations EXCEPT ![Seen(p).item][r].status = "integrated"]
      /\ recorded' = [recorded EXCEPT ![r] = proc[p].result] /\ Goto(p, "finish", i)
  BY DEF CompleteStep
<1>5. Has(target[r], step.item, step.head)
  BY <1>1, <1>2, <1>3 DEF ProcessOK, SameSteps, Repository
<1>6. \A j \in 1..Len(runs[k].steps) : j < i => runs[k].steps[j].status # "pending"
  BY <1>3 DEF EndedBefore, SameSteps
<1>7. /\ RunsOK' /\ runs' \in [Runs -> RunType] /\ RunsGrow(runs, runs') /\ NoneMade
      /\ runs'[k].status # "absent" /\ runs'[k].repository = runs[k].repository
      /\ SameSteps(runs[k].steps, runs'[k].steps) /\ runs'[k].steps[i].status # "pending"
  <2>1. CASE step.status = "pending"
    <3>1. /\ new \in RunType /\ RunOK(new, target) /\ SameSteps(runs[k].steps, new.steps)
          /\ new.status = runs[k].status /\ new.repository = runs[k].repository
          /\ new.steps[i].status = "integrated"
      <4>1. Has(target[runs[k].repository], runs[k].steps[i].item, runs[k].steps[i].head)
        BY <1>5 DEF Repository
      <4>2. /\ runs[k] \in RunType /\ runs[k].status # "absent" /\ RunOK(runs[k], target)
            /\ i \in 1..Len(runs[k].steps) /\ proc[p].result \in Nat
            /\ runs[k].steps[i].status = "pending"
        BY <1>2, <1>3, <2>1
      <4> HIDE DEF k, i
      <4> QED
        BY <1>6, <4>1, <4>2, StepIntegrated
    <3>2. new.steps[i].status # "pending"
      BY <3>1
    <3>3. runs' = [runs EXCEPT ![k] = new] /\ UNCHANGED target
      BY <1>4, <1>12, <2>1 DEF git
    <3> HIDE DEF new
    <3>4. RunsOK' /\ runs' \in [Runs -> RunType] /\ RunsGrow(runs, runs')
      BY <1>2, <3>1, <3>3, OneRun
    <3>5. runs'[k] = new /\ \A j \in Runs \ {k} : runs'[j] = runs[j]
      BY <1>2, <3>3 DEF IntegrationInv, Typed
    <3> QED
      BY <1>2, <3>1, <3>2, <3>4, <3>5 DEF NoneMade
  <2>2. CASE step.status # "pending"
    <3>1. runs' = runs /\ UNCHANGED target
      BY <1>2, <1>4, <1>12, <2>2 DEF IntegrationInv, Typed, git
    <3> QED
      BY <1>2, <2>2, <3>1, Unchanged DEF IntegrationInv, Typed, RunsOK, NoneMade, SameSteps
  <2> QED
    BY <2>1, <2>2
<1> HIDE DEF new, step
<1>8. PICK n \in ProcessType :
        /\ proc' = [proc EXCEPT ![p] = n] /\ n.pc = "finish" /\ n.pos = i
        /\ n.run = k /\ n.seen = proc[p].seen
  <2>1. "finish" \in Phases
    BY DEF Phases
  <2> QED
    BY <1>2, <1>4, <2>1, Going
<1>9. ProcessOK(n, runs', target)
  <2>1. SameSteps(n.seen, runs'[k].steps) /\ Len(n.seen) = Len(runs[k].steps)
    BY ZenonT(60), <1>3, <1>7, <1>8, SameTwice DEF SameSteps
  <2>2. \A j \in 1..Len(n.seen) : j < i => runs'[k].steps[j].status # "pending"
    BY <1>6, <1>7, <2>1 DEF SameSteps
  <2> QED
    <3>1. k \in Runs /\ runs'[k].status # "absent" /\ i \in 1..Len(n.seen)
          /\ runs'[k].steps[i].status # "pending"
      BY <1>2, <1>3, <1>7, <2>1
    <3> HIDE DEF k, i
    <3> QED
      BY ONLY <1>8, <2>1, <2>2, <3>1 DEF ProcessOK, Walking, Stepping
<1>10. recorded' \in [Repositories -> Nat]
  BY <1>2, <1>4 DEF IntegrationInv, Typed
<1>11. /\ integrations' \in [Items -> [Repositories -> Row]] /\ HeadsStay
       /\ \A e \in Items, q \in Repositories :
            integrations'[e][q].status # "absent" => integrations'[e][q].head # 0
  <2>1. "integrated" \in {"integrated", "conflict"}
    OBVIOUS
  <2> QED
    BY <1>2, <1>3, <1>4, <2>1, RowSettled
<1> QED
  BY <1>4, <1>7, <1>8, <1>9, <1>10, <1>11, OneRecords

\* A failure ends the step and those after it that are pending.
LEMMA StepsFail ==
  ASSUME NEW run \in RunType, run.status # "absent", NEW T, RunOK(run, T),
         NEW i \in 1..Len(run.steps),
         \A j \in 1..Len(run.steps) : j < i => run.steps[j].status # "pending"
  PROVE  /\ Failed(run, i) \in RunType /\ RunOK(Failed(run, i), T)
         /\ SameSteps(run.steps, Failed(run, i).steps)
         /\ Failed(run, i).status # "absent" /\ Failed(run, i).repository = run.repository
<1> DEFINE new == Failed(run, i)
           steps == FailedSteps(run.steps, i)
<1>1. run.steps \in Seq(RunSteps) /\ Len(run.steps) \in Nat /\ DOMAIN run.steps = 1..Len(run.steps)
  BY LenProperties DEF RunType
<1>2. \A j \in 1..Len(run.steps) :
        steps[j] = IF run.steps[j].status # "pending" \/ j < i THEN run.steps[j]
                   ELSE [run.steps[j] EXCEPT !.status = IF j = i THEN "conflict" ELSE "skipped"]
  BY <1>1 DEF FailedSteps
<1>3. ASSUME NEW j \in 1..Len(run.steps)
      PROVE  /\ steps[j] \in RunSteps
             /\ steps[j].item = run.steps[j].item /\ steps[j].head = run.steps[j].head
             /\ \/ steps[j].status = run.steps[j].status
                \/ steps[j].status \in {"conflict", "skipped"}
             /\ steps[j].status # "pending"
  <2>1. run.steps[j] \in RunSteps
    BY <1>1, ElementOfSeq
  <2> HIDE DEF steps
  <2> QED
    BY <1>2, <2>1 DEF RunSteps, StepStatuses
<1>4. steps \in [1..Len(run.steps) -> RunSteps]
  <2>1. steps = [j \in 1..Len(run.steps) |-> steps[j]]
    BY <1>1 DEF FailedSteps
  <2> HIDE DEF steps
  <2> QED
    BY <1>3, <2>1
<1>5. steps \in Seq(RunSteps) /\ Len(steps) = Len(run.steps)
  BY <1>1, <1>4, IsASeq, LenProperties
<1> HIDE DEF steps
<1>6. /\ new \in RunType /\ new.steps = steps /\ new.status = "conflict"
      /\ new.repository = run.repository
  BY <1>5 DEF RunType, RunStatuses, steps, Failed
<1> HIDE DEF new
<1>7. SameSteps(run.steps, steps)
  BY <1>3, <1>5 DEF SameSteps
<1>8. RunOK(new, T)
  <2>1. ASSUME NEW g \in 1..Len(steps), NEW j \in 1..Len(steps), g < j
        PROVE  /\ Before(steps[g].item, steps[j].item)
               /\ steps[j].status = "integrated" => steps[g].status = "integrated"
               /\ steps[g].status \in {"conflict", "skipped"} => steps[j].status # "pending"
    <3>1. /\ Before(run.steps[g].item, run.steps[j].item)
          /\ run.steps[j].status = "integrated" => run.steps[g].status = "integrated"
      BY <1>5, <2>1 DEF RunOK
    <3>2. run.steps[g].status = "integrated" => steps[g].status = "integrated"
      BY <1>2, <1>5
    <3> QED
      BY <1>3, <1>5, <3>1, <3>2
  <2>2. \A j \in 1..Len(steps) : steps[j].status = "integrated" =>
          Has(T[run.repository], steps[j].item, steps[j].head)
    BY <1>3, <1>5 DEF RunOK
  <2>3. new.repository \in Repositories
    BY <1>6 DEF RunOK
  <2> QED
    BY ONLY <1>6, <2>1, <2>2, <2>3 DEF RunOK
<1> QED
  BY <1>6, <1>7, <1>8 DEF new

\* A step that cannot be merged ends its run.
LEMMA FailedStep ==
  ASSUME IntegrationInv, NEW p \in Processes, FailStep(p)
  PROVE  IntegrationInv'
<1> DEFINE k == proc[p].run
           i == proc[p].pos
           r == Repository(p)
           new == Failed(runs[k], i)
<1>1. proc[p].pc \in Stepping /\ proc[p].pc # "idle"
  BY DEF FailStep, At, Stepping
<1>2. /\ k \in Runs /\ runs[k] \in RunType /\ RunOK(runs[k], target) /\ runs[k].status # "absent"
      /\ r \in Repositories
  BY <1>1, Acts
<1>3. /\ SameSteps(proc[p].seen, runs[k].steps) /\ i \in 1..Len(runs[k].steps) /\ EndedBefore(p, i)
      /\ Seen(p).item \in Items /\ integrations[Seen(p).item][r].head # 0
  BY <1>1, WorksOn
<1>4. /\ UNCHANGED <<item, git, recorded, drift, faults>> /\ UNCHANGED target
      /\ integrations' = [integrations EXCEPT ![Seen(p).item][r].status = "conflict"]
      /\ proc' = [proc EXCEPT ![p] = Idle]
  BY DEF FailStep, FailedRow, Return, git
<1>5. runs' = [runs EXCEPT ![k] = new]
  BY <1>2 DEF FailStep, Failed, IntegrationInv, Typed, RunType
<1>6. /\ new \in RunType /\ RunOK(new, target) /\ SameSteps(runs[k].steps, new.steps)
      /\ new.status # "absent" /\ new.repository = runs[k].repository
  <2>1. \A j \in 1..Len(runs[k].steps) : j < i => runs[k].steps[j].status # "pending"
    BY <1>3 DEF EndedBefore, SameSteps
  <2> QED
    BY <1>2, <1>3, <2>1, StepsFail
<1> HIDE DEF new
<1>7. RunsOK' /\ runs' \in [Runs -> RunType] /\ RunsGrow(runs, runs')
  BY <1>2, <1>4, <1>5, <1>6, OneRun
<1>8. NoneMade
  BY <1>2, <1>5 DEF NoneMade, IntegrationInv, Typed
<1>9. /\ integrations' \in [Items -> [Repositories -> Row]] /\ HeadsStay
      /\ \A e \in Items, q \in Repositories :
           integrations'[e][q].status # "absent" => integrations'[e][q].head # 0
  <2>1. "conflict" \in {"integrated", "conflict"}
    OBVIOUS
  <2> QED
    BY <1>2, <1>3, <1>4, <2>1, RowSettled
<1> QED
  BY <1>4, <1>7, <1>8, <1>9, IdleOK, OneRecords DEF IntegrationInv, Typed

\* The items of a queue, in order.
LEMMA QueueInOrder ==
  ASSUME NEW S \in SUBSET Items
  PROVE  /\ Cardinality(S) \in Nat /\ InOrder(S) \in [1..Cardinality(S) -> S]
         /\ \A i, j \in 1..Cardinality(S) : i < j => Before(InOrder(S)[i], InOrder(S)[j])
<1> DEFINE n == Cardinality(S)
           P(s) == \A i, j \in DOMAIN s : i < j => Before(s[i], s[j])
<1>1. n \in Nat /\ \E s \in [1..n -> S] : P(s)
  BY SortAssumption
<1>2. InOrder(S) = CHOOSE s \in [1..n -> S] : P(s)
  BY DEF InOrder
<1>3. InOrder(S) \in [1..n -> S] /\ P(InOrder(S))
  <2> HIDE DEF n, P
  <2> QED
    BY <1>1, <1>2
<1> QED
  BY <1>1, <1>3

\* The steps of a new run are those of the queue, pending and in order.
LEMMA PreviewStep ==
  ASSUME IntegrationInv, NEW k \in Runs, NEW r \in Repositories, Preview(k, r)
  PROVE  IntegrationInv'
<1> DEFINE S == {d \in Items : Queued(d, r)}
           n == Cardinality(S)
           queue == Candidates(r)
           steps == [i \in DOMAIN queue |-> [item |-> queue[i], head |-> integrations[queue[i]][r].head,
                                             status |-> "pending", result |-> 0]]
           run == [status |-> "previewed", repository |-> r, steps |-> steps]
<1>1. /\ runs[k].status = "absent" /\ runs' = [runs EXCEPT ![k] = run] /\ UNCHANGED target
      /\ UNCHANGED <<item, integrations, git, recorded, proc, drift, faults>>
  BY DEF Preview, git
<1>2. /\ n \in Nat /\ queue \in [1..n -> S]
      /\ \A i, j \in 1..n : i < j => Before(queue[i], queue[j])
  <2>1. S \in SUBSET Items
    OBVIOUS
  <2>2. queue = InOrder(S)
    BY DEF Candidates
  <2> HIDE DEF S
  <2> QED
    BY <2>1, <2>2, QueueInOrder
<1>3. ASSUME NEW i \in 1..n
      PROVE  /\ queue[i] \in Items /\ integrations[queue[i]][r].head \in 1..MaxHead
  <2>1. queue[i] \in Items /\ integrations[queue[i]][r].status \in {"pending", "conflict"}
    BY <1>2 DEF Queued
  <2>2. integrations[queue[i]][r] \in Row /\ integrations[queue[i]][r].head # 0
    BY <2>1 DEF IntegrationInv, Typed
  <2>3. integrations[queue[i]][r].head \in 0..MaxHead
    BY <2>2 DEF Row
  <2> QED
    BY <2>1, <2>2, <2>3, BoundsAssumption
<1> HIDE DEF queue, n
<1>4. DOMAIN steps = 1..n /\ \A i \in 1..n : steps[i] \in RunSteps /\ steps[i].status = "pending"
        /\ steps[i].item = queue[i] /\ steps[i].head = integrations[queue[i]][r].head
  BY <1>2, <1>3 DEF RunSteps, StepStatuses
<1>5. steps \in Seq(RunSteps) /\ Len(steps) = n
  <2>1. steps \in [1..n -> RunSteps]
    BY <1>2, <1>4
  <2> HIDE DEF steps
  <2> QED
    BY <1>2, <2>1, IsASeq, LenProperties
<1> HIDE DEF steps
<1>6. /\ run \in RunType /\ run.status = "previewed" /\ run.repository = r /\ run.steps = steps
  BY <1>5 DEF RunType, RunStatuses
<1> HIDE DEF run
<1>7. RunOK(run, target)
  BY <1>2, <1>4, <1>5, <1>6 DEF RunOK
<1>8. RunsOK' /\ runs' \in [Runs -> RunType] /\ RunsGrow(runs, runs')
  BY <1>1, <1>6, <1>7, OneRun
<1>9. ProcessesOK' /\ proc' \in [Processes -> ProcessType]
  BY <1>1, <1>8, NobodyActs, Unchanged
<1>10. Typed'
  BY <1>1, <1>8, <1>9 DEF IntegrationInv, Typed, item, git
<1>11. RowsExist'
  <2> SUFFICES ASSUME NEW j \in Runs, NEW i \in 1..Len(runs'[j].steps)
               PROVE  integrations[runs'[j].steps[i].item][runs'[j].repository].head # 0
    BY <1>1 DEF RowsExist
  <2>1. CASE j = k
    <3>1. runs'[j] = run
      BY <1>1, <2>1 DEF IntegrationInv, Typed
    <3>2. i \in 1..n /\ runs'[j].steps[i].item = queue[i] /\ runs'[j].repository = r
      BY <1>4, <1>5, <1>6, <3>1
    <3> QED
      BY <1>3, <3>2, BoundsAssumption
  <2>2. CASE j # k
    BY <1>1, <2>2 DEF IntegrationInv, Typed, RowsExist
  <2> QED
    BY <2>1, <2>2
<1> QED
  BY <1>8, <1>9, <1>10, <1>11 DEF IntegrationInv

-----------------------------------------------------------------------------
(* What sessions and people do.                                            *)

\* Neither runs nor processes change, nor what was merged.
LEMMA Around ==
  ASSUME IntegrationInv, UNCHANGED <<git, runs, proc, drift, faults>>,
         status' \in [Items -> WorkItemStatuses],
         interrupted' \in [Items -> {"no", "stuck"} \cup Runs],
         integrations' \in [Items -> [Repositories -> Row]], HeadsStay,
         \A d \in Items, r \in Repositories :
           integrations'[d][r].status # "absent" => integrations'[d][r].head # 0,
         sourceHead' \in [Items -> [Repositories -> 1..MaxHead]],
         branch' \in [Items -> [Repositories -> 1..MaxHead]],
         recorded' \in [Repositories -> Nat]
  PROVE  IntegrationInv'
<1>1. UNCHANGED target /\ UNCHANGED runs
  BY DEF git
<1>2. RunsOK' /\ runs' \in [Runs -> RunType] /\ RunsGrow(runs, runs') /\ NoneMade
  BY <1>1, Unchanged DEF IntegrationInv, Typed, RunsOK, NoneMade
<1>3. ProcessesOK' /\ proc' \in [Processes -> ProcessType]
  BY <1>1, <1>2, NobodyActs, Unchanged
<1>4. Typed'
  BY <1>2, <1>3 DEF IntegrationInv, Typed, git
<1> QED
  BY <1>2, <1>3, <1>4, RowsStay DEF IntegrationInv

\* An item is moved, or its interrupted completion finished.
LEMMA ItemStep ==
  ASSUME IntegrationInv, NEW d \in Items,
         Repair(d) \/ \E to \in Moves, repos \in SUBSET Repositories : Checkpoint(d, to, repos)
  PROVE  IntegrationInv'
<1>1. CASE Repair(d)
  BY <1>1, Around DEF Repair, IntegrationInv, Typed, WorkItemStatuses, HeadsStay
<1>2. ASSUME NEW to \in Moves, NEW repos \in SUBSET Repositories, Checkpoint(d, to, repos)
      PROVE  IntegrationInv'
  <2>1. status' \in [Items -> WorkItemStatuses]
    <3>1. status[d] \in WorkItemStatuses
      BY DEF IntegrationInv, Typed
    <3>2. to \in WorkItemStatuses
      BY <1>2, <3>1 DEF Checkpoint, ValidateTransition, WorkItemStatuses, Successors, TerminalStatuses
    <3> QED
      BY <1>2, <3>2 DEF Checkpoint, IntegrationInv, Typed
  <2>2. interrupted' \in [Items -> {"no", "stuck"} \cup Runs]
    BY <1>2 DEF Checkpoint, IntegrationInv, Typed
  <2>3. /\ integrations' \in [Items -> [Repositories -> Row]] /\ HeadsStay
        /\ \A e \in Items, r \in Repositories :
             integrations'[e][r].status # "absent" => integrations'[e][r].head # 0
    <3> DEFINE rows == QueueReview(integrations[d], sourceHead[d], repos)
    <3>1. /\ integrations[d] \in [Repositories -> Row] /\ sourceHead[d] \in [Repositories -> 1..MaxHead]
          /\ integrations \in [Items -> [Repositories -> Row]]
          /\ \A e \in Items, r \in Repositories :
               integrations[e][r].status # "absent" => integrations[e][r].head # 0
      BY DEF IntegrationInv, Typed
    <3>2. ASSUME NEW r \in Repositories
          PROVE  /\ QueuedRow(integrations[d][r], sourceHead[d][r]) \in Row
                 /\ QueuedRow(integrations[d][r], sourceHead[d][r]).head # 0
      <4>1. sourceHead[d][r] \in 1..MaxHead /\ integrations[d][r] \in Row
        BY <3>1
      <4> QED
        BY <4>1, BoundsAssumption DEF QueuedRow, Row, IntegrationStatuses
    <3>3. /\ rows \in [Repositories -> Row]
          /\ \A r \in Repositories : rows[r] = integrations[d][r] \/ rows[r].head # 0
      BY <3>1, <3>2 DEF QueueReview
    <3>4. integrations' = integrations \/ integrations' = [integrations EXCEPT ![d] = rows]
      BY <1>2 DEF Checkpoint
    <3> HIDE DEF rows
    <3> QED
      BY <3>1, <3>3, <3>4 DEF HeadsStay
  <2> QED
    BY <1>2, <2>1, <2>2, <2>3, Around DEF Checkpoint, IntegrationInv, Typed
<1> QED
  BY <1>1, <1>2

\* A branch gets a commit, or a row is reconciled with its checkout.
LEMMA SourceStep ==
  ASSUME IntegrationInv, NEW d \in Items, NEW r \in Repositories,
         CommitSource(d, r) \/ ReconcileSource(d, r)
  PROVE  IntegrationInv'
<1>1. branch \in [Items -> [Repositories -> 1..MaxHead]] /\ sourceHead \in [Items -> [Repositories -> 1..MaxHead]]
  BY DEF IntegrationInv, Typed
<1>2. branch[d][r] \in 1..MaxHead /\ (CommitSource(d, r) => branch[d][r] + 1 \in 1..MaxHead)
  BY <1>1, BoundsAssumption DEF CommitSource
<1>3. branch' \in [Items -> [Repositories -> 1..MaxHead]]
  <2>1. CASE CommitSource(d, r)
    <3>1. branch' = [branch EXCEPT ![d] = [branch[d] EXCEPT ![r] = branch[d][r] + 1]]
      BY <1>1, <2>1 DEF CommitSource
    <3>2. [branch[d] EXCEPT ![r] = branch[d][r] + 1] \in [Repositories -> 1..MaxHead]
      BY <1>1, <1>2, <2>1
    <3> QED
      BY <1>1, <3>1, <3>2
  <2>2. CASE ReconcileSource(d, r)
    BY <1>1, <2>2 DEF ReconcileSource
  <2> QED
    BY <2>1, <2>2
<1>4. sourceHead' \in [Items -> [Repositories -> 1..MaxHead]]
  BY <1>1, <1>2 DEF CommitSource, ReconcileSource
<1>5. /\ UNCHANGED <<status, interrupted, integrations, git, recorded, runs, proc, drift, faults>>
  BY DEF CommitSource, ReconcileSource
<1> QED
  BY <1>3, <1>4, <1>5, Around DEF IntegrationInv, Typed, HeadsStay

\* The recorded head of a Feature checkout is reconciled.
LEMMA TargetStep ==
  ASSUME IntegrationInv, NEW r \in Repositories, ReconcileTarget(r)
  PROVE  IntegrationInv'
<1>1. recorded' \in [Repositories -> Nat]
  <2>1. target[r] \in Seq(Commits)
    BY DEF IntegrationInv, Typed
  <2>2. Len(target[r]) \in Nat
    BY <2>1, LenProperties
  <2> QED
    BY <2>2 DEF ReconcileTarget, IntegrationInv, Typed
<1> QED
  BY <1>1, Around DEF ReconcileTarget, item, IntegrationInv, Typed, HeadsStay

-----------------------------------------------------------------------------
(* The theorems.                                                           *)

\* Nothing has happened.
LEMMA Beginning == Init => IntegrationInv
<1> SUFFICES ASSUME Init PROVE IntegrationInv
  OBVIOUS
<1>1. <<>> \in Seq(RunSteps) /\ <<>> \in Seq(Commits) /\ Len(<<>>) = 0
  OBVIOUS
<1>2. 1 \in 1..MaxHead /\ 0 \in 0..MaxHead /\ 0 \in 0..MaxDrift /\ 0 \in 0..MaxFaults
  BY BoundsAssumption
<1>3. NoRun \in RunType /\ NoRun.status = "absent" /\ NoRun.steps = <<>>
  BY <1>1 DEF NoRun, RunType, RunStatuses
<1>4. NoIntegration \in Row /\ NoIntegration.status = "absent"
  BY <1>2 DEF NoIntegration, Row, IntegrationStatuses
<1>5. \A k \in Runs : runs[k] = NoRun
  BY DEF Init
<1>6. Typed
  BY <1>1, <1>2, <1>3, <1>4, IdleOK DEF Init, Typed, WorkItemStatuses
<1>7. RunOK(NoRun, target)
  BY <1>1, <1>3 DEF RunOK
<1>8. RunsOK
  BY <1>5, <1>7 DEF RunsOK
<1>9. ProcessesOK
  <2>1. \A p \in Processes : proc[p] = Idle
    BY DEF Init
  <2> QED
    BY <2>1, IdleOK DEF ProcessesOK
<1>10. RowsExist
  BY <1>1, <1>3, <1>5 DEF RowsExist
<1> QED
  BY <1>6, <1>8, <1>9, <1>10 DEF IntegrationInv

\* Every step keeps the invariant.
LEMMA Preserved == IntegrationInv /\ [Next]_vars => IntegrationInv'
<1> SUFFICES ASSUME IntegrationInv, [Next]_vars PROVE IntegrationInv'
  OBVIOUS
<1>1. CASE UNCHANGED vars
  BY <1>1 DEF vars, IntegrationInv, Typed, RunsOK, ProcessesOK, RowsExist
<1>2. ASSUME NEW k \in Runs, NEW r \in Repositories, Preview(k, r) PROVE IntegrationInv'
  BY <1>2, PreviewStep
<1>3. ASSUME NEW p \in Processes, NEW k \in Runs, Confirm(p, k) \/ Resume(p, k) PROVE IntegrationInv'
  BY <1>3, StartStep
<1>4. ASSUME NEW p \in Processes, Step(p) PROVE IntegrationInv'
  <2>1. CASE Load(p) \/ ReadTarget(p) \/ Resolve(p) \/ Drift(p)
    BY <2>1, LoadStep, HeadStep, DriftStep
  <2>2. CASE Early(p) \/ Preflight(p) \/ Candidate(p)
    BY <2>2, EarlyStep, PreflightStep, CandidateStep
  <2>3. CASE Source(p) \/ ContainsStep(p)
    BY <2>3, CompareStep
  <2>4. CASE Merge(p) \/ CompleteStep(p) \/ FailStep(p)
    BY <2>4, MergeStep, CompletedStep, FailedStep
  <2>5. CASE Finish(p) \/ Closing(p) \/ Seal(p) \/ FailRun(p)
    BY <2>5, FinishStep, ClosingStep, EndStep
  <2> QED
    BY <1>4, <2>1, <2>2, <2>3, <2>4, <2>5 DEF Step
<1>5. ASSUME NEW p \in Processes, Crash(p) \/ MergeFault(p) PROVE IntegrationInv'
  BY <1>5, CrashStep, MergeStep
<1>6. ASSUME NEW d \in Items,
             Repair(d) \/ \E to \in Moves, repos \in SUBSET Repositories : Checkpoint(d, to, repos)
      PROVE  IntegrationInv'
  BY <1>6, ItemStep
<1>7. ASSUME NEW d \in Items, NEW r \in Repositories, CommitSource(d, r) \/ ReconcileSource(d, r)
      PROVE  IntegrationInv'
  BY <1>7, SourceStep
<1>8. ASSUME NEW r \in Repositories, CommitTarget(r) \/ ReconcileTarget(r) \/ Conclude(r)
      PROVE  IntegrationInv'
  BY <1>8, CommitStep, TargetStep
<1>9. CASE Command
  BY <1>2, <1>3, <1>9 DEF Command
<1>10. CASE Environment
  BY <1>5, <1>6, <1>7, <1>8, <1>10 DEF Environment
<1> QED
  BY <1>1, <1>4, <1>9, <1>10 DEF Next

\* The invariant holds, whoever executes a run and whatever fails.
THEOREM Inductive == Spec => []IntegrationInv
BY Beginning, Preserved, PTL DEF Spec

\* Every variable has its type.
THEOREM Types == Spec => []TypeOK
<1>1. IntegrationInv => TypeOK
  <2> SUFFICES ASSUME IntegrationInv PROVE TypeOK
    OBVIOUS
  <2>1. \A k \in Runs : /\ runs[k].status \in RunStatuses
                        /\ runs[k].repository \in Repositories \cup {"none"}
                        /\ runs[k].steps \in Seq(RunSteps)
    BY DEF IntegrationInv, Typed, RunType
  <2>2. \A p \in Processes : /\ proc[p].pc \in Phases \cup {"idle"}
                             /\ proc[p].run \in Runs \cup {"none"}
                             /\ proc[p].seen \in Seq(RunSteps)
                             /\ proc[p].pos \in Nat /\ proc[p].result \in Nat
    BY DEF IntegrationInv, Typed, ProcessType
  <2> QED
    BY <2>1, <2>2 DEF IntegrationInv, Typed, TypeOK, Row
<1> QED
  BY <1>1, Inductive, PTL

\* A run and the steps it has.
LEMMA RunKnown ==
  ASSUME IntegrationInv, NEW k \in Runs
  PROVE  /\ RunOK(runs[k], target) /\ DOMAIN runs[k].steps = 1..Len(runs[k].steps)
         /\ \A i \in 1..Len(runs[k].steps) : runs[k].steps[i] \in RunSteps
<1>1. runs[k].steps \in Seq(RunSteps)
  BY DEF IntegrationInv, Typed, RunType
<1> QED
  BY <1>1, ElementOfSeq, LenProperties DEF IntegrationInv, RunsOK

\* A step that is recorded as integrated is merged into its Feature checkout, also
\* when several processes execute the run and are killed between merge and record.
THEOREM Merged == Spec => []StepsAreMerged
<1>1. IntegrationInv => StepsAreMerged
  BY RunKnown DEF StepsAreMerged, RunOK, Has, Contains
<1> QED
  BY <1>1, Inductive, PTL

\* A run that is completed has integrated all of its steps, whatever another process
\* that executes it makes of them.
THEOREM Completed == Spec => []CompletedRunsIntegrated
<1>1. IntegrationInv => CompletedRunsIntegrated
  BY RunKnown DEF CompletedRunsIntegrated, RunOK
<1> QED
  BY <1>1, Inductive, PTL

\* Steps are integrated in the order of dependencies, for any number of processes.
THEOREM DependenciesFirst == Spec => []DependencyOrder
<1>1. IntegrationInv => DependencyOrder
  <2> SUFFICES ASSUME IntegrationInv, NEW k \in Runs,
                      NEW i \in DOMAIN runs[k].steps, NEW j \in DOMAIN runs[k].steps,
                      runs[k].steps[j].status = "integrated",
                      <<runs[k].steps[j].item, runs[k].steps[i].item>> \in Dependencies
               PROVE  runs[k].steps[i].status = "integrated"
    BY DEF DependencyOrder
  <2> DEFINE d == runs[k].steps[j].item
             e == runs[k].steps[i].item
  <2>1. /\ RunOK(runs[k], target) /\ i \in 1..Len(runs[k].steps) /\ j \in 1..Len(runs[k].steps)
        /\ d \in Items /\ e \in Items
    BY RunKnown DEF RunSteps
  <2>2. /\ DependencyLayer[d] \in Nat /\ DependencyLayer[e] \in Nat
        /\ DependencyLayer[e] < DependencyLayer[d]
    BY <2>1, LayersAssumption
  <2>3. ~Before(d, e)
    BY <2>2 DEF Before
  <2>4. ~(j < i) /\ i # j
    BY <2>1, <2>2, <2>3 DEF RunOK
  <2>5. i < j
    BY <2>1, <2>4
  <2> QED
    BY <2>1, <2>5 DEF RunOK
<1> QED
  BY <1>1, Inductive, PTL

-----------------------------------------------------------------------------
(* What was integrated stays, when one process executes the runs: another *)
(* could fail a step that the first has completed.                         *)

OneExecutor == \A p, q \in Processes : p = q

\* The states of a process before the outcome of its step is known.
Settling == {"source", "resolve", "contains", "merge", "failstep"}

\* The row of the step a process works on.
RowOf(p) == integrations[Seen(p).item][Repository(p)]

Unsettled == \A p \in Processes : proc[p].pc \in Settling => RowOf(p).status # "integrated"

\* What a step may do to the rows, and what it may not unless it completes one.
RowsKept ==
  \A d \in Items, r \in Repositories :
    integrations[d][r].status = "integrated" =>
      \/ integrations'[d][r].status = "integrated"
      \/ integrations'[d][r].head # integrations[d][r].head
NoneSettled ==
  \A d \in Items, r \in Repositories :
    integrations[d][r].status # "integrated" => integrations'[d][r].status # "integrated"

\* A process works on the step it worked on, or takes one that is queued.
SameStep(p) ==
  proc'[p].pc \in Settling =>
    /\ proc'[p].seen = proc[p].seen /\ proc'[p].pos = proc[p].pos /\ proc'[p].run = proc[p].run
    /\ runs'[proc[p].run].repository = runs[proc[p].run].repository
    /\ \/ proc[p].pc \in Settling
       \/ proc[p].pc = "candidate" /\ ~AfterLast(p) /\ RowOf(p).status # "integrated"

\* The fields of a process that goes on, or returns.
LEMMA Fields ==
  ASSUME IntegrationInv, NEW p \in Processes
  PROVE  /\ \A pc, pos : Goto(p, pc, pos) =>
              /\ proc'[p].pc = pc /\ proc'[p].pos = pos /\ proc'[p].run = proc[p].run
              /\ proc'[p].seen = proc[p].seen
         /\ Return(p) => proc'[p].pc = "idle"
BY DEF IntegrationInv, Typed, ProcessType, Goto, Return, Idle

\* A process that works on the same step as before finds its row as it was.
LEMMA StaysUnsettled ==
  ASSUME IntegrationInv, Unsettled, NoneSettled, \A p \in Processes : SameStep(p)
  PROVE  Unsettled'
<1> SUFFICES ASSUME NEW p \in Processes, proc'[p].pc \in Settling
             PROVE  integrations'[Seen(p)'.item][Repository(p)'].status # "integrated"
  BY DEF Unsettled, RowOf
<1>1. /\ Seen(p)' = Seen(p) /\ Repository(p)' = Repository(p)
      /\ proc[p].pc \in Settling \/ (proc[p].pc = "candidate" /\ ~AfterLast(p))
      /\ RowOf(p).status # "integrated"
  BY DEF SameStep, Seen, Repository, Unsettled
<1>2. proc[p].pc # "idle"
  BY <1>1 DEF Settling
<1>3. Seen(p) \in RunSteps /\ Repository(p) \in Repositories
  BY <1>1, <1>2, Acts DEF Settling, Stepping, Walking
<1> QED
  BY <1>1, <1>3 DEF NoneSettled, RowOf, RunSteps

\* Most steps of a process leave the rows alone.
LEMMA LeavesRows ==
  ASSUME IntegrationInv, NEW p \in Processes,
         (Step(p) /\ ~CompleteStep(p) /\ ~FailStep(p)) \/ Crash(p) \/ MergeFault(p)
  PROVE  UNCHANGED integrations /\ SameStep(p)
<1>1. UNCHANGED integrations
  BY DEF Step, Load, ReadTarget, Drift, FailRun, Early, Preflight, Candidate, Source, Resolve,
         ContainsStep, Merge, Finish, Closing, Seal, Crash, MergeFault, Reading, CompleteItem
<1>2. CASE proc'[p].pc \notin Settling
  BY <1>1, <1>2 DEF SameStep
<1>3. CASE UNCHANGED runs /\ Goto(p, "source", proc[p].pos) /\ Candidate(p)
  <2>1. CASE ~AfterLast(p) /\ Queued(Seen(p).item, Repository(p))
    BY <1>1, <1>3, <2>1, Fields DEF SameStep, Queued, RowOf, Candidate, At
  <2>2. CASE ~(~AfterLast(p) /\ Queued(Seen(p).item, Repository(p)))
    <3>1. proc[p].pc = "candidate"
      BY <1>3 DEF Candidate, At
    <3>2. proc'[p].pc \in {"closing", "candidate", "idle"}
      BY <1>3, <2>2, Fields DEF Candidate
    <3> QED
      BY <1>1, <3>2 DEF SameStep, Settling
  <2> QED
    BY <2>1, <2>2
<1>4. CASE /\ UNCHANGED runs /\ proc[p].pc \in Settling /\ proc'[p].run = proc[p].run
           /\ proc'[p].seen = proc[p].seen /\ proc'[p].pos = proc[p].pos
  BY <1>1, <1>4 DEF SameStep
<1>5. CASE Load(p) \/ ReadTarget(p) \/ Drift(p) \/ FailRun(p) \/ Seal(p) \/ Crash(p)
  <2>1. proc'[p].pc \in {"target", "drift", "early", "failrun", "idle"}
    BY <1>5, Fields DEF Load, ReadTarget, Drift, FailRun, Seal, Crash, IntegrationInv, Typed, ProcessType
  <2> QED
    BY <1>2, <2>1 DEF Settling
<1>6. CASE Early(p) \/ Preflight(p) \/ Finish(p) \/ Closing(p)
  <2>1. proc'[p].pc \in {"preflight", "early", "candidate", "closing", "seal", "idle"}
    BY <1>6, Fields DEF Early, Preflight, Finish, Closing, CompleteItem, ItemCompleted,
       ItemInterrupted, ItemLeftAlone, ItemRefused
  <2> QED
    BY <1>2, <2>1 DEF Settling
<1>7. CASE Candidate(p)
  <2>1. UNCHANGED runs /\ (Goto(p, "source", proc[p].pos) \/ proc'[p].pc \in {"closing", "candidate", "idle"})
    BY <1>7, Fields DEF Candidate, Reading
  <2> QED
    BY <1>2, <1>3, <1>7, <2>1 DEF Settling
<1>8. CASE Source(p) \/ ContainsStep(p)
  <2>1. /\ UNCHANGED runs /\ proc[p].pc \in Settling
        /\ \E pc : Goto(p, pc, proc[p].pos)
    BY <1>8 DEF Source, ContainsStep, At, Reading, Settling
  <2> QED
    BY <1>4, <2>1, Fields
<1>9. CASE Resolve(p)
  BY <1>4, <1>9 DEF Resolve, At, Reading, Settling, IntegrationInv, Typed, ProcessType
<1>10. CASE Merge(p) \/ MergeFault(p)
  <2>1. UNCHANGED runs /\ proc[p].pc \in Settling
    BY <1>10 DEF Merge, MergeFault, At, Settling
  <2>2. \/ Goto(p, "failstep", proc[p].pos)
        \/ \E result : proc' = [proc EXCEPT ![p].pc = "complete", ![p].result = result]
    BY <1>10 DEF Merge, MergeFault, AfterMerge
  <2>3. CASE Goto(p, "failstep", proc[p].pos)
    BY <1>4, <2>1, <2>3, Fields
  <2>4. CASE \E result : proc' = [proc EXCEPT ![p].pc = "complete", ![p].result = result]
    BY <1>4, <2>1, <2>4 DEF IntegrationInv, Typed, ProcessType
  <2> QED
    BY <2>2, <2>3, <2>4
<1> QED
  BY <1>5, <1>6, <1>7, <1>8, <1>9, <1>10 DEF Step

\* A review queues a row anew, with its head if that is newer.
LEMMA ReviewQueues ==
  ASSUME IntegrationInv, NEW d \in Items, NEW to \in Moves, NEW repos \in SUBSET Repositories,
         Checkpoint(d, to, repos)
  PROVE  NoneSettled /\ RowsKept
<1> DEFINE rows == QueueReview(integrations[d], sourceHead[d], repos)
<1>1. integrations \in [Items -> [Repositories -> Row]] /\ DOMAIN integrations[d] = Repositories
  BY DEF IntegrationInv, Typed
<1>2. ASSUME NEW r \in Repositories
      PROVE  \/ rows[r] = integrations[d][r]
             \/ /\ rows[r] = [status |-> "pending", head |-> sourceHead[d][r]]
                /\ integrations[d][r].status = "integrated" => integrations[d][r].head # sourceHead[d][r]
  BY <1>1 DEF QueueReview, QueuedRow
<1>3. integrations' = integrations \/ integrations' = [integrations EXCEPT ![d] = rows]
  BY DEF Checkpoint
<1> HIDE DEF rows
<1>4. ASSUME NEW e \in Items, NEW r \in Repositories
      PROVE  \/ integrations'[e][r] = integrations[e][r]
             \/ /\ integrations'[e][r].status = "pending"
                /\ integrations[e][r].status = "integrated" =>
                     integrations'[e][r].head # integrations[e][r].head
  <2>1. integrations'[e] = integrations[e] \/ (e = d /\ integrations'[e] = rows)
    BY <1>1, <1>3
  <2>2. CASE e = d /\ integrations'[e] = rows
    <3>1. CASE rows[r] = integrations[d][r]
      BY <2>2, <3>1
    <3>2. CASE /\ rows[r] = [status |-> "pending", head |-> sourceHead[d][r]]
               /\ integrations[d][r].status = "integrated" =>
                    integrations[d][r].head # sourceHead[d][r]
      BY <2>2, <3>2
    <3> QED
      BY <1>2, <3>1, <3>2
  <2> QED
    BY <2>1, <2>2
<1> QED
  BY <1>4 DEF NoneSettled, RowsKept

\* Nothing happens to the rows.
LEMMA RowsUnchanged == UNCHANGED integrations => NoneSettled /\ RowsKept
BY DEF NoneSettled, RowsKept

\* What is integrated stays so, and a process still works on what is not.
LEMMA Settles ==
  ASSUME OneExecutor, IntegrationInv, Unsettled, [Next]_vars
  PROVE  Unsettled' /\ RowsKept
<1>1. ASSUME UNCHANGED <<proc, runs>> PROVE \A q \in Processes : SameStep(q)
  BY <1>1 DEF SameStep
<1>2. ASSUME UNCHANGED <<proc, runs, integrations>> PROVE Unsettled' /\ RowsKept
  BY <1>1, <1>2, StaysUnsettled, RowsUnchanged
<1>3. ASSUME NEW p \in Processes, proc'[p].pc \notin Settling PROVE Unsettled'
  BY <1>3 DEF Unsettled, OneExecutor
<1>4. ASSUME NEW p \in Processes,
             (Step(p) /\ ~CompleteStep(p) /\ ~FailStep(p)) \/ Crash(p) \/ MergeFault(p)
      PROVE  Unsettled' /\ RowsKept
  <2>1. \A q \in Processes : SameStep(q)
    BY <1>4, LeavesRows DEF OneExecutor
  <2> QED
    BY <1>4, <2>1, LeavesRows, StaysUnsettled, RowsUnchanged
<1>5. ASSUME NEW p \in Processes, CompleteStep(p) \/ FailStep(p) PROVE Unsettled' /\ RowsKept
  <2> DEFINE d == Seen(p).item
             r == Repository(p)
  <2>1. proc[p].pc \in Stepping /\ (FailStep(p) => proc[p].pc \in Settling)
    BY <1>5 DEF CompleteStep, FailStep, At, Stepping, Settling
  <2>2. d \in Items /\ r \in Repositories
    <3>1. proc[p].pc # "idle"
      BY <2>1 DEF Stepping
    <3> QED
      BY <2>1, <3>1, WorksOn, Acts
  <2>3. proc'[p].pc \in {"finish", "idle"}
    BY <1>5, Fields DEF CompleteStep, FailStep
  <2>4. PICK st \in {"integrated", "conflict"} :
          /\ integrations' = [integrations EXCEPT ![d][r].status = st]
          /\ st = "conflict" => integrations[d][r].status # "integrated"
    <3>1. CASE CompleteStep(p)
      BY <3>1 DEF CompleteStep
    <3>2. CASE FailStep(p)
      <4>1. integrations[d][r].status # "integrated"
        BY <2>1, <3>2 DEF Unsettled, RowOf
      <4>2. integrations' = [integrations EXCEPT ![d][r].status = "conflict"]
        BY <3>2 DEF FailStep, FailedRow
      <4> QED
        BY <4>1, <4>2
    <3> QED
      BY <1>5, <3>1, <3>2
  <2>5. RowsKept
    <3>1. integrations \in [Items -> [Repositories -> Row]]
      BY DEF IntegrationInv, Typed
    <3> HIDE DEF d, r
    <3>2. \A e \in Items, q \in Repositories :
            \/ integrations'[e][q] = integrations[e][q]
            \/ e = d /\ q = r /\ integrations'[e][q] = [integrations[d][r] EXCEPT !.status = st]
      BY <2>2, <2>4, <3>1
    <3>3. integrations[d][r] \in Row
      BY <2>2, <3>1
    <3> QED
      BY <2>4, <3>2, <3>3 DEF RowsKept, Row
  <2> QED
    BY <1>3, <2>3, <2>5 DEF Settling
<1>6. ASSUME NEW k \in Runs, NEW r \in Repositories, Preview(k, r) PROVE Unsettled' /\ RowsKept
  <2>1. UNCHANGED <<proc, integrations>> /\ runs[k].status = "absent"
    BY <1>6 DEF Preview
  <2>2. \A j \in Runs \ {k} : runs'[j] = runs[j]
    BY <1>6 DEF Preview, IntegrationInv, Typed
  <2>3. ASSUME NEW q \in Processes, proc[q].pc \in Settling
        PROVE  proc[q].run \in Runs \ {k}
    BY <2>1, <2>3, Acts DEF Settling
  <2>4. \A q \in Processes : SameStep(q)
    BY <2>1, <2>2, <2>3 DEF SameStep
  <2> QED
    BY <2>1, <2>4, StaysUnsettled, RowsUnchanged
<1>7. ASSUME NEW p \in Processes, NEW k \in Runs, Confirm(p, k) \/ Resume(p, k)
      PROVE  Unsettled' /\ RowsKept
  <2>1. UNCHANGED integrations /\ proc'[p].pc = "load"
    BY <1>7 DEF Confirm, Resume, Reading, Idle, IntegrationInv, Typed
  <2> QED
    BY <1>3, <2>1, RowsUnchanged DEF Settling
<1>8. ASSUME NEW d \in Items, NEW to \in Moves, NEW repos \in SUBSET Repositories,
             Checkpoint(d, to, repos)
      PROVE  Unsettled' /\ RowsKept
  <2>1. UNCHANGED <<proc, runs>>
    BY <1>8 DEF Checkpoint
  <2> QED
    BY <1>1, <1>8, <2>1, ReviewQueues, StaysUnsettled
<1>9. ASSUME NEW d \in Items,
             Repair(d) \/ \E r \in Repositories : CommitSource(d, r) \/ ReconcileSource(d, r)
      PROVE  Unsettled' /\ RowsKept
  BY <1>2, <1>9 DEF Repair, CommitSource, ReconcileSource
<1>10. ASSUME NEW r \in Repositories, CommitTarget(r) \/ ReconcileTarget(r) \/ Conclude(r)
       PROVE  Unsettled' /\ RowsKept
  BY <1>2, <1>10 DEF CommitTarget, ReconcileTarget, Conclude
<1>11. CASE UNCHANGED vars
  BY <1>2, <1>11 DEF vars
<1>12. CASE Command
  BY <1>6, <1>7, <1>12 DEF Command
<1>13. CASE \E p \in Processes : Step(p)
  BY <1>4, <1>5, <1>13
<1>14. CASE Environment
  BY <1>4, <1>8, <1>9, <1>10, <1>14 DEF Environment
<1> QED
  BY <1>11, <1>12, <1>13, <1>14 DEF Next

\* What was integrated stays integrated until a newer head is queued, when one process
\* executes the runs: the premise of DoneIsReady in WorkItemStateProofs.
THEOREM IntegratedKept == OneExecutor /\ Spec => IntegratedStays
<1> SUFFICES ASSUME OneExecutor PROVE Spec => IntegratedStays
  OBVIOUS
<1>1. Init => IntegrationInv /\ Unsettled
  BY Beginning DEF Init, Unsettled, Idle, Settling
<1>2. IntegrationInv /\ Unsettled /\ [Next]_vars => (IntegrationInv /\ Unsettled)'
  BY Preserved, Settles
<1>3. IntegrationInv /\ Unsettled /\ [Next]_vars =>
        [\A d \in Items, r \in Repositories :
           integrations[d][r].status = "integrated" =>
             \/ integrations'[d][r].status = "integrated"
             \/ integrations'[d][r].head # integrations[d][r].head]_vars
  BY Settles DEF RowsKept
<1> QED
  BY <1>1, <1>2, <1>3, PTL DEF Spec, IntegratedStays

-----------------------------------------------------------------------------
(* What is done is merged: some head of the item, of which there is one    *)
(* only where every branch has one.                                        *)

\* Some commit of the item's branch is in the target.
SomeMerged(d, r) == Has(target[r], d, 1)

\* A row is integrated only where the item is merged.
RowsMerged ==
  \A d \in Items, r \in Repositories : integrations[d][r].status = "integrated" => SomeMerged(d, r)

\* An item is done, or a run has staged its completion.
Finished(d) == status[d] = "done" \/ interrupted[d] \in Runs

\* What is done, or about to be, is merged everywhere.
ItemsMerged == \A d \in Items : Finished(d) => \A r \in Repositories : SomeMerged(d, r)

\* No commit leaves a Feature checkout.
LEMMA NoneLeaves ==
  ASSUME IntegrationInv, [Next]_vars
  PROVE  TargetsGrow(target, target')
<1>1. ASSUME NEW p \in Processes, Merge(p) \/ MergeFault(p) PROVE TargetsGrow(target, target')
  <2> DEFINE r == Repository(p)
             commit == [item |-> Seen(p).item, head |-> Seen(p).head]
  <2>1. r \in Repositories /\ Seen(p) \in RunSteps
    <3>1. proc[p].pc = "merge"
      BY <1>1 DEF Merge, MergeFault, At
    <3> QED
      BY <3>1, Acts DEF Stepping
  <2>2. commit \in Commits
    BY <2>1 DEF RunSteps, Commits
  <2>3. \/ target' = target
        \/ target' = [target EXCEPT ![r] = Append(target[r], commit)]
    <3>1. target = [target EXCEPT ![r] = target[r]]
      BY <2>1 DEF IntegrationInv, Typed
    <3> QED
      BY <1>1, <3>1 DEF Merge, MergeFault, git
  <2> HIDE DEF r, commit
  <2> QED
    BY <2>1, <2>2, <2>3, Appending, Unchanged
<1>2. ASSUME NEW r \in Repositories, CommitTarget(r) \/ Conclude(r) PROVE TargetsGrow(target, target')
  <2>1. \/ target' = target
        \/ \E commit \in Commits : target' = [target EXCEPT ![r] = Append(target[r], commit)]
    BY <1>2 DEF CommitTarget, Conclude, IntegrationInv, Typed, Commits
  <2> QED
    BY <2>1, Appending, Unchanged
<1>3. ASSUME NEW p \in Processes, Step(p), ~Merge(p) PROVE UNCHANGED target
  BY <1>3 DEF Step, Load, ReadTarget, Drift, FailRun, Early, Preflight, Candidate, Source, Resolve,
     ContainsStep, CompleteStep, Finish, FailStep, Closing, Seal, Reading, CompleteItem, git
<1>4. ASSUME Command PROVE UNCHANGED target
  BY <1>4 DEF Command, Preview, Confirm, Resume, Reading, git
<1>5. ASSUME Environment,
             ~\E p \in Processes : MergeFault(p),
             ~\E r \in Repositories : CommitTarget(r) \/ Conclude(r)
      PROVE  UNCHANGED target
  BY <1>5 DEF Environment, Crash, Repair, Checkpoint, CommitSource, ReconcileSource,
     ReconcileTarget, git
<1>6. CASE UNCHANGED vars
  BY <1>6, Unchanged DEF vars
<1> QED
  BY <1>1, <1>2, <1>3, <1>4, <1>5, <1>6, Unchanged DEF Next

\* A row is settled as integrated by complete_step, of a step that is merged.
LEMMA SettledIsMerged ==
  ASSUME IntegrationInv, [Next]_vars, NEW d \in Items, NEW r \in Repositories,
         integrations[d][r].status # "integrated", integrations'[d][r].status = "integrated"
  PROVE  SomeMerged(d, r)
<1>1. ASSUME NEW p \in Processes, CompleteStep(p) PROVE SomeMerged(d, r)
  <2>1. proc[p].pc = "complete"
    BY <1>1 DEF CompleteStep, At
  <2>2. /\ Seen(p) \in RunSteps /\ Repository(p) \in Repositories
        /\ Has(target[Repository(p)], Seen(p).item, Seen(p).head)
    BY <2>1, Acts DEF Stepping, ProcessOK, Seen, Repository
  <2>3. integrations' = [integrations EXCEPT ![Seen(p).item][Repository(p)].status = "integrated"]
    BY <1>1 DEF CompleteStep
  <2>4. d = Seen(p).item /\ r = Repository(p)
    BY <2>2, <2>3 DEF IntegrationInv, Typed, RunSteps
  <2>5. target[r] \in Seq(Commits) /\ \A i \in DOMAIN target[r] : target[r][i].head \in Nat
    <3>1. \A c \in Commits : c.head \in Nat
      BY BoundsAssumption DEF Commits, Foreign
    <3> QED
      BY <3>1, ElementOfSeq, LenProperties DEF IntegrationInv, Typed
  <2>6. Seen(p).head \in Nat /\ Seen(p).head >= 1
    BY <2>2, BoundsAssumption DEF RunSteps
  <2> QED
    BY <2>2, <2>4, <2>5, <2>6 DEF SomeMerged, Has
<1>2. ASSUME NEW p \in Processes, FailStep(p) PROVE FALSE
  <2>1. proc[p].pc = "failstep"
    BY <1>2 DEF FailStep, At
  <2>2. Seen(p).item \in Items /\ Repository(p) \in Repositories
    BY <2>1, Acts, WorksOn DEF Stepping
  <2>3. integrations' = [integrations EXCEPT ![Seen(p).item][Repository(p)].status = "conflict"]
    BY <1>2 DEF FailStep, FailedRow
  <2> QED
    BY <2>2, <2>3 DEF IntegrationInv, Typed
<1>3. ASSUME NEW p \in Processes, Step(p), ~CompleteStep(p), ~FailStep(p) PROVE FALSE
  BY <1>3, LeavesRows
<1>4. ASSUME NEW e \in Items, NEW to \in Moves, NEW repos \in SUBSET Repositories,
             Checkpoint(e, to, repos)
      PROVE  FALSE
  BY <1>4, ReviewQueues DEF NoneSettled
<1>5. CASE Command
  BY <1>5 DEF Command, Preview, Confirm, Resume, Reading
<1>6. CASE Environment
  BY <1>4, <1>6 DEF Environment, Crash, MergeFault, Repair, CommitSource, ReconcileSource,
     CommitTarget, ReconcileTarget, Conclude
<1>7. CASE UNCHANGED vars
  BY <1>7 DEF vars
<1> QED
  BY <1>1, <1>2, <1>3, <1>5, <1>6, <1>7 DEF Next

\* An item is completed only when all of its rows are integrated.
LEMMA CompletedIsReady ==
  ASSUME IntegrationInv, [Next]_vars, NEW d \in Items, ~Finished(d), Finished(d)'
  PROVE  IntegrationReady(integrations[d])
<1>1. ASSUME NEW p \in Processes, proc[p].pc # "idle", NEW e, NEW pc, NEW pos, CompleteItem(p, e, pc, pos)
      PROVE  IntegrationReady(integrations[d])
  <2>1. CASE ItemCompleted(p, e, pc, pos)
    BY <2>1, KeysAssumption DEF ItemCompleted, Completable, Finished, IntegrationInv, Typed
  <2>2. CASE ItemInterrupted(p, e)
    BY <2>2 DEF ItemInterrupted, Completable, Finished, IntegrationInv, Typed
  <2>3. CASE ItemLeftAlone(p, e, pc, pos) \/ ItemRefused(p, e, pc, pos)
    BY <2>3 DEF ItemLeftAlone, ItemRefused, Finished
  <2> QED
    BY <1>1, <2>1, <2>2, <2>3 DEF CompleteItem
<1>2. CASE UNCHANGED <<status, interrupted>>
  BY <1>2 DEF Finished
<1>3. ASSUME NEW p \in Processes, Early(p) \/ Finish(p) \/ Closing(p)
      PROVE  IntegrationReady(integrations[d])
  <2>1. proc[p].pc # "idle"
    BY <1>3 DEF Early, Finish, Closing, At
  <2>2. UNCHANGED <<status, interrupted>> \/ \E pc, pos : CompleteItem(p, Seen(p).item, pc, pos)
    BY <1>3 DEF Early, Finish, Closing, Reading, item
  <2> QED
    BY <1>1, <1>2, <2>1, <2>2
<1>4. ASSUME NEW p \in Processes, Step(p), ~Early(p), ~Finish(p), ~Closing(p)
      PROVE  UNCHANGED <<status, interrupted>>
  BY <1>4 DEF Step, Load, ReadTarget, Drift, FailRun, Preflight, Candidate, Source, Resolve,
     ContainsStep, Merge, CompleteStep, FailStep, Seal, Reading, item
<1>5. CASE Command
  BY <1>2, <1>5 DEF Command, Preview, Confirm, Resume, Reading, item
<1>6. ASSUME NEW e \in Items, Repair(e) PROVE FALSE
  BY <1>6, KeysAssumption DEF Repair, Finished, IntegrationInv, Typed
<1>7. ASSUME NEW e \in Items, NEW to \in Moves, NEW repos \in SUBSET Repositories,
             Checkpoint(e, to, repos)
      PROVE  FALSE
  BY <1>7, KeysAssumption DEF Checkpoint, ValidateTransition, Finished, IntegrationInv, Typed
<1>8. CASE Environment
  BY <1>2, <1>6, <1>7, <1>8 DEF Environment, Crash, MergeFault, CommitSource, ReconcileSource,
     CommitTarget, ReconcileTarget, Conclude, item
<1>9. CASE UNCHANGED vars
  BY <1>2, <1>9 DEF vars
<1> QED
  BY <1>2, <1>3, <1>4, <1>5, <1>8, <1>9 DEF Next

\* The two facts are inductive: rows are settled of merged steps, items are completed
\* when their rows are settled, and commits stay.
LEMMA StaysMerged ==
  ASSUME IntegrationInv, RowsMerged, ItemsMerged, [Next]_vars
  PROVE  (RowsMerged /\ ItemsMerged)'
<1>1. \A d \in Items, r \in Repositories : SomeMerged(d, r) => SomeMerged(d, r)'
  BY NoneLeaves DEF TargetsGrow, SomeMerged
<1>2. RowsMerged'
  BY <1>1, SettledIsMerged DEF RowsMerged
<1>3. ASSUME NEW d \in Items, Finished(d)' PROVE \A r \in Repositories : SomeMerged(d, r)'
  <2>1. CASE Finished(d)
    BY <1>1, <2>1 DEF ItemsMerged
  <2>2. CASE ~Finished(d)
    <3>1. IntegrationReady(integrations[d]) /\ DOMAIN integrations[d] = Repositories
      BY <1>3, <2>2, CompletedIsReady DEF IntegrationInv, Typed
    <3> QED
      BY <1>1, <3>1 DEF IntegrationReady, RowsMerged
  <2> QED
    BY <2>1, <2>2
<1> QED
  BY <1>2, <1>3 DEF ItemsMerged

\* Together they hold of every state.
LEMMA MergedInvariant == Spec => [](IntegrationInv /\ RowsMerged /\ ItemsMerged)
<1>1. Init => RowsMerged /\ ItemsMerged
  BY KeysAssumption DEF Init, RowsMerged, ItemsMerged, Finished, NoIntegration
<1> QED
  BY <1>1, Beginning, Preserved, StaysMerged, PTL DEF Spec

\* An item is done only when a commit of its branch is merged into every Feature checkout
\* (complete_step, complete_integration), whatever crashed, conflicted or left review in
\* between and however many processes execute its runs.
THEOREM DoneInEveryRepository ==
  Spec => [](\A d \in Items : status[d] = "done" => \A r \in Repositories : Contains(r, d, 1))
<1>1. RowsMerged /\ ItemsMerged =>
        \A d \in Items : status[d] = "done" => \A r \in Repositories : Contains(r, d, 1)
  BY DEF ItemsMerged, Finished, SomeMerged, Contains, Has
<1> QED
  BY <1>1, MergedInvariant, PTL

\* Where a branch is not committed to again it is the head that was accepted (DoneIsMerged).
\* Where it is, an older head of an item may settle the row of a newer one: complete_step
\* does not compare the heads.
THEOREM DoneMerged == MaxHead = 1 /\ Spec => []DoneIsMerged
<1> SUFFICES ASSUME MaxHead = 1 PROVE Spec => []DoneIsMerged
  OBVIOUS
<1>1. IntegrationInv /\ ItemsMerged => DoneIsMerged
  <2> SUFFICES ASSUME IntegrationInv, ItemsMerged, NEW d \in Items, status[d] = "done",
                      NEW r \in Repositories
               PROVE  Contains(r, d, integrations[d][r].head)
    BY DEF DoneIsMerged
  <2>1. SomeMerged(d, r) /\ integrations[d][r].head \in 0..1
    BY DEF ItemsMerged, Finished, IntegrationInv, Typed, Row
  <2>2. \A i \in DOMAIN target[r] : target[r][i].head \in Nat
    <3>1. \A c \in Commits : c.head \in Nat
      BY BoundsAssumption DEF Commits, Foreign
    <3> QED
      BY <3>1, ElementOfSeq, LenProperties DEF IntegrationInv, Typed
  <2> QED
    BY <2>1, <2>2 DEF SomeMerged, Has, Contains
<1> QED
  BY <1>1, MergedInvariant, PTL

-----------------------------------------------------------------------------
(* A process that runs alone: nobody changes the steps it has read before it *)
(* has come to them.                                                         *)

\* Only one process runs.
Alone == \A p, q \in Processes : ~At(p, "idle") /\ ~At(q, "idle") => p = q

\* A step that a process has still to come to, in the part of the run it is in.
Reread == {"target", "drift", "failrun", "early", "preflight"}
Ahead(c, j) ==
  \/ c.pc \in Reread
  \/ c.pc \in {"candidate", "complete"} \cup Settling /\ j >= c.pos
  \/ c.pc = "finish" /\ j > c.pos

\* A process that runs alone, with runs R: its run is running, the steps it has still to
\* come to are as it read them, and it works on steps that were pending.
WorkerOK(c, R) ==
  c.pc # "idle" =>
    /\ R[c.run].status = "running"
    /\ \A j \in 1..Len(c.seen) : Ahead(c, j) => c.seen[j] = R[c.run].steps[j]
    /\ c.pc \in Stepping => c.seen[c.pos].status = "pending"

\* Runs that were not confirmed have done nothing, and a repository has one that is.
RunsApart ==
  /\ \A k \in Runs : runs[k].status = "previewed" =>
       \A i \in 1..Len(runs[k].steps) : runs[k].steps[i].status = "pending"
  /\ \A k, l \in Runs :
       /\ runs[k].status = "running" /\ runs[l].status = "running"
       /\ runs[k].repository = runs[l].repository
       => k = l

Works == RunsApart /\ \A p \in Processes : WorkerOK(proc[p], runs)


\* The others are idle while one process runs alone.
LEMMA Others ==
  ASSUME IntegrationInv, Alone, NEW p \in Processes, proc[p].pc # "idle",
         \A q \in Processes \ {p} : proc'[q] = proc[q]
  PROVE  \A q \in Processes \ {p} : proc[q].pc = "idle" /\ proc'[q].pc = "idle"
BY DEF Alone, At

\* What a step leaves of the process that takes it.
LEMMA Progress ==
  ASSUME IntegrationInv, NEW p \in Processes, Step(p) \/ Crash(p) \/ MergeFault(p)
  PROVE  /\ proc[p].pc # "idle" /\ \A q \in Processes \ {p} : proc'[q] = proc[q]
         /\ proc'[p].pc # "idle" => proc'[p].run = proc[p].run
         /\ proc'[p].pc # "idle" /\ ~Load(p) => proc'[p].seen = proc[p].seen
<1>1. proc[p].pc # "idle"
  BY DEF Step, Load, ReadTarget, Drift, FailRun, Early, Preflight, Candidate, Source, Resolve,
     ContainsStep, Merge, CompleteStep, Finish, FailStep, Closing, Seal, Crash, MergeFault, At
<1>2. \/ Return(p)
      \/ \E pc, pos : Goto(p, pc, pos)
      \/ \E pc, result : proc' = [proc EXCEPT ![p].pc = pc, ![p].result = result]
      \/ Load(p)
  <2>1. CASE Return(p) \/ \E pc, pos : Goto(p, pc, pos)
    BY <2>1
  <2>2. CASE Early(p) \/ Finish(p) \/ Closing(p)
    BY <2>2 DEF Early, Finish, Closing, CompleteItem, ItemCompleted, ItemInterrupted, ItemLeftAlone,
       ItemRefused
  <2>3. CASE ReadTarget(p) \/ Resolve(p)
    BY <2>3 DEF ReadTarget, Resolve
  <2>4. CASE Merge(p) \/ MergeFault(p)
    BY <2>4 DEF Merge, MergeFault
  <2>5. CASE Drift(p) \/ FailRun(p) \/ Preflight(p) \/ Candidate(p) \/ Source(p) \/ ContainsStep(p)
             \/ CompleteStep(p) \/ FailStep(p) \/ Seal(p) \/ Crash(p)
    BY <2>5 DEF Drift, FailRun, Preflight, Candidate, Source, ContainsStep, CompleteStep, FailStep,
       Seal, Crash
  <2> QED
    BY <2>1, <2>2, <2>3, <2>4, <2>5 DEF Step
<1>3. CASE Return(p)
  BY <1>1, <1>3, Fields DEF Return, IntegrationInv, Typed
<1>4. ASSUME NEW pc, NEW pos, Goto(p, pc, pos)
      PROVE  /\ \A q \in Processes \ {p} : proc'[q] = proc[q]
             /\ proc'[p].run = proc[p].run /\ proc'[p].seen = proc[p].seen
  BY <1>4, Fields DEF Goto, IntegrationInv, Typed
<1>5. ASSUME NEW pc, NEW result, proc' = [proc EXCEPT ![p].pc = pc, ![p].result = result]
      PROVE  /\ \A q \in Processes \ {p} : proc'[q] = proc[q]
             /\ proc'[p].run = proc[p].run /\ proc'[p].seen = proc[p].seen
  BY <1>5 DEF IntegrationInv, Typed, ProcessType
<1>6. CASE Load(p)
  BY <1>1, <1>6 DEF Load, IntegrationInv, Typed, ProcessType
<1> QED
  BY <1>1, <1>2, <1>3, <1>4, <1>5, <1>6

\* A process that goes on to a step it has read, or goes past one.
LEMMA WorksOnward ==
  ASSUME NEW c, NEW n, NEW R, NEW S, WorkerOK(c, R), c.pc # "idle",
         n.run = c.run, n.seen = c.seen, S[c.run].status = "running",
         \A j \in 1..Len(c.seen) : Ahead(n, j) => Ahead(c, j) /\ S[c.run].steps[j] = R[c.run].steps[j],
         n.pc \in Stepping => c.seen[n.pos].status = "pending"
  PROVE  WorkerOK(n, S)
BY DEF WorkerOK

\* The run of a process that runs, and the steps it has read.
LEMMA RunOf ==
  ASSUME IntegrationInv, Works, NEW p \in Processes, proc[p].pc # "idle"
  PROVE  /\ proc[p].run \in Runs /\ runs[proc[p].run].status = "running"
         /\ WorkerOK(proc[p], runs)
         /\ \A j \in 1..Len(runs[proc[p].run].steps) :
              runs[proc[p].run].steps[j].status \in {"pending", "integrated"}
         /\ proc[p].pc # "load" =>
              /\ Len(proc[p].seen) = Len(runs[proc[p].run].steps)
              /\ \A j \in 1..Len(proc[p].seen) :
                   /\ proc[p].seen[j].item = runs[proc[p].run].steps[j].item
                   /\ proc[p].seen[j].status = "integrated" =>
                        runs[proc[p].run].steps[j].status = "integrated"
<1>1. proc[p].run \in Runs /\ runs[proc[p].run].status = "running" /\ WorkerOK(proc[p], runs)
  BY Acts DEF Works, WorkerOK
<1>2. \A j \in 1..Len(runs[proc[p].run].steps) :
        runs[proc[p].run].steps[j].status \in {"pending", "integrated"}
  BY <1>1, Acts DEF RunOK
<1>3. proc[p].pc # "load" => SameSteps(proc[p].seen, runs[proc[p].run].steps)
  BY Acts DEF ProcessOK
<1> QED
  BY <1>1, <1>2, <1>3 DEF SameSteps

\* A process alone goes on in a run nobody else changes, where it has read what is to come.
LEMMA ReadsOn ==
  ASSUME IntegrationInv, Works, NEW p \in Processes,
         (Step(p) /\ ~CompleteStep(p)) \/ Crash(p) \/ MergeFault(p)
  PROVE  WorkerOK(proc'[p], runs') /\ (UNCHANGED runs \/ Return(p))
<1>1. /\ proc[p].pc # "idle" /\ WorkerOK(proc[p], runs) /\ runs[proc[p].run].status = "running"
      /\ proc[p].run \in Runs
      /\ proc[p] \in ProcessType /\ Len(proc[p].seen) \in Nat /\ proc[p].pos \in Nat
      /\ proc'[p].pc # "idle" => proc'[p].run = proc[p].run
      /\ proc'[p].pc # "idle" /\ ~Load(p) => proc'[p].seen = proc[p].seen
  BY Progress, RunOf, Acts
<1>14. UNCHANGED runs \/ Return(p)
  BY DEF Step, Load, ReadTarget, Drift, FailRun, Early, Preflight, Candidate, Source, Resolve,
     ContainsStep, Merge, Finish, FailStep, Closing, Seal, Crash, MergeFault, Reading, CompleteItem
<1> SUFFICES ASSUME UNCHANGED runs PROVE WorkerOK(proc'[p], runs')
  BY <1>14, Fields DEF WorkerOK
<1> DEFINE On ==
      /\ \A j \in 1..Len(proc[p].seen) : Ahead(proc'[p], j) => Ahead(proc[p], j)
      /\ proc'[p].pc \in Stepping => Seen(p)'.status = "pending"
<1>2. CASE proc'[p].pc = "idle"
  BY <1>2 DEF WorkerOK
<1>3. CASE proc'[p].pc # "idle" /\ ~Load(p) /\ On
  BY <1>1, <1>3, WorksOnward DEF Seen
<1>4. CASE Load(p)
  <2>1. proc'[p].run = proc[p].run /\ proc'[p].seen = runs[proc[p].run].steps /\ proc'[p].pc = "target"
    BY <1>1, <1>4 DEF Load, IntegrationInv, Typed, ProcessType
  <2> QED
    BY <1>1, <2>1 DEF WorkerOK, Stepping
<1>5. CASE ReadTarget(p) \/ Drift(p)
  <2>1. /\ proc[p].pc \in Reread
        /\ proc'[p].pc \in {"drift", "early", "failrun"}
    BY <1>1, <1>5, Fields DEF ReadTarget, Drift, At, Reread, IntegrationInv, Typed, ProcessType
  <2> QED
    BY <1>3, <1>5, <2>1 DEF Ahead, Stepping, Load, At, Reread
<1>6. CASE Early(p)
  <2>1. proc[p].pc = "early" /\ proc'[p].pc \in {"early", "preflight", "idle"}
    BY <1>6, Fields DEF Early, At, CompleteItem, ItemCompleted, ItemInterrupted, ItemLeftAlone,
       ItemRefused
  <2> QED
    BY <1>2, <1>3, <1>6, <2>1 DEF Ahead, Stepping, Load, At, Reread
<1>7. CASE Preflight(p)
  <2>1. proc[p].pc = "preflight" /\ proc'[p].pc \in {"preflight", "candidate", "idle"}
    BY <1>7, Fields DEF Preflight, At
  <2> QED
    BY <1>2, <1>3, <1>7, <2>1 DEF Ahead, Stepping, Load, At, Reread
<1>8. CASE Candidate(p)
  <2>1. /\ proc[p].pc = "candidate"
        /\ \/ proc'[p].pc = "idle" \/ proc'[p].pc = "closing"
           \/ proc'[p].pc = "candidate" /\ proc'[p].pos = proc[p].pos + 1
           \/ proc'[p].pc = "source" /\ proc'[p].pos = proc[p].pos /\ Seen(p).status = "pending"
    BY <1>8, Fields DEF Candidate, At
  <2>2. \A j \in 1..Len(proc[p].seen) : j >= proc[p].pos + 1 => j >= proc[p].pos
    BY <1>1
  <2> QED
    BY <1>1, <1>2, <1>3, <1>8, <2>1, <2>2 DEF Ahead, Stepping, Load, At, Reread, Seen, Settling
<1>9. CASE Source(p) \/ Resolve(p) \/ ContainsStep(p) \/ Merge(p) \/ MergeFault(p)
  <2>1. /\ proc[p].pc \in {"source", "resolve", "contains", "merge"}
        /\ proc'[p].pos = proc[p].pos
        /\ proc'[p].pc \in {"resolve", "failstep", "contains", "complete", "merge"}
    <3>1. CASE Source(p) \/ ContainsStep(p)
      BY <3>1, Fields DEF Source, ContainsStep, At
    <3>2. CASE Resolve(p) \/ Merge(p) \/ MergeFault(p)
      BY <1>1, <3>2, Fields DEF Resolve, Merge, MergeFault, AfterMerge, At, IntegrationInv, Typed,
         ProcessType
    <3> QED
      BY <1>9, <3>1, <3>2
  <2>2. Seen(p).status = "pending"
    BY <1>1, <2>1 DEF WorkerOK, Stepping, Seen
  <2> QED
    BY <1>1, <1>3, <1>9, <2>1, <2>2 DEF Ahead, Stepping, Load, At, Reread, Seen, Settling
<1>10. CASE Finish(p)
  <2>1. /\ proc[p].pc = "finish"
        /\ proc'[p].pc = "idle" \/ (proc'[p].pc = "candidate" /\ proc'[p].pos = proc[p].pos + 1)
    BY <1>10, Fields DEF Finish, At, CompleteItem, ItemCompleted, ItemInterrupted, ItemLeftAlone,
       ItemRefused
  <2>2. \A j \in 1..Len(proc[p].seen) : j >= proc[p].pos + 1 => j > proc[p].pos
    BY <1>1
  <2> QED
    BY <1>1, <1>2, <1>3, <1>10, <2>1, <2>2 DEF Ahead, Stepping, Load, At, Reread, Settling
<1>11. CASE Seal(p) \/ FailRun(p) \/ FailStep(p) \/ Crash(p)
  BY <1>2, <1>11, Fields DEF Seal, FailRun, FailStep, Crash
<1>13. CASE Closing(p)
  <2>1. proc[p].pc = "closing" /\ proc'[p].pc \in {"idle", "closing", "seal"}
    BY <1>13, Fields DEF Closing, At, CompleteItem, ItemCompleted, ItemInterrupted, ItemLeftAlone,
       ItemRefused
  <2> QED
    BY <1>2, <1>3, <1>13, <2>1 DEF Ahead, Stepping, Load, At, Reread, Settling
<1> QED
  BY <1>4, <1>5, <1>6, <1>7, <1>8, <1>9, <1>10, <1>11, <1>13 DEF Step


\* What integrating a step changes in its run.
LEMMA StepRecorded ==
  ASSUME NEW run \in RunType, NEW i \in 1..Len(run.steps), NEW head \in Nat
  PROVE  LET new == Integrated(run, i, head)
         IN  /\ new.status = run.status /\ new.repository = run.repository
             /\ Len(new.steps) = Len(run.steps)
             /\ \A j \in 1..Len(run.steps) : j # i => new.steps[j] = run.steps[j]
             /\ new.steps[i].item = run.steps[i].item /\ new.steps[i].head = run.steps[i].head
             /\ new.steps[i].status = "integrated" /\ new.steps[i].result = head
<1> DEFINE new == Integrated(run, i, head)
           step == [run.steps[i] EXCEPT !.status = "integrated", !.result = head]
           steps == [run.steps EXCEPT ![i] = step]
<1>1. run.steps \in Seq(RunSteps) /\ run.steps[i] \in RunSteps /\ Len(run.steps) \in Nat
  BY ElementOfSeq, LenProperties DEF RunType
<1>2. /\ step \in RunSteps /\ step.status = "integrated" /\ step.result = head
      /\ step.item = run.steps[i].item /\ step.head = run.steps[i].head
  BY <1>1 DEF RunSteps, StepStatuses
<1>3. new = [run EXCEPT !.steps = steps]
  BY DEF Integrated
<1> HIDE DEF step, new
<1>4. /\ steps \in Seq(RunSteps) /\ Len(steps) = Len(run.steps)
      /\ \A j \in 1..Len(run.steps) : steps[j] = IF j = i THEN step ELSE run.steps[j]
  BY <1>1, <1>2, ExceptSeq
<1> HIDE DEF steps
<1>5. new.steps = steps /\ new.status = run.status /\ new.repository = run.repository
  BY <1>3, <1>4 DEF RunType
<1> QED
  BY <1>2, <1>4, <1>5 DEF new

\* What complete_step does, in a run that nobody else changes.
LEMMA Completes ==
  ASSUME IntegrationInv, Works, NEW p \in Processes, CompleteStep(p)
  PROVE  /\ proc[p].pc = "complete" /\ proc'[p].pc = "finish" /\ proc'[p].pos = proc[p].pos
         /\ proc[p].run \in Runs /\ runs[proc[p].run].status = "running"
         /\ proc[p].pos \in 1..Len(runs[proc[p].run].steps)
         /\ runs[proc[p].run].steps[proc[p].pos].status = "pending"
         /\ Seen(p).status = "pending" /\ Seen(p).item \in Items
         /\ Seen(p).item = runs[proc[p].run].steps[proc[p].pos].item
         /\ Repository(p) \in Repositories
         /\ \A k \in Runs \ {proc[p].run} : runs'[k] = runs[k]
         /\ runs'[proc[p].run].status = "running" /\ runs'[proc[p].run].repository = Repository(p)
         /\ Len(runs'[proc[p].run].steps) = Len(runs[proc[p].run].steps)
         /\ \A j \in 1..Len(runs[proc[p].run].steps) :
              /\ j # proc[p].pos => runs'[proc[p].run].steps[j] = runs[proc[p].run].steps[j]
              /\ runs'[proc[p].run].steps[j].item = runs[proc[p].run].steps[j].item
         /\ runs'[proc[p].run].steps[proc[p].pos].status = "integrated"
         /\ runs'[proc[p].run].steps[proc[p].pos].result = proc[p].result
<1> DEFINE k == proc[p].run
           i == proc[p].pos
           new == Integrated(runs[k], i, proc[p].result)
<1>1. proc[p].pc = "complete" /\ Goto(p, "finish", proc[p].pos)
  BY DEF CompleteStep, At
<1>2. proc'[p].pc = "finish" /\ proc'[p].pos = proc[p].pos
  BY <1>1, Fields
<1>3. /\ i \in 1..Len(runs[k].steps) /\ Seen(p).item \in Items
      /\ k \in Runs /\ runs[k].status = "running" /\ proc[p].result \in Nat
      /\ Repository(p) \in Repositories
      /\ WorkerOK(proc[p], runs) /\ Len(proc[p].seen) = Len(runs[k].steps)
      /\ runs[k] \in RunType
  BY <1>1, WorksOn, RunOf, Acts DEF Stepping
<1>4. Seen(p).status = "pending" /\ Seen(p) = runs[k].steps[i]
  BY <1>1, <1>3 DEF WorkerOK, Stepping, Seen, Ahead
<1>5. runs' = [runs EXCEPT ![k] = new]
  <2>1. runs' = [runs EXCEPT ![k].steps[i] =
                   IF runs[k].steps[i].status = "pending"
                     THEN [runs[k].steps[i] EXCEPT !.status = "integrated", !.result = proc[p].result]
                     ELSE runs[k].steps[i]]
    BY DEF CompleteStep
  <2>2. runs' = [runs EXCEPT ![k].steps[i] =
                   [runs[k].steps[i] EXCEPT !.status = "integrated", !.result = proc[p].result]]
    BY <1>4, <2>1
  <2> QED
    BY <1>3, <2>2 DEF Integrated, IntegrationInv, Typed, RunType
<1>6. /\ new.status = runs[k].status /\ new.repository = runs[k].repository
      /\ Len(new.steps) = Len(runs[k].steps)
      /\ \A j \in 1..Len(runs[k].steps) : j # i => new.steps[j] = runs[k].steps[j]
      /\ new.steps[i].item = runs[k].steps[i].item /\ new.steps[i].head = runs[k].steps[i].head
      /\ new.steps[i].status = "integrated" /\ new.steps[i].result = proc[p].result
  <2>1. runs[k] \in RunType /\ i \in 1..Len(runs[k].steps) /\ proc[p].result \in Nat
    BY <1>3
  <2> HIDE DEF k, i
  <2> QED
    BY <2>1, StepRecorded
<1> HIDE DEF new
<1>7. runs'[k] = new /\ \A l \in Runs \ {k} : runs'[l] = runs[l]
  BY <1>3, <1>5 DEF IntegrationInv, Typed
<1>8. \A j \in 1..Len(runs[k].steps) : new.steps[j].item = runs[k].steps[j].item
  BY <1>6
<1>9. runs[k].repository = Repository(p)
  BY DEF Repository
<1> QED
  BY <1>1, <1>2, <1>3, <1>4, <1>6, <1>7, <1>8, <1>9

\* The process that settles a step knows the others as they are.
LEMMA CompletionWorks ==
  ASSUME IntegrationInv, Works, NEW p \in Processes, CompleteStep(p)
  PROVE  WorkerOK(proc'[p], runs')
<1>1. proc'[p].run = proc[p].run /\ proc'[p].seen = proc[p].seen
  <2>1. Goto(p, "finish", proc[p].pos)
    BY DEF CompleteStep
  <2> QED
    BY <2>1, Fields
<1>2. /\ Len(proc[p].seen) = Len(runs[proc[p].run].steps) /\ WorkerOK(proc[p], runs)
      /\ proc[p].pos \in Nat
  BY Completes, RunOf, Acts
<1>3. \A j \in 1..Len(proc[p].seen) : j > proc[p].pos => j >= proc[p].pos /\ j # proc[p].pos
  BY <1>2
<1>4. \A j \in 1..Len(proc[p].seen) :
        Ahead(proc'[p], j) => Ahead(proc[p], j) /\ runs'[proc[p].run].steps[j] = runs[proc[p].run].steps[j]
  BY <1>2, <1>3, Completes DEF Ahead, Reread, Settling
<1>5. /\ proc[p].pc # "idle" /\ runs'[proc[p].run].status = "running"
      /\ proc[p].seen[proc'[p].pos].status = "pending"
  BY Completes DEF Seen
<1> QED
  BY <1>1, <1>2, <1>4, <1>5, WorksOnward

\* Where runs are only ended by a step, and no run begins, the runs stay apart.
LEMMA StayApart ==
  ASSUME RunsApart,
         \A k \in Runs : runs'[k].status \in {"previewed", "running"} =>
           /\ runs'[k].status = runs[k].status /\ runs'[k].repository = runs[k].repository
           /\ runs[k].status = "previewed" => runs'[k].steps = runs[k].steps
  PROVE  RunsApart'
BY DEF RunsApart

\* A run is confirmed, or resumed.
LEMMA StartWorks ==
  ASSUME IntegrationInv, Works, NEW p \in Processes, NEW k \in Runs, Confirm(p, k) \/ Resume(p, k)
  PROVE  Works'
<1>1. /\ proc[p].pc = "idle" /\ proc'[p].pc = "load" /\ proc'[p].run = k /\ proc'[p].seen = <<>>
      /\ \A q \in Processes \ {p} : proc'[q] = proc[q]
      /\ runs'[k].status = "running" /\ runs'[k].repository = runs[k].repository
      /\ \A l \in Runs \ {k} : runs'[l] = runs[l]
      /\ \A l \in Runs : runs'[l].steps = runs[l].steps
  <2>1. /\ proc[p].pc = "idle" /\ proc' = [proc EXCEPT ![p] = [Idle EXCEPT !.pc = "load", !.run = k]]
        /\ runs' = [runs EXCEPT ![k].status = "running"] \/ (runs' = runs /\ runs[k].status = "running")
    BY DEF Confirm, Resume, At, Reading
  <2>2. /\ proc'[p] = [Idle EXCEPT !.pc = "load", !.run = k]
        /\ \A q \in Processes \ {p} : proc'[q] = proc[q]
    BY <2>1 DEF IntegrationInv, Typed
  <2>3. proc'[p].pc = "load" /\ proc'[p].run = k /\ proc'[p].seen = <<>>
    BY <2>2 DEF Idle
  <2>4. /\ runs'[k].status = "running" /\ runs'[k].repository = runs[k].repository
        /\ runs'[k].steps = runs[k].steps /\ \A l \in Runs \ {k} : runs'[l] = runs[l]
    BY <2>1 DEF IntegrationInv, Typed, RunType
  <2> QED
    BY <2>1, <2>2, <2>3, <2>4
<1>2. WorkerOK(proc'[p], runs')
  BY <1>1 DEF WorkerOK, Stepping
<1>3. ASSUME NEW q \in Processes \ {p} PROVE WorkerOK(proc'[q], runs')
  <2>1. proc'[q] = proc[q] /\ WorkerOK(proc[q], runs)
    BY <1>1, <1>3 DEF Works
  <2>2. proc[q].pc # "idle" => proc[q].run \in Runs
    BY <1>3, Acts
  <2> QED
    BY <1>1, <2>1, <2>2 DEF WorkerOK
<1>4. RunsApart'
  <2>1. CASE Confirm(p, k)
    <3>1. Running(runs[k].repository) = {} /\ RunsApart
      BY <2>1 DEF Confirm, Works
    <3> QED
      BY <1>1, <3>1 DEF RunsApart, Running
  <2>2. CASE Resume(p, k)
    BY <1>1, <2>2 DEF Resume, Reading, RunsApart, Works
  <2> QED
    BY <2>1, <2>2
<1> QED
  BY <1>2, <1>3, <1>4 DEF Works

\* A preview makes a run of which no step is taken.
LEMMA PreviewWorks ==
  ASSUME IntegrationInv, Works, NEW k \in Runs, NEW r \in Repositories, Preview(k, r)
  PROVE  Works'
<1> DEFINE queue == Candidates(r)
<1>1. /\ runs[k].status = "absent" /\ proc' = proc
      /\ runs'[k].status = "previewed"
      /\ runs'[k].steps = [i \in DOMAIN queue |->
           [item |-> queue[i], head |-> integrations[queue[i]][r].head,
            status |-> "pending", result |-> 0]]
      /\ \A l \in Runs \ {k} : runs'[l] = runs[l]
  BY DEF Preview, IntegrationInv, Typed
<1>2. ASSUME NEW i \in 1..Len(runs'[k].steps) PROVE runs'[k].steps[i].status = "pending"
  <2>1. IntegrationInv'
    BY PreviewStep
  <2>2. DOMAIN runs'[k].steps = 1..Len(runs'[k].steps)
    BY <2>1, LenProperties DEF IntegrationInv, Typed, RunType
  <2> HIDE DEF queue
  <2> QED
    BY <1>1, <1>2, <2>2
<1>3. RunsApart'
  BY <1>1, <1>2 DEF Works, RunsApart
<1>4. ASSUME NEW q \in Processes PROVE WorkerOK(proc'[q], runs')
  <2>1. WorkerOK(proc[q], runs) /\ (proc[q].pc # "idle" => proc[q].run \in Runs)
    BY Acts DEF Works
  <2> QED
    BY <1>1, <2>1 DEF WorkerOK
<1> QED
  BY <1>3, <1>4 DEF Works

\* A process that runs alone keeps to its run.
LEMMA WorksAlone ==
  ASSUME IntegrationInv, Works, Alone, [Next]_vars
  PROVE  Works'
<1>1. ASSUME NEW p \in Processes, Step(p) \/ Crash(p) \/ MergeFault(p) PROVE Works'
  <2>1. \A q \in Processes \ {p} : proc'[q].pc = "idle"
    BY <1>1, Progress, Others
  <2>2. WorkerOK(proc'[p], runs')
    BY <1>1, ReadsOn, CompletionWorks
  <2>3. ASSUME NEW k \in Runs, runs'[k].status \in {"previewed", "running"}
        PROVE  /\ runs'[k].status = runs[k].status /\ runs'[k].repository = runs[k].repository
               /\ runs[k].status = "previewed" => runs'[k].steps = runs[k].steps
    <3>1. CASE CompleteStep(p)
      BY <3>1, Completes DEF Repository
    <3>2. CASE UNCHANGED runs
      BY <3>2
    <3>3. CASE FailRun(p) \/ FailStep(p) \/ Seal(p)
      <4>1. proc[p].run \in Runs /\ runs[proc[p].run].status = "running"
        BY <1>1, Progress, RunOf
      <4>2. runs \in [Runs -> RunType] /\ runs[proc[p].run] \in RunType
        BY <4>1 DEF IntegrationInv, Typed
      <4>3. \A l \in Runs \ {proc[p].run} : runs'[l] = runs[l]
        BY <3>3, <4>1, <4>2 DEF FailRun, FailStep, Seal
      <4>4. runs'[proc[p].run].repository = runs[proc[p].run].repository
        BY SMTT(30), <3>3, <4>1, <4>2 DEF FailRun, FailStep, Seal, RunType
      <4>5. \/ runs'[proc[p].run].status \in {"failed", "conflict", "completed"}
            \/ runs'[proc[p].run].status = runs[proc[p].run].status
        BY SMTT(30), <3>3, <4>1, <4>2 DEF FailRun, FailStep, Seal, RunType
      <4> QED
        BY SMTT(30), <2>3, <4>1, <4>3, <4>4, <4>5
    <3> QED
      BY <1>1, <3>1, <3>2, <3>3 DEF Step, Load, ReadTarget, Drift, Early, Preflight, Candidate, Source, Resolve,
     ContainsStep, Merge, Finish, Closing, Crash, MergeFault, Reading, CompleteItem
  <2>4. RunsApart'
    BY <2>3, StayApart DEF Works
  <2>5. \A q \in Processes \ {p} : WorkerOK(proc'[q], runs')
    BY <2>1 DEF WorkerOK
  <2> QED
    BY <2>2, <2>4, <2>5 DEF Works
<1>2. CASE UNCHANGED <<runs, proc>>
  BY <1>2 DEF Works, RunsApart
<1>3. CASE Command
  BY <1>3, StartWorks, PreviewWorks DEF Command
<1>4. CASE Environment
  BY <1>1, <1>2, <1>4 DEF Environment, Checkpoint, Repair, CommitSource, ReconcileSource,
     CommitTarget, ReconcileTarget, Conclude
<1> QED
  BY <1>1, <1>2, <1>3, <1>4 DEF Next, vars

-----------------------------------------------------------------------------
(* No item is lost: one that could be completed is a step that its process   *)
(* has still to come to, or finds again when the run is resumed.             *)

\* A process has completed the item of a step, or has found it completed.
Passed(c, i) ==
  \/ c.pc = "early" /\ i < c.pos /\ c.seen[i].status = "integrated"
  \/ c.pc = "preflight" /\ c.seen[i].status = "integrated"
  \/ c.pc \in {"candidate"} \cup Stepping /\ (i < c.pos \/ c.seen[i].status = "integrated")
  \/ c.pc \in {"closing", "seal"}

\* An item that could be completed, and is not.
Due(d) == IntegrationReady(integrations[d]) /\ status[d] # "done" /\ interrupted[d] = "no"

\* A run that can be resumed, or has failed, has the item still to complete, by its i-th step.
OwedBy(d, k, i) ==
  /\ runs[k].status \in {"running", "failed"}
  /\ runs[k].steps[i].item = d /\ runs[k].steps[i].status = "integrated"
  /\ \A p \in Processes : ~At(p, "idle") /\ proc[p].run = k => ~Passed(proc[p], i)

Cover == \A d \in Items : Due(d) => \E k \in Runs : \E i \in 1..Len(runs[k].steps) : OwedBy(d, k, i)


\* An item that is due was due before, or has just been settled.
LEMMA ItemHandled ==
  ASSUME IntegrationInv, NEW p \in Processes, proc[p].pc # "idle", NEW e \in Items, NEW pc, NEW pos,
         CompleteItem(p, e, pc, pos)
  PROVE  /\ \A d \in Items : Due(d)' => Due(d)
         /\ Return(p) \/ (Goto(p, pc, pos) /\ ~Due(e)')
<1>1. UNCHANGED integrations /\ proc[p].run \in Runs
  BY Acts DEF CompleteItem
<1>2. CASE ItemCompleted(p, e, pc, pos)
  BY <1>1, <1>2 DEF ItemCompleted, Completable, Due, IntegrationInv, Typed
<1>3. CASE ItemInterrupted(p, e)
  BY <1>1, <1>3, KeysAssumption DEF ItemInterrupted, Completable, Due, IntegrationInv, Typed
<1>4. CASE ItemLeftAlone(p, e, pc, pos)
  BY <1>1, <1>4 DEF ItemLeftAlone, Due
<1>5. CASE ItemRefused(p, e, pc, pos)
  BY <1>1, <1>5 DEF ItemRefused, Due
<1> QED
  BY <1>2, <1>3, <1>4, <1>5 DEF CompleteItem

\* Rows that are all integrated are so after what settles none.
LEMMA ReadyBefore ==
  ASSUME IntegrationInv, IntegrationInv', NoneSettled, NEW d \in Items, IntegrationReady(integrations'[d])
  PROVE  IntegrationReady(integrations[d])
<1>1. DOMAIN integrations[d] = Repositories /\ DOMAIN integrations'[d] = Repositories
  BY DEF IntegrationInv, Typed
<1> QED
  BY <1>1 DEF IntegrationReady, NoneSettled

\* Nothing falls due but by a step that is settled.
LEMMA DueBefore ==
  ASSUME IntegrationInv, [Next]_vars, \A p \in Processes : ~CompleteStep(p), NEW d \in Items, Due(d)'
  PROVE  Due(d)
<1>1. CASE UNCHANGED <<status, interrupted, integrations>>
  BY <1>1 DEF Due
<1>2. ASSUME NEW p \in Processes, Early(p) \/ Finish(p) \/ Closing(p) PROVE Due(d)
  <2>1. proc[p].pc # "idle"
    BY <1>2 DEF Early, Finish, Closing, At
  <2>2. \/ UNCHANGED <<status, interrupted, integrations>>
        \/ \E pc, pos : CompleteItem(p, Seen(p).item, pc, pos) /\ Seen(p).item \in Items
    <3>1. CASE Finish(p)
      BY <3>1, WorksOn DEF Finish, At, Stepping
    <3>2. CASE Early(p) \/ Closing(p)
      <4>1. ~AfterLast(p) => Seen(p).item \in Items
        BY <3>2, Acts DEF Early, Closing, At, Walking, RunSteps
      <4> QED
        BY <3>2, <4>1 DEF Early, Closing, Reading, item
    <3> QED
      BY <1>2, <3>1, <3>2
  <2> QED
    BY <1>1, <2>1, <2>2, ItemHandled
<1>3. ASSUME NEW p \in Processes, FailStep(p) PROVE Due(d)
  <2>1. UNCHANGED <<status, interrupted>>
    BY <1>3 DEF FailStep, item
  <2>2. NoneSettled
    <3>1. integrations' = [integrations EXCEPT ![Seen(p).item][Repository(p)].status = "conflict"]
      BY <1>3 DEF FailStep, FailedRow
    <3>2. Seen(p).item \in Items /\ Repository(p) \in Repositories
      BY <1>3, WorksOn, Acts DEF FailStep, At, Stepping
    <3> QED
      BY SMTT(30), <3>1, <3>2 DEF NoneSettled, IntegrationInv, Typed
  <2> QED
    BY <2>1, <2>2, Preserved, ReadyBefore DEF Due
<1>4. ASSUME NEW p \in Processes, Step(p), ~Early(p), ~Finish(p), ~Closing(p), ~FailStep(p)
      PROVE  Due(d)
  BY <1>1, <1>4 DEF Step, Load, ReadTarget, Drift, FailRun, Preflight, Candidate, Source, Resolve,
     ContainsStep, Merge, Seal, Reading, item
<1>5. CASE Command
  BY <1>1, <1>5 DEF Command, Preview, Confirm, Resume, Reading, item
<1>6. ASSUME NEW e \in Items, Repair(e) PROVE Due(d)
  BY <1>6 DEF Repair, Due, IntegrationInv, Typed
<1>7. ASSUME NEW e \in Items, NEW to \in Moves, NEW repos \in SUBSET Repositories,
             Checkpoint(e, to, repos)
      PROVE  Due(d)
  <2>1. IntegrationReady(integrations[d])
    BY <1>7, ReviewQueues, Preserved, ReadyBefore DEF Due
  <2>2. status[d] # "done" /\ interrupted[d] = "no"
    BY <1>7 DEF Checkpoint, ValidateTransition, TerminalStatuses, Due, IntegrationInv, Typed
  <2> QED
    BY <2>1, <2>2 DEF Due
<1>8. CASE Environment
  BY <1>1, <1>6, <1>7, <1>8 DEF Environment, Crash, MergeFault, CommitSource, ReconcileSource,
     CommitTarget, ReconcileTarget, Conclude, item
<1>9. CASE UNCHANGED vars
  BY <1>1, <1>9 DEF vars
<1> QED
  BY <1>2, <1>3, <1>4, <1>5, <1>8, <1>9 DEF Next

\* What was owed still is, when it can still be seen from the runs and the processes.
LEMMA OwedStays ==
  ASSUME Cover,
         \A d \in Items : Due(d)' => Due(d),
         \A d \in Items, k \in Runs : \A i \in 1..Len(runs[k].steps) :
           Due(d)' /\ OwedBy(d, k, i) => i \in 1..Len(runs'[k].steps) /\ OwedBy(d, k, i)'
  PROVE  Cover'
<1> SUFFICES ASSUME NEW d \in Items, Due(d)'
             PROVE  \E k \in Runs : \E i \in 1..Len(runs'[k].steps) : OwedBy(d, k, i)'
  BY DEF Cover
<1>1. PICK k \in Runs : \E i \in 1..Len(runs[k].steps) : OwedBy(d, k, i)
  BY DEF Cover
<1> QED
  BY <1>1

\* A process goes on without passing what is due, or returns.
LEMMA OwedOn ==
  ASSUME IntegrationInv, Works, Alone, Cover, UNCHANGED runs,
         NEW p \in Processes, Step(p) \/ Crash(p) \/ MergeFault(p),
         \A d \in Items : Due(d)' => Due(d),
         \A d \in Items : \A i \in 1..Len(proc[p].seen) :
           /\ Due(d)' /\ proc[p].seen[i].item = d
           /\ proc'[p].pc # "idle" /\ Passed(proc'[p], i)
           => Passed(proc[p], i)
  PROVE  Cover'
<1> SUFFICES ASSUME NEW d \in Items, NEW k \in Runs, NEW i \in 1..Len(runs[k].steps),
                    Due(d)', OwedBy(d, k, i),
                    NEW q \in Processes, proc'[q].pc # "idle", proc'[q].run = k
             PROVE  ~Passed(proc'[q], i)
  BY OwedStays DEF OwedBy, At
<1>1. q = p
  BY Progress, Others
<1>2. proc[p].pc # "idle" /\ k = proc[p].run /\ ~Passed(proc[p], i)
  BY <1>1, Progress DEF OwedBy, At
<1>3. CASE Load(p)
  BY <1>1, <1>3 DEF Load, Passed, Stepping, IntegrationInv, Typed, ProcessType
<1>4. CASE ~Load(p)
  <2>1. CASE proc[p].pc = "load"
    <3>1. Crash(p)
      <4>1. ~(ReadTarget(p) \/ Drift(p) \/ FailRun(p) \/ Early(p) \/ Preflight(p) \/ Candidate(p))
        BY <2>1 DEF ReadTarget, Drift, FailRun, Early, Preflight, Candidate, At
      <4>2. ~(Source(p) \/ Resolve(p) \/ ContainsStep(p) \/ Merge(p) \/ MergeFault(p))
        BY <2>1 DEF Source, Resolve, ContainsStep, Merge, MergeFault, At
      <4>3. ~(CompleteStep(p) \/ Finish(p) \/ FailStep(p) \/ Closing(p) \/ Seal(p))
        <5>1. CompleteStep(p) => At(p, "complete")
          BY DEF CompleteStep
        <5> QED
          BY <2>1, <5>1 DEF Finish, FailStep, Closing, Seal, At
      <4> QED
        BY <1>4, <4>1, <4>2, <4>3 DEF Step
    <3>2. proc'[p].pc = "idle"
      BY <3>1, Fields DEF Crash
    <3> QED
      BY <1>1, <3>2
  <2>2. CASE proc[p].pc # "load"
    <3>1. i \in 1..Len(proc[p].seen) /\ proc[p].seen[i].item = d
      BY <1>2, <2>2, RunOf DEF OwedBy
    <3> QED
      BY <1>1, <1>2, <3>1
  <2> QED
    BY <2>1, <2>2
<1> QED
  BY <1>3, <1>4

\* The steps of a process that completes items, or looks for the next one.
LEMMA PassesOn ==
  ASSUME IntegrationInv, Works, NEW p \in Processes, proc'[p].pc # "idle",
         Early(p) \/ Preflight(p) \/ Candidate(p) \/ Finish(p) \/ Closing(p),
         NEW i \in 1..Len(proc[p].seen), Passed(proc'[p], i),
         NEW d \in Items, Due(d)', proc[p].seen[i].item = d
  PROVE  Passed(proc[p], i)
<1>1. /\ proc[p].pc \in {"early", "preflight", "candidate", "finish", "closing"}
      /\ proc[p].pc # "idle" /\ ~Load(p)
  BY DEF Early, Preflight, Candidate, Finish, Closing, Load, At
<1>2. /\ proc'[p].seen = proc[p].seen
      /\ Len(proc[p].seen) \in Nat /\ proc[p].pos \in Nat
      /\ Len(proc[p].seen) = Len(runs[proc[p].run].steps)
      /\ \A j \in 1..Len(proc[p].seen) :
           Ahead(proc[p], j) => proc[p].seen[j].status \in {"pending", "integrated"}
  BY <1>1, Progress, Acts, RunOf DEF Step, WorkerOK
<1>3. CASE AfterLast(p) /\ ~Finish(p)
  <2>1. i < proc[p].pos
    BY <1>2, <1>3 DEF AfterLast
  <2>2. \/ proc[p].pc = "early" /\ proc'[p].pc = "preflight"
        \/ proc[p].pc = "preflight" /\ proc'[p].pc = "candidate" /\ proc'[p].pos = 1
        \/ proc[p].pc = "candidate"
        \/ proc[p].pc = "closing"
    BY <1>3, Fields DEF Early, Preflight, Candidate, Closing, At
  <2> QED
    BY <1>2, <2>1, <2>2 DEF Passed, Stepping
<1>4. ASSUME ~AfterLast(p) \/ Finish(p), NEW pc, CompleteItem(p, Seen(p).item, pc, proc[p].pos + 1)
      PROVE  proc'[p].pc = pc /\ proc'[p].pos = proc[p].pos + 1 /\ i # proc[p].pos
  <2>1. Seen(p).item \in Items
    <3>1. CASE Finish(p)
      BY <3>1, WorksOn DEF Finish, At, Stepping
    <3>2. CASE ~AfterLast(p) /\ ~Finish(p)
      BY <1>1, <3>2, Acts DEF Walking, Stepping, RunSteps, Finish, At
    <3> QED
      BY <1>4, <3>1, <3>2
  <2> QED
    BY <1>1, <1>4, <2>1, ItemHandled, Fields DEF Seen
<1>5. CASE Finish(p)
  <2>1. proc[p].pc = "finish" /\ proc'[p].pc = "candidate" /\ proc'[p].pos = proc[p].pos + 1 /\ i # proc[p].pos
    BY <1>4, <1>5 DEF Finish, At
  <2> QED
    BY <1>2, <2>1 DEF Passed, Stepping
<1>6. CASE ~AfterLast(p) /\ Early(p)
  <2>1. /\ proc[p].pc = "early" /\ proc'[p].pc = "early" /\ proc'[p].pos = proc[p].pos + 1
        /\ i # proc[p].pos \/ proc[p].seen[i].status # "integrated"
    <3>1. CASE Seen(p).status # "integrated" /\ Goto(p, "early", proc[p].pos + 1)
      BY <1>6, <3>1, Fields DEF Early, At, Seen
    <3>2. CASE CompleteItem(p, Seen(p).item, "early", proc[p].pos + 1)
      BY <1>4, <1>6, <3>2 DEF Early, At
    <3> QED
      BY <1>6, <3>1, <3>2 DEF Early
  <2> QED
    BY <1>2, <2>1 DEF Passed, Stepping
<1>7. CASE ~AfterLast(p) /\ Preflight(p)
  <2>1. proc[p].pc = "preflight" /\ proc'[p].pc = "preflight"
    BY <1>7, Fields DEF Preflight, At
  <2> QED
    BY <1>2, <2>1 DEF Passed, Stepping
<1>8. CASE ~AfterLast(p) /\ Candidate(p)
  <2>1. /\ proc[p].pc = "candidate"
        /\ \/ /\ proc'[p].pc = "candidate" /\ proc'[p].pos = proc[p].pos + 1
              /\ Seen(p).status # "pending"
           \/ proc'[p].pc = "source" /\ proc'[p].pos = proc[p].pos
    BY <1>8, Fields DEF Candidate, At
  <2>2. i = proc[p].pos /\ Seen(p).status # "pending" => proc[p].seen[i].status = "integrated"
    BY <1>2, <2>1 DEF Ahead, Seen
  <2> QED
    BY <1>2, <2>1, <2>2 DEF Passed, Stepping
<1>9. CASE ~AfterLast(p) /\ Closing(p)
  BY <1>9 DEF Closing, Passed, At
<1> QED
  BY <1>3, <1>5, <1>6, <1>7, <1>8, <1>9

\* Between the items a process passes nothing.
LEMMA PassesNothing ==
  ASSUME IntegrationInv, NEW p \in Processes, proc'[p].pc # "idle",
         \/ ReadTarget(p) \/ Drift(p) \/ Source(p) \/ Resolve(p) \/ ContainsStep(p) \/ Merge(p)
         \/ MergeFault(p),
         NEW i \in 1..Len(proc[p].seen), Passed(proc'[p], i)
  PROVE  Passed(proc[p], i)
<1>1. CASE ReadTarget(p) \/ Drift(p)
  <2>1. /\ proc'[p].pc \in {"drift", "early", "failrun"} /\ (proc'[p].pc = "early" => proc'[p].pos = 1)
    BY <1>1, Fields DEF ReadTarget, Drift, At, IntegrationInv, Typed, ProcessType
  <2> QED
    BY <2>1 DEF Passed, Stepping
<1>2. CASE Source(p) \/ Resolve(p) \/ ContainsStep(p) \/ Merge(p) \/ MergeFault(p)
  <2>1. /\ proc[p].pc \in {"source", "resolve", "contains", "merge"}
        /\ proc'[p].pos = proc[p].pos /\ proc'[p].seen = proc[p].seen
        /\ proc'[p].pc \in {"resolve", "failstep", "contains", "complete", "merge"}
    <3>1. CASE Source(p) \/ ContainsStep(p)
      BY <3>1, Fields DEF Source, ContainsStep, At
    <3>2. CASE Resolve(p) \/ Merge(p) \/ MergeFault(p)
      BY <3>2, Fields DEF Resolve, Merge, MergeFault, AfterMerge, At, IntegrationInv, Typed, ProcessType
    <3> QED
      BY <1>2, <3>1, <3>2
  <2> QED
    BY <2>1 DEF Passed, Stepping
<1> QED
  BY <1>1, <1>2

\* A step that is settled is owed until its process has completed the item.
LEMMA CompletionCovers ==
  ASSUME IntegrationInv, Works, Alone, Cover, NEW p \in Processes, CompleteStep(p)
  PROVE  Cover'
<1>0. PICK l \in Runs : l = proc[p].run
  BY Completes
<1>9. PICK n \in 1..Len(runs[l].steps) : n = proc[p].pos
  BY <1>0, Completes
<1>1. /\ proc[p].pc = "complete" /\ proc'[p].pc = "finish" /\ proc'[p].pos = n
      /\ l \in Runs /\ n \in 1..Len(runs[l].steps) /\ runs'[l].status = "running"
      /\ runs[l].status = "running" /\ proc[p].seen[n].status = "pending"
      /\ Seen(p).item = runs[l].steps[n].item /\ Seen(p).item \in Items
      /\ Repository(p) \in Repositories
      /\ \A k \in Runs \ {l} : runs'[k] = runs[k]
      /\ Len(runs'[l].steps) = Len(runs[l].steps)
      /\ \A j \in 1..Len(runs[l].steps) : /\ j # n => runs'[l].steps[j] = runs[l].steps[j]
                                          /\ runs'[l].steps[j].item = runs[l].steps[j].item
      /\ runs'[l].steps[n].status = "integrated"
  BY <1>0, <1>9, Completes DEF Seen
<1>2. /\ \A q \in Processes \ {p} : proc'[q].pc = "idle"
      /\ proc'[p].run = l /\ proc'[p].seen = proc[p].seen
  <2>1. Step(p) /\ ~Load(p)
    BY <1>1 DEF Step, Load, At
  <2> QED
    BY <1>0, <1>1, <2>1, Progress, Others
<1>3. \A i : Passed(proc'[p], i) => Passed(proc[p], i)
  BY <1>1, <1>2, <1>9 DEF Passed, Stepping
<1>4. ~Passed(proc'[p], n)
  <2>1. n \in Nat
    BY <1>1
  <2> QED
    BY <1>1, <1>2, <2>1 DEF Passed, Stepping
<1> SUFFICES ASSUME NEW d \in Items, Due(d)'
             PROVE  \E k \in Runs : \E i \in 1..Len(runs'[k].steps) : OwedBy(d, k, i)'
  BY DEF Cover
<1>5. CASE d = Seen(p).item
  <2>1. runs'[l].steps[n].item = d /\ n \in 1..Len(runs'[l].steps)
    BY <1>1, <1>5
  <2>2. OwedBy(d, l, n)'
    BY <1>1, <1>2, <1>4, <2>1 DEF OwedBy, At
  <2> QED
    BY <1>1, <2>1, <2>2
<1>6. CASE d # Seen(p).item
  <2>1. /\ UNCHANGED <<status, interrupted>>
        /\ integrations' = [integrations EXCEPT ![Seen(p).item][Repository(p)].status = "integrated"]
    BY DEF CompleteStep, item
  <2>2. Due(d)
    BY <1>6, <2>1 DEF Due, IntegrationInv, Typed
  <2>3. PICK k \in Runs : \E i \in 1..Len(runs[k].steps) : OwedBy(d, k, i)
    BY <2>2 DEF Cover
  <2>4. PICK i \in 1..Len(runs[k].steps) : OwedBy(d, k, i)
    BY <2>3
  <2>5. /\ i \in 1..Len(runs'[k].steps) /\ runs'[k].status = runs[k].status
        /\ runs'[k].steps[i].item = runs[k].steps[i].item
        /\ runs[k].steps[i].status = "integrated" => runs'[k].steps[i].status = "integrated"
    BY <1>1, <2>4
  <2>6. ASSUME NEW q \in Processes, proc'[q].pc # "idle", proc'[q].run = k PROVE ~Passed(proc'[q], i)
    <3>1. q = p /\ k = l
      BY <1>2, <2>6
    <3>2. ~Passed(proc[p], i)
      BY <1>0, <1>1, <2>4, <3>1 DEF OwedBy, At
    <3> QED
      BY <1>3, <3>1, <3>2
  <2>7. OwedBy(d, k, i)'
    BY <2>4, <2>5, <2>6 DEF OwedBy, At
  <2> QED
    BY <2>5, <2>7
<1> QED
  BY <1>5, <1>6

\* A run that ends well, or by a conflict, has passed all of its items; a run that fails
\* otherwise owes them still.
LEMMA EndCovers ==
  ASSUME IntegrationInv, Works, Alone, Cover, NEW p \in Processes, FailRun(p) \/ FailStep(p) \/ Seal(p),
         \A d \in Items : Due(d)' => Due(d)
  PROVE  Cover'
<1> DEFINE l == proc[p].run
<1>1. proc[p].pc # "idle" /\ Step(p)
  BY DEF FailRun, FailStep, Seal, At, Step
<1>2. /\ l \in Runs /\ runs[l].status = "running" /\ WorkerOK(proc[p], runs)
      /\ \A q \in Processes : proc'[q].pc = "idle"
  <2>1. proc'[p].pc = "idle"
    BY Fields DEF FailRun, FailStep, Seal
  <2> QED
    BY <1>1, <2>1, RunOf, Progress, Others
<1>3. \A k \in Runs \ {l} : runs'[k] = runs[k]
  BY <1>2 DEF FailRun, FailStep, Seal, IntegrationInv, Typed
<1>4. ASSUME NEW d \in Items, NEW i \in 1..Len(runs[l].steps), OwedBy(d, l, i), FailStep(p) \/ Seal(p)
      PROVE  FALSE
  <2>1. ~Passed(proc[p], i) /\ runs[l].steps[i].status = "integrated"
    BY <1>1, <1>4 DEF OwedBy, At
  <2>2. CASE Seal(p)
    BY <2>1, <2>2 DEF Passed, Seal, At
  <2>3. CASE FailStep(p)
    <3>1. /\ proc[p].pc = "failstep" /\ proc[p].pos \in Nat
          /\ i \in 1..Len(proc[p].seen)
      BY <1>1, <2>3, Acts, RunOf DEF FailStep, At
    <3>2. ~(i < proc[p].pos) /\ proc[p].seen[i].status # "integrated"
      BY <2>1, <3>1 DEF Passed, Stepping
    <3>3. Ahead(proc[p], i)
      BY <3>1, <3>2 DEF Ahead, Settling
    <3> QED
      BY <1>1, <1>2, <2>1, <3>1, <3>2, <3>3 DEF WorkerOK
  <2> QED
    BY <1>4, <2>2, <2>3
<1>5. FailRun(p) => runs'[l].status = "failed" /\ runs'[l].steps = runs[l].steps
  BY <1>2 DEF FailRun, IntegrationInv, Typed, RunType
<1> HIDE DEF l
<1>6. ASSUME NEW d \in Items, NEW k \in Runs, NEW i \in 1..Len(runs[k].steps), OwedBy(d, k, i)
      PROVE  i \in 1..Len(runs'[k].steps) /\ OwedBy(d, k, i)'
  BY <1>2, <1>3, <1>4, <1>5, <1>6 DEF OwedBy, At
<1> QED
  BY <1>6, OwedStays

\* A run that begins, or goes on, has passed nothing.
LEMMA CommandCovers ==
  ASSUME IntegrationInv, Cover, Command
  PROVE  Cover'
<1>1. \A d \in Items : Due(d)' => Due(d)
  BY DEF Command, Preview, Confirm, Resume, Reading, item, Due
<1>2. ASSUME NEW k \in Runs, NEW r \in Repositories, Preview(k, r) PROVE Cover'
  <2>1. /\ runs[k].status = "absent" /\ proc' = proc
        /\ \A l \in Runs \ {k} : runs'[l] = runs[l]
    BY <1>2 DEF Preview, IntegrationInv, Typed
  <2> QED
    BY <1>1, <2>1, OwedStays DEF OwedBy, At
<1>3. ASSUME NEW p \in Processes, NEW k \in Runs, Confirm(p, k) \/ Resume(p, k) PROVE Cover'
  <2>1. /\ proc' = [proc EXCEPT ![p] = [Idle EXCEPT !.pc = "load", !.run = k]]
        /\ runs' = [runs EXCEPT ![k].status = "running"] \/ (runs' = runs /\ runs[k].status = "running")
    BY <1>3 DEF Confirm, Resume, Reading
  <2>2. /\ proc'[p] = [Idle EXCEPT !.pc = "load", !.run = k]
        /\ \A q \in Processes \ {p} : proc'[q] = proc[q]
    BY <2>1 DEF IntegrationInv, Typed
  <2>3. proc'[p].pc = "load"
    BY <2>2 DEF Idle
  <2>4. /\ runs'[k].status = "running" /\ \A l \in Runs \ {k} : runs'[l] = runs[l]
        /\ runs'[k].steps = runs[k].steps
    BY <2>1 DEF IntegrationInv, Typed, RunType
  <2>5. \A i : ~Passed(proc'[p], i)
    BY <2>3 DEF Passed, Stepping
  <2>6. ASSUME NEW d \in Items, NEW l \in Runs, NEW i \in 1..Len(runs[l].steps), OwedBy(d, l, i)
        PROVE  i \in 1..Len(runs'[l].steps) /\ OwedBy(d, l, i)'
    <3>1. ASSUME NEW q \in Processes, proc'[q].pc # "idle", proc'[q].run = l
          PROVE  ~Passed(proc'[q], i)
      BY <2>2, <2>5, <2>6, <3>1 DEF OwedBy, At
    <3>2. /\ runs'[l].status \in {"running", "failed"} /\ runs'[l].steps = runs[l].steps
      BY <2>4, <2>6 DEF OwedBy
    <3> QED
      BY <2>6, <3>1, <3>2 DEF OwedBy, At
  <2> QED
    BY <1>1, <2>6, OwedStays
<1> QED
  BY <1>2, <1>3 DEF Command

\* What one process executes is completed, or owed.
LEMMA CoversAlone ==
  ASSUME IntegrationInv, Works, Alone, Cover, [Next]_vars
  PROVE  Cover'
<1>1. ASSUME \A p \in Processes : ~CompleteStep(p) PROVE \A d \in Items : Due(d)' => Due(d)
  BY <1>1, DueBefore
<1>2. ASSUME NEW p \in Processes, Step(p) \/ Crash(p) \/ MergeFault(p), ~CompleteStep(p)
      PROVE  Cover'
  <2>1. \A q \in Processes : ~CompleteStep(q)
    <3>1. ASSUME NEW q \in Processes, CompleteStep(q) PROVE FALSE
      <4>1. proc[q].pc = "complete" /\ proc'[q].pc = "finish"
        BY <3>1, Completes
      <4> QED
        BY <1>2, <3>1, <4>1, Progress, Others
    <3> QED
      BY <3>1
  <2>2. \A d \in Items : Due(d)' => Due(d)
    BY <1>1, <2>1
  <2>3. CASE FailRun(p) \/ FailStep(p) \/ Seal(p)
    BY <2>2, <2>3, EndCovers
  <2>4. CASE ~(FailRun(p) \/ FailStep(p) \/ Seal(p))
    <3>1. UNCHANGED runs
      BY <1>2, <2>4 DEF Step, Load, ReadTarget, Drift, Early, Preflight, Candidate, Source, Resolve,
         ContainsStep, Merge, Finish, Closing, Crash, MergeFault, Reading, CompleteItem
    <3>2. ASSUME proc'[p].pc # "idle", NEW i \in 1..Len(proc[p].seen), Passed(proc'[p], i),
                 NEW d \in Items, Due(d)', proc[p].seen[i].item = d
          PROVE  Passed(proc[p], i)
      <4>1. CASE Crash(p)
        BY <3>2, <4>1, Fields DEF Crash
      <4>2. CASE Load(p)
        BY <3>2, <4>2 DEF Load, Passed, Stepping, IntegrationInv, Typed, ProcessType
      <4> QED
        BY <1>2, <2>4, <3>2, <4>1, <4>2, PassesOn, PassesNothing DEF Step
    <3> QED
      BY <1>2, <2>2, <3>1, <3>2, OwedOn
  <2> QED
    BY <2>3, <2>4
<1>3. ASSUME UNCHANGED <<runs, proc>>, ~\E p \in Processes : CompleteStep(p) PROVE Cover'
  BY <1>1, <1>3, OwedStays DEF OwedBy, At
<1>4. ASSUME NEW p \in Processes, CompleteStep(p) PROVE Cover'
  BY <1>4, CompletionCovers
<1>5. CASE Environment
  BY <1>2, <1>3, <1>4, <1>5 DEF Environment, Checkpoint, Repair, CommitSource, ReconcileSource,
     CommitTarget, ReconcileTarget, Conclude
<1>6. CASE UNCHANGED vars
  BY <1>3, <1>4, <1>6 DEF vars
<1> QED
  BY <1>2, <1>4, <1>5, <1>6, CommandCovers DEF Next

-----------------------------------------------------------------------------
(* A run does not fail for what it left in the checkout itself.              *)

\* The steps of a run with a status.
StepsWith(k, st) == {i \in DOMAIN runs[k].steps : runs[k].steps[i].status = st}

\* The head of the Feature checkout is one that a run explains: the last that it recorded, or
\* a merge of the step it would take next.
Explained(k) ==
  LET done == StepsWith(k, "integrated")
      pending == StepsWith(k, "pending")
      steps == runs[k].steps
      r == runs[k].repository
  IN  done # {} =>
        \/ steps[Max(done)].result = Len(target[r])
        \/ /\ pending # {}
           /\ Has(target[r], steps[Min(pending)].item, steps[Min(pending)].head)

\* While nobody else commits, a run explains what it finds, fails for that only when it has
\* integrated nothing, and its process knows the head.
Undisturbed ==
  drift = 0 =>
    /\ \A k \in Runs : runs[k].status = "running" => Explained(k)
    /\ \A k \in Runs : runs[k].status = "failed" => StepsWith(k, "integrated") = {}
    /\ \A p \in Processes :
         /\ At(p, "failrun") => SeenWith(p, "integrated") = {}
         /\ proc[p].pc \in {"contains", "merge", "complete"} =>
              proc[p].result = Len(target[Repository(p)])

\* No merge conflicts.
Clean ==
  /\ \A r \in Repositories : merging[r] = NoCommit
  /\ \A k \in Runs : \A i \in 1..Len(runs[k].steps) : runs[k].steps[i].item \notin Conflicting


\* No item that may conflict is in review.
Harmless == \A d \in Items \cap Conflicting : status[d] \notin {"review", "done"}

\* The greatest of a set of numbers.
LEMMA MaxIs ==
  ASSUME NEW S \in SUBSET Nat, NEW n \in S, \A m \in S : m <= n
  PROVE  Max(S) = n
<1>1. \A x \in S : (\A y \in S : x >= y) <=> x = n
  OBVIOUS
<1> QED
  BY <1>1, Zenon DEF Max

\* And the least.
LEMMA MinIs ==
  ASSUME NEW S \in SUBSET Nat, NEW n \in S, \A m \in S : n <= m
  PROVE  Min(S) = n
<1>1. \A x \in S : (\A y \in S : x <= y) <=> x = n
  OBVIOUS
<1> QED
  BY <1>1, Zenon DEF Min

\* A run that fails, fails of the items it has.
LEMMA FailsAlike ==
  ASSUME IntegrationInv, NEW p \in Processes, FailStep(p)
  PROVE  /\ proc[p].run \in Runs
         /\ runs'[proc[p].run].status = "conflict"
         /\ SameSteps(runs[proc[p].run].steps, runs'[proc[p].run].steps)
         /\ \A k \in Runs \ {proc[p].run} : runs'[k] = runs[k]
<1> DEFINE k == proc[p].run
           i == proc[p].pos
           new == Failed(runs[k], i)
<1>1. proc[p].pc \in Stepping /\ proc[p].pc # "idle"
  BY DEF FailStep, At, Stepping
<1>2. /\ k \in Runs /\ runs[k] \in RunType /\ RunOK(runs[k], target) /\ runs[k].status # "absent"
      /\ SameSteps(proc[p].seen, runs[k].steps) /\ i \in 1..Len(runs[k].steps) /\ EndedBefore(p, i)
  BY <1>1, Acts, WorksOn
<1>3. runs' = [runs EXCEPT ![k] = new]
  BY <1>2 DEF FailStep, Failed, IntegrationInv, Typed, RunType
<1>4. SameSteps(runs[k].steps, new.steps)
  <2>1. \A j \in 1..Len(runs[k].steps) : j < i => runs[k].steps[j].status # "pending"
    BY <1>2 DEF EndedBefore, SameSteps
  <2> QED
    BY <1>2, <2>1, StepsFail
<1>5. new.status = "conflict"
  BY <1>2 DEF Failed, RunType
<1> HIDE DEF new
<1> QED
  BY <1>2, <1>3, <1>4, <1>5 DEF IntegrationInv, Typed

\* Runs keep their items, and take none that may conflict.
LEMMA ItemsStay ==
  ASSUME IntegrationInv, Works, Clean, Harmless, [Next]_vars, NEW k \in Runs,
         NEW i \in 1..Len(runs'[k].steps)
  PROVE  runs'[k].steps[i].item \notin Conflicting
<1>1. ASSUME Len(runs'[k].steps) = Len(runs[k].steps), runs'[k].steps[i].item = runs[k].steps[i].item
      PROVE  runs'[k].steps[i].item \notin Conflicting
  BY <1>1 DEF Clean
<1>2. CASE runs'[k] = runs[k]
  BY <1>1, <1>2
<1>3. ASSUME NEW p \in Processes, CompleteStep(p) PROVE runs'[k].steps[i].item \notin Conflicting
  <2>1. CASE k = proc[p].run
    BY SMTT(30), <1>1, <1>3, <2>1, Completes
  <2>2. CASE k # proc[p].run
    BY <1>2, <1>3, <2>2, Completes
  <2> QED
    BY <2>1, <2>2
<1>4. ASSUME NEW p \in Processes, FailStep(p) PROVE runs'[k].steps[i].item \notin Conflicting
  <2>1. CASE k = proc[p].run
    BY <1>1, <1>4, <2>1, FailsAlike DEF SameSteps
  <2>2. CASE k # proc[p].run
    BY <1>2, <1>4, <2>2, FailsAlike
  <2> QED
    BY <2>1, <2>2
<1>5. CASE runs'[k].steps = runs[k].steps
  BY <1>1, <1>5
<1>11. ASSUME NEW l, NEW st, runs' = [runs EXCEPT ![l].status = st] PROVE runs'[k].steps = runs[k].steps
  BY <1>11 DEF IntegrationInv, Typed, RunType
<1>6. ASSUME NEW p \in Processes, Step(p), ~CompleteStep(p), ~FailStep(p)
      PROVE  runs'[k].steps[i].item \notin Conflicting
  <2>1. CASE UNCHANGED runs
    BY <1>2, <2>1
  <2>2. CASE FailRun(p) \/ Seal(p)
    <3>1. \E st : runs' = [runs EXCEPT ![proc[p].run].status = st]
      BY <2>2 DEF FailRun, Seal
    <3> QED
      BY <1>5, <1>11, <3>1
  <2> QED
    BY <1>6, <2>1, <2>2 DEF Step, Load, ReadTarget, Drift, Early, Preflight, Candidate, Source, Resolve,
       ContainsStep, Merge, Finish, Closing, Reading, CompleteItem
<1>7. ASSUME NEW l \in Runs, NEW r \in Repositories, Preview(l, r)
      PROVE  runs'[k].steps[i].item \notin Conflicting
  <2>1. CASE k # l
    BY <1>2, <1>7, <2>1 DEF Preview, IntegrationInv, Typed
  <2>2. CASE k = l
    <3> DEFINE S == {d \in Items : Queued(d, r)}
               queue == Candidates(r)
    <3>1. queue = InOrder(S) /\ S \in SUBSET Items
      BY DEF Candidates
    <3>2. queue \in [1..Cardinality(S) -> S]
      BY <3>1, QueueInOrder
    <3>3. runs'[k].steps = [j \in DOMAIN queue |->
             [item |-> queue[j], head |-> integrations[queue[j]][r].head,
              status |-> "pending", result |-> 0]]
      BY <1>7, <2>2 DEF Preview, IntegrationInv, Typed
    <3>4. DOMAIN runs'[k].steps = 1..Len(runs'[k].steps)
      <4>1. IntegrationInv'
        BY <1>7, PreviewStep
      <4> QED
        BY <4>1, LenProperties DEF IntegrationInv, Typed, RunType
    <3> HIDE DEF queue
    <3>5. i \in DOMAIN queue /\ runs'[k].steps[i].item = queue[i]
      BY <3>3, <3>4
    <3>6. queue[i] \in S
      BY <3>2, <3>5
    <3> QED
      BY <3>5, <3>6 DEF Queued, Harmless
  <2> QED
    BY <2>1, <2>2
<1>8. ASSUME NEW p \in Processes, NEW l \in Runs, Confirm(p, l) \/ Resume(p, l)
      PROVE  runs'[k].steps[i].item \notin Conflicting
  <2>1. runs' = runs \/ runs' = [runs EXCEPT ![l].status = "running"]
    BY <1>8 DEF Confirm, Resume, Reading
  <2> QED
    BY <1>5, <1>11, <2>1
<1>9. CASE Environment
  BY <1>2, <1>9 DEF Environment, Crash, MergeFault, Checkpoint, Repair, CommitSource, ReconcileSource,
     CommitTarget, ReconcileTarget, Conclude
<1>10. CASE UNCHANGED vars
  BY <1>2, <1>10 DEF vars
<1> QED
  BY <1>3, <1>4, <1>6, <1>7, <1>8, <1>9, <1>10 DEF Next, Command

\* Without items that may conflict in review, no merge conflicts.
LEMMA CleanStays ==
  ASSUME IntegrationInv, Works, Clean, Harmless, [Next]_vars
  PROVE  Clean'
<1>1. ASSUME NEW r \in Repositories PROVE merging'[r] = NoCommit
  <2>1. CASE UNCHANGED merging
    BY <2>1 DEF Clean
  <2>2. ASSUME NEW p \in Processes, Merge(p) PROVE merging'[r] = NoCommit
    <3>1. Seen(p).item \notin Conflicting
      <4>1. proc[p].pc = "merge" /\ proc[p].pc \in Stepping /\ proc[p].pc # "idle"
        BY <2>2 DEF Merge, At, Stepping
      <4>2. /\ proc[p].pos \in 1..Len(runs[proc[p].run].steps) /\ proc[p].run \in Runs
            /\ Seen(p).item = runs[proc[p].run].steps[proc[p].pos].item
        BY <4>1, WorksOn, RunOf DEF Seen
      <4> QED
        BY <4>2 DEF Clean
    <3> QED
      BY <2>1, <2>2, <3>1 DEF Merge, git, Clean
  <2>3. ASSUME NEW p \in Processes, Step(p), ~Merge(p) PROVE UNCHANGED merging
    BY <2>3 DEF Step, Load, ReadTarget, Drift, FailRun, Early, Preflight, Candidate, Source, Resolve,
     ContainsStep, CompleteStep, Finish, FailStep, Closing, Seal, Reading, CompleteItem, git
  <2>4. CASE Command
    BY <2>1, <2>4 DEF Command, Preview, Confirm, Resume, Reading, git
  <2>5. CASE Environment
    BY <2>1, <2>5 DEF Environment, Crash, MergeFault, Checkpoint, Repair, CommitSource, ReconcileSource,
     CommitTarget, ReconcileTarget, Conclude, git, Clean, IntegrationInv, Typed
  <2>6. CASE UNCHANGED vars
    BY <2>1, <2>6 DEF vars
  <2> QED
    BY <2>1, <2>2, <2>3, <2>4, <2>5, <2>6 DEF Next
<1>2. \A k \in Runs : \A i \in 1..Len(runs'[k].steps) : runs'[k].steps[i].item \notin Conflicting
  BY ItemsStay
<1> QED
  BY <1>1, <1>2 DEF Clean

\* A process that knows all steps knows which are integrated, and which are pending.
LEMMA KnowsAll ==
  ASSUME IntegrationInv, Works, NEW p \in Processes, proc[p].pc \in {"target", "drift", "failrun"}
  PROVE  /\ proc[p].seen = runs[proc[p].run].steps
         /\ \A st : SeenWith(p, st) = StepsWith(proc[p].run, st)
<1>1. /\ proc[p].pc # "idle" /\ proc[p].pc # "load" /\ \A j : Ahead(proc[p], j)
  BY DEF Ahead, Reread
<1>2. /\ proc[p].seen \in Seq(RunSteps) /\ runs[proc[p].run].steps \in Seq(RunSteps)
      /\ Len(proc[p].seen) = Len(runs[proc[p].run].steps)
      /\ \A j \in 1..Len(proc[p].seen) : proc[p].seen[j] = runs[proc[p].run].steps[j]
  BY <1>1, Acts, RunOf DEF WorkerOK, RunType
<1>3. proc[p].seen = runs[proc[p].run].steps
  BY <1>2, SeqEqual
<1> QED
  BY <1>3 DEF SeenWith, StepsWith

\* A run is explained as before, where its steps and its checkout are what they were.
LEMMA ExplainedStill ==
  ASSUME NEW k \in Runs, Explained(k), runs'[k].steps = runs[k].steps,
         runs'[k].repository = runs[k].repository,
         target'[runs[k].repository] = target[runs[k].repository]
  PROVE  Explained(k)'
BY DEF Explained, StepsWith

\* Where a process alone changes neither runs nor checkouts.
LEMMA ReadsUndisturbed ==
  ASSUME IntegrationInv, Works, Alone, Undisturbed, drift = 0, UNCHANGED <<runs, target>>,
         NEW p \in Processes, Step(p) \/ Crash(p) \/ MergeFault(p), ~Merge(p)
  PROVE  Undisturbed'
<1>1. /\ \A k \in Runs : runs'[k].status = "running" => Explained(k)'
      /\ \A k \in Runs : runs'[k].status = "failed" => StepsWith(k, "integrated")' = {}
  BY DEF Undisturbed, Explained, StepsWith
<1>2. \A q \in Processes \ {p} : proc'[q].pc = "idle"
  BY Progress, Others
<1>3. CASE proc'[p].pc \notin {"failrun", "contains", "merge", "complete"}
  BY <1>1, <1>2, <1>3 DEF Undisturbed, At
<1>4. CASE Resolve(p)
  <2>1. proc'[p].pc = "contains" /\ proc'[p].run = proc[p].run /\ proc'[p].result = Len(target[Repository(p)])
    BY <1>4 DEF Resolve, IntegrationInv, Typed, ProcessType
  <2> QED
    BY <1>1, <1>2, <2>1 DEF Undisturbed, At, Repository
<1>5. CASE ContainsStep(p)
  <2>1. /\ proc[p].pc = "contains" /\ proc'[p].pc \in {"complete", "merge"}
        /\ proc'[p].run = proc[p].run /\ proc'[p].result = proc[p].result
    <3>1. Goto(p, "complete", proc[p].pos) \/ Goto(p, "merge", proc[p].pos)
      BY <1>5 DEF ContainsStep
    <3> QED
      BY <1>5, <3>1 DEF ContainsStep, At, Goto, IntegrationInv, Typed, ProcessType
  <2> QED
    BY <1>1, <1>2, <2>1 DEF Undisturbed, At, Repository
<1>6. CASE Drift(p) /\ proc'[p].pc = "failrun"
  <2> DEFINE k == proc[p].run
  <2>1. /\ proc[p].pc = "drift" /\ proc'[p].run = k /\ proc'[p].seen = proc[p].seen
        /\ ~AtRecordedIntegration(p) /\ ~AtUnrecordedMerge(p)
    <3>1. ~Goto(p, "early", 1)
      BY <1>6, Fields
    <3> QED
      BY <1>6, <3>1, Fields DEF Drift, At
  <2>2. /\ proc[p].seen = runs[k].steps
        /\ \A st : SeenWith(p, st) = StepsWith(k, st)
        /\ k \in Runs /\ runs[k].status = "running" /\ Repository(p) = runs[k].repository
    BY <2>1, KnowsAll, RunOf DEF Repository
  <2>3. Explained(k)
    BY <2>2 DEF Undisturbed
  <2>4. SeenWith(p, "integrated") = {}
    BY <2>1, <2>2, <2>3 DEF Explained, AtRecordedIntegration, AtUnrecordedMerge, Contains, Has
  <2>5. SeenWith(p, "integrated")' = {}
    BY <2>1, <2>4 DEF SeenWith
  <2> QED
    BY <1>1, <1>2, <1>6, <2>5 DEF Undisturbed, At
<1>7. CASE MergeFault(p)
  <2>1. proc'[p].pc = "failstep"
    BY <1>7, Fields DEF MergeFault, AfterMerge
  <2> QED
    BY <1>3, <2>1
<1>8. CASE Load(p) \/ ReadTarget(p) \/ FailRun(p) \/ Seal(p) \/ FailStep(p) \/ Crash(p)
           \/ Preflight(p) \/ Candidate(p) \/ Source(p) \/ (Drift(p) /\ proc'[p].pc # "failrun")
  <2>1. proc'[p].pc \in {"target", "drift", "idle", "preflight", "candidate", "closing", "source",
                         "resolve", "failstep", "early"}
    <3>1. CASE Load(p) \/ ReadTarget(p)
      BY <3>1 DEF Load, ReadTarget, IntegrationInv, Typed, ProcessType
    <3>2. CASE FailRun(p) \/ Seal(p) \/ FailStep(p) \/ Crash(p)
      BY <3>2, Fields DEF FailRun, Seal, FailStep, Crash
    <3>3. CASE Preflight(p) \/ Candidate(p) \/ Source(p) \/ (Drift(p) /\ proc'[p].pc # "failrun")
      BY <3>3, Fields DEF Preflight, Candidate, Source, Drift
    <3> QED
      BY <1>8, <3>1, <3>2, <3>3
  <2> QED
    BY <1>3, <2>1
<1>9. CASE Early(p) \/ Finish(p) \/ Closing(p) \/ CompleteStep(p)
  <2>1. proc'[p].pc \in {"early", "preflight", "idle", "candidate", "closing", "seal", "finish"}
    <3>1. CASE Early(p) \/ Finish(p) \/ Closing(p)
      BY <3>1, Fields DEF Early, Finish, Closing, CompleteItem, ItemCompleted, ItemInterrupted,
         ItemLeftAlone, ItemRefused
    <3>2. CASE CompleteStep(p)
      BY <3>2, Completes
    <3> QED
      BY <1>9, <3>1, <3>2
  <2> QED
    BY <1>3, <2>1
<1> QED
  BY <1>4, <1>5, <1>6, <1>7, <1>8, <1>9 DEF Step

\* A merge is explained: the commit, if there is one, is of the step that comes next.
LEMMA MergeUndisturbed ==
  ASSUME IntegrationInv, Works, Alone, Clean, Undisturbed, drift = 0,
         NEW p \in Processes, Merge(p) \/ MergeFault(p)
  PROVE  Undisturbed'
<1> DEFINE r == Repository(p)
           l == proc[p].run
           n == proc[p].pos
           commit == [item |-> Seen(p).item, head |-> Seen(p).head]
<1>1. /\ proc[p].pc = "merge" /\ proc[p].pc \in Stepping /\ proc[p].pc # "idle" /\ UNCHANGED runs
      /\ ~Load(p)
  BY DEF Merge, MergeFault, At, Stepping, Load
<1>2. /\ r \in Repositories /\ l \in Runs /\ runs[l].status = "running" /\ Seen(p) \in RunSteps
      /\ n \in 1..Len(runs[l].steps) /\ runs[l].steps \in Seq(RunSteps)
      /\ Seen(p) = runs[l].steps[n] /\ runs[l].steps[n].status = "pending"
      /\ \A j \in 1..Len(runs[l].steps) : j < n => runs[l].steps[j].status # "pending"
  <2>1. /\ r \in Repositories /\ l \in Runs /\ runs[l].status = "running" /\ Seen(p) \in RunSteps
        /\ n \in 1..Len(runs[l].steps) /\ n \in 1..Len(proc[p].seen) /\ WorkerOK(proc[p], runs)
        /\ runs[l].steps \in Seq(RunSteps)
        /\ EndedBefore(p, n) /\ Len(proc[p].seen) = Len(runs[l].steps)
    BY <1>1, Acts, WorksOn, RunOf
  <2>2. Ahead(proc[p], n)
    BY <1>1, <2>1 DEF Ahead, Settling
  <2> QED
    BY <1>1, <2>1, <2>2 DEF WorkerOK, EndedBefore, Seen
<1>3. Min(StepsWith(l, "pending")) = n /\ StepsWith(l, "pending") # {}
  <2>1. StepsWith(l, "pending") \in SUBSET Nat /\ n \in StepsWith(l, "pending")
        /\ \A m \in StepsWith(l, "pending") : n <= m
    BY SMTT(30), <1>2, LenProperties DEF StepsWith
  <2> QED
    BY <2>1, MinIs
<1>4. commit \in Commits /\ commit.item = runs[l].steps[n].item /\ commit.head = runs[l].steps[n].head
  BY <1>2 DEF RunSteps, Commits
<1>5. /\ \A q \in Repositories \ {r} : target'[q] = target[q]
      /\ target'[r] = target[r] \/ Has(target'[r], commit.item, commit.head)
  <2>1. target' = target \/ target' = [target EXCEPT ![r] = Append(target[r], commit)]
    <3>1. target = [target EXCEPT ![r] = target[r]]
      BY <1>2 DEF IntegrationInv, Typed
    <3> QED
      BY <3>1 DEF Merge, MergeFault, git
  <2> HIDE DEF r, commit
  <2> QED
    BY <1>2, <1>4, <2>1, Appending DEF IntegrationInv, Typed
<1>6. ASSUME NEW k \in Runs, runs[k].status = "running" PROVE Explained(k)'
  <2>1. Explained(k)
    BY <1>6 DEF Undisturbed
  <2>2. CASE target'[runs[k].repository] = target[runs[k].repository]
    BY <1>1, <2>1, <2>2, ExplainedStill
  <2>3. CASE target'[runs[k].repository] # target[runs[k].repository]
    <3>1. runs[k].repository \in Repositories /\ runs[k].repository = r
      BY <1>5, <1>6, <2>3, RunExists
    <3>2. k = l
      BY <1>2, <1>6, <3>1 DEF Works, RunsApart, Repository
    <3>3. Has(target'[r], runs[l].steps[n].item, runs[l].steps[n].head)
      BY <1>4, <1>5, <2>3, <3>1
    <3> HIDE DEF l, r, n
    <3>4. StepsWith(k, "pending")' = StepsWith(k, "pending")
      BY <1>1 DEF StepsWith
    <3>5. Min(StepsWith(k, "pending")') = n
      BY <1>3, <3>2, <3>4
    <3> QED
      BY <1>1, <1>3, <3>1, <3>2, <3>3, <3>4, <3>5 DEF Explained
  <2> QED
    BY <2>2, <2>3
<1>7. \A k \in Runs : runs[k].status = "failed" => StepsWith(k, "integrated")' = {}
  BY <1>1 DEF Undisturbed, StepsWith
<1>8. \A q \in Processes \ {p} : proc'[q].pc = "idle"
  BY <1>1, Progress, Others DEF Step
<1>9. /\ proc'[p].pc \in {"complete", "failstep"} /\ proc'[p].run = l
      /\ proc'[p].pc = "complete" => proc'[p].result = Len(target'[r])
  <2>1. Goto(p, "failstep", n) => proc'[p].pc = "failstep" /\ proc'[p].run = l
    BY Fields
  <2>2. \/ Goto(p, "failstep", n)
        \/ \E merged : /\ target' = [target EXCEPT ![r] = merged]
                       /\ proc' = [proc EXCEPT ![p].pc = "complete", ![p].result = Len(merged)]
    BY DEF Merge, MergeFault, AfterMerge
  <2>3. ASSUME NEW merged, target' = [target EXCEPT ![r] = merged],
               proc' = [proc EXCEPT ![p].pc = "complete", ![p].result = Len(merged)]
        PROVE  proc'[p].pc = "complete" /\ proc'[p].run = l /\ proc'[p].result = Len(target'[r])
    <3>1. target'[r] = merged
      BY <1>2, <2>3 DEF IntegrationInv, Typed
    <3> QED
      BY <2>3, <3>1 DEF IntegrationInv, Typed, ProcessType
  <2> QED
    BY <2>1, <2>2, <2>3
<1> QED
  BY <1>1, <1>6, <1>7, <1>8, <1>9 DEF Undisturbed, At, Repository

\* The head a run records is the one it finds.
LEMMA CompletionUndisturbed ==
  ASSUME IntegrationInv, Works, Alone, Undisturbed, drift = 0, NEW p \in Processes, CompleteStep(p)
  PROVE  Undisturbed'
<1> DEFINE l == proc[p].run
           n == proc[p].pos
<1>1. /\ proc[p].pc = "complete" /\ proc'[p].pc = "finish" /\ l \in Runs /\ runs[l].status = "running"
      /\ n \in 1..Len(runs[l].steps) /\ runs[l].steps[n].status = "pending"
      /\ \A k \in Runs \ {l} : runs'[k] = runs[k]
      /\ runs'[l].status = "running" /\ runs'[l].repository = Repository(p)
      /\ Len(runs'[l].steps) = Len(runs[l].steps)
      /\ \A j \in 1..Len(runs[l].steps) : j # n => runs'[l].steps[j] = runs[l].steps[j]
      /\ runs'[l].steps[n].status = "integrated" /\ runs'[l].steps[n].result = proc[p].result
  BY Completes
<1>2. UNCHANGED target
  BY DEF CompleteStep, git
<1>3. \A q \in Processes : proc'[q].pc \in {"idle", "finish"}
  <2>1. Step(p) /\ proc[p].pc # "idle"
    BY <1>1 DEF Step
  <2> QED
    BY <1>1, <2>1, Progress, Others
<1>4. ASSUME NEW k \in Runs, k = l PROVE Explained(k)'
  <2>1. DOMAIN runs'[l].steps = 1..Len(runs[l].steps) /\ Len(runs[l].steps) \in Nat
    <3>1. IntegrationInv'
      BY CompletedStep
    <3> QED
      BY <1>1, <3>1, LenProperties DEF IntegrationInv, Typed, RunType
  <2>2. RunOK(runs[l], target)
    BY <1>1, Acts
  <2> DEFINE done == {i \in DOMAIN runs'[l].steps : runs'[l].steps[i].status = "integrated"}
  <2>3. ASSUME NEW m \in done PROVE m <= n
    <3>1. SUFFICES ASSUME m > n PROVE FALSE
      BY <1>1, <2>1
    <3>2. m \in 1..Len(runs[l].steps) /\ runs[l].steps[m].status = "integrated"
      BY <1>1, <2>1, <3>1
    <3> QED
      BY <1>1, <2>2, <3>1, <3>2 DEF RunOK
  <2>4. done \in SUBSET Nat /\ n \in done
    <3>1. \A m \in 1..Len(runs[l].steps) : m \in Nat
      BY <2>1
    <3>2. done \subseteq 1..Len(runs[l].steps)
      BY <2>1
    <3> QED
      BY <1>1, <2>1, <3>1, <3>2
  <2> HIDE DEF done
  <2>5. Max(done) = n
    BY <2>3, <2>4, MaxIs
  <2>6. runs'[l].steps[Max(done)].result = Len(target'[runs'[l].repository])
    BY <1>1, <1>2, <2>5 DEF Undisturbed
  <2> QED
    <3>1. StepsWith(k, "integrated")' = done
      BY <1>4 DEF StepsWith, done
    <3> QED
      BY <1>4, <2>6, <3>1 DEF Explained
<1>5. ASSUME NEW k \in Runs \ {l}
      PROVE  /\ runs'[k].status = "running" => Explained(k)'
             /\ runs'[k].status = "failed" => StepsWith(k, "integrated")' = {}
  BY <1>1, <1>2, <1>5, ExplainedStill DEF Undisturbed, StepsWith
<1> QED
  BY <1>1, <1>3, <1>4, <1>5 DEF Undisturbed, At

\* A run that ends leaves the others, and one that fails has integrated nothing.
LEMMA EndUndisturbed ==
  ASSUME IntegrationInv, Works, Alone, Undisturbed, drift = 0, NEW p \in Processes,
         FailRun(p) \/ FailStep(p) \/ Seal(p)
  PROVE  Undisturbed'
<1> DEFINE l == proc[p].run
<1>1. proc[p].pc # "idle" /\ Step(p) /\ UNCHANGED target
  BY DEF FailRun, FailStep, Seal, At, Step, git
<1>2. l \in Runs /\ runs[l].status = "running" /\ \A q \in Processes : proc'[q].pc = "idle"
  <2>1. proc'[p].pc = "idle"
    BY Fields DEF FailRun, FailStep, Seal
  <2> QED
    BY <1>1, <2>1, RunOf, Progress, Others
<1>3. \A k \in Runs \ {l} : runs'[k] = runs[k]
  BY <1>2 DEF FailRun, FailStep, Seal, IntegrationInv, Typed
<1>4. /\ runs'[l].status # "running"
      /\ runs'[l].status = "failed" => FailRun(p) /\ runs'[l].steps = runs[l].steps
  <2>1. CASE FailStep(p)
    BY <2>1, FailsAlike
  <2>2. CASE FailRun(p) /\ ~Seal(p)
    BY <1>2, <2>2 DEF FailRun, IntegrationInv, Typed, RunType
  <2>3. CASE Seal(p)
    BY <1>2, <2>3 DEF Seal, IntegrationInv, Typed, RunType
  <2> QED
    BY <2>1, <2>2, <2>3
<1>5. FailRun(p) => StepsWith(l, "integrated") = {}
  BY KnowsAll DEF Undisturbed, FailRun, At
<1>6. ASSUME NEW k \in Runs
      PROVE  /\ runs'[k].status = "running" => Explained(k)'
             /\ runs'[k].status = "failed" => StepsWith(k, "integrated")' = {}
  <2>1. CASE k = l
    BY <1>4, <1>5, <2>1 DEF StepsWith
  <2>2. CASE k # l
    BY <1>1, <1>3, <2>2, ExplainedStill DEF Undisturbed, StepsWith
  <2> QED
    BY <2>1, <2>2
<1> QED
  BY <1>2, <1>6 DEF Undisturbed, At

\* A run that begins has integrated nothing.
LEMMA CommandUndisturbed ==
  ASSUME IntegrationInv, Works, Undisturbed, drift = 0, Command
  PROVE  Undisturbed'
<1>1. UNCHANGED <<target, drift>>
  BY DEF Command, Preview, Confirm, Resume, Reading, git
<1>2. ASSUME NEW k \in Runs, NEW r \in Repositories, Preview(k, r) PROVE Undisturbed'
  <2>1. /\ runs'[k].status = "previewed" /\ proc' = proc /\ runs[k].status = "absent"
        /\ \A l \in Runs \ {k} : runs'[l] = runs[l]
    BY <1>2 DEF Preview, IntegrationInv, Typed
  <2>2. ASSUME NEW l \in Runs
        PROVE  /\ runs'[l].status = "running" => Explained(l)'
               /\ runs'[l].status = "failed" => StepsWith(l, "integrated")' = {}
    BY <1>1, <2>1, ExplainedStill DEF Undisturbed, StepsWith
  <2>3. ASSUME NEW q \in Processes, proc[q].pc # "idle" PROVE Repository(q)' = Repository(q)
    BY <2>1, <2>3, Acts DEF Repository
  <2> QED
    BY <1>1, <2>1, <2>2, <2>3 DEF Undisturbed, At, SeenWith
<1>3. ASSUME NEW p \in Processes, NEW k \in Runs, Confirm(p, k) \/ Resume(p, k) PROVE Undisturbed'
  <2>1. /\ proc' = [proc EXCEPT ![p] = [Idle EXCEPT !.pc = "load", !.run = k]]
        /\ \/ runs' = [runs EXCEPT ![k].status = "running"] /\ runs[k].status = "previewed"
           \/ runs' = runs /\ runs[k].status = "running"
    BY <1>3 DEF Confirm, Resume, Reading
  <2>2. /\ proc'[p] = [Idle EXCEPT !.pc = "load", !.run = k]
        /\ \A q \in Processes \ {p} : proc'[q] = proc[q]
    BY <2>1 DEF IntegrationInv, Typed
  <2>3. proc'[p].pc = "load"
    BY <2>2 DEF Idle
  <2>4. /\ runs'[k].status = "running" /\ \A l \in Runs \ {k} : runs'[l] = runs[l]
        /\ runs'[k].steps = runs[k].steps /\ runs'[k].repository = runs[k].repository
    BY <2>1 DEF IntegrationInv, Typed, RunType
  <2>5. Explained(k)'
    <3>1. CASE runs[k].status = "running"
      BY <1>1, <2>4, <3>1, ExplainedStill DEF Undisturbed
    <3>2. CASE runs[k].status = "previewed"
      <4>1. StepsWith(k, "integrated") = {}
        BY <3>2, LenProperties DEF Works, RunsApart, StepsWith, IntegrationInv, Typed, RunType
      <4>2. StepsWith(k, "integrated")' = {}
        BY <2>4, <4>1 DEF StepsWith
      <4> QED
        BY <4>2 DEF Explained
    <3> QED
      BY <2>1, <3>1, <3>2
  <2>6. ASSUME NEW l \in Runs
        PROVE  /\ runs'[l].status = "running" => Explained(l)'
               /\ runs'[l].status = "failed" => StepsWith(l, "integrated")' = {}
    BY <1>1, <2>4, <2>5, ExplainedStill DEF Undisturbed, StepsWith
  <2>7. ASSUME NEW q \in Processes \ {p}, proc[q].pc # "idle" PROVE Repository(q)' = Repository(q)
    BY <2>2, <2>4, <2>7, Acts DEF Repository
  <2>8. ASSUME NEW q \in Processes
        PROVE  /\ At(q, "failrun")' => SeenWith(q, "integrated")' = {}
               /\ proc'[q].pc \in {"contains", "merge", "complete"} =>
                    proc'[q].result = Len(target'[Repository(q)'])
    <3>1. CASE q = p
      BY <2>3, <3>1 DEF At
    <3>2. CASE q # p
      BY <1>1, <2>2, <2>7, <3>2 DEF Undisturbed, At, SeenWith
    <3> QED
      BY <3>1, <3>2
  <2> QED
    BY <2>6, <2>8 DEF Undisturbed
<1> QED
  BY <1>2, <1>3 DEF Command

\* While nobody else commits and no merge conflicts, a run of a process alone does not fail for
\* what it finds in the checkout once it has integrated a step.
LEMMA UndisturbedAlone ==
  ASSUME IntegrationInv, Works, Alone, Clean, Undisturbed, [Next]_vars
  PROVE  Undisturbed'
<1> SUFFICES ASSUME drift' = 0 PROVE Undisturbed'
  BY DEF Undisturbed
<1>1. drift = 0 /\ \A r \in Repositories : ~CommitTarget(r)
  <2>1. ASSUME NEW r \in Repositories, CommitTarget(r) PROVE FALSE
    BY <2>1, BoundsAssumption DEF CommitTarget, IntegrationInv, Typed
  <2>2. drift' = drift
    <3>1. \A p \in Processes : Step(p) => drift' = drift
      BY DEF Step, Load, ReadTarget, Drift, FailRun, Early, Preflight, Candidate, Source, Resolve,
         ContainsStep, Merge, CompleteStep, Finish, FailStep, Closing, Seal, Reading, CompleteItem
    <3>2. Command => drift' = drift
      BY DEF Command, Preview, Confirm, Resume, Reading
    <3>3. Environment => drift' = drift
      BY <2>1 DEF Environment, Crash, MergeFault, Checkpoint, Repair, CommitSource, ReconcileSource,
         ReconcileTarget, Conclude
    <3> QED
      BY <3>1, <3>2, <3>3 DEF Next, vars
  <2> QED
    BY <2>1, <2>2
<1>2. ASSUME UNCHANGED <<runs, target, proc>> PROVE Undisturbed'
  BY <1>1, <1>2 DEF Undisturbed, Explained, StepsWith, At, SeenWith, Repository
<1>3. ASSUME NEW p \in Processes, Step(p) \/ Crash(p) \/ MergeFault(p) PROVE Undisturbed'
  <2>1. CASE Merge(p) \/ MergeFault(p)
    BY <1>1, <2>1, MergeUndisturbed
  <2>2. CASE CompleteStep(p)
    BY <1>1, <2>2, CompletionUndisturbed
  <2>3. CASE FailRun(p) \/ FailStep(p) \/ Seal(p)
    BY <1>1, <2>3, EndUndisturbed
  <2>4. CASE ~(Merge(p) \/ MergeFault(p) \/ CompleteStep(p) \/ FailRun(p) \/ FailStep(p) \/ Seal(p))
    <3>1. UNCHANGED <<runs, target>>
      BY <1>3, <2>4 DEF Step, Load, ReadTarget, Drift, Early, Preflight, Candidate, Source, Resolve,
         ContainsStep, Finish, Closing, Crash, Reading, CompleteItem, git
    <3> QED
      BY <1>1, <1>3, <2>4, <3>1, ReadsUndisturbed
  <2> QED
    BY <2>1, <2>2, <2>3, <2>4
<1>4. ASSUME NEW r \in Repositories, Conclude(r) PROVE FALSE
  BY <1>4 DEF Conclude, Clean
<1>5. CASE Environment
  BY <1>1, <1>2, <1>3, <1>4, <1>5 DEF Environment, Checkpoint, Repair, CommitSource, ReconcileSource,
     ReconcileTarget, git
<1>6. CASE UNCHANGED vars
  BY <1>2, <1>6 DEF vars
<1> QED
  BY <1>1, <1>3, <1>5, <1>6, CommandUndisturbed DEF Next

-----------------------------------------------------------------------------
(* One process forgets no item.                                              *)

\* At first nothing is due, and nothing runs.
LEMMA BeginsAlone == Init => Works /\ Cover /\ Clean /\ Undisturbed
<1> SUFFICES ASSUME Init PROVE Works /\ Cover /\ Clean /\ Undisturbed
  OBVIOUS
<1>1. /\ \A k \in Runs : runs[k].status = "absent" /\ runs[k].steps = <<>>
      /\ \A p \in Processes : proc[p].pc = "idle"
      /\ \A r \in Repositories : merging[r] = NoCommit
  BY DEF Init, NoRun, Idle
<1>2. Works /\ Clean /\ Undisturbed
  BY <1>1 DEF Works, RunsApart, WorkerOK, Clean, Undisturbed, At
<1>3. ASSUME NEW d \in Items PROVE ~Due(d)
  BY DEF Init, Due, IntegrationReady, NoIntegration
<1> QED
  BY <1>2, <1>3 DEF Cover

\* When nothing runs, an item whose repositories are all integrated is done, or has an update
\* that is open, or a run that has not ended or has failed.
NoneLost ==
  (\A p \in Processes : At(p, "idle")) => \A d \in Items :
    status[d] = "review" /\ IntegrationReady(integrations[d]) =>
      \/ interrupted[d] # "no"
      \/ \E k \in Runs : /\ runs[k].status \in {"running", "failed"}
                         /\ \E i \in DOMAIN runs[k].steps : runs[k].steps[i].item = d

\* What is owed is not lost, and not forgotten while nobody disturbs.
LEMMA OwedIsKept ==
  ASSUME IntegrationInv, Cover
  PROVE  NoneLost /\ (Undisturbed => NoneForgotten)
<1> SUFFICES ASSUME \A p \in Processes : At(p, "idle"), NEW d \in Items, status[d] = "review",
                    IntegrationReady(integrations[d]), interrupted[d] = "no"
             PROVE  \E k \in Runs : /\ runs[k].status \in {"running", "failed"}
                                    /\ Undisturbed => runs[k].status = "running" \/ drift > 0
                                    /\ \E i \in DOMAIN runs[k].steps : runs[k].steps[i].item = d
  BY DEF NoneLost, NoneForgotten
<1>1. PICK k \in Runs : \E i \in 1..Len(runs[k].steps) : OwedBy(d, k, i)
  BY DEF Cover, Due
<1>2. PICK i \in 1..Len(runs[k].steps) : OwedBy(d, k, i)
  BY <1>1
<1>3. i \in DOMAIN runs[k].steps
  BY <1>2, RunKnown
<1>4. drift # 0 => drift > 0
  BY BoundsAssumption DEF IntegrationInv, Typed
<1> QED
  BY <1>2, <1>3, <1>4 DEF OwedBy, Undisturbed, StepsWith

\* One process that executes the runs loses no item, whatever it is interrupted by, whatever
\* conflicts, leaves review or is committed by others meanwhile: when nothing runs, an item whose
\* repositories are all integrated is done, or has an update that is open, or is a step of a run
\* that can be resumed or that has failed and says so (complete_integration, execute_run).
THEOREM NoneIsLost == OneExecutor /\ Spec => []NoneLost
<1> SUFFICES ASSUME OneExecutor PROVE Spec => []NoneLost
  OBVIOUS
<1>1. Alone
  BY DEF OneExecutor, Alone
<1>2. IntegrationInv /\ Works /\ Cover /\ [Next]_vars => (IntegrationInv /\ Works /\ Cover)'
  BY <1>1, Preserved, WorksAlone, CoversAlone
<1>3. IntegrationInv /\ Cover => NoneLost
  BY OwedIsKept
<1> QED
  BY <1>2, <1>3, Beginning, BeginsAlone, PTL DEF Spec

\* The second instance, in which Lone runs alone.
LoneInv ==
  instance = "repositories" =>
    Alone /\ Harmless /\ IntegrationInv /\ Works /\ Cover /\ Clean /\ Undisturbed

\* It does not fail for what it has left in the checkout itself either, where nothing conflicts:
\* only a commit of somebody else makes a run fail that has items to complete.  A person who
\* concludes a conflicted merge is somebody else, whom the model does not count as drift, hence
\* the assumption on the instance.
THEOREM LoneForgetsNone == Conflicting \cap Items \subseteq Twins /\ ScenarioSpec => []AloneForgetsNone
<1> SUFFICES ASSUME Conflicting \cap Items \subseteq Twins PROVE ScenarioSpec => []AloneForgetsNone
  OBVIOUS
<1>1. ScenarioInit => LoneInv
  <2> SUFFICES ASSUME ScenarioInit, instance = "repositories"
               PROVE  Alone /\ Harmless /\ IntegrationInv /\ Works /\ Cover /\ Clean /\ Undisturbed
    BY DEF LoneInv
  <2>1. integrations = [d \in Items |-> [r \in Repositories |-> NoIntegration]]
    BY DEF ScenarioInit
  <2>2. target = [r \in Repositories |-> << >>]
    BY DEF ScenarioInit
  <2>3. recorded = [r \in Repositories |-> 0]
    <3>1. \A r \in Repositories : Len(target[r]) = 0
      BY <2>2
    <3> QED
      BY <3>1 DEF ScenarioInit
  <2>4. Init
    BY <2>1, <2>2, <2>3 DEF ScenarioInit, Init
  <2>5. Alone /\ Harmless
    BY DEF ScenarioInit, Alone, Harmless, At, Idle
  <2> QED
    BY <2>4, <2>5, Beginning, BeginsAlone
<1>2. LoneInv /\ [ScenarioNext]_scenarioVars => LoneInv'
  <2> SUFFICES ASSUME LoneInv, [ScenarioNext]_scenarioVars, instance' = "repositories"
               PROVE  (Alone /\ Harmless /\ IntegrationInv /\ Works /\ Cover /\ Clean /\ Undisturbed)'
    BY DEF LoneInv
  <2>1. instance = "repositories" /\ [Next]_vars /\ (Within' \/ UNCHANGED vars)
    BY DEF ScenarioNext, scenarioVars
  <2>2. /\ Alone /\ Harmless /\ IntegrationInv /\ Works /\ Cover /\ Clean /\ Undisturbed
    BY <2>1 DEF LoneInv
  <2>3. (Alone /\ Harmless)'
    <3>1. CASE Within'
      BY <3>1 DEF Within, WithinRepositories, Alone, At, Idle, Harmless
    <3>2. CASE UNCHANGED vars
      BY <2>2, <3>2 DEF vars, Alone, At, Harmless
    <3> QED
      BY <2>1, <3>1, <3>2
  <2> QED
    BY <2>1, <2>2, <2>3, Preserved, WorksAlone, CoversAlone, CleanStays, UndisturbedAlone
<1>3. LoneInv => AloneForgetsNone
  BY OwedIsKept DEF LoneInv, AloneForgetsNone
<1> QED
  BY <1>1, <1>2, <1>3, PTL DEF ScenarioSpec

================================================================================
