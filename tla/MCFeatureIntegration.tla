------------------------ MODULE MCFeatureIntegration -------------------------
(***************************************************************************)
(* Instances of FeatureIntegration for TLC.                                *)
(***************************************************************************)
EXTENDS FeatureIntegration, TLC

\* The second item depends on the first, though its plan lists it first.
Chain == {<<"b", "a">>}
PlanOrder == [d \in Items |-> CASE d = "a" -> 2 [] d = "b" -> 1 [] OTHER -> 3]
NoDependencies == {}

ProcessSymmetry == Permutations(Processes)

\* A process that runs goes on running, and a run that is interrupted is resumed.
FairSpec ==
  Spec /\ \A p \in Processes :
            WF_vars(Step(p)) /\ \A k \in Runs : SF_vars(Resume(p, k))

\* A step that no resumption can take: its item has left review, or another run
\* integrated it after this one was previewed.
Blocked(k, i) ==
  LET step == runs[k].steps[i]
  IN  \/ status[step.item] \notin {"review", "done"}
      \/ step.status = "pending" /\ ~Queued(step.item, runs[k].repository)

\* A run that was confirmed comes to an end, unless a step of it is blocked or an
\* update it did not stage is open for an item: one that a checkpoint has overtaken,
\* or that a run which failed has left to a person.
UndisturbedRunsEnd ==
  \A k \in Runs :
    runs[k].status = "running" ~>
      \/ runs[k].status # "running"
      \/ \E d \in Items : interrupted[d] \notin {"no", k}
      \/ \E i \in DOMAIN runs[k].steps : Blocked(k, i)

\* Every run that was confirmed comes to an end, and with it its lease of the
\* Feature checkout.
RunsEnd == \A k \in Runs : runs[k].status = "running" ~> runs[k].status # "running"

=============================================================================
