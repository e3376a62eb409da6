-------------------------- MODULE MCWorkItemState ---------------------------
(***************************************************************************)
(* Instances of WorkItemState for TLC: the requests of each run.           *)
(***************************************************************************)
EXTENDS WorkItemState, TLC

Update(name, d, to, n) ==
  [key |-> <<"caller", name>>, item |-> d, status |-> to,
   terminal |-> IF to = "cancelled" THEN "cancel" ELSE "none", payload |-> name,
   blocked |-> to = "blocked", revision |-> n - 1, documentRevision |-> n]

\* Two callers that read the same revision.
Rivals == {Update("a", "item", "review", 1), Update("b", "item", "in_progress", 1)}

\* Two reviews, the second perhaps of a newer head, and a rival of the first that
\* uses the key of the second.
ReviewsAndReuse ==
  {Update("a", "item", "review", 1), Update("c", "item", "review", 2),
   [Update("b", "item", "in_progress", 1) EXCEPT !.key = <<"caller", "c">>]}

\* The bound of state_rivals, its CONSTRAINT: a person edits the document, or a newer head or a second
\* review is asked for, and not both in one behaviour.
SecondReview(req) == req.status = "review" /\ req.documentRevision > 1

EditOrReview ==
  \/ edits = 0
  \/ /\ \A d \in Items, r \in Repositories : sourceHead[d][r] = 0
     /\ ~\E p \in Processes : SecondReview(proc[p].req)
     /\ ~\E k \in Keys : SecondReview(updates[k].req)

\* An update that is made before or after another of its item was accepted, next to
\* an update of another item, which shares the index and HEAD.
RivalsAndOther ==
  Rivals \cup {Update("b", "item", "in_progress", 2), Update("c", "other", "blocked", 1)}

\* Two updates, one after the other.
Chain == {Update("a", "item", "review", 1), Update("b", "item", "blocked", 2)}

ProcessSymmetry == Permutations(Processes)

\* A process that runs goes on running, and a caller that was told to reconcile
\* does so.
FairSpec ==
  Spec /\ \A p \in Processes : WF_vars(Step(p)) /\ \A k \in Keys : SF_vars(Reconcile(p, k))

\* Retrying converges: an update that is open is completed in the end, unless it is
\* overtaken, a person changed a document or an interrupted copy left one that
\* cannot be read.
Converges ==
  \A k \in Keys :
    Open(updates[k]) ~> \/ updates[k].publication = "completed"
                        \/ Overtaken(k)
                        \/ edits > 0
                        \/ \E d \in Items : file[d].status = "torn"

=============================================================================
