--------------------------- MODULE WorkItemLedger ---------------------------
(***************************************************************************)
(* What the checkpoint service promises its callers: a Work item has one   *)
(* authoritative state, replaced atomically and one revision at a time by  *)
(* legal moves; a review queues the heads to integrate; an item becomes    *)
(* done only when every queued head has been integrated.  No files,        *)
(* commits, staged rows or processes appear here: WorkItemState implements *)
(* this module.                                                            *)
(***************************************************************************)
EXTENDS Naturals, WorkItemRules

CONSTANTS Items,         \* Work items
          Repositories,  \* repositories every item must be integrated into
          Payloads,      \* what a checkpoint says, beyond its status
          MaxHead        \* bound on the commits of a source checkout

VARIABLES status,        \* work_items.status
          state,         \* work_item_states: the latest accepted state
          integrations,  \* work_item_integrations
          results,       \* the repositories whose row holds a result_head
          sourceHead     \* checkouts.head of the item's checkout, per repository

ledgerVars == <<status, state, integrations, results, sourceHead>>

LedgerInit ==
  /\ status = [d \in Items |-> "ready"]
  /\ state = [d \in Items |->
                [revision |-> 0, documentRevision |-> 1, status |-> "none", payload |-> "none"]]
  /\ integrations = [d \in Items |-> [r \in Repositories |-> NoIntegration]]
  /\ results = [d \in Items |-> {}]
  /\ sourceHead = [d \in Items |-> [r \in Repositories |-> 0]]

\* A legal move, whoever asks for it: only an integration can mean done, and it
\* does so for a reviewed item of which every queued head has its result.  What the
\* rows say of it may be stale by then, which is why the promise is not about them.
LegalMove(d, to) ==
  IF to = "done"
    THEN status[d] = "review" /\ Repositories # {} /\ results[d] = Repositories
    ELSE status[d] \notin TerminalStatuses /\ to \in Successors[status[d]] \cup {status[d]}

Accept(d, to, payload, repos) ==
  /\ LegalMove(d, to)
  /\ status' = [status EXCEPT ![d] = to]
  /\ state' = [state EXCEPT ![d] =
                 [revision |-> @.revision + 1, documentRevision |-> @.documentRevision + 1,
                  status |-> to, payload |-> payload]]
  /\ integrations' = IF to = "review"
                       THEN [integrations EXCEPT ![d] = QueueReview(@, sourceHead[d], repos)]
                       ELSE integrations
  /\ results' = IF to = "review"
                  THEN [results EXCEPT ![d] =
                          ResultsKept(@, integrations[d], sourceHead[d], repos)]
                  ELSE results
  /\ UNCHANGED sourceHead

\* A Feature integration reports the outcome of a queued head, or takes back the one
\* that another executor reported; a result that was recorded stays.
Settle(d, r, outcome) ==
  /\ integrations[d][r].status # "absent"
  /\ integrations' = [integrations EXCEPT ![d][r].status = outcome]
  /\ results' = IF outcome = "integrated" THEN [results EXCEPT ![d] = @ \cup {r}] ELSE results
  /\ UNCHANGED <<status, state, sourceHead>>

\* New work is committed in the item's checkout and reconciled into the store.
AdvanceSource(d, r) ==
  /\ sourceHead[d][r] < MaxHead
  /\ sourceHead' = [sourceHead EXCEPT ![d][r] = @ + 1]
  /\ UNCHANGED <<status, state, integrations, results>>

LedgerNext ==
  \E d \in Items :
    \/ \E to \in WorkItemStatuses, payload \in Payloads \cup {"none"}, repos \in SUBSET Repositories :
         Accept(d, to, payload, repos)
    \/ \E r \in Repositories, outcome \in {"integrated", "conflict"} : Settle(d, r, outcome)
    \/ \E r \in Repositories : AdvanceSource(d, r)

LedgerSpec == LedgerInit /\ [][LedgerNext]_ledgerVars

=============================================================================
