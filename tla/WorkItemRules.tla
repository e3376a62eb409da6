---------------------------- MODULE WorkItemRules ---------------------------
(***************************************************************************)
(* The rules a Work-item checkpoint obeys, as pure operators: which status *)
(* moves are legal for whom, and what a review does to the item's          *)
(* integration rows (application/work_item_state.rs).                      *)
(***************************************************************************)

WorkItemStatuses ==
  {"backlog", "ready", "in_progress", "blocked", "review", "done", "cancelled"}

TerminalStatuses == {"done", "cancelled"}

TerminalIntents == {"none", "complete", "cancel"}

StateActors == {"managed_session", "local_human", "integration"}

Successors ==
  [ backlog     |-> {"ready", "in_progress", "blocked", "cancelled"},
    ready       |-> {"in_progress", "blocked", "review", "cancelled"},
    in_progress |-> {"ready", "blocked", "review", "cancelled"},
    blocked     |-> {"ready", "in_progress", "review", "cancelled"},
    review      |-> {"in_progress", "blocked", "cancelled"},
    done        |-> {},
    cancelled   |-> {} ]

ValidateTransition(from, to, terminal) ==
  /\ from \notin TerminalStatuses
  /\ to = from \/ to \in Successors[from]
  /\ to # "done"
  /\ to = "cancelled" => terminal = "cancel"

\* An integration may only move a reviewed item to done, and only when every
\* repository of the item is integrated.
ValidateActorTransition(actor, from, to, terminal, ready) ==
  IF actor = "integration"
    THEN from = "review" /\ to = "done" /\ terminal = "none" /\ ready
    ELSE ValidateTransition(from, to, terminal)

-----------------------------------------------------------------------------
IntegrationStatuses == {"absent", "pending", "integrated", "conflict"}

NoIntegration == [status |-> "absent", head |-> 0]

\* rows: one integration row per repository the item must be integrated into.
IntegrationReady(rows) ==
  /\ DOMAIN rows # {}
  /\ \A r \in DOMAIN rows : rows[r].status = "integrated"

\* The upsert a review makes: the row asks for the checkout's current head, and
\* only a head that was already integrated keeps its outcome.
QueuedRow(row, head) ==
  IF row.status = "integrated" /\ row.head = head
    THEN row
    ELSE [status |-> "pending", head |-> head]

\* A review queues the checkout of the managed session that made it, or every
\* effective checkout of the item when a person did.
QueueReview(rows, heads, repos) ==
  [r \in DOMAIN rows |-> IF r \in repos THEN QueuedRow(rows[r], heads[r]) ELSE rows[r]]

\* The results that the upsert leaves in place: it clears those of the rows it resets.
ResultsKept(results, rows, heads, repos) ==
  {r \in results : r \in repos => QueuedRow(rows[r], heads[r]) = rows[r]}

=============================================================================
