---------------------------- MODULE SessionRequests ---------------------------
(***************************************************************************)
(* A managed session asks for another session of its Work item (the tool   *)
(* session_request: execute_managed_session_request of cli/lib.rs, and     *)
(* managed_session_requests in application/workflow_operations.rs).        *)
(*                                                                         *)
(* A request is kept under an idempotency key.  The call authenticates the *)
(* workflow token several times, prepares the checkout, stores the request *)
(* as pending, launches a session under a key made of the request and      *)
(* then records what became of it: launched, and bound when a hook binds   *)
(* the session within 15 seconds.  Any number of calls may run at once.    *)
(* One action is one transaction, one group of reads or one spawn.         *)
(*                                                                         *)
(* The Work item has one checkout in each repository, and the requesting   *)
(* session works in that of Home.  What preparing a checkout does is       *)
(* modelled by CheckoutAllocation and the launch itself by SessionLaunch.  *)
(***************************************************************************)
EXTENDS Naturals, FiniteSets

CONSTANTS Keys,          \* idempotency keys of requests
          Repositories,  \* the repositories of the Work item
          Home,          \* the one in which the requesting session works
          Commands,      \* calls that may run at the same time
          MaxCalls,      \* bound on calls
          MaxActs,       \* bound on sessions that are closed
          MaxFaults      \* bound on crashes, failed preparations and failed spawns

VARIABLES
  request,  \* managed_session_requests, by idempotency key
  intents,  \* launch_intents under the keys that are made of the requests
  checkout, \* the repositories whose checkout is recorded as available
  managed,  \* managed sessions that are current: the requester's and those of requests
  spawned,  \* how many terminals were spawned for a request
  command,  \* what each call is doing
  calls, acts, faults

counters == <<calls, acts, faults>>
vars == <<request, intents, checkout, managed, spawned, command, counters>>

Requester == "requester"
NoRepository == "none"
NoCommand == [pc |-> "idle", key |-> "none", repository |-> NoRepository]

Init ==
  /\ request = [k \in Keys |-> [status |-> "absent", repository |-> NoRepository]]
  /\ intents = [k \in Keys |-> "absent"]
  /\ checkout = Repositories
  /\ managed = {Requester}
  /\ spawned = [k \in Keys |-> 0]
  /\ command = [p \in Commands |-> NoCommand]
  /\ calls = 0 /\ acts = 0 /\ faults = 0

At(p, pc) == command[p].pc = pc
Goto(p, pc) == command' = [command EXCEPT ![p].pc = pc]
Return(p) == command' = [command EXCEPT ![p] = NoCommand]
Fault == faults < MaxFaults /\ faults' = faults + 1

\* authenticate: the token is that of a bound intent whose session is still managed.
Authenticated == Requester \in managed

\* The row of the key is of another repository: an idempotency conflict.
Conflicting(k, repository) ==
  request[k].status # "absent" /\ request[k].repository # repository

-----------------------------------------------------------------------------
(* Asking.                                                                 *)

\* assigned_hierarchy reports every checkout of the Work item or fails.
Assigned == Authenticated /\ checkout = Repositories

\* The repository is one of the Work item's.
Call(p, k, repository) ==
  /\ At(p, "idle")
  /\ calls < MaxCalls /\ calls' = calls + 1
  /\ Assigned
  /\ command' = [command EXCEPT ![p] =
       [pc |-> "existing", key |-> k, repository |-> repository]]
  /\ UNCHANGED <<request, intents, checkout, managed, spawned, acts, faults>>

\* existing_session_request: one that is bound is the answer, and one that is
\* launched is an error.
Existing(p) ==
  LET k == command[p].key
  IN  /\ At(p, "existing")
      /\ IF /\ Authenticated
            /\ ~Conflicting(k, command[p].repository)
            /\ request[k].status \in {"absent", "pending"}
           THEN Goto(p, "prepare") ELSE Return(p)
      /\ UNCHANGED <<request, intents, checkout, managed, spawned, counters>>

\* prepare_work_item makes the checkout again if it is gone.
Prepare(p) ==
  /\ At(p, "prepare")
  /\ \/ /\ checkout' = checkout \cup {command[p].repository}
        /\ Goto(p, "request")
        /\ UNCHANGED faults
     \/ Fault /\ Return(p) /\ UNCHANGED checkout
  /\ UNCHANGED <<request, intents, managed, spawned, calls, acts>>

\* effective_checkout; a request that is stored keeps the checkout it has.
Effective(p) ==
  request[command[p].key].status = "absent" => command[p].repository \in checkout

\* request_session authenticates and looks for the request once more ...
Authorize(p) ==
  LET k == command[p].key
  IN  /\ At(p, "request")
      /\ IF /\ Authenticated
            /\ ~Conflicting(k, command[p].repository)
            /\ request[k].status \in {"absent", "pending"}
            /\ Effective(p)
           THEN Goto(p, "store") ELSE Return(p)
      /\ UNCHANGED <<request, intents, checkout, managed, spawned, counters>>

\* ... and stores it, unless it has been stored since.
Store(p) ==
  LET k == command[p].key
  IN  /\ At(p, "store")
      /\ \/ /\ request[k].status = "absent"
            /\ request' = [request EXCEPT ![k] =
                 [status |-> "pending", repository |-> command[p].repository]]
            /\ Goto(p, "check")
         \/ /\ request[k].status # "absent"
            /\ IF Conflicting(k, command[p].repository) \/ request[k].status # "pending"
                 THEN Return(p) ELSE Goto(p, "check")
            /\ UNCHANGED request
      /\ UNCHANGED <<intents, checkout, managed, spawned, counters>>

-----------------------------------------------------------------------------
(* Launching, under a key made of the request.                             *)

\* reject_checkout_launch_conflict: an open intent or a current session.
Occupied(repository) ==
  \/ repository = Home /\ Requester \in managed
  \/ \E k \in Keys : /\ request[k].repository = repository
                     /\ k \in managed \/ intents[k] \in {"pending", "launched"}

\* The reads of begin; the request stays pending when it refuses.
Check(p) ==
  /\ At(p, "check")
  /\ IF /\ command[p].repository \in checkout
        /\ intents[command[p].key] = "absent"
        /\ ~Occupied(command[p].repository)
       THEN Goto(p, "insert") ELSE Return(p)
  /\ UNCHANGED <<request, intents, checkout, managed, spawned, counters>>

\* insert_launch_intent; the key of the request is unique among intents.
Insert(p) ==
  LET k == command[p].key
  IN  /\ At(p, "insert")
      /\ \/ /\ intents[k] = "absent"
            /\ intents' = [intents EXCEPT ![k] = "pending"]
            /\ Goto(p, "spawn")
         \/ intents[k] # "absent" /\ Return(p) /\ UNCHANGED intents
      /\ UNCHANGED <<request, checkout, managed, spawned, counters>>

\* execute spawns the terminal and then marks the intent.
Spawn(p) ==
  /\ At(p, "spawn")
  /\ spawned' = [spawned EXCEPT ![command[p].key] = @ + 1]
  /\ Goto(p, "execute")
  /\ UNCHANGED <<request, intents, checkout, managed, counters>>

SpawnFails(p) ==
  /\ At(p, "spawn")
  /\ Fault
  /\ intents' = [intents EXCEPT ![command[p].key] = "failed"]
  /\ Return(p)
  /\ UNCHANGED <<request, checkout, managed, spawned, calls, acts>>

\* A hook that was faster has taken the intent: the call ends with an error.
Execute(p) ==
  LET k == command[p].key
  IN  /\ At(p, "execute")
      /\ \/ /\ intents[k] = "pending"
            /\ intents' = [intents EXCEPT ![k] = "launched"]
            /\ Goto(p, "launched")
         \/ intents[k] # "pending" /\ Return(p) /\ UNCHANGED intents
      /\ UNCHANGED <<request, checkout, managed, spawned, counters>>

\* record_session_launch, from pending only.
RecordLaunch(p) ==
  LET k == command[p].key
  IN  /\ At(p, "launched")
      /\ \/ /\ request[k].status = "pending"
            /\ request' = [request EXCEPT ![k].status = "launched"]
            /\ Goto(p, "await")
         \/ request[k].status # "pending" /\ Return(p) /\ UNCHANGED request
      /\ UNCHANGED <<intents, checkout, managed, spawned, counters>>

\* Mistake: what is launched counts as bound.
ConfirmedOnceLaunched(k) == intents[k] \in {"launched", "bound"}

\* binding_for_intent, whether the session is still managed or not.
Confirmed(k) == intents[k] = "bound"

\* await_binding: the binding is there, or the time is over.
Await(p) ==
  /\ At(p, "await")
  /\ \/ Confirmed(command[p].key) /\ Goto(p, "bound")
     \/ Return(p)
  /\ UNCHANGED <<request, intents, checkout, managed, spawned, counters>>

\* record_session_binding, from launched only.
RecordBinding(p) ==
  LET k == command[p].key
  IN  /\ At(p, "bound")
      /\ request' = [request EXCEPT ![k].status = IF @ = "launched" THEN "bound" ELSE @]
      /\ Return(p)
      /\ UNCHANGED <<intents, checkout, managed, spawned, counters>>

-----------------------------------------------------------------------------
(* What happens around the calls.                                          *)

\* The hook of the spawned session binds it to an intent that is open.
Bind(k) ==
  /\ spawned[k] > 0 /\ intents[k] \in {"pending", "launched"}
  /\ intents' = [intents EXCEPT ![k] = "bound"]
  /\ managed' = managed \cup {k}
  /\ UNCHANGED <<request, checkout, spawned, command, counters>>

\* A session ends or is closed, the requester's one included.
Close(s) ==
  /\ acts < MaxActs /\ acts' = acts + 1
  /\ s \in managed
  /\ managed' = managed \ {s}
  /\ UNCHANGED <<request, intents, checkout, spawned, command, calls, faults>>

\* The checkout is observed to be missing or of another identity.
Lose(r) ==
  /\ acts < MaxActs /\ acts' = acts + 1
  /\ r \in checkout
  /\ checkout' = checkout \ {r}
  /\ UNCHANGED <<request, intents, managed, spawned, command, calls, faults>>

Crash(p) ==
  /\ ~At(p, "idle")
  /\ Fault
  /\ Return(p)
  /\ UNCHANGED <<request, intents, checkout, managed, spawned, calls, acts>>

Next ==
  \/ \E p \in Commands :
       \/ \E k \in Keys, r \in Repositories : Call(p, k, r)
       \/ Existing(p) \/ Prepare(p) \/ Authorize(p) \/ Store(p)
       \/ Check(p) \/ Insert(p) \/ Spawn(p) \/ SpawnFails(p) \/ Execute(p)
       \/ RecordLaunch(p) \/ Await(p) \/ RecordBinding(p) \/ Crash(p)
  \/ \E k \in Keys : Bind(k)
  \/ \E s \in Keys \cup {Requester} : Close(s)
  \/ \E r \in Repositories : Lose(r)

Spec == Init /\ [][Next]_vars

-----------------------------------------------------------------------------
(* Properties.                                                             *)

Phases == {"idle", "existing", "prepare", "request", "store", "check", "insert", "spawn",
           "execute", "launched", "await", "bound"}

\* Every row keeps to the values of the schema.
TypeOK ==
  /\ request \in [Keys -> [status : {"absent", "pending", "launched", "bound"},
                           repository : Repositories \cup {NoRepository}]]
  /\ intents \in [Keys -> {"absent", "pending", "launched", "bound", "failed"}]
  /\ checkout \subseteq Repositories
  /\ managed \subseteq Keys \cup {Requester}
  /\ spawned \in [Keys -> Nat]
  /\ command \in [Commands -> [pc : Phases, key : Keys \cup {"none"},
                               repository : Repositories \cup {NoRepository}]]
  /\ calls \in 0..MaxCalls /\ acts \in 0..MaxActs /\ faults \in 0..MaxFaults

\* However often a request is repeated under its key, by calls at once or after a
\* crash, its terminal is spawned once (the key of the launch is made of the request).
SpawnedOnce == \A k \in Keys : spawned[k] <= 1

\* A request is reported launched when its terminal was spawned and bound when its
\* session is, although the rows of requests and intents are written apart.
RecordsAreTrue ==
  \A k \in Keys :
    /\ request[k].status = "launched" =>
         intents[k] \in {"launched", "bound"} /\ spawned[k] > 0
    /\ request[k].status = "bound" => intents[k] = "bound"
    /\ intents[k] # "absent" => request[k].status # "absent"

\* A request whose session is bound is reported so when nobody works on it any more.
\* Checked by hand and violated: a hook that overtakes execute, the end of the wait
\* and a crash each leave a request as it was, and no later call completes it.
BoundIsTold ==
  \A k \in Keys :
    intents[k] = "bound" /\ (\A p \in Commands : command[p].key # k) =>
      request[k].status = "bound"

\* A checkout has one writer at a time ("the checkout already has a current or
\* pending managed writer").  Checked by hand and violated: begin looks for another
\* writer before the transaction that inserts the intent, and two requests pass.
OneWriter ==
  \A r \in Repositories :
    Cardinality({k \in Keys : /\ request[k].repository = r
                              /\ k \in managed \/ intents[k] \in {"pending", "launched"}}) <= 1
=============================================================================
