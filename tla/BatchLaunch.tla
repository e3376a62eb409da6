------------------------------ MODULE BatchLaunch -----------------------------
(***************************************************************************)
(* Launching several Work items at once (application/batch_launch.rs, run  *)
(* by execute_batch_launches of cli/lib.rs).                               *)
(*                                                                         *)
(* A batch is previewed, which stores its children as they were selected.  *)
(* "start" confirms it: every child's checkout is prepared, all children   *)
(* are reserved in one transaction and then launched one after the other.  *)
(* "resume" reconciles the batch with the launch intents and launches what *)
(* is still reserved, and "status" only reconciles.  Any number of these   *)
(* commands may run at once, and each works on the list of children it has *)
(* read.  One action is one transaction, one group of reads or one spawn;  *)
(* launches themselves are those of SessionLaunch, seen from outside.      *)
(***************************************************************************)
EXTENDS Naturals, FiniteSets

CONSTANTS Size,      \* how many children the batch has, at least one
          Commands,  \* commands that may run at the same time
          MaxCalls,  \* bound on commands
          MaxFaults  \* bound on crashes, failed preflights and failed spawns

Children == 1..Size

VARIABLES
  batch,    \* managed_launch_batches.status
  child,    \* managed_launch_batch_children: status, and whether the intent is known
  intents,  \* launch_intents of the children's idempotency keys
  session,  \* children whose intent a managed session is bound to
  spawned,  \* how many terminals were spawned for a child
  taken,    \* children whose checkout has been launched in another way
  command,  \* what each command is doing
  calls, faults

rows == <<batch, child>>
launches == <<intents, session, spawned, taken>>
vars == <<batch, child, intents, session, spawned, taken, command, calls, faults>>

NoCommand == [pc |-> "idle", todo |-> {}, awaiting |-> {}, found |-> {}, next |-> "idle"]

Init ==
  /\ batch = "previewed"
  /\ child = [c \in Children |-> [status |-> "selected", intent |-> FALSE]]
  /\ intents = [c \in Children |-> "absent"]
  /\ session = {}
  /\ spawned = [c \in Children |-> 0]
  /\ taken = {}
  /\ command = [p \in Commands |-> NoCommand]
  /\ calls = 0 /\ faults = 0

At(p, pc) == command[p].pc = pc
Goto(p, pc) == command' = [command EXCEPT ![p].pc = pc]
Return(p) == command' = [command EXCEPT ![p] = NoCommand]
Call == calls < MaxCalls /\ calls' = calls + 1
Fault == faults < MaxFaults /\ faults' = faults + 1

\* Children are handled in the order of their positions.
First(S) == CHOOSE c \in S : \A d \in S : c <= d

InStatus(S) == {c \in Children : child[c].status \in S}

-----------------------------------------------------------------------------
(* start: the confirmation and the reservation.                            *)

\* validate_confirmation, and the children that are read after it.
Confirm(p) ==
  /\ At(p, "idle")
  /\ Call
  /\ batch = "previewed"
  /\ command' = [command EXCEPT ![p] = [NoCommand EXCEPT !.pc = "preflight", !.todo = Children]]
  /\ UNCHANGED <<rows, launches, faults>>

\* prepare_work_item under a key of its own, child by child.
Preflight(p) ==
  LET todo == command[p].todo
  IN  /\ At(p, "preflight")
      /\ command' = [command EXCEPT ![p] =
           IF todo = {} THEN [@ EXCEPT !.pc = "reserve"]
                        ELSE [@ EXCEPT !.todo = todo \ {First(todo)}]]
      /\ UNCHANGED <<rows, launches, calls, faults>>

\* One child failed and the others that are still selected are skipped.
GiveUp(c) ==
  child' = [d \in Children |->
              IF child[d].status # "selected" THEN child[d]
              ELSE [child[d] EXCEPT !.status = IF d = c THEN "failed" ELSE "skipped"]]

\* fail_preflight.
PreflightFails(p) ==
  /\ At(p, "preflight") /\ command[p].todo # {}
  /\ Fault
  /\ batch' = IF batch = "previewed" THEN "failed" ELSE batch
  /\ GiveUp(First(command[p].todo))
  /\ Return(p)
  /\ UNCHANGED <<launches, calls>>

\* Every child is revalidated, and the confirmation is not consumed yet.
Reservable == taken = {} /\ session = {} /\ batch = "previewed"

\* The transaction of reserve_with.
Reserve(p) ==
  /\ At(p, "reserve")
  /\ \/ /\ Reservable
        /\ batch' = "reserved"
        /\ child' = [c \in Children |->
             [child[c] EXCEPT !.status = IF @ = "selected" THEN "reserved" ELSE @]]
        /\ Goto(p, "read")
     \/ ~Reservable /\ Return(p) /\ UNCHANGED rows
  /\ UNCHANGED <<launches, calls, faults>>

-----------------------------------------------------------------------------
(* execute_batch_launches.                                                 *)

\* The status of the whole batch, in the transaction that changes a child.
Summary(new) ==
  LET Some(S) == \E c \in Children : new[c].status \in S
  IN  IF Some({"selected", "reserved", "launched"}) THEN "launching"
      ELSE IF ~Some({"failed", "skipped"}) THEN "completed"
      ELSE IF ~Some({"bound"}) THEN "failed" ELSE "partial"

\* update_child, which writes the child whatever its status was.
Put(c, status, known) ==
  LET new == [child EXCEPT ![c] = [status |-> status, intent |-> known \/ @.intent]]
  IN  child' = new /\ batch' = Summary(new)

\* read_reservation, and the children that are still to be launched.
ReadReservation(p) ==
  /\ At(p, "read")
  /\ \/ /\ batch \in {"reserved", "launching", "partial"}
        /\ command' = [command EXCEPT ![p] =
             [NoCommand EXCEPT !.pc = "begin", !.todo = InStatus({"reserved"})]]
     \/ batch \notin {"reserved", "launching", "partial"} /\ Return(p)
  /\ UNCHANGED <<rows, launches, calls, faults>>

Launching(p, c) == c = First(command[p].todo)

\* The child is done with, in the list of this command.
Pass(p, c, awaited) ==
  command' = [command EXCEPT ![p] =
    [command[p] EXCEPT !.pc = "begin", !.todo = @ \ {c}, !.awaiting = @ \cup awaited]]

\* Mistake: a launch that was begun already is begun again.
FreshAgain(c) == c \notin taken

\* begin: the key of the child is unused, and nothing else has its checkout.
FreshLaunch(c) == intents[c] = "absent" /\ c \notin taken

Begin(p) ==
  /\ At(p, "begin") /\ command[p].todo # {}
  /\ \E c \in Children :
       /\ Launching(p, c)
       /\ \/ /\ FreshLaunch(c)
             /\ intents' = [intents EXCEPT ![c] = "pending"]
             /\ Goto(p, "mark")
             /\ UNCHANGED rows
          \/ /\ ~FreshLaunch(c)
             /\ Put(c, "failed", FALSE)
             /\ Pass(p, c, {})
             /\ UNCHANGED intents
  /\ UNCHANGED <<session, spawned, taken, calls, faults>>

MarkLaunched(p) ==
  /\ At(p, "mark")
  /\ \E c \in Children : Launching(p, c) /\ Put(c, "launched", TRUE)
  /\ Goto(p, "spawn")
  /\ UNCHANGED <<launches, calls, faults>>

\* execute spawns the terminal and then marks the intent.
Spawn(p) ==
  /\ At(p, "spawn")
  /\ \E c \in Children : Launching(p, c) /\ spawned' = [spawned EXCEPT ![c] = @ + 1]
  /\ Goto(p, "execute")
  /\ UNCHANGED <<rows, intents, session, taken, calls, faults>>

SpawnFails(p) ==
  /\ At(p, "spawn")
  /\ Fault
  /\ \E c \in Children : Launching(p, c) /\ intents' = [intents EXCEPT ![c] = "failed"]
  /\ Goto(p, "give_up")
  /\ UNCHANGED <<rows, session, spawned, taken, calls>>

\* A hook that was faster has taken the intent: execute has lost the lease.
Execute(p) ==
  /\ At(p, "execute")
  /\ \E c \in Children :
       /\ Launching(p, c)
       /\ \/ /\ intents[c] = "pending"
             /\ intents' = [intents EXCEPT ![c] = "launched"]
             /\ Pass(p, c, {c})
          \/ /\ intents[c] # "pending"
             /\ Goto(p, "give_up")
             /\ UNCHANGED intents
  /\ UNCHANGED <<rows, session, spawned, taken, calls, faults>>

\* mark_failed, after execute returned an error.
GiveUpChild(p) ==
  /\ At(p, "give_up")
  /\ \E c \in Children : Launching(p, c) /\ Put(c, "failed", FALSE) /\ Pass(p, c, {})
  /\ UNCHANGED <<launches, calls, faults>>

\* await_binding of the children in order: the binding it saw, or none in time.
Await(p) ==
  LET awaiting == command[p].awaiting
  IN  /\ At(p, "begin") /\ command[p].todo = {} /\ awaiting # {}
      /\ \E outcome \in IF First(awaiting) \in session THEN {"bound"} ELSE {"failed"} :
           command' = [command EXCEPT ![p] =
             [@ EXCEPT !.pc = "awaited", !.found = {<<First(awaiting), outcome>>}]]
      /\ UNCHANGED <<rows, launches, calls, faults>>

MarkAwaited(p) ==
  /\ At(p, "awaited")
  /\ \E f \in command[p].found :
       /\ Put(f[1], f[2], FALSE)
       /\ command' = [command EXCEPT ![p] =
            [command[p] EXCEPT !.pc = "begin", !.awaiting = @ \ {f[1]}, !.found = {}]]
  /\ UNCHANGED <<launches, calls, faults>>

-----------------------------------------------------------------------------
(* reconcile, at the end of a launch, first in "resume", alone in "status". *)

\* The candidates are read at once: a bound session, or an intent that is over.
Candidates ==
  {<<c, "bound">> : c \in {d \in InStatus({"launched", "failed"}) :
                             child[d].intent /\ d \in session}}
  \cup
  {<<c, "failed">> : c \in {d \in InStatus({"launched", "failed"}) :
                              child[d].intent /\ d \notin session /\ intents[d] = "failed"}}

ReadCandidates(p, next) ==
  command' = [command EXCEPT ![p] =
    [NoCommand EXCEPT !.pc = "reconcile", !.found = Candidates, !.next = next]]

Resume(p) ==
  /\ At(p, "idle") /\ Call /\ ReadCandidates(p, "read")
  /\ UNCHANGED <<rows, launches, faults>>

Status(p) ==
  /\ At(p, "idle") /\ Call /\ ReadCandidates(p, "idle")
  /\ UNCHANGED <<rows, launches, faults>>

ReconcileLaunched(p) ==
  /\ At(p, "begin") /\ command[p].todo = {} /\ command[p].awaiting = {}
  /\ ReadCandidates(p, "idle")
  /\ UNCHANGED <<rows, launches, calls, faults>>

\* Each candidate is written in a transaction of its own, in order.
Reconcile(p) ==
  LET found == command[p].found
      order == {f[1] : f \in found}
  IN  /\ At(p, "reconcile")
      /\ \/ \E f \in found :
              /\ f[1] = First(order)
              /\ Put(f[1], f[2], FALSE)
              /\ command' = [command EXCEPT ![p].found = @ \ {f}]
         \/ found = {} /\ Goto(p, command[p].next) /\ UNCHANGED rows
      /\ UNCHANGED <<launches, calls, faults>>

-----------------------------------------------------------------------------
(* What happens around the commands.                                       *)

\* The hook of the spawned session binds it to an intent that is open.
Bind(c) ==
  /\ spawned[c] > 0 /\ intents[c] \in {"pending", "launched"}
  /\ intents' = [intents EXCEPT ![c] = "bound"]
  /\ session' = session \cup {c}
  /\ UNCHANGED <<rows, spawned, taken, command, calls, faults>>

\* The Work item of a child is launched in its checkout by another command.
Take(c) ==
  /\ c \notin taken /\ intents[c] = "absent"
  /\ Call
  /\ taken' = taken \cup {c}
  /\ UNCHANGED <<rows, intents, session, spawned, command, faults>>

\* The command is killed, or ends with the error of a step between launches.
Crash(p) ==
  /\ ~At(p, "idle")
  /\ Fault
  /\ Return(p)
  /\ UNCHANGED <<rows, launches, calls>>

\* work batch start, resume and status.
WorkBatch(p) == Confirm(p) \/ Resume(p) \/ Status(p)

Next ==
  \/ \E p \in Commands :
       \/ WorkBatch(p) \/ Preflight(p) \/ PreflightFails(p) \/ Reserve(p)
       \/ ReadReservation(p) \/ Begin(p) \/ MarkLaunched(p) \/ Spawn(p) \/ SpawnFails(p)
       \/ Execute(p) \/ GiveUpChild(p) \/ Await(p) \/ MarkAwaited(p)
       \/ ReconcileLaunched(p) \/ Reconcile(p) \/ Crash(p)
  \/ \E c \in Children : Bind(c) \/ Take(c)

Spec == Init /\ [][Next]_vars

-----------------------------------------------------------------------------
(* Properties.                                                             *)

\* No code writes "cancelled", which the table allows.
BatchStatuses == {"previewed", "reserved", "launching", "completed", "partial", "failed"}
ChildStatuses == {"selected", "reserved", "launched", "bound", "failed", "skipped"}
Phases == {"idle", "preflight", "reserve", "read", "begin", "mark", "spawn", "execute",
           "give_up", "awaited", "reconcile"}

\* Every row keeps to the values of the schema.
TypeOK ==
  /\ batch \in BatchStatuses
  /\ child \in [Children -> [status : ChildStatuses, intent : BOOLEAN]]
  /\ intents \in [Children -> {"absent", "pending", "launched", "bound", "failed"}]
  /\ session \subseteq Children /\ taken \subseteq Children
  /\ spawned \in [Children -> Nat]
  /\ command \in [Commands -> [pc : Phases, todo : SUBSET Children,
                               awaiting : SUBSET Children,
                               found : SUBSET (Children \X {"bound", "failed"}),
                               next : {"idle", "read"}]]
  /\ calls \in 0..MaxCalls /\ faults \in 0..MaxFaults

\* However many commands start and resume a batch, and wherever they crash, a
\* child's terminal is spawned once (a rerun never duplicates a session).
SpawnedOnce == \A c \in Children : spawned[c] <= 1

\* The batch always tells what its children are, although children are written
\* one by one, by several commands.
StatusMatchesChildren ==
  CASE batch = "previewed" -> InStatus({"selected"}) = Children
    [] batch = "reserved"  -> InStatus({"reserved"}) = Children
    [] batch = "launching" -> InStatus({"reserved", "launched"}) # {}
    [] batch = "completed" -> InStatus({"bound"}) = Children
    [] batch = "partial"   -> InStatus({"bound"}) \notin {{}, Children}
    [] batch = "failed"    -> InStatus({"failed", "skipped"}) = Children

\* A child is reported bound only if its session is, and a bound session whose
\* child was marked failed (the wait was over, or the hook was faster than
\* execute) stays within reach of the next reconciliation.
Reconcilable ==
  \A c \in Children :
    /\ child[c].status = "bound" => c \in session
    /\ c \in session =>
         child[c].intent /\ child[c].status \in {"launched", "failed", "bound"}
=============================================================================
