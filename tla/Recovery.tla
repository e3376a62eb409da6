------------------------------- MODULE Recovery ------------------------------
(***************************************************************************)
(* Recovering the saved working set (application/recovery.rs, run by       *)
(* execute_recover of cli/recovery.rs).                                    *)
(*                                                                         *)
(* A command previews the restore set, opens the attempt of its            *)
(* idempotency key and takes the selected sessions one by one: it reuses   *)
(* the outcome an earlier command of the attempt recorded, or recreates    *)
(* the checkout, begins a launch, spawns it, records it as launched, waits *)
(* for the binding and records how it ended.  Commands may run at the same *)
(* time, of one attempt or of several, and crash anywhere.                 *)
(*                                                                         *)
(* Instants are compared as the code does: recovery.rs writes them as      *)
(* RFC 3339 text and compares text, while hooks and launch intents write   *)
(* nanoseconds since 1970 as decimal text.  All sessions are of providers  *)
(* whose executables are available.  Launching is that of SessionLaunch.   *)
(***************************************************************************)
EXTENDS Naturals, FiniteSets

CONSTANTS Sessions,   \* sessions of the restore set, numbered in the order of the preview
          Exclusive,  \* those of them whose role needs a checkout of its own
          Attempts,   \* idempotency keys of attempts
          Commands,   \* commands that may run at the same time
          MaxCalls,   \* bound on commands
          MaxActs,    \* bound on what happens to sessions
          MaxFaults   \* bound on crashes and failures

Modes == {"resume", "replacement"}
\* recovery:<attempt>:<session>[:replacement]
Launches == Attempts \X Sessions \X Modes
Past == 0
Now == 1
Future == 2

VARIABLES
  restore,   \* restore_entries that are not removed
  managed,   \* sessions with a current managed_sessions row
  live,      \* the latest live observation of each session
  sources,   \* sessions whose native source is intact
  checkout,  \* what is at the path of each session's checkout
  intents,   \* launch_intents of recovery launches
  spawned,   \* how many terminals were spawned for a launch
  attempt,   \* recovery_attempts: status and the sessions of the plan
  outcome,   \* recovery_entry_outcomes: status and whether an intent is known
  command,   \* what each command is doing
  calls, acts, faults

sessions == <<restore, managed, live, sources, checkout>>
records == <<attempt, outcome>>
vars == <<restore, managed, live, sources, checkout, intents, spawned,
          attempt, outcome, command, calls, acts, faults>>

NoOutcome == [status |-> "none", intent |-> FALSE]
NoCommand == [pc |-> "idle", attempt |-> "none", replace |-> FALSE, at |-> 0,
              entries |-> <<>>, todo |-> {}, at_hand |-> 0, result |-> NoOutcome]

\* bind_transaction made every session managed, restorable and live, for a while.
Init ==
  /\ restore = Sessions /\ managed = Sessions
  /\ live = [s \in Sessions |-> [status |-> "active", expires |-> Past]]
  /\ sources = Sessions
  /\ checkout = [s \in Sessions |-> "own"]
  /\ intents = [k \in Launches |-> [status |-> "absent", expires |-> Past, at |-> 0]]
  /\ spawned = [k \in Launches |-> 0]
  /\ attempt = [a \in Attempts |-> [status |-> "none", plan |-> {}]]
  /\ outcome = [a \in Attempts |-> [s \in Sessions |-> NoOutcome]]
  /\ command = [p \in Commands |-> NoCommand]
  /\ calls = 0 /\ acts = 0 /\ faults = 0

At(p, pc) == command[p].pc = pc
Goto(p, pc) == command' = [command EXCEPT ![p].pc = pc]
Return(p) == command' = [command EXCEPT ![p] = NoCommand]
Fault == faults < MaxFaults /\ faults' = faults + 1

-----------------------------------------------------------------------------
(* preview.                                                                *)

\* Nanoseconds begin with 1 until 2033 and years with 2, whatever they say.
LaterText(expires, form, now) ==
  IF form = "rfc3339" THEN expires > now ELSE FALSE

\* Both the hook's observations and the intents were written by session_launch.rs.
Unexpired(expires) == LaterText(expires, "nanoseconds", Now)

SeenLive(s) == live[s].status = "active" /\ Unexpired(live[s].expires)

\* The resumption of the session that was created last.
LatestLaunch(s) ==
  LET of == {k \in Launches : k[2] = s /\ k[3] = "resume" /\ intents[k].status # "absent"}
  IN  {k \in of : \A j \in of : intents[j].at <= intents[k].at}

InFlight(s) ==
  \E k \in LatestLaunch(s) :
    \/ intents[k].status = "launched"
    \/ intents[k].status = "pending" /\ Unexpired(intents[k].expires)

\* classify and classify_checkout.
Disposition(s) ==
  IF SeenLive(s) THEN "already_live"
  ELSE IF InFlight(s) THEN "launch_reconciliation_required"
  ELSE IF s \notin sources THEN "unresumable"
  ELSE CASE checkout[s] = "own"     -> "ready_present"
         [] checkout[s] = "missing" -> "ready_recreate"
         [] checkout[s] = "other"   -> "checkout_collision"

\* Some sessions of the working set are selected.
Preview(p) ==
  /\ At(p, "idle")
  /\ calls < MaxCalls /\ calls' = calls + 1
  /\ \E a \in Attempts, replace \in BOOLEAN, selected \in SUBSET restore \ {{}} :
       command' = [command EXCEPT ![p] =
         [NoCommand EXCEPT !.pc = "attempt", !.attempt = a, !.replace = replace,
                           !.at = calls', !.todo = selected,
                           !.entries = [s \in selected |-> Disposition(s)]]]
  /\ UNCHANGED <<sessions, intents, spawned, records, acts, faults>>

-----------------------------------------------------------------------------
(* The attempt and its entries.                                            *)

\* begin_attempt: a rerun must have the same sessions.
BeginAttempt(p) ==
  LET a == command[p].attempt
      row == attempt[a]
  IN  /\ At(p, "attempt")
      /\ \/ /\ row.status = "none" \/ row.plan = command[p].todo
            /\ attempt' = [attempt EXCEPT ![a] = [status |-> "running", plan |-> command[p].todo]]
            /\ Goto(p, "entry")
         \/ /\ row.status # "none" /\ row.plan # command[p].todo
            /\ Return(p)
            /\ UNCHANGED attempt
      /\ UNCHANGED <<sessions, intents, spawned, outcome, calls, acts, faults>>

Replacing(p, s) == command[p].entries[s] = "unresumable" /\ command[p].replace

\* The result that record is about to write for the session at hand.
ToRecord(p, s, status, intent) ==
  command' = [command EXCEPT ![p] =
    [@ EXCEPT !.pc = "record", !.at_hand = s,
              !.result = [status |-> status, intent |-> intent]]]

\* A session that was restored or skipped, or whose launch crossed the process
\* boundary, is left as an earlier command of the attempt recorded it.
Reused(prior) ==
  \/ prior.status \in {"bound", "skipped"}
  \/ prior.status \in {"launched", "failed"} /\ prior.intent

\* recorded_outcome, and what the disposition asks for.
Entry(p, s) ==
  LET disposition == command[p].entries[s]
      a == command[p].attempt
  IN  /\ At(p, "entry") /\ s \in command[p].todo /\ \A t \in command[p].todo : s <= t
      /\ \/ /\ Reused(outcome[a][s])
            /\ command' = [command EXCEPT ![p].todo = @ \ {s}]
         \/ /\ ~Reused(outcome[a][s])
            /\ \/ disposition = "already_live" /\ ToRecord(p, s, "skipped", FALSE)
               \/ /\ disposition \in {"launch_reconciliation_required", "unresumable",
                                      "checkout_collision"}
                  /\ ~Replacing(p, s)
                  /\ ToRecord(p, s, "conflict", FALSE)
               \/ /\ disposition \in {"ready_present", "ready_recreate"} \/ Replacing(p, s)
                  /\ command' = [command EXCEPT ![p].pc =
                       IF disposition = "ready_recreate" THEN "recreate" ELSE "begin",
                       ![p].at_hand = s]
      /\ UNCHANGED <<sessions, intents, spawned, records, calls, acts, faults>>

\* recreate_checkout: restore_missing_worktree refuses a path that is occupied.
Recreate(p) ==
  LET s == command[p].at_hand
  IN  /\ At(p, "recreate")
      /\ \/ /\ checkout[s] = "missing"
            /\ checkout' = [checkout EXCEPT ![s] = "own"]
            /\ Goto(p, "begin")
         \/ /\ checkout[s] # "missing"
            /\ ToRecord(p, s, "failed", FALSE)
            /\ UNCHANGED checkout
      /\ UNCHANGED <<restore, managed, live, sources, intents, spawned, records,
                     calls, acts, faults>>

Mode(p) == IF Replacing(p, command[p].at_hand) THEN "replacement" ELSE "resume"
Launch(p) == <<command[p].attempt, command[p].at_hand, Mode(p)>>

Fresh(k) == intents[k].status = "absent"

\* begin: reconcile_registered_checkout, then the checks of the mode.
MayBegin(p, s) ==
  /\ checkout[s] = "own"
  /\ Fresh(Launch(p))
  /\ IF Mode(p) = "resume"
       THEN /\ s \in sources
            /\ ~(live[s].status = "active" /\ live[s].expires > Now)
       ELSE s \in Exclusive =>
              /\ s \notin managed
              /\ \A k \in Launches : k[2] = s => intents[k].status \notin {"pending", "launched"}

Begin(p) ==
  LET s == command[p].at_hand
  IN  /\ At(p, "begin")
      /\ \/ /\ MayBegin(p, s)
            /\ intents' = [intents EXCEPT ![Launch(p)] =
                 [status |-> "pending", expires |-> Future, at |-> command[p].at]]
            /\ Goto(p, "spawn")
         \/ ~MayBegin(p, s) /\ ToRecord(p, s, "failed", FALSE) /\ UNCHANGED intents
      /\ UNCHANGED <<sessions, spawned, records, calls, acts, faults>>

Spawn(p) ==
  /\ At(p, "spawn")
  /\ spawned' = [spawned EXCEPT ![Launch(p)] = @ + 1]
  /\ Goto(p, "mark")
  /\ UNCHANGED <<sessions, intents, records, calls, acts, faults>>

SpawnFails(p) ==
  /\ At(p, "spawn")
  /\ Fault
  /\ intents' = [intents EXCEPT ![Launch(p)].status = "failed"]
  /\ ToRecord(p, command[p].at_hand, "failed", TRUE)
  /\ UNCHANGED <<sessions, spawned, records, calls, acts>>

\* Without a pending intent (its hook was faster) execute has lost the lease.
MarkLaunched(p) ==
  /\ At(p, "mark")
  /\ IF intents[Launch(p)].status = "pending"
       THEN /\ intents' = [intents EXCEPT ![Launch(p)].status = "launched"]
            /\ Goto(p, "launched")
       ELSE /\ ToRecord(p, command[p].at_hand, "failed", TRUE)
            /\ UNCHANGED intents
  /\ UNCHANGED <<sessions, spawned, records, calls, acts, faults>>

\* record_outcome writes whatever was recorded before.
RecordLaunched(p) ==
  /\ At(p, "launched")
  /\ outcome' = [outcome EXCEPT ![command[p].attempt][command[p].at_hand] =
                   [status |-> "launched", intent |-> TRUE]]
  /\ Goto(p, "await")
  /\ UNCHANGED <<sessions, intents, spawned, attempt, calls, acts, faults>>

Confirmed(k) == intents[k].status = "bound"

\* await_binding.
Await(p) ==
  /\ At(p, "await")
  /\ ToRecord(p, command[p].at_hand,
              IF Confirmed(Launch(p)) THEN "bound" ELSE "failed", TRUE)
  /\ UNCHANGED <<sessions, intents, spawned, records, calls, acts, faults>>

Record(p) ==
  /\ At(p, "record")
  /\ outcome' = [outcome EXCEPT ![command[p].attempt][command[p].at_hand] = command[p].result]
  /\ command' = [command EXCEPT ![p] =
       [command[p] EXCEPT !.pc = "entry", !.todo = @ \ {command[p].at_hand}, !.at_hand = 0,
                 !.result = NoOutcome]]
  /\ UNCHANGED <<sessions, intents, spawned, attempt, calls, acts, faults>>

Summary(a) ==
  IF \E s \in Sessions : outcome[a][s].status \in {"conflict", "failed"}
    THEN "partial" ELSE "completed"

\* finish_attempt.
Finish(p) ==
  /\ At(p, "entry") /\ command[p].todo = {}
  /\ attempt' = [attempt EXCEPT ![command[p].attempt].status = Summary(command[p].attempt)]
  /\ Return(p)
  /\ UNCHANGED <<sessions, intents, spawned, outcome, calls, acts, faults>>

Crash(p) ==
  /\ ~At(p, "idle")
  /\ Fault
  /\ Return(p)
  /\ UNCHANGED <<sessions, intents, spawned, records, calls, acts>>

-----------------------------------------------------------------------------
(* What happens to the sessions meanwhile.                                 *)

Act == acts < MaxActs /\ acts' = acts + 1

\* The hook of a spawned process binds it to its intent, if that is open still.
Bind(k) ==
  /\ spawned[k] > 0 /\ intents[k].status \in {"pending", "launched"} /\ intents[k].expires > Now
  /\ intents' = [intents EXCEPT ![k].status = "bound"]
  /\ IF k[3] = "resume"
       THEN /\ managed' = managed \cup {k[2]} /\ restore' = restore \cup {k[2]}
            /\ live' = [live EXCEPT ![k[2]] = [status |-> "active", expires |-> Future]]
       ELSE UNCHANGED <<managed, restore, live>>
  /\ UNCHANGED <<sources, checkout, spawned, records, command, calls, acts, faults>>

\* A hook of the session is observed, whoever runs it.  A session that is lost is
\* one that is observed no more.
Observe(s) ==
  /\ s \in managed
  /\ live[s].expires = Past
  /\ live' = [live EXCEPT ![s] = [status |-> "active", expires |-> Future]]
  /\ UNCHANGED <<restore, managed, sources, checkout, intents, spawned, records,
                 command, calls, acts, faults>>

\* Observations and intents that are not renewed lapse with time.
Lapse ==
  /\ Act
  /\ live' = [s \in Sessions |-> [live[s] EXCEPT !.expires = Past]]
  /\ intents' = [k \in Launches |-> [intents[k] EXCEPT !.expires = Past]]
  /\ UNCHANGED <<restore, managed, sources, checkout, spawned, records, command,
                 calls, faults>>

\* session close ends the process and retires the session.
Close(s) ==
  /\ s \in managed
  /\ Act
  /\ managed' = managed \ {s} /\ restore' = restore \ {s}
  /\ live' = [live EXCEPT ![s].status = "stopped"]
  /\ UNCHANGED <<sources, checkout, intents, spawned, records, command, calls, faults>>

\* remove_from_restore.
Remove(s) ==
  /\ s \in restore
  /\ Act
  /\ restore' = restore \ {s}
  /\ UNCHANGED <<managed, live, sources, checkout, intents, spawned, records,
                 command, calls, faults>>

\* Files are removed or replaced outside Workboard.
Disturb(s) ==
  /\ Act
  /\ \/ sources' = sources \ {s} /\ UNCHANGED checkout
     \/ \E there \in {"missing", "other"} :
          checkout' = [checkout EXCEPT ![s] = there] /\ UNCHANGED sources
  /\ UNCHANGED <<restore, managed, live, intents, spawned, records, command, calls,
                 faults>>

Next ==
  \/ \E p \in Commands :
       \/ Preview(p) \/ BeginAttempt(p) \/ Recreate(p) \/ Begin(p) \/ Spawn(p) \/ SpawnFails(p)
       \/ MarkLaunched(p) \/ RecordLaunched(p) \/ Await(p) \/ Record(p) \/ Finish(p) \/ Crash(p)
       \/ \E s \in Sessions : Entry(p, s)
  \/ \E k \in Launches : Bind(k)
  \/ \E s \in Sessions : Observe(s) \/ Close(s) \/ Remove(s) \/ Disturb(s)
  \/ Lapse

Spec == Init /\ [][Next]_vars

-----------------------------------------------------------------------------
(* Properties.                                                             *)

Outcomes == {"none", "skipped", "launched", "bound", "conflict", "failed"}

\* Every row keeps to the values of the schema.
TypeOK ==
  /\ restore \subseteq Sessions /\ managed \subseteq Sessions
  /\ sources \subseteq Sessions
  /\ live \in [Sessions -> [status : {"active", "stopped"}, expires : {Past, Future}]]
  /\ checkout \in [Sessions -> {"own", "missing", "other"}]
  /\ intents \in [Launches -> [status : {"absent", "pending", "launched", "bound", "failed"},
                               expires : {Past, Future}, at : 0..MaxCalls]]
  /\ spawned \in [Launches -> Nat]
  /\ attempt \in [Attempts -> [status : {"none", "running", "completed", "partial"},
                               plan : SUBSET Sessions]]
  /\ outcome \in [Attempts -> [Sessions -> [status : Outcomes, intent : BOOLEAN]]]
  /\ \A p \in Commands : command[p].todo \subseteq DOMAIN command[p].entries

\* Wherever commands crash and however an attempt is run again, it resumes a
\* session at most once, and replaces it at most once.
SpawnedOnce == \A k \in Launches : spawned[k] <= 1

\* What is recorded as restored has really been bound by the launch of this
\* attempt, and what is recorded with an intent has one.
RecordsAreTrue ==
  \A a \in Attempts, s \in Sessions :
    LET made == {intents[<<a, s, m>>].status : m \in Modes}
    IN  /\ outcome[a][s].status = "bound" => "bound" \in made
        /\ outcome[a][s].intent => made # {"absent"}

\* No command is working on the attempt.
Quiet(a) == \A p \in Commands : command[p].attempt # a

\* Unless a command crashed, an attempt nobody is working on is over, and is
\* partial exactly when a session of its plan met a conflict or a failure.
AttemptsTellOutcomes ==
  faults = 0 =>
    \A a \in Attempts :
      (Quiet(a) /\ attempt[a].status # "none") =>
        /\ attempt[a].status = "partial" <=>
             \E s \in attempt[a].plan : outcome[a][s].status \in {"conflict", "failed"}
        /\ \A s \in attempt[a].plan : outcome[a][s].status \notin {"none", "launched"}

\* "Existing live sessions are skipped" (README.md:54): the preview takes a
\* session whose observation has not expired for live.
LiveAreSkipped ==
  [][\A p \in Commands : (At(p, "idle") /\ command'[p].pc = "attempt") =>
       \A s \in DOMAIN command'[p].entries :
         (live[s].status = "active" /\ live[s].expires > Now) =>
           command'[p].entries[s] = "already_live"]_vars

\* "--replace-unresumable starts a confirmed new managed session for the same
\* owner" (README.md:58): a replacement in a sound checkout, under a key that is
\* new, is begun.
ReplacementsBegin ==
  [][\A p \in Commands :
       (/\ At(p, "begin") /\ Mode(p) = "replacement"
        /\ checkout[command[p].at_hand] = "own" /\ Fresh(Launch(p))) =>
         command'[p].pc # "record"]_vars
=============================================================================
