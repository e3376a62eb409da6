---------------------------- MODULE SessionLaunch ---------------------------
(***************************************************************************)
(* Launching, binding and retiring managed sessions                        *)
(* (application/session_launch.rs, driven by cli/lib.rs).                  *)
(*                                                                         *)
(* A driver (any workboard process) records a launch intent under an       *)
(* idempotency key, spawns a terminal that has the intent's token in its   *)
(* environment and waits for a hook to bind the session that starts there. *)
(* Each hook of the provider is a workboard process of its own, which has  *)
(* the token if the session's process inherited it.  The process evidence  *)
(* of a hook is always absent.  One action is one transaction, one group   *)
(* of reads or one spawn.                                                  *)
(*                                                                         *)
(* The provider waits for a hook command before it goes on, so that the    *)
(* hooks of a process are handled in order; that the hooks of two          *)
(* processes of one session overtake each other is left out.  Owners are   *)
(* Work items and Features, those that have a restore membership.          *)
(***************************************************************************)
EXTENDS Naturals, FiniteSets

CONSTANTS Sessions,         \* native sessions of the provider
          Requests,         \* launches that drivers may ask for
          Drivers,          \* concurrent workboard processes that launch
          WriterCheckouts,  \* checkouts allocated for one writer session
          ItemCheckouts,    \* pairs <<owner, checkout>> a session may adopt
          MaxActs,          \* bound on what people do by hand
          MaxFaults         \* bound on crashes, lost hooks and failed spawns

Keys == {req.key : req \in Requests}
\* What validate_owner_checkout accepts.
OwnerCheckouts == {<<req.owner, req.checkout>> : req \in Requests} \cup ItemCheckouts
Owners == {pair[1] : pair \in OwnerCheckouts}
Checkouts == {pair[2] : pair \in OwnerCheckouts}

ASSUME RequestsAssumption ==
  Requests \subseteq [key : STRING, owner : STRING, checkout : STRING,
                      mode : Sessions \cup {"new"}, exclusive : BOOLEAN]

\* "none" and "new" name nothing.
ASSUME NamesAssumption ==
  "none" \notin Keys \cup Owners \cup Checkouts \cup Sessions /\ "new" \notin Sessions

ASSUME BoundsAssumption == MaxActs \in Nat /\ MaxFaults \in Nat

VARIABLES
  intents,      \* launch_intents, by idempotency key
  managed,      \* the latest managed_sessions row of each session
  past,         \* intents that earlier rows of the sessions refer to
  association,  \* native_session_associations: the current owner
  membership,   \* restore_memberships: sessions that have an active one
  restore,      \* restore_entries: sessions that are not removed
  live,         \* the latest live observation of each session
  reservation,  \* checkout_readiness.session_id of the writer checkouts
  bundles,      \* capability bundles on disk, by intent
  running,      \* processes of the provider: pairs <<session, token>>
  starting,     \* their SessionStart hooks: pairs -> "sent" or "checked"
  started,      \* sessions that exist
  driver,       \* what each driver is doing
  spawned,      \* how many terminals were spawned for an intent
  acts, faults

rows == <<managed, past, association, membership, restore, live, reservation>>
world == <<running, starting, started>>
vars == <<intents, managed, past, association, membership, restore, live, reservation,
          bundles, running, starting, started, driver, spawned, acts, faults>>

NoRequest == [key |-> "none", owner |-> "none", checkout |-> "none", mode |-> "new",
              exclusive |-> FALSE]
NoIntent == [status |-> "absent", req |-> NoRequest, overdue |-> FALSE]
NoRow == [current |-> FALSE, intent |-> "none", checkout |-> "none", status |-> "stopped",
          generation |-> 0]

Open(k) == intents[k].status \in {"pending", "launched"}

-----------------------------------------------------------------------------
Init ==
  /\ intents = [k \in Keys |-> NoIntent]
  /\ managed = [s \in Sessions |-> NoRow]
  /\ past = {}
  /\ association = [s \in Sessions |-> "none"]
  /\ membership = {}
  /\ restore = {}
  /\ live = [s \in Sessions |-> "none"]
  /\ reservation = [c \in WriterCheckouts |-> "none"]
  /\ bundles = {}
  /\ running = {}
  /\ starting = [pair \in {} |-> "sent"]
  /\ started = {}
  /\ driver = [d \in Drivers |-> [pc |-> "idle", req |-> NoRequest]]
  /\ spawned = [k \in Keys |-> 0]
  /\ acts = 0
  /\ faults = 0

At(d, pc) == driver[d].pc = pc

Goto(d, pc) == driver' = [driver EXCEPT ![d].pc = pc]

Return(d) == driver' = [driver EXCEPT ![d] = [pc |-> "idle", req |-> NoRequest]]

-----------------------------------------------------------------------------
(* begin and execute.                                                      *)

\* reject_checkout_launch_conflict: an intent counts however old it is.
Conflict(c) ==
  \/ \E k \in Keys : Open(k) /\ intents[k].req.checkout = c
  \/ \E s \in Sessions : managed[s].current /\ managed[s].checkout = c

\* A resumption looks at the session and a new session at the checkout.
MayBegin(req) ==
  /\ intents[req.key].status = "absent"
  /\ IF req.mode = "new"
       THEN req.exclusive => ~Conflict(req.checkout)
       ELSE req.mode \in started /\ live[req.mode] # "active"

Request(d, req) ==
  /\ At(d, "idle")
  /\ MayBegin(req)
  /\ driver' = [driver EXCEPT ![d] = [pc |-> "insert", req |-> req]]
  /\ UNCHANGED <<intents, rows, bundles, world, spawned, acts, faults>>

\* Mistake: an intent under the same key is replaced.
InsertAnyway(d) ==
  /\ At(d, "insert")
  /\ intents' = [intents EXCEPT ![driver[d].req.key] =
                   [status |-> "pending", req |-> driver[d].req, overdue |-> FALSE]]
  /\ bundles' = bundles \cup {driver[d].req.key}
  /\ Goto(d, "spawn")
  /\ UNCHANGED <<rows, world, spawned, acts, faults>>

\* The row of insert_launch_intent.
Intent(req) == [status |-> "pending", req |-> req, overdue |-> FALSE]

\* begin's transaction; idempotency_key is UNIQUE.
Insert(d) ==
  LET k == driver[d].req.key
  IN  /\ At(d, "insert")
      /\ \/ /\ intents[k].status = "absent"
            /\ intents' = [intents EXCEPT ![k] = Intent(driver[d].req)]
            /\ bundles' = bundles \cup {k}
            /\ Goto(d, "spawn")
         \/ /\ intents[k].status # "absent"
            /\ Return(d)
            /\ UNCHANGED <<intents, bundles>>
      /\ UNCHANGED <<rows, world, spawned, acts, faults>>

\* A process of session s starts; its SessionStart hook is on its way.
StartProcess(s, token) ==
  /\ <<s, token>> \notin running \cup DOMAIN starting
  /\ running' = running \cup {<<s, token>>}
  /\ starting' = [pair \in DOMAIN starting \cup {<<s, token>>} |->
                    IF pair = <<s, token>> THEN "sent" ELSE starting[pair]]
  /\ started' = started \cup {s}

\* The terminal is spawned; the provider in it starts the session, or does not.
Spawn(d) ==
  LET req == driver[d].req
  IN  /\ At(d, "spawn")
      /\ spawned' = [spawned EXCEPT ![req.key] = @ + 1]
      /\ \/ UNCHANGED world
         \/ \E s \in IF req.mode = "new" THEN Sessions \ started ELSE {req.mode} :
              StartProcess(s, req.key)
      /\ Goto(d, "mark")
      /\ UNCHANGED <<intents, rows, bundles, acts, faults>>

SpawnFails(d) ==
  LET k == driver[d].req.key
  IN  /\ At(d, "spawn")
      /\ faults < MaxFaults
      /\ faults' = faults + 1
      /\ intents' = [intents EXCEPT ![k].status = "failed"]
      /\ bundles' = bundles \ {k}
      /\ Return(d)
      /\ UNCHANGED <<rows, world, spawned, acts>>

\* Without a pending intent the driver has lost the lease.
MarkLaunched(d) ==
  LET k == driver[d].req.key
  IN  /\ At(d, "mark")
      /\ \/ /\ intents[k].status = "pending"
            /\ intents' = [intents EXCEPT ![k].status = "launched"]
            /\ Goto(d, "await")
         \/ /\ intents[k].status # "pending"
            /\ Return(d)
            /\ UNCHANGED intents
      /\ UNCHANGED <<rows, bundles, world, spawned, acts, faults>>

\* await_binding ends with the binding or after a while; the intent is left alone.
Await(d) ==
  /\ At(d, "await")
  /\ Return(d)
  /\ UNCHANGED <<intents, rows, bundles, world, spawned, acts, faults>>

DriverCrash(d) ==
  /\ ~At(d, "idle")
  /\ faults < MaxFaults
  /\ faults' = faults + 1
  /\ Return(d)
  /\ UNCHANGED <<intents, rows, bundles, world, spawned, acts>>

-----------------------------------------------------------------------------
(* Binding.                                                                *)

\* A row other than the current one of the session refers to the intent.
Referenced(k, s) ==
  \/ k \in past
  \/ \E t \in Sessions : managed[t].intent = k /\ ~(t = s /\ managed[s].current)

\* bind_writer_session_checkout: the first session to bind has the checkout.
Reserved(s, c) == c \in WriterCheckouts /\ reservation[c] \notin {"none", s}

\* Mistakes: another session's reservation, another owner are not looked at.
MayBindUnreserved(s, owner, c, k) ==
  association[s] \in {"none", owner} /\ (k # "none" => ~Referenced(k, s))

MayBindAnyOwner(s, owner, c, k) == ~Reserved(s, c) /\ (k # "none" => ~Referenced(k, s))

\* The checks of bind_transaction, and UNIQUE (launch_intent_id).
MayBind(s, owner, c, k) ==
  /\ ~Reserved(s, c)
  /\ association[s] \in {"none", owner}
  /\ k # "none" => ~Referenced(k, s)

\* A current row is taken over, otherwise a row of the first generation inserted.
NextGeneration(row) == IF row.current THEN row.generation + 1 ELSE 1

\* bind_transaction.
Bind(s, owner, c, k, status) ==
  /\ MayBind(s, owner, c, k)
  /\ managed' = [managed EXCEPT ![s] =
       [current |-> TRUE, intent |-> k, checkout |-> c, status |-> status,
        generation |-> NextGeneration(@)]]
  /\ past' = IF managed[s].current \/ managed[s].intent = "none"
               THEN past
               ELSE past \cup {managed[s].intent}
  /\ association' = [association EXCEPT ![s] = IF @ = "none" THEN owner ELSE @]
  /\ membership' = membership \cup {s}
  /\ restore' = restore \cup {s}
  /\ live' = [live EXCEPT ![s] = "active"]
  /\ reservation' = [w \in WriterCheckouts |-> IF w = c THEN s ELSE reservation[w]]

\* Mistake: the association outlives the binding.
RetireBinding(s) ==
  /\ managed' = [managed EXCEPT ![s].current = FALSE, ![s].status = "stopped"]
  /\ membership' = membership \ {s}
  /\ restore' = restore \ {s}
  /\ UNCHANGED association

\* close_managed_session.
Retire(s) ==
  /\ managed' = [managed EXCEPT ![s].current = FALSE, ![s].status = "stopped"]
  /\ association' = [association EXCEPT ![s] = "none"]
  /\ membership' = membership \ {s}
  /\ restore' = restore \ {s}

Done(pair) == starting' = [p \in DOMAIN starting \ {pair} |-> starting[p]]

ExpectedNative(req, s) == req.mode \in {"new", s}

\* bind_hook's reads: the token's intent is open, in time and expects this session.
CheckToken(s, k) ==
  /\ k \in Keys /\ <<s, k>> \in DOMAIN starting
  /\ starting[<<s, k>>] = "sent"
  /\ IF Open(k) /\ ~intents[k].overdue /\ ExpectedNative(intents[k].req, s)
       THEN starting' = [starting EXCEPT ![<<s, k>>] = "checked"]
       ELSE Done(<<s, k>>)
  /\ UNCHANGED <<intents, rows, bundles, running, started, driver, spawned, acts, faults>>

\* bind_hook's transaction, which looks at the intent no more.
BindHook(s, k) ==
  LET req == intents[k].req
  IN  /\ k \in Keys /\ <<s, k>> \in DOMAIN starting
      /\ starting[<<s, k>>] = "checked"
      /\ \/ /\ Bind(s, req.owner, req.checkout, k, "bound")
            /\ intents' = [intents EXCEPT ![k].status = IF Open(k) THEN "bound" ELSE @]
         \/ ~MayBind(s, req.owner, req.checkout, k) /\ UNCHANGED <<intents, rows>>
      /\ Done(<<s, k>>)
      /\ UNCHANGED <<bundles, running, started, driver, spawned, acts, faults>>

HookLost(s, k) ==
  /\ <<s, k>> \in DOMAIN starting
  /\ faults < MaxFaults
  /\ faults' = faults + 1
  /\ Done(<<s, k>>)
  /\ UNCHANGED <<intents, rows, bundles, running, started, driver, spawned, acts>>

-----------------------------------------------------------------------------
(* Sessions on their own.                                                  *)

\* A person starts a session, or resumes one, outside Workboard, or the process
\* of a launched one starts another, which inherits the token.
StartOutside(s, k) ==
  /\ k = "none" \/ \E t \in Sessions \ {s} : <<t, k>> \in running
  /\ acts < MaxActs
  /\ acts' = acts + 1
  /\ StartProcess(s, k)
  /\ UNCHANGED <<intents, rows, bundles, driver, spawned, faults>>

\* A hook without a token: SessionStart and every later one but SessionEnd.  An
\* idle session counts as an active one.
Observe(s) ==
  /\ <<s, "none">> \in running
  /\ live' = [live EXCEPT ![s] = "active"]
  /\ Done(<<s, "none">>)
  /\ UNCHANGED <<intents, managed, past, association, membership, restore, reservation,
                 bundles, running, started, driver, spawned, acts, faults>>

\* SessionEnd: ingest_hook hands whatever has a token to bind_hook, which takes
\* nothing but SessionStart.
SessionEnd(s, k) ==
  /\ <<s, k>> \in running \ DOMAIN starting
  /\ running' = running \ {<<s, k>>}
  /\ \/ /\ k = "none"
        /\ live' = [live EXCEPT ![s] = "stopped"]
        /\ Retire(s)
        /\ UNCHANGED <<past, reservation>>
     \/ k # "none" /\ UNCHANGED rows
  /\ UNCHANGED <<intents, bundles, starting, started, driver, spawned, acts, faults>>

\* The process is killed, or the computer restarts.
Die(s, k) ==
  /\ <<s, k>> \in running \ DOMAIN starting
  /\ faults < MaxFaults
  /\ faults' = faults + 1
  /\ running' = running \ {<<s, k>>}
  /\ UNCHANGED <<intents, rows, bundles, starting, started, driver, spawned, acts>>

\* session adopt, run inside the session: its latest observation is live.  Other
\* writers of the checkout are not looked at.
Adopt(s, owner, c) ==
  /\ \E k \in Keys \cup {"none"} : <<s, k>> \in running
  /\ live[s] = "active"
  /\ acts < MaxActs
  /\ acts' = acts + 1
  /\ Bind(s, owner, c, "none", "adopted")
  /\ UNCHANGED <<intents, bundles, world, driver, spawned, faults>>

\* managed_session_close_target: without process evidence only a session that is
\* not current, or was seen to stop, can be closed.
Closable(s) == managed[s].generation > 0 /\ (~managed[s].current \/ live[s] = "stopped")

\* session close.
Close(s) ==
  /\ Closable(s)
  /\ Retire(s)
  /\ bundles' = bundles \ {managed[s].intent}
  /\ UNCHANGED <<intents, past, live, reservation, world, driver, spawned, acts, faults>>

\* session remove-from-restore.
RemoveFromRestore(s) ==
  /\ s \in restore
  /\ acts < MaxActs
  /\ acts' = acts + 1
  /\ restore' = restore \ {s}
  /\ UNCHANGED <<intents, managed, past, association, membership, live, reservation,
                 bundles, world, driver, spawned, faults>>

\* Two minutes after begin, and two minutes after an observation.
IntentExpires(k) ==
  /\ Open(k) /\ ~intents[k].overdue
  /\ intents' = [intents EXCEPT ![k].overdue = TRUE]
  /\ UNCHANGED <<rows, bundles, world, driver, spawned, acts, faults>>

ObservationExpires(s) ==
  /\ live[s] = "active"
  /\ live' = [live EXCEPT ![s] = "expired"]
  /\ UNCHANGED <<intents, managed, past, association, membership, restore, reservation,
                 bundles, world, driver, spawned, acts, faults>>

-----------------------------------------------------------------------------
Launch(d) ==
  \/ \E req \in Requests : Request(d, req)
  \/ Insert(d) \/ Spawn(d) \/ SpawnFails(d) \/ MarkLaunched(d) \/ Await(d) \/ DriverCrash(d)

Hooks(s) ==
  \/ \E k \in Keys : CheckToken(s, k) \/ BindHook(s, k)
  \/ \E k \in Keys \cup {"none"} : HookLost(s, k) \/ SessionEnd(s, k)
  \/ Observe(s)

Person(s) ==
  \/ \E k \in Keys \cup {"none"} : StartOutside(s, k) \/ Die(s, k)
  \/ \E pair \in ItemCheckouts : Adopt(s, pair[1], pair[2])
  \/ Close(s) \/ RemoveFromRestore(s)

Time == (\E k \in Keys : IntentExpires(k)) \/ (\E s \in Sessions : ObservationExpires(s))

Next ==
  \/ \E d \in Drivers : Launch(d)
  \/ \E s \in Sessions : Hooks(s) \/ Person(s)
  \/ Time

Spec == Init /\ [][Next]_vars

-----------------------------------------------------------------------------
(* Properties.                                                             *)

\* Every variable has its type.
TypeOK ==
  /\ intents \in [Keys -> [status : {"absent", "pending", "launched", "bound", "failed"},
                           req : Requests \cup {NoRequest}, overdue : BOOLEAN]]
  /\ managed \in [Sessions -> [current : BOOLEAN, intent : Keys \cup {"none"},
                               checkout : Checkouts \cup {"none"},
                               status : {"bound", "adopted", "stopped"}, generation : Nat]]
  /\ past \subseteq Keys
  /\ association \in [Sessions -> Owners \cup {"none"}]
  /\ membership \subseteq Sessions
  /\ restore \subseteq Sessions
  /\ live \in [Sessions -> {"none", "active", "stopped", "expired"}]
  /\ reservation \in [WriterCheckouts -> Sessions \cup {"none"}]
  /\ bundles \subseteq Keys
  /\ running \subseteq Sessions \X (Keys \cup {"none"})
  /\ starting \in [DOMAIN starting -> {"sent", "checked"}]
  /\ DOMAIN starting \subseteq running
  /\ started \subseteq Sessions
  /\ driver \in [Drivers -> [pc : {"idle", "insert", "spawn", "mark", "await"},
                             req : Requests \cup {NoRequest}]]
  /\ spawned \in [Keys -> Nat]
  /\ acts \in 0..MaxActs
  /\ faults \in 0..MaxFaults

\* A session is managed, associated and a member of the restore set all at once or
\* not at all, in whatever order it is bound, adopted, ended and bound again; only
\* a managed session is in the set of those to restore.
BindingParity ==
  \A s \in Sessions :
    /\ managed[s].current <=> association[s] # "none"
    /\ managed[s].current <=> s \in membership
    /\ s \in restore => managed[s].current

\* A session that a launch bound belongs to the owner it was launched for, and to
\* no other checkout: the authority its workflow token has is the one confirmed.
AuthorityMatches ==
  \A s \in Sessions :
    managed[s].current /\ managed[s].intent # "none" =>
      LET req == intents[managed[s].intent].req
      IN  association[s] = req.owner /\ managed[s].checkout = req.checkout

\* One launch binds one session, the expected one when it is a resumption, although
\* any process below the launched one has its token and the check of the token is
\* not made in the transaction that binds.
ExactBinding ==
  \A s \in Sessions :
    managed[s].intent # "none" =>
      LET k == managed[s].intent
      IN  /\ intents[k].req.mode \in {"new", s}
          /\ k \notin past
          /\ \A t \in Sessions \ {s} : managed[t].intent # k

\* A checkout that was allocated for one writer session never has two, whoever
\* launches, resumes or adopts at the same time.
WriterCheckoutExclusive ==
  \A s, t \in Sessions :
    /\ managed[s].generation > 0 /\ managed[t].generation > 0
    /\ managed[s].checkout = managed[t].checkout
    /\ managed[s].checkout \in WriterCheckouts
    => s = t

\* A launch is never spawned twice, whoever retries it after whatever failed.
SpawnedOnce == \A k \in Keys : spawned[k] <= 1

\* Whoever holds the generation of a binding sees that it was taken over.
TakeoverIsSeen ==
  [][\A s \in Sessions :
       managed[s].current /\ managed'[s].current
         /\ (managed'[s].intent # managed[s].intent \/ managed'[s].checkout # managed[s].checkout)
       => managed'[s].generation > managed[s].generation]_vars

\* A session that ends cleanly is no longer managed or restored.
EndedIsRetired ==
  [][\A s \in Sessions, k \in Keys \cup {"none"} :
       SessionEnd(s, k) => ~managed'[s].current /\ s \notin restore']_vars

=============================================================================
