------------------------------- MODULE FollowUps ------------------------------
(***************************************************************************)
(* Follow-up messages to bound sessions (application/follow_up.rs, with    *)
(* the delivery of adapter-claude/follow_up.rs and adapter-codex/          *)
(* app_server.rs).                                                         *)
(*                                                                         *)
(* A sender, which is a CLI or MCP call, queues a message for the binding  *)
(* it has read and then delivers one message of that session: it leases    *)
(* the first one, asks the provider whether an earlier attempt got through *)
(* and otherwise hands it over.  Nothing else delivers messages.           *)
(*                                                                         *)
(* A Codex delivery is bounded by timeouts that sum to less than the lease *)
(* and stops its app-server before it returns.  A Claude delivery may take *)
(* thirty minutes against a lease of two, and the process it starts may    *)
(* outlive both the sender and the attempt to kill it.                     *)
(***************************************************************************)
EXTENDS Naturals, Sequences, FiniteSets

CONSTANTS Sessions,       \* bound sessions
          Keys,           \* idempotency keys, one for each message
          Senders,        \* concurrent CLI and MCP calls
          Tools,          \* the providers a session may have
          Target,         \* the session each message is for
          Text,           \* what each message says
          HookProcesses,  \* do hooks carry the identity of their process?
          MaxSends,       \* bound on calls
          MaxMoves,       \* bound on changes of bindings and checkouts
          MaxFaults       \* bound on crashes and failed deliveries

ASSUME ToolsAssumption == Tools \subseteq {"claude", "codex"}
ASSUME TargetAssumption == Target \in [Keys -> Sessions]

VARIABLES
  tool,        \* native_sessions: the provider of each session
  binding,     \* the managed row of each session, its generations and whether it is current
  live,        \* the latest live observation of each session
  followUp,    \* session_follow_ups
  transcript,  \* the messages each session has accepted, in order
  loose,       \* messages in processes that nobody waits for any more
  sender,      \* what each call is doing
  sends, moves, faults

vars == <<tool, binding, live, followUp, transcript, loose, sender, sends, moves, faults>>
world == <<tool, binding, live, moves>>

NoBinding == [current |-> FALSE, row |-> 0, generation |-> 0, checkout |-> 0]
NoMessage == [status |-> "absent", binding |-> NoBinding, created |-> 0, sequence |-> 0,
              attempts |-> 0, lapsed |-> 0, failure |-> "none"]
NoCall == [pc |-> "idle", key |-> "none", seen |-> NoBinding, created |-> 0,
           attempt |-> 0, previous |-> "none", active |-> FALSE, result |-> "none"]

Bound == [current |-> TRUE, row |-> 1, generation |-> 1, checkout |-> 1]

Init ==
  /\ tool \in [Sessions -> Tools]
  /\ binding = [s \in Sessions |-> Bound]
  /\ live = [s \in Sessions |-> [status |-> "idle", process |-> HookProcesses]]
  /\ followUp = [k \in Keys |-> NoMessage]
  /\ transcript = [s \in Sessions |-> <<>>]
  /\ loose = {}
  /\ sender = [p \in Senders |-> NoCall]
  /\ sends = 0 /\ moves = 0 /\ faults = 0

At(p, pc) == sender[p].pc = pc
Goto(p, pc) == sender' = [sender EXCEPT ![p].pc = pc]
Return(p) == sender' = [sender EXCEPT ![p] = NoCall]

\* deliver_next ends with the outcome of the attempt, which is then recorded.
Result(p, result) == sender' = [sender EXCEPT ![p].pc = "finish", ![p].result = result]

Fault == faults < MaxFaults /\ faults' = faults + 1

-----------------------------------------------------------------------------
(* queue.                                                                  *)

\* resolve_candidates: a session that is bound to the owner, in a role that can
\* receive messages.  The request names it, or its owner has no other.
Candidate(s) == binding[s].current

\* The request's time is read first, then the message of the same key and the
\* session's binding.  A repeated request finds its message and goes on.
Send(p, k) ==
  LET s == Target[k]
  IN  /\ At(p, "idle")
      /\ sends < MaxSends
      /\ sends' = sends + 1
      /\ IF followUp[k].status # "absent"
           THEN sender' = [sender EXCEPT ![p] = [NoCall EXCEPT !.pc = "lease", !.key = k]]
           ELSE /\ Candidate(s)
                /\ sender' = [sender EXCEPT ![p] =
                     [NoCall EXCEPT !.pc = "insert", !.key = k, !.seen = binding[s],
                                    !.created = sends + 1]]
      /\ UNCHANGED <<world, followUp, transcript, loose, faults>>

\* MAX(sequence) + 1 of the session and the generation that was read.
NextSequence(s, generation) ==
  LET used == {followUp[k].sequence : k \in
                 {j \in Keys : Target[j] = s /\ followUp[j].binding.generation = generation}}
  IN  CHOOSE n \in 1..(Cardinality(Keys) + 1) :
        n - 1 \in used \cup {0} /\ \A m \in used : m < n

\* Inserted for the binding that was read, which may have changed; the
\* idempotency key is UNIQUE.
Insert(p) ==
  LET k == sender[p].key
      seen == sender[p].seen
  IN  /\ At(p, "insert")
      /\ \/ /\ followUp[k].status = "absent"
            /\ followUp' = [followUp EXCEPT ![k] =
                 [NoMessage EXCEPT !.status = "pending", !.binding = seen,
                                   !.created = sender[p].created,
                                   !.sequence = NextSequence(Target[k], seen.generation)]]
            /\ Goto(p, "lease")
         \/ followUp[k].status # "absent" /\ Return(p) /\ UNCHANGED followUp
      /\ UNCHANGED <<world, transcript, loose, sends, faults>>

-----------------------------------------------------------------------------
(* lease_next.                                                             *)

Overdue(k) == followUp[k].status = "leased" /\ followUp[k].lapsed = followUp[k].attempts

Deliverable(k) == followUp[k].status = "pending" \/ Overdue(k)

\* ORDER BY created_at: a message that is leased does not hold back the next one.
First(s) ==
  {k \in Keys :
     /\ Target[k] = s /\ Deliverable(k)
     /\ \A j \in Keys : Target[j] = s /\ Deliverable(j)
                          => followUp[k].created <= followUp[j].created}

\* Mistake: whatever binding the session has now will do.
IntactAnyBinding(k) ==
  binding[Target[k]].current /\ live[Target[k]].status # "stopped" /\ live[Target[k]].process

\* The binding and the checkout the message was queued for, and a session that
\* was last seen live with a process to deliver through.
Intact(k) ==
  LET s == Target[k]
  IN  /\ binding[s] = followUp[k].binding
      /\ live[s].status \in {"active", "idle"}
      /\ live[s].process

Lease(p) ==
  LET s == Target[sender[p].key]
  IN  /\ At(p, "lease")
      /\ \/ /\ First(s) = {}
            /\ Return(p)
            /\ UNCHANGED followUp
         \/ \E k \in First(s) :
              \/ /\ ~Intact(k)
                 /\ followUp' = [followUp EXCEPT ![k].status = "failed", ![k].failure = "changed"]
                 /\ Return(p)
              \/ /\ Intact(k)
                 /\ followUp' = [followUp EXCEPT ![k].status = "leased", ![k].attempts = @ + 1]
                 /\ sender' = [sender EXCEPT ![p] =
                      [NoCall EXCEPT !.pc = IF followUp[k].attempts > 0 THEN "reconcile" ELSE "deliver",
                                     !.key = k, !.attempt = followUp[k].attempts + 1,
                                     !.previous = followUp[k].failure,
                                     !.active = live[s].status = "active"]]
      /\ UNCHANGED <<world, transcript, loose, sends, faults>>

-----------------------------------------------------------------------------
(* The provider.                                                           *)

Times(k) == Cardinality({i \in DOMAIN transcript[Target[k]] : transcript[Target[k]][i] = k})

\* Codex keeps the identity of the message, Claude only what it says.
Found(k) ==
  \E i \in DOMAIN transcript[Target[k]] :
    LET j == transcript[Target[k]][i]
    IN  IF tool[Target[k]] = "codex" THEN j = k ELSE Text[j] = Text[k]

\* Mistake: what could not be found is handed over again.
AfterMissAgain(p) == Goto(p, "deliver")

\* Not found: an attempt whose outcome was unknown is not repeated.
AfterMiss(p) ==
  IF sender[p].previous = "uncertain" THEN Result(p, "rejected") ELSE Goto(p, "deliver")

Reconcile(p) ==
  /\ At(p, "reconcile")
  /\ IF Found(sender[p].key) THEN Result(p, "delivered") ELSE AfterMiss(p)
  /\ UNCHANGED <<world, followUp, transcript, loose, sends, faults>>

ReconcileFails(p) ==
  /\ At(p, "reconcile")
  /\ Fault
  /\ \E result \in {"uncertain", "rejected"} : Result(p, result)
  /\ UNCHANGED <<world, followUp, transcript, loose, sends>>

\* Claude is not interrupted: its turn was active when the message was leased.
Deliver(p) ==
  /\ At(p, "deliver")
  /\ IF tool[Target[sender[p].key]] = "claude" /\ sender[p].active
       THEN Result(p, "deferred")
       ELSE Goto(p, "sent")
  /\ UNCHANGED <<world, followUp, transcript, loose, sends, faults>>

Append1(k) == transcript' = [transcript EXCEPT ![Target[k]] = Append(@, k)]

Accept(p) ==
  /\ At(p, "sent")
  /\ Append1(sender[p].key)
  /\ Goto(p, "accepted")
  /\ UNCHANGED <<world, followUp, loose, sends, faults>>

Acknowledge(p) ==
  /\ At(p, "accepted")
  /\ Result(p, "delivered")
  /\ UNCHANGED <<world, followUp, transcript, loose, sends, faults>>

\* The process of a Claude delivery that has not ended.
Orphan(p) ==
  loose' = IF At(p, "sent") /\ tool[Target[sender[p].key]] = "claude"
             THEN loose \cup {sender[p].key}
             ELSE loose

\* An error after the message was handed over, whether it was accepted or not: a
\* timeout or a lost process, or an answer that is not understood.
DeliverFails(p) ==
  /\ At(p, "sent") \/ At(p, "accepted")
  /\ Fault
  /\ \/ Result(p, "uncertain") /\ Orphan(p)
     \/ Result(p, "rejected") /\ UNCHANGED loose
  /\ UNCHANGED <<world, followUp, transcript, sends>>

AcceptLate(k) ==
  /\ k \in loose
  /\ loose' = loose \ {k}
  /\ \/ Append1(k)
     \/ UNCHANGED transcript
  /\ UNCHANGED <<world, followUp, sender, sends, faults>>

-----------------------------------------------------------------------------
(* finish_delivery.                                                        *)

\* Each lease has a token of its own.
HoldsLease(p) ==
  LET m == followUp[sender[p].key]
  IN  m.status = "leased" /\ m.attempts = sender[p].attempt

Finish(p) ==
  LET k == sender[p].key
      result == sender[p].result
  IN  /\ At(p, "finish")
      /\ followUp' =
           IF ~HoldsLease(p) THEN followUp
           ELSE [followUp EXCEPT
                   ![k].status = CASE result = "delivered" -> "delivered"
                                   [] result = "rejected" -> "failed"
                                   [] OTHER -> "pending",
                   ![k].failure = IF result = "delivered" THEN "none" ELSE result]
      /\ Return(p)
      /\ UNCHANGED <<world, transcript, loose, sends, faults>>

-----------------------------------------------------------------------------
(* Crashes, time and the sessions' own lives.                              *)

Crash(p) ==
  /\ ~At(p, "idle")
  /\ Fault
  /\ Orphan(p)
  /\ Return(p)
  /\ UNCHANGED <<world, followUp, transcript, sends>>

\* Two minutes pass; only a Claude delivery lasts that long.
Lapse(k) ==
  /\ followUp[k].status = "leased" /\ ~Overdue(k)
  /\ \/ tool[Target[k]] = "claude"
     \/ \A p \in Senders : ~(sender[p].key = k /\ sender[p].attempt = followUp[k].attempts)
  /\ followUp' = [followUp EXCEPT ![k].lapsed = followUp[k].attempts]
  /\ UNCHANGED <<world, transcript, loose, sender, sends, faults>>

Move == moves < MaxMoves /\ moves' = moves + 1

\* bind_transaction takes the current row over, or inserts a row of generation 1.
Rebind(s) ==
  /\ Move
  /\ binding' = [binding EXCEPT ![s] =
       IF @.current
         THEN [@ EXCEPT !.generation = binding[s].generation + 1]
         ELSE [@ EXCEPT !.current = TRUE, !.row = binding[s].row + 1, !.generation = 1]]
  /\ live' = [live EXCEPT ![s] = [status |-> "active", process |-> HookProcesses]]
  /\ UNCHANGED <<tool, followUp, transcript, loose, sender, sends, faults>>

\* SessionEnd.
End(s) ==
  /\ binding[s].current
  /\ Move
  /\ binding' = [binding EXCEPT ![s].current = FALSE]
  /\ live' = [live EXCEPT ![s] = [status |-> "stopped", process |-> HookProcesses]]
  /\ UNCHANGED <<tool, followUp, transcript, loose, sender, sends, faults>>

\* The checkout's readiness is persisted again.
Refresh(s) ==
  /\ Move
  /\ binding' = [binding EXCEPT ![s].checkout = @ + 1]
  /\ UNCHANGED <<tool, live, followUp, transcript, loose, sender, sends, faults>>

\* Any other hook of the session.
Observe(s, status) ==
  /\ live[s].status \notin {"stopped", status}
  /\ live' = [live EXCEPT ![s] = [status |-> status, process |-> HookProcesses]]
  /\ UNCHANGED <<tool, binding, moves, followUp, transcript, loose, sender, sends, faults>>

-----------------------------------------------------------------------------
Call(p) ==
  \/ \E k \in Keys : Send(p, k)
  \/ Insert(p) \/ Lease(p)
  \/ Reconcile(p) \/ ReconcileFails(p)
  \/ Deliver(p) \/ Accept(p) \/ Acknowledge(p) \/ DeliverFails(p)
  \/ Finish(p) \/ Crash(p)

Environment ==
  \/ \E k \in Keys : Lapse(k) \/ AcceptLate(k)
  \/ \E s \in Sessions :
       \/ Rebind(s) \/ End(s) \/ Refresh(s)
       \/ \E status \in {"active", "idle"} : Observe(s, status)

Next == (\E p \in Senders : Call(p)) \/ Environment

Spec == Init /\ [][Next]_vars

-----------------------------------------------------------------------------
(* Properties.                                                             *)

Bindings == [current : BOOLEAN, row : Nat, generation : Nat, checkout : Nat]
Outcomes == {"none", "delivered", "deferred", "rejected", "uncertain"}

\* Every variable has its type.
TypeOK ==
  /\ tool \in [Sessions -> Tools]
  /\ binding \in [Sessions -> Bindings]
  /\ live \in [Sessions -> [status : {"active", "idle", "stopped"}, process : BOOLEAN]]
  /\ followUp \in
       [Keys -> [status : {"absent", "pending", "leased", "delivered", "failed"},
                 binding : Bindings, created : Nat, sequence : Nat, attempts : Nat,
                 lapsed : Nat, failure : {"none", "deferred", "rejected", "uncertain", "changed"}]]
  /\ transcript \in [Sessions -> Seq(Keys)]
  /\ loose \subseteq Keys
  /\ sender \in
       [Senders -> [pc : {"idle", "insert", "lease", "reconcile", "deliver", "sent", "accepted",
                          "finish"},
                    key : Keys \cup {"none"}, seen : Bindings, created : Nat, attempt : Nat,
                    previous : {"none", "deferred", "rejected", "uncertain", "changed"},
                    active : BOOLEAN, result : Outcomes]]
  /\ sends \in 0..MaxSends /\ moves \in 0..MaxMoves /\ faults \in 0..MaxFaults

\* However calls crash, overtake each other and are repeated, Codex is given a
\* message once; Claude too, as long as no lease of the message lapsed.
NoDuplicateDelivery ==
  \A k \in Keys : tool[Target[k]] = "codex" \/ followUp[k].lapsed = 0 => Times(k) <= 1

\* A late answer, of a call whose message another one has taken over and settled,
\* changes nothing.
SettledStays ==
  [][\A k \in Keys :
       followUp[k].status \in {"delivered", "failed"} => followUp'[k] = followUp[k]]_vars

\* A message is for the binding it was queued for: once that has changed, even
\* between reading it and queueing the message, nobody starts to deliver it.
NotRedirected ==
  [][\A k \in Keys :
       followUp[k].status # "absent" /\ binding[Target[k]] # followUp[k].binding
         => followUp'[k].attempts = followUp[k].attempts]_vars

\* Messages that were queued for one binding reach the session in their sequence.
AcceptedInOrder ==
  \A s \in Sessions : \A i, j \in DOMAIN transcript[s] :
    LET a == followUp[transcript[s][i]]
        b == followUp[transcript[s][j]]
    IN  i < j /\ a.binding = b.binding => a.sequence <= b.sequence

\* A message fails for changed evidence only if something has changed: the binding
\* or the checkout is another one, or the session has stopped.
ChangedForCause ==
  [][\A k \in Keys :
       followUp'[k].failure = "changed" /\ followUp[k].failure # "changed"
         => \/ binding[Target[k]] # followUp[k].binding
            \/ live[Target[k]].status = "stopped"]_vars

=============================================================================
