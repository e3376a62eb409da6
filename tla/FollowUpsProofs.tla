---------------------------- MODULE FollowUpsProofs ---------------------------
(***************************************************************************)
(* Theorems about FollowUps, for every set of sessions, messages and calls *)
(* and every bound.                                                        *)
(*                                                                         *)
(* The argument: the leases of a message are numbered, each belongs to one *)
(* call, and as long as none lapsed under a call that still works, at most *)
(* one call works on the message: the one that holds its lease.  That call *)
(* hands the message over only if nothing that an earlier attempt left     *)
(* behind, in the transcript or in a process that runs on, can be it.      *)
(***************************************************************************)
EXTENDS FollowUps, FiniteSetTheorems, TLAPS

-----------------------------------------------------------------------------
(* The inductive invariant.                                                *)

Failures == {"none", "deferred", "rejected", "uncertain", "changed"}

\* The number a message has in its session is left open.
Messages(sequence) ==
  [status : {"absent", "pending", "leased", "delivered", "failed"}, binding : Bindings,
   created : Nat, sequence : {sequence}, attempts : Nat, lapsed : Nat, failure : Failures]

Calls ==
  [pc : {"idle", "insert", "lease", "reconcile", "deliver", "sent", "accepted", "finish"},
   key : Keys \cup {"none"}, seen : Bindings, created : Nat, attempt : Nat,
   previous : Failures, active : BOOLEAN, result : Outcomes]

Typed ==
  /\ tool \in [Sessions -> Tools]
  /\ binding \in [Sessions -> Bindings]
  /\ DOMAIN followUp = Keys /\ \A k \in Keys : followUp[k] \in Messages(followUp[k].sequence)
  /\ transcript \in [Sessions -> Seq(Keys)]
  /\ loose \subseteq Keys
  /\ sender \in [Senders -> Calls]
  /\ sends \in Nat

\* A call that has leased a message.
Works(p) == sender[p].pc \in {"reconcile", "deliver", "sent", "accepted", "finish"}

\* The session has accepted the message.
Accepted(k) == \E i \in DOMAIN transcript[Target[k]] : transcript[Target[k]][i] = k

\* It may accept it yet, or has.
Given(k) == k \in loose \/ Accepted(k)

\* No lease of the message can lapse under a call that works on it.
Sound(k) == tool[Target[k]] = "codex" \/ followUp[k].lapsed = 0

\* Leases are counted, and what was never leased was never handed over.
Counted ==
  /\ \A k \in Keys :
       /\ followUp[k].lapsed <= followUp[k].attempts
       /\ followUp[k].status = "absent" => followUp[k].attempts = 0
       /\ followUp[k].status = "leased" => followUp[k].attempts > 0
       /\ followUp[k].attempts = 0 => ~Given(k)
  /\ \A k \in loose : tool[Target[k]] = "claude"

\* A call has a message, and if it works, an attempt of its own.
Numbered ==
  /\ \A p \in Senders :
       /\ ~At(p, "idle") => sender[p].key \in Keys
       /\ Works(p) => sender[p].attempt \in 1..followUp[sender[p].key].attempts
       /\ At(p, "finish") => sender[p].result # "none"
  /\ \A p, q \in Senders :
       /\ Works(p) /\ Works(q)
       /\ sender[p].key = sender[q].key /\ sender[p].attempt = sender[q].attempt
       => p = q

\* A call that works holds its lease.
Held ==
  /\ \A p \in Senders : Works(p) /\ Sound(sender[p].key) => HoldsLease(p)
  /\ \A p \in Senders, k \in Keys :
       tool[Target[k]] = "codex" /\ Overdue(k) => ~(Works(p) /\ sender[p].key = k)

\* A call that has found its session busy, and has handed over nothing.
Defers(c) == c.pc = "finish" /\ c.result = "deferred"

\* A message that is about to be handed over never was.
Fresh ==
  \A p \in Senders :
    Works(p) /\ Sound(sender[p].key) =>
      /\ sender[p].pc \in {"deliver", "sent"} \/ Defers(sender[p]) => ~Given(sender[p].key)
      /\ At(p, "accepted") => sender[p].key \notin loose
      /\ At(p, "reconcile") /\ sender[p].key \in loose => sender[p].previous = "uncertain"

\* A message is in the transcript once or may yet come there, and not both.
OnceOnly(k) ==
  \A i, j \in DOMAIN transcript[Target[k]] :
    transcript[Target[k]][i] = k /\ transcript[Target[k]][j] = k => i = j

Single ==
  \A k \in Keys : Sound(k) =>
    /\ OnceOnly(k)
    /\ k \in loose => ~Accepted(k)
    /\ k \in loose /\ followUp[k].status = "pending" => followUp[k].failure = "uncertain"

DeliveryInv == Typed /\ Counted /\ Numbered /\ Held /\ Fresh /\ Single

-----------------------------------------------------------------------------
(* What the parts of the invariant say of one message or call.             *)

\* The fields of a message.
LEMMA MessageFields ==
  ASSUME Typed, NEW k \in Keys
  PROVE  /\ followUp[k].status \in {"absent", "pending", "leased", "delivered", "failed"}
         /\ followUp[k].attempts \in Nat /\ followUp[k].lapsed \in Nat
         /\ followUp[k].failure \in Failures
         /\ Target[k] \in Sessions /\ tool[Target[k]] \in {"claude", "codex"}
BY ToolsAssumption, TargetAssumption DEF Typed, Messages

\* The fields of a call.
LEMMA CallFields ==
  ASSUME Typed, NEW p \in Senders
  PROVE  /\ sender[p] \in Calls
         /\ sender[p].attempt \in Nat /\ sender[p].result \in Outcomes
         /\ sender[p].previous \in Failures
BY DEF Typed, Calls

\* The initial state.
LEMMA InitDelivery == Init => DeliveryInv
<1> SUFFICES ASSUME Init PROVE DeliveryInv
  OBVIOUS
<1>1. Typed
  <2>1. Bound \in Bindings /\ NoBinding \in Bindings
    BY DEF Bound, NoBinding, Bindings
  <2>2. NoMessage \in Messages(0) /\ NoMessage.sequence = 0
    BY <2>1 DEF NoMessage, Messages, Failures
  <2>3. NoCall \in Calls
    BY <2>1 DEF NoCall, Calls, Failures, Outcomes
  <2>4. transcript \in [Sessions -> Seq(Keys)]
    BY DEF Init
  <2> QED
    BY <2>1, <2>2, <2>3, <2>4 DEF Init, Typed
<1>2. \A k \in Keys : ~Given(k) /\ followUp[k] = NoMessage
  BY TargetAssumption DEF Init, Given, Accepted
<1>3. \A p \in Senders : At(p, "idle") /\ ~Works(p)
  BY DEF Init, At, Works, NoCall
<1>4. Counted /\ Numbered
  BY <1>2, <1>3 DEF Counted, Numbered, NoMessage, At, Works, Init
<1>5. Held /\ Fresh /\ Single
  BY <1>2, <1>3 DEF Held, Fresh, Single, OnceOnly, Given, Accepted, Overdue, NoMessage
<1> QED
  BY <1>1, <1>4, <1>5 DEF DeliveryInv

\* A message that can be leased has no call that works on it, if it is sound.
LEMMA NobodyWorks ==
  ASSUME DeliveryInv, NEW k \in Keys, Deliverable(k), Sound(k), NEW p \in Senders
  PROVE  ~(Works(p) /\ sender[p].key = k)
<1>1. CASE followUp[k].status = "pending"
  BY <1>1 DEF DeliveryInv, Held, HoldsLease
<1>2. CASE Overdue(k) /\ tool[Target[k]] = "codex"
  BY <1>2 DEF DeliveryInv, Held
<1>3. CASE Overdue(k) /\ followUp[k].lapsed = 0
  <2>1. followUp[k].status = "leased" /\ followUp[k].attempts = 0
    BY <1>3 DEF Overdue
  <2>2. followUp[k].status = "leased" => followUp[k].attempts > 0
    BY DEF DeliveryInv, Counted
  <2> QED
    BY <2>1, <2>2
<1> QED
  BY <1>1, <1>2, <1>3 DEF Deliverable, Sound

\* A message has one call that works on it, if it is sound.
LEMMA OneWorks ==
  ASSUME DeliveryInv, NEW p \in Senders, NEW q \in Senders, Works(p), Works(q),
         sender[p].key = sender[q].key, Sound(sender[p].key)
  PROVE  p = q
BY DEF DeliveryInv, Held, HoldsLease, Numbered

\* What handing a message over does to the transcripts.
LEMMA Appended ==
  ASSUME Typed, NEW k \in Keys, Append1(k)
  PROVE  /\ transcript' \in [Sessions -> Seq(Keys)]
         /\ \A j \in Keys : Accepted(j)' <=> Accepted(j) \/ j = k
         /\ \A j \in Keys : j # k /\ OnceOnly(j) => OnceOnly(j)'
         /\ ~Accepted(k) => OnceOnly(k)'
<1>1. /\ transcript \in [Sessions -> Seq(Keys)] /\ Target[k] \in Sessions
      /\ transcript[Target[k]] \in Seq(Keys)
  BY TargetAssumption DEF Typed
<1>2. /\ transcript' \in [Sessions -> Seq(Keys)]
      /\ transcript'[Target[k]] = Append(transcript[Target[k]], k)
      /\ \A s \in Sessions \ {Target[k]} : transcript'[s] = transcript[s]
  BY <1>1 DEF Append1
<1> DEFINE t == transcript[Target[k]]
           n == Len(t) + 1
<1>3. /\ DOMAIN t = 1..Len(t) /\ Len(t) \in Nat
      /\ DOMAIN transcript'[Target[k]] = 1..n /\ transcript'[Target[k]][n] = k
      /\ \A i \in 1..Len(t) : transcript'[Target[k]][i] = t[i]
  BY <1>1, <1>2
<1> HIDE DEF t, n
<1>4. n = Len(t) + 1 /\ t = transcript[Target[k]]
  BY DEF n, t
<1>5. ASSUME NEW j \in Keys, Target[j] # Target[k]
      PROVE  (Accepted(j)' <=> Accepted(j)) /\ (OnceOnly(j) => OnceOnly(j)') /\ j # k
  BY <1>2, <1>5, TargetAssumption DEF Accepted, OnceOnly
<1> DEFINE u == transcript'[Target[k]]
<1>9. DOMAIN u = 1..n /\ u[n] = k /\ \A i \in 1..Len(t) : u[i] = t[i]
  BY <1>3
<1> HIDE DEF u
<1>6. ASSUME NEW j \in Keys, Target[j] = Target[k]
      PROVE  (Accepted(j)' <=> Accepted(j) \/ j = k)
  <2>1. (Accepted(j)' <=> \E i \in DOMAIN u : u[i] = j) /\ (Accepted(j) <=> \E i \in DOMAIN t : t[i] = j)
    BY <1>6 DEF Accepted, u, t
  <2>2. ASSUME NEW i \in DOMAIN u, u[i] = j PROVE j = k \/ \E h \in DOMAIN t : t[h] = j
    <3>1. i = n \/ i \in 1..Len(t)
      BY <1>3, <1>4, <1>9
    <3> QED
      BY <1>3, <1>9, <2>2, <3>1
  <2>3. ASSUME NEW i \in DOMAIN t PROVE i \in DOMAIN u /\ u[i] = t[i]
    BY <1>3, <1>4, <1>9
  <2>4. n \in DOMAIN u /\ u[n] = k
    BY <1>3, <1>4, <1>9
  <2> QED
    BY <2>1, <2>2, <2>3, <2>4
<1>7. ASSUME NEW j \in Keys, Target[j] = Target[k], j # k, OnceOnly(j)
      PROVE  OnceOnly(j)'
  <2>1. /\ \A h, i \in DOMAIN t : t[h] = j /\ t[i] = j => h = i
        /\ OnceOnly(j)' <=> \A h, i \in DOMAIN u : u[h] = j /\ u[i] = j => h = i
    BY <1>7 DEF OnceOnly, u, t
  <2> QED
    BY <1>3, <1>4, <1>7, <1>9, <2>1
<1>8. ASSUME ~Accepted(k) PROVE OnceOnly(k)'
  BY SMTT(30), <1>3, <1>4, <1>8 DEF OnceOnly, Accepted
<1> QED
  BY <1>2, <1>5, <1>6, <1>7, <1>8

-----------------------------------------------------------------------------
(* Steps that leave the messages alone.                                    *)

\* What is said of a message depends on the messages and the transcripts alone.
LEMMA SameMessages ==
  ASSUME UNCHANGED <<tool, followUp, transcript, loose>>, NEW k
  PROVE  /\ Given(k)' <=> Given(k)
         /\ Accepted(k)' <=> Accepted(k)
         /\ OnceOnly(k)' <=> OnceOnly(k)
         /\ Sound(k)' <=> Sound(k)
         /\ Overdue(k)' <=> Overdue(k)
<1>1. Accepted(k)' <=> Accepted(k)
  BY DEF Accepted
<1>2. OnceOnly(k)' <=> OnceOnly(k)
  BY DEF OnceOnly
<1> QED
  BY <1>1, <1>2 DEF Given, Sound, Overdue

\* Such a step of a call: it gives up, or goes on with the attempt it has.
LEMMA CallStep ==
  ASSUME DeliveryInv, NEW p \in Senders, UNCHANGED <<tool, followUp, transcript, loose>>,
         \A q \in Senders \ {p} : sender'[q] = sender[q],
         sender'[p].pc # "idle" => sender'[p].key \in Keys,
         Works(p)' =>
           /\ Works(p) /\ sender'[p].key = sender[p].key /\ sender'[p].attempt = sender[p].attempt
           /\ sender'[p].pc = "finish" => sender'[p].result # "none"
           /\ Sound(sender[p].key) =>
                /\ sender'[p].pc \in {"deliver", "sent"} \/ Defers(sender'[p])
                     => ~Given(sender[p].key)
                /\ sender'[p].pc = "accepted" => sender[p].key \notin loose
                /\ sender'[p].pc = "reconcile" /\ sender[p].key \in loose
                     => sender'[p].previous = "uncertain"
  PROVE  Counted' /\ Numbered' /\ Held' /\ Fresh' /\ Single'
<1>1. \A q \in Senders \ {p} : Works(q)' <=> Works(q)
  BY DEF Works
<1>2. Counted' /\ Single'
  <2>1. Counted'
    BY SameMessages DEF DeliveryInv, Counted
  <2>2. Single'
    BY SameMessages DEF DeliveryInv, Single
  <2> QED
    BY <2>1, <2>2
<1>6. \A q \in Senders : Works(q)' =>
        /\ Works(q) /\ sender'[q].key = sender[q].key
        /\ sender'[q].attempt = sender[q].attempt /\ sender[q].key \in Keys
  BY <1>1 DEF DeliveryInv, Numbered, Works, At
<1>3. Numbered'
  <2>1. \A q \in Senders :
          /\ sender'[q].pc # "idle" => sender'[q].key \in Keys
          /\ sender'[q].pc = "finish" => sender'[q].result # "none"
    BY DEF DeliveryInv, Numbered, At, Works
  <2>2. \A q \in Senders : Works(q)' => sender'[q].attempt \in 1..followUp'[sender'[q].key].attempts
    BY <1>6 DEF DeliveryInv, Numbered
  <2> QED
    BY <1>6, <2>1, <2>2 DEF DeliveryInv, Numbered, At
<1>4. Held'
  <2>1. \A q \in Senders : Works(q)' /\ Sound(sender[q].key)' => HoldsLease(q)'
    BY <1>6 DEF DeliveryInv, Held, HoldsLease, Sound
  <2>2. \A q \in Senders, k \in Keys :
          tool'[Target[k]] = "codex" /\ Overdue(k)' => ~(Works(q)' /\ sender'[q].key = k)
    BY <1>6, SameMessages DEF DeliveryInv, Held
  <2> QED
    BY <2>1, <2>2 DEF Held
<1>5. Fresh'
  <2>1. ASSUME NEW q \in Senders, Works(q)', Sound(sender[q].key)
        PROVE  /\ sender'[q].pc \in {"deliver", "sent"} \/ Defers(sender'[q])
                    => ~Given(sender[q].key)
               /\ sender'[q].pc = "accepted" => sender[q].key \notin loose
               /\ sender'[q].pc = "reconcile" /\ sender[q].key \in loose
                    => sender'[q].previous = "uncertain"
    <3>1. CASE q = p
      BY <2>1, <3>1
    <3>2. CASE q # p
      BY <1>1, <2>1, <3>2 DEF DeliveryInv, Fresh, At
    <3> QED
      BY <3>1, <3>2
  <2> SUFFICES ASSUME NEW q \in Senders, Works(q)', Sound(sender[q].key)'
               PROVE  /\ sender'[q].pc \in {"deliver", "sent"} \/ Defers(sender'[q])
                           => ~Given(sender[q].key)'
                      /\ sender'[q].pc = "accepted" => sender'[q].key \notin loose'
                      /\ sender'[q].pc = "reconcile" /\ sender'[q].key \in loose'
                           => sender'[q].previous = "uncertain"
    BY DEF Fresh, At
  <2>2. sender'[q].key = sender[q].key
    BY <1>6
  <2>3. Sound(sender[q].key) /\ (Given(sender[q].key)' <=> Given(sender[q].key))
    BY <2>2 DEF Sound, Given, Accepted
  <2> QED
    BY <2>1, <2>2, <2>3
<1> QED
  BY <1>2, <1>3, <1>4, <1>5

\* A step that the calls and the messages have no part in.
LEMMA WorldStep ==
  ASSUME DeliveryInv, UNCHANGED <<tool, followUp, transcript, loose, sender>>
  PROVE  Counted' /\ Numbered' /\ Held' /\ Fresh' /\ Single'
BY DEF DeliveryInv, Counted, Numbered, Held, Fresh, Single, Given, Accepted, OnceOnly, Sound, Overdue,
       Works, At, HoldsLease

-----------------------------------------------------------------------------
(* Types.                                                                  *)

\* A change of one message keeps the types, and the other messages.
LEMMA MessageStep ==
  ASSUME Typed, NEW k \in Keys, NEW m, m \in Messages(m.sequence),
         followUp' = [followUp EXCEPT ![k] = m]
  PROVE  /\ DOMAIN followUp' = Keys
         /\ \A j \in Keys : followUp'[j] \in Messages(followUp'[j].sequence)
         /\ followUp'[k] = m
         /\ \A j \in Keys \ {k} : followUp'[j] = followUp[j]
BY DEF Typed

\* A change of one call does, too.
LEMMA CallTypes ==
  ASSUME Typed, NEW p \in Senders, NEW c \in Calls, sender' = [sender EXCEPT ![p] = c]
  PROVE  /\ sender' \in [Senders -> Calls]
         /\ sender'[p] = c
         /\ \A q \in Senders \ {p} : sender'[q] = sender[q]
BY DEF Typed

\* The calls that the steps leave.
LEMMA CallValues ==
  /\ NoCall \in Calls /\ NoCall.pc = "idle" /\ NoCall.result = "none"
  /\ \A k \in Keys : [NoCall EXCEPT !.pc = "lease", !.key = k] \in Calls
  /\ \A k \in Keys, seen \in Bindings, n \in Nat :
       [NoCall EXCEPT !.pc = "insert", !.key = k, !.seen = seen, !.created = n] \in Calls
  /\ \A pc \in {"reconcile", "deliver"}, k \in Keys, n \in Nat, f \in Failures, b \in BOOLEAN :
       [NoCall EXCEPT !.pc = pc, !.key = k, !.attempt = n, !.previous = f, !.active = b] \in Calls
<1>1. NoBinding \in Bindings
  BY DEF NoBinding, Bindings
<1>2. NoCall \in Calls /\ NoCall.pc = "idle" /\ NoCall.result = "none"
  BY <1>1 DEF NoCall, Calls, Failures, Outcomes
<1> QED
  BY <1>2 DEF Calls

\* A call that goes on, or ends with a result.
LEMMA GoesOn ==
  ASSUME Typed, NEW p \in Senders
  PROVE  /\ \A pc \in {"lease", "deliver", "sent", "accepted"} :
              Goto(p, pc) =>
                /\ sender' \in [Senders -> Calls]
                /\ \A q \in Senders \ {p} : sender'[q] = sender[q]
                /\ sender'[p].pc = pc /\ sender'[p].key = sender[p].key
                /\ sender'[p].attempt = sender[p].attempt /\ sender'[p].result = sender[p].result
         /\ \A result \in Outcomes :
              Result(p, result) =>
                /\ sender' \in [Senders -> Calls]
                /\ \A q \in Senders \ {p} : sender'[q] = sender[q]
                /\ sender'[p].pc = "finish" /\ sender'[p].key = sender[p].key
                /\ sender'[p].attempt = sender[p].attempt /\ sender'[p].result = result
         /\ Return(p) =>
                /\ sender' \in [Senders -> Calls]
                /\ \A q \in Senders \ {p} : sender'[q] = sender[q]
                /\ sender'[p].pc = "idle" /\ sender'[p].result = "none"
<1>1. sender \in [Senders -> Calls] /\ sender[p] \in Calls
  BY DEF Typed
<1>2. ASSUME NEW pc \in {"lease", "deliver", "sent", "accepted"}, Goto(p, pc)
      PROVE  /\ sender' \in [Senders -> Calls]
             /\ \A q \in Senders \ {p} : sender'[q] = sender[q]
             /\ sender'[p].pc = pc /\ sender'[p].key = sender[p].key
             /\ sender'[p].attempt = sender[p].attempt /\ sender'[p].result = sender[p].result
  <2>1. sender' = [sender EXCEPT ![p] = [sender[p] EXCEPT !.pc = pc]]
    BY <1>1, <1>2 DEF Goto
  <2>2. [sender[p] EXCEPT !.pc = pc] \in Calls
    BY <1>1 DEF Calls
  <2>3. /\ sender' \in [Senders -> Calls]
        /\ sender'[p] = [sender[p] EXCEPT !.pc = pc]
        /\ \A q \in Senders \ {p} : sender'[q] = sender[q]
    BY <2>1, <2>2, CallTypes
  <2> QED
    BY <1>1, <2>3 DEF Calls
<1>3. ASSUME NEW result \in Outcomes, Result(p, result)
      PROVE  /\ sender' \in [Senders -> Calls]
             /\ \A q \in Senders \ {p} : sender'[q] = sender[q]
             /\ sender'[p].pc = "finish" /\ sender'[p].key = sender[p].key
             /\ sender'[p].attempt = sender[p].attempt /\ sender'[p].result = result
  <2>1. sender' = [sender EXCEPT ![p] = [sender[p] EXCEPT !.pc = "finish", !.result = result]]
    BY <1>1, <1>3 DEF Result
  <2>2. [sender[p] EXCEPT !.pc = "finish", !.result = result] \in Calls
    BY <1>1 DEF Calls
  <2>3. /\ sender' \in [Senders -> Calls]
        /\ sender'[p] = [sender[p] EXCEPT !.pc = "finish", !.result = result]
        /\ \A q \in Senders \ {p} : sender'[q] = sender[q]
    BY <2>1, <2>2, CallTypes
  <2> QED
    BY <1>1, <2>3 DEF Calls
<1>4. ASSUME Return(p)
      PROVE  /\ sender' \in [Senders -> Calls]
             /\ \A q \in Senders \ {p} : sender'[q] = sender[q]
             /\ sender'[p].pc = "idle" /\ sender'[p].result = "none"
  BY <1>4, CallTypes, CallValues DEF Return
<1> QED
  BY <1>2, <1>3, <1>4

\* How messages are changed.
LEMMA MessageValues ==
  ASSUME Typed, NEW k \in Keys
  PROVE  /\ \A b \in Bindings, c \in Nat : \A n :
              [NoMessage EXCEPT !.status = "pending", !.binding = b, !.created = c, !.sequence = n]
                \in Messages(n)
         /\ \A status \in {"pending", "delivered", "failed"}, f \in Failures :
              [followUp[k] EXCEPT !.status = status, !.failure = f] \in Messages(followUp[k].sequence)
         /\ [followUp[k] EXCEPT !.status = "leased", !.attempts = @ + 1]
              \in Messages(followUp[k].sequence)
         /\ [followUp[k] EXCEPT !.lapsed = followUp[k].attempts] \in Messages(followUp[k].sequence)
<1>1. followUp[k] \in Messages(followUp[k].sequence)
  BY DEF Typed
<1>2. NoBinding \in Bindings
  BY DEF NoBinding, Bindings
<1>6. \A n : \A m \in Messages(n), i \in Nat :
        /\ [m EXCEPT !.lapsed = i] \in Messages(n)
        /\ [m EXCEPT !.status = "leased", !.attempts = i] \in Messages(n)
  BY DEF Messages
<1>3. ASSUME NEW n, NEW m \in Messages(n)
      PROVE  /\ [m EXCEPT !.status = "leased", !.attempts = @ + 1] \in Messages(n)
             /\ [m EXCEPT !.lapsed = m.attempts] \in Messages(n)
  <2>1. m.attempts \in Nat /\ m.attempts + 1 \in Nat
    BY DEF Messages
  <2> QED
    BY <1>6, <2>1
<1>4. \A n : \A m \in Messages(n) : \A status \in {"pending", "delivered", "failed"}, f \in Failures :
        [m EXCEPT !.status = status, !.failure = f] \in Messages(n)
  BY DEF Messages
<1>5. \A b \in Bindings, c \in Nat : \A m :
        [NoMessage EXCEPT !.status = "pending", !.binding = b, !.created = c, !.sequence = m]
          \in Messages(m)
  BY <1>2 DEF NoMessage, Messages, Failures
<1> QED
  BY <1>1, <1>3, <1>4, <1>5

\* Every step keeps the types.
LEMMA TypeStep ==
  ASSUME Typed, Counted, Numbered, [Next]_vars
  PROVE  Typed'
<1>0. /\ tool \in [Sessions -> Tools] /\ binding \in [Sessions -> Bindings]
      /\ DOMAIN followUp = Keys /\ \A k \in Keys : followUp[k] \in Messages(followUp[k].sequence)
      /\ transcript \in [Sessions -> Seq(Keys)]
      /\ loose \subseteq Keys /\ sender \in [Senders -> Calls] /\ sends \in Nat
  BY DEF Typed
<1> USE <1>0
<1>1. ASSUME NEW p \in Senders, NEW k \in Keys, Send(p, k) PROVE Typed'
  <2>1. sends' = sends + 1 /\ UNCHANGED <<tool, binding, followUp, transcript, loose>>
    BY <1>1 DEF Send, world
  <2>2. binding[Target[k]] \in Bindings
    BY TargetAssumption
  <2>3. sender' \in [Senders -> Calls]
    <3>1. CASE sender' = [sender EXCEPT ![p] = [NoCall EXCEPT !.pc = "lease", !.key = k]]
      BY <3>1, CallValues
    <3>2. CASE sender' = [sender EXCEPT ![p] =
                 [NoCall EXCEPT !.pc = "insert", !.key = k, !.seen = binding[Target[k]],
                                !.created = sends + 1]]
      <4> DEFINE c == [NoCall EXCEPT !.pc = "insert", !.key = k, !.seen = binding[Target[k]],
                                     !.created = sends + 1]
      <4>1. sends + 1 \in Nat
        OBVIOUS
      <4>2. c \in Calls
        BY <2>2, <4>1, CallValues
      <4> QED
        BY <3>2, <4>2
    <3> QED
      BY <1>1, <3>1, <3>2 DEF Send
  <2> QED
    BY <2>1, <2>3 DEF Typed
<1>2. ASSUME NEW p \in Senders, Insert(p) PROVE Typed'
  <2> DEFINE k == sender[p].key
  <2>1. k \in Keys
    BY <1>2 DEF Insert, Numbered, At
  <2>2. sender' \in [Senders -> Calls]
    BY <1>2, GoesOn DEF Insert
  <2>3. DOMAIN followUp' = Keys /\ \A j \in Keys : followUp'[j] \in Messages(followUp'[j].sequence)
    <3>1. CASE UNCHANGED followUp
      BY <3>1
    <3>2. ASSUME NEW n,
                 followUp' = [followUp EXCEPT ![k] =
                   [NoMessage EXCEPT !.status = "pending", !.binding = sender[p].seen,
                                     !.created = sender[p].created, !.sequence = n]]
          PROVE  DOMAIN followUp' = Keys
                 /\ \A j \in Keys : followUp'[j] \in Messages(followUp'[j].sequence)
      <4> DEFINE m == [NoMessage EXCEPT !.status = "pending", !.binding = sender[p].seen,
                                        !.created = sender[p].created, !.sequence = n]
      <4>1. sender[p].seen \in Bindings /\ sender[p].created \in Nat
        BY DEF Calls
      <4>2. m \in Messages(n) /\ m.sequence = n
        BY <2>1, <4>1, MessageValues DEF NoMessage
      <4> QED
        BY <2>1, <3>2, <4>2, MessageStep
    <3> QED
      BY <1>2, <3>1, <3>2 DEF Insert
  <2> QED
    BY <1>2, <2>2, <2>3 DEF Insert, Typed, world
<1>3. ASSUME NEW p \in Senders, Lease(p) PROVE Typed'
  <2> DEFINE s == Target[sender[p].key]
  <2>1. CASE Return(p) /\ UNCHANGED followUp
    BY <1>3, <2>1, GoesOn DEF Lease, Typed, world
  <2>2. ASSUME NEW k \in First(s), Return(p),
               followUp' = [followUp EXCEPT ![k].status = "failed", ![k].failure = "changed"]
        PROVE  Typed'
    <3> DEFINE m == [followUp[k] EXCEPT !.status = "failed", !.failure = "changed"]
    <3>1. k \in Keys /\ followUp' = [followUp EXCEPT ![k] = m]
      BY <2>2 DEF First
    <3>2. m \in Messages(followUp[k].sequence)
      BY <3>1, MessageValues DEF Failures
    <3>3. m.sequence = followUp[k].sequence
      BY <3>2 DEF Messages
    <3>4. DOMAIN followUp' = Keys /\ \A j \in Keys : followUp'[j] \in Messages(followUp'[j].sequence)
      BY <3>1, <3>2, <3>3, MessageStep
    <3> QED
      BY <1>3, <2>2, <3>4, GoesOn DEF Lease, Typed, world
  <2>3. ASSUME NEW k \in First(s),
               followUp' = [followUp EXCEPT ![k].status = "leased", ![k].attempts = @ + 1],
               sender' = [sender EXCEPT ![p] =
                 [NoCall EXCEPT !.pc = IF followUp[k].attempts > 0 THEN "reconcile" ELSE "deliver",
                                !.key = k, !.attempt = followUp[k].attempts + 1,
                                !.previous = followUp[k].failure,
                                !.active = live[s].status = "active"]]
        PROVE  Typed'
    <3> DEFINE m == [followUp[k] EXCEPT !.status = "leased", !.attempts = @ + 1]
    <3>1. k \in Keys /\ followUp' = [followUp EXCEPT ![k] = m]
      BY <2>3 DEF First
    <3>2. m \in Messages(followUp[k].sequence)
      BY <3>1, MessageValues
    <3>3. m.sequence = followUp[k].sequence
      BY <3>2 DEF Messages
    <3>4. DOMAIN followUp' = Keys /\ \A j \in Keys : followUp'[j] \in Messages(followUp'[j].sequence)
      BY <3>1, <3>2, <3>3, MessageStep
    <3>5. followUp[k].attempts \in Nat /\ followUp[k].failure \in Failures
      BY <3>1, MessageFields
    <3>6. sender' \in [Senders -> Calls]
      <4> DEFINE pc == IF followUp[k].attempts > 0 THEN "reconcile" ELSE "deliver"
                 active == live[s].status = "active"
                 c == [NoCall EXCEPT !.pc = pc, !.key = k, !.attempt = followUp[k].attempts + 1,
                                     !.previous = followUp[k].failure, !.active = active]
      <4>1. /\ pc \in {"reconcile", "deliver"} /\ active \in BOOLEAN
            /\ followUp[k].attempts + 1 \in Nat
        BY <3>5
      <4>2. sender' = [sender EXCEPT ![p] = c]
        BY <2>3
      <4> HIDE DEF pc, active
      <4>3. c \in Calls
        BY <3>1, <3>5, <4>1, CallValues
      <4> QED
        BY <4>2, <4>3
    <3> QED
      BY <1>3, <3>4, <3>6 DEF Lease, Typed, world
  <2> QED
    BY <1>3, <2>1, <2>2, <2>3 DEF Lease
<1>4. ASSUME NEW p \in Senders,
             \/ Reconcile(p) \/ ReconcileFails(p) \/ Deliver(p) \/ Acknowledge(p)
      PROVE  Typed'
  <2>1. sender' \in [Senders -> Calls]
    BY <1>4, GoesOn DEF Reconcile, ReconcileFails, Deliver, Acknowledge, AfterMiss, Outcomes
  <2> QED
    BY <1>4, <2>1 DEF Reconcile, ReconcileFails, Deliver, Acknowledge, Typed, world
<1>5. ASSUME NEW p \in Senders, Accept(p) PROVE Typed'
  <2>1. sender[p].key \in Keys
    BY <1>5 DEF Accept, Numbered, At
  <2>2. transcript' \in [Sessions -> Seq(Keys)]
    BY <1>5, <2>1, Appended DEF Accept
  <2> QED
    BY <1>5, <2>2, GoesOn DEF Accept, Typed, world
<1>6. ASSUME NEW p \in Senders, DeliverFails(p) \/ Crash(p) PROVE Typed'
  <2>1. sender[p].key \in Keys
    BY <1>6 DEF DeliverFails, Crash, Numbered, At
  <2>2. loose' \subseteq Keys
    BY <1>6, <2>1 DEF DeliverFails, Crash, Orphan
  <2>3. sender' \in [Senders -> Calls]
    BY <1>6, GoesOn DEF DeliverFails, Crash, Outcomes
  <2> QED
    BY <1>6, <2>2, <2>3 DEF DeliverFails, Crash, Typed, world
<1>7. ASSUME NEW p \in Senders, Finish(p) PROVE Typed'
  <2> DEFINE k == sender[p].key
             result == sender[p].result
             status == CASE result = "delivered" -> "delivered"
                         [] result = "rejected" -> "failed"
                         [] OTHER -> "pending"
             failure == IF result = "delivered" THEN "none" ELSE result
             m == [followUp[k] EXCEPT !.status = status, !.failure = failure]
  <2>1. k \in Keys /\ result \in Outcomes
    BY <1>7, CallFields DEF Finish, Numbered, At
  <2>2. status \in {"pending", "delivered", "failed"} /\ failure \in Failures
    BY <2>1 DEF Outcomes, Failures
  <2> HIDE DEF status, failure
  <2>3. m \in Messages(followUp[k].sequence)
    BY <2>1, <2>2, MessageValues
  <2>4. m.sequence = followUp[k].sequence
    BY <2>3 DEF Messages
  <2>5. CASE UNCHANGED followUp
    BY <1>7, <2>5, GoesOn DEF Finish, Typed, world
  <2>6. CASE followUp' = [followUp EXCEPT ![k].status = status, ![k].failure = failure]
    <3>1. followUp' = [followUp EXCEPT ![k] = m]
      BY <2>1, <2>6
    <3>2. DOMAIN followUp' = Keys /\ \A j \in Keys : followUp'[j] \in Messages(followUp'[j].sequence)
      BY <2>1, <2>3, <2>4, <3>1, MessageStep
    <3> QED
      BY <1>7, <3>2, GoesOn DEF Finish, Typed, world
  <2> QED
    BY <1>7, <2>5, <2>6 DEF Finish, status, failure
<1>8. ASSUME NEW k \in Keys, Lapse(k) PROVE Typed'
  <2> DEFINE m == [followUp[k] EXCEPT !.lapsed = followUp[k].attempts]
  <2>1. followUp' = [followUp EXCEPT ![k] = m]
    BY <1>8 DEF Lapse
  <2>2. m \in Messages(followUp[k].sequence)
    BY MessageValues
  <2>3. m.sequence = followUp[k].sequence
    BY <2>2 DEF Messages
  <2>4. DOMAIN followUp' = Keys /\ \A j \in Keys : followUp'[j] \in Messages(followUp'[j].sequence)
    BY <2>1, <2>2, <2>3, MessageStep
  <2> QED
    BY <1>8, <2>4 DEF Lapse, Typed, world
<1>9. ASSUME NEW k \in Keys, AcceptLate(k) PROVE Typed'
  <2>1. transcript' \in [Sessions -> Seq(Keys)]
    BY <1>9, Appended DEF AcceptLate
  <2> QED
    BY <1>9, <2>1 DEF AcceptLate, Typed, world
<1>10. ASSUME NEW s \in Sessions, Rebind(s) \/ End(s) \/ Refresh(s) PROVE Typed'
  <2>0. ASSUME binding' \in [Sessions -> Bindings] PROVE Typed'
    BY <1>10, <2>0 DEF Rebind, End, Refresh, Typed
  <2>1. binding[s] \in Bindings
    OBVIOUS
  <2>2. /\ binding[s].generation + 1 \in Nat /\ binding[s].row + 1 \in Nat
        /\ binding[s].checkout + 1 \in Nat
    BY <2>1 DEF Bindings
  <2>3. CASE Rebind(s)
    <3> DEFINE b == binding[s]
               over == [b EXCEPT !.generation = b.generation + 1]
               again == [b EXCEPT !.current = TRUE, !.row = b.row + 1, !.generation = 1]
    <3>1. over \in Bindings
      BY <2>1, <2>2 DEF Bindings
    <3>2. again \in Bindings
      BY <2>1, <2>2 DEF Bindings
    <3>3. binding' = [binding EXCEPT ![s] = IF b.current THEN over ELSE again]
      BY <2>3 DEF Rebind
    <3> HIDE DEF over, again
    <3> QED
      BY <2>0, <3>1, <3>2, <3>3
  <2>4. CASE End(s)
    <3>1. [binding[s] EXCEPT !.current = FALSE] \in Bindings
      BY <2>1 DEF Bindings
    <3> QED
      BY <2>0, <2>4, <3>1 DEF End
  <2>5. CASE Refresh(s)
    <3>1. [binding[s] EXCEPT !.checkout = binding[s].checkout + 1] \in Bindings
      BY <2>1, <2>2 DEF Bindings
    <3> QED
      BY <2>0, <2>5, <3>1 DEF Refresh
  <2> QED
    BY <1>10, <2>0, <2>3, <2>4, <2>5
<1>11. ASSUME NEW s \in Sessions, NEW status \in {"active", "idle"}, Observe(s, status) PROVE Typed'
  BY <1>11 DEF Observe, Typed
<1>12. CASE UNCHANGED vars
  BY <1>12 DEF vars, Typed
<1> QED
  BY <1>1, <1>2, <1>3, <1>4, <1>5, <1>6, <1>7, <1>8, <1>9, <1>10, <1>11, <1>12
     DEF Next, Call, Environment

-----------------------------------------------------------------------------
(* Steps that change a message.                                            *)

\* Messages and transcripts that stay.
LEMMA SameTranscripts ==
  ASSUME UNCHANGED <<transcript, loose>>, NEW k
  PROVE  /\ Given(k)' <=> Given(k)
         /\ Accepted(k)' <=> Accepted(k)
         /\ OnceOnly(k)' <=> OnceOnly(k)
<1>1. Accepted(k)' <=> Accepted(k)
  BY DEF Accepted
<1>2. OnceOnly(k)' <=> OnceOnly(k)
  BY DEF OnceOnly
<1> QED
  BY <1>1, <1>2 DEF Given

\* A message whose row stays.
LEMMA SameRow ==
  ASSUME UNCHANGED tool, NEW k, followUp'[k] = followUp[k]
  PROVE  (Sound(k)' <=> Sound(k)) /\ (Overdue(k)' <=> Overdue(k))
BY DEF Sound, Overdue

\* A call that stays.
LEMMA SameCall ==
  ASSUME NEW p, sender'[p] = sender[p]
  PROVE  Works(p)' <=> Works(p)
BY DEF Works

\* Call p takes up an attempt of message k, or stops, and nothing else changes.
RowChange(k, p) ==
  /\ \A j \in Keys \ {k} : followUp'[j] = followUp[j]
  /\ \A q \in Senders \ {p} : sender'[q] = sender[q]
  /\ sender'[p].pc # "idle" => sender'[p].key \in Keys
  /\ followUp'[k].lapsed <= followUp'[k].attempts
  /\ followUp'[k].status = "absent" => followUp'[k].attempts = 0
  /\ followUp'[k].status = "leased" => followUp'[k].attempts > 0
  /\ followUp'[k].attempts = 0 => followUp[k].attempts = 0
  /\ followUp[k].attempts <= followUp'[k].attempts
  /\ Sound(k)' => Sound(k)
  /\ Sound(k) => \A q \in Senders \ {p} : ~(Works(q) /\ sender[q].key = k)
  /\ followUp'[k].lapsed # followUp'[k].attempts \/ followUp'[k].status # "leased"
  /\ Sound(k) /\ k \in loose /\ followUp'[k].status = "pending" =>
       followUp'[k].failure = "uncertain"
  /\ Works(p)' =>
       /\ sender'[p].pc \in {"reconcile", "deliver"} /\ sender'[p].result = "none"
       /\ sender'[p].key = k /\ sender'[p].attempt = followUp'[k].attempts
       /\ followUp'[k].attempts > followUp[k].attempts /\ followUp'[k].status = "leased"
       /\ Sound(k) /\ sender'[p].pc = "deliver" => ~Given(k)
       /\ Sound(k) /\ k \in loose => sender'[p].previous = "uncertain"

\* Such a change keeps the invariant.
LEMMA RowStep ==
  ASSUME DeliveryInv, Typed', UNCHANGED <<tool, transcript, loose>>, NEW k \in Keys,
         NEW p \in Senders, RowChange(k, p)
  PROVE  Counted' /\ Numbered' /\ Held' /\ Fresh' /\ Single'
<1>1. /\ \A j \in Keys \ {k} : followUp'[j] = followUp[j]
      /\ \A q \in Senders \ {p} : sender'[q] = sender[q]
  BY DEF RowChange
<1>2. /\ \A j \in Keys : followUp[j].attempts \in Nat /\ followUp[j].lapsed \in Nat
      /\ \A q \in Senders : sender[q].attempt \in Nat
      /\ followUp'[k].attempts \in Nat /\ followUp'[k].lapsed \in Nat
  <2>1. \A j \in Keys : followUp[j].attempts \in Nat /\ followUp[j].lapsed \in Nat
    BY MessageFields DEF DeliveryInv
  <2>2. \A q \in Senders : sender[q].attempt \in Nat
    BY CallFields DEF DeliveryInv
  <2>3. followUp'[k] \in Messages(followUp'[k].sequence)
    BY DEF Typed
  <2>4. followUp'[k].attempts \in Nat /\ followUp'[k].lapsed \in Nat
    BY <2>3 DEF Messages
  <2> QED
    BY <2>1, <2>2, <2>4
<1>3. Counted'
  <2>1. ASSUME NEW j \in Keys
        PROVE  /\ followUp'[j].lapsed <= followUp'[j].attempts
               /\ followUp'[j].status = "absent" => followUp'[j].attempts = 0
               /\ followUp'[j].status = "leased" => followUp'[j].attempts > 0
               /\ followUp'[j].attempts = 0 => ~Given(j)'
    <3>1. followUp[j].attempts = 0 => ~Given(j)'
      BY SameTranscripts DEF DeliveryInv, Counted
    <3>2. CASE j = k
      BY <3>1, <3>2 DEF RowChange
    <3>3. CASE j # k
      BY <1>1, <3>1, <3>3 DEF DeliveryInv, Counted
    <3> QED
      BY <3>2, <3>3
  <2> QED
    BY <2>1 DEF DeliveryInv, Counted
<1>4. \A q \in Senders \ {p} : Works(q)' =>
        /\ sender[q].key \in Keys /\ sender'[q] = sender[q] /\ Works(q)
        /\ sender[q].attempt \in 1..followUp[sender[q].key].attempts
        /\ Sound(k) => sender[q].key # k
  BY <1>1 DEF DeliveryInv, Numbered, Works, At, RowChange
<1>5. Numbered'
  <2>1. \A q \in Senders :
          /\ sender'[q].pc # "idle" => sender'[q].key \in Keys
          /\ sender'[q].pc = "finish" => sender'[q].result # "none"
    BY <1>1 DEF DeliveryInv, Numbered, At, Works, RowChange
  <2>2. ASSUME NEW q \in Senders, Works(q)'
        PROVE  sender'[q].attempt \in 1..followUp'[sender'[q].key].attempts
    <3>1. CASE q = p
      BY <1>2, <2>2, <3>1 DEF RowChange
    <3>2. CASE q # p /\ sender[q].key = k
      BY <1>2, <1>4, <2>2, <3>2 DEF RowChange
    <3>3. CASE q # p /\ sender[q].key # k
      BY <1>1, <1>4, <2>2, <3>3
    <3> QED
      BY <3>1, <3>2, <3>3
  <2>3. ASSUME NEW q \in Senders, NEW r \in Senders, Works(q)', Works(r)',
               sender'[q].key = sender'[r].key, sender'[q].attempt = sender'[r].attempt
        PROVE  q = r
    <3>1. CASE q # p /\ r # p
      BY <1>4, <2>3, <3>1 DEF DeliveryInv, Numbered
    <3>2. ASSUME NEW t \in Senders \ {p}, Works(t)', Works(p)', sender'[t].key = sender'[p].key,
                 sender'[t].attempt = sender'[p].attempt
          PROVE  FALSE
      BY <1>2, <1>4, <3>2 DEF RowChange
    <3> QED
      BY <2>3, <3>1, <3>2
  <2> QED
    BY <2>1, <2>2, <2>3 DEF Numbered, At
<1>6. Held'
  <2>1. ASSUME NEW q \in Senders, Works(q)', Sound(sender[q].key)' PROVE HoldsLease(q)'
    <3>1. CASE q = p
      BY <2>1, <3>1 DEF HoldsLease, RowChange
    <3>2. CASE q # p
      <4>1. sender[q].key # k
        <5>1. ASSUME sender[q].key = k PROVE Sound(k)'
          BY <1>4, <2>1, <3>2, <5>1 DEF Sound
        <5> QED
          BY <1>4, <2>1, <3>2, <5>1 DEF RowChange
      <4>2. Sound(sender[q].key)
        BY <1>1, <1>4, <2>1, <3>2, <4>1 DEF Sound
      <4> QED
        BY <1>1, <1>4, <2>1, <3>2, <4>1, <4>2 DEF HoldsLease, DeliveryInv, Held
    <3> QED
      BY <3>1, <3>2
  <2>2. ASSUME NEW q \in Senders, NEW j \in Keys, tool'[Target[j]] = "codex", Overdue(j)',
               Works(q)', sender'[q].key = j
        PROVE  FALSE
    <3>1. j # k
      BY <2>2 DEF Overdue, RowChange
    <3>2. q # p
      BY <2>2, <3>1 DEF RowChange
    <3>3. Overdue(j)
      BY <1>1, <2>2, <3>1, SameRow
    <3> QED
      BY <1>4, <2>2, <3>2, <3>3 DEF DeliveryInv, Held
  <2> QED
    BY <2>1, <2>2 DEF Held
<1>7. Fresh'
  <2> SUFFICES ASSUME NEW q \in Senders, Works(q)', Sound(sender[q].key)'
               PROVE  /\ sender'[q].pc \in {"deliver", "sent"} \/ Defers(sender'[q])
                           => ~Given(sender[q].key)'
                      /\ sender'[q].pc = "accepted" => sender'[q].key \notin loose'
                      /\ sender'[q].pc = "reconcile" /\ sender'[q].key \in loose'
                           => sender'[q].previous = "uncertain"
    BY DEF Fresh, At
  <2>1. CASE q = p
    <3>1. sender'[q].key = k
      BY <2>1 DEF RowChange
    <3>2. Given(sender[q].key)' <=> Given(k)
      BY <3>1 DEF Given, Accepted
    <3>3. Sound(k)'
      BY <3>1 DEF Sound
    <3> QED
      BY <2>1, <3>1, <3>2, <3>3 DEF RowChange, Defers
  <2>2. CASE q # p
    <3>5. sender[q].key \in Keys /\ sender'[q] = sender[q] /\ Works(q)
      BY <1>4, <2>2
    <3>6. ASSUME sender[q].key = k PROVE FALSE
      <4>1. Sound(k)'
        BY <3>5, <3>6 DEF Sound
      <4> QED
        BY <1>4, <2>2, <3>6, <4>1 DEF RowChange
    <3>1. sender[q].key # k /\ sender[q].key \in Keys /\ sender'[q] = sender[q] /\ Works(q)
      BY <3>5, <3>6
    <3>2. Sound(sender[q].key)
      BY <1>1, <3>1 DEF Sound
    <3>3. /\ sender[q].pc \in {"deliver", "sent"} \/ Defers(sender[q])
               => ~Given(sender[q].key)
          /\ sender[q].pc = "accepted" => sender[q].key \notin loose
          /\ sender[q].pc = "reconcile" /\ sender[q].key \in loose
               => sender[q].previous = "uncertain"
      BY <3>1, <3>2 DEF DeliveryInv, Fresh, At
    <3>4. Given(sender[q].key)' <=> Given(sender[q].key)
      BY <3>1 DEF Given, Accepted
    <3> QED
      BY <3>1, <3>3, <3>4
  <2> QED
    BY <2>1, <2>2
<1>8. Single'
  <2>1. ASSUME NEW j \in Keys, Sound(j)'
        PROVE  /\ OnceOnly(j)'
               /\ j \in loose' => ~Accepted(j)'
               /\ j \in loose' /\ followUp'[j].status = "pending" => followUp'[j].failure = "uncertain"
    <3>1. Sound(j)
      <4>1. CASE j = k
        BY <2>1, <4>1 DEF RowChange
      <4>2. CASE j # k
        BY <1>1, <2>1, <4>2, SameRow
      <4> QED
        BY <4>1, <4>2
    <3>2. OnceOnly(j) /\ (j \in loose => ~Accepted(j))
      BY <3>1 DEF DeliveryInv, Single
    <3>3. OnceOnly(j)' /\ (j \in loose' => ~Accepted(j)')
      BY <3>2, SameTranscripts
    <3>4. j \in loose' /\ followUp'[j].status = "pending" => followUp'[j].failure = "uncertain"
      <4>1. CASE j = k
        BY <3>1, <4>1 DEF RowChange
      <4>2. CASE j # k
        BY <1>1, <3>1, <4>2 DEF DeliveryInv, Single
      <4> QED
        BY <4>1, <4>2
    <3> QED
      BY <3>3, <3>4
  <2> QED
    BY <2>1 DEF Single
<1> QED
  BY <1>3, <1>5, <1>6, <1>7, <1>8

\* Message k is handed over, or no longer waited for, and nothing else changes.
HandChange(k) ==
  /\ \A j \in Keys \ {k} :
       /\ Accepted(j)' <=> Accepted(j)
       /\ OnceOnly(j) => OnceOnly(j)'
       /\ j \in loose' <=> j \in loose
  /\ loose' \subseteq Keys
  /\ k \in loose' \/ Accepted(k)' => followUp[k].attempts > 0
  /\ k \in loose' => tool[Target[k]] = "claude"
  /\ Sound(k) =>
       /\ OnceOnly(k)'
       /\ k \in loose' => ~Accepted(k)'
       /\ k \in loose' /\ followUp[k].status = "pending" => followUp[k].failure = "uncertain"

\* The calls that work after it worked before, and those on k may go on.
CallsGoOn(k) ==
  /\ \A q \in Senders : sender'[q].pc # "idle" => sender'[q].key \in Keys
  /\ \A q \in Senders : Works(q)' =>
       /\ Works(q) /\ sender'[q].key = sender[q].key /\ sender'[q].attempt = sender[q].attempt
       /\ sender'[q].pc = "finish" => sender'[q].result # "none"
       /\ sender[q].key # k => sender'[q] = sender[q]
       /\ sender[q].key = k /\ Sound(k) =>
            /\ sender'[q].pc \in {"deliver", "sent"} \/ Defers(sender'[q])
                 => k \notin loose' /\ ~Accepted(k)'
            /\ sender'[q].pc = "accepted" => k \notin loose'
            /\ sender'[q].pc = "reconcile" /\ k \in loose'
                 => sender'[q].previous = "uncertain"

\* Such a change keeps the invariant.
LEMMA HandStep ==
  ASSUME DeliveryInv, UNCHANGED <<tool, followUp>>, NEW k \in Keys, HandChange(k), CallsGoOn(k)
  PROVE  Counted' /\ Numbered' /\ Held' /\ Fresh' /\ Single'
<1>1. ASSUME NEW j \in Keys \ {k}
      PROVE  /\ Accepted(j)' <=> Accepted(j)
             /\ OnceOnly(j) => OnceOnly(j)'
             /\ j \in loose' <=> j \in loose
             /\ Given(j)' <=> Given(j)
  <2>1. /\ Accepted(j)' <=> Accepted(j)
        /\ OnceOnly(j) => OnceOnly(j)'
        /\ j \in loose' <=> j \in loose
    BY DEF HandChange
  <2> QED
    BY <2>1 DEF Given
<1>2. \A q \in Senders : Works(q)' =>
        /\ sender[q].key \in Keys /\ Works(q) /\ sender'[q].key = sender[q].key
        /\ sender'[q].attempt = sender[q].attempt
  BY DEF DeliveryInv, Numbered, Works, At, CallsGoOn
<1>3. Counted'
  <2>1. ASSUME NEW j \in Keys, followUp[j].attempts = 0 PROVE ~Given(j)'
    <3>1. CASE j = k
      BY <2>1, <3>1, MessageFields DEF HandChange, Given
    <3>2. CASE j # k
      BY <1>1, <2>1, <3>2 DEF DeliveryInv, Counted
    <3> QED
      BY <3>1, <3>2
  <2>2. ASSUME NEW j \in loose' PROVE tool[Target[j]] = "claude"
    <3>1. j \in Keys
      BY DEF HandChange
    <3>2. CASE j = k
      BY <3>2 DEF HandChange
    <3>3. CASE j # k
      BY <1>1, <3>1, <3>3 DEF DeliveryInv, Counted
    <3> QED
      BY <3>2, <3>3
  <2> QED
    BY <2>1, <2>2 DEF DeliveryInv, Counted
<1>4. Numbered'
  <2>1. \A q \in Senders :
          /\ sender'[q].pc # "idle" => sender'[q].key \in Keys
          /\ sender'[q].pc = "finish" => sender'[q].result # "none"
    BY DEF Works, CallsGoOn
  <2>2. \A q \in Senders : Works(q)' => sender'[q].attempt \in 1..followUp'[sender'[q].key].attempts
    BY <1>2 DEF DeliveryInv, Numbered
  <2>3. \A q, r \in Senders :
          Works(q)' /\ Works(r)' /\ sender'[q].key = sender'[r].key
            /\ sender'[q].attempt = sender'[r].attempt => q = r
    BY <1>2 DEF DeliveryInv, Numbered
  <2> QED
    BY <2>1, <2>2, <2>3 DEF Numbered, At
<1>5. Held'
  <2>1. ASSUME NEW q \in Senders, Works(q)', Sound(sender[q].key)' PROVE HoldsLease(q)'
    <3>1. Sound(sender[q].key)
      BY <1>2, <2>1 DEF Sound
    <3> QED
      BY <1>2, <2>1, <3>1 DEF DeliveryInv, Held, HoldsLease
  <2>2. \A q \in Senders, j \in Keys :
          tool'[Target[j]] = "codex" /\ Overdue(j)' => ~(Works(q)' /\ sender'[q].key = j)
    BY <1>2, SameRow DEF DeliveryInv, Held
  <2> QED
    BY <2>1, <2>2 DEF Held
<1>6. Fresh'
  <2> SUFFICES ASSUME NEW q \in Senders, Works(q)', Sound(sender[q].key)'
               PROVE  /\ sender'[q].pc \in {"deliver", "sent"} \/ Defers(sender'[q])
                           => ~Given(sender[q].key)'
                      /\ sender'[q].pc = "accepted" => sender'[q].key \notin loose'
                      /\ sender'[q].pc = "reconcile" /\ sender'[q].key \in loose'
                           => sender'[q].previous = "uncertain"
    BY DEF Fresh, At
  <2>1. PICK j \in Keys : sender'[q].key = j /\ sender[q].key = j /\ Works(q)
    BY <1>2
  <2>2. Sound(j) /\ Sound(sender[q].key)
    BY <2>1 DEF Sound
  <2>5. Given(sender[q].key)' <=> j \in loose' \/ Accepted(j)'
    BY <2>1 DEF Given, Accepted
  <2>3. CASE j = k
    BY <2>1, <2>2, <2>3, <2>5 DEF CallsGoOn
  <2>4. CASE j # k
    <3>1. sender'[q] = sender[q]
      BY <2>1, <2>4 DEF CallsGoOn
    <3>2. /\ sender[q].pc \in {"deliver", "sent"} \/ Defers(sender[q])
               => ~Given(j)
          /\ sender[q].pc = "accepted" => j \notin loose
          /\ sender[q].pc = "reconcile" /\ j \in loose
               => sender[q].previous = "uncertain"
      BY <2>1, <2>2 DEF DeliveryInv, Fresh, At
    <3>3. (Accepted(j)' <=> Accepted(j)) /\ (j \in loose' <=> j \in loose)
      BY <1>1, <2>4
    <3> QED
      BY <2>1, <2>5, <3>1, <3>2, <3>3 DEF Given
  <2> QED
    BY <2>3, <2>4
<1>7. Single'
  <2>1. ASSUME NEW j \in Keys, Sound(j)'
        PROVE  /\ OnceOnly(j)'
               /\ j \in loose' => ~Accepted(j)'
               /\ j \in loose' /\ followUp'[j].status = "pending" => followUp'[j].failure = "uncertain"
    <3>1. Sound(j)
      BY <2>1 DEF Sound
    <3>2. CASE j = k
      BY <3>1, <3>2 DEF HandChange
    <3>3. CASE j # k
      BY <1>1, <3>1, <3>3 DEF DeliveryInv, Single
    <3> QED
      BY <3>2, <3>3
  <2> QED
    BY <2>1 DEF Single
<1> QED
  BY <1>3, <1>4, <1>5, <1>6, <1>7

-----------------------------------------------------------------------------
(* The actions.                                                            *)

\* A call that begins works on nothing yet.
LEMMA SendStep ==
  ASSUME DeliveryInv, NEW p \in Senders, NEW k \in Keys, Send(p, k)
  PROVE  Counted' /\ Numbered' /\ Held' /\ Fresh' /\ Single'
<1>1. UNCHANGED <<tool, followUp, transcript, loose>>
  BY DEF Send, world
<1>2. sender \in [Senders -> Calls]
  BY DEF DeliveryInv, Typed
<1>3. /\ \A q \in Senders \ {p} : sender'[q] = sender[q]
      /\ sender'[p].key = k /\ sender'[p].pc \in {"insert", "lease"}
  <2>1. CASE sender' = [sender EXCEPT ![p] = [NoCall EXCEPT !.pc = "lease", !.key = k]]
    BY <1>2, <2>1 DEF NoCall
  <2>2. CASE sender' = [sender EXCEPT ![p] =
               [NoCall EXCEPT !.pc = "insert", !.key = k, !.seen = binding[Target[k]],
                              !.created = sends + 1]]
    BY <1>2, <2>2 DEF NoCall
  <2> QED
    BY <2>1, <2>2 DEF Send
<1>4. ~Works(p)'
  BY <1>3 DEF Works
<1> QED
  BY <1>1, <1>3, <1>4, CallStep

\* A call returns, or goes on to lease a message.
LEMMA StopStep ==
  ASSUME DeliveryInv, NEW p \in Senders, UNCHANGED <<tool, followUp, transcript, loose>>,
         Return(p) \/ (Goto(p, "lease") /\ ~At(p, "idle"))
  PROVE  Counted' /\ Numbered' /\ Held' /\ Fresh' /\ Single'
<1>1. /\ \A q \in Senders \ {p} : sender'[q] = sender[q]
      /\ sender'[p].pc \in {"idle", "lease"}
      /\ sender'[p].pc # "idle" => sender'[p].key = sender[p].key /\ ~At(p, "idle")
  BY GoesOn DEF DeliveryInv
<1>2. sender'[p].pc # "idle" => sender'[p].key \in Keys
  BY <1>1 DEF DeliveryInv, Numbered
<1>3. ~Works(p)'
  BY <1>1 DEF Works
<1> QED
  BY <1>1, <1>2, <1>3, CallStep

\* A message that is queued was never leased.
LEMMA InsertStep ==
  ASSUME DeliveryInv, Typed', NEW p \in Senders, Insert(p)
  PROVE  Counted' /\ Numbered' /\ Held' /\ Fresh' /\ Single'
<1>0. sender[p].key \in Keys /\ UNCHANGED <<tool, transcript, loose>>
  BY DEF Insert, DeliveryInv, Numbered, At, world
<1>1. PICK k \in Keys : sender[p].key = k
  BY <1>0
<1>2. CASE UNCHANGED followUp /\ Return(p)
  BY <1>0, <1>2, StopStep
<1>3. ASSUME NEW n, followUp[k].status = "absent", Goto(p, "lease"),
             followUp' = [followUp EXCEPT ![k] =
               [NoMessage EXCEPT !.status = "pending", !.binding = sender[p].seen,
                                 !.created = sender[p].created, !.sequence = n]]
      PROVE  Counted' /\ Numbered' /\ Held' /\ Fresh' /\ Single'
  <2>1. /\ followUp'[k].status = "pending" /\ followUp'[k].attempts = 0 /\ followUp'[k].lapsed = 0
        /\ \A j \in Keys \ {k} : followUp'[j] = followUp[j]
    BY <1>1, <1>3 DEF NoMessage, DeliveryInv, Typed
  <2>2. followUp[k].attempts = 0 /\ followUp[k].lapsed = 0 /\ ~Given(k)
    BY <1>1, <1>3, MessageFields DEF DeliveryInv, Counted
  <2>3. \A q \in Senders : ~(Works(q) /\ sender[q].key = k)
    BY <2>2 DEF DeliveryInv, Numbered
  <2>4. /\ \A q \in Senders \ {p} : sender'[q] = sender[q]
        /\ sender'[p].pc = "lease" /\ sender'[p].key = k
    BY <1>1, <1>3, GoesOn DEF DeliveryInv
  <2>5. ~Works(p)'
    BY <2>4 DEF Works
  <2>6. RowChange(k, p)
    BY <1>1, <2>1, <2>2, <2>3, <2>4, <2>5 DEF RowChange, Sound, Given
  <2> QED
    BY <1>0, <2>6, RowStep
<1> QED
  BY <1>1, <1>2, <1>3 DEF Insert

\* A message that is leased, or given up, has no other call that works on it.
LEMMA LeaseStep ==
  ASSUME DeliveryInv, Typed', NEW p \in Senders, Lease(p)
  PROVE  Counted' /\ Numbered' /\ Held' /\ Fresh' /\ Single'
<1> DEFINE s == Target[sender[p].key]
<1>1. UNCHANGED <<tool, transcript, loose>> /\ ~Works(p)
  BY DEF Lease, world, At, Works
<1>2. CASE UNCHANGED followUp /\ Return(p)
  BY <1>1, <1>2, StopStep
<1>3. ASSUME NEW k \in First(s)
      PROVE  /\ k \in Keys /\ Deliverable(k)
             /\ followUp[k].attempts \in Nat /\ followUp[k].lapsed \in Nat
             /\ followUp[k].lapsed <= followUp[k].attempts
             /\ followUp[k].status \in {"pending", "leased"}
             /\ followUp[k] \in Messages(followUp[k].sequence)
             /\ Sound(k) => \A q \in Senders : ~(Works(q) /\ sender[q].key = k)
  <2>1. k \in Keys /\ Deliverable(k)
    BY <1>3 DEF First
  <2>2. followUp[k].status \in {"pending", "leased"}
    BY <2>1 DEF Deliverable, Overdue
  <2>3. /\ followUp[k].attempts \in Nat /\ followUp[k].lapsed \in Nat
        /\ followUp[k].lapsed <= followUp[k].attempts
        /\ followUp[k] \in Messages(followUp[k].sequence)
    BY <2>1, MessageFields DEF DeliveryInv, Counted, Typed
  <2> QED
    BY <2>1, <2>2, <2>3, NobodyWorks
<1>4. ASSUME NEW k \in First(s), Return(p),
             followUp' = [followUp EXCEPT ![k].status = "failed", ![k].failure = "changed"]
      PROVE  Counted' /\ Numbered' /\ Held' /\ Fresh' /\ Single'
  <2>0. /\ followUp'[k] = [followUp[k] EXCEPT !.status = "failed", !.failure = "changed"]
        /\ \A j \in Keys \ {k} : followUp'[j] = followUp[j]
    BY <1>3, <1>4 DEF DeliveryInv, Typed
  <2>1. /\ followUp'[k].status = "failed" /\ followUp'[k].attempts = followUp[k].attempts
        /\ followUp'[k].lapsed = followUp[k].lapsed
    BY <1>3, <2>0 DEF Messages
  <2>2. /\ \A q \in Senders \ {p} : sender'[q] = sender[q]
        /\ sender'[p].pc = "idle"
    BY <1>4, GoesOn DEF DeliveryInv
  <2>3. ~Works(p)'
    BY <2>2 DEF Works
  <2>4. Sound(k)' => Sound(k)
    BY <1>1, <2>1 DEF Sound
  <2>5. RowChange(k, p)
    BY <1>3, <2>0, <2>1, <2>2, <2>3, <2>4 DEF RowChange
  <2> QED
    BY <1>1, <1>3, <2>5, RowStep
<1>5. ASSUME NEW k \in First(s),
             followUp' = [followUp EXCEPT ![k].status = "leased", ![k].attempts = @ + 1],
             sender' = [sender EXCEPT ![p] =
               [NoCall EXCEPT !.pc = IF followUp[k].attempts > 0 THEN "reconcile" ELSE "deliver",
                              !.key = k, !.attempt = followUp[k].attempts + 1,
                              !.previous = followUp[k].failure,
                              !.active = live[s].status = "active"]]
      PROVE  Counted' /\ Numbered' /\ Held' /\ Fresh' /\ Single'
  <2>0. /\ followUp'[k] = [followUp[k] EXCEPT !.status = "leased", !.attempts = @ + 1]
        /\ \A j \in Keys \ {k} : followUp'[j] = followUp[j]
    BY <1>3, <1>5 DEF DeliveryInv, Typed
  <2>1. /\ followUp'[k].status = "leased" /\ followUp'[k].attempts = followUp[k].attempts + 1
        /\ followUp'[k].lapsed = followUp[k].lapsed
    BY <1>3, <2>0 DEF Messages
  <2>2. /\ \A q \in Senders \ {p} : sender'[q] = sender[q]
        /\ sender'[p].pc = IF followUp[k].attempts > 0 THEN "reconcile" ELSE "deliver"
        /\ sender'[p].key = k /\ sender'[p].attempt = followUp[k].attempts + 1
        /\ sender'[p].previous = followUp[k].failure /\ sender'[p].result = "none"
    BY <1>5 DEF NoCall, DeliveryInv, Typed
  <2>3. Sound(k)' => Sound(k)
    BY <1>1, <2>1 DEF Sound
  <2>4. sender'[p].pc = "deliver" => ~Given(k)
    BY <1>3, <2>2 DEF DeliveryInv, Counted
  <2>5. ASSUME Sound(k), k \in loose PROVE followUp[k].failure = "uncertain"
    <3>1. tool[Target[k]] # "codex" /\ followUp[k].lapsed = 0
      BY <2>5 DEF DeliveryInv, Counted, Sound
    <3>2. followUp[k].status = "leased" => followUp[k].attempts > 0
      BY <1>3 DEF DeliveryInv, Counted
    <3>3. followUp[k].status = "pending"
      BY <1>3, <3>1, <3>2 DEF Deliverable, Overdue
    <3> QED
      BY <1>3, <2>5, <3>3 DEF DeliveryInv, Single
  <2>6. RowChange(k, p)
    BY <1>3, <2>0, <2>1, <2>2, <2>3, <2>4, <2>5 DEF RowChange
  <2> QED
    BY <1>1, <1>3, <2>6, RowStep
<1> QED
  BY <1>2, <1>4, <1>5 DEF Lease

\* What an attempt that goes on knows of its message.
LEMMA AtWork ==
  ASSUME DeliveryInv, NEW p \in Senders, Works(p)
  PROVE  /\ sender[p].key \in Keys
         /\ followUp[sender[p].key].attempts > 0
         /\ Sound(sender[p].key) =>
              /\ followUp[sender[p].key].status = "leased"
              /\ sender[p].pc \in {"deliver", "sent"} \/ Defers(sender[p])
                   => ~Given(sender[p].key)
              /\ sender[p].pc = "accepted" => sender[p].key \notin loose
              /\ sender[p].pc = "reconcile" /\ sender[p].key \in loose
                   => sender[p].previous = "uncertain"
              /\ \A q \in Senders \ {p} : ~(Works(q) /\ sender[q].key = sender[p].key)
<1>1. sender[p].key \in Keys
  BY DEF DeliveryInv, Numbered, Works, At
<1>2. followUp[sender[p].key].attempts > 0
  <2>1. sender[p].attempt \in 1..followUp[sender[p].key].attempts
    BY DEF DeliveryInv, Numbered
  <2> QED
    BY <1>1, <2>1, MessageFields DEF DeliveryInv
<1>3. ASSUME Sound(sender[p].key)
      PROVE  /\ followUp[sender[p].key].status = "leased"
             /\ sender[p].pc \in {"deliver", "sent"} \/ Defers(sender[p])
                  => ~Given(sender[p].key)
             /\ sender[p].pc = "accepted" => sender[p].key \notin loose
             /\ sender[p].pc = "reconcile" /\ sender[p].key \in loose
                  => sender[p].previous = "uncertain"
  BY <1>3 DEF DeliveryInv, Held, HoldsLease, Fresh, At
<1>4. ASSUME Sound(sender[p].key), NEW q \in Senders \ {p}, Works(q), sender[q].key = sender[p].key
      PROVE  FALSE
  BY <1>4, OneWorks
<1> QED
  BY <1>1, <1>2, <1>3, <1>4

\* What was not found was not accepted.
LEMMA NotFound ==
  ASSUME NEW k, ~Found(k)
  PROVE  ~Accepted(k)
BY DEF Found, Accepted

\* An attempt that was found, or was not and is not repeated blindly, goes on.
LEMMA ReconcileStep ==
  ASSUME DeliveryInv, NEW p \in Senders,
         Reconcile(p) \/ ReconcileFails(p) \/ Deliver(p) \/ Acknowledge(p)
  PROVE  Counted' /\ Numbered' /\ Held' /\ Fresh' /\ Single'
<1> DEFINE k == sender[p].key
<1>1. /\ UNCHANGED <<tool, followUp, transcript, loose>>
      /\ Works(p) /\ sender[p].pc \in {"reconcile", "deliver", "accepted"}
  BY DEF Reconcile, ReconcileFails, Deliver, Acknowledge, world, Works, At
<1>2. ASSUME NEW result \in {"delivered", "rejected", "uncertain"}, Result(p, result)
      PROVE  Counted' /\ Numbered' /\ Held' /\ Fresh' /\ Single'
  <2>1. /\ \A q \in Senders \ {p} : sender'[q] = sender[q]
        /\ sender'[p].pc = "finish" /\ sender'[p].key = sender[p].key
        /\ sender'[p].attempt = sender[p].attempt /\ sender'[p].result = result
    BY <1>2, GoesOn DEF Outcomes, DeliveryInv
  <2> QED
    BY <1>1, <1>2, <2>1, AtWork, CallStep DEF Defers
<1>3. ASSUME NEW pc \in {"deliver", "sent"}, Goto(p, pc), Sound(k) => ~Given(k)
      PROVE  Counted' /\ Numbered' /\ Held' /\ Fresh' /\ Single'
  <2>1. /\ \A q \in Senders \ {p} : sender'[q] = sender[q]
        /\ sender'[p].pc = pc /\ sender'[p].key = sender[p].key
        /\ sender'[p].attempt = sender[p].attempt /\ sender'[p].result = sender[p].result
    BY <1>3, GoesOn DEF DeliveryInv
  <2> QED
    BY <1>1, <1>3, <2>1, AtWork, CallStep
<1>4. CASE Reconcile(p)
  <2>1. CASE Found(k) \/ sender[p].previous = "uncertain"
    BY <1>2, <1>4, <2>1 DEF Reconcile, AfterMiss
  <2>2. CASE ~Found(k) /\ sender[p].previous # "uncertain"
    <3>1. Sound(k) => ~Given(k)
      BY <1>1, <1>4, <2>2, NotFound, AtWork DEF Given, Reconcile, At
    <3> QED
      BY <1>3, <1>4, <2>2, <3>1 DEF Reconcile, AfterMiss
  <2> QED
    BY <2>1, <2>2
<1>5. CASE ReconcileFails(p)
  BY <1>2, <1>5 DEF ReconcileFails
<1>6. CASE Deliver(p)
  <2>1. Sound(k) => ~Given(k)
    BY <1>1, <1>6, AtWork DEF Deliver, At
  <2>2. CASE Result(p, "deferred")
    <3>1. /\ \A q \in Senders \ {p} : sender'[q] = sender[q]
          /\ sender'[p].pc = "finish" /\ sender'[p].key = sender[p].key
          /\ sender'[p].attempt = sender[p].attempt /\ sender'[p].result = "deferred"
      BY <2>2, GoesOn DEF Outcomes, DeliveryInv
    <3> QED
      BY <1>1, <2>1, <3>1, AtWork, CallStep
  <2> QED
    BY <1>3, <1>6, <2>1, <2>2 DEF Deliver
<1>7. CASE Acknowledge(p)
  BY <1>2, <1>7 DEF Acknowledge
<1> QED
  BY <1>4, <1>5, <1>6, <1>7

\* The session accepts a message that was never handed over.
LEMMA AcceptStep ==
  ASSUME DeliveryInv, NEW p \in Senders, Accept(p)
  PROVE  Counted' /\ Numbered' /\ Held' /\ Fresh' /\ Single'
<1>0. Works(p) /\ sender[p].pc = "sent" /\ sender[p].key \in Keys
  BY AtWork DEF Accept, Works, At
<1>1. PICK k \in Keys : sender[p].key = k
  BY <1>0
<1>2. /\ UNCHANGED <<tool, followUp, loose>> /\ Append1(k)
      /\ followUp[k].attempts > 0 /\ (Sound(k) => ~Given(k))
  BY <1>0, <1>1, AtWork DEF Accept, world
<1>3. /\ \A q \in Senders \ {p} : sender'[q] = sender[q]
      /\ sender'[p].pc = "accepted" /\ sender'[p].key = k
      /\ sender'[p].attempt = sender[p].attempt
  BY <1>1, GoesOn DEF Accept, DeliveryInv
<1>4. HandChange(k)
  <2>1. \A j \in Keys \ {k} :
          /\ Accepted(j)' <=> Accepted(j)
          /\ OnceOnly(j) => OnceOnly(j)'
          /\ j \in loose' <=> j \in loose
    BY <1>1, <1>2, Appended DEF DeliveryInv
  <2>2. Sound(k) => k \notin loose /\ ~Accepted(k)
    BY <1>2 DEF Given
  <2>3. ~Accepted(k) => OnceOnly(k)'
    BY <1>2, Appended DEF DeliveryInv
  <2>4. loose' \subseteq Keys /\ (k \in loose' => tool[Target[k]] = "claude")
    BY <1>2 DEF DeliveryInv, Typed, Counted
  <2> QED
    BY <1>2, <2>1, <2>2, <2>3, <2>4 DEF HandChange
<1>5. CallsGoOn(k)
  <2>1. \A q \in Senders : sender'[q].pc # "idle" => sender'[q].key \in Keys
    BY <1>3 DEF DeliveryInv, Numbered, At
  <2>2. ASSUME NEW q \in Senders, Works(q)', q # p
        PROVE  /\ Works(q) /\ sender'[q] = sender[q]
               /\ sender'[q].pc = "finish" => sender'[q].result # "none"
               /\ ~(sender[q].key = k /\ Sound(k))
    BY <1>0, <1>1, <1>3, <2>2, AtWork DEF Works, DeliveryInv, Numbered, At
  <2>3. ~Defers(sender'[p]) /\ (Sound(k) => k \notin loose')
    BY <1>2, <1>3 DEF Given, Defers
  <2> QED
    BY <1>0, <1>1, <1>3, <2>1, <2>2, <2>3 DEF CallsGoOn
<1> QED
  BY <1>2, <1>4, <1>5, HandStep

\* An attempt that fails, or a call that crashes, may leave a process that runs on.
LEMMA FailStep ==
  ASSUME DeliveryInv, NEW p \in Senders, DeliverFails(p) \/ Crash(p)
  PROVE  Counted' /\ Numbered' /\ Held' /\ Fresh' /\ Single'
<1>0. UNCHANGED <<tool, followUp, transcript>> /\ sender[p].key \in Keys
  BY DEF DeliverFails, Crash, world, DeliveryInv, Numbered, At
<1>1. PICK k \in Keys : sender[p].key = k
  BY <1>0
<1>2. \/ UNCHANGED loose
      \/ /\ loose' = loose \cup {k} /\ tool[Target[k]] = "claude"
         /\ Works(p) /\ sender[p].pc = "sent"
  BY <1>1 DEF DeliverFails, Crash, Orphan, At, Works
<1>3. /\ \A q \in Senders \ {p} : sender'[q] = sender[q]
      /\ \/ sender'[p].pc = "idle"
         \/ /\ Works(p) /\ sender'[p].pc = "finish" /\ sender'[p].key = k
            /\ sender'[p].attempt = sender[p].attempt
            /\ sender'[p].result \in {"uncertain", "rejected"}
  <2>1. CASE Return(p)
    BY <2>1, GoesOn DEF DeliveryInv
  <2>2. ASSUME NEW result \in {"uncertain", "rejected"}, Result(p, result), DeliverFails(p)
        PROVE  /\ \A q \in Senders \ {p} : sender'[q] = sender[q]
               /\ Works(p) /\ sender'[p].pc = "finish" /\ sender'[p].key = k
               /\ sender'[p].attempt = sender[p].attempt
               /\ sender'[p].result \in {"uncertain", "rejected"}
    <3>1. Works(p)
      BY <2>2 DEF DeliverFails, Works, At
    <3>2. result \in Outcomes
      BY DEF Outcomes
    <3> QED
      BY <1>1, <2>2, <3>1, <3>2, GoesOn DEF DeliveryInv
  <2> QED
    BY <2>1, <2>2 DEF DeliverFails, Crash
<1>4. Works(p) =>
        /\ followUp[k].attempts > 0
        /\ Sound(k) =>
             /\ followUp[k].status = "leased"
             /\ sender[p].pc = "sent" => ~Given(k)
             /\ \A q \in Senders \ {p} : ~(Works(q) /\ sender[q].key = k)
  BY <1>1, AtWork
<1>5. (Accepted(k)' <=> Accepted(k)) /\ (OnceOnly(k)' <=> OnceOnly(k))
  BY <1>0 DEF Accepted, OnceOnly
<1>6. HandChange(k)
  <2>1. ASSUME NEW j \in Keys \ {k}
        PROVE  /\ Accepted(j)' <=> Accepted(j)
               /\ OnceOnly(j) => OnceOnly(j)'
               /\ j \in loose' <=> j \in loose
    <3>1. (Accepted(j)' <=> Accepted(j)) /\ (OnceOnly(j)' <=> OnceOnly(j))
      BY <1>0 DEF Accepted, OnceOnly
    <3> QED
      BY <1>2, <3>1
  <2>2. loose' \subseteq Keys /\ (k \in loose' => tool[Target[k]] = "claude")
    BY <1>2 DEF DeliveryInv, Typed, Counted
  <2>3. k \in loose' \/ Accepted(k)' => followUp[k].attempts > 0
    <3>1. k \in loose \/ Accepted(k) => followUp[k].attempts # 0
      BY DEF DeliveryInv, Counted, Given
    <3> QED
      BY <1>2, <1>4, <1>5, <3>1, MessageFields DEF DeliveryInv
  <2>4. ASSUME Sound(k)
        PROVE  /\ OnceOnly(k)' /\ (k \in loose' => ~Accepted(k)')
               /\ k \in loose' /\ followUp[k].status = "pending" => followUp[k].failure = "uncertain"
    <3>1. /\ OnceOnly(k) /\ (k \in loose => ~Accepted(k))
          /\ k \in loose /\ followUp[k].status = "pending" => followUp[k].failure = "uncertain"
      BY <2>4 DEF DeliveryInv, Single
    <3> QED
      BY <1>2, <1>4, <1>5, <2>4, <3>1 DEF Given
  <2> QED
    BY <2>1, <2>2, <2>3, <2>4 DEF HandChange
<1>7. CallsGoOn(k)
  <2>1. \A q \in Senders : sender'[q].pc # "idle" => sender'[q].key \in Keys
    BY <1>3 DEF DeliveryInv, Numbered, At
  <2>2. ASSUME NEW q \in Senders, Works(q)'
        PROVE  /\ Works(q) /\ sender'[q].key = sender[q].key
               /\ sender'[q].attempt = sender[q].attempt
               /\ sender'[q].pc = "finish" => sender'[q].result # "none"
               /\ sender[q].key # k => sender'[q] = sender[q]
    <3>1. CASE q = p
      BY <1>1, <1>3, <2>2, <3>1 DEF Works
    <3>2. CASE q # p
      BY <1>3, <2>2, <3>2 DEF Works, DeliveryInv, Numbered, At
    <3> QED
      BY <3>1, <3>2
  <2>3. ASSUME NEW q \in Senders, Works(q)', sender[q].key = k, Sound(k)
        PROVE  /\ sender'[q].pc \in {"deliver", "sent"} \/ Defers(sender'[q])
                    => k \notin loose' /\ ~Accepted(k)'
               /\ sender'[q].pc = "accepted" => k \notin loose'
               /\ sender'[q].pc = "reconcile" /\ k \in loose' => sender'[q].previous = "uncertain"
    <3>1. CASE q = p
      BY <1>3, <2>3, <3>1 DEF Works, Defers
    <3>2. CASE q # p
      <4>1. sender'[q] = sender[q] /\ Works(q)
        BY <1>3, <2>2, <2>3, <3>2
      <4>2. UNCHANGED loose
        BY <1>2, <1>4, <2>3, <3>2, <4>1
      <4>3. /\ sender[q].pc \in {"deliver", "sent"} \/ Defers(sender[q]) => ~Given(k)
            /\ sender[q].pc = "accepted" => k \notin loose
            /\ sender[q].pc = "reconcile" /\ k \in loose => sender[q].previous = "uncertain"
        BY <2>3, <4>1, AtWork
      <4> QED
        BY <1>5, <4>1, <4>2, <4>3 DEF Given
    <3> QED
      BY <3>1, <3>2
  <2> QED
    BY <2>1, <2>2, <2>3 DEF CallsGoOn
<1> QED
  BY <1>0, <1>6, <1>7, HandStep

\* A process that ran on hands its message over, or ends.
LEMMA LateStep ==
  ASSUME DeliveryInv, NEW k \in Keys, AcceptLate(k)
  PROVE  Counted' /\ Numbered' /\ Held' /\ Fresh' /\ Single'
<1>1. /\ UNCHANGED <<tool, followUp, sender>> /\ k \in loose /\ loose' = loose \ {k}
      /\ followUp[k].attempts > 0 /\ loose \subseteq Keys
  <2>1. k \in loose /\ UNCHANGED <<tool, followUp, sender>> /\ loose' = loose \ {k}
    BY DEF AcceptLate, world
  <2>2. followUp[k].attempts # 0
    BY <2>1 DEF DeliveryInv, Counted, Given
  <2> QED
    BY <2>1, <2>2, MessageFields DEF DeliveryInv, Typed
<1>2. HandChange(k)
  <2>1. Sound(k) => OnceOnly(k) /\ ~Accepted(k)
    BY <1>1 DEF DeliveryInv, Single
  <2>2. CASE Append1(k)
    <3>1. /\ \A j \in Keys : Accepted(j)' <=> Accepted(j) \/ j = k
          /\ \A j \in Keys : j # k /\ OnceOnly(j) => OnceOnly(j)'
          /\ ~Accepted(k) => OnceOnly(k)'
      BY <2>2, Appended DEF DeliveryInv
    <3>2. ASSUME NEW j \in Keys \ {k}
          PROVE  /\ Accepted(j)' <=> Accepted(j)
                 /\ OnceOnly(j) => OnceOnly(j)'
                 /\ j \in loose' <=> j \in loose
      BY <1>1, <3>1
    <3>3. loose' \subseteq Keys /\ k \notin loose'
      BY <1>1
    <3>4. Sound(k) => OnceOnly(k)'
      BY <2>1, <3>1
    <3> QED
      BY <1>1, <3>2, <3>3, <3>4 DEF HandChange
  <2>3. CASE UNCHANGED transcript
    <3>2. ASSUME NEW j \in Keys
          PROVE  /\ Accepted(j)' <=> Accepted(j)
                 /\ OnceOnly(j)' <=> OnceOnly(j)
                 /\ j # k => (j \in loose' <=> j \in loose)
      BY <1>1, <2>3 DEF Accepted, OnceOnly
    <3>3. loose' \subseteq Keys /\ k \notin loose'
      BY <1>1
    <3>4. Sound(k) => OnceOnly(k)'
      BY <2>1, <3>2
    <3> QED
      BY <1>1, <3>2, <3>3, <3>4 DEF HandChange
  <2> QED
    BY <2>2, <2>3 DEF AcceptLate
<1>3. CallsGoOn(k)
  <2>1. \A q \in Senders : sender'[q].pc # "idle" => sender'[q].key \in Keys
    BY <1>1 DEF DeliveryInv, Numbered, At
  <2>2. ASSUME NEW q \in Senders, Works(q)'
        PROVE  Works(q) /\ (sender[q].pc = "finish" => sender[q].result # "none")
    BY <1>1, <2>2 DEF Works, DeliveryInv, Numbered, At
  <2>3. ASSUME NEW q \in Senders, Works(q), sender[q].key = k, Sound(k)
        PROVE  ~(sender[q].pc \in {"deliver", "sent"} \/ Defers(sender[q]))
    BY <1>1, <2>3, AtWork DEF Given
  <2> QED
    BY <1>1, <2>1, <2>2, <2>3 DEF CallsGoOn
<1> QED
  BY <1>1, <1>2, <1>3, HandStep

\* The outcome of an attempt is recorded by the call that holds its lease.
LEMMA FinishStep ==
  ASSUME DeliveryInv, Typed', NEW p \in Senders, Finish(p)
  PROVE  Counted' /\ Numbered' /\ Held' /\ Fresh' /\ Single'
<1>0. /\ UNCHANGED <<tool, transcript, loose>> /\ Return(p)
      /\ Works(p) /\ sender[p].pc = "finish" /\ sender[p].key \in Keys
  BY AtWork DEF Finish, world, Works, At
<1>1. PICK k \in Keys : sender[p].key = k
  BY <1>0
<1>2. CASE ~HoldsLease(p)
  <2>1. UNCHANGED followUp
    BY <1>2 DEF Finish
  <2> QED
    BY <1>0, <2>1, StopStep
<1>3. CASE HoldsLease(p)
  <2> DEFINE result == sender[p].result
             status == CASE result = "delivered" -> "delivered"
                         [] result = "rejected" -> "failed"
                         [] OTHER -> "pending"
             failure == IF result = "delivered" THEN "none" ELSE result
  <2>1. result \in {"delivered", "rejected", "deferred", "uncertain"}
    BY <1>0, CallFields DEF Outcomes, DeliveryInv, Numbered, At
  <2>2. /\ status \in {"delivered", "failed", "pending"}
        /\ status = "pending" => result \in {"deferred", "uncertain"} /\ failure = result
    BY <2>1
  <2>3. followUp' = [followUp EXCEPT ![k].status = status, ![k].failure = failure]
    BY <1>1, <1>3 DEF Finish
  <2> HIDE DEF status, failure
  <2>4. /\ followUp'[k] = [followUp[k] EXCEPT !.status = status, !.failure = failure]
        /\ \A j \in Keys \ {k} : followUp'[j] = followUp[j]
        /\ followUp[k] \in Messages(followUp[k].sequence)
    BY <2>3 DEF DeliveryInv, Typed
  <2>5. /\ followUp'[k].status = status /\ followUp'[k].failure = failure
        /\ followUp'[k].attempts = followUp[k].attempts /\ followUp'[k].lapsed = followUp[k].lapsed
    BY <2>4 DEF Messages
  <2>6. /\ \A q \in Senders \ {p} : sender'[q] = sender[q]
        /\ sender'[p].pc = "idle"
    BY <1>0, GoesOn DEF DeliveryInv
  <2>7. ~Works(p)'
    BY <2>6 DEF Works
  <2>8. Sound(k)' => Sound(k)
    BY <1>0, <2>5 DEF Sound
  <2>9. Sound(k) =>
          /\ \A q \in Senders \ {p} : ~(Works(q) /\ sender[q].key = k)
          /\ result = "deferred" => k \notin loose
    BY <1>0, <1>1, AtWork DEF Defers, Given
  <2>10. followUp[k].lapsed <= followUp[k].attempts /\ followUp[k].attempts \in Nat
    BY MessageFields DEF DeliveryInv, Counted
  <2>11. RowChange(k, p)
    BY <2>2, <2>4, <2>5, <2>6, <2>7, <2>8, <2>9, <2>10 DEF RowChange
  <2> QED
    BY <1>0, <2>11, RowStep
<1> QED
  BY <1>2, <1>3

\* A lease lapses: that of a Codex message has no call that works under it.
LEMMA LapseStep ==
  ASSUME DeliveryInv, Typed', NEW k \in Keys, Lapse(k)
  PROVE  Counted' /\ Numbered' /\ Held' /\ Fresh' /\ Single'
<1>1. /\ UNCHANGED <<tool, transcript, loose, sender>> /\ followUp[k].status = "leased"
      /\ followUp[k] \in Messages(followUp[k].sequence)
      /\ followUp'[k] = [followUp[k] EXCEPT !.lapsed = followUp[k].attempts]
      /\ \A j \in Keys \ {k} : followUp'[j] = followUp[j]
  BY DEF Lapse, world, DeliveryInv, Typed
<1>2. /\ followUp'[k].status = "leased" /\ followUp'[k].failure = followUp[k].failure
      /\ followUp'[k].attempts = followUp[k].attempts /\ followUp'[k].lapsed = followUp[k].attempts
  BY <1>1 DEF Messages
<1>3. followUp[k].attempts > 0 /\ followUp[k].attempts \in Nat
  BY <1>1, MessageFields DEF DeliveryInv, Counted
<1>4. \A j \in Keys :
        /\ followUp'[j].status = followUp[j].status /\ followUp'[j].attempts = followUp[j].attempts
        /\ followUp'[j].failure = followUp[j].failure
  BY <1>1, <1>2
<1>5. Sound(k)' => tool[Target[k]] = "codex" /\ Sound(k)
  BY <1>1, <1>2, <1>3 DEF Sound
<1>6. ASSUME NEW p \in Senders, Works(p), sender[p].key = k, tool[Target[k]] = "codex"
      PROVE  FALSE
  <2>1. sender[p].attempt = followUp[k].attempts
    BY <1>6 DEF DeliveryInv, Held, HoldsLease, Sound
  <2> QED
    BY <1>6, <2>1 DEF Lapse
<1>7. ASSUME NEW j \in Keys, Sound(j)' PROVE Sound(j)
  <2>1. CASE j = k
    BY <1>5, <1>7, <2>1
  <2>2. CASE j # k
    BY <1>1, <1>7, <2>2, SameRow
  <2> QED
    BY <2>1, <2>2
<1>8. \A p \in Senders : /\ Works(p)' <=> Works(p)
                        /\ sender'[p] = sender[p]
  BY <1>1 DEF Works
<1>9. Counted'
  <2>1. ASSUME NEW j \in Keys PROVE followUp'[j].lapsed <= followUp'[j].attempts
    <3>1. CASE j = k
      BY <1>2, <1>3, <3>1
    <3>2. CASE j # k
      BY <1>1, <3>2 DEF DeliveryInv, Counted
    <3> QED
      BY <3>1, <3>2
  <2> QED
    BY <1>1, <1>4, <2>1, SameTranscripts DEF DeliveryInv, Counted
<1>10. Numbered'
  <2>1. \A p \in Senders : Works(p) => sender[p].key \in Keys
    BY DEF DeliveryInv, Numbered, Works, At
  <2> QED
    BY <1>4, <1>8, <2>1 DEF DeliveryInv, Numbered, At
<1>11. Held'
  <2>1. ASSUME NEW p \in Senders, Works(p)', Sound(sender[p].key)' PROVE HoldsLease(p)'
    <3>1. PICK j \in Keys : sender[p].key = j /\ sender'[p].key = j /\ Works(p)
      BY <1>8, <2>1 DEF DeliveryInv, Numbered, Works, At
    <3>2. Sound(j)'
      BY <2>1, <3>1 DEF Sound
    <3>3. Sound(sender[p].key)
      BY <1>7, <3>1, <3>2
    <3> QED
      BY <1>4, <1>8, <3>1, <3>3 DEF DeliveryInv, Held, HoldsLease
  <2>2. ASSUME NEW p \in Senders, NEW j \in Keys, tool'[Target[j]] = "codex", Overdue(j)',
               Works(p)', sender'[p].key = j
        PROVE  FALSE
    <3>1. CASE j = k
      BY <1>1, <1>6, <1>8, <2>2, <3>1
    <3>2. CASE j # k
      <4>1. Overdue(j)
        BY <1>1, <2>2, <3>2, SameRow
      <4> QED
        BY <1>1, <1>8, <2>2, <4>1 DEF DeliveryInv, Held
    <3> QED
      BY <3>1, <3>2
  <2> QED
    BY <2>1, <2>2 DEF Held
<1>12. Fresh'
  <2> SUFFICES ASSUME NEW p \in Senders, Works(p)', Sound(sender[p].key)'
               PROVE  /\ sender'[p].pc \in {"deliver", "sent"} \/ Defers(sender'[p])
                           => ~Given(sender[p].key)'
                      /\ sender'[p].pc = "accepted" => sender'[p].key \notin loose'
                      /\ sender'[p].pc = "reconcile" /\ sender'[p].key \in loose'
                           => sender'[p].previous = "uncertain"
    BY DEF Fresh, At
  <2>1. PICK j \in Keys : sender[p].key = j /\ sender'[p].key = j /\ Works(p)
    BY <1>8 DEF DeliveryInv, Numbered, Works, At
  <2>2. Sound(sender[p].key)
    <3>1. Sound(j)'
      BY <2>1 DEF Sound
    <3> QED
      BY <1>7, <2>1, <3>1
  <2>3. Given(sender[p].key)' <=> Given(sender[p].key)
    BY <1>1 DEF Given, Accepted
  <2>4. /\ sender[p].pc \in {"deliver", "sent"} \/ Defers(sender[p]) => ~Given(sender[p].key)
        /\ sender[p].pc = "accepted" => sender[p].key \notin loose
        /\ sender[p].pc = "reconcile" /\ sender[p].key \in loose
             => sender[p].previous = "uncertain"
    BY <2>1, <2>2, AtWork
  <2> QED
    BY <1>1, <1>8, <2>3, <2>4
<1>13. Single'
  <2>1. ASSUME NEW j \in Keys, Sound(j)'
        PROVE  /\ OnceOnly(j)'
               /\ j \in loose' => ~Accepted(j)'
               /\ j \in loose' /\ followUp'[j].status = "pending" => followUp'[j].failure = "uncertain"
    <3>1. Sound(j)
      BY <1>7, <2>1
    <3>2. /\ OnceOnly(j) /\ (j \in loose => ~Accepted(j))
          /\ j \in loose /\ followUp[j].status = "pending" => followUp[j].failure = "uncertain"
      BY <3>1 DEF DeliveryInv, Single
    <3>3. OnceOnly(j)' /\ (j \in loose' => ~Accepted(j)')
      BY <1>1, <3>2, SameTranscripts
    <3> QED
      BY <1>1, <1>4, <3>2, <3>3
  <2> QED
    BY <2>1 DEF Single
<1> QED
  BY <1>9, <1>10, <1>11, <1>12, <1>13

-----------------------------------------------------------------------------
(* The theorems.                                                           *)

\* Every step keeps the inductive invariant.
LEMMA DeliveryStep ==
  ASSUME DeliveryInv, [Next]_vars
  PROVE  DeliveryInv'
<1>1. Typed'
  BY TypeStep DEF DeliveryInv
<1>2. ASSUME Counted' /\ Numbered' /\ Held' /\ Fresh' /\ Single' PROVE DeliveryInv'
  BY <1>1, <1>2 DEF DeliveryInv
<1>3. ASSUME NEW p \in Senders, Call(p) PROVE DeliveryInv'
  BY <1>1, <1>2, <1>3, SendStep, InsertStep, LeaseStep, ReconcileStep, AcceptStep, FailStep,
     FinishStep DEF Call
<1>4. CASE Environment
  <2>1. ASSUME NEW s \in Sessions,
               \/ Rebind(s) \/ End(s) \/ Refresh(s)
               \/ \E status \in {"active", "idle"} : Observe(s, status)
        PROVE  DeliveryInv'
    <3>1. UNCHANGED <<tool, followUp, transcript, loose, sender>>
      BY <2>1 DEF Rebind, End, Refresh, Observe
    <3> QED
      BY <1>2, <3>1, WorldStep
  <2> QED
    BY <1>1, <1>2, <1>4, <2>1, LapseStep, LateStep DEF Environment
<1>5. CASE UNCHANGED vars
  BY <1>2, <1>5, WorldStep DEF vars
<1> QED
  BY <1>3, <1>4, <1>5 DEF Next

\* The invariant holds in every state of every behaviour.
THEOREM Inductive == Spec => []DeliveryInv
<1>1. DeliveryInv /\ [Next]_vars => DeliveryInv'
  BY DeliveryStep
<1> QED
  BY InitDelivery, <1>1, PTL DEF Spec

\* A set without two different members has at most one.
LEMMA AtMostOne ==
  ASSUME NEW S, \A x, y \in S : x = y
  PROVE  IsFiniteSet(S) /\ Cardinality(S) <= 1
<1>1. CASE S = {}
  BY <1>1, FS_EmptySet
<1>2. CASE S # {}
  <2>1. PICK x : S = {x}
    BY <1>2
  <2>2. IsFiniteSet({x}) /\ Cardinality({x}) = 1
    BY FS_Singleton
  <2> QED
    BY <2>1, <2>2
<1> QED
  BY <1>1, <1>2

\* Codex is given a message once, however calls crash, overtake each other and are
\* repeated; Claude too, as long as no lease of the message lapsed.
THEOREM DeliveredOnce == Spec => []NoDuplicateDelivery
<1>1. DeliveryInv => NoDuplicateDelivery
  <2> SUFFICES ASSUME DeliveryInv, NEW k \in Keys, tool[Target[k]] = "codex" \/ followUp[k].lapsed = 0
               PROVE  Times(k) <= 1
    BY DEF NoDuplicateDelivery
  <2> DEFINE given == {i \in DOMAIN transcript[Target[k]] : transcript[Target[k]][i] = k}
  <2>1. OnceOnly(k)
    BY DEF DeliveryInv, Single, Sound
  <2>2. \A i, j \in given : i = j
    BY <2>1 DEF OnceOnly
  <2> HIDE DEF given
  <2>3. Cardinality(given) <= 1
    BY <2>2, AtMostOne
  <2> QED
    BY <2>3 DEF Times, given
<1> QED
  BY Inductive, <1>1, PTL

\* Nobody starts to deliver a message whose binding has changed.
THEOREM StaysAddressed == Spec => NotRedirected
<1> DEFINE Kept ==
      \A k \in Keys :
        followUp[k].status # "absent" /\ binding[Target[k]] # followUp[k].binding
          => followUp'[k].attempts = followUp[k].attempts
<1>1. DeliveryInv /\ [Next]_vars => [Kept]_vars
  <2> SUFFICES ASSUME DeliveryInv, [Next]_vars, NEW k \in Keys, followUp[k].status # "absent",
                      binding[Target[k]] # followUp[k].binding
               PROVE  followUp'[k].attempts = followUp[k].attempts
    OBVIOUS
  <2>0. DOMAIN followUp = Keys /\ \A j \in Keys : followUp[j] \in Messages(followUp[j].sequence)
    BY DEF DeliveryInv, Typed
  <2>1. CASE UNCHANGED followUp
    BY <2>1
  <2>2. ASSUME NEW p \in Senders, Insert(p) PROVE followUp'[k].attempts = followUp[k].attempts
    <3>1. \/ UNCHANGED followUp
          \/ \E m : /\ followUp' = [followUp EXCEPT ![sender[p].key] = m]
                   /\ followUp[sender[p].key].status = "absent"
      BY <2>2 DEF Insert
    <3> QED
      BY <2>0, <3>1
  <2>3. ASSUME NEW p \in Senders, Lease(p) PROVE followUp'[k].attempts = followUp[k].attempts
    <3>1. CASE UNCHANGED followUp
      BY <3>1
    <3>2. ASSUME NEW j \in Keys,
                 followUp' = [followUp EXCEPT ![j].status = "failed", ![j].failure = "changed"]
          PROVE  followUp'[k].attempts = followUp[k].attempts
      BY <2>0, <3>2 DEF Messages
    <3>3. ASSUME NEW j \in Keys, Intact(j),
                 followUp' = [followUp EXCEPT ![j].status = "leased", ![j].attempts = @ + 1]
          PROVE  followUp'[k].attempts = followUp[k].attempts
      <4>1. j # k
        BY <3>3 DEF Intact
      <4> QED
        BY <2>0, <3>3, <4>1
    <3> QED
      BY <2>3, <3>1, <3>2, <3>3 DEF Lease, First
  <2>4. ASSUME NEW p \in Senders, Finish(p) PROVE followUp'[k].attempts = followUp[k].attempts
    BY <2>0, <2>4 DEF Finish, Messages
  <2>5. ASSUME NEW j \in Keys, Lapse(j) PROVE followUp'[k].attempts = followUp[k].attempts
    BY <2>0, <2>5 DEF Lapse, Messages
  <2> QED
    BY <2>1, <2>2, <2>3, <2>4, <2>5
       DEF Next, vars, world, Call, Environment, Send, Reconcile, ReconcileFails, Deliver, Accept,
           Acknowledge, DeliverFails, Crash, AcceptLate, Rebind, End, Refresh, Observe
<1> QED
  BY Inductive, <1>1, PTL DEF Spec, NotRedirected

=============================================================================
