---------------------------- MODULE ProvidersProofs ----------------------------
(***************************************************************************)
(* Proofs about what the program does with providers: it removes its files *)
(* from their homes, calls their app-server, and drives their terminals.   *)
(*                                                                         *)
(* Removing Workboard's files from the home of a provider, for every       *)
(* number of calls, previews, removals, saves and faults.  What a call     *)
(* carries through its many states is a shape of its own (CallOK): what it *)
(* has read is what was confirmed, what it drops has a backup, and what it *)
(* has removed are the owned contracts it has passed.  With it, no text is *)
(* lost, and no content of a contract is in two places at once, which is   *)
(* what undoing a removal rests on.                                        *)
(*                                                                         *)
(* Calling an app-server, for every set of threads, every limit and every  *)
(* number of calls and messages.  An answer with the number of the request *)
(* that the call waits for is to that very request, wherever it still is   *)
(* on its way (ServerInv).                                                 *)
(*                                                                         *)
(* Launching terminals, in a batch, a recovery or requests of a session,   *)
(* for every number of commands, children, sessions and keys.  A driver    *)
(* spawns a terminal once because a command spawns only what it has begun  *)
(* itself, nobody begins a launch twice, and nobody else goes on with it:  *)
(* the invariants say what a command knows between the two steps.  The     *)
(* records are true because what is written was read of a launch that      *)
(* never turns back.  That an attempt tells how its sessions ended needs   *)
(* more: as long as nothing has failed, what has no outcome yet is on the  *)
(* list of a command that is at work.                                      *)
(***************************************************************************)
EXTENDS MCProviders, MCLaunchDrivers, TLAPS, WellFoundedInduction

Contracts == {"workflow", "compatibility"}

Content == {x \in [text : Nat, form : {"absent", "owned", "foreign", "malformed"}] :
              x.form = "absent" => x = Nothing}

\* What a call still has to do, in its own order and in that of undoing.
Remaining == {<<"workflow", "compatibility", "configuration">>,
              <<"compatibility", "configuration">>, <<"configuration">>}
Undoing == {<<"compatibility", "workflow">>, <<"workflow">>}

\* The states of a call before its token is found valid, while it changes
\* files, from the backup on, and while it has moved a file.
Reading == {"load", "preview", "validate"}
Moving == {"compare", "finish", "occupied", "look", "restore"}
Secured == {"check", "displace"} \cup Moving
Working == {"mutate", "backup"} \cup Secured

Call == [pc : {"idle", "undo", "complete"} \cup Reading \cup Working, token : Nat,
         plan : [Files -> Content], todo : Remaining \cup Undoing \cup {<<>>},
         changed : SUBSET Files, held : Content]

Confirmed == [digest : [Files -> Content], status : {"open", "expired", "consumed"}]

\* The contracts that come before the file a call is at; those still to undo.
Passed(todo) ==
  {f \in Contracts : Head(todo) = "configuration" \/ (Head(todo) = "compatibility" /\ f = "workflow")}
Left(todo) == {f \in Contracts : Head(todo) = "compatibility" \/ f = "workflow"}

OwnedIn(c, S) == {f \in S : c.plan[f].form = "owned"}

\* A call that changes files does what was confirmed, and has removed the
\* contracts it has passed, as far as they were Workboard's.
Works(c, C) ==
  /\ c.todo \in Remaining
  /\ c.token \in 1..Len(C) /\ C[c.token].digest = c.plan
  /\ c.changed = OwnedIn(c, Passed(c.todo))
  /\ \A f \in Passed(c.todo) : c.plan[f].form # "malformed"

\* A call that undoes what it has done has the rest of that to undo.
Unwinds(c) ==
  /\ c.todo \in Undoing
  /\ c.changed = OwnedIn(c, Left(c.todo))
  /\ \A f \in Left(c.todo) : c.plan[f].form # "malformed"

\* The shape of a call, with the backups K and the confirmations C.
CallOK(c, K, C) ==
  /\ c.token \in 0..Len(C)
  /\ c.pc = "idle" => c = NoCall
  /\ c.pc \in Reading => c.changed = {}
  /\ c.pc = "load" => c.todo \in Remaining
  /\ c.pc = "validate" => c.token # 0
  /\ c.pc \in Working => Works(c, C)
  /\ c.pc \in Working \ {"mutate"} => c.plan[Head(c.todo)].form = "owned"
  /\ c.pc \in Secured => <<Head(c.todo), c.plan[Head(c.todo)].text>> \in K
  /\ c.pc \in Moving <=> c.held # Nothing
  /\ c.pc \in {"finish", "occupied"} => c.held = c.plan[Head(c.todo)]
  /\ c.pc = "undo" => Unwinds(c)
  /\ c.pc = "complete" => c.token # 0
  /\ \A f \in c.changed : c.plan[f].form = "owned"

\* Files, rows and calls keep to their values, and calls to their shape.
Shaped ==
  /\ file \in [Files -> Content] /\ saved \in [Files -> Nat]
  /\ confirmation \in Seq(Confirmed)
  /\ process \in [Processes -> Call]
  /\ \A p \in Processes : CallOK(process[p], kept, confirmation)

\* No text is newer than the last save, so that the next one is new.
Known(c, n) == c.held.text <= n /\ \A f \in Files : c.plan[f].text <= n

Numbered ==
  /\ saves \in Nat
  /\ \A f \in Files : file[f].text <= saves + 1
  /\ \A p \in Processes : Known(process[p], saves + 1)

\* Call c has moved file f; it has removed contract f.
Holds(c, f) == c.held # Nothing /\ Head(c.todo) = f

\* With content x at the place of contract f, call c has not moved or removed
\* that very content; two calls have not moved or removed the same.
Apart(c, f, x) ==
  /\ f \in c.changed => c.plan[f] # x
  /\ Holds(c, f) => c.held # x

Disjoint(c, d, f) ==
  /\ f \in d.changed => Apart(c, f, d.plan[f])
  /\ Holds(d, f) => Apart(c, f, d.held)

\* No content of a contract is in two places: there, moved by a call, or
\* removed by a call that may put it back.
Unique ==
  \A f \in Contracts, p \in Processes :
    /\ Apart(process[p], f, file[f])
    /\ \A q \in Processes \ {p} : Disjoint(process[p], process[q], f)

\* The inductive invariant.
RemovalInv == Shaped /\ Numbered /\ Unique /\ EverySaveIsKept

-----------------------------------------------------------------------------
(* The orders of the files.                                                *)

\* What the orders begin with, and what is left of them.
LEMMA Orders ==
  /\ FileOrder \in Remaining /\ Head(FileOrder) = "workflow"
  /\ \A todo \in Remaining : /\ todo # <<>> /\ Head(todo) \in Files
                             /\ Tail(todo) \in Remaining \cup {<<>>}
                             /\ Head(todo) = "configuration" <=> Tail(todo) = <<>>
  /\ \A todo \in Undoing : /\ todo # <<>> /\ Head(todo) \in Contracts
                           /\ Tail(todo) \in Undoing \cup {<<>>}
                           /\ Head(todo) = "workflow" <=> Tail(todo) = <<>>
BY DEF FileOrder, Remaining, Undoing, Files, Contracts

\* The contracts a call has passed, one file further.
LEMMA PassedOrders ==
  /\ Passed(FileOrder) = {}
  /\ \A todo \in Remaining : Tail(todo) # <<>> =>
       Head(todo) \in Contracts /\ Passed(Tail(todo)) = Passed(todo) \cup {Head(todo)}
  /\ \A todo \in Remaining : Head(todo) \notin Passed(todo)
BY DEF FileOrder, Remaining, Passed, Contracts

\* The contracts still to undo, one less.
LEMMA LeftOrders ==
  \A todo \in Undoing : Tail(todo) # <<>> => Left(Tail(todo)) = Left(todo) \ {Head(todo)}
<1>1. LET todo == <<"compatibility", "workflow">>
      IN  Head(todo) = "compatibility" /\ Tail(todo) = <<"workflow">> /\ Head(Tail(todo)) = "workflow"
  OBVIOUS
<1>2. LET todo == <<"workflow">> IN Tail(todo) = <<>>
  OBVIOUS
<1> QED
  BY <1>1, <1>2 DEF Undoing, Left, Contracts

-----------------------------------------------------------------------------
(* Calls.                                                                  *)

Pcs == {"idle", "undo", "complete"} \cup Reading \cup Working

\* A call that only goes to another state.
LEMMA CallGoes ==
  ASSUME NEW c \in Call, NEW pc \in Pcs
  PROVE  LET n == [c EXCEPT !.pc = pc]
         IN  /\ n \in Call /\ n.pc = pc /\ n.token = c.token /\ n.plan = c.plan
             /\ n.todo = c.todo /\ n.changed = c.changed /\ n.held = c.held
BY DEF Call, Pcs

\* A call that is over.
LEMMA NoCallShape ==
  /\ NoCall \in Call /\ NoCall.pc = "idle" /\ NoCall.token = 0 /\ NoCall.todo = <<>>
  /\ NoCall.changed = {} /\ NoCall.held = Nothing
  /\ \A f \in Files : NoCall.plan[f] = Nothing
  /\ Nothing \in Content /\ Nothing.text = 0
<1>1. Nothing \in Content /\ Nothing.text = 0
  BY DEF Nothing, Content
<1>2. [f \in Files |-> Nothing] \in [Files -> Content]
  BY <1>1
<1>3. NoCall \in Call
  BY <1>1, <1>2 DEF NoCall, Call
<1> QED
  BY <1>1, <1>3 DEF NoCall

\* It has its shape whatever has become of the rest.
LEMMA NoCallOK ==
  ASSUME NEW K, NEW C \in Seq(Confirmed)
  PROVE  CallOK(NoCall, K, C)
BY NoCallShape DEF CallOK, Reading, Working, Secured, Moving

\* The confirmations that were made stay, but for their status.
Extends(C, D) ==
  /\ D \in Seq(Confirmed) /\ Len(C) <= Len(D)
  /\ \A t \in 1..Len(C) : D[t].digest = C[t].digest

\* The shape of a call outlives new backups and confirmations.
LEMMA CallStays ==
  ASSUME NEW K, NEW L, K \subseteq L, NEW C \in Seq(Confirmed), NEW D, Extends(C, D),
         NEW c \in Call, CallOK(c, K, C)
  PROVE  CallOK(c, L, D)
<1>1. Len(C) \in Nat /\ Len(D) \in Nat /\ Len(C) <= Len(D)
  BY DEF Extends
<1>2. Works(c, C) => Works(c, D)
  BY <1>1 DEF Works, Extends
<1>3. c.token \in 0..Len(D)
  BY <1>1 DEF CallOK
<1> QED
  BY <1>2, <1>3 DEF CallOK

\* What a call that fails becomes.
LEMMA FailedOK ==
  ASSUME NEW K, NEW C \in Seq(Confirmed), NEW c \in Call, CallOK(c, K, C), c.pc \in Working
  PROVE  LET n == Failed(c)
         IN  /\ n \in Call /\ CallOK(n, K, C) /\ n.held = Nothing
             /\ (n = NoCall /\ c.changed = {}) \/ (n.plan = c.plan /\ n.changed = c.changed /\ n.pc = "undo")
<1>1. Works(c, C) /\ c.todo \in Remaining
  BY DEF CallOK, Works
<1>2. CASE c.changed = {}
  <2>1. Failed(c) = NoCall
    <3>1. Undone(c) = <<>>
      BY <1>2 DEF Undone
    <3> QED
      BY <3>1 DEF Failed
  <2> QED
    BY <1>2, <2>1, NoCallShape, NoCallOK
<1>3. CASE c.changed # {}
  <2> DEFINE t == Undone(c)
             n == [c EXCEPT !.pc = "undo", !.todo = t, !.held = Nothing]
  <2>1. Head(c.todo) \in {"compatibility", "configuration"}
    <3>1. CASE Head(c.todo) = "workflow"
      BY <1>1, <1>3, <3>1 DEF Works, OwnedIn, Passed
    <3> QED
      BY <1>1, <3>1, Orders DEF Files
  <2>2. t = IF Head(c.todo) = "compatibility" THEN <<"workflow">> ELSE <<"compatibility", "workflow">>
    BY <1>3, <2>1 DEF Undone
  <2>3. t \in Undoing /\ t # <<>> /\ Left(t) = Passed(c.todo)
    BY <2>1, <2>2 DEF Undoing, Left, Passed, Contracts
  <2> HIDE DEF t
  <2>4. Failed(c) = n
    BY <2>3 DEF Failed, t
  <2>5. /\ n \in Call /\ n.pc = "undo" /\ n.todo = t /\ n.held = Nothing
        /\ n.plan = c.plan /\ n.changed = c.changed /\ n.token = c.token
    BY <2>3, NoCallShape DEF Call
  <2> HIDE DEF n
  <2>6. Unwinds(n)
    BY <1>1, <2>3, <2>5 DEF Unwinds, Works, OwnedIn
  <2>7. CallOK(n, K, C)
    BY <2>5, <2>6 DEF CallOK, Reading, Working, Secured, Moving
  <2> QED
    BY <2>4, <2>5, <2>7
<1> QED
  BY <1>2, <1>3

\* A call that goes on with its next file, after one that was not Workboard's or
\* that it has removed.
LEMMA AdvancedOK ==
  ASSUME NEW K, NEW C \in Seq(Confirmed), NEW c \in Call, CallOK(c, K, C), c.pc \in Working,
         NEW n \in Call, n.todo = Tail(c.todo), n.token = c.token, n.plan = c.plan, n.held = Nothing,
         n.pc = IF Tail(c.todo) = <<>> THEN "complete" ELSE "mutate",
         n.changed = c.changed \cup OwnedIn(c, {Head(c.todo)}),
         c.plan[Head(c.todo)].form # "malformed"
  PROVE  CallOK(n, K, C)
<1> DEFINE t == Tail(c.todo)
<1>2. Works(c, C) /\ t \in Remaining \cup {<<>>}
  BY Orders DEF CallOK, Works
<1>5. t # <<>> => Works(n, C)
  BY <1>2, PassedOrders DEF Works, OwnedIn
<1>6. c.token # 0 /\ c.token \in 0..Len(C)
  BY <1>2 DEF Works, CallOK
<1>7. n.pc = IF t = <<>> THEN "complete" ELSE "mutate"
  OBVIOUS
<1> HIDE DEF t
<1>8. \A f \in n.changed : n.plan[f].form = "owned"
  BY DEF CallOK, OwnedIn
<1> QED
  BY <1>5, <1>6, <1>7, <1>8 DEF CallOK, Reading, Working, Secured, Moving

\* What is left of the call that goes on.
LEMMA AdvancedCall ==
  ASSUME NEW d \in Call, d.todo \in Remaining
  PROVE  LET n == Advanced(d)
         IN  /\ n \in Call /\ n.todo = Tail(d.todo) /\ n.token = d.token /\ n.plan = d.plan
             /\ n.held = Nothing /\ n.changed = d.changed
             /\ n.pc = IF Tail(d.todo) = <<>> THEN "complete" ELSE "mutate"
<1> DEFINE t == Tail(d.todo)
           pc == IF t = <<>> THEN "complete" ELSE "mutate"
<1>1. t \in Remaining \cup {<<>>}
  BY Orders
<1>2. pc \in {"mutate", "complete"}
  OBVIOUS
<1>3. Advanced(d) = [d EXCEPT !.held = Nothing, !.todo = t, !.pc = pc]
  BY DEF Advanced
<1> HIDE DEF t, pc
<1>4. LET n == [d EXCEPT !.held = Nothing, !.todo = t, !.pc = pc]
      IN  n \in Call /\ n.todo = t /\ n.token = d.token /\ n.plan = d.plan
          /\ n.held = Nothing /\ n.changed = d.changed /\ n.pc = pc
  BY <1>1, <1>2, NoCallShape DEF Call, Working
<1> QED
  BY <1>3, <1>4 DEF t, pc

\* A call that goes on after a file that was not Workboard's.
LEMMA PassedOK ==
  ASSUME NEW K, NEW C \in Seq(Confirmed), NEW c \in Call, CallOK(c, K, C), c.pc \in Working,
         c.plan[Head(c.todo)].form \notin {"owned", "malformed"}
  PROVE  LET n == Advanced(c)
         IN  n \in Call /\ CallOK(n, K, C) /\ n.held = Nothing /\ n.plan = c.plan /\ n.changed = c.changed
<1> DEFINE n == Advanced(c)
<1>1. c.todo \in Remaining
  BY DEF CallOK, Works
<1>2. /\ n \in Call /\ n.todo = Tail(c.todo) /\ n.token = c.token /\ n.plan = c.plan
      /\ n.held = Nothing /\ n.changed = c.changed
      /\ n.pc = IF Tail(c.todo) = <<>> THEN "complete" ELSE "mutate"
  BY <1>1, AdvancedCall
<1> HIDE DEF n
<1>3. n.changed = c.changed \cup OwnedIn(c, {Head(c.todo)})
  BY <1>2 DEF OwnedIn
<1>4. CallOK(n, K, C)
  BY <1>2, <1>3, AdvancedOK
<1> QED
  BY <1>2, <1>4 DEF n

\* The call that has removed the file it is at.
HavingRemoved(c) == [c EXCEPT !.changed = @ \cup {Head(c.todo)}]

IsOwned(c) == c.plan[Head(c.todo)].form = "owned"

\* What that call then becomes.
Onward(n, c) ==
  /\ n = Advanced(HavingRemoved(c))
  /\ n.held = Nothing /\ n.plan = c.plan
  /\ n.changed = c.changed \cup {Head(c.todo)}

\* The same of a file that it has removed.
LEMMA RemovedOK ==
  ASSUME NEW K, NEW C \in Seq(Confirmed), NEW c \in Call, CallOK(c, K, C), c.pc \in Working,
         IsOwned(c)
  PROVE  \E n \in Call : Onward(n, c) /\ CallOK(n, K, C)
<1> DEFINE d == HavingRemoved(c)
           n == Advanced(d)
<1>1. c.todo \in Remaining /\ Head(c.todo) \in Files
  BY Orders DEF CallOK, Works
<1>2. /\ d \in Call /\ d.todo = c.todo /\ d.token = c.token /\ d.plan = c.plan
      /\ d.changed = c.changed \cup {Head(c.todo)}
  BY <1>1 DEF Call, HavingRemoved
<1> HIDE DEF d
<1> USE DEF IsOwned
<1>3. /\ n \in Call /\ n.todo = Tail(c.todo) /\ n.token = c.token /\ n.plan = c.plan
      /\ n.held = Nothing /\ n.changed = c.changed \cup {Head(c.todo)}
      /\ n.pc = IF Tail(c.todo) = <<>> THEN "complete" ELSE "mutate"
  BY <1>1, <1>2, AdvancedCall
<1> HIDE DEF n
<1>4. n.changed = c.changed \cup OwnedIn(c, {Head(c.todo)})
  BY <1>3 DEF OwnedIn
<1>5. CallOK(n, K, C)
  BY <1>3, <1>4, AdvancedOK
<1> QED
  BY <1>3, <1>5 DEF n, d, Onward

-----------------------------------------------------------------------------
(* Steps.                                                                  *)

\* One call becomes another.
LEMMA Becomes ==
  ASSUME Shaped, NEW p \in Processes, NEW n \in Call, Become(p, n)
  PROVE  /\ process' \in [Processes -> Call]
         /\ process'[p] = n
         /\ \A q \in Processes : q # p => process'[q] = process[q]
BY DEF Shaped, Become

\* The shapes outlive the step of one call, if its own is right.
LEMMA ShapedStep ==
  ASSUME Shaped, NEW p \in Processes, NEW n \in Call, Become(p, n),
         file' \in [Files -> Content], saved' \in [Files -> Nat], kept \subseteq kept', Extends(confirmation, confirmation'),
         CallOK(n, kept', confirmation')
  PROVE  Shaped'
<1>1. /\ process' \in [Processes -> Call]
      /\ process'[p] = n
      /\ \A q \in Processes : q # p => process'[q] = process[q]
  BY Becomes
<1>2. ASSUME NEW q \in Processes PROVE CallOK(process'[q], kept', confirmation')
  <2>1. CASE q = p
    BY <1>1, <2>1
  <2>2. CASE q # p
    <3>1. CallOK(process[q], kept, confirmation) /\ process[q] \in Call /\ confirmation \in Seq(Confirmed)
      BY DEF Shaped
    <3> QED
      BY <1>1, <2>2, <3>1, CallStays
  <2> QED
    BY <2>1, <2>2
<1>3. confirmation' \in Seq(Confirmed)
  BY DEF Extends
<1> QED
  BY <1>1, <1>2, <1>3 DEF Shaped

\* A call that changes no file keeps everything, if it drops only what has a
\* backup, and forgets or keeps what it has removed.
LEMMA StillStep ==
  ASSUME RemovalInv, NEW p \in Processes, NEW n \in Call, Become(p, n),
         UNCHANGED <<file, saved, saves>>,
         kept \subseteq kept', Extends(confirmation, confirmation'),
         CallOK(n, kept', confirmation'), Known(n, saves + 1),
         n.changed = {} \/ (n.plan = process[p].plan /\ n.changed \subseteq process[p].changed),
         \/ n.held = process[p].held /\ Head(n.todo) = Current(p)
         \/ n.held = Nothing /\ (process[p].held # Nothing => <<Current(p), process[p].held.text>> \in kept')
  PROVE  RemovalInv'
<1>1. /\ process' \in [Processes -> Call]
      /\ process'[p] = n
      /\ \A q \in Processes : q # p => process'[q] = process[q]
  BY Becomes DEF RemovalInv
<1>2. Shaped'
  BY ShapedStep DEF RemovalInv, Shaped
<1>3. Numbered'
  BY <1>1 DEF RemovalInv, Numbered
<1>4. \A f \in Contracts, q \in Processes :
        /\ f \in process'[q].changed => f \in process[q].changed /\ process'[q].plan[f] = process[q].plan[f]
        /\ Holds(process'[q], f) => Holds(process[q], f) /\ process'[q].held = process[q].held
  BY <1>1 DEF Holds, Current
<1>5. Unique'
  BY <1>4 DEF RemovalInv, Unique, Apart, Disjoint
<1>6. EverySaveIsKept'
  <2> SUFFICES ASSUME NEW f \in Files, saved[f] # 0, file[f].text # saved[f], <<f, saved[f]>> \notin kept'
               PROVE  \E q \in Processes : /\ process'[q].held # Nothing
                                           /\ Head(process'[q].todo) = f /\ process'[q].held.text = saved[f]
    BY DEF EverySaveIsKept, Current
  <2>1. PICK q \in Processes : /\ process[q].held # Nothing
                               /\ Current(q) = f /\ process[q].held.text = saved[f]
    BY DEF RemovalInv, EverySaveIsKept
  <2>2. CASE q = p
    BY <1>1, <2>1, <2>2
  <2>3. CASE q # p
    BY <1>1, <2>1, <2>3 DEF Current
  <2> QED
    BY <2>2, <2>3
<1> QED
  BY <1>2, <1>3, <1>5, <1>6 DEF RemovalInv

\* What is known of a call, and of everything it may touch.
LEMMA Mine ==
  ASSUME RemovalInv, NEW p \in Processes
  PROVE  /\ process[p] \in Call /\ CallOK(process[p], kept, confirmation)
         /\ Known(process[p], saves + 1)
         /\ confirmation \in Seq(Confirmed) /\ Extends(confirmation, confirmation)
         /\ file \in [Files -> Content] /\ saved \in [Files -> Nat] /\ saves \in Nat
BY DEF RemovalInv, Shaped, Numbered, Extends

\* A call returns, with nothing moved that is not kept.
LEMMA ReturnStep ==
  ASSUME RemovalInv, NEW p \in Processes, Return(p), UNCHANGED <<file, saved, saves>>,
         kept \subseteq kept', Extends(confirmation, confirmation'),
         process[p].held # Nothing => <<Current(p), process[p].held.text>> \in kept'
  PROVE  RemovalInv'
<1>1. Become(p, NoCall) /\ NoCall \in Call /\ NoCall.changed = {} /\ NoCall.held = Nothing
  BY NoCallShape DEF Return
<1>2. confirmation' \in Seq(Confirmed)
  BY DEF Extends
<1>3. CallOK(NoCall, kept', confirmation')
  BY <1>2, NoCallOK
<1>4. Known(NoCall, saves + 1)
  BY NoCallShape, Mine DEF Known
<1> QED
  BY <1>1, <1>3, <1>4, StillStep

\* A call fails, with nothing moved that is not kept.
LEMMA FailStep ==
  ASSUME RemovalInv, NEW p \in Processes, Fail(p), process[p].pc \in Working,
         UNCHANGED <<file, saved, saves, confirmation>>, kept \subseteq kept',
         process[p].held # Nothing => <<Current(p), process[p].held.text>> \in kept'
  PROVE  RemovalInv'
<1> DEFINE n == Failed(process[p])
<1>1. /\ process[p] \in Call /\ CallOK(process[p], kept, confirmation) /\ Known(process[p], saves + 1)
      /\ confirmation \in Seq(Confirmed) /\ Extends(confirmation, confirmation')
  BY Mine
<1>2. /\ n \in Call /\ CallOK(n, kept, confirmation) /\ n.held = Nothing
      /\ (n = NoCall /\ process[p].changed = {})
         \/ (n.plan = process[p].plan /\ n.changed = process[p].changed /\ n.pc = "undo")
  BY <1>1, FailedOK
<1>3. Become(p, n)
  BY DEF Fail
<1> HIDE DEF n
<1>4. CallOK(n, kept', confirmation')
  BY <1>1, <1>2, CallStays
<1>5. Known(n, saves + 1)
  BY <1>1, <1>2, NoCallShape, Mine DEF Known
<1>6. n.changed = {} \/ (n.plan = process[p].plan /\ n.changed \subseteq process[p].changed)
  BY <1>2, NoCallShape
<1> QED
  BY <1>1, <1>2, <1>3, <1>4, <1>5, <1>6, StillStep

\* A call only goes to another state.
LEMMA GoStep ==
  ASSUME RemovalInv, NEW p \in Processes, NEW pc \in Pcs, Goto(p, pc),
         UNCHANGED <<file, saved, saves, confirmation>>, kept \subseteq kept',
         \A n \in Call : /\ n.pc = pc /\ n.token = process[p].token /\ n.plan = process[p].plan
                         /\ n.todo = process[p].todo /\ n.changed = process[p].changed
                         /\ n.held = process[p].held
                         => CallOK(n, kept', confirmation)
  PROVE  RemovalInv'
<1> DEFINE n == [process[p] EXCEPT !.pc = pc]
<1>1. /\ process[p] \in Call /\ Known(process[p], saves + 1)
      /\ confirmation \in Seq(Confirmed) /\ Extends(confirmation, confirmation')
  BY Mine
<1>2. /\ n \in Call /\ n.pc = pc /\ n.token = process[p].token /\ n.plan = process[p].plan
      /\ n.todo = process[p].todo /\ n.changed = process[p].changed /\ n.held = process[p].held
  BY <1>1, CallGoes
<1>3. Become(p, n)
  BY DEF Goto
<1> HIDE DEF n
<1>4. CallOK(n, kept', confirmation')
  BY <1>2
<1>5. Known(n, saves + 1) /\ Head(n.todo) = Current(p)
  BY <1>1, <1>2 DEF Known, Current
<1> QED
  BY <1>1, <1>2, <1>3, <1>4, <1>5, StillStep

\* A call goes on with its next file without having changed one.
LEMMA PassStep ==
  ASSUME RemovalInv, NEW p \in Processes, Become(p, Advanced(process[p])),
         process[p].pc \in Working, process[p].held = Nothing, Planned(p).form \notin {"owned", "malformed"},
         UNCHANGED <<disk, confirmation, saves>>
  PROVE  RemovalInv'
<1> DEFINE n == Advanced(process[p])
<1>1. /\ process[p] \in Call /\ CallOK(process[p], kept, confirmation) /\ Known(process[p], saves + 1)
      /\ confirmation \in Seq(Confirmed) /\ Extends(confirmation, confirmation')
  BY Mine
<1>3. /\ n \in Call /\ CallOK(n, kept, confirmation) /\ n.held = Nothing
      /\ n.plan = process[p].plan /\ n.changed = process[p].changed
  <2>1. Planned(p) = process[p].plan[Head(process[p].todo)]
    BY DEF Planned, Current
  <2>2. process[p] \in Call /\ CallOK(process[p], kept, confirmation)
        /\ process[p].pc \in Working /\ process[p].plan[Head(process[p].todo)].form \notin {"owned", "malformed"}
        /\ confirmation \in Seq(Confirmed)
    BY <1>1, <2>1
  <2> HIDE <1>1, <2>1
  <2>3. /\ Advanced(process[p]) \in Call /\ CallOK(Advanced(process[p]), kept, confirmation)
        /\ Advanced(process[p]).held = Nothing
        /\ Advanced(process[p]).plan = process[p].plan
        /\ Advanced(process[p]).changed = process[p].changed
    BY <2>2, PassedOK, Zenon
  <2> QED
    BY <2>3
<1> HIDE DEF n
<1>4. CallOK(n, kept', confirmation') /\ Become(p, n) /\ UNCHANGED <<file, saved, saves>> /\ kept \subseteq kept'
  BY <1>3 DEF disk, n
<1>5. Known(n, saves + 1)
  BY <1>1, <1>3, NoCallShape, Mine DEF Known
<1> QED
  BY <1>1, <1>3, <1>4, <1>5, StillStep

-----------------------------------------------------------------------------
(* The actions that change no file.                                        *)

\* A preview begins, or a removal with the token of one.
LEMMA BeginStep ==
  ASSUME RemovalInv, NEW p \in Processes, BeginPreview(p) \/ BeginRemove(p)
  PROVE  RemovalInv'
<1>2. At(p, "idle") /\ UNCHANGED <<file, saved, saves, kept, confirmation>>
  BY DEF BeginPreview, BeginRemove, disk, database, bounds
<1>3. /\ confirmation \in Seq(Confirmed) /\ Extends(confirmation, confirmation') /\ saves \in Nat
      /\ CallOK(process[p], kept, confirmation)
  BY <1>2, Mine
<1>5. PICK n \in Call : /\ Become(p, n) /\ n.pc = "load" /\ n.token \in 0..Len(confirmation)
                        /\ n.plan = NoCall.plan /\ n.todo = FileOrder
                        /\ n.changed = {} /\ n.held = Nothing
  <2>1. CASE BeginPreview(p)
    <3> DEFINE n == [NoCall EXCEPT !.pc = "load", !.todo = FileOrder]
    <3>1. /\ n \in Call /\ n.pc = "load" /\ n.token = 0 /\ n.plan = NoCall.plan
          /\ n.todo = FileOrder /\ n.changed = {} /\ n.held = Nothing
      BY NoCallShape, Orders DEF Call, Reading
    <3>2. Become(p, n) /\ 0 \in 0..Len(confirmation)
      BY <1>3, <2>1 DEF BeginPreview
    <3> HIDE DEF n
    <3> QED
      BY <3>1, <3>2
  <2>2. CASE BeginRemove(p)
    <3>1. PICK token \in DOMAIN confirmation :
            Become(p, [NoCall EXCEPT !.pc = "load", !.todo = FileOrder, !.token = token])
      BY <2>2 DEF BeginRemove
    <3> DEFINE n == [NoCall EXCEPT !.pc = "load", !.todo = FileOrder, !.token = token]
    <3>2. token \in 0..Len(confirmation) /\ token \in Nat
      BY <1>3
    <3>3. /\ n \in Call /\ n.pc = "load" /\ n.token = token /\ n.plan = NoCall.plan
          /\ n.todo = FileOrder /\ n.changed = {} /\ n.held = Nothing
      BY <3>2, NoCallShape, Orders DEF Call, Reading
    <3>4. Become(p, n)
      BY <3>1
    <3> HIDE DEF n
    <3> QED
      BY <3>2, <3>3, <3>4
  <2> QED
    BY <2>1, <2>2
<1>7. CallOK(n, kept', confirmation')
  BY <1>2, <1>5, Orders DEF CallOK, Reading, Working, Secured, Moving
<1>8. Known(n, saves + 1)
  BY <1>3, <1>5, NoCallShape DEF Known
<1>9. process[p].held = Nothing
  BY <1>2, <1>3, NoCallShape DEF At, CallOK
<1> QED
  BY <1>2, <1>3, <1>5, <1>7, <1>8, <1>9, StillStep

\* What is read of a file has its text, or none.
LEMMA ReadOfContent ==
  ASSUME NEW content \in Content
  PROVE  ReadOf(content) \in Content /\ ReadOf(content).text <= content.text
<1>1. CASE content.form = "malformed"
  BY <1>1 DEF ReadOf, Content
<1>2. CASE content.form # "malformed"
  BY <1>2 DEF ReadOf, Content
<1> QED
  BY <1>1, <1>2

\* One file is read.
LEMMA LoadStep ==
  ASSUME RemovalInv, NEW p \in Processes, Load(p)
  PROVE  RemovalInv'
<1> DEFINE c == process[p]
           x == ReadOf(file[Current(p)])
           pc == IF Tail(c.todo) # <<>> THEN "load" ELSE IF c.token = 0 THEN "preview" ELSE "validate"
           n == [c EXCEPT !.plan[Current(p)] = x, !.todo = Tail(c.todo), !.pc = pc]
<1>1. c.pc = "load" /\ Become(p, n) /\ UNCHANGED <<file, saved, saves, kept, confirmation>>
  BY DEF Load, At, disk, database, bounds
<1>2. /\ c \in Call /\ CallOK(c, kept, confirmation) /\ Known(c, saves + 1)
      /\ confirmation \in Seq(Confirmed) /\ Extends(confirmation, confirmation')
      /\ file \in [Files -> Content] /\ saves \in Nat
  BY <1>1, Mine
<1>3. c.todo \in Remaining /\ c.changed = {} /\ c.held = Nothing /\ c.token \in 0..Len(confirmation)
  BY <1>1, <1>2 DEF CallOK, Reading, Moving
<1>4. Current(p) \in Files /\ Tail(c.todo) \in Remaining \cup {<<>>}
  BY <1>3, Orders DEF Current
<1>5. x \in Content /\ x.text <= saves + 1
  <2>1. file[Current(p)] \in Content /\ file[Current(p)].text <= saves + 1
    BY <1>2, <1>4 DEF RemovalInv, Numbered
  <2>2. file[Current(p)].text \in Nat /\ x.text \in Nat
    BY <2>1, ReadOfContent DEF Content
  <2> QED
    BY <1>2, <2>1, <2>2, ReadOfContent
<1> HIDE DEF x
<1>6. pc \in Reading /\ (pc = "load" => Tail(c.todo) # <<>>) /\ (pc = "validate" => c.token # 0)
  BY DEF Reading
<1> HIDE DEF pc
<1>7. c.plan \in [Files -> Content] /\ [c.plan EXCEPT ![Current(p)] = x] \in [Files -> Content]
  BY <1>2, <1>5 DEF Call
<1>8. /\ n \in Call /\ n.pc = pc /\ n.token = c.token /\ n.plan = [c.plan EXCEPT ![Current(p)] = x]
      /\ n.todo = Tail(c.todo) /\ n.changed = c.changed /\ n.held = c.held
  BY <1>2, <1>4, <1>6, <1>7 DEF Call
<1> HIDE DEF n
<1>9. CallOK(n, kept', confirmation')
  BY <1>1, <1>3, <1>4, <1>6, <1>8 DEF CallOK, Reading, Working, Secured, Moving
<1>10. Known(n, saves + 1)
  BY <1>2, <1>3, <1>5, <1>7, <1>8 DEF Known
<1> QED
  BY <1>1, <1>2, <1>3, <1>8, <1>9, <1>10, StillStep

\* Confirmations are added, and change their status.
LEMMA ConfirmationsStay ==
  ASSUME RemovalInv
  PROVE  /\ \A plan \in [Files -> Content] :
              Extends(confirmation, Append(confirmation, [digest |-> plan, status |-> "open"]))
         /\ \A token \in DOMAIN confirmation, status \in {"expired", "consumed"} :
              Extends(confirmation, [confirmation EXCEPT ![token].status = status])
<1>1. confirmation \in Seq(Confirmed)
  BY DEF RemovalInv, Shaped
<1>2. ASSUME NEW plan \in [Files -> Content]
      PROVE  Extends(confirmation, Append(confirmation, [digest |-> plan, status |-> "open"]))
  <2>1. [digest |-> plan, status |-> "open"] \in Confirmed
    BY DEF Confirmed
  <2> QED
    BY <1>1, <2>1 DEF Extends
<1>3. ASSUME NEW token \in DOMAIN confirmation, NEW status \in {"expired", "consumed"}
      PROVE  Extends(confirmation, [confirmation EXCEPT ![token].status = status])
  <2> DEFINE x == [confirmation[token] EXCEPT !.status = status]
  <2>1. token \in 1..Len(confirmation) /\ confirmation[token] \in Confirmed
    BY <1>1
  <2>2. x \in Confirmed /\ x.digest = confirmation[token].digest
    BY <2>1 DEF Confirmed
  <2>3. [confirmation EXCEPT ![token].status = status] = [confirmation EXCEPT ![token] = x]
    OBVIOUS
  <2> HIDE DEF x
  <2> QED
    BY <1>1, <2>1, <2>2, <2>3 DEF Extends
<1> QED
  BY <1>2, <1>3

\* A preview is stored; a confirmation expires.
LEMMA ConfirmationSteps ==
  ASSUME RemovalInv
  PROVE  /\ \A p \in Processes : StoreConfirmation(p) => RemovalInv'
         /\ \A token \in DOMAIN confirmation : Expire(token) => RemovalInv'
         /\ \A p \in Processes : CompleteMutation(p) => RemovalInv'
<1>1. ASSUME NEW p \in Processes, StoreConfirmation(p)
      PROVE  RemovalInv'
  <2>1. process[p].held = Nothing /\ process[p].plan \in [Files -> Content]
    BY <1>1, Mine DEF StoreConfirmation, At, CallOK, Moving, Call
  <2>2. Extends(confirmation, confirmation')
    BY <1>1, <2>1, ConfirmationsStay DEF StoreConfirmation
  <2> QED
    BY <1>1, <2>1, <2>2, ReturnStep DEF StoreConfirmation, disk, bounds
<1>2. ASSUME NEW token \in DOMAIN confirmation, Expire(token)
      PROVE  RemovalInv'
  <2>1. Extends(confirmation, confirmation') /\ UNCHANGED <<disk, process, bounds>>
    BY <1>2, ConfirmationsStay DEF Expire
  <2>2. \A q \in Processes : CallOK(process[q], kept, confirmation')
    BY <2>1, CallStays DEF RemovalInv, Shaped
  <2>3. Shaped'
    BY <2>1, <2>2 DEF RemovalInv, Shaped, Extends, disk
  <2>4. Numbered' /\ Unique' /\ EverySaveIsKept'
    BY <2>1 DEF RemovalInv, Numbered, Unique, EverySaveIsKept, Current, disk, bounds
  <2> QED
    BY <2>3, <2>4 DEF RemovalInv
<1>3. ASSUME NEW p \in Processes, CompleteMutation(p)
      PROVE  RemovalInv'
  <2>1. /\ process[p].held = Nothing /\ process[p].token \in 0..Len(confirmation)
        /\ process[p].token # 0 /\ confirmation \in Seq(Confirmed)
    BY <1>3, Mine DEF CompleteMutation, At, CallOK, Moving
  <2>2. Extends(confirmation, confirmation')
    <3>1. process[p].token \in DOMAIN confirmation
      BY <2>1
    <3>2. confirmation' = [confirmation EXCEPT ![process[p].token].status = "consumed"]
      BY <1>3 DEF CompleteMutation
    <3> QED
      BY <3>1, <3>2, ConfirmationsStay
  <2> QED
    BY <1>3, <2>1, <2>2, ReturnStep DEF CompleteMutation, disk, bounds
<1> QED
  BY <1>1, <1>2, <1>3

\* A token is found valid: from now on the call does what was confirmed.
LEMMA ValidateStep ==
  ASSUME RemovalInv, NEW p \in Processes, ValidateConfirmation(p)
  PROVE  RemovalInv'
<1> DEFINE c == process[p]
           n == [c EXCEPT !.pc = "mutate", !.todo = FileOrder]
<1>1. c.pc = "validate" /\ UNCHANGED <<file, saved, saves, kept, confirmation>>
  BY DEF ValidateConfirmation, At, disk, database, bounds
<1>2. /\ c \in Call /\ CallOK(c, kept, confirmation) /\ Known(c, saves + 1)
      /\ confirmation \in Seq(Confirmed) /\ Extends(confirmation, confirmation')
  BY <1>1, Mine
<1>3. c.changed = {} /\ c.held = Nothing /\ c.token \in 0..Len(confirmation) /\ c.token # 0
  BY <1>1, <1>2 DEF CallOK, Reading, Moving
<1>4. CASE Valid(p)
  <2>1. Become(p, n) /\ confirmation[c.token].digest = c.plan
    BY <1>4 DEF ValidateConfirmation, Valid
  <2>2. /\ n \in Call /\ n.pc = "mutate" /\ n.token = c.token /\ n.plan = c.plan
        /\ n.todo = FileOrder /\ n.changed = c.changed /\ n.held = c.held
    BY <1>2, Orders DEF Call, Working
  <2> HIDE DEF n
  <2>3. Works(n, confirmation)
    BY <1>2, <1>3, <2>1, <2>2, Orders, PassedOrders DEF Works, OwnedIn
  <2>4. CallOK(n, kept', confirmation')
    BY <1>1, <1>3, <2>2, <2>3 DEF CallOK, Reading, Secured, Moving
  <2>5. Known(n, saves + 1)
    BY <1>2, <2>2 DEF Known
  <2> QED
    BY <1>1, <1>2, <1>3, <2>1, <2>2, <2>4, <2>5, StillStep
<1>5. CASE ~Valid(p)
  BY <1>1, <1>2, <1>3, <1>5, ReturnStep DEF ValidateConfirmation
<1> QED
  BY <1>4, <1>5

\* A file is looked at, backed up and compared.
LEMMA LookSteps ==
  ASSUME RemovalInv, NEW p \in Processes, MutateFile(p) \/ CreateBackup(p) \/ CheckActual(p)
  PROVE  RemovalInv'
<1>1. /\ process[p].pc \in {"mutate", "backup", "check"}
      /\ UNCHANGED <<file, saved, saves, confirmation>> /\ kept \subseteq kept'
  BY DEF MutateFile, CreateBackup, CheckActual, At, disk, database, bounds
<1>2. /\ process[p] \in Call /\ CallOK(process[p], kept, confirmation)
  BY Mine
<1>3. process[p].pc \in Working /\ process[p].held = Nothing
  BY <1>1, <1>2 DEF CallOK, Working, Secured, Moving
<1>4. Planned(p) = process[p].plan[Head(process[p].todo)]
  BY DEF Planned, Current
<1>5. CASE MutateFile(p)
  <2>1. UNCHANGED <<disk, confirmation, saves>>
    BY <1>5 DEF MutateFile, database, bounds
  <2>2. CASE Planned(p).form = "owned" /\ Goto(p, "backup")
    <3>1. ASSUME NEW n \in Call,
                 /\ n.pc = "backup" /\ n.token = process[p].token /\ n.plan = process[p].plan
                 /\ n.todo = process[p].todo /\ n.changed = process[p].changed
                 /\ n.held = process[p].held
          PROVE  CallOK(n, kept', confirmation)
      <4>1. kept' = kept /\ process[p].pc = "mutate"
        BY <1>5 DEF MutateFile, At, disk
      <4> QED
        BY <1>2, <1>3, <1>4, <2>2, <3>1, <4>1 DEF CallOK, Works, OwnedIn, Reading, Working, Secured, Moving
    <3> QED
      BY <1>1, <2>2, <3>1, GoStep DEF Pcs, Working
  <2>3. CASE Planned(p).form \in {"absent", "foreign"} /\ Become(p, Advanced(process[p]))
    BY <1>3, <2>1, <2>3, PassStep
  <2>4. CASE Fail(p)
    BY <1>1, <1>3, <2>4, FailStep
  <2> QED
    BY <1>5, <2>2, <2>3, <2>4 DEF MutateFile
<1>6. CASE CreateBackup(p)
  <2>1. ASSUME NEW n \in Call,
               /\ n.pc = "check" /\ n.token = process[p].token /\ n.plan = process[p].plan
               /\ n.todo = process[p].todo /\ n.changed = process[p].changed
               /\ n.held = process[p].held
        PROVE  CallOK(n, kept', confirmation)
    <3>1. kept' = kept \cup {<<Head(process[p].todo), process[p].plan[Head(process[p].todo)].text>>}
          /\ process[p].pc = "backup"
      BY <1>6, <1>4 DEF CreateBackup, At, Current
    <3> QED
      BY <1>2, <1>3, <2>1, <3>1 DEF CallOK, Works, OwnedIn, Reading, Working, Secured, Moving
  <2>2. Goto(p, "check")
    BY <1>6 DEF CreateBackup
  <2> QED
    BY <1>1, <2>1, <2>2, GoStep DEF Pcs, Working, Secured
<1>7. CASE CheckActual(p)
  <2>1. CASE Goto(p, "displace")
    <3>1. ASSUME NEW n \in Call,
                 /\ n.pc = "displace" /\ n.token = process[p].token /\ n.plan = process[p].plan
                 /\ n.todo = process[p].todo /\ n.changed = process[p].changed
                 /\ n.held = process[p].held
          PROVE  CallOK(n, kept', confirmation)
      <4>1. kept' = kept /\ process[p].pc = "check"
        BY <1>7 DEF CheckActual, At, disk
      <4> QED
        BY <1>2, <1>3, <3>1, <4>1 DEF CallOK, Works, OwnedIn, Reading, Working, Secured, Moving
    <3> QED
      BY <1>1, <2>1, <3>1, GoStep DEF Pcs, Working, Secured
  <2>2. CASE Fail(p)
    BY <1>1, <1>3, <2>2, FailStep
  <2> QED
    BY <1>7, <2>1, <2>2 DEF CheckActual
<1> QED
  BY <1>5, <1>6, <1>7

\* A call that has moved a file compares it, finds its place taken, or looks
\* whether it is free.
LEMMA MovedSteps ==
  ASSUME RemovalInv, NEW p \in Processes, CompareDisplaced(p) \/ Occupied(p) \/ LookAtPlace(p)
  PROVE  RemovalInv'
<1>1. /\ process[p].pc \in {"compare", "occupied", "look"}
      /\ UNCHANGED <<file, saved, saves, confirmation>> /\ kept \subseteq kept'
  BY DEF CompareDisplaced, Occupied, LookAtPlace, At, disk, database, bounds
<1>2. /\ process[p] \in Call /\ CallOK(process[p], kept, confirmation)
      /\ confirmation \in Seq(Confirmed) /\ Extends(confirmation, confirmation)
  BY Mine
<1>3. CallOK(process[p], kept', confirmation)
  BY <1>1, <1>2, CallStays
<1>4. process[p].pc \in Working
  BY <1>1 DEF Working, Secured, Moving
<1>5. ASSUME NEW pc \in {"finish", "look", "restore"}, Goto(p, pc),
             pc = "finish" => process[p].held = Planned(p)
      PROVE  RemovalInv'
  <2>1. ASSUME NEW n \in Call,
               /\ n.pc = pc /\ n.token = process[p].token /\ n.plan = process[p].plan
               /\ n.todo = process[p].todo /\ n.changed = process[p].changed
               /\ n.held = process[p].held
        PROVE  CallOK(n, kept', confirmation)
    BY <1>1, <1>3, <1>4, <1>5, <2>1
       DEF CallOK, Works, OwnedIn, Reading, Working, Secured, Moving, Planned, Current
  <2> QED
    BY <1>1, <1>5, <2>1, GoStep DEF Pcs, Working, Secured, Moving
<1>6. CASE CompareDisplaced(p)
  BY <1>5, <1>6 DEF CompareDisplaced, AsRead
<1>7. CASE Occupied(p)
  <2>1. process[p].pc = "occupied"
    BY <1>7 DEF Occupied, At
  <2>2. <<Current(p), process[p].held.text>> \in kept'
    BY <1>1, <1>3, <2>1 DEF CallOK, Secured, Moving, Current
  <2> QED
    BY <1>1, <1>4, <1>5, <1>7, <2>2, FailStep DEF Occupied
<1>8. CASE LookAtPlace(p)
  BY <1>1, <1>4, <1>5, <1>8, FailStep DEF LookAtPlace
<1> QED
  BY <1>6, <1>7, <1>8

\* A call is killed, or an operation of it fails.
LEMMA FaultSteps ==
  ASSUME RemovalInv, NEW p \in Processes, Crash(p) \/ Error(p)
  PROVE  RemovalInv'
<1>1. UNCHANGED <<file, saved, saves, confirmation>> /\ kept \subseteq kept'
  BY DEF Crash, Error, database
<1>2. /\ process[p] \in Call /\ CallOK(process[p], kept, confirmation)
      /\ confirmation \in Seq(Confirmed) /\ Extends(confirmation, confirmation')
  BY <1>1, Mine
<1>3. CallOK(process[p], kept', confirmation)
  BY <1>1, <1>2, CallStays
<1>4. kept' = kept \cup LeftAside(p) => (process[p].held # Nothing => <<Current(p), process[p].held.text>> \in kept')
  BY DEF LeftAside
<1>5. CASE Crash(p)
  BY <1>1, <1>2, <1>4, <1>5, ReturnStep DEF Crash
<1>6. CASE /\ process[p].pc \in {"load", "preview", "validate", "undo", "complete"}
           /\ Return(p)
  <2>1. process[p].held = Nothing
    BY <1>2, <1>6 DEF CallOK, Moving
  <2> QED
    BY <1>1, <1>2, <1>6, <2>1, ReturnStep
<1>7. CASE process[p].pc \in {"backup", "check", "displace"} /\ Fail(p)
  <2>1. process[p].held = Nothing /\ process[p].pc \in Working
    BY <1>2, <1>7 DEF CallOK, Working, Secured, Moving
  <2> QED
    BY <1>1, <1>7, <2>1, FailStep
<1>8. CASE /\ process[p].pc \in {"compare", "finish"}
           /\ Goto(p, IF At(p, "compare") THEN "look" ELSE "occupied")
  <2> DEFINE pc == IF At(p, "compare") THEN "look" ELSE "occupied"
  <2>1. pc \in Pcs /\ pc \in {"look", "occupied"} /\ (pc = "occupied" => process[p].pc = "finish")
    BY <1>8 DEF Pcs, Working, Secured, Moving, At
  <2>2. Goto(p, pc)
    BY <1>8
  <2> HIDE DEF pc
  <2>3. ASSUME NEW n \in Call,
               /\ n.pc = pc /\ n.token = process[p].token /\ n.plan = process[p].plan
               /\ n.todo = process[p].todo /\ n.changed = process[p].changed
               /\ n.held = process[p].held
        PROVE  CallOK(n, kept', confirmation)
    BY <1>3, <1>8, <2>1, <2>3
       DEF CallOK, Works, OwnedIn, Reading, Working, Secured, Moving
  <2> QED
    BY <1>1, <2>1, <2>2, <2>3, GoStep
<1>9. CASE /\ process[p].pc \in {"restore", "compare", "finish"}
           /\ kept' = kept \cup LeftAside(p) /\ Fail(p)
  <2>1. process[p].pc \in Working
    BY <1>9 DEF Working, Secured, Moving
  <2> QED
    BY <1>1, <1>4, <1>9, <2>1, FailStep
<1> QED
  BY <1>5, <1>6, <1>7, <1>8, <1>9 DEF Error, At

-----------------------------------------------------------------------------
(* The actions that change files, or drop one.                             *)

\* Nothing is in two places after a step of one call, if that call is apart from
\* the others and every call from what is in the places now.
LEMMA UniqueStep ==
  ASSUME RemovalInv, NEW p \in Processes, NEW n \in Call, Become(p, n),
         \A f \in Contracts :
           /\ Apart(n, f, file'[f])
           /\ \A q \in Processes \ {p} : /\ Apart(process[q], f, file'[f])
                                         /\ Disjoint(n, process[q], f)
  PROVE  Unique'
<1>1. /\ process'[p] = n
      /\ \A q \in Processes : q # p => process'[q] = process[q]
  BY Becomes DEF RemovalInv
<1>2. \A c, d \in Call, f \in Contracts : Disjoint(c, d, f) => Disjoint(d, c, f)
  BY DEF Disjoint, Apart
<1>3. \A q \in Processes : process[q] \in Call
  BY DEF RemovalInv, Shaped
<1> SUFFICES ASSUME NEW f \in Contracts, NEW q \in Processes
             PROVE  /\ Apart(process'[q], f, file'[f])
                    /\ \A r \in Processes \ {q} : Disjoint(process'[q], process'[r], f)
  BY DEF Unique
<1>4. CASE q = p
  BY <1>1, <1>4
<1>5. CASE q # p
  <2>1. Disjoint(process[q], n, f)
    BY <1>2, <1>3, <1>5
  <2>2. \A r \in Processes \ {q} : Disjoint(process[q], process[r], f)
    BY DEF RemovalInv, Unique
  <2> QED
    BY <1>1, <1>5, <2>1, <2>2
<1> QED
  BY <1>4, <1>5

\* The files and the calls keep to their values, and to the texts there are,
\* when a call changes one file.
LEMMA MovingStep ==
  ASSUME RemovalInv, NEW p \in Processes, NEW n \in Call, Become(p, n),
         NEW f \in Files, NEW x \in Content, file' = [file EXCEPT ![f] = x],
         x.text <= saves + 1, UNCHANGED <<kept, confirmation, saves>>, saved' \in [Files -> Nat],
         CallOK(n, kept, confirmation), Known(n, saves + 1)
  PROVE  /\ Shaped' /\ Numbered'
         /\ file'[f] = x /\ \A g \in Files : g # f => file'[g] = file[g]
<1>1. file \in [Files -> Content] /\ confirmation \in Seq(Confirmed) /\ Extends(confirmation, confirmation')
  BY Mine
<1>2. /\ file' \in [Files -> Content]
      /\ file'[f] = x /\ \A g \in Files : g # f => file'[g] = file[g]
  BY <1>1
<1>3. Shaped'
  BY <1>1, <1>2, ShapedStep DEF RemovalInv
<1>4. Numbered'
  <2>1. /\ process'[p] = n
        /\ \A q \in Processes : q # p => process'[q] = process[q]
    BY Becomes DEF RemovalInv
  <2> QED
    BY <1>2, <2>1 DEF RemovalInv, Numbered
<1> QED
  BY <1>2, <1>3, <1>4

\* What a person saved is still kept, if a call that drops or overwrites it has
\* kept it or put it in its place.
LEMMA SavedStep ==
  ASSUME RemovalInv, NEW p \in Processes, NEW n \in Call, Become(p, n), kept' = kept,
         \A f \in Files : saved'[f] # 0 =>
           \/ file'[f].text = saved'[f] \/ <<f, saved'[f]>> \in kept
           \/ Holds(n, f) /\ n.held.text = saved'[f]
           \/ /\ saved'[f] = saved[f] /\ file[f].text # saved[f]
              /\ ~(Holds(process[p], f) /\ process[p].held.text = saved[f])
  PROVE  EverySaveIsKept'
<1>1. /\ process'[p] = n
      /\ \A q \in Processes : q # p => process'[q] = process[q]
  BY Becomes DEF RemovalInv
<1> SUFFICES ASSUME NEW f \in Files, saved'[f] # 0, file'[f].text # saved'[f], <<f, saved'[f]>> \notin kept
             PROVE  \E q \in Processes : /\ process'[q].held # Nothing
                                         /\ Head(process'[q].todo) = f /\ process'[q].held.text = saved'[f]
  BY DEF EverySaveIsKept, Current
<1>2. CASE Holds(n, f) /\ n.held.text = saved'[f]
  BY <1>1, <1>2 DEF Holds
<1>3. CASE /\ saved'[f] = saved[f] /\ file[f].text # saved[f]
           /\ ~(Holds(process[p], f) /\ process[p].held.text = saved[f])
  <2>1. PICK q \in Processes : /\ process[q].held # Nothing
                               /\ Current(q) = f /\ process[q].held.text = saved[f]
    BY <1>3 DEF RemovalInv, EverySaveIsKept
  <2>2. q # p
    BY <1>3, <2>1 DEF Holds, Current
  <2> QED
    BY <1>1, <1>3, <2>1, <2>2 DEF Current
<1> QED
  BY <1>2, <1>3

\* A file is moved out of its place.
LEMMA DisplaceStep ==
  ASSUME RemovalInv, NEW p \in Processes, Displace(p)
  PROVE  RemovalInv'
<1> DEFINE c == process[p]
           f == Current(p)
           n == [c EXCEPT !.pc = "compare", !.held = file[f]]
<1>1. c.pc = "displace" /\ UNCHANGED <<saved, saves, kept, confirmation>>
  BY DEF Displace, At, database, bounds
<1>2. /\ c \in Call /\ CallOK(c, kept, confirmation) /\ Known(c, saves + 1)
      /\ confirmation \in Seq(Confirmed) /\ Extends(confirmation, confirmation')
      /\ file \in [Files -> Content] /\ saves \in Nat
  BY <1>1, Mine
<1>3. c.held = Nothing /\ c.pc \in Working /\ f \in Files /\ Works(c, confirmation)
  BY <1>1, <1>2, Orders DEF CallOK, Working, Secured, Moving, Works, Current
<1>4. CASE file[f] = Nothing
  BY <1>1, <1>3, <1>4, FailStep DEF Displace
<1>5. CASE file[f] # Nothing
  <2>1. Become(p, n) /\ file' = [file EXCEPT ![f] = Nothing]
    BY <1>5 DEF Displace
  <2>2. /\ n \in Call /\ n.pc = "compare" /\ n.token = c.token /\ n.plan = c.plan
        /\ n.todo = c.todo /\ n.changed = c.changed /\ n.held = file[f]
    BY <1>2, <1>3 DEF Call, Working, Secured, Moving
  <2>3. Head(n.todo) = f /\ Head(c.todo) = f
    BY <2>2 DEF Current
  <2> HIDE DEF n, f
  <2>4. CallOK(n, kept, confirmation)
    BY <1>1, <1>2, <1>5, <2>2 DEF CallOK, Works, OwnedIn, Reading, Working, Secured, Moving
  <2>5. Known(n, saves + 1)
    BY <1>2, <1>3, <2>2 DEF Known, RemovalInv, Numbered
  <2>6. /\ Shaped' /\ Numbered'
        /\ file'[f] = Nothing /\ \A g \in Files : g # f => file'[g] = file[g]
    <3>1. Nothing \in Content /\ Nothing.text <= saves + 1
      BY <1>2, NoCallShape
    <3>2. n \in Call /\ Become(p, n) /\ f \in Files /\ file' = [file EXCEPT ![f] = Nothing]
          /\ UNCHANGED <<kept, confirmation, saves>> /\ saved' \in [Files -> Nat]
      BY <1>1, <1>3, <2>1, <2>2, Mine
    <3> QED
      BY <2>4, <2>5, <3>1, <3>2, MovingStep
  <2>10. ASSUME NEW g \in Contracts
         PROVE  Apart(n, g, file'[g])
    <3>1. Apart(c, g, file[g]) /\ g \in Files
      BY DEF RemovalInv, Unique, Contracts, Files
    <3>2. g \in c.changed => c.plan[g] # Nothing
      BY <1>2 DEF CallOK, Nothing
    <3> QED
      BY <1>5, <2>2, <2>3, <2>6, <3>1, <3>2 DEF Apart, Holds
  <2>7. ASSUME NEW g \in Contracts, NEW q \in Processes \ {p}
        PROVE  Apart(process[q], g, file'[g]) /\ Disjoint(n, process[q], g)
    <3>1. /\ Apart(process[q], g, file[g]) /\ Disjoint(c, process[q], g) /\ g \in Files
          /\ CallOK(process[q], kept, confirmation)
      BY DEF RemovalInv, Unique, Shaped, Contracts, Files
    <3>2. g \in process[q].changed => process[q].plan[g] # Nothing
      BY <3>1 DEF CallOK, Nothing
    <3>3. Apart(process[q], g, file'[g])
      BY <2>6, <3>1, <3>2 DEF Apart, Holds
    <3>4. Disjoint(n, process[q], g)
      BY <1>3, <2>2, <2>3, <3>1 DEF Disjoint, Apart, Holds
    <3> QED
      BY <3>3, <3>4
  <2>8. Unique'
    BY <2>1, <2>2, <2>7, <2>10, UniqueStep
  <2>9. EverySaveIsKept'
    <3>1. ASSUME NEW g \in Files, saved'[g] # 0
          PROVE  \/ file'[g].text = saved'[g] \/ <<g, saved'[g]>> \in kept
                 \/ Holds(n, g) /\ n.held.text = saved'[g]
                 \/ /\ saved'[g] = saved[g] /\ file[g].text # saved[g]
                    /\ ~(Holds(process[p], g) /\ process[p].held.text = saved[g])
      BY <1>1, <1>3, <1>5, <2>2, <2>3, <2>6, <3>1 DEF Holds
    <3> QED
      BY <1>1, <2>1, <2>2, <3>1, SavedStep
  <2> QED
    BY <2>6, <2>8, <2>9 DEF RemovalInv
<1> QED
  BY <1>4, <1>5

\* A call that has finished with the file it has moved: what was moved is what
\* was read, has its backup, and is Workboard's.
LEMMA Finishing ==
  ASSUME RemovalInv, NEW p \in Processes, process[p].pc = "finish"
  PROVE  /\ Works(process[p], confirmation) /\ Current(p) \in Files
         /\ Current(p) \notin process[p].changed
         /\ process[p].held = Planned(p) /\ process[p].held # Nothing
         /\ Planned(p) = process[p].plan[Current(p)] /\ Planned(p).form = "owned"
         /\ <<Current(p), Planned(p).text>> \in kept
<1>1. CallOK(process[p], kept, confirmation) /\ process[p].pc \in {"finish"} \cap Working \cap Secured \cap Moving
  BY Mine DEF Working, Secured, Moving
<1>2. Works(process[p], confirmation)
  BY <1>1 DEF CallOK
<1>3. Current(p) \in Files /\ Current(p) \notin process[p].changed
  BY <1>2, Orders, PassedOrders DEF Works, Current, OwnedIn
<1> QED
  BY <1>1, <1>2, <1>3 DEF CallOK, Working, Current, Planned

\* What the call becomes that has removed a file.
LEMMA Removed ==
  ASSUME RemovalInv, NEW p \in Processes, process[p].pc = "finish"
  PROVE  LET n == Advanced([process[p] EXCEPT !.changed = @ \cup {Current(p)}])
         IN  /\ n \in Call /\ CallOK(n, kept, confirmation) /\ n.held = Nothing
             /\ n.plan = process[p].plan /\ n.changed = process[p].changed \cup {Current(p)}
             /\ Known(n, saves + 1)
<1>1. /\ process[p] \in Call /\ CallOK(process[p], kept, confirmation)
      /\ confirmation \in Seq(Confirmed) /\ process[p].pc \in Working
      /\ IsOwned(process[p])
  BY Mine, Finishing DEF Working, Secured, Moving, Current, IsOwned
<1>2. \E n \in Call : Onward(n, process[p]) /\ CallOK(n, kept, confirmation)
  BY <1>1, RemovedOK
<1>3. \A n \in Call : n.plan = process[p].plan /\ n.held = Nothing => Known(n, saves + 1)
  BY Mine, NoCallShape DEF Known
<1> QED
  BY <1>2, <1>3 DEF Onward, Current, HavingRemoved

\* A contract that was moved is dropped.
LEMMA RemoveStep ==
  ASSUME RemovalInv, NEW p \in Processes, RemoveContract(p)
  PROVE  RemovalInv'
<1> DEFINE c == process[p]
           f == Current(p)
           n == Advanced([c EXCEPT !.changed = @ \cup {Current(p)}])
<1>1. /\ c.pc = "finish" /\ f # "configuration" /\ Become(p, n)
      /\ UNCHANGED <<file, saved, saves, kept, confirmation>>
  BY DEF RemoveContract, At, disk, database, bounds
<1>2. /\ n \in Call /\ CallOK(n, kept, confirmation) /\ n.held = Nothing
      /\ n.plan = c.plan /\ n.changed = c.changed \cup {f} /\ Known(n, saves + 1)
  BY <1>1, Removed
<1>3. /\ f \in Files /\ c.held = c.plan[f] /\ c.held # Nothing /\ Holds(c, f)
      /\ <<f, c.held.text>> \in kept
  BY <1>1, Finishing DEF Holds, Current
<1>4. \A g : Holds(c, g) => g = f
  BY DEF Holds, Current
<1> HIDE DEF n, f
<1>5. /\ Extends(confirmation, confirmation') /\ file' \in [Files -> Content]
      /\ saved' \in [Files -> Nat]
  BY <1>1, Mine
<1>6. Shaped'
  BY <1>1, <1>2, <1>5, ShapedStep DEF RemovalInv
<1>7. Numbered'
  <2>1. /\ process'[p] = n
        /\ \A q \in Processes : q # p => process'[q] = process[q]
    BY <1>1, <1>2, Becomes DEF RemovalInv
  <2> QED
    BY <1>1, <1>2, <2>1 DEF RemovalInv, Numbered
<1>8. ASSUME NEW g \in Contracts
      PROVE  Apart(n, g, file'[g])
  <2>1. Apart(c, g, file[g])
    BY DEF RemovalInv, Unique
  <2> QED
    BY <1>1, <1>2, <1>3, <2>1 DEF Apart, Holds
<1>9. ASSUME NEW g \in Contracts, NEW q \in Processes \ {p}
      PROVE  Apart(process[q], g, file'[g]) /\ Disjoint(n, process[q], g)
  <2>1. Apart(process[q], g, file[g]) /\ Disjoint(c, process[q], g)
    BY DEF RemovalInv, Unique
  <2> QED
    BY <1>1, <1>2, <1>3, <2>1 DEF Disjoint, Apart, Holds
<1>10. Unique'
  BY <1>1, <1>2, <1>8, <1>9, UniqueStep
<1>11. ASSUME NEW g \in Files, saved'[g] # 0
       PROVE  \/ file'[g].text = saved'[g] \/ <<g, saved'[g]>> \in kept
              \/ Holds(n, g) /\ n.held.text = saved'[g]
              \/ /\ saved'[g] = saved[g] /\ file[g].text # saved[g]
                 /\ ~(Holds(process[p], g) /\ process[p].held.text = saved[g])
  BY <1>1, <1>3, <1>4
<1>12. EverySaveIsKept'
  BY <1>1, <1>2, <1>11, SavedStep
<1> QED
  BY <1>6, <1>7, <1>10, <1>12 DEF RemovalInv

\* A configuration without Workboard's part takes the place of the one that was
\* moved, if nothing is there.
LEMMA PersistStep ==
  ASSUME RemovalInv, NEW p \in Processes, PersistConfiguration(p)
  PROVE  RemovalInv'
<1> DEFINE c == process[p]
           x == RemoveOwned(Planned(p))
           n == Advanced([c EXCEPT !.changed = @ \cup {"configuration"}])
<1>1. /\ c.pc = "finish" /\ Current(p) = "configuration"
      /\ UNCHANGED <<saved, saves, kept, confirmation>>
  BY DEF PersistConfiguration, At, database, bounds
<1>2. /\ "configuration" \in Files /\ c.held = c.plan["configuration"] /\ c.held # Nothing
      /\ Holds(c, "configuration") /\ <<"configuration", c.held.text>> \in kept
      /\ Planned(p) = c.held
  BY <1>1, Finishing DEF Holds, Current
<1>3. CASE file["configuration"] # Nothing
  <2>1. /\ CallOK(c, kept, confirmation) /\ c.pc \in Working
    BY <1>1, Mine DEF Working, Secured, Moving
  <2>2. ASSUME NEW m \in Call,
               /\ m.pc = "occupied" /\ m.token = c.token /\ m.plan = c.plan
               /\ m.todo = c.todo /\ m.changed = c.changed
               /\ m.held = c.held
        PROVE  CallOK(m, kept', confirmation)
    BY <1>1, <2>1, <2>2 DEF CallOK, Works, OwnedIn, Reading, Working, Secured, Moving
  <2>3. Goto(p, "occupied") /\ file' = file /\ "occupied" \in Pcs
    BY <1>3 DEF PersistConfiguration, Pcs, Working, Secured, Moving
  <2> QED
    BY <1>1, <2>2, <2>3, GoStep
<1>4. CASE file["configuration"] = Nothing
  <2>1. Become(p, n) /\ file' = [file EXCEPT !["configuration"] = x]
    BY <1>4 DEF PersistConfiguration
  <2>2. /\ n \in Call /\ CallOK(n, kept, confirmation) /\ n.held = Nothing
        /\ n.plan = c.plan /\ n.changed = c.changed \cup {"configuration"} /\ Known(n, saves + 1)
    BY <1>1, Removed
  <2>3. x \in Content /\ x.text = c.held.text /\ x.text <= saves + 1
    <3>1. c.held \in Content /\ c.held.text <= saves + 1
      BY Mine DEF Call, Known
    <3> QED
      BY <1>2, <3>1 DEF RemoveOwned, Content
  <2> HIDE DEF n, x
  <2>4. /\ Shaped' /\ Numbered'
        /\ file'["configuration"] = x /\ \A g \in Files : g # "configuration" => file'[g] = file[g]
    BY <1>1, <1>2, <2>1, <2>2, <2>3, MovingStep, Mine
  <2>5. \A g \in Contracts : g \in Files /\ g # "configuration"
    BY DEF Contracts, Files
  <2>6. ASSUME NEW g \in Contracts
        PROVE  Apart(n, g, file'[g])
    <3>1. Apart(c, g, file[g])
      BY DEF RemovalInv, Unique
    <3> QED
      BY <2>2, <2>4, <2>5, <3>1 DEF Apart, Holds
  <2>7. ASSUME NEW g \in Contracts, NEW q \in Processes \ {p}
        PROVE  Apart(process[q], g, file'[g]) /\ Disjoint(n, process[q], g)
    <3>1. Apart(process[q], g, file[g]) /\ Disjoint(c, process[q], g)
      BY DEF RemovalInv, Unique
    <3> QED
      BY <2>2, <2>4, <2>5, <3>1 DEF Disjoint, Apart, Holds
  <2>8. Unique'
    BY <2>1, <2>2, <2>6, <2>7, UniqueStep
  <2>9. ASSUME NEW g \in Files, saved'[g] # 0
        PROVE  \/ file'[g].text = saved'[g] \/ <<g, saved'[g]>> \in kept
               \/ Holds(n, g) /\ n.held.text = saved'[g]
               \/ /\ saved'[g] = saved[g] /\ file[g].text # saved[g]
                  /\ ~(Holds(process[p], g) /\ process[p].held.text = saved[g])
    <3>1. Nothing.text = 0 /\ (Holds(c, g) => g = "configuration")
      BY <1>1, NoCallShape DEF Holds, Current
    <3> QED
      BY <1>1, <1>4, <2>3, <2>4, <2>9, <3>1
  <2>10. EverySaveIsKept'
    BY <1>1, <2>1, <2>2, <2>9, SavedStep
  <2> QED
    BY <2>4, <2>8, <2>10 DEF RemovalInv
<1> QED
  BY <1>3, <1>4

\* What was moved is renamed back over whatever has come there: what a person
\* had saved there is lost, and no longer counts as saved.
LEMMA RestoreStep ==
  ASSUME RemovalInv, NEW p \in Processes, RestoreDisplaced(p)
  PROVE  RemovalInv'
<1> DEFINE c == process[p]
           f == Current(p)
           n == Failed(c)
<1>1. /\ c.pc = "restore" /\ Become(p, n) /\ file' = [file EXCEPT ![f] = c.held]
      /\ saved' = IF file[f] = Nothing THEN saved ELSE [saved EXCEPT ![f] = 0]
      /\ UNCHANGED <<saves, kept, confirmation>>
  BY DEF RestoreDisplaced, Fail, At, database, bounds
<1>2. /\ c \in Call /\ CallOK(c, kept, confirmation) /\ Known(c, saves + 1) /\ saves \in Nat
      /\ confirmation \in Seq(Confirmed) /\ c.pc \in Working
  BY <1>1, Mine DEF Working, Secured, Moving
<1>3. c.held # Nothing /\ Works(c, confirmation)
  BY <1>1, <1>2 DEF CallOK, Moving
<1>4. f \in Files /\ f \notin c.changed /\ Holds(c, f) /\ \A g : Holds(c, g) => g = f
  BY <1>3, Orders, PassedOrders DEF Works, Current, OwnedIn, Holds
<1>5. /\ n \in Call /\ CallOK(n, kept, confirmation) /\ n.held = Nothing
      /\ \/ n = NoCall /\ c.changed = {}
         \/ n.plan = c.plan /\ n.changed = c.changed /\ n.pc = "undo"
  BY <1>2, FailedOK
<1> HIDE DEF n, f
<1>6. Known(n, saves + 1) /\ (n.changed = {} \/ (n.plan = c.plan /\ n.changed = c.changed))
  BY <1>2, <1>5, NoCallShape DEF Known
<1>7. c.held \in Content /\ c.held.text <= saves + 1
  BY <1>2 DEF Call, Known
<1>8. /\ Shaped' /\ Numbered'
      /\ file'[f] = c.held /\ \A g \in Files : g # f => file'[g] = file[g]
  <2>1. saved' \in [Files -> Nat]
    BY <1>1, Mine
  <2> QED
    BY <1>1, <1>4, <1>5, <1>6, <1>7, <2>1, MovingStep
<1>9. \A g \in Contracts : g \in Files
  BY DEF Contracts, Files
<1>10. ASSUME NEW g \in Contracts
       PROVE  Apart(n, g, file'[g])
  <2>1. Apart(c, g, file[g])
    BY DEF RemovalInv, Unique
  <2> QED
    BY <1>4, <1>5, <1>6, <1>8, <1>9, <2>1 DEF Apart, Holds
<1>11. ASSUME NEW g \in Contracts, NEW q \in Processes \ {p}
       PROVE  Apart(process[q], g, file'[g]) /\ Disjoint(n, process[q], g)
  <2>1. Apart(process[q], g, file[g]) /\ Disjoint(c, process[q], g)
    BY DEF RemovalInv, Unique
  <2>2. Apart(process[q], g, file'[g])
    BY <1>4, <1>8, <1>9, <2>1 DEF Disjoint, Apart, Holds
  <2>3. Disjoint(n, process[q], g)
    BY <1>5, <1>6, <2>1 DEF Disjoint, Apart, Holds
  <2> QED
    BY <2>2, <2>3
<1>12. Unique'
  BY <1>1, <1>5, <1>10, <1>11, UniqueStep
<1>13. ASSUME NEW g \in Files, saved'[g] # 0
       PROVE  \/ file'[g].text = saved'[g] \/ <<g, saved'[g]>> \in kept
              \/ Holds(n, g) /\ n.held.text = saved'[g]
              \/ /\ saved'[g] = saved[g] /\ file[g].text # saved[g]
                 /\ ~(Holds(process[p], g) /\ process[p].held.text = saved[g])
  <2>1. CASE file[f] = Nothing
    BY <1>1, <1>4, <1>8, <1>13, <2>1, NoCallShape
  <2>2. CASE file[f] # Nothing
    <3>1. CASE g = f
      <4>1. saved \in [Files -> Nat]
        BY Mine
      <4> QED
        BY <1>1, <1>4, <1>13, <2>2, <3>1, <4>1
    <3>3. CASE g # f
      BY <1>1, <1>4, <1>8, <1>13, <2>2, <3>3
    <3> QED
      BY <3>1, <3>3
  <2> QED
    BY <2>1, <2>2
<1>14. EverySaveIsKept'
  BY <1>1, <1>5, <1>13, SavedStep
<1> QED
  BY <1>8, <1>12, <1>14 DEF RemovalInv

\* One contract is put back, or undoing gives up.
LEMMA UndoStep ==
  ASSUME RemovalInv, NEW p \in Processes, UndoFile(p)
  PROVE  RemovalInv'
<1> DEFINE c == process[p]
           f == Current(p)
           rest == IF Tail(c.todo) = <<>> THEN NoCall
                   ELSE [c EXCEPT !.todo = Tail(c.todo), !.changed = c.changed \ {f}]
<1>1. c.pc = "undo" /\ UNCHANGED <<saved, saves, kept, confirmation>>
  BY DEF UndoFile, At, database, bounds
<1>2. /\ c \in Call /\ CallOK(c, kept, confirmation) /\ Known(c, saves + 1) /\ saves \in Nat
      /\ confirmation \in Seq(Confirmed) /\ Extends(confirmation, confirmation')
  BY <1>1, Mine
<1>3. Unwinds(c) /\ c.held = Nothing /\ c.token \in 0..Len(confirmation)
  BY <1>1, <1>2 DEF CallOK, Moving
<1>4. f \in Contracts /\ f \in Files /\ Tail(c.todo) \in Undoing \cup {<<>>} /\ f \in Left(c.todo)
  BY <1>3, Orders DEF Unwinds, Current, Left, Contracts, Files
<1>5. \A g : ~Holds(c, g)
  BY <1>3 DEF Holds
<1>6. PICK n \in Call : /\ n = rest /\ n.held = Nothing /\ CallOK(n, kept, confirmation)
                        /\ n.changed = {} \/ (n.plan = c.plan /\ n.changed = c.changed \ {f})
  <2>1. CASE Tail(c.todo) = <<>>
    BY <1>2, <2>1, NoCallShape, NoCallOK
  <2>2. CASE Tail(c.todo) # <<>>
    <3>1. /\ rest \in Call /\ rest.pc = "undo" /\ rest.todo = Tail(c.todo) /\ rest.token = c.token
          /\ rest.plan = c.plan /\ rest.changed = c.changed \ {f} /\ rest.held = c.held
      BY <1>1, <1>2, <1>4, <2>2 DEF Call
    <3> HIDE DEF rest
    <3>2. Left(rest.todo) = Left(c.todo) \ {f}
      BY <1>3, <2>2, <3>1, LeftOrders DEF Unwinds, Current
    <3>3. Unwinds(rest)
      BY <1>3, <1>4, <2>2, <3>1, <3>2 DEF Unwinds, OwnedIn
    <3>4. \A g \in rest.changed : rest.plan[g].form = "owned"
      BY <1>2, <3>1 DEF CallOK
    <3>5. CallOK(rest, kept, confirmation)
      BY <1>3, <3>1, <3>3, <3>4 DEF CallOK, Reading, Working, Secured, Moving
    <3> QED
      BY <1>3, <3>1, <3>5
  <2> QED
    BY <2>1, <2>2
<1>7. Known(n, saves + 1)
  <2>1. \A g \in Files : n.plan[g] \in {c.plan[g], Nothing}
    <3>1. CASE Tail(c.todo) = <<>>
      BY <1>6, <3>1, NoCallShape
    <3>2. CASE Tail(c.todo) # <<>>
      <4>1. rest.plan = c.plan
        BY <1>2, <3>2 DEF Call
      <4> QED
        BY <1>6, <4>1
    <3> QED
      BY <3>1, <3>2
  <2> HIDE DEF rest
  <2> QED
    BY <1>2, <1>6, <2>1, NoCallShape DEF Known
<1>8. Planned(p) = c.plan[f]
  BY DEF Planned
<1> HIDE DEF rest, f
<1>9. CASE Become(p, n) /\ file' = file
  <2>1. CallOK(n, kept', confirmation')
    BY <1>1, <1>6
  <2>2. n.changed = {} \/ (n.plan = c.plan /\ n.changed \subseteq c.changed)
    BY <1>6
  <2> QED
    BY <1>1, <1>2, <1>3, <1>6, <1>7, <1>9, <2>1, <2>2, StillStep
<1>10. CASE Return(p) /\ file' = file
  BY <1>1, <1>2, <1>3, <1>10, ReturnStep
<1>11. CASE /\ c.plan[f].form = "owned" /\ file[f] = Nothing
            /\ file' = [file EXCEPT ![f] = c.plan[f]] /\ Become(p, n)
  <2>1. f \in c.changed
    BY <1>3, <1>4, <1>11 DEF Unwinds, OwnedIn
  <2>2. c.plan[f] \in Content /\ c.plan[f].text <= saves + 1
    BY <1>2, <1>4 DEF Call, Known
  <2>3. saved' \in [Files -> Nat]
    BY <1>1, Mine
  <2>4. /\ Shaped' /\ Numbered'
        /\ file'[f] = c.plan[f] /\ \A g \in Files : g # f => file'[g] = file[g]
    BY <1>1, <1>4, <1>6, <1>7, <1>11, <2>2, <2>3, MovingStep
  <2>5. \A g \in Contracts : g \in Files
    BY DEF Contracts, Files
  <2>6. ASSUME NEW g \in Contracts
        PROVE  Apart(n, g, file'[g])
    <3>1. Apart(c, g, file[g])
      BY DEF RemovalInv, Unique
    <3> QED
      BY <1>6, <2>4, <2>5, <3>1 DEF Apart, Holds
  <2>7. ASSUME NEW g \in Contracts, NEW q \in Processes \ {p}
        PROVE  Apart(process[q], g, file'[g]) /\ Disjoint(n, process[q], g)
    <3>1. /\ Apart(process[q], g, file[g]) /\ Disjoint(c, process[q], g)
          /\ Disjoint(process[q], c, g)
      BY DEF RemovalInv, Unique
    <3>2. Apart(process[q], g, file'[g])
      BY <2>1, <2>4, <2>5, <3>1 DEF Disjoint
    <3>3. Disjoint(n, process[q], g)
      BY <1>6, <3>1 DEF Disjoint, Apart, Holds
    <3> QED
      BY <3>2, <3>3
  <2>8. Unique'
    BY <1>6, <1>11, <2>6, <2>7, UniqueStep
  <2>9. ASSUME NEW g \in Files, saved'[g] # 0
        PROVE  \/ file'[g].text = saved'[g] \/ <<g, saved'[g]>> \in kept
               \/ Holds(n, g) /\ n.held.text = saved'[g]
               \/ /\ saved'[g] = saved[g] /\ file[g].text # saved[g]
                  /\ ~(Holds(process[p], g) /\ process[p].held.text = saved[g])
    BY <1>1, <1>5, <1>11, <2>4, <2>9, NoCallShape
  <2>10. EverySaveIsKept'
    BY <1>1, <1>6, <1>11, <2>9, SavedStep
  <2> QED
    BY <2>4, <2>8, <2>10 DEF RemovalInv
<1> QED
  BY <1>6, <1>8, <1>9, <1>10, <1>11 DEF UndoFile, rest, f

\* A person saves or deletes a file.
LEMMA SaveStep ==
  ASSUME RemovalInv, NEW f \in Files, Save(f)
  PROVE  RemovalInv'
<1>1. /\ file \in [Files -> Content] /\ saved \in [Files -> Nat] /\ saves \in Nat
      /\ \A q \in Processes : process[q] \in Call /\ CallOK(process[q], kept, confirmation)
  BY DEF RemovalInv, Shaped, Numbered
<1>2. PICK x \in Content : /\ file' = [file EXCEPT ![f] = x] /\ saved' = [saved EXCEPT ![f] = x.text]
                           /\ x = Nothing \/ x.text = saves + 2
  <2>1. CASE \E form \in Forms(f) : /\ file' = [file EXCEPT ![f] = [text |-> saves + 2, form |-> form]]
                                    /\ saved' = [saved EXCEPT ![f] = saves + 2]
    <3>1. PICK form \in Forms(f) : /\ file' = [file EXCEPT ![f] = [text |-> saves + 2, form |-> form]]
                                   /\ saved' = [saved EXCEPT ![f] = saves + 2]
      BY <2>1
    <3>2. [text |-> saves + 2, form |-> form] \in Content
      BY <1>1 DEF Content, Forms
    <3> QED
      BY <3>1, <3>2
  <2>2. CASE file' = [file EXCEPT ![f] = Nothing] /\ saved' = [saved EXCEPT ![f] = 0]
    BY <2>2, NoCallShape
  <2> QED
    BY <2>1, <2>2 DEF Save
<1>3. saves' = saves + 1 /\ UNCHANGED <<kept, confirmation, process>>
  BY DEF Save, database
<1>4. /\ file' \in [Files -> Content] /\ saved' \in [Files -> Nat]
      /\ file'[f] = x /\ saved'[f] = x.text
      /\ \A g \in Files : g # f => file'[g] = file[g] /\ saved'[g] = saved[g]
  <2>1. x.text \in Nat
    BY DEF Content
  <2> QED
    BY <1>1, <1>2, <2>1
<1>5. Shaped'
  BY <1>3, <1>4 DEF RemovalInv, Shaped
<1>6. \A c \in Call : Known(c, saves + 1) => Known(c, saves' + 1)
  <2>1. \A c \in Call : c.held.text \in Nat /\ \A g \in Files : c.plan[g].text \in Nat
    BY DEF Call, Content
  <2> QED
    BY <1>1, <1>3, <2>1 DEF Known
<1>7. Numbered'
  <2>1. \A g \in Files : file'[g].text <= saves' + 1
    <3>1. \A g \in Files : file[g].text \in Nat /\ file[g].text <= saves + 1
      BY <1>1 DEF RemovalInv, Numbered, Content
    <3>2. x.text <= saves + 2
      BY <1>1, <1>2, NoCallShape
    <3> QED
      BY <1>1, <1>3, <1>4, <3>1, <3>2
  <2> QED
    BY <1>1, <1>3, <1>6, <2>1 DEF RemovalInv, Numbered
<1>8. Unique'
  <2>1. ASSUME NEW q \in Processes
        PROVE  Apart(process[q], f, x)
    <3>1. Known(process[q], saves + 1) /\ process[q] \in Call /\ CallOK(process[q], kept, confirmation)
      BY <1>1 DEF RemovalInv, Numbered
    <3>2. CASE x = Nothing
      BY <3>1, <3>2 DEF Apart, Holds, CallOK, Nothing
    <3>3. CASE x.text = saves + 2
      <4>1. process[q].held.text # x.text /\ process[q].plan[f].text # x.text
        BY <1>1, <3>1, <3>3 DEF Known, Call, Content
      <4> QED
        BY <4>1 DEF Apart
    <3> QED
      BY <1>2, <3>2, <3>3
  <2>2. \A g \in Contracts : g \in Files
    BY DEF Contracts, Files
  <2> QED
    BY <1>3, <1>4, <2>1, <2>2 DEF RemovalInv, Unique
<1>9. EverySaveIsKept'
  BY <1>3, <1>4 DEF RemovalInv, EverySaveIsKept, Current
<1> QED
  BY <1>5, <1>7, <1>8, <1>9 DEF RemovalInv

-----------------------------------------------------------------------------
(* The invariant.                                                          *)

\* In the beginning there are files, and no calls.
LEMMA Starting == Init => RemovalInv
<1> SUFFICES ASSUME Init PROVE RemovalInv
  OBVIOUS
<1>1. \A f \in Files : file[f] \in Content /\ file[f].text \in {0, 1}
  <2> SUFFICES ASSUME NEW f \in Files PROVE file[f] \in Content /\ file[f].text \in {0, 1}
    OBVIOUS
  <2>1. file[f] = Nothing \/ (file[f] \in [text : {1}, form : Forms("configuration")])
    BY DEF Init
  <2>2. Forms("configuration") = {"owned", "foreign", "malformed"}
    BY DEF Forms
  <2> QED
    BY <2>1, <2>2, NoCallShape DEF Content
<1>2. file \in [Files -> Content] /\ saved \in [Files -> Nat]
  <2>1. /\ file \in [Files -> {Nothing} \cup [text : {1}, form : Forms("configuration")]]
        /\ saved = [f \in Files |-> file[f].text]
    BY DEF Init
  <2> QED
    BY <1>1, <2>1
<1>3. /\ confirmation \in Seq(Confirmed) /\ process \in [Processes -> Call]
      /\ \A p \in Processes : process[p] = NoCall /\ CallOK(process[p], kept, confirmation)
  <2>1. confirmation = <<>> /\ process = [p \in Processes |-> NoCall]
    BY DEF Init
  <2>2. confirmation \in Seq(Confirmed)
    BY <2>1
  <2>3. CallOK(NoCall, kept, confirmation)
    BY <2>2, NoCallOK
  <2>4. \A p \in Processes : process[p] = NoCall
    BY <2>1
  <2>5. process \in [Processes -> Call]
    BY <2>1, NoCallShape
  <2> QED
    BY <2>2, <2>3, <2>4, <2>5
<1>4. Shaped
  BY <1>2, <1>3 DEF Shaped
<1>5. Numbered
  BY <1>1, <1>3, NoCallShape DEF Init, Numbered, Known
<1>6. Unique
  BY <1>3, NoCallShape DEF Unique, Apart, Disjoint, Holds
<1>7. EverySaveIsKept
  BY DEF Init, EverySaveIsKept
<1> QED
  BY <1>4, <1>5, <1>6, <1>7 DEF RemovalInv

\* What a call may do.
Acts(p) ==
  \/ Request(p) \/ Load(p) \/ StoreConfirmation(p)
  \/ ValidateConfirmation(p) \/ MutateFile(p) \/ CreateBackup(p) \/ CheckActual(p)
  \/ Displace(p) \/ CompareDisplaced(p) \/ RemoveContract(p) \/ PersistConfiguration(p)
  \/ Occupied(p) \/ LookAtPlace(p) \/ RestoreDisplaced(p) \/ UndoFile(p)
  \/ CompleteMutation(p) \/ Crash(p) \/ Error(p)

\* What happens at all.
LEMMA Acting ==
  Next <=> \/ \E p \in Processes : Acts(p)
           \/ \E token \in DOMAIN confirmation : Expire(token)
           \/ \E f \in Files : Save(f)
BY DEF Next, Acts

\* Every step keeps the invariant.
LEMMA Step ==
  ASSUME RemovalInv, [Next]_vars
  PROVE  RemovalInv'
<1>1. CASE UNCHANGED vars
  BY <1>1 DEF vars, disk, database, bounds, RemovalInv, Shaped, Numbered, Unique, EverySaveIsKept, Current
<1>2. ASSUME NEW p \in Processes, Acts(p)
      PROVE  RemovalInv'
  <2>1. CASE Request(p) \/ Load(p) \/ StoreConfirmation(p) \/ ValidateConfirmation(p) \/ CompleteMutation(p)
    BY <2>1, BeginStep, LoadStep, ConfirmationSteps, ValidateStep DEF Request
  <2>2. CASE MutateFile(p) \/ CreateBackup(p) \/ CheckActual(p) \/ Displace(p)
    BY <2>2, LookSteps, DisplaceStep
  <2>3. CASE CompareDisplaced(p) \/ Occupied(p) \/ LookAtPlace(p) \/ Crash(p) \/ Error(p)
    BY <2>3, MovedSteps, FaultSteps
  <2>4. CASE RemoveContract(p) \/ PersistConfiguration(p) \/ RestoreDisplaced(p) \/ UndoFile(p)
    BY <2>4, RemoveStep, PersistStep, RestoreStep, UndoStep
  <2> QED
    BY <1>2, <2>1, <2>2, <2>3, <2>4 DEF Acts
<1>3. CASE \E token \in DOMAIN confirmation : Expire(token)
  BY <1>3, ConfirmationSteps
<1>4. CASE \E f \in Files : Save(f)
  BY <1>4, SaveStep
<1> QED
  BY <1>1, <1>2, <1>3, <1>4, Acting

\* Calls keep their shape, and no content of a contract is in two places, in
\* every state.
THEOREM Inductive == Spec => []RemovalInv
<1>1. Init => RemovalInv
  BY Starting
<1>2. RemovalInv /\ [Next]_vars => RemovalInv'
  BY Step
<1> QED
  BY <1>1, <1>2, PTL DEF Spec

\* What a person saved last in a file (integration_service displacing, comparing
\* and restoring) is never lost, but by the rename that puts a file back.
THEOREM SavesAreKept == Spec => []EverySaveIsKept
<1>1. RemovalInv => EverySaveIsKept
  BY DEF RemovalInv
<1> QED
  BY <1>1, Inductive, PTL

\* A removal takes away what was confirmed and nothing else: the file it has
\* moved and is about to drop is the one of the digest (validate_confirmation).
THEOREM AsConfirmed == Spec => RemovedAsConfirmed
<1>1. RemovalInv => \A p \in Processes : At(p, "finish") =>
                      process[p].held = confirmation[process[p].token].digest[Current(p)]
  BY Finishing DEF At, Works
<1>2. RemovalInv /\ [Next]_vars =>
        [\A p \in Processes :
           At(p, "finish") /\ process'[p].changed # process[p].changed =>
             process[p].held = confirmation[process[p].token].digest[Current(p)]]_vars
  BY <1>1
<1> QED
  BY <1>2, Inductive, PTL DEF Spec, RemovedAsConfirmed

-----------------------------------------------------------------------------
(* Undoing.                                                                *)

\* The faults are counted.
LEMMA FaultsCounted == Spec => [](faults \in Nat)
<1>1. Init => faults \in Nat
  BY DEF Init
<1>2. faults \in Nat /\ [Next]_vars => (faults \in Nat)'
  <2> SUFFICES ASSUME faults \in Nat, [Next]_vars PROVE faults' \in Nat
    OBVIOUS
  <2>1. ASSUME NEW p \in Processes, Acts(p)
        PROVE  faults' \in {faults, faults + 1}
    <3>1. CASE Request(p) \/ Load(p) \/ StoreConfirmation(p) \/ ValidateConfirmation(p)
      BY <3>1 DEF Request, BeginPreview, BeginRemove, Load, StoreConfirmation, ValidateConfirmation, bounds
    <3>2. CASE MutateFile(p) \/ CreateBackup(p) \/ CheckActual(p) \/ Displace(p) \/ CompareDisplaced(p)
      BY <3>2 DEF MutateFile, CreateBackup, CheckActual, Displace, CompareDisplaced, bounds
    <3>3. CASE RemoveContract(p) \/ PersistConfiguration(p) \/ Occupied(p) \/ LookAtPlace(p)
      BY <3>3 DEF RemoveContract, PersistConfiguration, Occupied, LookAtPlace, bounds
    <3>4. CASE RestoreDisplaced(p) \/ UndoFile(p) \/ CompleteMutation(p)
      BY <3>4 DEF RestoreDisplaced, UndoFile, CompleteMutation, bounds
    <3>5. CASE Crash(p) \/ Error(p)
      BY <3>5 DEF Crash, Error
    <3> QED
      BY <2>1, <3>1, <3>2, <3>3, <3>4, <3>5 DEF Acts
  <2>2. CASE \E token \in DOMAIN confirmation : Expire(token)
    BY <2>2 DEF Expire, bounds
  <2>3. CASE \E f \in Files : Save(f)
    BY <2>3 DEF Save
  <2>4. CASE UNCHANGED vars
    BY <2>4 DEF vars, bounds
  <2> QED
    BY <2>1, <2>2, <2>3, <2>4, Acting
<1> QED
  BY <1>1, <1>2, PTL DEF Spec

\* A call that changes files and is over after a step has removed nothing.
LEMMA WorkGivenUp ==
  ASSUME RemovalInv, NEW p \in Processes, process[p].pc \in Working, process'[p] = NoCall,
         \/ MutateFile(p) \/ CreateBackup(p) \/ CheckActual(p) \/ Displace(p) \/ CompareDisplaced(p)
         \/ RemoveContract(p) \/ PersistConfiguration(p) \/ Occupied(p) \/ LookAtPlace(p)
         \/ RestoreDisplaced(p)
  PROVE  process[p].changed = {}
<1>1. /\ process[p] \in Call /\ CallOK(process[p], kept, confirmation)
      /\ confirmation \in Seq(Confirmed) /\ process \in [Processes -> Call]
      /\ process[p].todo \in Remaining
  BY Mine DEF RemovalInv, Shaped, CallOK, Works
<1>2. \A n : Become(p, n) => n = NoCall
  BY <1>1 DEF Become
<1>3. \A pc \in Pcs : Goto(p, pc) => pc = "idle"
  <2> SUFFICES ASSUME NEW pc \in Pcs, Goto(p, pc) PROVE pc = "idle"
    OBVIOUS
  <2> DEFINE n == [process[p] EXCEPT !.pc = pc]
  <2>1. n.pc = pc
    BY <1>1, CallGoes
  <2>2. Become(p, n)
    BY DEF Goto
  <2> HIDE DEF n
  <2> QED
    BY <1>2, <2>1, <2>2, NoCallShape
<1>4. ~Become(p, Advanced(process[p]))
  BY <1>1, <1>2, AdvancedCall, NoCallShape
<1>5. ASSUME Fail(p) PROVE process[p].changed = {}
  <2>1. Failed(process[p]) = NoCall
    BY <1>2, <1>5 DEF Fail
  <2>2. Failed(process[p]).pc # "undo"
    BY <2>1, NoCallShape
  <2> QED
    BY <1>1, <2>2, FailedOK
<1>6. CASE MutateFile(p)
  BY <1>3, <1>4, <1>5, <1>6 DEF MutateFile, Pcs, Working
<1>7. CASE CreateBackup(p) \/ CheckActual(p)
  BY <1>3, <1>5, <1>7 DEF CreateBackup, CheckActual, Pcs, Working, Secured
<1>8. CASE Displace(p)
  <2> DEFINE n == [process[p] EXCEPT !.pc = "compare", !.held = file[Current(p)]]
  <2>1. n.pc = "compare"
    BY <1>1 DEF Call
  <2>2. n # NoCall
    BY <2>1, NoCallShape
  <2> QED
    BY <1>2, <1>5, <1>8, <2>2 DEF Displace
<1>9. CASE CompareDisplaced(p)
  BY <1>3, <1>9 DEF CompareDisplaced, Pcs, Working, Secured, Moving
<1>10. CASE RemoveContract(p) \/ PersistConfiguration(p)
  <2>1. process[p].pc = "finish"
    BY <1>10 DEF RemoveContract, PersistConfiguration, At
  <2>2. ~Become(p, Advanced([process[p] EXCEPT !.changed = @ \cup {Current(p)}]))
    <3> DEFINE n == Advanced([process[p] EXCEPT !.changed = @ \cup {Current(p)}])
    <3>1. n.changed = process[p].changed \cup {Current(p)}
      BY <2>1, Removed
    <3> QED
      BY <1>2, <3>1, NoCallShape
  <2>3. CASE RemoveContract(p)
    BY <2>2, <2>3 DEF RemoveContract
  <2>4. CASE PersistConfiguration(p)
    BY <1>3, <2>2, <2>4 DEF PersistConfiguration, Pcs, Working, Secured, Moving
  <2> QED
    BY <1>10, <2>3, <2>4
<1>11. CASE Occupied(p) \/ LookAtPlace(p) \/ RestoreDisplaced(p)
  BY <1>3, <1>5, <1>11 DEF Occupied, LookAtPlace, RestoreDisplaced, Pcs, Working, Secured, Moving
<1> QED
  BY <1>6, <1>7, <1>8, <1>9, <1>10, <1>11

\* Undoing that is over has put back what was removed, unless a person's file is
\* in the place of the second contract: a contract that was removed cannot have
\* come back to its place by itself.
LEMMA UndoGivenUp ==
  ASSUME RemovalInv, NEW p \in Processes, UndoFile(p), process'[p] = NoCall
  PROVE  ForeignCompatibility(p) \/ \A f \in process[p].changed : file'[f] # Nothing
<1> DEFINE c == process[p]
           f == Current(p)
<1>1. /\ c \in Call /\ CallOK(c, kept, confirmation) /\ c.pc = "undo"
      /\ file \in [Files -> Content] /\ process \in [Processes -> Call]
  BY Mine DEF UndoFile, At, RemovalInv, Shaped
<1>2. Unwinds(c)
  BY <1>1 DEF CallOK
<1>3. /\ f \in Contracts /\ f \in Files /\ f \in Left(c.todo) /\ Planned(p) = c.plan[f]
      /\ f = "workflow" => Tail(c.todo) = <<>> /\ c.changed \subseteq {f}
      /\ f # "workflow" => f = "compatibility" /\ Tail(c.todo) # <<>>
  BY <1>2, Orders DEF Unwinds, Current, Planned, Left, Contracts, Files, OwnedIn
<1>4. f \in c.changed <=> c.plan[f].form = "owned"
  BY <1>2, <1>3 DEF Unwinds, OwnedIn
<1>5. c.plan[f].form \in {"absent", "owned", "foreign"} /\ (c.plan[f].form = "absent" => c.plan[f] = Nothing)
  BY <1>1, <1>2, <1>3 DEF Unwinds, Call, Content
<1>6. \A n : Become(p, n) => n = NoCall
  BY <1>1 DEF Become
<1>7. CASE f = "workflow"
  <2>1. c.changed # {} => file'[f] # Nothing
    <3> SUFFICES ASSUME c.changed # {} PROVE file'[f] # Nothing
      OBVIOUS
    <3>1. c.plan[f].form = "owned" /\ c.plan[f] # Nothing
      BY <1>3, <1>4, <1>7 DEF Nothing
    <3> QED
      BY <1>1, <1>3, <3>1 DEF UndoFile
  <2> QED
    BY <1>3, <1>7, <2>1
<1>8. CASE f # "workflow"
  <2>1. f = "compatibility" /\ Tail(c.todo) # <<>>
    BY <1>3, <1>8
  <2>2. [c EXCEPT !.todo = Tail(c.todo), !.changed = c.changed \ {f}] # NoCall
    <3>1. [c EXCEPT !.todo = Tail(c.todo), !.changed = c.changed \ {f}].todo = Tail(c.todo)
      BY <1>1 DEF Call
    <3> QED
      BY <2>1, <3>1, NoCallShape
  <2>3. \/ c.plan[f].form = "foreign"
        \/ c.plan[f] # Nothing /\ file[f] # Nothing
    BY <1>3, <1>6, <2>1, <2>2 DEF UndoFile
  <2>4. c.plan[f].form = "owned" => file[f] # c.plan[f]
    BY <1>3, <1>4 DEF RemovalInv, Unique, Apart
  <2> QED
    BY <1>5, <2>1, <2>3, <2>4 DEF ForeignCompatibility
<1> QED
  BY <1>7, <1>8

\* A removal that gives up has undone itself.
LEMMA GivenUp ==
  ASSUME RemovalInv, faults \in Nat, Next, NEW p \in Processes, GivesUp(p)
  PROVE  ForeignCompatibility(p) \/ \A f \in process[p].changed : file'[f] # Nothing
<1>1. /\ process[p] \in Call /\ CallOK(process[p], kept, confirmation)
      /\ process \in [Processes -> Call]
  BY Mine DEF RemovalInv, Shaped
<1>2. process[p].pc \notin {"idle", "complete"} /\ process'[p] = NoCall /\ faults' = faults
  BY DEF GivesUp, At
<1>3. process'[p] # process[p]
  BY <1>2, NoCallShape
<1>4. ~\E token \in DOMAIN confirmation : Expire(token)
  BY <1>3 DEF Expire
<1>5. ~\E f \in Files : Save(f)
  BY <1>3 DEF Save
<1>6. PICK q \in Processes : Acts(q)
  BY <1>4, <1>5, Acting
<1>7. q = p
  <2>1. \E n : Become(q, n)
    BY <1>6 DEF Acts, Request, BeginPreview, BeginRemove, Load, StoreConfirmation, ValidateConfirmation,
       MutateFile, CreateBackup, CheckActual, Displace, CompareDisplaced, RemoveContract,
       PersistConfiguration, Occupied, LookAtPlace, RestoreDisplaced, UndoFile, CompleteMutation,
       Crash, Error, Goto, Return, Fail
  <2> QED
    BY <1>1, <1>3, <2>1 DEF Become
<1>8. ~(Crash(p) \/ Error(p))
  BY <1>2 DEF Crash, Error
<1>9. CASE process[p].pc \in Reading
  BY <1>1, <1>9 DEF CallOK
<1>10. CASE process[p].pc \in Working
  <2>1. process[p].pc \notin {"idle", "load", "preview", "validate", "undo", "complete"}
    BY <1>10 DEF Working, Secured, Moving
  <2>2. ~(Request(p) \/ Load(p) \/ StoreConfirmation(p) \/ ValidateConfirmation(p) \/ UndoFile(p)
          \/ CompleteMutation(p))
    BY <2>1 DEF Request, BeginPreview, BeginRemove, Load, StoreConfirmation, ValidateConfirmation,
       UndoFile, CompleteMutation, At
  <2> QED
    BY <1>2, <1>6, <1>7, <1>8, <1>10, <2>2, WorkGivenUp DEF Acts
<1>11. CASE process[p].pc = "undo"
  <2>1. UndoFile(p)
    BY <1>6, <1>7, <1>8, <1>11 DEF Acts, At, Request, BeginPreview, BeginRemove, Load, StoreConfirmation,
       ValidateConfirmation, MutateFile, CreateBackup, CheckActual, Displace, CompareDisplaced,
       RemoveContract, PersistConfiguration, Occupied, LookAtPlace, RestoreDisplaced, CompleteMutation
  <2> QED
    BY <1>2, <2>1, UndoGivenUp
<1> QED
  BY <1>1, <1>2, <1>9, <1>10, <1>11 DEF Call

\* A removal that gives up (apply, and rollback_owned_file) has put back each
\* contract it had removed, unless a person's file was in the place of the
\* second one.
THEOREM Undoes == Spec => FailureIsUndone
<1>1. RemovalInv /\ faults \in Nat /\ [Next]_vars =>
        [\A p \in Processes : GivesUp(p) =>
           \/ ForeignCompatibility(p)
           \/ \A f \in process[p].changed : file'[f] # Nothing]_vars
  BY GivenUp
<1> QED
  BY <1>1, Inductive, FaultsCounted, PTL DEF Spec, FailureIsUndone

-----------------------------------------------------------------------------
(* Calls of the app-server.                                                *)

Asked == {"initialize", "resume", "input", "list", "read"}
Lists == [threads : SUBSET Threads, more : BOOLEAN]
Values == {"none", "ready", "unable", "found", "absent"} \cup Lists \cup Threads
Messages == [kind : {"answer", "error", "notice", "broken", "blank", "eof"}, id : Nat,
             value : Values]
Requests == [id : Nat, step : Asked]

Exchanges ==
  {x \in [pc : {"idle", "start", "write", "wait", "close", "stop", "join", "closed", "returned"},
          kind : {"none", "send", "reconcile", "discover"}, step : Asked \cup {"none"}, id : Nat,
          attempt : Nat, received : Nat, pages : Nat, seen : SUBSET Threads, left : SUBSET Threads,
          fits : BOOLEAN, result : {"none", "rejected", "uncertain", "delivered", "listed", "found",
                                    "absent"}] :
     x.pc # "idle" => x.kind # "none"}

\* What the server has said and the call has not heard.
Pipe == {channel[i] : i \in DOMAIN channel} \cup {out[i] : i \in DOMAIN out}
        \cup (IF output.pc = "full" THEN {output.holds} ELSE {})

\* What the call has written and the server has not read.
Unread == {inbox[i] : i \in DOMAIN inbox}

ServerTypes ==
  /\ exchange \in Exchanges
  /\ channel \in Seq(Messages) /\ out \in Seq(Messages) /\ inbox \in Seq(Requests)
  /\ output.pc = "full" => output.holds \in Messages
  /\ calls \in Nat

\* A call that asks something has a request for it, of a step of its kind.
Asks == exchange.pc \in {"write", "wait"}
AsksOfKind ==
  Asks => /\ exchange.id >= 1 /\ exchange.step \in Asked
          /\ exchange.step = "resume" => exchange.kind \in {"send", "reconcile"}

\* What an answer says of the request that the call waits for.
Truth(value) ==
  /\ exchange.step = "input" => calls \in accepted
  /\ exchange.step = "resume" /\ exchange.kind = "reconcile" =>
       value \in {"found", "absent"} /\ (value = "found" => accepted # {})
  /\ exchange.step = "list" => value \in Lists

\* An answer is to a request that was written: to an earlier one, or it is true.
Tells(m) ==
  m.kind = "answer" /\ Asks =>
    /\ m.id <= exchange.id
    /\ exchange.pc = "write" => m.id < exchange.id
    /\ m.id = exchange.id => Truth(m.value)

\* A request that the server has not read is an earlier one or the last.
Written(r) ==
  Asks =>
    /\ r.id <= exchange.id
    /\ exchange.pc = "write" => r.id < exchange.id
    /\ r.id = exchange.id => r.step = exchange.step

\* A result that is a receipt is true.
Receipt ==
  /\ exchange.result = "delivered" => calls \in accepted
  /\ exchange.result = "found" => accepted # {}

ServerInv ==
  /\ ServerTypes
  /\ AsksOfKind
  /\ \A m \in Pipe : Tells(m)
  /\ \A r \in Unread : Written(r)
  /\ Receipt

\* What is in the pipe are messages.
LEMMA PipeTyped ==
  ASSUME ServerTypes
  PROVE  Pipe \subseteq Messages
<1>1. (\A i \in DOMAIN channel : channel[i] \in Messages) /\ (\A i \in DOMAIN out : out[i] \in Messages)
  BY DEF ServerTypes
<1> QED
  BY <1>1 DEF Pipe, ServerTypes

\* A call that asks nothing, or the same, hears what it would have heard.
LEMMA ToldStays ==
  ASSUME ServerInv, exchange' \in Exchanges,
         \/ ~Asks'
         \/ /\ exchange'.pc = exchange.pc /\ exchange'.id = exchange.id
            /\ exchange'.step = exchange.step /\ exchange'.kind = exchange.kind
            /\ calls' = calls /\ accepted \subseteq accepted'
  PROVE  /\ AsksOfKind'
         /\ \A m \in Pipe : Tells(m)'
         /\ \A r \in Unread : Written(r)'
<1>1. CASE ~Asks'
  BY <1>1 DEF AsksOfKind, Tells, Written
<1>2. CASE /\ exchange'.pc = exchange.pc /\ exchange'.id = exchange.id
           /\ exchange'.step = exchange.step /\ exchange'.kind = exchange.kind
           /\ calls' = calls /\ accepted \subseteq accepted'
  <2>1. AsksOfKind'
    BY <1>2 DEF ServerInv, AsksOfKind, Asks
  <2>2. ASSUME NEW v, Truth(v) PROVE Truth(v)'
    BY <1>2, <2>2 DEF Truth
  <2>3. ASSUME NEW m \in Pipe PROVE Tells(m)'
    <3>1. Tells(m) /\ (Truth(m.value) => Truth(m.value)')
      BY <2>2 DEF ServerInv
    <3> QED
      BY <1>2, <3>1 DEF Tells, Asks
  <2>4. \A r \in Unread : Written(r)'
    BY <1>2 DEF ServerInv, Written, Asks
  <2> QED
    BY <2>1, <2>3, <2>4
<1> QED
  BY <1>1, <1>2

\* The first state.
LEMMA InitServer == Server!Init => ServerInv
<1> SUFFICES ASSUME Server!Init PROVE ServerInv
  OBVIOUS
<1>1. ServerTypes
  BY DEF Server!Init, ServerTypes, Exchanges, Server!NoServerCall, Server!NoOutput, Server!None
<1>2. AsksOfKind /\ Receipt
  BY DEF Server!Init, AsksOfKind, Asks, Receipt, Server!NoServerCall, Server!None
<1>3. ~Asks
  BY DEF Server!Init, Asks, Server!NoServerCall
<1>4. Unread = {}
  BY DEF Server!Init, Unread
<1> QED
  BY <1>1, <1>2, <1>3, <1>4 DEF ServerInv, Tells

\* Taking the first of a sequence, and adding to its end.
LEMMA Sequences ==
  ASSUME NEW S, NEW s \in Seq(S)
  PROVE  /\ \A e \in S : /\ Append(s, e) \in Seq(S)
                         /\ \A i \in DOMAIN Append(s, e) :
                              Append(s, e)[i] = e \/ (i \in DOMAIN s /\ Append(s, e)[i] = s[i])
         /\ s # <<>> => /\ Head(s) \in S /\ Head(s) = s[1] /\ 1 \in DOMAIN s
                        /\ Tail(s) \in Seq(S)
                        /\ \A i \in DOMAIN Tail(s) :
                             i + 1 \in DOMAIN s /\ Tail(s)[i] = s[i + 1]
OBVIOUS

\* A call that has not begun.
LEMMA NoCallTyped ==
  /\ Server!NoServerCall \in Exchanges
  /\ Server!NoServerCall.pc = "idle" /\ Server!NoServerCall.result = "none"
BY DEF Server!NoServerCall, Server!None, Exchanges

\* The steps after which a call asks nothing.
LEMMA NothingAsked ==
  ASSUME ServerInv,
         \/ \E kind \in {"send", "reconcile", "discover"} : Server!StartCall(kind)
         \/ Server!StartFails \/ Server!TimeOut \/ Server!DropChannel \/ Server!StopServer
         \/ Server!Join \/ Server!Return \/ Server!TakeResult
  PROVE  ServerInv'
<1>0. exchange \in Exchanges
  BY DEF ServerInv, ServerTypes
<1>1. exchange' \in Exchanges /\ ~Asks' /\ Receipt' /\ calls' \in Nat
  <2>1. ASSUME NEW kind \in {"send", "reconcile", "discover"}, Server!StartCall(kind)
        PROVE  exchange' \in Exchanges /\ ~Asks' /\ Receipt' /\ calls' \in Nat
    <3>1. PICK fits \in BOOLEAN :
            exchange' = [Server!NoServerCall EXCEPT !.pc = "start", !.kind = kind, !.fits = fits]
      BY <2>1 DEF Server!StartCall
    <3>2. PICK none : none = Server!NoServerCall
      OBVIOUS
    <3>4. /\ exchange' \in Exchanges /\ exchange'.pc = "start" /\ exchange'.result = "none"
      BY <3>1, <3>2, NoCallTyped DEF Exchanges
    <3>5. calls' = calls + 1
      BY <2>1, Zenon DEF Server!StartCall
    <3>3. calls' \in Nat
      BY <3>5 DEF ServerInv, ServerTypes
    <3> QED
      BY <3>3, <3>4 DEF Asks, Receipt
  <2>2. CASE Server!StartFails \/ Server!TimeOut \/ Server!DropChannel \/ Server!StopServer
    BY ZenonT(60), <1>0, <2>2 DEF Server!StartFails, Server!TimeOut, Server!DropChannel, Server!StopServer,
         Server!Close, Server!Goto, Server!At, Exchanges, Asks, Receipt, Server!provider, ServerInv, ServerTypes
  <2>3. CASE Server!Join
    <3>1. PICK spoilt \in BOOLEAN :
            exchange' = [exchange EXCEPT !.pc = "closed",
              !.result = IF spoilt /\ exchange.result \notin {"uncertain"} THEN "rejected"
                         ELSE exchange.result]
      BY <2>3 DEF Server!Join
    <3> QED
      BY <1>0, <2>3, <3>1 DEF Server!Join, Server!At, Exchanges, Asks, Receipt, Server!provider, ServerInv,
                              ServerTypes
  <2>4. CASE Server!Return
    <3>1. accepted' = accepted /\ calls' = calls
      BY <2>4 DEF Server!Return, Server!provider
    <3>2. CASE Server!Goto("returned")
      BY <1>0, <2>4, <3>1, <3>2 DEF Server!Return, Server!Goto, Server!At, Exchanges, Asks, Receipt, ServerInv, ServerTypes
    <3>3. CASE exchange' = [Server!NoServerCall EXCEPT !.pc = "start", !.kind = "discover",
                                                       !.attempt = exchange.attempt + 1]
      <4>1. exchange.attempt + 1 \in Nat
        BY <1>0 DEF Exchanges
      <4>2. exchange' \in Exchanges /\ exchange'.pc = "start" /\ exchange'.result = "none"
        BY <3>3, <4>1, NoCallTyped DEF Exchanges
      <4> QED
        BY <3>1, <4>2 DEF Asks, Receipt, ServerInv, ServerTypes
    <3> QED
      BY <2>4, <3>2, <3>3 DEF Server!Return
  <2>5. CASE Server!TakeResult
    BY <2>5, NoCallTyped DEF Server!TakeResult, Asks, Receipt, Server!provider, ServerInv, ServerTypes
  <2> QED
    BY <2>1, <2>2, <2>3, <2>4, <2>5
<1>2. /\ channel' \in Seq(Messages) /\ out' \in Seq(Messages) /\ inbox' \in Seq(Requests)
      /\ output' = output
  <2>1. channel' \in {channel, <<>>} /\ out' \in {out, <<>>} /\ inbox' \in {inbox, <<>>}
        /\ output' = output
    BY DEF Server!StartCall, Server!StartFails, Server!TimeOut, Server!DropChannel,
           Server!StopServer, Server!Join, Server!Return, Server!TakeResult, Server!pipes
  <2>2. <<>> \in Seq(Messages) /\ <<>> \in Seq(Requests)
    OBVIOUS
  <2> QED
    BY <2>1, <2>2 DEF ServerInv, ServerTypes
<1>3. AsksOfKind' /\ (\A m \in Pipe' : Tells(m)') /\ \A r \in Unread' : Written(r)'
  BY <1>1 DEF AsksOfKind, Tells, Written
<1>4. ServerTypes'
  BY <1>1, <1>2 DEF ServerInv, ServerTypes
<1> QED
  BY <1>1, <1>3, <1>4 DEF ServerInv

\* A new server, which has said nothing.
LEMMA StartServerKeeps ==
  ASSUME ServerInv, Server!StartServer
  PROVE  ServerInv'
<1>0. exchange \in Exchanges
  BY DEF ServerInv, ServerTypes
<1>1. /\ exchange.pc = "start"
      /\ exchange' = [exchange EXCEPT !.pc = "write", !.step = "initialize", !.id = 1, !.received = 0,
                          !.pages = 0, !.seen = {}, !.left = {}, !.result = "none"]
  BY DEF Server!StartServer, Server!At, Server!None
<1>2. /\ exchange' \in Exchanges /\ exchange'.id = 1 /\ exchange'.step = "initialize"
      /\ exchange'.result = "none"
  BY <1>0, <1>1 DEF Exchanges, Asked
<1>3. channel' = <<>> /\ out' = <<>> /\ inbox' = <<>> /\ output'.pc = "read" /\ calls' = calls
  BY DEF Server!StartServer
<1>4. Pipe' = {} /\ Unread' = {}
  BY <1>3 DEF Pipe, Unread
<1>5. ServerTypes'
  BY <1>2, <1>3 DEF ServerInv, ServerTypes
<1>6. AsksOfKind' /\ Receipt'
  BY <1>2 DEF AsksOfKind, Receipt, Asked
<1> QED
  BY <1>4, <1>5, <1>6 DEF ServerInv

\* A request is written.
LEMMA WriteKeeps ==
  ASSUME ServerInv, Server!WriteRequest \/ Server!WriteWithServer
  PROVE  ServerInv'
<1>0. exchange \in Exchanges /\ exchange.pc = "write" /\ AsksOfKind /\ Asks
  BY DEF ServerInv, ServerTypes, Server!WriteRequest, Server!WriteWithServer, Server!At, Asks
<1>1. UNCHANGED <<channel, out, output, accepted, calls>>
  BY DEF Server!WriteRequest, Server!WriteWithServer, Server!provider
<1>2. Pipe' = Pipe
  BY <1>1 DEF Pipe
<1>3. CASE Server!Close("rejected") /\ inbox' = inbox
  <2>1. exchange' \in Exchanges /\ ~Asks' /\ Receipt'
    BY <1>0, <1>1, <1>3 DEF Server!Close, Exchanges, Asks, Receipt, ServerInv
  <2>2. Unread' = Unread
    BY <1>3 DEF Unread
  <2> QED
    BY <1>1, <1>2, <1>3, <2>1, <2>2, ToldStays DEF ServerInv, ServerTypes
<1>4. CASE Server!Goto("wait") /\ inbox' = Append(inbox, [id |-> exchange.id, step |-> exchange.step])
  <2> DEFINE r == [id |-> exchange.id, step |-> exchange.step]
  <2>1. exchange' = [exchange EXCEPT !.pc = "wait"]
    BY <1>4 DEF Server!Goto
  <2>2. /\ exchange' \in Exchanges /\ exchange'.pc = "wait" /\ exchange'.id = exchange.id
        /\ exchange'.step = exchange.step /\ exchange'.kind = exchange.kind
        /\ exchange'.result = exchange.result
    BY <1>0, <2>1 DEF Exchanges
  <2>3. r \in Requests /\ r.id = exchange.id /\ r.step = exchange.step
    BY <1>0 DEF Requests, AsksOfKind, Exchanges
  <2> HIDE DEF r
  <2>4. inbox' \in Seq(Requests) /\ Unread' \subseteq Unread \cup {r}
    BY <1>4, <2>3, Sequences DEF ServerInv, ServerTypes, r, Unread
  <2>5. ASSUME NEW q \in Unread' PROVE Written(q)'
    <3>1. CASE q = r
      BY <1>0, <2>2, <2>3, <3>1 DEF Written, Asks, Exchanges
    <3>2. CASE q \in Unread
      <4>1. Written(q) /\ q \in Requests
        BY <3>2 DEF ServerInv, ServerTypes, Unread
      <4> QED
        BY <1>0, <2>2, <4>1 DEF Written, Asks, Requests, Exchanges
    <3> QED
      BY <2>4, <2>5, <3>1, <3>2
  <2>6. ASSUME NEW m \in Pipe PROVE Tells(m)'
    <3>1. Tells(m) /\ m \in Messages
      BY PipeTyped DEF ServerInv
    <3> QED
      BY <1>0, <2>2, <3>1 DEF Tells, Asks, Messages, Exchanges
  <2>7. ServerTypes'
    BY <1>1, <2>2, <2>4 DEF ServerInv, ServerTypes
  <2>8. AsksOfKind' /\ Receipt'
    BY <1>0, <1>1, <2>2 DEF AsksOfKind, Asks, Receipt, ServerInv
  <2> QED
    BY <1>2, <2>5, <2>6, <2>7, <2>8 DEF ServerInv
<1> QED
  BY <1>3, <1>4 DEF Server!WriteRequest, Server!WriteWithServer

\* A call takes a message out of the channel, and does not go on to ask.
LEMMA HeardKeeps ==
  ASSUME ServerInv, UNCHANGED <<output, connected, server, inbox, out, accepted, turns, calls, spoken>>,
         channel' = <<>>, exchange' \in Exchanges, Receipt',
         \/ ~Asks'
         \/ /\ exchange'.pc = exchange.pc /\ exchange'.id = exchange.id
            /\ exchange'.step = exchange.step /\ exchange'.kind = exchange.kind
  PROVE  ServerInv'
<1>1. Pipe' \subseteq Pipe /\ Unread' = Unread
  BY DEF Pipe, Unread
<1>2. AsksOfKind' /\ (\A m \in Pipe : Tells(m)') /\ \A r \in Unread : Written(r)'
  BY ToldStays
<1>3. <<>> \in Seq(Messages)
  OBVIOUS
<1>4. ServerTypes'
  BY <1>3 DEF ServerInv, ServerTypes
<1> QED
  BY <1>1, <1>2, <1>4 DEF ServerInv

\* A call goes on to its next request, with the next id.
LEMMA AsksNext ==
  ASSUME ServerInv, UNCHANGED <<output, connected, server, inbox, out, accepted, turns, calls, spoken>>,
         channel' = <<>>, exchange.pc = "wait", exchange' \in Exchanges, AsksOfKind',
         exchange'.pc = "write", exchange'.id = exchange.id + 1, exchange'.result = exchange.result
  PROVE  ServerInv'
<1>0. exchange \in Exchanges
  BY DEF ServerInv, ServerTypes
<1>1. Pipe' \subseteq Pipe /\ Unread' = Unread
  BY DEF Pipe, Unread
<1>2. ASSUME NEW m \in Pipe PROVE Tells(m)'
  <2>1. Tells(m) /\ m \in Messages
    BY PipeTyped DEF ServerInv
  <2> QED
    BY <1>0, <2>1 DEF Tells, Asks, Messages, Exchanges
<1>3. ASSUME NEW r \in Unread PROVE Written(r)'
  <2>1. Written(r) /\ r \in Requests
    BY DEF ServerInv, ServerTypes, Unread
  <2> QED
    BY <1>0, <2>1 DEF Written, Asks, Requests, Exchanges
<1>4. Receipt'
  BY DEF ServerInv, Receipt
<1>5. <<>> \in Seq(Messages)
  OBVIOUS
<1>6. ServerTypes'
  BY <1>5 DEF ServerInv, ServerTypes
<1> QED
  BY <1>1, <1>2, <1>3, <1>4, <1>6 DEF ServerInv

\* A message is taken from the channel.
LEMMA ReceiveKeeps ==
  ASSUME ServerInv, Server!Receive
  PROVE  ServerInv'
<1> DEFINE m == Head(channel)
<1>0. /\ exchange \in Exchanges /\ exchange.pc = "wait" /\ channel # <<>> /\ channel' = <<>>
      /\ UNCHANGED <<output, connected, server, inbox, out, accepted, turns, calls, spoken>>
  BY DEF ServerInv, ServerTypes, Server!Receive, Server!At, Server!provider
<1>1. m \in Pipe /\ m \in Messages /\ Tells(m)
  <2>1. m = channel[1] /\ 1 \in DOMAIN channel /\ m \in Messages
    BY <1>0, Sequences DEF ServerInv, ServerTypes
  <2> QED
    BY <2>1 DEF Pipe, ServerInv
<1>2. exchange.id \in Nat /\ exchange.id + 1 \in Nat /\ exchange.received + 1 \in Nat
      /\ exchange.pages + 1 \in Nat /\ Asks
  BY <1>0 DEF Exchanges, Asks
<1>3. ASSUME NEW result \in {"rejected", "uncertain", "delivered", "listed", "found", "absent"},
             Server!Close(result),
             result = "delivered" => calls \in accepted, result = "found" => accepted # {}
      PROVE  ServerInv'
  <2>1. exchange' = [exchange EXCEPT !.pc = "close", !.result = result]
    BY <1>3 DEF Server!Close
  <2>2. exchange' \in Exchanges /\ ~Asks' /\ exchange'.result = result
    BY <1>0, <2>1 DEF Exchanges, Asks
  <2>3. Receipt'
    BY <1>0, <1>3, <2>2 DEF Receipt
  <2> QED
    BY <1>0, <2>2, <2>3, HeardKeeps
<1>4. CASE exchange' = [exchange EXCEPT !.received = exchange.received + 1]
  <2>1. /\ exchange' \in Exchanges /\ exchange'.pc = exchange.pc /\ exchange'.id = exchange.id
        /\ exchange'.step = exchange.step /\ exchange'.kind = exchange.kind
        /\ exchange'.result = exchange.result
    BY <1>0, <1>2, <1>4 DEF Exchanges
  <2>2. Receipt'
    BY <1>0, <2>1 DEF Receipt, ServerInv
  <2> QED
    BY <1>0, <2>1, <2>2, HeardKeeps
<1>5. CASE m.kind = "answer" /\ m.id = exchange.id /\ Server!Answered(m.value)
  <2> DEFINE value == m.value
  <2>0. Truth(value) /\ value \in Values
    BY <1>1, <1>2, <1>5 DEF Tells, Messages
  <2>1. exchange.step \in Asked /\ AsksOfKind
    BY <1>2 DEF AsksOfKind, ServerInv
  <2> HIDE DEF m, value
  <2>2. ASSUME NEW step \in Asked, Server!Ask(step),
               step = "resume" => exchange.kind \in {"send", "reconcile"}
        PROVE  ServerInv'
    <3>1. exchange' = [exchange EXCEPT !.pc = "write", !.step = step, !.id = exchange.id + 1,
                                       !.received = exchange.received + 1]
      BY <2>2 DEF Server!Ask
    <3>2. /\ exchange' \in Exchanges /\ exchange'.pc = "write" /\ exchange'.step = step
          /\ exchange'.id = exchange.id + 1 /\ exchange'.result = exchange.result
          /\ exchange'.kind = exchange.kind
      BY <1>0, <1>2, <3>1 DEF Exchanges
    <3>3. AsksOfKind'
      BY <1>2, <2>2, <3>2 DEF AsksOfKind
    <3> QED
      BY <1>0, <3>2, <3>3, AsksNext
  <2>3. CASE exchange.step = "initialize"
    <3>1. Server!Ask(IF exchange.kind = "discover" THEN "list" ELSE "resume")
      BY <1>5, <2>3 DEF Server!Answered, value
    <3>2. CASE exchange.kind = "discover"
      BY <2>2, <3>1, <3>2 DEF Asked
    <3>3. CASE exchange.kind # "discover"
      <4>1. Server!Ask("resume")
        BY <3>1, <3>3
      <4>2. exchange.kind \in {"send", "reconcile"}
        BY <1>0, <3>3 DEF Exchanges
      <4> QED
        BY <2>2, <4>1, <4>2 DEF Asked
    <3> QED
      BY <3>2, <3>3
  <2>4. CASE exchange.step = "resume" /\ exchange.kind = "send"
    <3>1. Server!Ask("input") \/ Server!Close("rejected")
      BY <1>5, <2>4 DEF Server!Answered, value
    <3> QED
      BY <1>3, <2>2, <3>1 DEF Asked
  <2>5. CASE exchange.step = "resume" /\ exchange.kind = "reconcile"
    <3>1. Server!Close(value)
      BY <1>5, <2>5 DEF Server!Answered, value
    <3>2. value \in {"found", "absent"} /\ (value = "found" => accepted # {})
      BY <2>0, <2>5 DEF Truth
    <3> QED
      BY <1>3, <3>1, <3>2
  <2>6. CASE exchange.step = "input"
    <3>1. Server!Close("delivered") /\ calls \in accepted
      BY <1>5, <2>0, <2>6 DEF Server!Answered, Truth
    <3> QED
      BY <1>3, <3>1
  <2>7. CASE exchange.step = "list"
    <3>1. Server!Listed(value)
      BY <1>5, <2>7 DEF Server!Answered, value
    <3>2. value \in Lists
      BY <2>0, <2>7 DEF Truth
    <3> DEFINE seen == exchange.seen \cup value.threads
    <3>3. seen \in SUBSET Threads
      BY <1>0, <3>2 DEF Lists, Exchanges
    <3>4. \/ Server!Close("rejected") \/ Server!Close("listed")
          \/ exchange' = [exchange EXCEPT !.pc = "write", !.id = exchange.id + 1,
                !.received = exchange.received + 1, !.pages = exchange.pages + 1, !.seen = seen]
          \/ exchange' = [exchange EXCEPT !.pc = "write", !.step = "read", !.id = exchange.id + 1,
                !.received = exchange.received + 1, !.seen = seen, !.left = seen]
      BY <3>1 DEF Server!Listed
    <3> HIDE DEF seen
    <3>5. CASE Server!Close("rejected") \/ Server!Close("listed")
      BY <1>3, <3>5
    <3>6. CASE \/ exchange' = [exchange EXCEPT !.pc = "write", !.id = exchange.id + 1,
                   !.received = exchange.received + 1, !.pages = exchange.pages + 1, !.seen = seen]
               \/ exchange' = [exchange EXCEPT !.pc = "write", !.step = "read", !.id = exchange.id + 1,
                   !.received = exchange.received + 1, !.seen = seen, !.left = seen]
      <4>1. /\ exchange' \in Exchanges /\ exchange'.pc = "write" /\ exchange'.step \in {"list", "read"}
            /\ exchange'.id = exchange.id + 1 /\ exchange'.result = exchange.result
        BY ZenonT(60), <1>0, <1>2, <2>7, <3>3, <3>6 DEF Exchanges, Asked
      <4>2. AsksOfKind'
        BY <1>2, <4>1 DEF AsksOfKind, Asked
      <4> QED
        BY <1>0, <4>1, <4>2, AsksNext
    <3> QED
      BY <3>4, <3>5, <3>6
  <2>8. CASE exchange.step = "read"
    <3>1. PICK t \in exchange.left :
            \/ Server!Close("rejected") \/ Server!Close("listed")
            \/ exchange' = [exchange EXCEPT !.pc = "write", !.id = exchange.id + 1,
                  !.received = exchange.received + 1, !.left = exchange.left \ {t}]
      BY <1>5, <2>8 DEF Server!Answered
    <3>2. CASE Server!Close("rejected") \/ Server!Close("listed")
      BY <1>3, <3>2
    <3>3. CASE exchange' = [exchange EXCEPT !.pc = "write", !.id = exchange.id + 1,
                              !.received = exchange.received + 1, !.left = exchange.left \ {t}]
      <4>1. /\ exchange' \in Exchanges /\ exchange'.pc = "write" /\ exchange'.step = "read"
            /\ exchange'.id = exchange.id + 1 /\ exchange'.result = exchange.result
        BY <1>0, <1>2, <2>8, <3>3 DEF Exchanges, Asked
      <4>2. AsksOfKind'
        BY <1>2, <4>1 DEF AsksOfKind, Asked
      <4> QED
        BY <1>0, <4>1, <4>2, AsksNext
    <3> QED
      BY <3>1, <3>2, <3>3
  <2> QED
    BY <1>2, <2>1, <2>3, <2>4, <2>5, <2>6, <2>7, <2>8 DEF AsksOfKind, Asked
<1>6. \/ Server!Close("uncertain") \/ Server!Close("rejected")
      \/ exchange' = [exchange EXCEPT !.received = exchange.received + 1]
      \/ m.kind = "answer" /\ m.id = exchange.id /\ Server!Answered(m.value)
  BY DEF Server!Receive, Server!IsAnswer
<1> HIDE DEF m
<1> QED
  BY <1>3, <1>4, <1>5, <1>6

\* The reader of the output, and what the server says and does, leave the call alone.
LEMMA OutputKeeps ==
  ASSUME ServerInv, Server!ReadOutput \/ Server!PutOutput
  PROVE  ServerInv'
<1>0. /\ UNCHANGED <<exchange, inbox, accepted, calls>>
      /\ exchange \in Exchanges /\ channel \in Seq(Messages) /\ out \in Seq(Messages)
  BY DEF Server!ReadOutput, Server!PutOutput, Server!provider, ServerInv, ServerTypes
<1>1. Server!Eof \in Messages /\ Server!Eof.kind = "eof"
  BY DEF Server!Eof, Server!Other, Server!None, Messages, Values
<1>2. ASSUME channel' \in Seq(Messages), out' \in Seq(Messages),
             output'.pc = "full" => output'.holds \in Messages,
             Pipe' \subseteq Pipe \cup {Server!Eof}
      PROVE  ServerInv'
  <2>1. Unread' = Unread
    BY <1>0 DEF Unread
  <2>2. AsksOfKind' /\ (\A m \in Pipe : Tells(m)') /\ \A r \in Unread : Written(r)'
    BY <1>0, ToldStays
  <2>3. Tells(Server!Eof)'
    BY <1>1 DEF Tells, Server!Eof, Server!Other
  <2>4. Receipt' /\ ServerTypes'
    BY <1>0, <1>2 DEF ServerInv, ServerTypes, Receipt
  <2> QED
    BY <1>2, <2>1, <2>2, <2>3, <2>4 DEF ServerInv
<1>3. CASE Server!ReadOutput
  <2>1. output.pc = "read" /\ channel' = channel
    BY <1>3 DEF Server!ReadOutput
  <2>2. CASE /\ out # <<>> /\ out' = Tail(out)
             /\ output' = [pc |-> "full", holds |-> IF Head(out).kind = "blank" THEN Server!Eof ELSE Head(out)]
    <3>1. /\ Head(out) \in Messages /\ Head(out) = out[1] /\ 1 \in DOMAIN out /\ out' \in Seq(Messages)
          /\ \A i \in DOMAIN out' : i + 1 \in DOMAIN out /\ out'[i] = out[i + 1]
      BY <1>0, <2>2, Sequences
    <3>2. output'.pc = "full" /\ output'.holds \in {Server!Eof, Head(out)}
      BY <2>2
    <3>3. Pipe' \subseteq Pipe \cup {Server!Eof}
      BY <2>1, <3>1, <3>2 DEF Pipe
    <3> QED
      BY <1>0, <1>1, <1>2, <2>1, <3>1, <3>2, <3>3
  <2>3. CASE out' = out /\ output' = [pc |-> "full", holds |-> Server!Eof]
    <3>1. output'.pc = "full" /\ output'.holds = Server!Eof
      BY <2>3
    <3>2. Pipe' \subseteq Pipe \cup {Server!Eof}
      BY <2>1, <2>3, <3>1 DEF Pipe
    <3> QED
      BY <1>0, <1>1, <1>2, <2>1, <2>3, <3>1, <3>2
  <2> QED
    BY <1>3, <2>2, <2>3 DEF Server!ReadOutput
<1>4. CASE Server!PutOutput
  <2>1. output.pc = "full" /\ out' = out /\ output'.pc # "full"
    BY <1>4 DEF Server!PutOutput, Server!NoOutput
  <2>2. CASE channel' = <<output.holds>>
    <3>1. output.holds \in Messages
      BY <2>1 DEF ServerInv, ServerTypes
    <3>2. channel' \in Seq(Messages) /\ \A i \in DOMAIN channel' : channel'[i] = output.holds
      BY <2>2, <3>1
    <3>3. Pipe' \subseteq Pipe
      BY <2>1, <3>2 DEF Pipe
    <3> QED
      BY <1>0, <1>2, <2>1, <3>2, <3>3
  <2>3. CASE channel' = channel
    <3>1. Pipe' \subseteq Pipe
      BY <2>1, <2>3 DEF Pipe
    <3> QED
      BY <1>0, <1>2, <2>1, <2>3, <3>1
  <2> QED
    BY <1>4, <2>2, <2>3 DEF Server!PutOutput
<1> QED
  BY <1>3, <1>4

\* The server says something.
LEMMA SaidKeeps ==
  ASSUME ServerInv, NEW m \in Messages, Tells(m)', out' = Append(out, m),
         UNCHANGED <<exchange, output, channel, calls>>, inbox' \in Seq(Requests),
         Unread' \subseteq Unread, accepted \subseteq accepted'
  PROVE  ServerInv'
<1>1. exchange \in Exchanges /\ out \in Seq(Messages)
  BY DEF ServerInv, ServerTypes
<1>2. out' \in Seq(Messages) /\ \A i \in DOMAIN out' :
        out'[i] = m \/ (i \in DOMAIN out /\ out'[i] = out[i])
  BY <1>1, Sequences
<1>3. Pipe' \subseteq Pipe \cup {m}
  BY <1>2 DEF Pipe
<1>4. AsksOfKind' /\ (\A n \in Pipe : Tells(n)') /\ \A r \in Unread : Written(r)'
  BY <1>1, ToldStays
<1>5. Receipt' /\ ServerTypes'
  BY <1>2 DEF ServerInv, ServerTypes, Receipt
<1> QED
  BY <1>3, <1>4, <1>5 DEF ServerInv

\* The server says nothing.
LEMMA SilentKeeps ==
  ASSUME ServerInv, UNCHANGED <<exchange, output, channel, out, calls>>, inbox' \in Seq(Requests),
         Unread' \subseteq Unread, accepted \subseteq accepted'
  PROVE  ServerInv'
<1>1. exchange \in Exchanges /\ Pipe' = Pipe
  BY DEF ServerInv, ServerTypes, Pipe
<1>2. AsksOfKind' /\ (\A n \in Pipe : Tells(n)') /\ \A r \in Unread : Written(r)'
  BY <1>1, ToldStays
<1>3. Receipt' /\ ServerTypes'
  BY DEF ServerInv, ServerTypes, Receipt
<1> QED
  BY <1>1, <1>2, <1>3 DEF ServerInv

\* The server reads a request, does what it asks or not, and answers or not.
LEMMA ServeKeeps ==
  ASSUME ServerInv, Server!Serve
  PROVE  ServerInv'
<1> DEFINE r == Head(inbox)
<1>0. /\ UNCHANGED <<exchange, output, channel, calls>> /\ inbox # <<>> /\ inbox' = Tail(inbox)
      /\ inbox \in Seq(Requests) /\ exchange \in Exchanges
  BY DEF Server!Serve, ServerInv, ServerTypes
<1>1. /\ inbox' \in Seq(Requests) /\ Unread' \subseteq Unread
      /\ r \in Requests /\ r \in Unread /\ Written(r)
  <2>1. /\ r \in Requests /\ r = inbox[1] /\ 1 \in DOMAIN inbox /\ inbox' \in Seq(Requests)
        /\ \A i \in DOMAIN inbox' : i + 1 \in DOMAIN inbox /\ inbox'[i] = inbox[i + 1]
    BY <1>0, Sequences
  <2> QED
    BY <2>1 DEF Unread, ServerInv
<1> HIDE DEF r
<1>2. accepted \subseteq accepted' /\ (accepted' = accepted \/ (r.step = "input" /\ calls \in accepted'))
  BY DEF Server!Serve, Server!provider, r
<1>3. CASE UNCHANGED <<out, spoken>>
  BY <1>0, <1>1, <1>2, <1>3, SilentKeeps
<1>4. ASSUME NEW m, m.kind # "answer", m \in Messages, out' = Append(out, m) PROVE ServerInv'
  <2>1. Tells(m)'
    BY <1>4 DEF Tells
  <2> QED
    BY <1>0, <1>1, <1>2, <1>4, <2>1, SaidKeeps
<1>5. CASE out' = Append(out, [kind |-> "error", id |-> r.id, value |-> "none"])
  <2> DEFINE m == [kind |-> "error", id |-> r.id, value |-> "none"]
  <2>1. m \in Messages /\ m.kind # "answer"
    BY <1>1 DEF Messages, Values, Requests
  <2> HIDE DEF m
  <2> QED
    BY <1>4, <1>5, <2>1 DEF m
<1>6. ASSUME NEW v \in Server!Answers(r.step),
             out' = Append(out, [kind |-> "answer", id |-> r.id, value |-> v]),
             IF r.step = "input" THEN calls \in accepted' ELSE accepted' = accepted
      PROVE  ServerInv'
  <2>0. PICK m : m = [kind |-> "answer", id |-> r.id, value |-> v]
    OBVIOUS
  <2>1. r.step \in Asked /\ r.id \in Nat
    BY <1>1 DEF Requests
  <2>2. v \in Values
    BY <1>6, <2>1 DEF Server!Answers, Server!None, Values, Lists, Asked
  <2>3. m \in Messages /\ m.id = r.id /\ m.value = v
    BY <2>0, <2>1, <2>2 DEF Messages
  <2>4. ASSUME r.step = exchange.step PROVE Truth(v)'
    <3>1. exchange'.step = "input" => calls' \in accepted'
      BY <1>0, <1>6, <2>4
    <3>2. exchange'.step = "resume" /\ exchange'.kind = "reconcile" =>
            v \in {"found", "absent"} /\ (v = "found" => accepted' # {})
      BY <1>0, <1>6, <2>4 DEF Server!Answers
    <3>3. exchange'.step = "list" => v \in Lists
      BY <1>0, <1>6, <2>4 DEF Server!Answers, Lists
    <3> QED
      BY <3>1, <3>2, <3>3 DEF Truth
  <2>5. Tells(m)'
    BY <1>0, <1>1, <2>3, <2>4 DEF Tells, Written, Asks
  <2> QED
    BY <1>0, <1>1, <1>2, <1>6, <2>0, <2>3, <2>5, SaidKeeps
<1>7. \/ UNCHANGED <<out, spoken>>
      \/ out' = Append(out, [kind |-> "error", id |-> r.id, value |-> "none"])
      \/ \E v \in Server!Answers(r.step) :
           /\ out' = Append(out, [kind |-> "answer", id |-> r.id, value |-> v])
           /\ IF r.step = "input" THEN calls \in accepted' ELSE accepted' = accepted
  BY DEF Server!Serve, Server!Say, Server!None, Server!provider, r
<1> QED
  BY <1>3, <1>5, <1>6, <1>7

\* The server speaks unasked, exits or goes on with its thread.
LEMMA ServerAloneKeeps ==
  ASSUME ServerInv, Server!Babble \/ Server!Exit \/ Server!NextTurn
  PROVE  ServerInv'
<1>0. UNCHANGED <<exchange, output, channel, calls>> /\ accepted' = accepted
  BY DEF Server!Babble, Server!Exit, Server!NextTurn, Server!pipes, Server!provider
<1>1. inbox' \in Seq(Requests) /\ Unread' \subseteq Unread
  <2>1. <<>> \in Seq(Requests)
    OBVIOUS
  <2>2. inbox' = inbox \/ inbox' = <<>>
    BY DEF Server!Babble, Server!Exit, Server!NextTurn, Server!pipes
  <2>3. CASE inbox' = inbox
    BY <2>3 DEF Unread, ServerInv, ServerTypes
  <2>4. CASE inbox' = <<>>
    BY <2>1, <2>4 DEF Unread
  <2> QED
    BY <2>2, <2>3, <2>4
<1>2. CASE Server!Babble
  <2>1. PICK kind \in {"notice", "answer", "broken", "blank"} : out' = Append(out, Server!Other(kind))
    BY <1>2 DEF Server!Babble, Server!Say
  <2> DEFINE m == Server!Other(kind)
  <2>2. m \in Messages /\ m.id = 0
    BY DEF Server!Other, Server!None, Messages, Values
  <2>3. Asks => exchange.id >= 1 /\ exchange.id \in Nat
    BY DEF ServerInv, ServerTypes, AsksOfKind, Exchanges
  <2> HIDE DEF m
  <2>4. Tells(m)'
    BY <1>0, <2>2, <2>3 DEF Tells, Asks
  <2> QED
    BY <1>0, <1>1, <2>1, <2>2, <2>4, SaidKeeps DEF m
<1>3. CASE Server!Exit \/ Server!NextTurn
  <2>1. out' = out
    BY <1>3 DEF Server!Exit, Server!NextTurn, Server!pipes
  <2> QED
    BY <1>0, <1>1, <2>1, SilentKeeps
<1> QED
  BY <1>2, <1>3

\* Every step keeps what the messages in the pipe say true.
LEMMA NextServer ==
  ASSUME ServerInv, [Server!Next]_(Server!serverVars)
  PROVE  ServerInv'
<1>1. CASE Server!Next
  BY <1>1, NothingAsked, StartServerKeeps, WriteKeeps, ReceiveKeeps, OutputKeeps, ServeKeeps,
     ServerAloneKeeps, Zenon DEF Server!Next, Server!Client, Server!Output
<1>2. CASE UNCHANGED Server!serverVars
  <2>1. UNCHANGED <<exchange, output, channel, out, calls, inbox, accepted>>
    BY <1>2 DEF Server!serverVars
  <2>2. inbox' \in Seq(Requests) /\ Unread' \subseteq Unread
    BY <2>1 DEF ServerInv, ServerTypes, Unread
  <2> QED
    BY <2>1, <2>2, SilentKeeps
<1> QED
  BY <1>1, <1>2

\* A receipt of the app-server, for a message that was handed over or found, is for a
\* message the provider has accepted, whatever the server says and whenever it exits.
THEOREM Receipts == Server!Spec => []ReceiptsAreTrue
<1>1. ServerInv => ReceiptsAreTrue
  BY DEF ServerInv, Receipt, ReceiptsAreTrue, Server!ReceiptsAreTrue
<1>2. Server!Init => ServerInv
  BY InitServer
<1>3. ServerInv /\ [Server!Next]_(Server!serverVars) => ServerInv'
  BY NextServer
<1> QED
  BY <1>1, <1>2, <1>3, PTL DEF Server!Spec


-----------------------------------------------------------------------------
(* Batches.                                                                *)

\* The command has begun the launch of the child and has not spawned its terminal.
BatchOpens(p, c) == command[p].pc \in {"mark", "spawn"} /\ Batch!Launching(p, c)

\* The states in which a command writes children, all after the confirmation.
Writing == {"begin", "mark", "spawn", "execute", "give_up", "awaited"}

BatchCommand ==
  [pc : Batch!Phases, todo : SUBSET Batch!Children, awaiting : SUBSET Batch!Children,
   found : SUBSET (Batch!Children \X {"bound", "failed"}), next : {"idle", "read"}]

BatchTypes ==
  /\ batch \in Batch!BatchStatuses
  /\ child \in [Batch!Children -> [status : Batch!ChildStatuses, intent : BOOLEAN]]
  /\ intents \in [Batch!Children -> {"absent", "pending", "launched", "bound", "failed"}]
  /\ spawned \in [Batch!Children -> Nat]
  /\ command \in [Commands -> BatchCommand]

\* A child whose intent is known has been launched, and after the confirmation none is
\* only selected.
Reached ==
  /\ \A c \in Batch!Children : child[c].intent => child[c].status \in {"launched", "failed", "bound"}
  /\ batch # "previewed" => \A c \in Batch!Children : child[c].status # "selected"

\* A command that writes children does so after the confirmation, and the sessions it
\* has seen bound are.
Founded ==
  \A p \in Commands :
    /\ command[p].pc \in Writing \/ command[p].found # {} => batch # "previewed"
    /\ \A c \in Batch!Children : <<c, "bound">> \in command[p].found => c \in session

\* What a command has begun nobody else has, and its terminal is not spawned yet.
BatchOpened ==
  /\ \A p \in Commands, c \in Batch!Children :
       BatchOpens(p, c) =>
         /\ intents[c] = "pending" /\ spawned[c] = 0
         /\ command[p].pc = "spawn" => child[c].intent
  /\ \A p \in Commands, c \in Batch!Children :
       command[p].pc = "execute" /\ Batch!Launching(p, c) => spawned[c] > 0
  /\ \A p, q \in Commands, c \in Batch!Children : BatchOpens(p, c) /\ BatchOpens(q, c) => p = q

\* What was spawned was begun, by a command that has told so, and what is bound was spawned.
BatchSpawned ==
  \A c \in Batch!Children :
    /\ spawned[c] <= 1
    /\ intents[c] = "absent" => spawned[c] = 0
    /\ spawned[c] > 0 => child[c].intent
    /\ c \in session => spawned[c] > 0
    /\ child[c].status = "bound" => c \in session

BatchInv ==
  BatchTypes /\ Reached /\ Founded /\ BatchOpened /\ BatchSpawned /\ Batch!StatusMatchesChildren

\* A batch that is previewed satisfies the invariant.
LEMMA BatchStarting == Batch!Init => BatchInv
BY DEF Batch!Init, BatchInv, BatchTypes, Reached, Founded, BatchOpened, BatchOpens, BatchSpawned,
       Batch!StatusMatchesChildren, Batch!InStatus, Batch!NoCommand, BatchCommand, Writing,
       Batch!BatchStatuses, Batch!ChildStatuses, Batch!Phases

\* A child is written in a transaction that also writes the status of the batch.
LEMMA PutStep ==
  ASSUME BatchInv, batch # "previewed",
         NEW c \in Batch!Children, NEW status \in {"launched", "failed", "bound"},
         NEW known \in BOOLEAN, Batch!Put(c, status, known)
  PROVE  /\ batch' \in Batch!BatchStatuses /\ batch' # "previewed"
         /\ child' \in [Batch!Children -> [status : Batch!ChildStatuses, intent : BOOLEAN]]
         /\ child'[c].status = status /\ child'[c].intent = (known \/ child[c].intent)
         /\ \A d \in Batch!Children : d # c => child'[d] = child[d]
         /\ Reached'
         /\ Batch!StatusMatchesChildren'
<1> DEFINE row == [status |-> status, intent |-> known \/ child[c].intent]
<1>1. child' = [child EXCEPT ![c] = row] /\ batch' = Batch!Summary(child')
  BY DEF Batch!Put
<1>2. child \in [Batch!Children -> [status : Batch!ChildStatuses, intent : BOOLEAN]]
  BY DEF BatchInv, BatchTypes
<1>3. row \in [status : Batch!ChildStatuses, intent : BOOLEAN]
  BY <1>2 DEF Batch!ChildStatuses
<1>4. /\ child' \in [Batch!Children -> [status : Batch!ChildStatuses, intent : BOOLEAN]]
      /\ \A d \in Batch!Children : child'[d] = IF d = c THEN row ELSE child[d]
  BY <1>1, <1>2, <1>3
<1>5. child'[c].status = status /\ child'[c].intent = (known \/ child[c].intent)
  BY <1>4
<1> HIDE DEF row
<1>6. \A d \in Batch!Children : child'[d].status # "selected"
  BY <1>4, <1>5 DEF BatchInv, Reached
<1>7. /\ batch' \in {"launching", "completed", "failed", "partial"}
      /\ batch' = "launching" => \E d \in Batch!Children : child'[d].status \in {"reserved", "launched"}
      /\ batch' = "completed" => \A d \in Batch!Children : child'[d].status = "bound"
      /\ batch' = "failed" => \A d \in Batch!Children : child'[d].status \in {"failed", "skipped"}
      /\ batch' = "partial" => /\ \E d \in Batch!Children : child'[d].status = "bound"
                               /\ \E d \in Batch!Children : child'[d].status # "bound"
  BY <1>1, <1>4, <1>6 DEF Batch!Summary, Batch!ChildStatuses
<1>8. Reached'
  BY <1>4, <1>5, <1>6 DEF BatchInv, Reached
<1>9. Batch!StatusMatchesChildren'
  BY <1>7 DEF Batch!StatusMatchesChildren, Batch!InStatus
<1> QED
  BY <1>4, <1>5, <1>7, <1>8, <1>9 DEF Batch!BatchStatuses

\* What a command does next, when it begins no launch and none of its launches changes.
BatchNext(p, n) ==
  /\ n \in BatchCommand /\ command' = [command EXCEPT ![p] = n]
  /\ n.pc # "execute"
  /\ n.pc \in {"mark", "spawn"} =>
       /\ command[p].pc \in {"mark", "spawn"} /\ n.todo = command[p].todo
       /\ n.pc = "spawn" => command[p].pc = "mark"
  /\ n.pc \in Writing \/ n.found # {} => batch' # "previewed"
  /\ \A c \in Batch!Children : <<c, "bound">> \in n.found => c \in session

\* The rows of a batch and its children are written as they may.
RowsWritten ==
  /\ batch' \in Batch!BatchStatuses /\ (batch # "previewed" => batch' # "previewed")
  /\ child' \in [Batch!Children -> [status : Batch!ChildStatuses, intent : BOOLEAN]]
  /\ Reached' /\ Batch!StatusMatchesChildren'
  /\ \A c \in Batch!Children :
       (child[c].intent => child'[c].intent) /\ (child'[c].status = "bound" => c \in session)

\* A command that writes rows, or reads, and goes on.
LEMMA RowStep ==
  ASSUME BatchInv, RowsWritten, UNCHANGED <<intents, session, spawned>>,
         NEW p \in Commands, NEW n, BatchNext(p, n),
         n.pc = "spawn" => \A c \in Batch!Children : Batch!Launching(p, c) => child'[c].intent
  PROVE  BatchInv'
<1>1. \A q \in Commands : command'[q] = IF q = p THEN n ELSE command[q]
  BY DEF BatchNext, BatchInv, BatchTypes
<1>2. command' \in [Commands -> BatchCommand]
  BY DEF BatchNext, BatchInv, BatchTypes
<1>3. BatchTypes'
  BY <1>2 DEF RowsWritten, BatchInv, BatchTypes
<1>4. Founded'
  BY <1>1 DEF RowsWritten, BatchNext, BatchInv, Founded
<1>5. \A q \in Commands, c \in Batch!Children :
        BatchOpens(q, c)' => BatchOpens(q, c) /\ (command'[q].pc = "spawn" => child'[c].intent)
  <2> SUFFICES ASSUME NEW q \in Commands, NEW c \in Batch!Children, BatchOpens(q, c)'
               PROVE  BatchOpens(q, c) /\ (command'[q].pc = "spawn" => child'[c].intent)
    OBVIOUS
  <2>1. CASE q # p
    BY <1>1, <2>1 DEF BatchOpens, Batch!Launching, RowsWritten, BatchInv, BatchOpened
  <2>2. CASE q = p
    BY <1>1, <2>2 DEF BatchOpens, Batch!Launching, BatchNext
  <2> QED
    BY <2>1, <2>2
<1>6. BatchOpened'
  <2>1. \A q \in Commands, c \in Batch!Children :
          command'[q].pc = "execute" /\ Batch!Launching(q, c)' => spawned[c] > 0
    BY <1>1 DEF BatchInv, BatchOpened, BatchNext, Batch!Launching
  <2> QED
    BY <1>5, <2>1 DEF BatchInv, BatchOpened
<1>7. BatchSpawned'
  BY DEF BatchInv, BatchSpawned, RowsWritten
<1> QED
  BY <1>3, <1>4, <1>6, <1>7 DEF BatchInv, RowsWritten

\* Rows that stay.
LEMMA RowsStay ==
  ASSUME BatchInv, UNCHANGED <<batch, child>>
  PROVE  RowsWritten
<1>1. Batch!StatusMatchesChildren'
  BY DEF BatchInv, Batch!StatusMatchesChildren, Batch!InStatus
<1> QED
  BY <1>1 DEF BatchInv, BatchTypes, Reached, BatchSpawned, RowsWritten

\* A child that is written.
LEMMA RowPut ==
  ASSUME BatchInv, batch # "previewed",
         NEW c \in Batch!Children, NEW status \in {"launched", "failed", "bound"},
         NEW known \in BOOLEAN, Batch!Put(c, status, known),
         status = "bound" => c \in session
  PROVE  RowsWritten /\ batch' # "previewed" /\ (known => child'[c].intent)
BY PutStep DEF BatchInv, BatchTypes, BatchSpawned, RowsWritten

\* A command that is idle is typed.
LEMMA NoCommandTyped == Batch!NoCommand \in BatchCommand /\ Batch!NoCommand.pc = "idle"
                        /\ Batch!NoCommand.found = {}
BY DEF Batch!NoCommand, BatchCommand, Batch!Phases

\* Commands that end, or only read.
LEMMA ReturnBatch ==
  ASSUME BatchInv, NEW p \in Commands, Batch!Return(p), RowsWritten,
         UNCHANGED <<intents, session, spawned>>
  PROVE  BatchInv'
<1>1. BatchNext(p, Batch!NoCommand)
  BY NoCommandTyped DEF BatchNext, Batch!Return, Writing
<1> QED
  BY <1>1, NoCommandTyped, RowStep

\* The confirmation and the reads before the reservation.
LEMMA ConfirmSteps ==
  ASSUME BatchInv, NEW p \in Commands, Batch!Confirm(p) \/ Batch!Preflight(p)
  PROVE  BatchInv'
<1>1. UNCHANGED <<batch, child, intents, session, spawned>>
  BY DEF Batch!Confirm, Batch!Preflight, Batch!rows, Batch!launches
<1>2. command[p] \in BatchCommand /\ (command[p].found # {} => batch # "previewed")
      /\ (\A c \in Batch!Children : <<c, "bound">> \in command[p].found => c \in session)
  BY DEF BatchInv, BatchTypes, Founded
<1>3. \E n : BatchNext(p, n) /\ n.pc \in {"preflight", "reserve"}
  <2>1. CASE Batch!Confirm(p)
    <3> DEFINE n == [Batch!NoCommand EXCEPT !.pc = "preflight", !.todo = Batch!Children]
    <3>1. n \in BatchCommand /\ n.pc = "preflight" /\ n.found = {}
      BY DEF Batch!NoCommand, BatchCommand, Batch!Phases
    <3>2. command' = [command EXCEPT ![p] = n]
      BY <2>1 DEF Batch!Confirm
    <3> QED
      BY <3>1, <3>2, <1>1 DEF BatchNext, Writing
  <2>2. CASE Batch!Preflight(p)
    <3>1. PICK n : /\ command' = [command EXCEPT ![p] = n]
                   /\ n = (IF command[p].todo = {} THEN [command[p] EXCEPT !.pc = "reserve"]
                           ELSE [command[p] EXCEPT !.todo = command[p].todo \ {Batch!First(command[p].todo)}])
      BY <2>2 DEF Batch!Preflight
    <3>2. command[p].pc = "preflight"
      BY <2>2 DEF Batch!Preflight, Batch!At
    <3>3. n \in BatchCommand /\ n.pc \in {"preflight", "reserve"} /\ n.found = command[p].found
      BY <1>2, <3>1, <3>2 DEF BatchCommand, Batch!Phases
    <3> QED
      BY <3>1, <3>3, <1>1, <1>2 DEF BatchNext, Writing
  <2> QED
    BY <2>1, <2>2
<1>4. RowsWritten
  BY <1>1, RowsStay
<1> QED
  BY <1>1, <1>3, <1>4, RowStep

\* A preflight that fails writes the children that are selected.
LEMMA PreflightFailsStep ==
  ASSUME BatchInv, NEW p \in Commands, Batch!PreflightFails(p)
  PROVE  BatchInv'
<1>1. /\ Batch!Return(p) /\ UNCHANGED <<intents, session, spawned>>
      /\ batch' = IF batch = "previewed" THEN "failed" ELSE batch
      /\ Batch!GiveUp(Batch!First(command[p].todo))
  BY DEF Batch!PreflightFails, Batch!launches
<1>2. PICK f : Batch!GiveUp(f)
  BY <1>1
<1>3. /\ child' \in [Batch!Children -> [status : Batch!ChildStatuses, intent : BOOLEAN]]
      /\ \A c \in Batch!Children :
           /\ child'[c].intent = child[c].intent
           /\ child[c].status # "selected" => child'[c] = child[c]
           /\ child[c].status = "selected" => child'[c].status \in {"failed", "skipped"}
  BY <1>2 DEF Batch!GiveUp, BatchInv, BatchTypes, Batch!ChildStatuses
<1>4. CASE batch = "previewed"
  <2>1. \A c \in Batch!Children : child[c].status = "selected"
    BY <1>4 DEF BatchInv, Batch!StatusMatchesChildren, Batch!InStatus
  <2>2. Batch!StatusMatchesChildren'
    BY <1>1, <1>3, <1>4, <2>1 DEF Batch!StatusMatchesChildren, Batch!InStatus
  <2>3. RowsWritten
    BY <1>1, <1>3, <1>4, <2>1, <2>2
       DEF RowsWritten, BatchInv, BatchTypes, Reached, Batch!BatchStatuses
  <2> QED
    BY <1>1, <2>3, ReturnBatch
<1>5. CASE batch # "previewed"
  <2>1. \A c \in Batch!Children : child'[c] = child[c]
    BY <1>3, <1>5 DEF BatchInv, Reached
  <2>2. UNCHANGED <<batch, child>>
    BY <1>1, <1>3, <1>5, <2>1 DEF BatchInv, BatchTypes
  <2> QED
    BY <1>1, <2>2, RowsStay, ReturnBatch
<1> QED
  BY <1>4, <1>5

\* A command as it is.
LEMMA CommandIs ==
  ASSUME BatchInv, NEW p \in Commands
  PROVE  /\ command[p] \in BatchCommand
         /\ command[p].pc \in Writing \/ command[p].found # {} => batch # "previewed"
         /\ \A c \in Batch!Children : <<c, "bound">> \in command[p].found => c \in session
BY DEF BatchInv, BatchTypes, Founded

\* A command that goes to a state in which it begins no launch.
LEMMA GoneTo ==
  ASSUME BatchInv, NEW p \in Commands, NEW pc \in Batch!Phases \ {"mark", "spawn", "execute"},
         pc \in Writing => batch # "previewed", batch # "previewed" => batch' # "previewed",
         Batch!Goto(p, pc)
  PROVE  \E n : BatchNext(p, n) /\ n.pc = pc
<1> DEFINE n == [command[p] EXCEPT !.pc = pc]
<1>1. n \in BatchCommand /\ n.pc = pc /\ n.found = command[p].found
  BY CommandIs DEF BatchCommand
<1>2. command' = [command EXCEPT ![p] = n]
  BY DEF Batch!Goto
<1> HIDE DEF n
<1> QED
  BY <1>1, <1>2, CommandIs DEF BatchNext

\* reserve writes the children that are selected.
LEMMA ReserveStep ==
  ASSUME BatchInv, NEW p \in Commands, Batch!Reserve(p)
  PROVE  BatchInv'
<1>1. UNCHANGED <<intents, session, spawned>>
  BY DEF Batch!Reserve, Batch!launches
<1>2. CASE /\ Batch!Reservable /\ batch' = "reserved" /\ Batch!Goto(p, "read")
           /\ child' = [c \in Batch!Children |->
                [child[c] EXCEPT !.status = IF child[c].status = "selected" THEN "reserved" ELSE child[c].status]]
  <2>1. batch = "previewed" /\ \A c \in Batch!Children : child[c].status = "selected"
    BY <1>2 DEF Batch!Reservable, BatchInv, Batch!StatusMatchesChildren, Batch!InStatus
  <2>2. /\ child' \in [Batch!Children -> [status : Batch!ChildStatuses, intent : BOOLEAN]]
        /\ \A c \in Batch!Children : child'[c].status = "reserved" /\ child'[c].intent = child[c].intent
    BY <1>2, <2>1 DEF BatchInv, BatchTypes, Batch!ChildStatuses
  <2>3. Batch!StatusMatchesChildren'
    BY <1>2, <2>2 DEF Batch!StatusMatchesChildren, Batch!InStatus
  <2>4. RowsWritten
    BY <1>2, <2>1, <2>2, <2>3 DEF RowsWritten, BatchInv, Reached, Batch!BatchStatuses
  <2>5. \E n : BatchNext(p, n) /\ n.pc = "read"
    BY <1>2, <2>4, GoneTo DEF Batch!Phases, Writing, RowsWritten
  <2> QED
    BY <1>1, <2>4, <2>5, RowStep
<1>3. CASE Batch!Return(p) /\ UNCHANGED Batch!rows
  BY <1>1, <1>3, RowsStay, ReturnBatch DEF Batch!rows
<1> QED
  BY <1>2, <1>3 DEF Batch!Reserve

\* What reads the reserved children takes those there are.
LEMMA ReadReservationStep ==
  ASSUME BatchInv, NEW p \in Commands, Batch!ReadReservation(p)
  PROVE  BatchInv'
<1>1. UNCHANGED <<batch, child, intents, session, spawned>>
  BY DEF Batch!ReadReservation, Batch!rows, Batch!launches
<1>2. RowsWritten
  BY <1>1, RowsStay
<1>3. CASE /\ batch \in {"reserved", "launching", "partial"}
           /\ command' = [command EXCEPT ![p] =
                [Batch!NoCommand EXCEPT !.pc = "begin", !.todo = Batch!InStatus({"reserved"})]]
  <2> DEFINE n == [Batch!NoCommand EXCEPT !.pc = "begin", !.todo = Batch!InStatus({"reserved"})]
  <2>1. n \in BatchCommand /\ n.pc = "begin" /\ n.found = {}
    BY DEF Batch!NoCommand, BatchCommand, Batch!Phases, Batch!InStatus
  <2>2. BatchNext(p, n)
    BY <1>1, <1>3, <2>1 DEF BatchNext
  <2> HIDE DEF n
  <2> QED
    BY <1>1, <1>2, <2>1, <2>2, RowStep
<1>4. CASE Batch!Return(p)
  BY <1>1, <1>2, <1>4, ReturnBatch
<1> QED
  BY <1>3, <1>4 DEF Batch!ReadReservation

\* Pass: a child is done with.
LEMMA PassNext ==
  ASSUME BatchInv, NEW p \in Commands, NEW c \in Batch!Children, NEW S \in SUBSET Batch!Children,
         Batch!Pass(p, c, S), batch # "previewed", batch' # "previewed"
  PROVE  \E n : BatchNext(p, n) /\ n.pc = "begin" /\ n.found = command[p].found
<1>1. PICK todo, awaiting : /\ todo = command[p].todo \ {c}
                            /\ awaiting = command[p].awaiting \cup S
  OBVIOUS
<1>2. PICK n : n = [command[p] EXCEPT !.pc = "begin", !.todo = todo, !.awaiting = awaiting]
  OBVIOUS
<1>3. todo \in SUBSET Batch!Children /\ awaiting \in SUBSET Batch!Children
  BY <1>1, CommandIs DEF BatchCommand
<1>4. n \in BatchCommand /\ n.pc = "begin" /\ n.found = command[p].found
  <2>1. PICK r \in BatchCommand : r = command[p]
    BY CommandIs
  <2>2. "begin" \in Batch!Phases
    BY DEF Batch!Phases
  <2>3. n = [pc |-> "begin", todo |-> todo, awaiting |-> awaiting, found |-> r.found, next |-> r.next]
    BY <1>2, <2>1 DEF BatchCommand
  <2>4. n \in BatchCommand
    BY <1>3, <2>1, <2>2, <2>3 DEF BatchCommand
  <2> QED
    BY <2>1, <2>3, <2>4
<1>5. command' = [command EXCEPT ![p] = n]
  BY <1>1, <1>2 DEF Batch!Pass
<1> QED
  BY <1>4, <1>5, CommandIs DEF BatchNext

\* Launches that change: of one child, by a command that has begun it or ends with it.
BatchLaunched(c, status, count) ==
  /\ intents' = [intents EXCEPT ![c] = status]
  /\ spawned' = [spawned EXCEPT ![c] = count]

LaunchNext(p, n, c, status, count) ==
  /\ n \in BatchCommand /\ command' = [command EXCEPT ![p] = n]
  /\ n.found = command[p].found /\ n.pc \in Writing /\ command[p].pc \in Writing
  /\ status \in {"pending", "launched", "bound", "failed"} /\ count \in {0, 1}
  /\ BatchLaunched(c, status, count) /\ spawned[c] <= count /\ (count = 1 => child[c].intent)
  /\ \A q \in Commands : q # p => ~BatchOpens(q, c)
  /\ n.pc \in {"mark", "spawn"} =>
       Batch!First(n.todo) = c /\ n.pc = "mark" /\ status = "pending" /\ count = 0
  /\ n.pc = "execute" => Batch!First(n.todo) = c /\ count = 1

\* A step that changes the launch of one child keeps the invariant.
LEMMA LaunchStep ==
  ASSUME BatchInv, UNCHANGED <<batch, child, session>>,
         NEW p \in Commands, NEW n, NEW c \in Batch!Children, NEW status, NEW count,
         LaunchNext(p, n, c, status, count)
  PROVE  BatchInv'
<1> USE DEF LaunchNext
<1>1. \A q \in Commands : command'[q] = IF q = p THEN n ELSE command[q]
  BY DEF BatchInv, BatchTypes
<1>2. /\ intents' \in [Batch!Children -> {"absent", "pending", "launched", "bound", "failed"}]
      /\ spawned' \in [Batch!Children -> Nat]
      /\ \A d \in Batch!Children : /\ intents'[d] = IF d = c THEN status ELSE intents[d]
                                   /\ spawned'[d] = IF d = c THEN count ELSE spawned[d]
  BY DEF BatchInv, BatchTypes, BatchLaunched
<1>3. BatchTypes' /\ Reached' /\ Batch!StatusMatchesChildren'
  BY <1>2, RowsStay DEF BatchInv, BatchTypes, RowsWritten
<1>4. Founded'
  BY <1>1 DEF BatchInv, Founded
<1>5. BatchOpened'
  <2>1. \A q \in Commands, d \in Batch!Children :
          BatchOpens(q, d)' => IF q = p THEN d = c ELSE BatchOpens(q, d)
    BY <1>1 DEF BatchOpens, Batch!Launching
  <2>2. \A q \in Commands, d \in Batch!Children :
          BatchOpens(q, d)' => IF q = p THEN d = c ELSE d # c
    BY <2>1
  <2>3. \A q \in Commands, d \in Batch!Children :
           BatchOpens(q, d)' => /\ intents'[d] = "pending" /\ spawned'[d] = 0
                                /\ command'[q].pc = "spawn" => child[d].intent
    <3> SUFFICES ASSUME NEW q \in Commands, NEW d \in Batch!Children, BatchOpens(q, d)'
                 PROVE  /\ intents'[d] = "pending" /\ spawned'[d] = 0
                        /\ command'[q].pc = "spawn" => child[d].intent
      OBVIOUS
    <3>1. CASE q = p
      BY <1>1, <1>2, <2>1, <3>1 DEF BatchOpens
    <3>2. CASE q # p
      BY <1>1, <1>2, <2>1, <2>2, <3>2 DEF BatchInv, BatchOpened
    <3> QED
      BY <3>1, <3>2
  <2>4. \A q \in Commands, d \in Batch!Children :
          command'[q].pc = "execute" /\ Batch!Launching(q, d)' => spawned'[d] > 0
    <3> SUFFICES ASSUME NEW q \in Commands, NEW d \in Batch!Children,
                        command'[q].pc = "execute", Batch!Launching(q, d)'
                 PROVE  spawned'[d] > 0
      OBVIOUS
    <3>1. CASE q = p
      BY <1>1, <1>2, <3>1 DEF Batch!Launching
    <3>2. CASE q # p
      <4>1. spawned[d] > 0
        BY <1>1, <3>2 DEF BatchInv, BatchOpened, Batch!Launching
      <4> QED
        BY <1>2, <4>1 DEF BatchInv, BatchTypes
    <3> QED
      BY <3>1, <3>2
  <2> QED
    BY <2>1, <2>2, <2>3, <2>4 DEF BatchInv, BatchOpened
<1>6. BatchSpawned'
  BY <1>2 DEF BatchInv, BatchTypes, BatchSpawned
<1> QED
  BY <1>3, <1>4, <1>5, <1>6 DEF BatchInv

\* A command that goes to a state, and keeps the rest.
LEMMA GoneAs ==
  ASSUME BatchInv, NEW p \in Commands, NEW pc \in Batch!Phases, Batch!Goto(p, pc)
  PROVE  \E n \in BatchCommand :
           /\ command' = [command EXCEPT ![p] = n]
           /\ n.pc = pc /\ n.found = command[p].found /\ n.todo = command[p].todo
<1> DEFINE n == [command[p] EXCEPT !.pc = pc]
<1>1. /\ n \in BatchCommand
      /\ n.pc = pc /\ n.found = command[p].found /\ n.todo = command[p].todo
  BY CommandIs DEF BatchCommand
<1>2. command' = [command EXCEPT ![p] = n]
  BY DEF Batch!Goto
<1> QED
  BY <1>1, <1>2

\* The status of a launch, and the number of its terminals, written as they are.
LEMMA SameLaunch ==
  ASSUME BatchInv, NEW c \in Batch!Children
  PROVE  /\ intents = [intents EXCEPT ![c] = intents[c]]
         /\ spawned = [spawned EXCEPT ![c] = spawned[c]]
         /\ spawned[c] \in {0, 1}
         /\ spawned[c] = 1 => child[c].intent /\ intents[c] # "absent"
BY DEF BatchInv, BatchTypes, BatchSpawned

\* begin opens the launch of a child that has none.
LEMMA BatchBeginStep ==
  ASSUME BatchInv, NEW p \in Commands, Batch!Begin(p)
  PROVE  BatchInv'
<1>1. PICK c \in Batch!Children :
        /\ Batch!Launching(p, c)
        /\ \/ /\ Batch!FreshLaunch(c)
              /\ intents' = [intents EXCEPT ![c] = "pending"]
              /\ Batch!Goto(p, "mark")
              /\ UNCHANGED Batch!rows
           \/ /\ ~Batch!FreshLaunch(c)
              /\ Batch!Put(c, "failed", FALSE)
              /\ Batch!Pass(p, c, {})
              /\ UNCHANGED intents
  BY DEF Batch!Begin
<1>2. command[p].pc = "begin" /\ UNCHANGED <<session, spawned>> /\ batch # "previewed"
  BY CommandIs DEF Batch!Begin, Batch!At, Writing
<1>3. CASE Batch!FreshLaunch(c) /\ intents' = [intents EXCEPT ![c] = "pending"]
           /\ Batch!Goto(p, "mark") /\ UNCHANGED Batch!rows
  <2>1. intents[c] = "absent" /\ spawned[c] = 0
    BY <1>3 DEF Batch!FreshLaunch, BatchInv, BatchSpawned
  <2>2. \A q \in Commands : ~BatchOpens(q, c)
    BY <2>1 DEF BatchInv, BatchOpened
  <2>3. BatchLaunched(c, "pending", 0) /\ UNCHANGED <<batch, child>>
    BY <1>2, <1>3, <2>1, SameLaunch DEF BatchLaunched, Batch!rows
  <2>4. PICK n \in BatchCommand :
          /\ command' = [command EXCEPT ![p] = n]
          /\ n.pc = "mark" /\ n.found = command[p].found /\ n.todo = command[p].todo
    BY <1>3, GoneAs DEF Batch!Phases
  <2> QED
    <3>1. LaunchNext(p, n, c, "pending", 0)
      BY <1>1, <1>2, <2>1, <2>2, <2>3, <2>4 DEF LaunchNext, Writing, Batch!Launching
    <3> QED
      BY <1>2, <2>3, <3>1, LaunchStep, Zenon
<1>4. CASE Batch!Put(c, "failed", FALSE) /\ Batch!Pass(p, c, {}) /\ UNCHANGED intents
  <2>1. RowsWritten /\ batch' # "previewed"
    BY <1>2, <1>4, RowPut
  <2>2. \E n : BatchNext(p, n) /\ n.pc = "begin"
    BY <1>2, <1>4, <2>1, PassNext
  <2> QED
    BY <1>2, <1>4, <2>1, <2>2, RowStep
<1> QED
  BY <1>1, <1>3, <1>4

\* The child is told launched before its terminal is spawned.
LEMMA MarkLaunchedStep ==
  ASSUME BatchInv, NEW p \in Commands, Batch!MarkLaunched(p)
  PROVE  BatchInv'
<1>1. PICK c \in Batch!Children : Batch!Launching(p, c) /\ Batch!Put(c, "launched", TRUE)
  BY DEF Batch!MarkLaunched
<1>2. /\ command[p].pc = "mark" /\ Batch!Goto(p, "spawn") /\ UNCHANGED <<intents, session, spawned>>
      /\ batch # "previewed"
  BY CommandIs DEF Batch!MarkLaunched, Batch!At, Batch!launches, Writing
<1>3. RowsWritten /\ batch' # "previewed" /\ child'[c].intent
  BY <1>1, <1>2, RowPut
<1>4. PICK n \in BatchCommand :
        /\ command' = [command EXCEPT ![p] = n]
        /\ n.pc = "spawn" /\ n.found = command[p].found /\ n.todo = command[p].todo
  BY <1>2, GoneAs DEF Batch!Phases
<1>5. BatchNext(p, n)
  BY <1>2, <1>3, <1>4, CommandIs DEF BatchNext
<1>6. \A d \in Batch!Children : Batch!Launching(p, d) => child'[d].intent
  BY <1>1, <1>3 DEF Batch!Launching
<1> QED
  BY <1>2, <1>3, <1>5, <1>6, RowStep

\* The terminal is spawned by the one command that opened its launch, or is not.
LEMMA SpawnSteps ==
  ASSUME BatchInv, NEW p \in Commands, Batch!Spawn(p) \/ Batch!SpawnFails(p)
  PROVE  BatchInv'
<1>1. PICK c \in Batch!Children :
        /\ Batch!Launching(p, c)
        /\ \/ /\ spawned' = [spawned EXCEPT ![c] = spawned[c] + 1] /\ UNCHANGED intents
              /\ Batch!Goto(p, "execute")
           \/ /\ intents' = [intents EXCEPT ![c] = "failed"] /\ UNCHANGED spawned
              /\ Batch!Goto(p, "give_up")
  BY DEF Batch!Spawn, Batch!SpawnFails
<1>2. command[p].pc = "spawn" /\ UNCHANGED <<batch, child, session>>
  BY DEF Batch!Spawn, Batch!SpawnFails, Batch!At, Batch!rows
<1>3. /\ BatchOpens(p, c) /\ intents[c] = "pending" /\ spawned[c] = 0 /\ child[c].intent
      /\ \A q \in Commands : q # p => ~BatchOpens(q, c)
  BY <1>1, <1>2 DEF BatchInv, BatchOpened, BatchOpens
<1>4. CASE /\ spawned' = [spawned EXCEPT ![c] = spawned[c] + 1] /\ UNCHANGED intents
           /\ Batch!Goto(p, "execute")
  <2>1. BatchLaunched(c, "pending", 1)
    BY <1>3, <1>4, SameLaunch DEF BatchLaunched
  <2>2. PICK n \in BatchCommand :
          /\ command' = [command EXCEPT ![p] = n]
          /\ n.pc = "execute" /\ n.found = command[p].found /\ n.todo = command[p].todo
    BY <1>4, GoneAs DEF Batch!Phases
  <2> QED
    <3>1. LaunchNext(p, n, c, "pending", 1)
      BY <1>1, <1>2, <1>3, <2>1, <2>2 DEF LaunchNext, Writing, Batch!Launching
    <3> QED
      BY <1>2, <3>1, LaunchStep, Zenon
<1>5. CASE /\ intents' = [intents EXCEPT ![c] = "failed"] /\ UNCHANGED spawned
           /\ Batch!Goto(p, "give_up")
  <2>1. BatchLaunched(c, "failed", 0)
    BY <1>3, <1>5, SameLaunch DEF BatchLaunched
  <2>2. PICK n \in BatchCommand :
          /\ command' = [command EXCEPT ![p] = n]
          /\ n.pc = "give_up" /\ n.found = command[p].found /\ n.todo = command[p].todo
    BY <1>5, GoneAs DEF Batch!Phases
  <2> QED
    <3>1. LaunchNext(p, n, c, "failed", 0)
      BY <1>2, <1>3, <2>1, <2>2 DEF LaunchNext, Writing
    <3> QED
      BY <1>2, <3>1, LaunchStep, Zenon
<1> QED
  BY <1>1, <1>4, <1>5

\* A launch that was spawned is marked, unless its hook was faster.
LEMMA ExecuteStep ==
  ASSUME BatchInv, NEW p \in Commands, Batch!Execute(p)
  PROVE  BatchInv'
<1>1. PICK c \in Batch!Children :
        /\ Batch!Launching(p, c)
        /\ \/ /\ intents[c] = "pending"
              /\ intents' = [intents EXCEPT ![c] = "launched"]
              /\ Batch!Pass(p, c, {c})
           \/ Batch!Goto(p, "give_up") /\ UNCHANGED intents
  BY DEF Batch!Execute
<1>2. /\ command[p].pc = "execute" /\ UNCHANGED <<batch, child, session, spawned>>
      /\ batch # "previewed"
  BY CommandIs DEF Batch!Execute, Batch!At, Batch!rows, Writing
<1>3. spawned[c] = 1 /\ child[c].intent /\ \A q \in Commands : ~BatchOpens(q, c)
  <2>1. spawned[c] > 0
    BY <1>1, <1>2 DEF BatchInv, BatchOpened
  <2>2. spawned[c] = 1 /\ child[c].intent
    BY <2>1, SameLaunch
  <2> QED
    BY <2>2 DEF BatchInv, BatchOpened
<1>4. CASE intents' = [intents EXCEPT ![c] = "launched"] /\ Batch!Pass(p, c, {c})
  <2>1. PICK n : BatchNext(p, n) /\ n.pc = "begin" /\ n.found = command[p].found
    <3>1. {c} \in SUBSET Batch!Children
      OBVIOUS
    <3> QED
      BY <1>2, <1>4, <3>1, PassNext
  <2>2. BatchLaunched(c, "launched", 1)
    BY <1>2, <1>3, <1>4, SameLaunch DEF BatchLaunched
  <2> QED
    <3>1. LaunchNext(p, n, c, "launched", 1)
      BY <1>2, <1>3, <2>1, <2>2 DEF LaunchNext, Writing, BatchNext
    <3> QED
      BY <1>2, <3>1, LaunchStep, Zenon
<1>5. CASE Batch!Goto(p, "give_up") /\ UNCHANGED intents
  <2>1. \E n : BatchNext(p, n) /\ n.pc = "give_up"
    BY <1>2, <1>5, GoneTo DEF Batch!Phases
  <2> QED
    BY <1>2, <1>5, <2>1, RowsStay, RowStep
<1> QED
  BY <1>1, <1>4, <1>5

\* A child whose launch was refused is given up.
LEMMA GiveUpChildStep ==
  ASSUME BatchInv, NEW p \in Commands, Batch!GiveUpChild(p)
  PROVE  BatchInv'
<1>1. PICK c \in Batch!Children : Batch!Put(c, "failed", FALSE) /\ Batch!Pass(p, c, {})
  BY DEF Batch!GiveUpChild
<1>2. UNCHANGED <<intents, session, spawned>> /\ batch # "previewed"
  BY CommandIs DEF Batch!GiveUpChild, Batch!launches, Batch!At, Writing
<1>3. RowsWritten /\ batch' # "previewed"
  BY <1>1, <1>2, RowPut
<1>4. \E n : BatchNext(p, n) /\ n.pc = "begin"
  BY <1>1, <1>2, <1>3, PassNext
<1> QED
  BY <1>2, <1>3, <1>4, RowStep

\* There is a first child.
LEMMA FirstIs ==
  ASSUME NEW S \in SUBSET Batch!Children, S # {}
  PROVE  Batch!First(S) \in S
<1>1. S \subseteq Nat
  BY DriversAssumption DEF Batch!Children
<1>2. PICK R : R = {e \in Nat \X Nat : e[1] < e[2]}
  OBVIOUS
<1>3. IsWellFoundedOn(R, Nat)
  BY <1>2, NatLessThanWellFounded DEF OpToRel
<1>4. PICK c \in S : \A d \in S : ~(<<d, c>> \in R)
  BY <1>1, <1>3, WFMin, Zenon
<1>5. \A d \in S : c <= d
  <2> SUFFICES ASSUME NEW d \in S PROVE c <= d
    OBVIOUS
  <2>1. c \in Nat /\ d \in Nat /\ ~(<<d, c>> \in R)
    BY <1>1, <1>4
  <2>2. d < c => <<d, c>> \in R
    BY <1>2, <2>1
  <2> QED
    BY <2>1, <2>2
<1> QED
  BY <1>5 DEF Batch!First

\* What is awaited is found bound or not.
LEMMA AwaitStep ==
  ASSUME BatchInv, NEW p \in Commands, Batch!Await(p)
  PROVE  BatchInv'
<1>1. PICK c : c = Batch!First(command[p].awaiting)
  OBVIOUS
<1>2. PICK result \in {"bound", "failed"} :
        /\ result = "bound" => c \in session
        /\ command' = [command EXCEPT ![p] = [command[p] EXCEPT !.pc = "awaited", !.found = {<<c, result>>}]]
  BY <1>1 DEF Batch!Await
<1>3. /\ UNCHANGED <<batch, child, intents, session, spawned>>
      /\ command[p].pc = "begin" /\ command[p].awaiting # {}
  BY DEF Batch!Await, Batch!rows, Batch!launches, Batch!At
<1>4. c \in Batch!Children
  BY <1>1, <1>3, FirstIs, CommandIs DEF BatchCommand
<1>5. PICK S : S = {<<c, result>>}
  OBVIOUS
<1>6. PICK n : n = [command[p] EXCEPT !.pc = "awaited", !.found = S]
  OBVIOUS
<1>7. S \in SUBSET (Batch!Children \X {"bound", "failed"})
  BY <1>4, <1>5
<1>8. n \in BatchCommand /\ n.pc = "awaited" /\ n.found = S
  BY <1>6, <1>7, CommandIs DEF BatchCommand, Batch!Phases
<1>9. \A d \in Batch!Children : <<d, "bound">> \in S => d \in session
  BY <1>2, <1>5
<1>10. batch # "previewed"
  BY <1>3, CommandIs DEF Writing
<1>11. command' = [command EXCEPT ![p] = n]
  BY <1>2, <1>5, <1>6
<1>12. BatchNext(p, n)
  BY <1>3, <1>8, <1>9, <1>10, <1>11 DEF BatchNext
<1> QED
  BY <1>3, <1>8, <1>12, RowsStay, RowStep

\* A child that was awaited is told bound or failed.
LEMMA MarkAwaitedStep ==
  ASSUME BatchInv, NEW p \in Commands, Batch!MarkAwaited(p)
  PROVE  BatchInv'
<1>1. PICK f \in command[p].found :
        /\ Batch!Put(f[1], f[2], FALSE)
        /\ command' = [command EXCEPT ![p] =
             [command[p] EXCEPT !.pc = "begin", !.awaiting = @ \ {f[1]}, !.found = {}]]
  BY DEF Batch!MarkAwaited
<1>2. UNCHANGED <<intents, session, spawned>> /\ batch # "previewed"
  BY CommandIs DEF Batch!MarkAwaited, Batch!launches, Batch!At, Writing
<1>3. f[1] \in Batch!Children /\ f[2] \in {"bound", "failed"} /\ f = <<f[1], f[2]>>
  BY CommandIs DEF BatchCommand
<1>4. f[2] = "bound" => f[1] \in session
  BY <1>3, CommandIs
<1>5. RowsWritten /\ batch' # "previewed"
  BY <1>1, <1>2, <1>3, <1>4, RowPut
<1>6. PICK S : S = command[p].awaiting \ {f[1]}
  OBVIOUS
<1>7. PICK n : n = [command[p] EXCEPT !.pc = "begin", !.awaiting = S, !.found = {}]
  OBVIOUS
<1>8. S \in SUBSET Batch!Children
  BY <1>6, CommandIs DEF BatchCommand
<1>9. n \in BatchCommand /\ n.pc = "begin" /\ n.found = {}
  BY <1>7, <1>8, CommandIs DEF BatchCommand, Batch!Phases
<1>10. n = [command[p] EXCEPT !.pc = "begin", !.awaiting = @ \ {f[1]}, !.found = {}]
  BY <1>6, <1>7
<1>11. BatchNext(p, n)
  BY <1>1, <1>5, <1>9, <1>10 DEF BatchNext
<1> QED
  BY <1>2, <1>5, <1>9, <1>11, RowStep

\* The candidates of a reconciliation are bound if their sessions are.
LEMMA CandidatesAre ==
  ASSUME BatchInv
  PROVE  /\ Batch!Candidates \in SUBSET (Batch!Children \X {"bound", "failed"})
         /\ \A c \in Batch!Children : <<c, "bound">> \in Batch!Candidates => c \in session
         /\ Batch!Candidates # {} => batch # "previewed"
<1>1. ASSUME NEW f \in Batch!Candidates
      PROVE  \E c \in Batch!InStatus({"launched", "failed"}) :
               f = <<c, "failed">> \/ (f = <<c, "bound">> /\ c \in session)
  BY DEF Batch!Candidates
<1>2. Batch!InStatus({"launched", "failed"}) \subseteq Batch!Children
  BY DEF Batch!InStatus
<1>3. Batch!InStatus({"launched", "failed"}) # {} => batch # "previewed"
  BY DEF BatchInv, Batch!StatusMatchesChildren, Batch!InStatus
<1> QED
  BY <1>1, <1>2, <1>3

\* What a reconciliation finds bound has a session.
LEMMA ReadCandidatesStep ==
  ASSUME BatchInv, NEW p \in Commands, NEW next \in {"idle", "read"},
         Batch!ReadCandidates(p, next), UNCHANGED <<batch, child, intents, session, spawned>>
  PROVE  BatchInv'
<1>1. PICK S : S = Batch!Candidates
  OBVIOUS
<1>2. PICK n : n = [Batch!NoCommand EXCEPT !.pc = "reconcile", !.found = S, !.next = next]
  OBVIOUS
<1>3. S \in SUBSET (Batch!Children \X {"bound", "failed"})
  BY <1>1, CandidatesAre
<1>4. n \in BatchCommand /\ n.pc = "reconcile" /\ n.found = S
  BY <1>2, <1>3 DEF Batch!NoCommand, BatchCommand, Batch!Phases
<1>5. command' = [command EXCEPT ![p] = n]
  BY <1>1, <1>2 DEF Batch!ReadCandidates
<1>6. BatchNext(p, n)
  BY <1>1, <1>4, <1>5, CandidatesAre DEF BatchNext, Writing
<1> QED
  BY <1>4, <1>6, RowsStay, RowStep

\* A resumption, a status and the end of a launch read the candidates.
LEMMA ReadCandidatesSteps ==
  ASSUME BatchInv, NEW p \in Commands,
         Batch!Resume(p) \/ Batch!Status(p) \/ Batch!ReconcileLaunched(p)
  PROVE  BatchInv'
<1>1. UNCHANGED <<batch, child, intents, session, spawned>>
  BY DEF Batch!Resume, Batch!Status, Batch!ReconcileLaunched, Batch!rows, Batch!launches
<1>2. Batch!ReadCandidates(p, "read") \/ Batch!ReadCandidates(p, "idle")
  BY DEF Batch!Resume, Batch!Status, Batch!ReconcileLaunched
<1> QED
  BY <1>1, <1>2, ReadCandidatesStep

\* A reconciliation writes what it has found.
LEMMA ReconcileStep ==
  ASSUME BatchInv, NEW p \in Commands, Batch!Reconcile(p)
  PROVE  BatchInv'
<1>1. UNCHANGED <<intents, session, spawned>> /\ command[p].pc = "reconcile"
  BY DEF Batch!Reconcile, Batch!launches, Batch!At
<1>2. ASSUME NEW f \in command[p].found, Batch!Put(f[1], f[2], FALSE),
             command' = [command EXCEPT ![p] = [command[p] EXCEPT !.found = command[p].found \ {f}]]
      PROVE  BatchInv'
  <2>1. f[1] \in Batch!Children /\ f[2] \in {"bound", "failed"} /\ f = <<f[1], f[2]>>
    BY CommandIs DEF BatchCommand
  <2>2. (f[2] = "bound" => f[1] \in session) /\ batch # "previewed"
    BY <2>1, CommandIs
  <2>3. RowsWritten /\ batch' # "previewed"
    BY <1>2, <2>1, <2>2, RowPut
  <2>4. PICK S : S = command[p].found \ {f}
    OBVIOUS
  <2>5. PICK n : n = [command[p] EXCEPT !.found = S]
    OBVIOUS
  <2>6. n \in BatchCommand /\ n.pc = "reconcile" /\ n.found = S
    <3>1. S \in SUBSET (Batch!Children \X {"bound", "failed"})
      BY <2>4, CommandIs DEF BatchCommand
    <3> QED
      BY <1>1, <2>5, <3>1, CommandIs DEF BatchCommand
  <2>7. BatchNext(p, n)
    BY <1>2, <2>3, <2>4, <2>5, <2>6, CommandIs DEF BatchNext
  <2> QED
    BY <1>1, <2>3, <2>6, <2>7, RowStep
<1>3. ASSUME command[p].found = {}, Batch!Goto(p, command[p].next), UNCHANGED Batch!rows
      PROVE  BatchInv'
  <2>1. command[p].next \in {"idle", "read"}
    BY CommandIs DEF BatchCommand
  <2>2. \E n : BatchNext(p, n) /\ n.pc = command[p].next
    BY <1>3, <2>1, GoneTo DEF Batch!Phases, Writing, Batch!rows
  <2> QED
    BY <1>1, <1>3, <2>1, <2>2, RowsStay, RowStep DEF Batch!rows
<1>4. \/ \E f \in command[p].found :
           /\ Batch!Put(f[1], f[2], FALSE)
           /\ command' = [command EXCEPT ![p] = [command[p] EXCEPT !.found = command[p].found \ {f}]]
      \/ command[p].found = {} /\ Batch!Goto(p, command[p].next) /\ UNCHANGED Batch!rows
  BY DEF Batch!Reconcile
<1> QED
  BY <1>2, <1>3, <1>4

\* What happens around the commands.
LEMMA AroundBatch ==
  ASSUME BatchInv, NEW c \in Batch!Children, Batch!Bind(c) \/ Batch!Take(c)
  PROVE  BatchInv'
<1>1. UNCHANGED <<batch, child, spawned, command>>
  BY DEF Batch!Bind, Batch!Take, Batch!rows
<1>2. Batch!StatusMatchesChildren' /\ Reached'
  BY <1>1, RowsStay DEF RowsWritten
<1>3. CASE Batch!Take(c)
  <2>1. UNCHANGED <<intents, session>>
    BY <1>3 DEF Batch!Take
  <2>2. Founded' /\ BatchOpened'
    BY <1>1, <2>1 DEF BatchInv, Founded, BatchOpened, BatchOpens, Batch!Launching
  <2> QED
    BY <1>1, <1>2, <2>1, <2>2 DEF BatchInv, BatchTypes, BatchSpawned
<1>4. CASE Batch!Bind(c)
  <2>1. /\ spawned[c] > 0 /\ session' = session \cup {c}
        /\ intents' = [intents EXCEPT ![c] = "bound"]
    BY <1>4 DEF Batch!Bind
  <2>2. \A d \in Batch!Children : intents'[d] = IF d = c THEN "bound" ELSE intents[d]
    BY <2>1 DEF BatchInv, BatchTypes
  <2>3. BatchTypes' /\ Founded' /\ BatchSpawned'
    BY <1>1, <2>1, <2>2 DEF BatchInv, BatchTypes, Founded, BatchSpawned
  <2>4. BatchOpened'
    <3>1. \A p \in Commands : ~BatchOpens(p, c)
      BY <2>1 DEF BatchInv, BatchOpened, BatchTypes
    <3>2. \A p \in Commands, d \in Batch!Children : BatchOpens(p, d)' => BatchOpens(p, d)
      BY <1>1 DEF BatchOpens, Batch!Launching
    <3>3. \A p \in Commands, d \in Batch!Children : Batch!Launching(p, d)' => Batch!Launching(p, d)
      BY <1>1 DEF Batch!Launching
    <3> QED
      BY <1>1, <2>2, <3>1, <3>2, <3>3 DEF BatchInv, BatchOpened
  <2> QED
    BY <1>2, <2>3, <2>4 DEF BatchInv
<1> QED
  BY <1>3, <1>4

\* Every step of a batch keeps the invariant.
LEMMA BatchStep == BatchInv /\ Batch!Next => BatchInv'
<1> SUFFICES ASSUME BatchInv, Batch!Next PROVE BatchInv'
  OBVIOUS
<1>1. ASSUME NEW p \in Commands, Batch!Crash(p) PROVE BatchInv'
  BY <1>1, RowsStay, ReturnBatch DEF Batch!Crash, Batch!rows, Batch!launches
<1> QED
  BY <1>1, ConfirmSteps, PreflightFailsStep, ReserveStep, ReadReservationStep, BatchBeginStep,
     MarkLaunchedStep, SpawnSteps, ExecuteStep, GiveUpChildStep, AwaitStep, MarkAwaitedStep,
     ReadCandidatesSteps, ReconcileStep, AroundBatch
     DEF Batch!Next, Batch!WorkBatch

\* The invariant implies what the run checks of a batch.
LEMMA BatchOnce ==
  BatchInv => Batch!SpawnedOnce /\ Batch!StatusMatchesChildren /\ Batch!Reconcilable
BY DEF BatchInv, BatchTypes, Reached, BatchSpawned, Batch!SpawnedOnce, Batch!Reconcilable

-----------------------------------------------------------------------------
(* Requests of a session.                                                  *)

\* The states of a call that has found its request stored.
Stored == {"check", "insert", "spawn", "execute", "launched", "await", "bound"}

AskCommand == [pc : Ask!Phases, key : Keys \cup {"none"}, repository : Repositories \cup {Ask!NoRepository}]

AskTypes ==
  /\ request \in [Keys -> [status : {"absent", "pending", "launched", "bound"},
                           repository : Repositories \cup {Ask!NoRepository}]]
  /\ intents \in [Keys -> {"absent", "pending", "launched", "bound", "failed"}]
  /\ spawned \in [Keys -> Nat]
  /\ command \in [Commands -> AskCommand]

\* What a call knows of its request and of its launch.
AskKnows(n) ==
  n.pc # "idle" =>
    /\ n.key \in Keys
    /\ n.pc \in Stored => request[n.key].status # "absent"
    /\ n.pc = "spawn" => intents[n.key] = "pending" /\ spawned[n.key] = 0
    /\ n.pc \in {"execute", "launched"} => spawned[n.key] > 0
    /\ n.pc = "launched" => intents[n.key] \in {"launched", "bound"}
    /\ n.pc = "bound" => intents[n.key] = "bound"

\* No two calls are about to spawn the terminal of one request.
AskAlone ==
  \A p, q \in Commands :
    command[p].pc = "spawn" /\ command[q].pc = "spawn" /\ command[p].key = command[q].key => p = q

AskSpawned ==
  \A k \in Keys : spawned[k] <= 1 /\ (intents[k] = "absent" => spawned[k] = 0)

AskInv ==
  /\ AskTypes /\ AskAlone /\ AskSpawned /\ Ask!RecordsAreTrue
  /\ \A p \in Commands : AskKnows(command[p])

\* Requests that nobody has made satisfy the invariant.
LEMMA AskStarting == Ask!Init => AskInv
BY DEF Ask!Init, AskInv, AskTypes, AskKnows, AskAlone, AskSpawned, Ask!RecordsAreTrue,
       Ask!NoCommand, AskCommand, Ask!Phases, Ask!NoRepository

\* The rows of requests and launches go on as they may, whatever the others are at.
AskOnwards(k) ==
  /\ request[k].status # "absent" => request'[k].status # "absent"
  /\ intents[k] = "bound" => intents'[k] = "bound"
  /\ intents[k] = "launched" => intents'[k] \in {"launched", "bound"}
  /\ spawned[k] <= spawned'[k]

\* A call goes on.
LEMMA AskMoves ==
  ASSUME AskInv, NEW p \in Commands, NEW n \in AskCommand, command' = [command EXCEPT ![p] = n],
         request' \in [Keys -> [status : {"absent", "pending", "launched", "bound"},
                                repository : Repositories \cup {Ask!NoRepository}]],
         intents' \in [Keys -> {"absent", "pending", "launched", "bound", "failed"}],
         spawned' \in [Keys -> Nat],
         AskSpawned', Ask!RecordsAreTrue', AskKnows(n)',
         \A k \in Keys : AskOnwards(k),
         \A q \in Commands : q # p /\ command[q].pc = "spawn" =>
           /\ intents'[command[q].key] = intents[command[q].key]
           /\ spawned'[command[q].key] = spawned[command[q].key]
           /\ n.pc = "spawn" => n.key # command[q].key
  PROVE  AskInv'
<1>1. \A q \in Commands : command'[q] = IF q = p THEN n ELSE command[q]
  BY DEF AskInv, AskTypes
<1>2. AskTypes'
  BY DEF AskInv, AskTypes
<1>3. AskAlone'
  BY <1>1 DEF AskInv, AskAlone
<1>4. \A q \in Commands : AskKnows(command[q])'
  <2> SUFFICES ASSUME NEW q \in Commands PROVE AskKnows(command[q])'
    OBVIOUS
  <2>1. CASE q = p
    <3>1. command'[q] = n
      BY <1>1, <2>1
    <3> QED
      BY <3>1 DEF AskKnows
  <2>2. CASE q # p
    <3>1. command'[q] = command[q] /\ AskKnows(command[q])
      BY <1>1, <2>2 DEF AskInv
    <3> QED
      BY <2>2, <3>1 DEF AskKnows, AskOnwards, AskInv, AskTypes, Stored
  <2> QED
    BY <2>1, <2>2
<1> QED
  BY <1>2, <1>3, <1>4 DEF AskInv

\* A call that only reads.
LEMMA AskReads ==
  ASSUME AskInv, NEW p \in Commands, NEW n \in AskCommand, command' = [command EXCEPT ![p] = n],
         UNCHANGED <<request, intents, spawned>>, AskKnows(n), n.pc # "spawn"
  PROVE  AskInv'
<1>1. AskSpawned' /\ Ask!RecordsAreTrue' /\ AskKnows(n)'
  BY DEF AskInv, AskSpawned, Ask!RecordsAreTrue, AskKnows
<1>2. \A k \in Keys : AskOnwards(k)
  BY DEF AskOnwards, AskInv, AskTypes
<1> QED
  BY <1>1, <1>2, AskMoves DEF AskInv, AskTypes

\* A call that goes to a state, or ends.
LEMMA AskGoes ==
  ASSUME AskInv, NEW p \in Commands, NEW pc \in Ask!Phases, Ask!Goto(p, pc)
  PROVE  \E n \in AskCommand : /\ command' = [command EXCEPT ![p] = n]
                               /\ n.pc = pc /\ n.key = command[p].key
                               /\ n.repository = command[p].repository
<1> DEFINE n == [command[p] EXCEPT !.pc = pc]
<1>1. n \in AskCommand /\ n.pc = pc /\ n.key = command[p].key /\ n.repository = command[p].repository
  BY DEF AskInv, AskTypes, AskCommand
<1>2. command' = [command EXCEPT ![p] = n]
  BY DEF Ask!Goto
<1> QED
  BY <1>1, <1>2

\* A call that ends knows nothing.
LEMMA AskEnds ==
  ASSUME AskInv, NEW p \in Commands, Ask!Return(p)
  PROVE  \E n \in AskCommand : /\ command' = [command EXCEPT ![p] = n]
                               /\ n.pc = "idle" /\ AskKnows(n) /\ AskKnows(n)'
<1>1. Ask!NoCommand \in AskCommand /\ Ask!NoCommand.pc = "idle"
  BY DEF Ask!NoCommand, AskCommand, Ask!Phases, Ask!NoRepository
<1> QED
  BY <1>1 DEF Ask!Return, AskKnows

\* The calls up to the launch.
LEMMA AskingSteps ==
  ASSUME AskInv, NEW p \in Commands,
         \/ \E k \in Keys, r \in Repositories : Ask!Call(p, k, r)
         \/ Ask!Existing(p) \/ Ask!Prepare(p) \/ Ask!Authorize(p) \/ Ask!Check(p) \/ Ask!Await(p)
         \/ Ask!Crash(p)
  PROVE  AskInv'
<1>1. UNCHANGED <<request, intents, spawned>>
  BY DEF Ask!Call, Ask!Existing, Ask!Prepare, Ask!Authorize, Ask!Check, Ask!Await, Ask!Crash
<1>2. command[p] \in AskCommand /\ AskKnows(command[p])
  BY DEF AskInv, AskTypes
<1>3. ASSUME NEW k \in Keys, NEW r \in Repositories, Ask!Call(p, k, r) PROVE AskInv'
  <2>1. PICK n : n = [pc |-> "existing", key |-> k, repository |-> r]
    OBVIOUS
  <2>2. n \in AskCommand /\ AskKnows(n) /\ n.pc # "spawn"
    BY <2>1 DEF AskCommand, Ask!Phases, AskKnows, Stored
  <2>3. command' = [command EXCEPT ![p] = n]
    BY <1>3, <2>1 DEF Ask!Call
  <2> QED
    BY <1>1, <2>2, <2>3, AskReads
<1>4. ASSUME Ask!Return(p) PROVE AskInv'
  BY <1>1, <1>4, AskEnds, AskReads
<1>5. ASSUME NEW pc \in {"prepare", "request", "store", "insert", "bound"}, Ask!Goto(p, pc),
             command[p].pc # "idle",
             pc = "insert" => command[p].pc = "check",
             pc = "bound" => command[p].pc = "await" /\ intents[command[p].key] = "bound"
      PROVE  AskInv'
  <2>1. PICK n \in AskCommand : /\ command' = [command EXCEPT ![p] = n]
                                /\ n.pc = pc /\ n.key = command[p].key
    BY <1>5, AskGoes DEF Ask!Phases
  <2>2. AskKnows(n) /\ n.pc # "spawn"
    BY <1>2, <1>5, <2>1 DEF AskKnows, Stored
  <2> QED
    BY <1>1, <2>1, <2>2, AskReads
<1>6. ASSUME Ask!Existing(p) \/ Ask!Prepare(p) \/ Ask!Authorize(p) \/ Ask!Check(p) PROVE AskInv'
  BY <1>4, <1>5, <1>6 DEF Ask!Existing, Ask!Prepare, Ask!Authorize, Ask!Check, Ask!At
<1>7. ASSUME Ask!Await(p) PROVE AskInv'
  BY <1>4, <1>5, <1>7 DEF Ask!Await, Ask!Confirmed, Ask!At
<1>8. ASSUME Ask!Crash(p) PROVE AskInv'
  BY <1>4, <1>8 DEF Ask!Crash
<1> QED
  BY <1>3, <1>6, <1>7, <1>8

\* What a call that is not idle knows of itself.
LEMMA AskIs ==
  ASSUME AskInv, NEW p \in Commands, command[p].pc # "idle"
  PROVE  command[p] \in AskCommand /\ command[p].key \in Keys /\ AskKnows(command[p])
BY DEF AskInv, AskTypes, AskKnows

\* The request is stored, or one is there.
LEMMA StoreStep ==
  ASSUME AskInv, NEW p \in Commands, Ask!Store(p)
  PROVE  AskInv'
<1>1. command[p].pc = "store" /\ UNCHANGED <<intents, spawned>>
  BY DEF Ask!Store, Ask!At
<1>2. PICK k \in Keys : k = command[p].key
  BY <1>1, AskIs
<1>3. CASE /\ request[k].status = "absent" /\ Ask!Goto(p, "check")
           /\ request' = [request EXCEPT ![k] = [status |-> "pending", repository |-> command[p].repository]]
  <2>1. command[p].repository \in Repositories \cup {Ask!NoRepository}
    BY <1>1, AskIs DEF AskCommand
  <2>2. /\ request' \in [Keys -> [status : {"absent", "pending", "launched", "bound"},
                                  repository : Repositories \cup {Ask!NoRepository}]]
        /\ request'[k].status = "pending" /\ \A j \in Keys : j # k => request'[j] = request[j]
    BY <1>3, <2>1 DEF AskInv, AskTypes
  <2>3. PICK n \in AskCommand : command' = [command EXCEPT ![p] = n] /\ n.pc = "check" /\ n.key = k
    BY <1>2, <1>3, AskGoes DEF Ask!Phases
  <2>4. AskSpawned' /\ Ask!RecordsAreTrue' /\ AskKnows(n)' /\ \A j \in Keys : AskOnwards(j)
    <3>1. Ask!RecordsAreTrue'
      BY <1>1, <2>2 DEF AskInv, Ask!RecordsAreTrue
    <3>2. AskKnows(n)'
      BY <2>2, <2>3 DEF AskKnows
    <3> QED
      BY <1>1, <2>2, <3>1, <3>2 DEF AskInv, AskTypes, AskSpawned, AskOnwards
  <2> QED
    BY <1>1, <2>2, <2>3, <2>4, AskMoves DEF AskInv, AskTypes
<1>4. CASE request[k].status # "absent" /\ Ask!Return(p) /\ UNCHANGED request
  BY <1>1, <1>4, AskEnds, AskReads
<1>5. CASE request[k].status # "absent" /\ Ask!Goto(p, "check") /\ UNCHANGED request
  <2>1. PICK n \in AskCommand : command' = [command EXCEPT ![p] = n] /\ n.pc = "check" /\ n.key = k
    BY <1>2, <1>5, AskGoes DEF Ask!Phases
  <2>2. AskKnows(n)
    BY <1>5, <2>1 DEF AskKnows
  <2> QED
    BY <1>1, <1>5, <2>1, <2>2, AskReads
<1> QED
  BY <1>2, <1>3, <1>4, <1>5 DEF Ask!Store

\* A launch changes, and its request with it or not.
AskLaunch(p, n, k, status, count) ==
  /\ n \in AskCommand /\ command' = [command EXCEPT ![p] = n]
  /\ status \in {"pending", "launched", "bound", "failed"} /\ count \in {0, 1}
  /\ UNCHANGED request /\ request[k].status # "absent"
  /\ intents' = [intents EXCEPT ![k] = status] /\ spawned' = [spawned EXCEPT ![k] = count]
  /\ spawned[k] <= count
  /\ intents[k] \in {"absent", "pending"} \/ intents[k] = status
  /\ n.pc # "idle" => n.key = k
  /\ n.pc \in {"idle", "spawn", "execute", "launched"}
  /\ n.pc = "spawn" => status = "pending" /\ count = 0
  /\ n.pc \in {"execute", "launched"} => count = 1
  /\ n.pc = "launched" => status = "launched"
  /\ \A q \in Commands : q # p /\ command[q].pc = "spawn" => command[q].key # k

\* A call that changes the launch of its request keeps the invariant.
LEMMA AskLaunches ==
  ASSUME AskInv, NEW p \in Commands, NEW n, NEW k \in Keys, NEW status, NEW count,
         AskLaunch(p, n, k, status, count)
  PROVE  AskInv'
<1> USE DEF AskLaunch
<1>1. /\ intents' \in [Keys -> {"absent", "pending", "launched", "bound", "failed"}]
      /\ spawned' \in [Keys -> Nat]
      /\ \A j \in Keys : /\ intents'[j] = IF j = k THEN status ELSE intents[j]
                         /\ spawned'[j] = IF j = k THEN count ELSE spawned[j]
  BY DEF AskInv, AskTypes
<1>2. AskSpawned'
  BY <1>1 DEF AskInv, AskSpawned
<1>3. Ask!RecordsAreTrue'
  BY <1>1 DEF AskInv, AskTypes, Ask!RecordsAreTrue
<1>4. AskKnows(n)'
  BY <1>1 DEF AskKnows
<1>5. \A j \in Keys : AskOnwards(j)
  BY <1>1 DEF AskInv, AskTypes, AskOnwards
<1>6. \A q \in Commands : q # p /\ command[q].pc = "spawn" =>
        /\ intents'[command[q].key] = intents[command[q].key]
        /\ spawned'[command[q].key] = spawned[command[q].key]
        /\ n.pc = "spawn" => n.key # command[q].key
  BY <1>1, AskIs
<1> QED
  BY <1>1, <1>2, <1>3, <1>4, <1>5, <1>6, AskMoves DEF AskInv, AskTypes

\* The launch of a request and the number of its terminals, as they are.
LEMMA AskSame ==
  ASSUME AskInv, NEW k \in Keys
  PROVE  /\ intents = [intents EXCEPT ![k] = intents[k]]
         /\ spawned = [spawned EXCEPT ![k] = spawned[k]] /\ spawned[k] \in {0, 1}
<1>1. intents \in [Keys -> {"absent", "pending", "launched", "bound", "failed"}] /\ spawned \in [Keys -> Nat]
  BY DEF AskInv, AskTypes
<1>2. spawned[k] <= 1
  BY DEF AskInv, AskSpawned
<1> QED
  BY <1>1, <1>2

\* The launch of a request is begun by one call.
LEMMA InsertStep ==
  ASSUME AskInv, NEW p \in Commands, Ask!Insert(p)
  PROVE  AskInv'
<1>1. command[p].pc = "insert" /\ UNCHANGED <<request, spawned>>
  BY DEF Ask!Insert, Ask!At
<1>2. PICK k \in Keys : k = command[p].key
  BY <1>1, AskIs
<1>3. CASE intents[k] = "absent" /\ intents' = [intents EXCEPT ![k] = "pending"] /\ Ask!Goto(p, "spawn")
  <2>1. request[k].status # "absent"
    BY <1>1, <1>2, AskIs DEF AskKnows, Stored
  <2>2. spawned[k] = 0 /\ spawned' = [spawned EXCEPT ![k] = 0]
    BY <1>1, <1>3, AskSame DEF AskInv, AskSpawned
  <2>3. PICK n \in AskCommand : command' = [command EXCEPT ![p] = n] /\ n.pc = "spawn" /\ n.key = k
    BY <1>2, <1>3, AskGoes DEF Ask!Phases
  <2>4. \A q \in Commands : q # p /\ command[q].pc = "spawn" => command[q].key # k
    BY <1>3, AskIs DEF AskKnows
  <2> QED
    <3>1. UNCHANGED request /\ intents[k] = "absent" /\ intents' = [intents EXCEPT ![k] = "pending"]
      BY <1>1, <1>3
    <3>2. AskLaunch(p, n, k, "pending", 0)
      BY <2>1, <2>2, <2>3, <2>4, <3>1 DEF AskLaunch
    <3> QED
      BY <3>2, AskLaunches, Zenon
<1>4. CASE Ask!Return(p) /\ UNCHANGED intents
  BY <1>1, <1>4, AskEnds, AskReads
<1> QED
  BY <1>2, <1>3, <1>4 DEF Ask!Insert

\* The terminal is spawned by the call that began the launch, or is not.
LEMMA SpawningSteps ==
  ASSUME AskInv, NEW p \in Commands, Ask!Spawn(p) \/ Ask!SpawnFails(p)
  PROVE  AskInv'
<1>1. command[p].pc = "spawn" /\ UNCHANGED request
  BY DEF Ask!Spawn, Ask!SpawnFails, Ask!At
<1>2. PICK k \in Keys : k = command[p].key
  BY <1>1, AskIs
<1>3. /\ intents[k] = "pending" /\ spawned[k] = 0 /\ request[k].status # "absent"
      /\ \A q \in Commands : q # p /\ command[q].pc = "spawn" => command[q].key # k
  BY <1>1, <1>2, AskIs DEF AskInv, AskKnows, AskAlone, Stored
<1>4. CASE Ask!Spawn(p)
  <2>1. /\ spawned' = [spawned EXCEPT ![k] = 1] /\ intents' = [intents EXCEPT ![k] = "pending"]
    <3>1. spawned' = [spawned EXCEPT ![k] = spawned[k] + 1] /\ UNCHANGED intents
      BY <1>2, <1>4 DEF Ask!Spawn
    <3>2. spawned[k] + 1 = 1
      BY <1>3
    <3> QED
      BY <1>3, <3>1, <3>2, AskSame
  <2>2. PICK n \in AskCommand : command' = [command EXCEPT ![p] = n] /\ n.pc = "execute" /\ n.key = k
    BY <1>2, <1>4, AskGoes DEF Ask!Spawn, Ask!Phases
  <2> QED
    <3>1. AskLaunch(p, n, k, "pending", 1)
      BY <1>1, <1>3, <2>1, <2>2 DEF AskLaunch
    <3> QED
      BY <3>1, AskLaunches, Zenon
<1>5. CASE Ask!SpawnFails(p)
  <2>1. /\ spawned' = [spawned EXCEPT ![k] = 0] /\ intents' = [intents EXCEPT ![k] = "failed"]
    BY <1>2, <1>3, <1>5, AskSame DEF Ask!SpawnFails
  <2>2. PICK n \in AskCommand : command' = [command EXCEPT ![p] = n] /\ n.pc = "idle"
    BY <1>5, AskEnds DEF Ask!SpawnFails
  <2> QED
    <3>1. AskLaunch(p, n, k, "failed", 0)
      BY <1>1, <1>3, <2>1, <2>2 DEF AskLaunch
    <3> QED
      BY <3>1, AskLaunches, Zenon
<1> QED
  BY <1>4, <1>5

\* A launch that was spawned is marked, unless its hook was faster.
LEMMA ExecutingStep ==
  ASSUME AskInv, NEW p \in Commands, Ask!Execute(p)
  PROVE  AskInv'
<1>1. command[p].pc = "execute" /\ UNCHANGED <<request, spawned>>
  BY DEF Ask!Execute, Ask!At
<1>2. PICK k \in Keys : k = command[p].key
  BY <1>1, AskIs
<1>3. /\ spawned[k] = 1 /\ request[k].status # "absent"
      /\ \A q \in Commands : q # p /\ command[q].pc = "spawn" => command[q].key # k
  <2>1. spawned[k] > 0 /\ request[k].status # "absent"
    BY <1>1, <1>2, AskIs DEF AskKnows, Stored
  <2>2. spawned[k] = 1
    BY <2>1, AskSame
  <2> QED
    BY <2>1, <2>2, AskIs DEF AskKnows
<1>4. CASE intents[k] = "pending" /\ intents' = [intents EXCEPT ![k] = "launched"] /\ Ask!Goto(p, "launched")
  <2>1. spawned' = [spawned EXCEPT ![k] = 1]
    BY <1>1, <1>3, AskSame
  <2>2. PICK n \in AskCommand : command' = [command EXCEPT ![p] = n] /\ n.pc = "launched" /\ n.key = k
    BY <1>2, <1>4, AskGoes DEF Ask!Phases
  <2> QED
    <3>1. UNCHANGED request /\ intents[k] = "pending" /\ intents' = [intents EXCEPT ![k] = "launched"]
      BY <1>1, <1>4
    <3>2. AskLaunch(p, n, k, "launched", 1)
      BY <1>3, <2>1, <2>2, <3>1 DEF AskLaunch
    <3> QED
      BY <3>2, AskLaunches, Zenon
<1>5. CASE Ask!Return(p) /\ UNCHANGED intents
  BY <1>1, <1>5, AskEnds, AskReads
<1> QED
  BY <1>2, <1>4, <1>5 DEF Ask!Execute

\* The request is told what became of its launch.
LEMMA TellingSteps ==
  ASSUME AskInv, NEW p \in Commands, Ask!RecordLaunch(p) \/ Ask!RecordBinding(p)
  PROVE  AskInv'
<1>1. command[p].pc \in {"launched", "bound"} /\ UNCHANGED <<intents, spawned>>
  BY DEF Ask!RecordLaunch, Ask!RecordBinding, Ask!At
<1>2. PICK k \in Keys : k = command[p].key
  BY <1>1, AskIs
<1>3. AskKnows(command[p]) /\ request[k].status # "absent"
  BY <1>1, <1>2, AskIs DEF AskKnows, Stored
<1>4. ASSUME NEW status \in {"launched", "bound", "pending"},
             request' = [request EXCEPT ![k].status = status],
             status = "launched" => intents[k] \in {"launched", "bound"} /\ spawned[k] > 0,
             status = "bound" => intents[k] = "bound",
             NEW n \in AskCommand, command' = [command EXCEPT ![p] = n],
             n.pc = "idle" \/ (n.pc = "await" /\ n.key = k)
      PROVE  AskInv'
  <2>1. /\ request' \in [Keys -> [status : {"absent", "pending", "launched", "bound"},
                                  repository : Repositories \cup {Ask!NoRepository}]]
        /\ request'[k].status = status /\ \A j \in Keys : j # k => request'[j] = request[j]
    BY <1>4 DEF AskInv, AskTypes
  <2>2. Ask!RecordsAreTrue' /\ AskSpawned'
    BY <1>1, <1>4, <2>1 DEF AskInv, AskSpawned, Ask!RecordsAreTrue
  <2>3. AskKnows(n)'
    BY <1>1, <1>4, <2>1 DEF AskKnows
  <2>4. \A j \in Keys : AskOnwards(j)
    BY <1>1, <1>4, <2>1 DEF AskOnwards, AskInv, AskTypes
  <2> QED
    BY <1>1, <1>4, <2>1, <2>2, <2>3, <2>4, AskMoves DEF AskInv, AskTypes
<1>5. CASE Ask!RecordLaunch(p)
  <2>1. command[p].pc = "launched"
    BY <1>5 DEF Ask!RecordLaunch, Ask!At
  <2>2. CASE request' = [request EXCEPT ![k].status = "launched"] /\ Ask!Goto(p, "await")
    <3>1. PICK n \in AskCommand : command' = [command EXCEPT ![p] = n] /\ n.pc = "await" /\ n.key = k
      BY <1>2, <2>2, AskGoes DEF Ask!Phases
    <3> QED
      BY <1>2, <1>3, <1>4, <2>1, <2>2, <3>1 DEF AskKnows
  <2>3. CASE Ask!Return(p) /\ UNCHANGED request
    BY <1>1, <2>3, AskEnds, AskReads
  <2> QED
    BY <1>2, <1>5, <2>2, <2>3 DEF Ask!RecordLaunch
<1>6. CASE Ask!RecordBinding(p)
  <2>1. /\ command[p].pc = "bound" /\ Ask!Return(p)
        /\ request' = [request EXCEPT ![k].status =
                         IF request[k].status = "launched" THEN "bound" ELSE request[k].status]
    BY <1>2, <1>6 DEF Ask!RecordBinding, Ask!At
  <2>2. PICK n \in AskCommand : command' = [command EXCEPT ![p] = n] /\ n.pc = "idle"
    BY <2>1, AskEnds
  <2>3. PICK status : status = IF request[k].status = "launched" THEN "bound" ELSE request[k].status
    OBVIOUS
  <2>4. status \in {"launched", "bound", "pending"} /\ intents[k] = "bound" /\ status # "launched"
    BY <1>2, <1>3, <2>1, <2>3 DEF AskKnows, AskInv, AskTypes
  <2> QED
    BY <1>4, <2>1, <2>2, <2>3, <2>4
<1> QED
  BY <1>5, <1>6

\* What happens around the calls.
LEMMA AroundAsk ==
  ASSUME AskInv,
         \/ \E k \in Keys : Ask!Bind(k)
         \/ \E s \in Keys \cup {Ask!Requester} : Ask!Close(s)
         \/ \E r \in Repositories : Ask!Lose(r)
  PROVE  AskInv'
<1>1. UNCHANGED <<request, spawned, command>>
  BY DEF Ask!Bind, Ask!Close, Ask!Lose
<1>2. CASE UNCHANGED intents
  BY <1>1, <1>2 DEF AskInv, AskTypes, AskAlone, AskSpawned, AskKnows, Ask!RecordsAreTrue
<1>3. ASSUME NEW k \in Keys, Ask!Bind(k) PROVE AskInv'
  <2>1. /\ spawned[k] > 0 /\ intents[k] \in {"pending", "launched"}
        /\ intents' = [intents EXCEPT ![k] = "bound"]
    BY <1>3 DEF Ask!Bind
  <2>2. /\ intents' \in [Keys -> {"absent", "pending", "launched", "bound", "failed"}]
        /\ \A j \in Keys : intents'[j] = IF j = k THEN "bound" ELSE intents[j]
    BY <2>1 DEF AskInv, AskTypes
  <2>3. AskTypes' /\ AskAlone' /\ AskSpawned' /\ Ask!RecordsAreTrue'
    BY <1>1, <2>1, <2>2 DEF AskInv, AskTypes, AskAlone, AskSpawned, Ask!RecordsAreTrue
  <2>4. ASSUME NEW p \in Commands PROVE AskKnows(command[p])'
    <3>1. AskKnows(command[p])
      BY DEF AskInv
    <3> QED
      BY <1>1, <2>1, <2>2, <3>1 DEF AskKnows, AskInv, AskTypes
  <2> QED
    BY <2>3, <2>4 DEF AskInv
<1> QED
  BY <1>2, <1>3 DEF Ask!Close, Ask!Lose

\* Every step of a request keeps the invariant.
LEMMA AskStep == AskInv /\ Ask!Next => AskInv'
<1> SUFFICES ASSUME AskInv, Ask!Next PROVE AskInv'
  OBVIOUS
<1> QED
  BY AskingSteps, StoreStep, InsertStep, SpawningSteps, ExecutingStep, TellingSteps, AroundAsk
     DEF Ask!Next

\* The invariant implies what the run checks of requests.
LEMMA AskTrue == AskInv => Ask!SpawnedOnce /\ Ask!RecordsAreTrue
BY DEF AskInv, AskSpawned, Ask!SpawnedOnce

-----------------------------------------------------------------------------
(* Recoveries.                                                             *)

\* The states of a recovery, and those in which it has a session at hand.
AtHand == {"record", "recreate", "begin", "spawn", "mark", "launched", "await"}
RecoveryPhases == {"idle", "attempt", "entry"} \cup AtHand

Dispositions == {"already_live", "launch_reconciliation_required", "unresumable", "ready_present",
                 "ready_recreate", "checkout_collision"}
Entries == {<<>>} \cup UNION {[S -> Dispositions] : S \in SUBSET Sessions}
Result == [status : Recover!Outcomes, intent : BOOLEAN]

RecoveryCommand ==
  [pc : RecoveryPhases, attempt : Attempts \cup {"none"}, replace : BOOLEAN, at : Nat,
   entries : Entries, todo : SUBSET Sessions, at_hand : Sessions \cup {0}, result : Result]

LaunchRow == [status : {"absent", "pending", "launched", "bound", "failed"}, expires : {0, 2}, at : Nat]

AttemptRow == [status : {"none", "running", "completed", "partial"}, plan : SUBSET Sessions]

RecoverRows ==
  /\ restore \subseteq Sessions /\ checkout \in [Sessions -> {"own", "missing", "other"}]
  /\ attempt \in [Attempts -> AttemptRow] /\ outcome \in [Attempts -> [Sessions -> Result]]
  /\ invocations \in Nat /\ failures \in Nat

RecoverTypes ==
  /\ RecoverRows
  /\ intents \in [Recover!Launches -> LaunchRow]
  /\ spawned \in [Recover!Launches -> Nat]
  /\ command \in [Commands -> RecoveryCommand]

\* The launch of the session that a command has at hand.
LaunchOf(n) ==
  <<n.attempt, n.at_hand,
    IF n.entries[n.at_hand] = "unresumable" /\ n.replace THEN "replacement" ELSE "resume">>

\* A result that says bound has a launch that is, and one with an intent has one.
TrueResult(a, s, r) ==
  /\ r.status = "bound" => \E m \in Recover!Modes : intents[<<a, s, m>>].status = "bound"
  /\ r.intent => \E m \in Recover!Modes : intents[<<a, s, m>>].status # "absent"

\* What a command knows of the launch of the session it has at hand.
RecoverKnows(n) ==
  n.pc # "idle" =>
    /\ n.attempt \in Attempts
    /\ n.pc \in AtHand => n.at_hand \in Sessions
    /\ n.pc = "spawn" => intents[LaunchOf(n)].status = "pending" /\ spawned[LaunchOf(n)] = 0
    /\ n.pc = "mark" => spawned[LaunchOf(n)] > 0
    /\ n.pc \in {"mark", "launched", "await"} => intents[LaunchOf(n)].status # "absent"
    /\ n.pc = "record" => TrueResult(n.attempt, n.at_hand, n.result)

\* No two commands are about to spawn the terminal of one launch.
RecoverAlone ==
  \A p, q \in Commands :
    (/\ command[p].pc = "spawn" /\ command[q].pc = "spawn"
     /\ LaunchOf(command[p]) = LaunchOf(command[q])) => p = q

RecoverSpawned ==
  \A k \in Recover!Launches :
    spawned[k] <= 1 /\ (intents[k].status = "absent" => spawned[k] = 0)

RecoverInv ==
  /\ RecoverTypes /\ RecoverAlone /\ RecoverSpawned
  /\ \A p \in Commands : RecoverKnows(command[p])
  /\ \A a \in Attempts, s \in Sessions : TrueResult(a, s, outcome[a][s])

\* The working set that was never recovered satisfies the invariant.
LEMMA RecoverStarting == Recover!Init => RecoverInv
<1> SUFFICES ASSUME Recover!Init PROVE RecoverInv
  OBVIOUS
<1>1. Recover!NoOutcome \in Result
  BY DEF Recover!NoOutcome, Result, Recover!Outcomes
<1>2. Recover!NoCommand \in RecoveryCommand /\ Recover!NoCommand.pc = "idle"
  BY <1>1 DEF Recover!NoCommand, RecoveryCommand, RecoveryPhases, Entries
<1>3. RecoverTypes
  <2>1. [status |-> "absent", expires |-> 0, at |-> 0] \in LaunchRow
        /\ [status |-> "none", plan |-> {}] \in AttemptRow
    BY DEF LaunchRow, AttemptRow
  <2>2. intents \in [Recover!Launches -> LaunchRow] /\ spawned \in [Recover!Launches -> Nat]
    BY <2>1 DEF Recover!Init, Recover!Past
  <2>3. attempt \in [Attempts -> AttemptRow]
    BY <2>1 DEF Recover!Init
  <2>4. outcome \in [Attempts -> [Sessions -> Result]]
    BY <1>1 DEF Recover!Init
  <2>5. command \in [Commands -> RecoveryCommand]
    BY <1>2 DEF Recover!Init
  <2>6. /\ restore \subseteq Sessions /\ checkout \in [Sessions -> {"own", "missing", "other"}]
        /\ invocations \in Nat /\ failures \in Nat
    BY DEF Recover!Init
  <2> QED
    BY <2>2, <2>3, <2>4, <2>5, <2>6 DEF RecoverTypes, RecoverRows
<1>4. RecoverAlone /\ RecoverSpawned /\ \A p \in Commands : RecoverKnows(command[p])
  <2>1. \A p \in Commands : command[p].pc = "idle"
    BY <1>2 DEF Recover!Init
  <2>2. \A k \in Recover!Launches : spawned[k] = 0
    BY DEF Recover!Init
  <2> QED
    BY <2>1, <2>2 DEF RecoverAlone, RecoverSpawned, RecoverKnows
<1>5. \A a \in Attempts, s \in Sessions : TrueResult(a, s, outcome[a][s])
  BY DEF Recover!Init, Recover!NoOutcome, TrueResult
<1> QED
  BY <1>3, <1>4, <1>5 DEF RecoverInv

\* The launch at hand is that of the action.
LEMMA LaunchIs ==
  ASSUME NEW p
  PROVE  Recover!Launch(p) = LaunchOf(command[p])
BY DEF Recover!Launch, Recover!Mode, Recover!Replacing, LaunchOf

\* The launch at hand is one of the attempt and the session at hand.
LEMMA LaunchTyped ==
  ASSUME NEW n, n.attempt \in Attempts, n.at_hand \in Sessions
  PROVE  /\ LaunchOf(n) \in Recover!Launches
         /\ \E m \in Recover!Modes : LaunchOf(n) = <<n.attempt, n.at_hand, m>>
BY DEF LaunchOf, Recover!Launches, Recover!Modes

\* A launch goes on as it may, whatever else is at work.
RecoverOnwards(k) ==
  /\ intents[k].status # "absent" => intents'[k].status # "absent"
  /\ intents[k].status = "bound" => intents'[k].status = "bound"
  /\ spawned[k] <= spawned'[k]

\* What was recorded truly stays true.
LEMMA TrueStays ==
  ASSUME NEW a \in Attempts, NEW s \in Sessions, NEW r, TrueResult(a, s, r),
         \A k \in Recover!Launches : RecoverOnwards(k)
  PROVE  TrueResult(a, s, r)'
<1>1. \A m \in Recover!Modes : <<a, s, m>> \in Recover!Launches
  BY DEF Recover!Launches
<1> QED
  BY <1>1 DEF TrueResult, RecoverOnwards

\* A command goes on.
RecoverNext(p, n) ==
  /\ n \in RecoveryCommand /\ command' = [command EXCEPT ![p] = n]
  /\ \A q \in Commands : q # p /\ command[q].pc = "spawn" =>
       /\ intents'[LaunchOf(command[q])] = intents[LaunchOf(command[q])]
       /\ spawned'[LaunchOf(command[q])] = spawned[LaunchOf(command[q])]
       /\ n.pc = "spawn" => LaunchOf(n) # LaunchOf(command[q])

\* The launches are as they may be.
LaunchesGo ==
  /\ intents' \in [Recover!Launches -> LaunchRow]
  /\ spawned' \in [Recover!Launches -> Nat]
  /\ RecoverSpawned'
  /\ \A k \in Recover!Launches : RecoverOnwards(k)

\* A command that goes on keeps the invariant, if it knows what it should and leaves
\* the launches that others are about to spawn alone.
LEMMA RecoverMoves ==
  ASSUME RecoverInv, NEW p \in Commands, NEW n, RecoverNext(p, n), RecoverKnows(n)', LaunchesGo,
         RecoverRows',
         \A a \in Attempts, s \in Sessions :
           outcome'[a][s] = outcome[a][s] \/ TrueResult(a, s, outcome'[a][s])
  PROVE  RecoverInv'
<1>1. \A q \in Commands : command'[q] = IF q = p THEN n ELSE command[q]
  BY DEF RecoverInv, RecoverTypes, RecoverNext
<1>2. RecoverTypes'
  <2>1. command' \in [Commands -> RecoveryCommand]
    BY DEF RecoverInv, RecoverTypes, RecoverNext
  <2> QED
    BY <2>1 DEF RecoverTypes, LaunchesGo
<1>3. RecoverAlone'
  BY <1>1 DEF RecoverInv, RecoverAlone, RecoverNext
<1>4. ASSUME NEW q \in Commands PROVE RecoverKnows(command[q])'
  <2>1. CASE q = p
    <3>1. command'[q] = n
      BY <1>1, <2>1
    <3> QED
      BY <3>1 DEF RecoverKnows, TrueResult
  <2>2. CASE q # p
    <3>1. PICK m : m = command[q]
      OBVIOUS
    <3>2. m \in RecoveryCommand /\ RecoverKnows(m) /\ command'[q] = m
      BY <1>1, <2>2, <3>1 DEF RecoverInv, RecoverTypes
    <3>3. m.pc \in AtHand => LaunchOf(m) \in Recover!Launches /\ m.attempt \in Attempts /\ m.at_hand \in Sessions
      BY <3>2, LaunchTyped DEF RecoverKnows, AtHand
    <3>4. m.pc = "record" => TrueResult(m.attempt, m.at_hand, m.result)'
      BY <3>2, <3>3, TrueStays DEF RecoverKnows, LaunchesGo, AtHand
    <3>5. m.pc = "spawn" => intents'[LaunchOf(m)] = intents[LaunchOf(m)]
                            /\ spawned'[LaunchOf(m)] = spawned[LaunchOf(m)]
      BY <2>2, <3>1 DEF RecoverNext
    <3>6. m.pc \in {"mark", "launched", "await"} =>
            intents'[LaunchOf(m)].status # "absent"
      BY <3>2, <3>3 DEF RecoverKnows, LaunchesGo, RecoverOnwards, AtHand
    <3>7. m.pc = "mark" => spawned'[LaunchOf(m)] > 0
      BY <3>2, <3>3 DEF RecoverKnows, LaunchesGo, RecoverOnwards, AtHand, RecoverInv, RecoverTypes
    <3>8. RecoverKnows(m)'
      BY <3>2, <3>4, <3>5, <3>6, <3>7 DEF RecoverKnows
    <3> QED
      BY <3>2, <3>8 DEF RecoverKnows, TrueResult
  <2> QED
    BY <2>1, <2>2
<1>5. ASSUME NEW a \in Attempts, NEW s \in Sessions PROVE TrueResult(a, s, outcome[a][s])'
  <2>1. PICK r : r = outcome'[a][s] 
    OBVIOUS
  <2>2. TrueResult(a, s, r)
    BY <2>1 DEF RecoverInv
  <2>3. TrueResult(a, s, r)'
    BY <2>2, TrueStays DEF LaunchesGo
  <2> QED
    BY <2>1, <2>3 DEF TrueResult
<1> QED
  BY <1>2, <1>3, <1>4, <1>5 DEF RecoverInv, LaunchesGo

\* A command is at work on an attempt.
AtWork(n, a) == n.attempt = a /\ n.pc \notin {"idle", "attempt"}

\* What a command that works on an attempt knows of its plan.
WorkerKnows(n, a) ==
  /\ n.todo \subseteq attempt[a].plan
  /\ n.pc \in AtHand => n.at_hand \in n.todo
  /\ n.pc = "record" => n.result.status \notin {"none", "launched"}

\* Somebody works on what has no outcome yet, and on what was launched.
Attended(a, s) ==
  /\ outcome[a][s].status = "none" =>
       \E p \in Commands : AtWork(command[p], a) /\ s \in command[p].todo
  /\ outcome[a][s].status = "launched" =>
       \E p \in Commands : /\ AtWork(command[p], a) /\ command[p].at_hand = s
                           /\ command[p].pc \in {"await", "record"}

AttemptKnown(a) ==
  /\ attempt[a].status = "none" => /\ \A s \in Sessions : outcome[a][s].status = "none"
                                   /\ \A p \in Commands : ~AtWork(command[p], a)
  /\ \A s \in Sessions : outcome[a][s].status # "none" => s \in attempt[a].plan
  /\ \A p \in Commands : AtWork(command[p], a) => WorkerKnows(command[p], a)

AttemptTold(a) ==
  attempt[a].status # "none" =>
    /\ \A s \in attempt[a].plan : Attended(a, s)
    /\ (\A p \in Commands : ~AtWork(command[p], a)) =>
         attempt[a].status = Recover!Summary(a)

TellInv ==
  \A a \in Attempts : AttemptKnown(a) /\ (failures = 0 => AttemptTold(a))

\* What a command that is not idle knows of itself.
LEMMA RecoverIs ==
  ASSUME RecoverInv, NEW p \in Commands, command[p].pc # "idle"
  PROVE  /\ command[p] \in RecoveryCommand /\ command[p].attempt \in Attempts
         /\ RecoverKnows(command[p])
         /\ command[p].pc \in AtHand => command[p].at_hand \in Sessions
BY DEF RecoverInv, RecoverTypes, RecoverKnows

\* A command that goes on keeps the session at hand and so its launch.
SameWork(n, m) ==
  /\ n.attempt = m.attempt /\ n.todo = m.todo /\ n.at_hand = m.at_hand
  /\ LaunchOf(n) = LaunchOf(m)

\* A command that goes to a state keeps its work.
LEMMA RecoverGoes ==
  ASSUME RecoverInv, NEW p \in Commands, NEW pc \in RecoveryPhases, Recover!Goto(p, pc)
  PROVE  \E n \in RecoveryCommand :
           /\ command' = [command EXCEPT ![p] = n]
           /\ n.pc = pc /\ SameWork(n, command[p]) /\ n.result = command[p].result
<1>1. command[p] \in RecoveryCommand /\ command \in [Commands -> RecoveryCommand]
  BY DEF RecoverInv, RecoverTypes
<1>2. PICK n : n = [command[p] EXCEPT !.pc = pc]
  OBVIOUS
<1>3. /\ n \in RecoveryCommand /\ n.pc = pc /\ n.attempt = command[p].attempt
      /\ n.todo = command[p].todo /\ n.at_hand = command[p].at_hand
      /\ n.entries = command[p].entries /\ n.replace = command[p].replace
      /\ n.result = command[p].result
  BY <1>1, <1>2 DEF RecoveryCommand
<1>4. command' = [command EXCEPT ![p] = n]
  BY <1>1, <1>2 DEF Recover!Goto
<1> QED
  BY <1>3, <1>4 DEF SameWork, LaunchOf

\* A command that returns is idle.
LEMMA RecoverEnds ==
  ASSUME RecoverInv, NEW p \in Commands, Recover!Return(p)
  PROVE  \E n \in RecoveryCommand : command' = [command EXCEPT ![p] = n] /\ n.pc = "idle"
<1>1. Recover!NoOutcome \in Result
  BY DEF Recover!NoOutcome, Result, Recover!Outcomes
<1>2. Recover!NoCommand \in RecoveryCommand /\ Recover!NoCommand.pc = "idle"
  BY <1>1 DEF Recover!NoCommand, RecoveryCommand, RecoveryPhases, Entries
<1> QED
  BY <1>2 DEF Recover!Return

\* A command that has a result is about to record it.
LEMMA RecordsNext ==
  ASSUME RecoverInv, NEW p \in Commands, NEW s \in Sessions,
         NEW status \in Recover!Outcomes, NEW intent \in BOOLEAN,
         Recover!ToRecord(p, s, status, intent)
  PROVE  \E n \in RecoveryCommand :
           /\ command' = [command EXCEPT ![p] = n]
           /\ n.pc = "record" /\ n.attempt = command[p].attempt /\ n.todo = command[p].todo
           /\ n.at_hand = s /\ n.result.status = status /\ n.result.intent = intent
<1>1. command[p] \in RecoveryCommand /\ command \in [Commands -> RecoveryCommand]
  BY DEF RecoverInv, RecoverTypes
<1>2. PICK r : r = [status |-> status, intent |-> intent]
  OBVIOUS
<1>3. r \in Result /\ r.status = status /\ r.intent = intent
  BY <1>2 DEF Result
<1>4. PICK n : n = [command[p] EXCEPT !.pc = "record", !.at_hand = s, !.result = r]
  OBVIOUS
<1>5. /\ n \in RecoveryCommand /\ n.pc = "record" /\ n.attempt = command[p].attempt
      /\ n.todo = command[p].todo /\ n.at_hand = s /\ n.result = r
  BY <1>1, <1>3, <1>4 DEF RecoveryCommand, RecoveryPhases, AtHand
<1>6. command' = [command EXCEPT ![p] = n]
  BY <1>1, <1>2, <1>4 DEF Recover!ToRecord
<1> QED
  BY <1>3, <1>5, <1>6

\* A command that leaves the launches alone.
RecoverQuiet(p, n) ==
  /\ n \in RecoveryCommand /\ command' = [command EXCEPT ![p] = n] /\ n.pc # "spawn"
  /\ UNCHANGED <<intents, spawned>>
  /\ \A a \in Attempts, s \in Sessions :
       outcome'[a][s] = outcome[a][s] \/ TrueResult(a, s, outcome'[a][s])

\* A command that leaves the launches alone keeps the invariant.
LEMMA RecoverReads ==
  ASSUME RecoverInv, NEW p \in Commands, NEW n, RecoverQuiet(p, n), RecoverKnows(n), RecoverRows'
  PROVE  RecoverInv'
<1>1. RecoverNext(p, n)
  BY DEF RecoverQuiet, RecoverNext
<1>2. LaunchesGo
  BY DEF RecoverQuiet, LaunchesGo, RecoverInv, RecoverTypes, RecoverSpawned, RecoverOnwards
<1>3. RecoverKnows(n)'
  BY DEF RecoverQuiet, RecoverKnows, TrueResult
<1>4. \A a \in Attempts, s \in Sessions :
       outcome'[a][s] = outcome[a][s] \/ TrueResult(a, s, outcome'[a][s])
  BY DEF RecoverQuiet
<1> QED
  BY <1>1, <1>2, <1>3, <1>4, RecoverMoves

\* A command that changes the launch of the session it has at hand.
RecoverLaunch(p, n, k, row, count) ==
  /\ n \in RecoveryCommand /\ command' = [command EXCEPT ![p] = n]
  /\ row \in LaunchRow /\ row.status # "absent" /\ count \in {0, 1} /\ UNCHANGED outcome
  /\ intents' = [intents EXCEPT ![k] = row] /\ spawned' = [spawned EXCEPT ![k] = count]
  /\ spawned[k] <= count
  /\ intents[k].status = "bound" => row.status = "bound"
  /\ n.attempt \in Attempts /\ n.at_hand \in Sessions /\ LaunchOf(n) = k
  /\ n.pc \in {"spawn", "mark", "launched", "record"}
  /\ n.pc = "spawn" => row.status = "pending" /\ count = 0
  /\ n.pc = "mark" => count = 1
  /\ n.pc = "record" => n.result.status = "failed"
  /\ \A q \in Commands : q # p /\ command[q].pc = "spawn" => LaunchOf(command[q]) # k

\* A command that changes the launch at hand keeps the invariant.
LEMMA RecoverLaunches ==
  ASSUME RecoverInv, NEW p \in Commands, NEW n, NEW k \in Recover!Launches, NEW row, NEW count,
         RecoverLaunch(p, n, k, row, count), RecoverRows'
  PROVE  RecoverInv'
<1> USE DEF RecoverLaunch
<1>1. /\ intents' \in [Recover!Launches -> LaunchRow] /\ spawned' \in [Recover!Launches -> Nat]
      /\ \A j \in Recover!Launches : /\ intents'[j] = IF j = k THEN row ELSE intents[j]
                                     /\ spawned'[j] = IF j = k THEN count ELSE spawned[j]
  BY DEF RecoverInv, RecoverTypes
<1>2. RecoverSpawned'
  BY <1>1 DEF RecoverInv, RecoverSpawned
<1>3. \A j \in Recover!Launches : RecoverOnwards(j)
  BY <1>1 DEF RecoverInv, RecoverTypes, RecoverOnwards
<1>4. LaunchesGo
  BY <1>1, <1>2, <1>3 DEF LaunchesGo
<1>5. RecoverKnows(n)'
  <2>1. \E m \in Recover!Modes : k = <<n.attempt, n.at_hand, m>>
    BY LaunchTyped
  <2>2. intents'[k] = row /\ spawned'[k] = count
    BY <1>1
  <2>3. n.pc = "record" => TrueResult(n.attempt, n.at_hand, n.result)'
    BY <2>1, <2>2 DEF TrueResult
  <2> QED
    BY <2>2, <2>3 DEF RecoverKnows, AtHand
<1>6. RecoverNext(p, n)
  <2>1. ASSUME NEW q \in Commands, q # p, command[q].pc = "spawn"
        PROVE  /\ intents'[LaunchOf(command[q])] = intents[LaunchOf(command[q])]
               /\ spawned'[LaunchOf(command[q])] = spawned[LaunchOf(command[q])]
               /\ LaunchOf(n) # LaunchOf(command[q])
    <3>1. LaunchOf(command[q]) \in Recover!Launches
      BY <2>1, RecoverIs, LaunchTyped DEF AtHand
    <3> QED
      BY <1>1, <2>1, <3>1
  <2> QED
    BY <2>1 DEF RecoverNext
<1> QED
  <2> HIDE DEF RecoverLaunch
  <2>1. \A a \in Attempts, s \in Sessions :
         outcome'[a][s] = outcome[a][s] \/ TrueResult(a, s, outcome'[a][s])
    BY DEF RecoverLaunch
  <2> QED
    BY <1>4, <1>5, <1>6, <2>1, RecoverMoves

\* The row and the count of a launch are kept.
LEMMA RecoverSame ==
  ASSUME RecoverInv, NEW k \in Recover!Launches
  PROVE  /\ intents = [intents EXCEPT ![k] = intents[k]] /\ intents[k] \in LaunchRow
         /\ spawned = [spawned EXCEPT ![k] = spawned[k]] /\ spawned[k] \in {0, 1}
<1>1. intents \in [Recover!Launches -> LaunchRow] /\ spawned \in [Recover!Launches -> Nat]
  BY DEF RecoverInv, RecoverTypes
<1>2. spawned[k] <= 1
  BY DEF RecoverInv, RecoverSpawned
<1> QED
  BY <1>1, <1>2

\* The preview classifies every session.
LEMMA DispositionTyped ==
  ASSUME RecoverInv, NEW s \in Sessions
  PROVE  Recover!Disposition(s) \in Dispositions
<1>1. checkout[s] \in {"own", "missing", "other"}
  BY DEF RecoverInv, RecoverTypes, RecoverRows
<1> QED
  BY <1>1 DEF Recover!Disposition, Dispositions

\* A command previews the restore set.
LEMMA PreviewStep ==
  ASSUME RecoverInv, NEW p \in Commands, Recover!Preview(p)
  PROVE  RecoverInv'
<1>1. PICK a \in Attempts, replace \in BOOLEAN, selected \in SUBSET restore :
        command' = [command EXCEPT ![p] =
          [Recover!NoCommand EXCEPT !.pc = "attempt", !.attempt = a, !.replace = replace,
             !.at = invocations', !.todo = selected,
             !.entries = [s \in selected |-> Recover!Disposition(s)]]]
  BY DEF Recover!Preview
<1>2. /\ invocations' \in Nat
      /\ UNCHANGED <<restore, checkout, attempt, outcome, failures, intents, spawned>>
  BY DEF Recover!Preview, Recover!sessions, Recover!records, RecoverInv, RecoverTypes, RecoverRows
<1>3. RecoverRows'
  BY <1>2 DEF RecoverInv, RecoverTypes, RecoverRows
<1>4. PICK entries : entries = [s \in selected |-> Recover!Disposition(s)]
  OBVIOUS
<1>5. selected \subseteq Sessions
  BY DEF RecoverInv, RecoverTypes, RecoverRows
<1>6. entries \in Entries
  <2>1. entries \in [selected -> Dispositions]
    BY <1>4, <1>5, DispositionTyped
  <2> QED
    BY <1>5, <2>1 DEF Entries
<1>7. PICK n : n = [Recover!NoCommand EXCEPT !.pc = "attempt", !.attempt = a, !.replace = replace,
                      !.at = invocations', !.todo = selected, !.entries = entries]
  OBVIOUS
<1>8. n \in RecoveryCommand /\ n.pc = "attempt" /\ n.attempt = a
  <2>1. Recover!NoOutcome \in Result
    BY DEF Recover!NoOutcome, Result, Recover!Outcomes
  <2>2. Recover!NoCommand \in RecoveryCommand
    BY <2>1 DEF Recover!NoCommand, RecoveryCommand, RecoveryPhases, Entries
  <2>3. invocations' \in Nat /\ selected \in SUBSET Sessions /\ "attempt" \in RecoveryPhases
    BY <1>2, <1>5 DEF RecoveryPhases
  <2> QED
    BY <1>6, <1>7, <2>2, <2>3 DEF RecoveryCommand
<1>9. command' = [command EXCEPT ![p] = n]
  BY <1>1, <1>4, <1>7, Zenon
<1>10. RecoverKnows(n)
  BY <1>8 DEF RecoverKnows, AtHand
<1>11. RecoverQuiet(p, n)
  BY <1>2, <1>8, <1>9 DEF RecoverQuiet
<1> QED
  BY <1>3, <1>10, <1>11, RecoverReads, Zenon

\* A command that goes on, or ends, without touching the launches.
LEMMA RecoverPasses ==
  ASSUME RecoverInv, NEW p \in Commands, command[p].pc # "idle",
         NEW pc \in {"entry", "recreate", "begin", "idle"},
         Recover!Goto(p, pc), pc \in {"recreate", "begin"} => command[p].at_hand \in Sessions,
         UNCHANGED <<intents, spawned, outcome>>, RecoverRows'
  PROVE  RecoverInv'
<1>1. PICK n \in RecoveryCommand :
        command' = [command EXCEPT ![p] = n] /\ n.pc = pc /\ SameWork(n, command[p])
  BY RecoverGoes DEF RecoveryPhases, AtHand
<1>2. n.attempt \in Attempts /\ n.at_hand = command[p].at_hand
  BY <1>1, RecoverIs DEF SameWork
<1>3. RecoverKnows(n)
  BY <1>1, <1>2 DEF RecoverKnows, AtHand
<1>4. RecoverQuiet(p, n)
  BY <1>1 DEF RecoverQuiet
<1> QED
  BY <1>3, <1>4, RecoverReads, Zenon

\* A command that returns keeps the invariant.
LEMMA RecoverReturns ==
  ASSUME RecoverInv, NEW p \in Commands, Recover!Return(p),
         UNCHANGED <<intents, spawned, outcome>>, RecoverRows'
  PROVE  RecoverInv'
<1>1. PICK n \in RecoveryCommand : command' = [command EXCEPT ![p] = n] /\ n.pc = "idle"
  BY RecoverEnds
<1>2. RecoverKnows(n) /\ RecoverQuiet(p, n)
  BY <1>1 DEF RecoverKnows, RecoverQuiet
<1> QED
  BY <1>2, RecoverReads, Zenon

\* A command that is about to record a true result keeps the invariant.
LEMMA RecoverNotes ==
  ASSUME RecoverInv, NEW p \in Commands, command[p].pc # "idle", NEW s \in Sessions,
         NEW status \in Recover!Outcomes, NEW intent \in BOOLEAN,
         Recover!ToRecord(p, s, status, intent),
         TrueResult(command[p].attempt, s, [status |-> status, intent |-> intent]),
         UNCHANGED <<intents, spawned, outcome>>, RecoverRows'
  PROVE  RecoverInv'
<1>1. PICK n \in RecoveryCommand :
        /\ command' = [command EXCEPT ![p] = n] /\ n.pc = "record"
        /\ n.attempt = command[p].attempt /\ n.at_hand = s
        /\ n.result.status = status /\ n.result.intent = intent
  BY RecordsNext
<1>2. RecoverKnows(n)
  BY <1>1, RecoverIs DEF RecoverKnows, TrueResult
<1>3. RecoverQuiet(p, n)
  BY <1>1 DEF RecoverQuiet
<1> QED
  BY <1>2, <1>3, RecoverReads, Zenon

\* The rows that a command does not write.
LEMMA RecoverRowsStay ==
  ASSUME RecoverInv, UNCHANGED <<restore, checkout, attempt, outcome, invocations, failures>>
  PROVE  RecoverRows'
BY DEF RecoverInv, RecoverTypes, RecoverRows

\* begin_attempt writes the plan, or refuses another one.
LEMMA BeginAttemptStep ==
  ASSUME RecoverInv, NEW p \in Commands, Recover!BeginAttempt(p)
  PROVE  RecoverInv'
<1>1. /\ command[p].pc = "attempt"
      /\ UNCHANGED <<restore, checkout, outcome, invocations, failures, intents, spawned>>
  BY DEF Recover!BeginAttempt, Recover!At, Recover!sessions
<1>2. command[p] \in RecoveryCommand /\ command[p].attempt \in Attempts
  BY <1>1, RecoverIs
<1>3. PICK a \in Attempts : a = command[p].attempt
  BY <1>2
<1>4. CASE /\ attempt' = [attempt EXCEPT ![a] = [status |-> "running", plan |-> command[p].todo]]
           /\ Recover!Goto(p, "entry")
  <2>1. attempt' \in [Attempts -> AttemptRow]
    BY <1>2, <1>4 DEF RecoverInv, RecoverTypes, RecoverRows, AttemptRow, RecoveryCommand
  <2>2. RecoverRows'
    BY <1>1, <2>1 DEF RecoverInv, RecoverTypes, RecoverRows
  <2> QED
    BY <1>1, <1>4, <2>2, RecoverPasses
<1>5. CASE Recover!Return(p) /\ UNCHANGED attempt
  BY <1>1, <1>5, RecoverRowsStay, RecoverReturns
<1> QED
  BY <1>3, <1>4, <1>5 DEF Recover!BeginAttempt

\* finish_attempt writes the status.
LEMMA FinishStep ==
  ASSUME RecoverInv, NEW p \in Commands, Recover!Finish(p)
  PROVE  RecoverInv'
<1>1. /\ command[p].pc = "entry" /\ Recover!Return(p)
      /\ attempt' = [attempt EXCEPT ![command[p].attempt].status =
                       Recover!Summary(command[p].attempt)]
      /\ UNCHANGED <<restore, checkout, outcome, invocations, failures, intents, spawned>>
  BY DEF Recover!Finish, Recover!At, Recover!sessions
<1>2. Recover!Summary(command[p].attempt) \in {"partial", "completed"}
  BY DEF Recover!Summary
<1>3. attempt' \in [Attempts -> AttemptRow]
  BY ZenonT(60), <1>1, <1>2 DEF RecoverInv, RecoverTypes, RecoverRows, AttemptRow
<1>4. RecoverRows'
  BY <1>1, <1>3 DEF RecoverInv, RecoverTypes, RecoverRows
<1> QED
  BY <1>1, <1>4, RecoverReturns

\* A command that crashes leaves the rows as they are.
LEMMA CrashStep ==
  ASSUME RecoverInv, NEW p \in Commands, Recover!Crash(p)
  PROVE  RecoverInv'
<1>1. /\ Recover!Return(p) /\ failures' = failures + 1
      /\ UNCHANGED <<restore, checkout, attempt, outcome, invocations, intents, spawned>>
  BY DEF Recover!Crash, Recover!Fault, Recover!sessions, Recover!records
<1>2. RecoverRows'
  BY <1>1 DEF RecoverInv, RecoverTypes, RecoverRows
<1> QED
  BY <1>1, <1>2, RecoverReturns

\* A command takes a session, reuses its outcome or goes by its disposition.
LEMMA EntryStep ==
  ASSUME RecoverInv, NEW p \in Commands, NEW s \in Sessions, Recover!Entry(p, s)
  PROVE  RecoverInv'
<1>1. /\ command[p].pc = "entry"
      /\ UNCHANGED <<intents, spawned, outcome>>
      /\ UNCHANGED <<restore, checkout, attempt, outcome, invocations, failures>>
  BY DEF Recover!Entry, Recover!At, Recover!sessions, Recover!records
<1>2. RecoverRows' /\ command[p] \in RecoveryCommand
  BY <1>1, RecoverRowsStay, RecoverIs
<1>3. CASE command' = [command EXCEPT ![p].todo = @ \ {s}]
  <2>1. PICK n : n = [command[p] EXCEPT !.todo = @ \ {s}]
    OBVIOUS
  <2>2. n \in RecoveryCommand /\ n.pc = "entry" /\ n.attempt = command[p].attempt
    BY <1>1, <1>2, <2>1 DEF RecoveryCommand
  <2>3. command' = [command EXCEPT ![p] = n]
    BY <1>2, <1>3, <2>1 DEF RecoverInv, RecoverTypes
  <2>4. RecoverKnows(n)
    BY <1>1, <2>2, RecoverIs DEF RecoverKnows, AtHand
  <2>5. RecoverQuiet(p, n)
    BY <1>1, <2>2, <2>3 DEF RecoverQuiet
  <2> QED
    BY <1>2, <2>4, <2>5, RecoverReads, Zenon
<1>4. ASSUME NEW status \in {"skipped", "conflict"}, Recover!ToRecord(p, s, status, FALSE)
      PROVE  RecoverInv'
  <2>1. TrueResult(command[p].attempt, s, [status |-> status, intent |-> FALSE])
    BY DEF TrueResult
  <2> QED
    BY <1>1, <1>2, <1>4, <2>1, RecoverNotes DEF Recover!Outcomes
<1>5. ASSUME NEW pc \in {"recreate", "begin"},
             command' = [command EXCEPT ![p].pc = pc, ![p].at_hand = s]
      PROVE  RecoverInv'
  <2>1. PICK n : n = [command[p] EXCEPT !.pc = pc, !.at_hand = s]
    OBVIOUS
  <2>2. n \in RecoveryCommand /\ n.pc = pc /\ n.attempt = command[p].attempt /\ n.at_hand = s
    BY <1>2, <2>1 DEF RecoveryCommand, RecoveryPhases, AtHand
  <2>3. command' = [command EXCEPT ![p] = n]
    BY <1>2, <1>5, <2>1 DEF RecoverInv, RecoverTypes, RecoveryCommand
  <2>4. RecoverKnows(n)
    BY <1>1, <2>2, RecoverIs DEF RecoverKnows, AtHand
  <2>5. RecoverQuiet(p, n)
    BY <1>1, <2>2, <2>3 DEF RecoverQuiet
  <2> QED
    BY <1>2, <2>4, <2>5, RecoverReads, Zenon
<1> QED
  BY <1>3, <1>4, <1>5 DEF Recover!Entry

\* A missing checkout is recreated.
LEMMA RecreateStep ==
  ASSUME RecoverInv, NEW p \in Commands, Recover!Recreate(p)
  PROVE  RecoverInv'
<1>1. /\ command[p].pc = "recreate"
      /\ UNCHANGED <<intents, spawned, outcome>>
      /\ UNCHANGED <<restore, attempt, outcome, invocations, failures>>
  BY DEF Recover!Recreate, Recover!At, Recover!records
<1>2. PICK s \in Sessions : s = command[p].at_hand
  BY <1>1, RecoverIs DEF AtHand
<1>3. CASE checkout' = [checkout EXCEPT ![s] = "own"] /\ Recover!Goto(p, "begin")
  <2>1. RecoverRows'
    BY <1>1, <1>3 DEF RecoverInv, RecoverTypes, RecoverRows
  <2> QED
    BY <1>1, <1>2, <1>3, <2>1, RecoverPasses
<1>4. CASE Recover!ToRecord(p, s, "failed", FALSE) /\ UNCHANGED checkout
  <2>1. TrueResult(command[p].attempt, s, [status |-> "failed", intent |-> FALSE])
    BY DEF TrueResult
  <2> QED
    BY <1>1, <1>4, <2>1, RecoverRowsStay, RecoverNotes DEF Recover!Outcomes
<1> QED
  BY <1>2, <1>3, <1>4 DEF Recover!Recreate

\* The rows that a command does not write, and the launch it works on.
LEMMA LaunchAtHand ==
  ASSUME RecoverInv, NEW p \in Commands, command[p].pc \in {"begin", "spawn", "mark", "launched", "await"}
  PROVE  \E k \in Recover!Launches :
           /\ k = LaunchOf(command[p]) /\ k = Recover!Launch(p)
           /\ command[p].attempt \in Attempts /\ command[p].at_hand \in Sessions
           /\ \E m \in Recover!Modes : k = <<command[p].attempt, command[p].at_hand, m>>
BY RecoverIs, LaunchTyped, LaunchIs DEF AtHand

\* begin opens a launch that is not there yet.
LEMMA RecoverBeginStep ==
  ASSUME RecoverInv, NEW p \in Commands, Recover!Begin(p)
  PROVE  RecoverInv'
<1>1. /\ command[p].pc = "begin"
      /\ UNCHANGED <<restore, checkout, attempt, outcome, invocations, failures, spawned>>
  BY DEF Recover!Begin, Recover!At, Recover!sessions, Recover!records
<1>2. RecoverRows'
  BY <1>1, RecoverRowsStay
<1>3. PICK k \in Recover!Launches :
        k = LaunchOf(command[p]) /\ k = Recover!Launch(p) /\ command[p].at_hand \in Sessions
        /\ command[p].attempt \in Attempts
  BY <1>1, LaunchAtHand
<1>4. CASE /\ Recover!MayBegin(p, command[p].at_hand) /\ Recover!Goto(p, "spawn")
           /\ intents' = [intents EXCEPT ![k] =
                [status |-> "pending", expires |-> Recover!Future, at |-> command[p].at]]
  <2>1. intents[k].status = "absent" /\ spawned[k] = 0
    BY <1>3, <1>4 DEF Recover!MayBegin, Recover!Fresh, RecoverInv, RecoverSpawned
  <2>2. PICK n \in RecoveryCommand :
          command' = [command EXCEPT ![p] = n] /\ n.pc = "spawn" /\ SameWork(n, command[p])
    BY <1>4, RecoverGoes DEF RecoveryPhases, AtHand
  <2>3. LaunchOf(n) = k /\ n.attempt \in Attempts /\ n.at_hand \in Sessions
    BY <1>3, <2>2 DEF SameWork
  <2>4. PICK row : row = [status |-> "pending", expires |-> Recover!Future, at |-> command[p].at]
    OBVIOUS
  <2>5. row \in LaunchRow /\ row.status = "pending" /\ intents' = [intents EXCEPT ![k] = row]
    <3>1. command[p].at \in Nat
      BY <1>1, RecoverIs DEF RecoveryCommand
    <3> QED
      BY <1>4, <2>4, <3>1 DEF LaunchRow, Recover!Future
  <2>6. spawned' = [spawned EXCEPT ![k] = 0]
    BY <1>1, <2>1, RecoverSame
  <2>7. \A q \in Commands : q # p /\ command[q].pc = "spawn" => LaunchOf(command[q]) # k
    BY <2>1, RecoverIs DEF RecoverKnows
  <2>8. RecoverLaunch(p, n, k, row, 0)
    <3>1. UNCHANGED outcome
      BY <1>1
    <3> QED
      BY <2>1, <2>2, <2>3, <2>5, <2>6, <2>7, <3>1 DEF RecoverLaunch
  <2> QED
    BY <1>2, <2>8, RecoverLaunches, Zenon
<1>5. CASE Recover!ToRecord(p, command[p].at_hand, "failed", FALSE) /\ UNCHANGED intents
  <2>1. TrueResult(command[p].attempt, command[p].at_hand, [status |-> "failed", intent |-> FALSE])
    BY DEF TrueResult
  <2> QED
    BY <1>1, <1>2, <1>3, <1>5, <2>1, RecoverNotes DEF Recover!Outcomes
<1> QED
  BY <1>3, <1>4, <1>5 DEF Recover!Begin

\* The terminal is spawned by the one command that opened its launch.
LEMMA SpawnStep ==
  ASSUME RecoverInv, NEW p \in Commands, Recover!Spawn(p)
  PROVE  RecoverInv'
<1>1. /\ command[p].pc = "spawn" /\ Recover!Goto(p, "mark")
      /\ UNCHANGED <<restore, checkout, attempt, outcome, invocations, failures, intents>>
  BY DEF Recover!Spawn, Recover!At, Recover!sessions, Recover!records
<1>2. PICK k \in Recover!Launches :
        k = LaunchOf(command[p]) /\ k = Recover!Launch(p) /\ command[p].at_hand \in Sessions
        /\ command[p].attempt \in Attempts
  BY <1>1, LaunchAtHand
<1>3. intents[k].status = "pending" /\ spawned[k] = 0
  BY <1>1, <1>2, RecoverIs DEF RecoverKnows
<1>4. spawned' = [spawned EXCEPT ![k] = 1]
  BY <1>2, <1>3, RecoverSame DEF Recover!Spawn
<1>5. PICK n \in RecoveryCommand :
        command' = [command EXCEPT ![p] = n] /\ n.pc = "mark" /\ SameWork(n, command[p])
  BY <1>1, RecoverGoes DEF RecoveryPhases, AtHand
<1>6. LaunchOf(n) = k /\ n.attempt \in Attempts /\ n.at_hand \in Sessions
  BY <1>2, <1>5 DEF SameWork
<1>7. \A q \in Commands : q # p /\ command[q].pc = "spawn" => LaunchOf(command[q]) # k
  BY <1>1, <1>2 DEF RecoverInv, RecoverAlone
<1>8. intents' = [intents EXCEPT ![k] = intents[k]] /\ intents[k] \in LaunchRow
  BY <1>1, RecoverSame
<1>9. RecoverLaunch(p, n, k, intents[k], 1)
  <2>1. UNCHANGED outcome
    BY <1>1
  <2> QED
    BY <1>3, <1>4, <1>5, <1>6, <1>7, <1>8, <2>1 DEF RecoverLaunch
<1> QED
  BY <1>1, <1>9, RecoverRowsStay, RecoverLaunches

\* A spawn that fails marks the launch failed.
LEMMA SpawnFailsStep ==
  ASSUME RecoverInv, NEW p \in Commands, Recover!SpawnFails(p)
  PROVE  RecoverInv'
<1>1. /\ command[p].pc = "spawn" /\ failures' = failures + 1
      /\ Recover!ToRecord(p, command[p].at_hand, "failed", TRUE)
      /\ UNCHANGED <<restore, checkout, attempt, outcome, invocations, spawned>>
  BY DEF Recover!SpawnFails, Recover!At, Recover!Fault, Recover!sessions, Recover!records
<1>2. PICK k \in Recover!Launches :
        k = LaunchOf(command[p]) /\ k = Recover!Launch(p) /\ command[p].at_hand \in Sessions
        /\ command[p].attempt \in Attempts
  BY <1>1, LaunchAtHand
<1>3. intents[k].status = "pending" /\ spawned[k] = 0 /\ intents[k] \in LaunchRow
  BY <1>1, <1>2, RecoverIs, RecoverSame DEF RecoverKnows
<1>4. PICK row : row = [intents[k] EXCEPT !.status = "failed"]
  OBVIOUS
<1>5. row \in LaunchRow /\ row.status = "failed"
  BY <1>3, <1>4 DEF LaunchRow
<1>6. intents' = [intents EXCEPT ![k] = row] /\ spawned' = [spawned EXCEPT ![k] = 0]
  <2>1. intents' = [intents EXCEPT ![k].status = "failed"]
    BY <1>2 DEF Recover!SpawnFails
  <2>2. spawned' = [spawned EXCEPT ![k] = 0]
    BY <1>1, <1>3, RecoverSame
  <2> QED
    BY <1>4, <2>1, <2>2
<1>7. PICK n : n = [command[p] EXCEPT !.pc = "record", !.at_hand = command[p].at_hand,
                      !.result = [status |-> "failed", intent |-> TRUE]]
  OBVIOUS
<1>8. /\ n \in RecoveryCommand /\ command' = [command EXCEPT ![p] = n] /\ n.pc = "record"
      /\ n.result.status = "failed" /\ LaunchOf(n) = k
      /\ n.attempt \in Attempts /\ n.at_hand \in Sessions
  <2>1. command[p] \in RecoveryCommand /\ command \in [Commands -> RecoveryCommand]
    BY DEF RecoverInv, RecoverTypes
  <2>2. [status |-> "failed", intent |-> TRUE] \in Result
    BY DEF Result, Recover!Outcomes
  <2>3. n \in RecoveryCommand /\ n.pc = "record" /\ n.result.status = "failed"
        /\ n.attempt = command[p].attempt /\ n.at_hand = command[p].at_hand
        /\ n.entries = command[p].entries /\ n.replace = command[p].replace
    BY <1>2, <1>7, <2>1, <2>2 DEF RecoveryCommand, RecoveryPhases, AtHand
  <2>4. command' = [command EXCEPT ![p] = n]
    BY <1>1, <1>7, <2>1 DEF Recover!ToRecord
  <2> QED
    BY <1>2, <2>3, <2>4 DEF LaunchOf
<1>9. \A q \in Commands : q # p /\ command[q].pc = "spawn" => LaunchOf(command[q]) # k
  BY <1>1, <1>2 DEF RecoverInv, RecoverAlone
<1>10. RecoverLaunch(p, n, k, row, 0)
  <2>1. UNCHANGED outcome
    BY <1>1
  <2> QED
    BY <1>3, <1>5, <1>6, <1>8, <1>9, <2>1 DEF RecoverLaunch
<1>11. RecoverRows'
  BY <1>1 DEF RecoverInv, RecoverTypes, RecoverRows
<1> QED
  BY <1>10, <1>11, RecoverLaunches, Zenon

\* A launch that was spawned is marked, unless its hook was faster.
LEMMA RecoverMarkStep ==
  ASSUME RecoverInv, NEW p \in Commands, Recover!MarkLaunched(p)
  PROVE  RecoverInv'
<1>1. /\ command[p].pc = "mark"
      /\ UNCHANGED <<restore, checkout, attempt, outcome, invocations, failures, spawned>>
  BY DEF Recover!MarkLaunched, Recover!At, Recover!sessions, Recover!records
<1>2. PICK k \in Recover!Launches :
        k = LaunchOf(command[p]) /\ k = Recover!Launch(p) /\ command[p].at_hand \in Sessions
        /\ command[p].attempt \in Attempts
        /\ \E m \in Recover!Modes : k = <<command[p].attempt, command[p].at_hand, m>>
  BY <1>1, LaunchAtHand
<1>3. /\ spawned[k] = 1 /\ intents[k].status # "absent" /\ intents[k] \in LaunchRow
      /\ spawned' = [spawned EXCEPT ![k] = 1]
  <2>1. spawned[k] > 0 /\ intents[k].status # "absent"
    BY <1>1, <1>2, RecoverIs DEF RecoverKnows
  <2>2. spawned[k] = 1
    BY <2>1, RecoverSame
  <2> QED
    BY <1>1, <2>1, <2>2, RecoverSame
<1>4. CASE /\ intents[k].status = "pending" /\ Recover!Goto(p, "launched")
           /\ intents' = [intents EXCEPT ![k].status = "launched"]
  <2>1. PICK n \in RecoveryCommand :
          command' = [command EXCEPT ![p] = n] /\ n.pc = "launched" /\ SameWork(n, command[p])
    BY <1>4, RecoverGoes DEF RecoveryPhases, AtHand
  <2>2. LaunchOf(n) = k /\ n.attempt \in Attempts /\ n.at_hand \in Sessions
    BY <1>2, <2>1 DEF SameWork
  <2>3. PICK row : row = [intents[k] EXCEPT !.status = "launched"]
    OBVIOUS
  <2>4. row \in LaunchRow /\ row.status = "launched"
    BY <1>3, <2>3 DEF LaunchRow
  <2>5. intents' = [intents EXCEPT ![k] = row]
    BY <1>4, <2>3
  <2>6. \A q \in Commands : q # p /\ command[q].pc = "spawn" => LaunchOf(command[q]) # k
    <3>1. ASSUME NEW q \in Commands, command[q].pc = "spawn" PROVE spawned[LaunchOf(command[q])] = 0
      BY <3>1, RecoverIs DEF RecoverKnows
    <3> QED
      BY <1>3, <3>1
  <2>7. UNCHANGED outcome
    BY <1>1
  <2>8. RecoverLaunch(p, n, k, row, 1)
    <3>1. intents[k].status = "pending" /\ spawned[k] <= 1
      BY <1>3, <1>4
    <3> QED
      BY <1>3, <2>1, <2>2, <2>4, <2>5, <2>6, <2>7, <3>1 DEF RecoverLaunch
  <2> QED
    BY <1>1, <2>8, RecoverRowsStay, RecoverLaunches
<1>5. CASE Recover!ToRecord(p, command[p].at_hand, "failed", TRUE) /\ UNCHANGED intents
  <2>1. TrueResult(command[p].attempt, command[p].at_hand, [status |-> "failed", intent |-> TRUE])
    BY <1>2, <1>3 DEF TrueResult
  <2> QED
    BY <1>1, <1>2, <1>5, <2>1, RecoverRowsStay, RecoverNotes DEF Recover!Outcomes
<1> QED
  BY <1>2, <1>4, <1>5 DEF Recover!MarkLaunched

\* The outcome of a launch that is there is recorded as launched.
LEMMA RecordLaunchedStep ==
  ASSUME RecoverInv, NEW p \in Commands, Recover!RecordLaunched(p)
  PROVE  RecoverInv'
<1>1. /\ command[p].pc = "launched" /\ Recover!Goto(p, "await")
      /\ UNCHANGED <<intents, spawned>> /\ UNCHANGED <<restore, checkout, attempt, invocations, failures>>
  BY DEF Recover!RecordLaunched, Recover!At, Recover!sessions
<1>2. PICK a \in Attempts, s \in Sessions : a = command[p].attempt /\ s = command[p].at_hand
  BY <1>1, RecoverIs DEF AtHand
<1>3. PICK r : r = [status |-> "launched", intent |-> TRUE]
  OBVIOUS
<1>4. outcome' = [outcome EXCEPT ![a][s] = r]
  BY <1>2, <1>3 DEF Recover!RecordLaunched
<1>5. r \in Result /\ TrueResult(a, s, r)
  <2>1. PICK m \in Recover!Modes : LaunchOf(command[p]) = <<a, s, m>>
    BY <1>2, LaunchTyped
  <2>2. intents[LaunchOf(command[p])].status # "absent"
    BY <1>1, RecoverIs DEF RecoverKnows
  <2> QED
    BY <1>3, <2>1, <2>2 DEF TrueResult, Result, Recover!Outcomes
<1>6. outcome' \in [Attempts -> [Sessions -> Result]]
      /\ \A b \in Attempts, t \in Sessions :
           outcome'[b][t] = IF b = a /\ t = s THEN r ELSE outcome[b][t]
  BY <1>4, <1>5 DEF RecoverInv, RecoverTypes, RecoverRows
<1>7. RecoverRows'
  BY <1>1, <1>6 DEF RecoverInv, RecoverTypes, RecoverRows
<1>8. PICK n \in RecoveryCommand :
        command' = [command EXCEPT ![p] = n] /\ n.pc = "await" /\ SameWork(n, command[p])
  BY <1>1, RecoverGoes DEF RecoveryPhases, AtHand
<1>9. RecoverKnows(n)
  <2>1. n.attempt \in Attempts /\ n.at_hand \in Sessions /\ LaunchOf(n) = LaunchOf(command[p])
    BY <1>2, <1>8 DEF SameWork
  <2>2. intents[LaunchOf(n)].status # "absent"
    BY <1>1, <2>1, RecoverIs DEF RecoverKnows
  <2> QED
    BY <1>8, <2>1, <2>2 DEF RecoverKnows
<1>10. \A b \in Attempts, t \in Sessions :
         outcome'[b][t] = outcome[b][t] \/ TrueResult(b, t, outcome'[b][t])
  <2>1. ASSUME NEW b \in Attempts, NEW t \in Sessions
        PROVE  outcome'[b][t] = outcome[b][t] \/ TrueResult(b, t, outcome'[b][t])
    <3>1. CASE b = a /\ t = s
      <4>1. outcome'[b][t] = r
        BY <1>6, <3>1
      <4>2. TrueResult(b, t, r)
        BY <1>5, <3>1
      <4> QED
        BY <4>1, <4>2
    <3>2. CASE ~(b = a /\ t = s)
      BY <1>6, <3>2
    <3> QED
      BY <3>1, <3>2
  <2> QED
    BY <2>1
<1>11. RecoverQuiet(p, n)
  BY <1>1, <1>8, <1>10 DEF RecoverQuiet
<1> QED
  BY <1>7, <1>9, <1>11, RecoverReads, Zenon

\* A launch is recorded as bound if its intent is.
LEMMA RecoverAwaitStep ==
  ASSUME RecoverInv, NEW p \in Commands, Recover!Await(p)
  PROVE  RecoverInv'
<1>1. /\ command[p].pc = "await"
      /\ UNCHANGED <<intents, spawned, outcome>>
      /\ UNCHANGED <<restore, checkout, attempt, outcome, invocations, failures>>
  BY DEF Recover!Await, Recover!At, Recover!sessions, Recover!records
<1>2. PICK k \in Recover!Launches :
        k = LaunchOf(command[p]) /\ k = Recover!Launch(p) /\ command[p].at_hand \in Sessions
        /\ \E m \in Recover!Modes : k = <<command[p].attempt, command[p].at_hand, m>>
  BY <1>1, LaunchAtHand
<1>3. PICK status : status = IF Recover!Confirmed(k) THEN "bound" ELSE "failed"
  OBVIOUS
<1>4. Recover!ToRecord(p, command[p].at_hand, status, TRUE) /\ status \in Recover!Outcomes
  BY <1>2, <1>3 DEF Recover!Await, Recover!Outcomes
<1>5. intents[k].status # "absent"
  BY <1>1, <1>2, RecoverIs DEF RecoverKnows
<1>6. TrueResult(command[p].attempt, command[p].at_hand, [status |-> status, intent |-> TRUE])
  BY <1>2, <1>3, <1>5 DEF TrueResult, Recover!Confirmed
<1> QED
  BY <1>1, <1>2, <1>4, <1>6, RecoverRowsStay, RecoverNotes

\* The result is recorded.
LEMMA RecordStep ==
  ASSUME RecoverInv, NEW p \in Commands, Recover!Record(p)
  PROVE  RecoverInv'
<1>1. /\ command[p].pc = "record"
      /\ UNCHANGED <<intents, spawned>> /\ UNCHANGED <<restore, checkout, attempt, invocations, failures>>
  BY DEF Recover!Record, Recover!At, Recover!sessions
<1>2. PICK a \in Attempts, s \in Sessions : a = command[p].attempt /\ s = command[p].at_hand
  BY <1>1, RecoverIs DEF AtHand
<1>3. PICK r : r = command[p].result
  OBVIOUS
<1>4. outcome' = [outcome EXCEPT ![a][s] = r]
  BY <1>2, <1>3 DEF Recover!Record
<1>5. r \in Result /\ TrueResult(a, s, r)
  BY <1>1, <1>2, <1>3, RecoverIs DEF RecoverKnows, RecoveryCommand
<1>6. outcome' \in [Attempts -> [Sessions -> Result]]
      /\ \A b \in Attempts, t \in Sessions :
           outcome'[b][t] = IF b = a /\ t = s THEN r ELSE outcome[b][t]
  BY <1>4, <1>5 DEF RecoverInv, RecoverTypes, RecoverRows
<1>7. RecoverRows'
  BY <1>1, <1>6 DEF RecoverInv, RecoverTypes, RecoverRows
<1>8. PICK n : n = [command[p] EXCEPT !.pc = "entry", !.todo = @ \ {command[p].at_hand},
                      !.at_hand = 0, !.result = Recover!NoOutcome]
  OBVIOUS
<1>9. n \in RecoveryCommand /\ n.pc = "entry" /\ n.attempt \in Attempts
  <2>1. command[p] \in RecoveryCommand
    BY DEF RecoverInv, RecoverTypes
  <2>2. Recover!NoOutcome \in Result
    BY DEF Recover!NoOutcome, Result, Recover!Outcomes
  <2> QED
    BY <1>2, <1>8, <2>1, <2>2 DEF RecoveryCommand, RecoveryPhases
<1>10. command' = [command EXCEPT ![p] = n]
  BY <1>8 DEF Recover!Record
<1>11. RecoverKnows(n)
  BY <1>9 DEF RecoverKnows, AtHand
<1>12. \A b \in Attempts, t \in Sessions :
         outcome'[b][t] = outcome[b][t] \/ TrueResult(b, t, outcome'[b][t])
  <2>1. ASSUME NEW b \in Attempts, NEW t \in Sessions
        PROVE  outcome'[b][t] = outcome[b][t] \/ TrueResult(b, t, outcome'[b][t])
    <3>1. CASE b = a /\ t = s
      <4>1. outcome'[b][t] = r
        BY <1>6, <3>1
      <4>2. TrueResult(b, t, r)
        BY <1>5, <3>1
      <4> QED
        BY <4>1, <4>2
    <3>2. CASE ~(b = a /\ t = s)
      BY <1>6, <3>2
    <3> QED
      BY <3>1, <3>2
  <2> QED
    BY <2>1
<1>13. RecoverQuiet(p, n)
  BY <1>1, <1>9, <1>10, <1>12 DEF RecoverQuiet
<1> QED
  BY <1>7, <1>11, <1>13, RecoverReads, Zenon

\* What happens around the commands: no launch is forgotten, and one whose terminal was
\* not spawned stays as it is.
RecoverMeanwhile ==
  /\ UNCHANGED command /\ UNCHANGED spawned /\ UNCHANGED outcome
  /\ intents' \in [Recover!Launches -> LaunchRow]
  /\ \A k \in Recover!Launches :
       /\ RecoverOnwards(k)
       /\ spawned[k] = 0 => intents'[k].status = intents[k].status

\* What happens around the commands keeps the invariant.
LEMMA RecoverAround ==
  ASSUME RecoverInv, RecoverMeanwhile, RecoverRows'
  PROVE  RecoverInv'
<1> USE DEF RecoverMeanwhile
<1>1. RecoverTypes'
  BY DEF RecoverInv, RecoverTypes
<1>2. RecoverAlone'
  BY DEF RecoverInv, RecoverAlone
<1>3. RecoverSpawned'
  BY DEF RecoverInv, RecoverSpawned, RecoverTypes, RecoverOnwards
<1>4. ASSUME NEW p \in Commands PROVE RecoverKnows(command[p])'
  <2>1. PICK n : n = command[p]
    OBVIOUS
  <2>2. RecoverKnows(n) /\ command'[p] = n
    BY <2>1 DEF RecoverInv
  <2>3. n.pc \in AtHand /\ n.pc # "idle" => LaunchOf(n) \in Recover!Launches
                                            /\ n.attempt \in Attempts /\ n.at_hand \in Sessions
    BY <2>2, LaunchTyped DEF RecoverKnows
  <2>4. n.pc = "record" => TrueResult(n.attempt, n.at_hand, n.result)'
    <3>1. \A k \in Recover!Launches : RecoverOnwards(k)
      OBVIOUS
    <3> QED
      BY <2>2, <2>3, <3>1, TrueStays DEF RecoverKnows, AtHand
  <2>5. n.pc = "spawn" => intents'[LaunchOf(n)].status = "pending" /\ spawned'[LaunchOf(n)] = 0
    BY <2>2, <2>3 DEF RecoverKnows, AtHand
  <2>6. n.pc = "mark" => spawned'[LaunchOf(n)] > 0
    BY <2>2 DEF RecoverKnows
  <2>7. n.pc \in {"mark", "launched", "await"} => intents'[LaunchOf(n)].status # "absent"
    BY <2>2, <2>3 DEF RecoverKnows, RecoverOnwards, AtHand
  <2>8. RecoverKnows(n)'
    BY <2>2, <2>4, <2>5, <2>6, <2>7 DEF RecoverKnows
  <2> QED
    BY <2>2, <2>8 DEF RecoverKnows, TrueResult
<1>5. ASSUME NEW a \in Attempts, NEW s \in Sessions PROVE TrueResult(a, s, outcome[a][s])'
  <2>1. PICK r : r = outcome[a][s]
    OBVIOUS
  <2>2. TrueResult(a, s, r) /\ outcome'[a][s] = r
    BY <2>1 DEF RecoverInv
  <2>3. TrueResult(a, s, r)'
    BY <2>2, TrueStays
  <2> QED
    BY <2>2, <2>3 DEF TrueResult
<1> QED
  BY <1>1, <1>2, <1>3, <1>4, <1>5 DEF RecoverInv

\* What leaves the launches alone keeps the invariant.
LEMMA RecoverSessions ==
  ASSUME RecoverInv, UNCHANGED <<command, spawned, outcome, intents>>, RecoverRows'
  PROVE  RecoverInv'
<1>1. RecoverMeanwhile
  BY DEF RecoverMeanwhile, RecoverInv, RecoverTypes, RecoverOnwards
<1> QED
  BY <1>1, RecoverAround

\* A hook binds a launch whose terminal was spawned.
LEMMA BindStep ==
  ASSUME RecoverInv, NEW k \in Recover!Launches, Recover!Bind(k)
  PROVE  RecoverInv'
<1>1. /\ spawned[k] > 0 /\ intents[k].status \in {"pending", "launched"}
      /\ intents' = [intents EXCEPT ![k].status = "bound"]
      /\ UNCHANGED <<checkout, attempt, outcome, invocations, failures, spawned, command>>
      /\ restore' = restore \/ restore' = restore \cup {k[2]}
  BY DEF Recover!Bind, Recover!records
<1>2. PICK row : row = [intents[k] EXCEPT !.status = "bound"]
  OBVIOUS
<1>3. row \in LaunchRow /\ row.status = "bound" /\ intents' = [intents EXCEPT ![k] = row]
  <2>1. intents[k] \in LaunchRow
    BY RecoverSame
  <2> QED
    BY <1>1, <1>2, <2>1 DEF LaunchRow
<1>4. intents' \in [Recover!Launches -> LaunchRow]
      /\ \A j \in Recover!Launches : intents'[j] = IF j = k THEN row ELSE intents[j]
  BY <1>3 DEF RecoverInv, RecoverTypes
<1>5. RecoverMeanwhile
  BY <1>1, <1>3, <1>4 DEF RecoverMeanwhile, RecoverOnwards, RecoverInv, RecoverTypes
<1>6. RecoverRows'
  <2>1. k[2] \in Sessions
    BY DEF Recover!Launches
  <2> QED
    BY <1>1, <2>1 DEF RecoverInv, RecoverTypes, RecoverRows
<1> QED
  BY <1>5, <1>6, RecoverAround

\* Observations and intents lapse.
LEMMA LapseStep ==
  ASSUME RecoverInv, Recover!Lapse
  PROVE  RecoverInv'
<1>1. /\ UNCHANGED <<restore, checkout, attempt, outcome, invocations, failures, spawned, command>>
      /\ intents' = [k \in Recover!Launches |-> [intents[k] EXCEPT !.expires = 0]]
  BY DEF Recover!Lapse, Recover!records, Recover!Past
<1>2. \A k \in Recover!Launches :
        /\ intents'[k] \in LaunchRow /\ intents'[k].status = intents[k].status
  <2>1. ASSUME NEW k \in Recover!Launches
        PROVE  intents'[k] \in LaunchRow /\ intents'[k].status = intents[k].status
    <3>1. PICK row : row = [intents[k] EXCEPT !.expires = 0]
      OBVIOUS
    <3>2. row \in LaunchRow /\ row.status = intents[k].status
      BY <3>1, RecoverSame DEF LaunchRow
    <3> QED
      BY <1>1, <3>1, <3>2
  <2> QED
    BY <2>1
<1>3. intents' \in [Recover!Launches -> LaunchRow]
  BY <1>1, <1>2
<1>4. RecoverMeanwhile
  BY <1>1, <1>2, <1>3 DEF RecoverMeanwhile, RecoverOnwards, RecoverInv, RecoverTypes
<1> QED
  BY <1>1, <1>4, RecoverRowsStay, RecoverAround

\* Sessions are observed, closed, removed and lose their files.
LEMMA SessionSteps ==
  ASSUME RecoverInv, NEW s \in Sessions,
         Recover!Observe(s) \/ Recover!Close(s) \/ Recover!Remove(s) \/ Recover!Disturb(s)
  PROVE  RecoverInv'
<1>1. UNCHANGED <<command, spawned, outcome, intents>>
  BY DEF Recover!Observe, Recover!Close, Recover!Remove, Recover!Disturb, Recover!records
<1>2. UNCHANGED <<attempt, outcome, invocations, failures>>
  BY DEF Recover!Observe, Recover!Close, Recover!Remove, Recover!Disturb, Recover!records
<1>3. restore' = restore \/ restore' = restore \ {s}
  BY DEF Recover!Observe, Recover!Close, Recover!Remove, Recover!Disturb
<1>4. \/ checkout' = checkout
      \/ \E there \in {"missing", "other"} : checkout' = [checkout EXCEPT ![s] = there]
  BY DEF Recover!Observe, Recover!Close, Recover!Remove, Recover!Disturb
<1>5. RecoverRows'
  BY <1>2, <1>3, <1>4 DEF RecoverInv, RecoverTypes, RecoverRows
<1> QED
  BY <1>1, <1>5, RecoverSessions

\* Every step of a recovery keeps the invariant.
LEMMA RecoverStep == RecoverInv /\ Recover!Next => RecoverInv'
<1> SUFFICES ASSUME RecoverInv, Recover!Next PROVE RecoverInv'
  OBVIOUS
<1> QED
  BY PreviewStep, BeginAttemptStep, EntryStep, RecreateStep, RecoverBeginStep, SpawnStep, SpawnFailsStep,
     RecoverMarkStep, RecordLaunchedStep, RecoverAwaitStep, RecordStep, FinishStep, CrashStep,
     BindStep, LapseStep, SessionSteps
     DEF Recover!Next

\* The invariant implies what the run checks of launches and of outcomes.
LEMMA RecoverTrue == RecoverInv => Recover!SpawnedOnce /\ Recover!RecordsAreTrue
<1> SUFFICES ASSUME RecoverInv PROVE Recover!SpawnedOnce /\ Recover!RecordsAreTrue
  OBVIOUS
<1>1. Recover!SpawnedOnce
  BY DEF RecoverInv, RecoverSpawned, Recover!SpawnedOnce
<1>2. ASSUME NEW a \in Attempts, NEW s \in Sessions
      PROVE  LET made == {intents[<<a, s, m>>].status : m \in Recover!Modes}
             IN  /\ outcome[a][s].status = "bound" => "bound" \in made
                 /\ outcome[a][s].intent => made # {"absent"}
  BY DEF RecoverInv, TrueResult
<1> QED
  BY <1>1, <1>2 DEF Recover!RecordsAreTrue

\* Where no attempt was begun, there is nothing to tell.
LEMMA TellStarting == Recover!Init => TellInv
<1> SUFFICES ASSUME Recover!Init PROVE TellInv
  OBVIOUS
<1>1. \A p \in Commands, a \in Attempts : ~AtWork(command[p], a)
  BY DEF Recover!Init, Recover!NoCommand, AtWork
<1>2. \A a \in Attempts : attempt[a].status = "none" /\ \A s \in Sessions : outcome[a][s].status = "none"
  BY DEF Recover!Init, Recover!NoOutcome
<1> QED
  BY <1>1, <1>2 DEF TellInv, AttemptKnown, AttemptTold

\* Nothing that is told of an attempt changes.
LEMMA TellStays ==
  ASSUME TellInv, UNCHANGED <<attempt, outcome, command, failures>>
  PROVE  TellInv'
BY DEF TellInv, AttemptKnown, AttemptTold, Attended, WorkerKnows, Recover!Summary

\* A command goes on in its attempt; only one that failed, or crashed, leaves work behind.
TellsOn(p, n) ==
  /\ command' = [command EXCEPT ![p] = n] /\ UNCHANGED attempt /\ UNCHANGED outcome
  /\ \A a \in Attempts : AtWork(n, a) => AtWork(command[p], a) /\ WorkerKnows(n, a)
  /\ failures' = 0 =>
       /\ failures = 0
       /\ \A a \in Attempts : AtWork(command[p], a) =>
            /\ AtWork(n, a)
            /\ \A s \in command[p].todo : outcome[a][s].status = "none" => s \in n.todo
            /\ command[p].pc \in {"await", "record"} =>
                 n.pc \in {"await", "record"} /\ n.at_hand = command[p].at_hand

\* A command that goes on in its attempt keeps what is told.
LEMMA TellMoves ==
  ASSUME RecoverInv, TellInv, NEW p \in Commands, NEW n, TellsOn(p, n)
  PROVE  TellInv'
<1>1. \A q \in Commands : command'[q] = IF q = p THEN n ELSE command[q]
  BY DEF RecoverInv, RecoverTypes, TellsOn
<1>2. attempt' = attempt /\ outcome' = outcome
  BY DEF TellsOn
<1>3. ASSUME NEW a \in Attempts PROVE AttemptKnown(a)'
  <2>1. AttemptKnown(a)
    BY DEF TellInv
  <2>2. ASSUME NEW q \in Commands, AtWork(command'[q], a)
        PROVE  AtWork(command[q], a) /\ WorkerKnows(command'[q], a)
    BY <1>1, <2>1, <2>2 DEF TellsOn, AttemptKnown
  <2>3. ASSUME NEW q \in Commands, AtWork(command'[q], a) PROVE WorkerKnows(command[q], a)'
    BY <1>2, <2>2, <2>3 DEF WorkerKnows
  <2> QED
    BY <1>2, <2>1, <2>2, <2>3 DEF AttemptKnown
<1>4. ASSUME failures' = 0, NEW a \in Attempts PROVE AttemptTold(a)'
  <2>1. AttemptTold(a) /\ AttemptKnown(a)
    BY <1>4 DEF TellInv, TellsOn
  <2>2. AtWork(command[p], a) =>
          /\ AtWork(n, a)
          /\ \A s \in command[p].todo : outcome[a][s].status = "none" => s \in n.todo
          /\ command[p].pc \in {"await", "record"} =>
               n.pc \in {"await", "record"} /\ n.at_hand = command[p].at_hand
    BY <1>4 DEF TellsOn
  <2>3. ASSUME NEW s \in attempt[a].plan, Attended(a, s) PROVE Attended(a, s)'
    <3>1. ASSUME outcome[a][s].status = "none"
          PROVE  \E q \in Commands : AtWork(command'[q], a) /\ s \in command'[q].todo
      BY <1>1, <2>2, <2>3, <3>1 DEF Attended
    <3>2. ASSUME outcome[a][s].status = "launched"
          PROVE  \E q \in Commands : /\ AtWork(command'[q], a) /\ command'[q].at_hand = s
                                     /\ command'[q].pc \in {"await", "record"}
      BY <1>1, <2>2, <2>3, <3>2 DEF Attended
    <3> QED
      BY <1>2, <3>1, <3>2 DEF Attended
  <2>4. (\A q \in Commands : ~AtWork(command'[q], a)) => \A q \in Commands : ~AtWork(command[q], a)
    BY <1>1, <2>2
  <2>5. Recover!Summary(a)' = Recover!Summary(a)
    BY <1>2 DEF Recover!Summary
  <2> QED
    BY <1>2, <2>1, <2>3, <2>4, <2>5 DEF AttemptTold
<1> QED
  BY <1>3, <1>4 DEF TellInv

\* A command that works on no attempt, and will not.
LEMMA TellIdles ==
  ASSUME RecoverInv, TellInv, NEW p \in Commands, NEW n, command' = [command EXCEPT ![p] = n],
         n.pc \in {"idle", "attempt"}, UNCHANGED <<attempt, outcome>>,
         failures' = 0 => failures = 0 /\ command[p].pc \in {"idle", "attempt"}
  PROVE  TellInv'
<1>1. TellsOn(p, n)
  BY DEF TellsOn, AtWork
<1> QED
  BY <1>1, TellMoves

\* What a command at work knows.
LEMMA TellIs ==
  ASSUME RecoverInv, TellInv, NEW p \in Commands, command[p].pc \notin {"idle", "attempt"}
  PROVE  \E a \in Attempts : /\ a = command[p].attempt /\ AtWork(command[p], a)
                             /\ WorkerKnows(command[p], a)
                             /\ attempt[a].status # "none"
<1>1. command[p].attempt \in Attempts
  BY RecoverIs
<1>2. AttemptKnown(command[p].attempt) /\ AtWork(command[p], command[p].attempt)
  BY <1>1 DEF TellInv, AtWork
<1> QED
  BY <1>1, <1>2 DEF AttemptKnown

\* A command that takes the next step for the session at hand.
LEMMA TellGoes ==
  ASSUME RecoverInv, TellInv, NEW p \in Commands,
         command[p].pc \in {"recreate", "begin", "spawn", "mark"}, NEW pc \in AtHand \ {"record"},
         Recover!Goto(p, pc), UNCHANGED <<attempt, outcome, failures>>
  PROVE  TellInv'
<1>1. PICK n \in RecoveryCommand :
        command' = [command EXCEPT ![p] = n] /\ n.pc = pc /\ SameWork(n, command[p])
  BY RecoverGoes DEF RecoveryPhases
<1>2. PICK a \in Attempts :
        a = command[p].attempt /\ AtWork(command[p], a) /\ WorkerKnows(command[p], a)
  BY TellIs
<1>3. n.attempt = a /\ n.todo = command[p].todo /\ n.at_hand = command[p].at_hand
  BY <1>1, <1>2 DEF SameWork
<1>4. AtWork(n, a) /\ WorkerKnows(n, a)
  BY <1>1, <1>2, <1>3 DEF AtWork, WorkerKnows, AtHand
<1>5. \A b \in Attempts : (AtWork(n, b) => b = a) /\ (AtWork(command[p], b) => b = a)
  BY <1>2, <1>3 DEF AtWork
<1>6. TellsOn(p, n)
  BY <1>1, <1>2, <1>3, <1>4, <1>5 DEF TellsOn
<1> QED
  BY <1>6, TellMoves

\* A command that is about to record how it ended with a session.
LEMMA TellNotes ==
  ASSUME RecoverInv, TellInv, NEW p \in Commands, NEW s \in Sessions,
         \/ command[p].pc = "entry" /\ s \in command[p].todo
         \/ command[p].pc \in AtHand \ {"record"} /\ s = command[p].at_hand,
         NEW status \in {"skipped", "conflict", "failed", "bound"}, NEW intent \in BOOLEAN,
         Recover!ToRecord(p, s, status, intent), UNCHANGED <<attempt, outcome>>,
         failures' = 0 => failures = 0
  PROVE  TellInv'
<1>1. PICK n \in RecoveryCommand :
        /\ command' = [command EXCEPT ![p] = n]
        /\ n.pc = "record" /\ n.attempt = command[p].attempt /\ n.todo = command[p].todo
        /\ n.at_hand = s /\ n.result.status = status
  BY RecordsNext DEF Recover!Outcomes
<1>2. PICK a \in Attempts :
        a = command[p].attempt /\ AtWork(command[p], a) /\ WorkerKnows(command[p], a)
  BY TellIs DEF AtHand
<1>3. AtWork(n, a) /\ WorkerKnows(n, a)
  BY <1>1, <1>2 DEF AtWork, WorkerKnows, AtHand
<1>4. \A b \in Attempts : (AtWork(n, b) => b = a) /\ (AtWork(command[p], b) => b = a)
  BY <1>1, <1>2 DEF AtWork
<1>5. command[p].pc \in {"await", "record"} => n.at_hand = command[p].at_hand
  BY <1>1 DEF AtHand
<1>6. TellsOn(p, n)
  BY <1>1, <1>2, <1>3, <1>4, <1>5 DEF TellsOn
<1> QED
  BY <1>6, TellMoves

\* A preview works on no attempt.
LEMMA TellPreview ==
  ASSUME RecoverInv, TellInv, NEW p \in Commands, Recover!Preview(p)
  PROVE  TellInv'
<1>1. command[p].pc = "idle" /\ UNCHANGED <<attempt, outcome, failures>>
  BY DEF Recover!Preview, Recover!At, Recover!records
<1>2. PICK a \in Attempts, replace \in BOOLEAN, selected \in SUBSET restore :
        command' = [command EXCEPT ![p] =
          [Recover!NoCommand EXCEPT !.pc = "attempt", !.attempt = a, !.replace = replace,
             !.at = invocations', !.todo = selected,
             !.entries = [s \in selected |-> Recover!Disposition(s)]]]
  BY DEF Recover!Preview
<1>3. PICK entries : entries = [s \in selected |-> Recover!Disposition(s)]
  OBVIOUS
<1>4. PICK n : n = [Recover!NoCommand EXCEPT !.pc = "attempt", !.attempt = a, !.replace = replace,
                      !.at = invocations', !.todo = selected, !.entries = entries]
  OBVIOUS
<1>5. command' = [command EXCEPT ![p] = n]
  BY <1>2, <1>3, <1>4, Zenon
<1>6. n.pc = "attempt"
  BY <1>4 DEF Recover!NoCommand
<1> QED
  BY <1>1, <1>5, <1>6, TellIdles

\* A command that begins an attempt attends to all of its plan.
LEMMA TellBegins ==
  ASSUME RecoverInv, TellInv, NEW p \in Commands, Recover!BeginAttempt(p)
  PROVE  TellInv'
<1>1. command[p].pc = "attempt" /\ UNCHANGED <<outcome, failures>>
  BY DEF Recover!BeginAttempt, Recover!At
<1>2. PICK a \in Attempts : a = command[p].attempt
  BY <1>1, RecoverIs
<1>3. CASE Recover!Return(p) /\ UNCHANGED attempt
  <2>1. PICK n \in RecoveryCommand : command' = [command EXCEPT ![p] = n] /\ n.pc = "idle"
    BY <1>3, RecoverEnds
  <2> QED
    BY <1>1, <1>3, <2>1, TellIdles
<1>4. CASE /\ attempt[a].status = "none" \/ attempt[a].plan = command[p].todo
           /\ attempt' = [attempt EXCEPT ![a] = [status |-> "running", plan |-> command[p].todo]]
           /\ Recover!Goto(p, "entry")
  <2>1. PICK n \in RecoveryCommand :
          command' = [command EXCEPT ![p] = n] /\ n.pc = "entry" /\ SameWork(n, command[p])
    BY <1>4, RecoverGoes DEF RecoveryPhases
  <2>2. n.attempt = a /\ n.todo = command[p].todo
    BY <1>2, <2>1 DEF SameWork
  <2>3. \A q \in Commands : command'[q] = IF q = p THEN n ELSE command[q]
    BY <2>1 DEF RecoverInv, RecoverTypes
  <2>4. /\ attempt'[a].status = "running" /\ attempt'[a].plan = command[p].todo
        /\ \A b \in Attempts : b # a => attempt'[b] = attempt[b]
    BY <1>4 DEF RecoverInv, RecoverTypes, RecoverRows
  <2>5. ASSUME NEW b \in Attempts, b # a PROVE AttemptKnown(b)' /\ (failures' = 0 => AttemptTold(b)')
    <3>1. ~AtWork(n, b) /\ ~AtWork(command[p], b)
      BY <1>2, <2>2, <2>5 DEF AtWork
    <3>2. \A q \in Commands : AtWork(command'[q], b) <=> AtWork(command[q], b)
      BY <2>3, <3>1
    <3>3. \A q \in Commands : AtWork(command'[q], b) => command'[q] = command[q]
      BY <2>3, <3>1
    <3>4. AttemptKnown(b) /\ (failures' = 0 => AttemptTold(b))
      BY <1>1 DEF TellInv
    <3>5. attempt'[b] = attempt[b] /\ outcome' = outcome
      BY <1>1, <2>4, <2>5
    <3>6. AttemptKnown(b)'
      BY <3>2, <3>3, <3>4, <3>5 DEF AttemptKnown, WorkerKnows
    <3>7. ASSUME failures' = 0 PROVE AttemptTold(b)'
      <4>1. \A s \in attempt[b].plan : Attended(b, s) => Attended(b, s)'
        BY <3>2, <3>3, <3>5 DEF Attended
      <4>2. Recover!Summary(b)' = Recover!Summary(b)
        BY <3>5 DEF Recover!Summary
      <4> QED
        BY <3>2, <3>4, <3>5, <3>7, <4>1, <4>2 DEF AttemptTold
    <3> QED
      BY <3>6, <3>7
  <2>6. AtWork(n, a)
    BY <2>1, <2>2 DEF AtWork
  <2>7. AttemptKnown(a)
    BY DEF TellInv
  <2>8. \A s \in Sessions : outcome[a][s].status # "none" => s \in command[p].todo
    BY <1>4, <2>7 DEF AttemptKnown
  <2>9. ASSUME NEW q \in Commands, AtWork(command'[q], a) PROVE WorkerKnows(command[q], a)'
    <3>1. CASE q = p
      BY <2>1, <2>2, <2>3, <2>4, <3>1 DEF WorkerKnows, AtHand
    <3>2. CASE q # p
      <4>1. command'[q] = command[q] /\ AtWork(command[q], a)
        BY <2>3, <2>9, <3>2
      <4>2. WorkerKnows(command[q], a) /\ attempt[a].status # "none"
        BY <2>7, <4>1 DEF AttemptKnown
      <4>3. attempt'[a].plan = attempt[a].plan
        BY <1>4, <2>4, <4>2
      <4> QED
        BY <4>1, <4>2, <4>3 DEF WorkerKnows
    <3> QED
      BY <3>1, <3>2
  <2>10. AttemptKnown(a)'
    <3>1. attempt'[a].status # "none"
      BY <2>4
    <3> QED
      BY <1>1, <2>4, <2>8, <2>9, <3>1 DEF AttemptKnown
  <2>11. ASSUME failures' = 0 PROVE AttemptTold(a)'
    <3>1. ASSUME NEW s \in command[p].todo PROVE Attended(a, s)'
      <4>1. AtWork(command'[p], a) /\ s \in command'[p].todo
        BY <2>2, <2>3, <2>6
      <4>2. ASSUME outcome'[a][s].status = "launched"
            PROVE  \E q \in Commands : /\ AtWork(command'[q], a) /\ command'[q].at_hand = s
                                       /\ command'[q].pc \in {"await", "record"}
        <5>1. s \in Sessions
          BY DEF RecoverInv, RecoverTypes, RecoveryCommand
        <5>2. outcome[a][s].status = "launched" /\ attempt[a].status # "none"
          BY <1>1, <2>7, <4>2, <5>1 DEF AttemptKnown
        <5>3. Attended(a, s)
          BY <1>1, <1>4, <2>11, <5>2 DEF TellInv, AttemptTold
        <5>4. PICK q \in Commands : /\ AtWork(command[q], a) /\ command[q].at_hand = s
                                    /\ command[q].pc \in {"await", "record"}
          BY <5>2, <5>3 DEF Attended
        <5>5. command'[q] = command[q]
          BY <1>1, <2>3, <5>4
        <5> QED
          BY <5>4, <5>5
      <4> QED
        BY <4>1, <4>2 DEF Attended
    <3>2. ~\A q \in Commands : ~AtWork(command'[q], a)
      BY <2>3, <2>6
    <3> QED
      BY <2>4, <3>1, <3>2 DEF AttemptTold
  <2> QED
    BY <2>5, <2>10, <2>11 DEF TellInv
<1> QED
  BY <1>2, <1>3, <1>4 DEF Recover!BeginAttempt

\* A command tells how the session at hand goes.
TellsOf(p, n, a, s, r) ==
  /\ command' = [command EXCEPT ![p] = n] /\ UNCHANGED attempt /\ UNCHANGED failures
  /\ outcome' = [outcome EXCEPT ![a][s] = r] /\ r \in Result
  /\ s = command[p].at_hand /\ s \in command[p].todo
  /\ AtWork(command[p], a) /\ AtWork(n, a) /\ WorkerKnows(n, a)
  /\ \A t \in command[p].todo : t # s => t \in n.todo
  /\ r.status # "none"
  /\ r.status = "launched" => n.pc = "await" /\ n.at_hand = s

\* A command that writes the outcome of the session at hand keeps what is told.
LEMMA TellOutcome ==
  ASSUME RecoverInv, TellInv, NEW p \in Commands, NEW n, NEW a \in Attempts, NEW s \in Sessions,
         NEW r, TellsOf(p, n, a, s, r)
  PROVE  TellInv'
<1> USE DEF TellsOf
<1>1. \A q \in Commands : command'[q] = IF q = p THEN n ELSE command[q]
  BY DEF RecoverInv, RecoverTypes
<1>2. \A b \in Attempts, t \in Sessions :
        outcome'[b][t] = IF b = a /\ t = s THEN r ELSE outcome[b][t]
  BY DEF RecoverInv, RecoverTypes, RecoverRows
<1>3. \A b \in Attempts : attempt[b].plan \subseteq Sessions
  BY DEF RecoverInv, RecoverTypes, RecoverRows, AttemptRow
<1>4. \A b \in Attempts : b # a => ~AtWork(n, b) /\ ~AtWork(command[p], b)
  BY DEF AtWork
<1>5. attempt' = attempt /\ failures' = failures
  OBVIOUS
<1>6. ASSUME NEW b \in Attempts, b # a PROVE AttemptKnown(b)' /\ (failures' = 0 => AttemptTold(b)')
  <2>1. \A q \in Commands : /\ AtWork(command'[q], b) <=> AtWork(command[q], b)
                            /\ AtWork(command'[q], b) => command'[q] = command[q]
    BY <1>1, <1>4, <1>6
  <2>2. \A t \in Sessions : outcome'[b][t] = outcome[b][t]
    BY <1>2, <1>6
  <2>3. AttemptKnown(b) /\ (failures = 0 => AttemptTold(b))
    BY DEF TellInv
  <2>4. AttemptKnown(b)'
    <3> HIDE DEF TellsOf
    <3> QED
      BY <1>5, <2>1, <2>2, <2>3 DEF AttemptKnown, WorkerKnows
  <2>5. ASSUME failures' = 0 PROVE AttemptTold(b)'
    <3> HIDE DEF TellsOf
    <3>1. \A t \in attempt[b].plan : Attended(b, t) => Attended(b, t)'
      BY <1>3, <2>1, <2>2 DEF Attended
    <3>2. Recover!Summary(b)' = Recover!Summary(b)
      BY <2>2 DEF Recover!Summary
    <3> QED
      BY <1>5, <2>1, <2>3, <2>5, <3>1, <3>2 DEF AttemptTold
  <2> QED
    BY <2>4, <2>5
<1>7. AttemptKnown(a)'
  <2>1. AttemptKnown(a)
    BY DEF TellInv
  <2>2. attempt[a].status # "none" /\ WorkerKnows(command[p], a) /\ s \in attempt[a].plan
    BY <2>1 DEF AttemptKnown, WorkerKnows
  <2>3. \A t \in Sessions : outcome'[a][t].status # "none" => t \in attempt[a].plan
    BY <1>2, <2>1, <2>2 DEF AttemptKnown
  <2>4. ASSUME NEW q \in Commands, AtWork(command'[q], a) PROVE WorkerKnows(command[q], a)'
    <3>1. WorkerKnows(command'[q], a)
      BY <1>1, <2>1, <2>4 DEF AttemptKnown
    <3> QED
      BY <1>5, <3>1 DEF WorkerKnows
  <2> QED
    <3> HIDE DEF TellsOf
    <3> QED
      BY <1>5, <2>2, <2>3, <2>4 DEF AttemptKnown
<1>8. ASSUME failures' = 0 PROVE AttemptTold(a)'
  <2>1. AttemptTold(a) /\ attempt[a].status # "none"
    BY <1>5, <1>8 DEF TellInv, AttemptKnown
  <2>2. ASSUME NEW t \in attempt[a].plan PROVE Attended(a, t)'
    <3>1. Attended(a, t) /\ t \in Sessions
      BY <1>3, <2>1 DEF AttemptTold
    <3>2. CASE t = s
      <4>1. outcome'[a][t] = r /\ command'[p] = n
        BY <1>1, <1>2, <3>2
      <4> QED
        BY <3>2, <4>1 DEF Attended
    <3>3. CASE t # s
      <4>1. outcome'[a][t] = outcome[a][t]
        BY <1>2, <3>1, <3>3
      <4>2. ASSUME outcome[a][t].status = "none"
            PROVE  \E q \in Commands : AtWork(command'[q], a) /\ t \in command'[q].todo
        BY <1>1, <3>1, <3>3, <4>2 DEF Attended
      <4>3. ASSUME outcome[a][t].status = "launched"
            PROVE  \E q \in Commands : /\ AtWork(command'[q], a) /\ command'[q].at_hand = t
                                       /\ command'[q].pc \in {"await", "record"}
        BY <1>1, <3>1, <3>3, <4>3 DEF Attended
      <4> QED
        BY <4>1, <4>2, <4>3 DEF Attended
    <3> QED
      BY <3>2, <3>3
  <2>3. ~\A q \in Commands : ~AtWork(command'[q], a)
    BY <1>1
  <2> QED
    <3> HIDE DEF TellsOf
    <3> QED
      BY <1>5, <2>2, <2>3 DEF AttemptTold
<1> QED
  <2> HIDE DEF TellsOf
  <2> QED
    BY <1>6, <1>7, <1>8 DEF TellInv

\* The result that is recorded is an end.
LEMMA TellRecords ==
  ASSUME RecoverInv, TellInv, NEW p \in Commands, Recover!Record(p)
  PROVE  TellInv'
<1>1. command[p].pc = "record" /\ UNCHANGED attempt /\ UNCHANGED failures
  BY DEF Recover!Record, Recover!At
<1>2. PICK a \in Attempts :
        a = command[p].attempt /\ AtWork(command[p], a) /\ WorkerKnows(command[p], a)
  BY <1>1, TellIs
<1>3. PICK s \in Sessions : s = command[p].at_hand
  BY <1>1, RecoverIs DEF AtHand
<1>4. PICK r : r = command[p].result
  OBVIOUS
<1>5. outcome' = [outcome EXCEPT ![a][s] = r]
  BY <1>2, <1>3, <1>4 DEF Recover!Record
<1>6. r \in Result /\ r.status \notin {"none", "launched"} /\ s \in command[p].todo
      /\ command[p].todo \subseteq attempt[a].plan
  BY <1>1, <1>2, <1>3, <1>4, RecoverIs DEF RecoveryCommand, WorkerKnows, AtHand
<1>7. PICK n : n = [command[p] EXCEPT !.pc = "entry", !.todo = @ \ {command[p].at_hand},
                      !.at_hand = 0, !.result = Recover!NoOutcome]
  OBVIOUS
<1>8. n.pc = "entry" /\ n.attempt = a /\ n.todo = command[p].todo \ {s}
  <2>1. command[p] \in RecoveryCommand
    BY DEF RecoverInv, RecoverTypes
  <2> QED
    BY <1>2, <1>3, <1>7, <2>1 DEF RecoveryCommand
<1>9. command' = [command EXCEPT ![p] = n]
  BY <1>7 DEF Recover!Record
<1>10. AtWork(n, a) /\ WorkerKnows(n, a)
  BY <1>6, <1>8 DEF AtWork, WorkerKnows, AtHand
<1>11. TellsOf(p, n, a, s, r)
  BY <1>1, <1>2, <1>3, <1>5, <1>6, <1>8, <1>9, <1>10 DEF TellsOf
<1> QED
  BY <1>11, TellOutcome

\* A command that has recorded a launch awaits it.
LEMMA TellLaunched ==
  ASSUME RecoverInv, TellInv, NEW p \in Commands, Recover!RecordLaunched(p)
  PROVE  TellInv'
<1>1. /\ command[p].pc = "launched" /\ Recover!Goto(p, "await")
      /\ UNCHANGED attempt /\ UNCHANGED failures
  BY DEF Recover!RecordLaunched, Recover!At
<1>2. PICK a \in Attempts :
        a = command[p].attempt /\ AtWork(command[p], a) /\ WorkerKnows(command[p], a)
  BY <1>1, TellIs
<1>3. PICK s \in Sessions : s = command[p].at_hand
  BY <1>1, RecoverIs DEF AtHand
<1>4. PICK r : r = [status |-> "launched", intent |-> TRUE]
  OBVIOUS
<1>5. outcome' = [outcome EXCEPT ![a][s] = r]
  BY <1>2, <1>3, <1>4 DEF Recover!RecordLaunched
<1>6. r \in Result /\ r.status = "launched" /\ s \in command[p].todo
  BY <1>1, <1>2, <1>3, <1>4 DEF Result, Recover!Outcomes, WorkerKnows, AtHand
<1>7. PICK n \in RecoveryCommand :
        command' = [command EXCEPT ![p] = n] /\ n.pc = "await" /\ SameWork(n, command[p])
  BY <1>1, RecoverGoes DEF RecoveryPhases, AtHand
<1>8. n.attempt = a /\ n.todo = command[p].todo /\ n.at_hand = s
  BY <1>2, <1>3, <1>7 DEF SameWork
<1>9. AtWork(n, a) /\ WorkerKnows(n, a)
  BY <1>2, <1>6, <1>7, <1>8 DEF AtWork, WorkerKnows, AtHand
<1>10. TellsOf(p, n, a, s, r)
  BY <1>1, <1>2, <1>3, <1>5, <1>6, <1>7, <1>8, <1>9 DEF TellsOf
<1> QED
  BY <1>10, TellOutcome

\* A session that is passed over has an outcome.
LEMMA TellEntry ==
  ASSUME RecoverInv, TellInv, NEW p \in Commands, NEW s \in Sessions, Recover!Entry(p, s)
  PROVE  TellInv'
<1>1. /\ command[p].pc = "entry" /\ s \in command[p].todo
      /\ UNCHANGED <<attempt, outcome>> /\ UNCHANGED failures
  BY DEF Recover!Entry, Recover!At, Recover!records
<1>2. PICK a \in Attempts :
        a = command[p].attempt /\ AtWork(command[p], a) /\ WorkerKnows(command[p], a)
  BY <1>1, TellIs
<1>3. command[p] \in RecoveryCommand /\ command \in [Commands -> RecoveryCommand]
  BY DEF RecoverInv, RecoverTypes
<1>4. CASE Recover!Reused(outcome[a][s]) /\ command' = [command EXCEPT ![p].todo = @ \ {s}]
  <2>1. PICK n : n = [command[p] EXCEPT !.todo = @ \ {s}]
    OBVIOUS
  <2>2. n.pc = "entry" /\ n.attempt = a /\ n.todo = command[p].todo \ {s}
    BY <1>1, <1>2, <1>3, <2>1 DEF RecoveryCommand
  <2>3. command' = [command EXCEPT ![p] = n]
    BY <1>3, <1>4, <2>1
  <2>4. outcome[a][s].status # "none"
    BY <1>4 DEF Recover!Reused
  <2>5. AtWork(n, a) /\ WorkerKnows(n, a)
    BY <1>2, <2>2 DEF AtWork, WorkerKnows, AtHand
  <2>6. \A b \in Attempts : (AtWork(n, b) => b = a) /\ (AtWork(command[p], b) => b = a)
    BY <1>2, <2>2 DEF AtWork
  <2>7. TellsOn(p, n)
    BY <1>1, <1>2, <2>2, <2>3, <2>4, <2>5, <2>6 DEF TellsOn
  <2> QED
    BY <2>7, TellMoves
<1>5. ASSUME NEW status \in {"skipped", "conflict"}, Recover!ToRecord(p, s, status, FALSE)
      PROVE  TellInv'
  BY <1>1, <1>5, TellNotes
<1>6. ASSUME NEW pc \in {"recreate", "begin"},
             command' = [command EXCEPT ![p].pc = pc, ![p].at_hand = s]
      PROVE  TellInv'
  <2>1. PICK n : n = [command[p] EXCEPT !.pc = pc, !.at_hand = s]
    OBVIOUS
  <2>2. n.pc = pc /\ n.attempt = a /\ n.at_hand = s /\ n.todo = command[p].todo
    BY <1>2, <1>3, <2>1 DEF RecoveryCommand
  <2>3. command' = [command EXCEPT ![p] = n]
    BY <1>3, <1>6, <2>1 DEF RecoveryCommand
  <2>4. AtWork(n, a) /\ WorkerKnows(n, a)
    BY <1>1, <1>2, <2>2 DEF AtWork, WorkerKnows
  <2>5. \A b \in Attempts : (AtWork(n, b) => b = a) /\ (AtWork(command[p], b) => b = a)
    BY <1>2, <2>2 DEF AtWork
  <2>6. TellsOn(p, n)
    BY <1>1, <1>2, <2>2, <2>3, <2>4, <2>5 DEF TellsOn
  <2> QED
    BY <2>6, TellMoves
<1> QED
  BY <1>2, <1>4, <1>5, <1>6 DEF Recover!Entry

\* A command that launches, or fails to, goes on with the session at hand.
LEMMA TellLaunching ==
  ASSUME RecoverInv, TellInv, NEW p \in Commands,
         \/ Recover!Recreate(p) \/ Recover!Begin(p) \/ Recover!Spawn(p) \/ Recover!SpawnFails(p)
         \/ Recover!MarkLaunched(p) \/ Recover!Await(p)
  PROVE  TellInv'
<1>1. /\ command[p].pc \in {"recreate", "begin", "spawn", "mark", "await"}
      /\ UNCHANGED <<attempt, outcome>>
  BY DEF Recover!Recreate, Recover!Begin, Recover!Spawn, Recover!SpawnFails,
         Recover!MarkLaunched, Recover!Await, Recover!At, Recover!records
<1>2. PICK s \in Sessions : s = command[p].at_hand
  BY <1>1, RecoverIs DEF AtHand
<1>3. ASSUME NEW pc \in {"begin", "spawn", "mark", "launched"}, Recover!Goto(p, pc),
             command[p].pc # "await", UNCHANGED failures
      PROVE  TellInv'
  BY <1>1, <1>3, TellGoes DEF AtHand
<1>4. ASSUME NEW status \in {"failed", "bound"}, NEW intent \in BOOLEAN,
             Recover!ToRecord(p, s, status, intent), failures' = 0 => failures = 0
      PROVE  TellInv'
  BY <1>1, <1>2, <1>4, TellNotes DEF AtHand
<1>5. CASE Recover!Recreate(p)
  <2>1. UNCHANGED failures /\ command[p].pc = "recreate"
        /\ (Recover!Goto(p, "begin") \/ Recover!ToRecord(p, s, "failed", FALSE))
    BY <1>2, <1>5 DEF Recover!Recreate, Recover!At
  <2> QED
    BY <1>3, <1>4, <2>1
<1>6. CASE Recover!Begin(p)
  <2>1. UNCHANGED failures /\ command[p].pc = "begin"
        /\ (Recover!Goto(p, "spawn") \/ Recover!ToRecord(p, s, "failed", FALSE))
    BY <1>2, <1>6 DEF Recover!Begin, Recover!At
  <2> QED
    BY <1>3, <1>4, <2>1
<1>7. CASE Recover!Spawn(p)
  <2>1. UNCHANGED failures /\ command[p].pc = "spawn" /\ Recover!Goto(p, "mark")
    BY <1>7 DEF Recover!Spawn, Recover!At
  <2> QED
    BY <1>3, <2>1
<1>8. CASE Recover!SpawnFails(p)
  <2>1. Recover!ToRecord(p, s, "failed", TRUE)
    BY <1>2, <1>8 DEF Recover!SpawnFails
  <2>2. failures' = 0 => failures = 0
    BY <1>8 DEF Recover!SpawnFails, Recover!Fault, RecoverInv, RecoverTypes, RecoverRows
  <2> QED
    BY <1>4, <2>1, <2>2
<1>9. CASE Recover!MarkLaunched(p)
  <2>1. UNCHANGED failures /\ command[p].pc = "mark"
        /\ (Recover!Goto(p, "launched") \/ Recover!ToRecord(p, s, "failed", TRUE))
    BY <1>2, <1>9 DEF Recover!MarkLaunched, Recover!At
  <2> QED
    BY <1>3, <1>4, <2>1
<1>10. CASE Recover!Await(p)
  <2>1. PICK status \in {"failed", "bound"} : Recover!ToRecord(p, s, status, TRUE)
    BY <1>2, <1>10 DEF Recover!Await
  <2>2. UNCHANGED failures
    BY <1>10 DEF Recover!Await
  <2> QED
    BY <1>4, <2>1, <2>2
<1> QED
  BY <1>5, <1>6, <1>7, <1>8, <1>9, <1>10

\* After a crash nothing is told.
LEMMA TellCrash ==
  ASSUME RecoverInv, TellInv, NEW p \in Commands, Recover!Crash(p)
  PROVE  TellInv'
<1>1. /\ Recover!Return(p) /\ failures' = failures + 1 /\ UNCHANGED <<attempt, outcome>>
  BY DEF Recover!Crash, Recover!Fault, Recover!records
<1>2. failures' # 0
  BY <1>1 DEF RecoverInv, RecoverTypes, RecoverRows
<1>3. PICK n \in RecoveryCommand : command' = [command EXCEPT ![p] = n] /\ n.pc = "idle"
  BY <1>1, RecoverEnds
<1> QED
  BY <1>1, <1>2, <1>3, TellIdles

\* The last command of an attempt tells how its sessions ended.
LEMMA TellFinish ==
  ASSUME RecoverInv, TellInv, NEW p \in Commands, Recover!Finish(p)
  PROVE  TellInv'
<1>1. /\ command[p].pc = "entry" /\ command[p].todo = {} /\ Recover!Return(p)
      /\ UNCHANGED outcome /\ UNCHANGED failures
  BY DEF Recover!Finish, Recover!At
<1>2. PICK a \in Attempts : /\ a = command[p].attempt /\ AtWork(command[p], a)
                            /\ attempt[a].status # "none"
  BY <1>1, TellIs
<1>3. attempt' = [attempt EXCEPT ![a].status = Recover!Summary(a)]
  BY <1>2 DEF Recover!Finish
<1>4. /\ attempt'[a].status = Recover!Summary(a) /\ attempt'[a].plan = attempt[a].plan
      /\ \A b \in Attempts : b # a => attempt'[b] = attempt[b]
  BY <1>3 DEF RecoverInv, RecoverTypes, RecoverRows, AttemptRow
<1>5. PICK n \in RecoveryCommand : command' = [command EXCEPT ![p] = n] /\ n.pc = "idle"
  BY <1>1, RecoverEnds
<1>6. \A q \in Commands : command'[q] = IF q = p THEN n ELSE command[q]
  BY <1>5 DEF RecoverInv, RecoverTypes
<1>7. \A b \in Attempts : ~AtWork(n, b)
  BY <1>5 DEF AtWork
<1>8. Recover!Summary(a) # "none"
  BY DEF Recover!Summary
<1>9. ASSUME NEW b \in Attempts PROVE AttemptKnown(b)'
  <2>1. AttemptKnown(b) /\ attempt'[b].plan = attempt[b].plan
        /\ (attempt'[b].status = "none" => attempt[b].status = "none")
    BY <1>4, <1>8 DEF TellInv
  <2>2. \A q \in Commands : AtWork(command'[q], b) =>
          AtWork(command[q], b) /\ command'[q] = command[q]
    BY <1>6, <1>7
  <2>3. outcome' = outcome
    BY <1>1
  <2> QED
    BY <2>1, <2>2, <2>3 DEF AttemptKnown, WorkerKnows
<1>10. ASSUME failures' = 0, NEW b \in Attempts PROVE AttemptTold(b)'
  <2>1. AttemptTold(b) /\ attempt'[b].plan = attempt[b].plan /\ outcome' = outcome
        /\ (attempt'[b].status # "none" => attempt[b].status # "none")
    BY <1>1, <1>2, <1>4, <1>10 DEF TellInv
  <2>2. ASSUME NEW s, Attended(b, s) PROVE Attended(b, s)'
    <3>1. ASSUME outcome[b][s].status = "none"
          PROVE  \E q \in Commands : AtWork(command'[q], b) /\ s \in command'[q].todo
      BY <1>1, <1>6, <2>2, <3>1 DEF Attended
    <3>2. ASSUME outcome[b][s].status = "launched"
          PROVE  \E q \in Commands : /\ AtWork(command'[q], b) /\ command'[q].at_hand = s
                                     /\ command'[q].pc \in {"await", "record"}
      <4>1. PICK q \in Commands : /\ AtWork(command[q], b) /\ command[q].at_hand = s
                                  /\ command[q].pc \in {"await", "record"}
        BY <2>2, <3>2 DEF Attended
      <4>2. command'[q] = command[q]
        BY <1>1, <1>6, <4>1
      <4> QED
        BY <4>1, <4>2
    <3> QED
      BY <2>1, <3>1, <3>2 DEF Attended
  <2>3. Recover!Summary(b)' = Recover!Summary(b)
    BY <2>1 DEF Recover!Summary
  <2>4. CASE b = a
    <3>1. attempt'[b].status = Recover!Summary(b)'
      BY <1>4, <2>3, <2>4
    <3> QED
      BY <2>1, <2>2, <3>1 DEF AttemptTold
  <2>5. CASE b # a
    <3>1. ~AtWork(command[p], b) /\ attempt'[b] = attempt[b]
      BY <1>2, <1>4, <2>5 DEF AtWork
    <3>2. (\A q \in Commands : ~AtWork(command'[q], b)) => \A q \in Commands : ~AtWork(command[q], b)
      BY <1>6, <3>1
    <3> QED
      BY <2>1, <2>2, <2>3, <3>1, <3>2 DEF AttemptTold
  <2> QED
    BY <2>4, <2>5
<1> QED
  BY <1>9, <1>10 DEF TellInv

\* Every step of a recovery keeps what is told.
LEMMA TellStep == RecoverInv /\ TellInv /\ Recover!Next => TellInv'
<1> SUFFICES ASSUME RecoverInv, TellInv, Recover!Next PROVE TellInv'
  OBVIOUS
<1>1. ASSUME NEW k \in Recover!Launches, Recover!Bind(k) PROVE TellInv'
  <2>1. UNCHANGED <<attempt, outcome, command, failures>>
    BY <1>1 DEF Recover!Bind, Recover!records
  <2> QED
    BY <2>1, TellStays
<1>2. ASSUME NEW s \in Sessions,
             Recover!Observe(s) \/ Recover!Close(s) \/ Recover!Remove(s) \/ Recover!Disturb(s)
      PROVE  TellInv'
  <2>1. UNCHANGED <<attempt, outcome, command, failures>>
    BY <1>2 DEF Recover!Observe, Recover!Close, Recover!Remove, Recover!Disturb, Recover!records
  <2> QED
    BY <2>1, TellStays
<1>3. ASSUME Recover!Lapse PROVE TellInv'
  <2>1. UNCHANGED <<attempt, outcome, command, failures>>
    BY <1>3 DEF Recover!Lapse, Recover!records
  <2> QED
    BY <2>1, TellStays
<1> QED
  BY <1>1, <1>2, <1>3, TellPreview, TellBegins, TellEntry, TellLaunching, TellRecords,
     TellLaunched, TellCrash, TellFinish
     DEF Recover!Next

\* The two invariants imply that an attempt tells how its sessions ended.
LEMMA TellTrue == RecoverInv /\ TellInv => Recover!AttemptsTellOutcomes
<1> SUFFICES ASSUME RecoverInv, TellInv PROVE Recover!AttemptsTellOutcomes
  OBVIOUS
<1>1. ASSUME failures = 0, NEW a \in Attempts, Recover!Quiet(a), attempt[a].status # "none"
      PROVE  /\ attempt[a].status = "partial" <=>
                  \E s \in attempt[a].plan : outcome[a][s].status \in {"conflict", "failed"}
             /\ \A s \in attempt[a].plan : outcome[a][s].status \notin {"none", "launched"}
  <2>1. \A p \in Commands : ~AtWork(command[p], a)
    BY <1>1 DEF Recover!Quiet, AtWork
  <2>2. AttemptKnown(a) /\ AttemptTold(a)
    BY <1>1 DEF TellInv
  <2>3. \A s \in attempt[a].plan : outcome[a][s].status \notin {"none", "launched"}
    BY <1>1, <2>1, <2>2 DEF AttemptTold, Attended
  <2>4. attempt[a].plan \subseteq Sessions
    BY DEF RecoverInv, RecoverTypes, RecoverRows, AttemptRow
  <2>5. attempt[a].status = Recover!Summary(a)
    BY <1>1, <2>1, <2>2 DEF AttemptTold
  <2>6. \A s \in Sessions : outcome[a][s].status # "none" => s \in attempt[a].plan
    BY <2>2 DEF AttemptKnown
  <2> QED
    BY <2>3, <2>4, <2>5, <2>6 DEF Recover!Summary
<1> QED
  BY <1>1 DEF Recover!AttemptsTellOutcomes

-----------------------------------------------------------------------------
(* The drivers.                                                            *)

\* The invariant of whichever driver runs.
DriversInv ==
  /\ driver \in {"batch", "recovery", "request", "transcripts"}
  /\ driver = "batch" => BatchInv
  /\ driver = "recovery" => RecoverInv /\ TellInv
  /\ driver = "request" => AskInv

\* Where nothing is driven, the invariants stay.
LEMMA BatchStays == BatchInv /\ UNCHANGED driversVars => BatchInv'
<1> SUFFICES ASSUME BatchInv, UNCHANGED driversVars PROVE BatchInv'
  OBVIOUS
<1>1. UNCHANGED <<batch, child, session, intents, spawned, command>>
  BY DEF driversVars, ofBatch, ofLaunches
<1>2. Batch!StatusMatchesChildren' /\ Reached'
  BY <1>1, RowsStay DEF RowsWritten
<1>3. BatchTypes' /\ Founded' /\ BatchSpawned'
  BY <1>1 DEF BatchInv, BatchTypes, Founded, BatchSpawned
<1>4. BatchOpened'
  BY <1>1 DEF BatchInv, BatchOpened, BatchOpens, Batch!Launching
<1> QED
  BY <1>2, <1>3, <1>4 DEF BatchInv

\* The same of a recovery.
LEMMA RecoverStays == RecoverInv /\ TellInv /\ UNCHANGED driversVars => RecoverInv' /\ TellInv'
<1> SUFFICES ASSUME RecoverInv, TellInv, UNCHANGED driversVars PROVE RecoverInv' /\ TellInv'
  OBVIOUS
<1>1. UNCHANGED <<attempt, outcome, command, failures>>
  BY DEF driversVars, ofRecovery, ofLaunches
<1>2. UNCHANGED <<command, spawned, outcome, intents>>
  BY DEF driversVars, ofRecovery, ofLaunches
<1>3. UNCHANGED <<restore, checkout, attempt, outcome, invocations, failures>>
  BY DEF driversVars, ofRecovery, ofLaunches, ofSessions
<1> QED
  BY <1>1, <1>2, <1>3, RecoverRowsStay, RecoverSessions, TellStays

\* The same of requests.
LEMMA AskStays == AskInv /\ UNCHANGED driversVars => AskInv'
BY DEF driversVars, ofLaunches, AskInv, AskTypes, AskAlone, AskSpawned, AskKnows,
       Ask!RecordsAreTrue, AskCommand

\* Every driver starts as its invariant says.
LEMMA DriversStarting == DriversInit => DriversInv
BY BatchStarting, RecoverStarting, TellStarting, AskStarting DEF DriversInit, DriversInv

\* Every step of the driver that runs keeps its invariant.
LEMMA DriversStep == DriversInv /\ [DriversNext]_driversVars => DriversInv'
<1> SUFFICES ASSUME DriversInv, [DriversNext]_driversVars PROVE DriversInv'
  OBVIOUS
<1>1. CASE DriversNext
  BY <1>1, BatchStep, RecoverStep, TellStep, AskStep DEF DriversNext, DriversInv
<1>2. CASE UNCHANGED driversVars
  <2>1. driver' = driver
    BY <1>2 DEF driversVars
  <2> QED
    BY <1>2, <2>1, BatchStays, RecoverStays, AskStays DEF DriversInv
<1> QED
  BY <1>1, <1>2

\* Whoever starts, resumes, recovers and requests, however often, and wherever commands
\* crash, no terminal is spawned twice: that of a child of a batch, of a launch of an
\* attempt, of a request (execute_batch_launches, recover_entry,
\* execute_managed_session_request).
THEOREM OnceSpawned == DriversSpec => []SpawnedOnce
<1>1. DriversInv => SpawnedOnce
  BY BatchOnce, RecoverTrue, AskTrue DEF DriversInv, SpawnedOnce
<1> QED
  BY <1>1, DriversStarting, DriversStep, PTL DEF DriversSpec

\* The batch tells what its children are and a bound session stays within reach of the
\* next reconciliation (update_child, reconcile); what is recorded as restored was bound
\* by the launch of its attempt, and an attempt no failure has touched tells how its
\* sessions ended (record_outcome, finish_attempt); and a request is launched and bound
\* when its session is (record_session_launch, record_session_binding).
THEOREM TrueRecords == DriversSpec => [](driver # "transcripts" => RecordsAreTrue)
<1>1. DriversInv => (driver # "transcripts" => RecordsAreTrue)
  BY BatchOnce, RecoverTrue, TellTrue, AskTrue DEF DriversInv, RecordsAreTrue
<1> QED
  BY <1>1, DriversStarting, DriversStep, PTL DEF DriversSpec

==============================================================================
