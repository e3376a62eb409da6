------------------------------- MODULE AppServer -------------------------------
(***************************************************************************)
(* Calls of the Codex app-server (adapter-codex/app_server.rs).            *)
(*                                                                         *)
(* A call starts a server of its own, writes requests to its input and     *)
(* waits for each answer, and stops it again.  A thread reads the server's *)
(* output into a channel that holds one message.  Calls hand a follow-up   *)
(* message over, look whether it was handed over before, or list the       *)
(* threads, which is tried again.  The provider is not to be relied on:    *)
(* it may say anything at any time, be silent, hang or exit, and its       *)
(* thread goes on between calls.                                           *)
(***************************************************************************)
EXTENDS Naturals, Sequences, FiniteSets

CONSTANTS Threads,      \* threads the server may list
          MaxMessages,  \* limits.max_messages
          MaxPages,     \* limits.max_pages
          MaxThreads,   \* limits.max_threads
          Restarts,     \* limits.restart_attempts
          PageTurns,    \* turns of the page that is asked for to find a message
          MaxServerCalls, MaxSpoken, MaxTurns   \* bounds on calls, messages and turns

VARIABLES
  call,      \* the call: what it is doing and has learnt
  output,    \* the thread that reads the server's output
  channel,   \* its channel, of one message
  connected, \* does the call still hold the channel's other end?
  server,    \* the server's process
  inbox,     \* requests it has not read
  out,       \* messages of its output that were not read
  accepted,  \* the calls whose message the provider has accepted
  turns,     \* turns that began after the one that has it
  calls, spoken

serverVars == <<call, output, channel, connected, server, inbox, out, accepted, turns, calls,
                spoken>>
pipes == <<output, channel, connected, server, inbox, out>>
provider == <<accepted, turns>>

None == "none"
NoServerCall == [pc |-> "idle", kind |-> None, step |-> None, id |-> 0, attempt |-> 0, received |-> 0,
                 pages |-> 0, seen |-> {}, left |-> {}, fits |-> TRUE, result |-> None]
NoOutput == [pc |-> "none", holds |-> None]
Other(kind) == [kind |-> kind, id |-> 0, value |-> None]
Eof == Other("eof")

Init ==
  /\ call = NoServerCall
  /\ output = NoOutput /\ channel = <<>> /\ connected = FALSE
  /\ server = "none" /\ inbox = <<>> /\ out = <<>>
  /\ accepted = {} /\ turns = 0
  /\ calls = 0 /\ spoken = 0

At(pc) == call.pc = pc
Goto(pc) == call' = [call EXCEPT !.pc = pc]

\* The result of the exchange; whatever it is, the server is then stopped.
Close(result) == call' = [call EXCEPT !.pc = "close", !.result = result]

-----------------------------------------------------------------------------
(* start and request.                                                      *)

\* send_follow_up, whose message fits in the pipe or not, reconcile_follow_up or discover.
StartCall(kind) ==
  /\ At("idle") /\ calls < MaxServerCalls
  /\ calls' = calls + 1
  /\ \E fits \in BOOLEAN :
       /\ kind = "send" \/ fits
       /\ call' = [NoServerCall EXCEPT !.pc = "start", !.kind = kind, !.fits = fits]
  /\ UNCHANGED <<pipes, provider, spoken>>

\* Connection::start.
StartServer ==
  /\ At("start")
  /\ server' = "runs" /\ inbox' = <<>> /\ out' = <<>>
  /\ output' = [pc |-> "read", holds |-> None]
  /\ channel' = <<>> /\ connected' = TRUE
  /\ call' = [call EXCEPT !.pc = "write", !.step = "initialize", !.id = 1, !.received = 0,
                          !.pages = 0, !.seen = {}, !.left = {}, !.result = None]
  /\ UNCHANGED <<provider, calls, spoken>>

StartFails ==
  /\ At("start")
  /\ call' = [call EXCEPT !.pc = "closed", !.result = "rejected"]
  /\ UNCHANGED <<pipes, provider, calls, spoken>>

\* A request that stays in the pipe only in part until the server reads it.
Large == call.step = "input" /\ ~call.fits

\* Connection::send: a server that has ended cannot be written to.
WriteRequest ==
  /\ At("write")
  /\ \/ /\ server = "runs" /\ ~Large
        /\ inbox' = Append(inbox, [id |-> call.id, step |-> call.step])
        /\ Goto("wait")
     \/ server = "ended" /\ Close("rejected") /\ UNCHANGED inbox
  /\ UNCHANGED <<output, channel, connected, server, out, provider, calls, spoken>>

\* A request that does not fit is written while the server reads it.
WriteWithServer ==
  /\ At("write") /\ server = "runs" /\ Large
  /\ inbox' = Append(inbox, [id |-> call.id, step |-> call.step])
  /\ Goto("wait")
  /\ UNCHANGED <<output, channel, connected, server, out, provider, calls, spoken>>

\* Mistake: a request waits for as long as its server runs.
TimeOutNever == At("wait") /\ server = "ended" /\ Close("uncertain")
               /\ UNCHANGED <<pipes, provider, calls, spoken>>

\* The answer has not come within the time of a request.
TimeOut ==
  /\ At("wait")
  /\ Close("uncertain")
  /\ UNCHANGED <<pipes, provider, calls, spoken>>

\* The next request has the next id.
Ask(step) == call' = [call EXCEPT !.pc = "write", !.step = step, !.id = @ + 1,
                                  !.received = @ + 1]

\* discover_inner: the pages of the list, each of threads that were not on another one.
Listed(value) ==
  LET again == value.threads \cap call.seen # {}
      many == Cardinality(call.seen \cup value.threads) > MaxThreads
      seen == call.seen \cup value.threads
  IN  \/ (again \/ many) /\ Close("rejected")
      \/ /\ ~again /\ ~many /\ value.more
         /\ IF call.pages + 1 = MaxPages THEN Close("rejected")
            ELSE call' = [call EXCEPT !.pc = "write", !.id = @ + 1, !.received = @ + 1,
                                      !.pages = @ + 1, !.seen = seen]
      \/ /\ ~again /\ ~many /\ ~value.more
         /\ IF seen = {} THEN Close("listed")
            ELSE call' = [call EXCEPT !.pc = "write", !.step = "read", !.id = @ + 1,
                                      !.received = @ + 1, !.seen = seen, !.left = seen]

Answered(value) ==
  CASE call.step = "initialize" -> Ask(IF call.kind = "discover" THEN "list" ELSE "resume")
    [] call.step = "resume" /\ call.kind = "send" ->
         IF value = "ready" THEN Ask("input") ELSE Close("rejected")
    [] call.step = "resume" /\ call.kind = "reconcile" -> Close(value)
    [] call.step = "input" -> Close("delivered")
    [] call.step = "list" -> Listed(value)
    [] call.step = "read" ->
         \E t \in call.left :
           IF value # t THEN Close("rejected")
           ELSE IF call.left = {t} THEN Close("listed")
           ELSE call' = [call EXCEPT !.pc = "write", !.id = @ + 1, !.received = @ + 1,
                                     !.left = @ \ {t}]

\* Mistake: an answer is taken whatever request it answers.
AnswersCall(m) == m.id = call.id \/ call.step \in {"resume", "input"}

\* The id of the answer is that of the request.
IsAnswer(m) == m.id = call.id

\* Connection::request takes the next message of the server.
Receive ==
  LET m == Head(channel)
  IN  /\ At("wait") /\ channel # <<>>
      /\ channel' = <<>>
      /\ CASE m = Eof -> Close("uncertain")
           [] m.kind = "broken" -> Close("rejected")
           [] m.kind \notin {"eof", "broken"} /\ call.received = MaxMessages -> Close("rejected")
           [] m.kind = "notice" /\ call.received < MaxMessages ->
                call' = [call EXCEPT !.received = @ + 1]
           [] m.kind = "answer" /\ call.received < MaxMessages ->
                IF IsAnswer(m) THEN Answered(m.value) ELSE Close("rejected")
           [] OTHER -> Close("rejected")
      /\ UNCHANGED <<output, connected, server, inbox, out, provider, calls, spoken>>

-----------------------------------------------------------------------------
(* The thread that reads the output.                                       *)

\* read_bounded_line; a message that is too long is an error and read on, and an empty
\* line is taken for the end of the output.
ReadOutput ==
  /\ output.pc = "read"
  /\ \/ /\ out # <<>>
        /\ output' = [pc |-> "full", holds |-> IF Head(out).kind = "blank" THEN Eof ELSE Head(out)]
        /\ out' = Tail(out)
     \/ /\ out = <<>> /\ server = "ended"
        /\ output' = [pc |-> "full", holds |-> Eof]
        /\ UNCHANGED out
  /\ UNCHANGED <<call, channel, connected, server, inbox, provider, calls, spoken>>

\* The channel takes a message when it is empty, and none when nobody holds its end.
PutOutput ==
  /\ output.pc = "full"
  /\ \/ /\ connected /\ channel = <<>>
        /\ channel' = <<output.holds>>
        /\ output' = [NoOutput EXCEPT !.pc = IF output.holds = Eof THEN "none" ELSE "read"]
     \/ ~connected /\ output' = NoOutput /\ UNCHANGED channel
  /\ UNCHANGED <<call, connected, server, inbox, out, provider, calls, spoken>>

-----------------------------------------------------------------------------
(* shutdown.                                                               *)

\* The server's input is closed, and the channel dropped.
DropChannel ==
  /\ At("close")
  /\ connected' = FALSE /\ channel' = <<>>
  /\ Goto("stop")
  /\ UNCHANGED <<output, server, inbox, out, provider, calls, spoken>>

\* The server has ended, or is killed after its time.
StopServer ==
  /\ At("stop")
  /\ server' = "ended" /\ inbox' = <<>>
  /\ Goto("join")
  /\ UNCHANGED <<output, channel, connected, out, provider, calls, spoken>>

\* Both readers have ended.  Too much on its error output spoils a result.
Join ==
  /\ At("join") /\ output.pc = "none"
  /\ \E spoilt \in BOOLEAN :
       call' = [call EXCEPT !.pc = "closed",
                  !.result = IF spoilt /\ @ \notin {"uncertain"} THEN "rejected" ELSE @]
  /\ server' = "none" /\ out' = <<>>
  /\ UNCHANGED <<output, channel, connected, inbox, provider, calls, spoken>>

\* discover tries again after a failure; the other calls return it.
Return ==
  /\ At("closed")
  /\ \/ /\ call.kind = "discover" /\ call.result \in {"rejected", "uncertain"}
        /\ call.attempt < Restarts
        /\ call' = [NoServerCall EXCEPT !.pc = "start", !.kind = "discover",
                                        !.attempt = call.attempt + 1]
     \/ /\ call.kind # "discover" \/ call.result = "listed" \/ call.attempt = Restarts
        /\ Goto("returned")
  /\ UNCHANGED <<pipes, provider, calls, spoken>>

\* The caller has taken the result.
TakeResult ==
  /\ At("returned")
  /\ call' = NoServerCall
  /\ UNCHANGED <<pipes, provider, calls, spoken>>

-----------------------------------------------------------------------------
(* The provider.                                                           *)

Say(m) == spoken < MaxSpoken /\ spoken' = spoken + 1 /\ out' = Append(out, m)

\* What a request may be answered with.  A message is found if its turn is on the page.
Answers(step) ==
  CASE step = "initialize" -> {None}
    [] step = "resume" /\ call.kind = "send" -> {"ready", "unable"}
    [] step = "resume" /\ call.kind # "send" ->
         {IF accepted # {} /\ turns < PageTurns THEN "found" ELSE "absent"}
    [] step = "input" -> {None}
    [] step = "list" ->
         [threads : {s \in SUBSET Threads : Cardinality(s) <= 1}, more : BOOLEAN]
    [] step = "read" -> Threads

\* It reads a request and does what it asks, and answers, refuses, or says nothing.
Serve ==
  LET r == Head(inbox)
  IN  /\ server = "runs" /\ inbox # <<>>
      /\ inbox' = Tail(inbox)
      /\ \/ /\ \E v \in Answers(r.step) : Say([kind |-> "answer", id |-> r.id, value |-> v])
            /\ IF r.step = "input" THEN accepted' = accepted \cup {calls} /\ turns' = 0
               ELSE UNCHANGED provider
         \/ Say([kind |-> "error", id |-> r.id, value |-> None]) /\ UNCHANGED provider
         \/ /\ UNCHANGED <<out, spoken>>
            /\ \/ r.step = "input" /\ accepted' = accepted \cup {calls} /\ turns' = 0
               \/ UNCHANGED provider
      /\ UNCHANGED <<call, output, channel, connected, server, calls>>

\* It says something nobody asked for: a notification, an answer to something else (or a
\* request of its own, or what is no message), something too long, or an empty line.
Babble ==
  /\ server = "runs"
  /\ \E kind \in {"notice", "answer", "broken", "blank"} : Say(Other(kind))
  /\ UNCHANGED <<call, output, channel, connected, server, inbox, provider, calls>>

Exit ==
  /\ server = "runs"
  /\ server' = "ended" /\ inbox' = <<>>
  /\ UNCHANGED <<call, output, channel, connected, out, provider, calls, spoken>>

\* The thread goes on with another turn.
NextTurn ==
  /\ accepted # {} /\ turns < MaxTurns
  /\ turns' = turns + 1
  /\ UNCHANGED <<call, pipes, accepted, calls, spoken>>

Client ==
  \/ StartServer \/ StartFails \/ WriteRequest \/ TimeOut \/ Receive
  \/ DropChannel \/ StopServer \/ Join \/ Return \/ TakeResult

Output == ReadOutput \/ PutOutput

Next ==
  \/ \E kind \in {"send", "reconcile", "discover"} : StartCall(kind)
  \/ Client \/ Output
  \/ WriteWithServer \/ Serve \/ Babble \/ Exit \/ NextTurn

\* Both threads of the program run; nothing is asked of the server.
Spec == Init /\ [][Next]_serverVars
Fairness == WF_serverVars(Client) /\ WF_serverVars(Output)

-----------------------------------------------------------------------------
(* Properties.                                                             *)

\* A receipt, of a call that hands a message over or finds it, is for a message that
\* the provider has accepted.
ReceiptsAreTrue ==
  At("returned") => /\ call.result = "delivered" => calls \in accepted
                    /\ call.result = "found" => accepted # {}

\* Every call returns, whatever the server says, and if it is silent, hangs or exits; only
\* the time of writing to a server that does not read is not limited.
CallsReturn ==
  []<>(At("idle") \/ At("returned") \/ (At("write") /\ Large /\ server = "runs"))

\* A call that is rejected has not handed the message over.  Checked by hand and
\* violated: an answer that is not understood, a request of the server, or too much on
\* its error output after the message was accepted.
RejectedIsNotAccepted ==
  At("returned") /\ call.result = "rejected" => calls \notin accepted

\* A message that was accepted is found.  Checked by hand and violated: it is looked for
\* in the latest turns of the thread alone.
AcceptedIsFound == At("returned") /\ call.result = "absent" => accepted = {}
=============================================================================
