-------------------------------- MODULE Daemon ---------------------------------
(***************************************************************************)
(* The optional daemon (daemon/src: main, endpoint, server, watcher).      *)
(*                                                                         *)
(* A daemon starts its listener and its writer, claims the endpoint of the *)
(* database with a lock of the operating system, publishes its address and *)
(* starts a watcher.  The writer handles one request after the other, of   *)
(* the listener and of the watcher, each of which waits for its answer.    *)
(* Nothing tells a daemon that runs to stop: it ends by being killed.      *)
(***************************************************************************)
EXTENDS Naturals, Sequences, FiniteSets

CONSTANTS Daemons,
          MaxStarts,       \* bound on starts of daemons
          MaxConnections,  \* bound on connections to all of them
          MaxChanges,      \* bound on changes of the watched transcripts
          MaxFaults        \* bound on failures and kills

\* "none" is what a lock has that nobody holds.
ASSUME DaemonsAssumption == "none" \notin Daemons

VARIABLES
  lock,       \* the lock files ever created: marked, and who holds the lock
  path,       \* the one at the path of the lock, 0 if none
  endpoint,   \* the start whose descriptor is published, 0 if none
  main,       \* the main thread of each daemon
  listener, writer, watcher,  \* its other threads
  queue,      \* requests of the listener and of the watcher
  changes,    \* number of changes of the transcripts
  seen,       \* how many of them the last refresh has read
  starts, connections, faults

files == <<lock, path, endpoint>>
threads == <<listener, writer, watcher, queue>>
bounds == <<starts, connections, faults>>
vars == <<files, main, threads, changes, seen, bounds>>

Off == [pc |-> "off", start |-> 0, inode |-> 0, created |-> FALSE, attempt |-> 0]
NoWriter == [pc |-> "none", for |-> "none", reads |-> 0]
NoWatcher == [pc |-> "none", events |-> FALSE, dirty |-> FALSE, watching |-> FALSE]

Init ==
  /\ lock = <<>> /\ path = 0 /\ endpoint = 0
  /\ main = [d \in Daemons |-> Off]
  /\ listener = [d \in Daemons |-> "none"]
  /\ writer = [d \in Daemons |-> NoWriter]
  /\ watcher = [d \in Daemons |-> NoWatcher]
  /\ queue = [d \in Daemons |-> <<>>]
  /\ changes = 0 /\ seen = [d \in Daemons |-> 0]
  /\ starts = 0 /\ connections = 0 /\ faults = 0

At(d, pc) == main[d].pc = pc
Goto(d, pc) == main' = [main EXCEPT ![d].pc = pc]
Unlock(d) == lock' = [lock EXCEPT ![main[d].inode].holder = "none"]

-----------------------------------------------------------------------------
(* The main thread: start, claim, watch, join.                             *)

StartServer(d) ==
  /\ At(d, "off") /\ starts < MaxStarts
  /\ starts' = starts + 1
  /\ main' = [main EXCEPT ![d] = [Off EXCEPT !.pc = "open", !.start = starts + 1]]
  /\ listener' = [listener EXCEPT ![d] = "accept"]
  /\ writer' = [writer EXCEPT ![d].pc = "idle"]
  /\ UNCHANGED <<files, watcher, queue, changes, seen, connections, faults>>

OpenLock(d) ==
  /\ At(d, "open")
  /\ IF path = 0
     THEN /\ lock' = Append(lock, [marked |-> FALSE, holder |-> "none"])
          /\ path' = Len(lock) + 1
     ELSE UNCHANGED <<lock, path>>
  /\ main' = [main EXCEPT ![d].pc = "try", ![d].inode = path', ![d].created = (path = 0)]
  /\ UNCHANGED <<endpoint, threads, changes, seen, bounds>>

\* The lock cannot be opened, tried or read.
LockFails(d) ==
  /\ main[d].pc \in {"open", "try", "check"} /\ faults < MaxFaults
  /\ faults' = faults + 1
  /\ lock' = IF At(d, "check") THEN [lock EXCEPT ![main[d].inode].holder = "none"] ELSE lock
  /\ Goto(d, "stop")
  /\ UNCHANGED <<path, endpoint, threads, changes, seen, starts, connections>>

\* A holder that has not published is given time, five times.
TryLock(d) ==
  LET held == lock[main[d].inode].holder # "none"
  IN  /\ At(d, "try")
      /\ \/ /\ ~held
            /\ lock' = [lock EXCEPT ![main[d].inode].holder = d]
            /\ Goto(d, IF main[d].created THEN "initialise" ELSE "check")
         \/ /\ held /\ endpoint = 0 /\ main[d].attempt < 4
            /\ main' = [main EXCEPT ![d].attempt = @ + 1]
            /\ UNCHANGED lock
         \/ /\ held /\ (endpoint # 0 \/ main[d].attempt = 4)
            /\ Goto(d, "stop") /\ UNCHANGED lock
      /\ UNCHANGED <<path, endpoint, threads, changes, seen, bounds>>

\* A lock file without the marker belongs to a daemon of an earlier release.
CheckMarker(d) ==
  /\ At(d, "check")
  /\ IF lock[main[d].inode].marked THEN Goto(d, "publish") /\ UNCHANGED lock
     ELSE Goto(d, "stop") /\ Unlock(d)
  /\ UNCHANGED <<path, endpoint, threads, changes, seen, bounds>>

InitialiseLock(d) ==
  /\ At(d, "initialise")
  /\ \/ /\ lock' = [lock EXCEPT ![main[d].inode].marked = TRUE]
        /\ Goto(d, "publish") /\ UNCHANGED faults
     \/ /\ faults < MaxFaults /\ faults' = faults + 1
        /\ \E marked \in BOOLEAN :
             lock' = [lock EXCEPT ![main[d].inode] = [marked |-> marked, holder |-> "none"]]
        /\ Goto(d, "unlink")
  /\ UNCHANGED <<path, endpoint, threads, changes, seen, starts, connections>>

RemoveLockFile(d) ==
  /\ At(d, "unlink")
  /\ path' = 0
  /\ Goto(d, "stop")
  /\ UNCHANGED <<lock, endpoint, threads, changes, seen, bounds>>

\* write_descriptor removes the old descriptor and renames the new one ...
RemoveDescriptor(d) ==
  /\ At(d, "publish")
  /\ \/ endpoint' = 0 /\ Goto(d, "rename") /\ UNCHANGED faults
     \/ /\ faults < MaxFaults /\ faults' = faults + 1
        /\ Goto(d, "release") /\ UNCHANGED endpoint
  /\ UNCHANGED <<lock, path, threads, changes, seen, starts, connections>>

RenameDescriptor(d) ==
  /\ At(d, "rename")
  /\ \/ /\ endpoint' = main[d].start
        /\ Goto(d, "watch") /\ UNCHANGED faults
     \/ /\ faults < MaxFaults /\ faults' = faults + 1
        /\ Goto(d, "release") /\ UNCHANGED endpoint
  /\ UNCHANGED <<lock, path, threads, changes, seen, starts, connections>>

\* Mistake: the lock is released before the descriptor is removed.
ReleaseFirst(d) ==
  \/ /\ At(d, "release")
     /\ Unlock(d) /\ Goto(d, "released")
     /\ UNCHANGED <<path, endpoint, threads, changes, seen, bounds>>
  \/ /\ At(d, "released")
     /\ endpoint' = 0 /\ Goto(d, "stop")
     /\ UNCHANGED <<lock, path, threads, changes, seen, bounds>>

\* Drop of EndpointRegistration, when publishing has failed.
Release(d) ==
  \/ /\ At(d, "release")
     /\ endpoint' = 0 /\ Goto(d, "released")
     /\ UNCHANGED <<lock, path, threads, changes, seen, bounds>>
  \/ /\ At(d, "released")
     /\ Unlock(d) /\ Goto(d, "stop")
     /\ UNCHANGED <<path, endpoint, threads, changes, seen, bounds>>

EnableWatcher(d) ==
  /\ At(d, "watch")
  /\ watcher' = [watcher EXCEPT ![d].pc = "register"]
  /\ Goto(d, "wait")
  /\ UNCHANGED <<files, listener, writer, queue, changes, seen, bounds>>

\* Mistake: a daemon that gives up does not tell its listener.
StoppingNobody(d) == FALSE

\* Drop of DaemonServer sets the flag, and joins.
Stopping(d) == main[d].pc \in {"stop", "drain"}

\* The join of the listener, and of the watcher if there is one, which has no
\* end while nothing sets the flag; then the server's own sender is dropped.
Join(d) ==
  /\ At(d, "stop")
  /\ listener[d] = "ended"
  /\ Goto(d, "drain")
  /\ UNCHANGED <<files, threads, changes, seen, bounds>>

Exit(d) ==
  /\ At(d, "drain")
  /\ writer[d].pc = "ended"
  /\ main' = [main EXCEPT ![d] = Off]
  /\ listener' = [listener EXCEPT ![d] = "none"]
  /\ writer' = [writer EXCEPT ![d] = NoWriter]
  /\ UNCHANGED <<files, watcher, queue, changes, seen, bounds>>

Main(d) ==
  \/ OpenLock(d) \/ LockFails(d) \/ TryLock(d) \/ CheckMarker(d) \/ InitialiseLock(d) \/ RemoveLockFile(d)
  \/ RemoveDescriptor(d) \/ RenameDescriptor(d) \/ Release(d) \/ EnableWatcher(d)
  \/ Join(d) \/ Exit(d)

-----------------------------------------------------------------------------
(* The listener serves one connection after the other.                     *)

Accept(d) ==
  /\ listener[d] = "accept" /\ ~Stopping(d)
  /\ connections < MaxConnections
  /\ connections' = connections + 1
  /\ listener' = [listener EXCEPT ![d] = "read"]
  /\ UNCHANGED <<files, main, writer, watcher, queue, changes, seen, starts, faults>>

\* A refresh is asked for; or the request is invalid, or does not come in time.
ReadRequest(d) ==
  /\ listener[d] = "read"
  /\ \/ /\ queue' = [queue EXCEPT ![d] = Append(@, "listener")]
        /\ listener' = [listener EXCEPT ![d] = "await"]
     \/ listener' = [listener EXCEPT ![d] = "accept"] /\ UNCHANGED queue
  /\ UNCHANGED <<files, main, writer, watcher, changes, seen, bounds>>

ListenerEnds(d) ==
  /\ listener[d] = "accept" /\ Stopping(d)
  /\ listener' = [listener EXCEPT ![d] = "ended"]
  /\ UNCHANGED <<files, main, writer, watcher, queue, changes, seen, bounds>>

\* accept fails in a way that is not transient.
AcceptFails(d) ==
  /\ listener[d] = "accept" /\ faults < MaxFaults
  /\ faults' = faults + 1
  /\ listener' = [listener EXCEPT ![d] = "ended"]
  /\ UNCHANGED <<files, main, writer, watcher, queue, changes, seen, starts, connections>>

-----------------------------------------------------------------------------
(* The writer.                                                             *)

TakeRequest(d) ==
  /\ writer[d].pc = "idle" /\ queue[d] # <<>>
  /\ writer' = [writer EXCEPT ![d] = [pc |-> "handle", for |-> Head(queue[d]), reads |-> changes]]
  /\ queue' = [queue EXCEPT ![d] = Tail(@)]
  /\ UNCHANGED <<files, main, listener, watcher, changes, seen, bounds>>

\* The refresh reads what there was when it began, or fails; the answer goes
\* to the thread that waits for it, and the watcher does not look at it.
HandleRequest(d) ==
  /\ writer[d].pc = "handle"
  /\ \/ seen' = [seen EXCEPT ![d] = writer[d].reads] /\ UNCHANGED faults
     \/ faults < MaxFaults /\ faults' = faults + 1 /\ UNCHANGED seen
  /\ writer' = [writer EXCEPT ![d] = [NoWriter EXCEPT !.pc = "idle"]]
  /\ IF writer[d].for = "listener"
     THEN listener' = [listener EXCEPT ![d] = "accept"] /\ UNCHANGED watcher
     ELSE watcher' = [watcher EXCEPT ![d].pc = "loop"] /\ UNCHANGED listener
  /\ UNCHANGED <<files, main, queue, changes, starts, connections>>

WriterEnds(d) ==
  /\ writer[d].pc = "idle" /\ At(d, "drain") /\ queue[d] = <<>>
  /\ writer' = [writer EXCEPT ![d].pc = "ended"]
  /\ UNCHANGED <<files, main, listener, watcher, queue, changes, seen, bounds>>

-----------------------------------------------------------------------------
(* The watcher.                                                            *)

\* register_roots may fail for a root, or find no directory there yet.
Refresh(d, watching, dirty) ==
  /\ watcher' = [watcher EXCEPT ![d].pc = "await", ![d].watching = watching, ![d].dirty = dirty]
  /\ queue' = [queue EXCEPT ![d] = Append(@, "watcher")]
  /\ UNCHANGED <<files, main, listener, writer, changes, seen, bounds>>

WatchLoop(d) ==
  /\ watcher[d].pc = "register"
  /\ \E watching \in BOOLEAN : Refresh(d, watching, FALSE)

ReceiveEvent(d) ==
  /\ watcher[d].pc = "loop" /\ watcher[d].events
  /\ watcher' = [watcher EXCEPT ![d].events = FALSE, ![d].dirty = TRUE]
  /\ UNCHANGED <<files, main, listener, writer, queue, changes, seen, bounds>>

\* The debounce has passed.
RefreshWhenQuiet(d) ==
  /\ watcher[d].pc = "loop" /\ watcher[d].dirty
  /\ Refresh(d, watcher[d].watching, FALSE)

\* Mistake: the refresh of each minute is made only if an event has come.
DueWhenDirty(d) == watcher[d].dirty

\* A minute has passed.
Due(d) == watcher[d].pc = "loop"

Reconcile(d) ==
  /\ watcher[d].pc = "loop" /\ Due(d)
  /\ \E watching \in {watcher[d].watching, TRUE} : Refresh(d, watching, watcher[d].dirty)

Server(d) ==
  \/ ReadRequest(d) \/ ListenerEnds(d)
  \/ TakeRequest(d) \/ HandleRequest(d) \/ WriterEnds(d)
  \/ WatchLoop(d) \/ ReceiveEvent(d) \/ RefreshWhenQuiet(d) \/ Reconcile(d)

-----------------------------------------------------------------------------
(* What happens around the daemons.                                        *)

\* A provider writes to a transcript; the event is delivered, if it is watched.
Change ==
  /\ changes < MaxChanges
  /\ changes' = changes + 1
  /\ watcher' = [d \in Daemons |-> [watcher[d] EXCEPT !.events = @ \/ watcher[d].watching]]
  /\ UNCHANGED <<files, main, listener, writer, queue, seen, bounds>>

\* The process is killed; the system releases its lock, its descriptor stays.
Kill(d) ==
  /\ ~At(d, "off") /\ faults < MaxFaults
  /\ faults' = faults + 1
  /\ lock' = [i \in DOMAIN lock |-> IF lock[i].holder = d THEN [lock[i] EXCEPT !.holder = "none"]
                                    ELSE lock[i]]
  /\ main' = [main EXCEPT ![d] = Off]
  /\ listener' = [listener EXCEPT ![d] = "none"]
  /\ writer' = [writer EXCEPT ![d] = NoWriter]
  /\ watcher' = [watcher EXCEPT ![d] = NoWatcher]
  /\ queue' = [queue EXCEPT ![d] = <<>>]
  /\ seen' = [seen EXCEPT ![d] = 0]
  /\ UNCHANGED <<path, endpoint, changes, starts, connections>>

Next ==
  \/ Change
  \/ \E d \in Daemons :
       StartServer(d) \/ Main(d) \/ Server(d) \/ Accept(d) \/ AcceptFails(d) \/ Kill(d)

\* Each thread of a running daemon goes on; a read has its timeout, and time passes.
Fairness ==
  \A d \in Daemons :
    /\ WF_vars(Main(d))
    /\ WF_vars(ReadRequest(d) \/ ListenerEnds(d))
    /\ WF_vars(TakeRequest(d) \/ HandleRequest(d) \/ WriterEnds(d))
    /\ WF_vars(WatchLoop(d) \/ ReceiveEvent(d) \/ RefreshWhenQuiet(d))
    /\ WF_vars(Reconcile(d))

Spec == Init /\ [][Next]_vars
FairSpec == Spec /\ Fairness

-----------------------------------------------------------------------------
(* Properties.                                                             *)

MainPcs == {"off", "open", "try", "check", "initialise", "unlink", "publish", "rename",
            "release", "released", "watch", "wait", "stop", "drain"}

\* Every file, thread and queue keeps to its values.
TypeOK ==
  /\ \A i \in DOMAIN lock : lock[i].marked \in BOOLEAN /\ lock[i].holder \in Daemons \cup {"none"}
  /\ path \in 0..Len(lock) /\ endpoint \in 0..MaxStarts
  /\ main \in [Daemons -> [pc : MainPcs, start : 0..MaxStarts, inode : 0..MaxStarts,
                           created : BOOLEAN, attempt : 0..4]]
  /\ listener \in [Daemons -> {"none", "accept", "read", "await", "ended"}]
  /\ writer \in [Daemons -> [pc : {"none", "idle", "handle", "ended"},
                             for : {"none", "listener", "watcher"}, reads : 0..MaxChanges]]
  /\ watcher \in [Daemons -> [pc : {"none", "register", "await", "loop"}, events : BOOLEAN,
                              dirty : BOOLEAN, watching : BOOLEAN]]
  /\ \A d \in Daemons : Len(queue[d]) <= 2 /\ seen[d] \in 0..MaxChanges

\* As long as nobody has removed the lock file, the descriptor is that of the
\* daemon that runs: no daemon that fails or starts removes or replaces it.
EndpointNamesOwner ==
  path = 1 => \A d \in Daemons : At(d, "wait") => endpoint = main[d].start

\* A daemon that could not claim the endpoint stops all its threads and exits,
\* whatever connection it is serving.
LosersExit == \A d \in Daemons : At(d, "stop") ~> At(d, "off")

\* Every change of the transcripts is read by a refresh that began after it,
\* although events are lost, arrive during a refresh, and refreshes fail with
\* nobody looking at their outcome.
ChangesAreRefreshed ==
  \A d \in Daemons, n \in 1..MaxChanges :
    (At(d, "wait") /\ changes >= n) ~> (seen[d] >= n \/ ~At(d, "wait"))

\* Only one daemon runs for a database ("another workboardd instance already
\* owns this Workboard store"): violated when the marker is written and then
\* not synced, since the file is removed after its lock is released.
OneOwner == \A d, e \in Daemons : At(d, "wait") /\ At(e, "wait") => d = e

\* A lock file without the marker is being initialised ("a legacy workboardd
\* lock"): violated by a daemon that is killed before it writes the marker, and
\* no daemon can start again.
UnmarkedIsBeingMade ==
  path # 0 /\ ~lock[path].marked =>
    \E d \in Daemons : main[d].inode = path /\ main[d].pc \in {"try", "initialise", "unlink"}

\* The daemon that runs listens: violated when accept fails, since the main
\* thread then waits for a watcher that nobody tells to stop.
RunningListens == \A d \in Daemons : At(d, "wait") => listener[d] # "ended"

=============================================================================
