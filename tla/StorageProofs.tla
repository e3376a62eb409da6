----------------------------- MODULE StorageProofs -----------------------------
(***************************************************************************)
(* Proofs about the daemon's endpoint, the upgrade of a database and the   *)
(* imports into it, for every number of daemons, processes, batches,       *)
(* repositories, catalogues, plans and sessions and for every bound.       *)
(*                                                                         *)
(* The daemon's descriptor is only written under the lock of a lock file,  *)
(* so it is enough to know that a daemon holds the lock of the file it has *)
(* opened from the moment it has it until it stops, and that, as long as   *)
(* the first file is the one at the path, there is no other to hold.       *)
(*                                                                         *)
(* What the upgrade settles is true because of the order of the            *)
(* migrations.  A process whose list of migrations is older than the       *)
(* database still has the attestations before the audit on it, and what    *)
(* it has captured of a batch is what was imported, since nobody else has  *)
(* given the batch an owner before the repair (OwnersInv).  What is        *)
(* finalized is then evidence of a whole import, and the triggers of the   *)
(* version keep every row it rests on (EvidenceInv).                       *)
(*                                                                         *)
(* An import decides outside of its transaction.  It is right all the same *)
(* because what it has read can only become true: an id that names a       *)
(* session names it for good (CatalogueInv), and a document at a path      *)
(* stays there, staged and committed as it was written (EpicsInv).         *)
(***************************************************************************)
EXTENDS Daemon, MCStorageUpgrade, MCImports, TLAPS

-----------------------------------------------------------------------------
(* The daemon.                                                             *)

\* From the lock it has taken until it stops, a daemon has the lock.
Holding == {"check", "initialise", "publish", "rename", "watch", "wait", "release", "released"}

\* The states of a daemon that has opened the lock file.
Opening == Holding \cup {"try", "unlink"}

LockFile == [marked : BOOLEAN, holder : Daemons \cup {"none"}]
MainThread == [pc : MainPcs, start : Nat, inode : Nat, created : BOOLEAN, attempt : Nat]

\* The files and the main threads keep to their values, and the file at the
\* path is the last one created.
Typed ==
  /\ lock \in Seq(LockFile)
  /\ path \in {0, Len(lock)}
  /\ main \in [Daemons -> MainThread]
  /\ starts \in Nat

\* A daemon that works with a lock file works with one there is.
Opened == \A d \in Daemons : main[d].pc \in Opening => main[d].inode \in 1..Len(lock)

\* A daemon in Holding has the lock of its file.
Held ==
  \A d \in Daemons : main[d].pc \in Holding => lock[main[d].inode].holder = d

\* While the first lock file is at the path, a daemon that has published finds
\* its own descriptor.
Named ==
  path = 1 => \A d \in Daemons : main[d].pc \in {"watch", "wait"} => endpoint = main[d].start

\* The inductive invariant.
EndpointInv == Typed /\ Opened /\ Held /\ Named

-----------------------------------------------------------------------------

\* No two daemons are in Holding while the first lock file is at the path.
LEMMA OneHolder ==
  ASSUME EndpointInv, path = 1,
         NEW d \in Daemons, NEW e \in Daemons,
         main[d].pc \in Holding, main[e].pc \in Holding
  PROVE  d = e
<1>1. Len(lock) = 1
  BY DEF EndpointInv, Typed
<1>2. main[d].inode = 1 /\ main[e].inode = 1
  BY <1>1 DEF EndpointInv, Opened, Opening
<1> QED
  BY <1>2 DEF EndpointInv, Held

\* A step that leaves the files and the main threads alone leaves the
\* invariant alone.
LEMMA FilesAsTheyAre ==
  ASSUME EndpointInv, UNCHANGED <<files, main, starts>>
  PROVE  EndpointInv'
BY DEF EndpointInv, Typed, Opened, Held, Named, files

\* Steps of the threads of the server, and of what is around the daemons.
LEMMA ServerIdle ==
  ASSUME NEW d \in Daemons, Server(d) \/ Accept(d) \/ AcceptFails(d) \/ Change
  PROVE  UNCHANGED <<files, main, starts>>
<1>1. CASE Server(d)
  <2>1. CASE ReadRequest(d) BY <2>1 DEF ReadRequest, bounds
  <2>2. CASE ListenerEnds(d) BY <2>2 DEF ListenerEnds, bounds
  <2>3. CASE TakeRequest(d) BY <2>3 DEF TakeRequest, bounds
  <2>4. CASE HandleRequest(d) BY <2>4 DEF HandleRequest, bounds
  <2>5. CASE WriterEnds(d) BY <2>5 DEF WriterEnds, bounds
  <2>6. CASE WatchLoop(d) BY <2>6 DEF WatchLoop, Refresh, bounds
  <2>7. CASE ReceiveEvent(d) BY <2>7 DEF ReceiveEvent, bounds
  <2>8. CASE RefreshWhenQuiet(d) BY <2>8 DEF RefreshWhenQuiet, Refresh, bounds
  <2>9. CASE Reconcile(d) BY <2>9 DEF Reconcile, Refresh, bounds
  <2> QED
    BY <1>1, <2>1, <2>2, <2>3, <2>4, <2>5, <2>6, <2>7, <2>8, <2>9 DEF Server
<1>2. CASE Accept(d) BY <1>2 DEF Accept
<1>3. CASE AcceptFails(d) BY <1>3 DEF AcceptFails
<1>4. CASE Change BY <1>4 DEF Change, bounds
<1> QED
  BY <1>1, <1>2, <1>3, <1>4

\* One daemon's main thread moves, and at most the holder and the marker of its
\* own lock file change, as they may.
LEMMA OwnStep ==
  ASSUME EndpointInv,
         NEW d \in Daemons, NEW m \in MainThread,
         main' = [main EXCEPT ![d] = m],
         lock' \in Seq(LockFile), Len(lock') = Len(lock),
         path' = path, starts' \in Nat,
         m.pc \in Opening => m.inode \in 1..Len(lock),
         m.pc \in Holding => lock'[m.inode].holder = d,
         \A i \in 1..Len(lock) : lock[i].holder \notin {d, "none"} => lock'[i].holder = lock[i].holder,
         Named'
  PROVE  EndpointInv'
<1> USE DEF EndpointInv
<1>1. Typed'
  BY DEF Typed
<1>2. \A e \in Daemons : main'[e] = IF e = d THEN m ELSE main[e]
  BY DEF Typed
<1>3. Opened'
  BY <1>2 DEF Opened
<1>4. Held'
  <2> SUFFICES ASSUME NEW e \in Daemons, main'[e].pc \in Holding
               PROVE  lock'[main'[e].inode].holder = e
    BY DEF Held
  <2>1. CASE e = d
    BY <2>1, <1>2
  <2>2. CASE e # d
    <3>1. main'[e] = main[e]
      BY <2>2, <1>2
    <3>2. main[e].inode \in 1..Len(lock) /\ lock[main[e].inode].holder = e
      BY <3>1 DEF Opened, Held, Opening
    <3> QED
      BY <3>1, <3>2, <2>2, DaemonsAssumption
  <2> QED
    BY <2>1, <2>2
<1> QED
  BY <1>1, <1>3, <1>4

\* A main thread that moves without writing the descriptor.
LEMMA NamedStays ==
  ASSUME EndpointInv,
         NEW d \in Daemons, NEW m \in MainThread,
         main' = [main EXCEPT ![d] = m], path' = path, endpoint' = endpoint,
         m.pc \in {"watch", "wait"} => main[d].pc = "watch" /\ m.start = main[d].start
  PROVE  Named'
<1>1. \A e \in Daemons : main'[e] = IF e = d THEN m ELSE main[e]
  BY DEF EndpointInv, Typed
<1> QED
  BY <1>1 DEF EndpointInv, Named

\* The daemon in Holding may write the descriptor: while the first lock file is
\* at the path, nobody else has published.
LEMMA NamedWritten ==
  ASSUME EndpointInv,
         NEW d \in Daemons, NEW m \in MainThread,
         main' = [main EXCEPT ![d] = m], path' = path,
         main[d].pc \in Holding,
         m.pc \in {"watch", "wait"} => endpoint' = m.start
  PROVE  Named'
<1>1. \A e \in Daemons : main'[e] = IF e = d THEN m ELSE main[e]
  BY DEF EndpointInv, Typed
<1> SUFFICES ASSUME path = 1, NEW e \in Daemons, main'[e].pc \in {"watch", "wait"}
             PROVE  endpoint' = main'[e].start
  BY DEF Named
<1>2. CASE e = d
  BY <1>1, <1>2
<1>3. CASE e # d
  <2>1. main[e].pc \in Holding
    BY <1>1, <1>3 DEF Holding
  <2> QED
    BY <2>1, <1>3, OneHolder
<1> QED
  BY <1>2, <1>3

\* What becomes of the lock files when one of them changes.
LEMMA LockWritten ==
  ASSUME NEW L \in Seq(LockFile), NEW i \in 1..Len(L), NEW f \in LockFile
  PROVE  /\ [L EXCEPT ![i] = f] \in Seq(LockFile)
         /\ Len([L EXCEPT ![i] = f]) = Len(L)
         /\ \A j \in 1..Len(L) : [L EXCEPT ![i] = f][j] = IF j = i THEN f ELSE L[j]
OBVIOUS

\* The same, of its holder.
LEMMA HolderWritten ==
  ASSUME NEW L \in Seq(LockFile), NEW i \in 1..Len(L), NEW h \in Daemons \cup {"none"}
  PROVE  /\ [L EXCEPT ![i].holder = h] \in Seq(LockFile)
         /\ Len([L EXCEPT ![i].holder = h]) = Len(L)
         /\ [L EXCEPT ![i].holder = h][i].holder = h
         /\ \A j \in 1..Len(L) : j # i => [L EXCEPT ![i].holder = h][j] = L[j]
<1>1. L[i] \in LockFile
  OBVIOUS
<1>2. [L[i] EXCEPT !.holder = h] \in LockFile /\ [L[i] EXCEPT !.holder = h].holder = h
  BY <1>1 DEF LockFile
<1>3. [L EXCEPT ![i].holder = h] = [L EXCEPT ![i] = [L[i] EXCEPT !.holder = h]]
  OBVIOUS
<1> QED
  BY <1>2, <1>3, LockWritten

\* A main thread that goes to another state keeps the rest.
LEMMA Gone ==
  ASSUME EndpointInv, NEW d \in Daemons, NEW pc \in MainPcs, Goto(d, pc)
  PROVE  \E m \in MainThread :
           /\ main' = [main EXCEPT ![d] = m]
           /\ m.pc = pc /\ m.inode = main[d].inode /\ m.start = main[d].start
<1> DEFINE m == [main[d] EXCEPT !.pc = pc]
<1>1. main[d] \in MainThread
  BY DEF EndpointInv, Typed
<1>2. m \in MainThread /\ m.pc = pc /\ m.inode = main[d].inode /\ m.start = main[d].start
  BY <1>1 DEF MainThread
<1>3. main' = [main EXCEPT ![d] = m]
  BY DEF Goto
<1> QED
  BY <1>2, <1>3

\* A main thread that starts.
LEMMA StartedThread ==
  ASSUME NEW m \in MainThread, NEW n \in Nat
  PROVE  LET s == [m EXCEPT !.pc = "open", !.start = n]
         IN  s \in MainThread /\ s.pc = "open"
BY DEF MainThread, MainPcs

\* A main thread that has opened a lock file.
LEMMA OpenedThread ==
  ASSUME NEW m \in MainThread, NEW i \in Nat, NEW c \in BOOLEAN
  PROVE  LET n == [m EXCEPT !.pc = "try", !.inode = i, !.created = c]
         IN  n \in MainThread /\ n.pc = "try" /\ n.inode = i
BY DEF MainThread, MainPcs

\* A lock file that nobody holds.
LEMMA Unheld ==
  ASSUME NEW f \in LockFile
  PROVE  [f EXCEPT !.holder = "none"] \in LockFile
BY DEF LockFile

-----------------------------------------------------------------------------

\* In the beginning there is no lock file and no daemon.
LEMMA Starting == Init => EndpointInv
BY SMTT(30) DEF Init, EndpointInv, Typed, Opened, Held, Named, Off, MainThread, MainPcs, Opening, Holding, LockFile

\* A daemon that starts its server.
LEMMA StartStep ==
  ASSUME EndpointInv, NEW d \in Daemons, StartServer(d)
  PROVE  EndpointInv'
<1> DEFINE m == [Off EXCEPT !.pc = "open", !.start = starts + 1]
<1>1. /\ main' = [main EXCEPT ![d] = m]
      /\ UNCHANGED files /\ starts' = starts + 1
  BY DEF StartServer
<1>2. m \in MainThread /\ m.pc = "open"
  <2>1. starts + 1 \in Nat
    BY DEF EndpointInv, Typed
  <2>2. Off \in MainThread
    BY DEF Off, MainThread, MainPcs
  <2> QED
    BY <2>1, <2>2, StartedThread
<1>3. m.pc \notin Opening /\ m.pc \notin Holding /\ m.pc \notin {"watch", "wait"}
  BY <1>2 DEF Opening, Holding
<1> HIDE DEF m
<1>4. Named'
  BY <1>1, <1>2, <1>3, NamedStays DEF files
<1>5. lock \in Seq(LockFile) /\ starts' \in Nat
  BY <1>1 DEF EndpointInv, Typed
<1> QED
  BY <1>1, <1>2, <1>3, <1>4, <1>5, OwnStep DEF files

\* A daemon that opens the lock file: the only step that creates one, when none
\* is at the path.
LEMMA DaemonOpens ==
  ASSUME EndpointInv, NEW d \in Daemons, OpenLock(d)
  PROVE  EndpointInv'
<1> DEFINE m == [main[d] EXCEPT !.pc = "try", !.inode = path', !.created = (path = 0)]
<1>1. main' = [main EXCEPT ![d] = m] /\ endpoint' = endpoint /\ starts' = starts
  BY DEF OpenLock, bounds
<1>2. main[d] \in MainThread /\ path \in {0, Len(lock)} /\ lock \in Seq(LockFile)
  BY DEF EndpointInv, Typed
<1>3. CASE path # 0
  <2>1. path' = path /\ lock' = lock
    BY <1>3 DEF OpenLock
  <2>2. m \in MainThread /\ m.pc = "try" /\ m.inode = path
    <3>1. path' \in Nat
      BY <1>2, <2>1
    <3>2. (path = 0) \in BOOLEAN
      OBVIOUS
    <3>3. m \in MainThread /\ m.pc = "try" /\ m.inode = path'
      BY <1>2, <3>1, <3>2, OpenedThread, Zenon
    <3> HIDE DEF m
    <3> QED
      BY <2>1, <3>3
  <2>3. m.pc \notin Holding /\ m.pc \notin {"watch", "wait"} /\ m.inode \in 1..Len(lock)
    BY <1>2, <1>3, <2>2 DEF Holding
  <2> HIDE DEF m
  <2>4. Named'
    BY <1>1, <2>1, <2>2, <2>3, NamedStays
  <2>5. starts' \in Nat
    BY <1>1 DEF EndpointInv, Typed
  <2> QED
    BY <1>1, <1>2, <2>1, <2>2, <2>3, <2>4, <2>5, OwnStep
<1>4. CASE path = 0
  <2>1. lock' = Append(lock, [marked |-> FALSE, holder |-> "none"]) /\ path' = Len(lock) + 1
    BY <1>4 DEF OpenLock
  <2>2. m \in MainThread /\ m.pc = "try" /\ m.inode = Len(lock) + 1
    <3>1. path' \in Nat
      BY <1>2, <2>1
    <3>2. (path = 0) \in BOOLEAN
      OBVIOUS
    <3>3. m \in MainThread /\ m.pc = "try" /\ m.inode = path'
      BY <1>2, <3>1, <3>2, OpenedThread, Zenon
    <3> HIDE DEF m
    <3> QED
      BY <2>1, <3>3
  <2>3. /\ lock' \in Seq(LockFile) /\ Len(lock') = Len(lock) + 1
        /\ \A i \in 1..Len(lock) : lock'[i] = lock[i]
    BY <1>2, <2>1 DEF LockFile
  <2>4. \A e \in Daemons : main'[e] = IF e = d THEN m ELSE main[e]
    BY <1>1 DEF EndpointInv, Typed
  <2> HIDE DEF m
  <2>5. Typed'
    BY <1>1, <2>1, <2>2, <2>3, <2>4 DEF EndpointInv, Typed
  <2>6. Opened'
    BY <1>2, <2>2, <2>3, <2>4 DEF EndpointInv, Opened
  <2>7. Held'
    <3> SUFFICES ASSUME NEW e \in Daemons, main'[e].pc \in Holding
                 PROVE  lock'[main'[e].inode].holder = e
      BY DEF Held
    <3>1. e # d
      BY <2>2, <2>4 DEF Holding
    <3>2. main'[e] = main[e]
      BY <2>4, <3>1
    <3>3. main[e].inode \in 1..Len(lock) /\ lock[main[e].inode].holder = e
      BY <3>2 DEF EndpointInv, Opened, Held, Opening
    <3> QED
      BY <2>3, <3>2, <3>3
  <2>8. Named'
    <3> SUFFICES ASSUME path' = 1, NEW e \in Daemons, main'[e].pc \in {"watch", "wait"}
                 PROVE  FALSE
      BY DEF Named
    <3>1. Len(lock) = 0
      BY <1>2, <2>1
    <3>2. main'[e] = main[e] /\ main[e].pc \in Opening
      BY <2>2, <2>4 DEF Opening, Holding
    <3> QED
      BY <3>1, <3>2 DEF EndpointInv, Opened
  <2> QED
    BY <2>5, <2>6, <2>7, <2>8 DEF EndpointInv
<1> QED
  BY <1>3, <1>4

\* A daemon that only goes to another state, with the lock if it needs it, and
\* writes the descriptor only as Named allows.
LEMMA GoneStep ==
  ASSUME EndpointInv, NEW d \in Daemons, NEW pc \in MainPcs, Goto(d, pc),
         main[d].pc \in Opening \/ pc \notin Opening,
         UNCHANGED <<lock, path, starts>>,
         pc \in Holding => main[d].pc \in Holding,
         \/ endpoint' = endpoint /\ (pc \in {"watch", "wait"} => main[d].pc = "watch")
         \/ main[d].pc \in Holding /\ (pc \in {"watch", "wait"} => endpoint' = main[d].start)
  PROVE  EndpointInv'
<1>1. PICK m \in MainThread :
           /\ main' = [main EXCEPT ![d] = m]
           /\ m.pc = pc /\ m.inode = main[d].inode /\ m.start = main[d].start
  BY Gone
<1>2. Named'
  BY <1>1, NamedStays, NamedWritten
<1>3. m.pc \in Opening => m.inode \in 1..Len(lock)
  BY <1>1 DEF EndpointInv, Opened
<1>4. m.pc \in Holding => lock'[m.inode].holder = d
  BY <1>1 DEF EndpointInv, Held
<1>5. /\ lock' \in Seq(LockFile) /\ Len(lock') = Len(lock) /\ starts' \in Nat
      /\ \A i \in 1..Len(lock) : lock[i].holder \notin {d, "none"} => lock'[i].holder = lock[i].holder
  BY DEF EndpointInv, Typed
<1> QED
  BY <1>1, <1>2, <1>3, <1>4, <1>5, OwnStep

\* A daemon that takes or gives back the lock of its file, or marks it.
LEMMA LockStep ==
  ASSUME EndpointInv, NEW d \in Daemons, NEW pc \in MainPcs, Goto(d, pc),
         main[d].pc \in Opening, pc \notin {"watch", "wait"},
         UNCHANGED <<path, endpoint, starts>>,
         NEW f \in LockFile, lock' = [lock EXCEPT ![main[d].inode] = f],
         lock[main[d].inode].holder \in {d, "none"},
         pc \in Holding => f.holder = d
  PROVE  EndpointInv'
<1>1. PICK m \in MainThread :
           /\ main' = [main EXCEPT ![d] = m]
           /\ m.pc = pc /\ m.inode = main[d].inode /\ m.start = main[d].start
  BY Gone
<1>2. Named'
  BY <1>1, NamedStays
<1>3. main[d].inode \in 1..Len(lock) /\ lock \in Seq(LockFile) /\ starts' \in Nat
  BY DEF EndpointInv, Opened, Typed
<1>4. /\ lock' \in Seq(LockFile) /\ Len(lock') = Len(lock)
      /\ \A i \in 1..Len(lock) : lock'[i] = IF i = main[d].inode THEN f ELSE lock[i]
  BY <1>3, LockWritten
<1>5. /\ m.pc \in Holding => lock'[m.inode].holder = d
      /\ \A i \in 1..Len(lock) : lock[i].holder \notin {d, "none"} => lock'[i].holder = lock[i].holder
  BY <1>1, <1>3, <1>4
<1> QED
  BY <1>1, <1>2, <1>3, <1>4, <1>5, OwnStep

\* A daemon in Holding gives its lock back.
LEMMA UnlockStep ==
  ASSUME EndpointInv, NEW d \in Daemons, NEW pc \in MainPcs, Goto(d, pc),
         main[d].pc \in Holding, pc \notin Holding,
         UNCHANGED <<path, endpoint, starts>>,
         lock' = [lock EXCEPT ![main[d].inode].holder = "none"]
  PROVE  EndpointInv'
<1> DEFINE f == [lock[main[d].inode] EXCEPT !.holder = "none"]
<1>1. main[d].inode \in 1..Len(lock) /\ lock \in Seq(LockFile) /\ lock[main[d].inode].holder = d
  BY DEF EndpointInv, Opened, Typed, Held, Opening
<1>2. f \in LockFile
  <2>1. lock[main[d].inode] \in LockFile
    BY <1>1
  <2> QED
    BY <2>1, Unheld
<1>3. lock' = [lock EXCEPT ![main[d].inode] = f]
  OBVIOUS
<1>4. main[d].pc \in Opening /\ pc \notin {"watch", "wait"}
  BY DEF Opening, Holding
<1> HIDE DEF f
<1> QED
  BY <1>1, <1>2, <1>3, <1>4, LockStep

-----------------------------------------------------------------------------
(* The actions of the main thread.                                         *)

\* A holder that has not published is given time.
LEMMA TryStep ==
  ASSUME EndpointInv, NEW d \in Daemons, TryLock(d)
  PROVE  EndpointInv'
<1>1. main[d].pc = "try" /\ UNCHANGED <<path, endpoint, starts>>
  BY DEF TryLock, At, bounds
<1>2. main[d].pc \in Opening
  BY <1>1 DEF Opening
<1>3. main[d].inode \in 1..Len(lock) /\ lock \in Seq(LockFile)
  BY <1>2 DEF EndpointInv, Opened, Typed
<1>4. CASE /\ lock[main[d].inode].holder = "none"
           /\ lock' = [lock EXCEPT ![main[d].inode].holder = d]
           /\ Goto(d, IF main[d].created THEN "initialise" ELSE "check")
  <2> DEFINE f == [lock[main[d].inode] EXCEPT !.holder = d]
             pc == IF main[d].created THEN "initialise" ELSE "check"
  <2>1. lock[main[d].inode] \in LockFile
    BY <1>3
  <2>2. f \in LockFile /\ f.holder = d
    BY <2>1 DEF LockFile
  <2>3. lock' = [lock EXCEPT ![main[d].inode] = f]
    BY <1>4
  <2>4. pc \in MainPcs /\ pc \notin {"watch", "wait"} /\ Goto(d, pc)
    BY <1>4 DEF MainPcs
  <2> HIDE DEF f, pc
  <2> QED
    BY <1>1, <1>2, <1>4, <2>2, <2>3, <2>4, LockStep
<1>5. CASE main' = [main EXCEPT ![d].attempt = @ + 1] /\ UNCHANGED lock
  <2> DEFINE m == [main[d] EXCEPT !.attempt = main[d].attempt + 1]
  <2>1. main[d] \in MainThread /\ starts' \in Nat
    BY <1>1 DEF EndpointInv, Typed
  <2>2. m \in MainThread /\ m.pc = "try" /\ m.inode = main[d].inode
    BY <1>1, <2>1 DEF MainThread
  <2>3. main' = [main EXCEPT ![d] = m]
    BY <1>5
  <2>4. m.pc \notin Holding /\ m.pc \notin {"watch", "wait"}
    BY <2>2 DEF Holding
  <2> HIDE DEF m
  <2>5. Named'
    BY <1>1, <2>2, <2>3, <2>4, NamedStays
  <2> QED
    BY <1>1, <1>3, <1>5, <2>1, <2>2, <2>3, <2>4, <2>5, OwnStep
<1>6. CASE Goto(d, "stop") /\ UNCHANGED lock
  BY <1>1, <1>2, <1>6, GoneStep DEF MainPcs, Opening, Holding
<1> QED
  BY <1>4, <1>5, <1>6 DEF TryLock

\* The lock cannot be opened, tried or read.
LEMMA DaemonFails ==
  ASSUME EndpointInv, NEW d \in Daemons, LockFails(d)
  PROVE  EndpointInv'
<1>1. /\ main[d].pc \in {"open", "try", "check"} /\ Goto(d, "stop")
      /\ UNCHANGED <<path, endpoint, starts>>
  BY DEF LockFails
<1>2. "stop" \in MainPcs /\ "stop" \notin Opening /\ "stop" \notin Holding
  BY DEF MainPcs, Opening, Holding
<1>3. CASE main[d].pc = "check"
  BY <1>1, <1>2, <1>3, UnlockStep DEF LockFails, At, Holding
<1>4. CASE main[d].pc # "check"
  BY <1>1, <1>2, <1>4, GoneStep DEF LockFails, At
<1> QED
  BY <1>3, <1>4

\* A lock file without the marker is given back.
LEMMA MarkerStep ==
  ASSUME EndpointInv, NEW d \in Daemons, CheckMarker(d)
  PROVE  EndpointInv'
<1>1. main[d].pc = "check" /\ UNCHANGED <<path, endpoint, starts>>
  BY DEF CheckMarker, At, bounds
<1>2. CASE Goto(d, "publish") /\ UNCHANGED lock
  BY <1>1, <1>2, GoneStep DEF MainPcs, Opening, Holding
<1>3. CASE Goto(d, "stop") /\ Unlock(d)
  BY <1>1, <1>3, UnlockStep DEF MainPcs, Holding, Unlock
<1> QED
  BY <1>2, <1>3 DEF CheckMarker

\* The marker is written, or the lock is given back whatever was written.
LEMMA InitialiseStep ==
  ASSUME EndpointInv, NEW d \in Daemons, InitialiseLock(d)
  PROVE  EndpointInv'
<1>1. main[d].pc = "initialise" /\ UNCHANGED <<path, endpoint, starts>>
  BY DEF InitialiseLock, At
<1>2. main[d].pc \in Opening /\ main[d].pc \in Holding
  BY <1>1 DEF Opening, Holding
<1>3. main[d].inode \in 1..Len(lock) /\ lock \in Seq(LockFile) /\ lock[main[d].inode].holder = d
  BY <1>2 DEF EndpointInv, Opened, Typed, Held
<1>4. CASE lock' = [lock EXCEPT ![main[d].inode].marked = TRUE] /\ Goto(d, "publish")
  <2> DEFINE f == [lock[main[d].inode] EXCEPT !.marked = TRUE]
  <2>1. lock[main[d].inode] \in LockFile
    BY <1>3
  <2>2. f \in LockFile /\ f.holder = d
    BY <1>3, <2>1 DEF LockFile
  <2>3. lock' = [lock EXCEPT ![main[d].inode] = f]
    BY <1>4
  <2> HIDE DEF f
  <2> QED
    BY <1>1, <1>2, <1>3, <1>4, <2>2, <2>3, LockStep DEF MainPcs
<1>5. ASSUME NEW marked \in BOOLEAN,
             lock' = [lock EXCEPT ![main[d].inode] = [marked |-> marked, holder |-> "none"]],
             Goto(d, "unlink")
      PROVE  EndpointInv'
  <2> DEFINE f == [marked |-> marked, holder |-> "none"]
  <2>1. f \in LockFile
    BY DEF LockFile
  <2>2. "unlink" \in MainPcs /\ "unlink" \notin Holding
    BY DEF MainPcs, Holding
  <2> HIDE DEF f
  <2> QED
    BY <1>1, <1>2, <1>3, <1>5, <2>1, <2>2, LockStep DEF f
<1> QED
  BY <1>4, <1>5 DEF InitialiseLock

\* The lock file is removed, and the one at the path is no longer the first.
LEMMA UnlinkStep ==
  ASSUME EndpointInv, NEW d \in Daemons, RemoveLockFile(d)
  PROVE  EndpointInv'
<1>1. /\ Goto(d, "stop") /\ path' = 0
      /\ UNCHANGED <<lock, endpoint, starts>>
  BY DEF RemoveLockFile, bounds
<1>2. "stop" \in MainPcs /\ "stop" \notin Opening /\ "stop" \notin Holding
  BY DEF MainPcs, Opening, Holding
<1>3. PICK m \in MainThread : main' = [main EXCEPT ![d] = m] /\ m.pc = "stop"
  BY <1>1, <1>2, Gone
<1>4. \A e \in Daemons : main'[e] = IF e = d THEN m ELSE main[e]
  BY <1>3 DEF EndpointInv, Typed
<1>5. Typed'
  BY <1>1, <1>3, <1>4 DEF EndpointInv, Typed
<1>6. Opened' /\ Held'
  BY <1>1, <1>2, <1>3, <1>4 DEF EndpointInv, Opened, Held
<1>7. Named'
  BY <1>1 DEF Named
<1> QED
  BY <1>5, <1>6, <1>7 DEF EndpointInv

\* A daemon publishes its descriptor, or fails and withdraws.
LEMMA PublishStep ==
  ASSUME EndpointInv, NEW d \in Daemons,
         RemoveDescriptor(d) \/ RenameDescriptor(d) \/ Release(d) \/ EnableWatcher(d)
  PROVE  EndpointInv'
<1> USE DEF At, bounds, files, MainPcs, Opening, Holding
<1>1. CASE RemoveDescriptor(d)
  BY <1>1, GoneStep DEF RemoveDescriptor
<1>2. CASE RenameDescriptor(d)
  BY <1>2, GoneStep DEF RenameDescriptor
<1>3. CASE Release(d)
  <2>1. CASE main[d].pc = "release"
    BY <1>3, <2>1, GoneStep DEF Release
  <2>2. CASE main[d].pc = "released"
    BY <1>3, <2>2, UnlockStep DEF Release, Unlock
  <2> QED
    BY <1>3, <2>1, <2>2 DEF Release
<1>4. CASE EnableWatcher(d)
  BY <1>4, GoneStep DEF EnableWatcher
<1> QED
  BY <1>1, <1>2, <1>3, <1>4

\* A thread that is off holds nothing.
LEMMA Offline == Off \in MainThread /\ Off.pc \notin Opening /\ Off.pc \notin Holding
                 /\ Off.pc \notin {"watch", "wait"}
BY DEF Off, MainThread, MainPcs, Opening, Holding

\* A daemon that has not claimed the endpoint stops its threads and exits.
LEMMA StopStep ==
  ASSUME EndpointInv, NEW d \in Daemons, Join(d) \/ Exit(d)
  PROVE  EndpointInv'
<1>1. CASE Join(d)
  BY <1>1, GoneStep DEF Join, At, bounds, files, MainPcs, Opening, Holding
<1>2. CASE Exit(d)
  <2>1. main' = [main EXCEPT ![d] = Off] /\ UNCHANGED <<lock, path, endpoint, starts>>
    BY <1>2 DEF Exit, bounds, files
  <2>2. Named'
    BY <2>1, Offline, NamedStays
  <2>3. starts' \in Nat /\ lock \in Seq(LockFile)
    BY <2>1 DEF EndpointInv, Typed
  <2> QED
    BY <2>1, <2>2, <2>3, Offline, OwnStep
<1> QED
  BY <1>1, <1>2

\* A daemon that is killed loses its locks, and its descriptor stays.
LEMMA KillStep ==
  ASSUME EndpointInv, NEW d \in Daemons, Kill(d)
  PROVE  EndpointInv'
<1>1. /\ main' = [main EXCEPT ![d] = Off] /\ UNCHANGED <<path, endpoint, starts>>
      /\ lock' = [i \in DOMAIN lock |-> IF lock[i].holder = d THEN [lock[i] EXCEPT !.holder = "none"]
                                        ELSE lock[i]]
  BY DEF Kill
<1>2. lock \in Seq(LockFile) /\ starts' \in Nat /\ DOMAIN lock = 1..Len(lock) /\ Len(lock) \in Nat
  BY <1>1 DEF EndpointInv, Typed
<1>3. \A i \in 1..Len(lock) : lock[i] \in LockFile
  BY <1>2
<1>4. \A i \in 1..Len(lock) : lock'[i] \in LockFile /\ (lock[i].holder # d => lock'[i] = lock[i])
  BY <1>1, <1>2, <1>3, Unheld
<1>5. lock' \in Seq(LockFile) /\ Len(lock') = Len(lock)
  <2>1. lock' \in [1..Len(lock) -> LockFile]
    <3>1. DOMAIN lock' = 1..Len(lock) /\ lock' = [i \in 1..Len(lock) |-> lock'[i]]
      BY <1>1, <1>2, Zenon
    <3> QED
      BY <1>4, <3>1, Zenon
  <2> QED
    BY <1>2, <2>1
<1>6. Named'
  BY <1>1, Offline, NamedStays
<1> QED
  BY <1>1, <1>2, <1>4, <1>5, <1>6, Offline, OwnStep

-----------------------------------------------------------------------------

\* Every step keeps the invariant.
LEMMA EndpointStep ==
  ASSUME EndpointInv, [Next]_vars
  PROVE  EndpointInv'
<1>1. CASE UNCHANGED vars
  BY <1>1, FilesAsTheyAre DEF vars, files, bounds
<1>2. CASE Change
  BY <1>2, FilesAsTheyAre DEF Change, files, bounds
<1>3. ASSUME NEW d \in Daemons,
             StartServer(d) \/ Main(d) \/ Server(d) \/ Accept(d) \/ AcceptFails(d) \/ Kill(d)
      PROVE  EndpointInv'
  <2>1. CASE StartServer(d)
    BY <2>1, StartStep
  <2>2. CASE Main(d)
    BY <2>2, DaemonOpens, DaemonFails, TryStep, MarkerStep, InitialiseStep, UnlinkStep, PublishStep,
       StopStep DEF Main
  <2>3. CASE Server(d) \/ Accept(d) \/ AcceptFails(d)
    BY <2>3, ServerIdle, FilesAsTheyAre
  <2>4. CASE Kill(d)
    BY <2>4, KillStep
  <2> QED
    BY <1>3, <2>1, <2>2, <2>3, <2>4
<1> QED
  BY <1>1, <1>2, <1>3 DEF Next

\* Who holds which lock, and what is published, is so in every state.
THEOREM Inductive == Spec => []EndpointInv
<1>1. Init => EndpointInv
  BY Starting
<1>2. EndpointInv /\ [Next]_vars => EndpointInv'
  BY EndpointStep
<1> QED
  BY <1>1, <1>2, PTL DEF Spec

\* As long as nobody has removed the lock file (claim, InitialiseLock failing),
\* clients that read the descriptor reach the daemon that runs, however many
\* daemons start, fail and are killed meanwhile.
THEOREM EndpointNames == Spec => []EndpointNamesOwner
<1>1. EndpointInv => EndpointNamesOwner
  BY DEF EndpointInv, Named, EndpointNamesOwner, At
<1> QED
  BY <1>1, Inductive, PTL

\* As long as nobody has removed the lock file, only one daemon runs for a
\* database: what the code says of all states, and OneOwner shows of the others.
THEOREM OneOwnerByLock ==
  Spec => [](path = 1 => OneOwner)
<1>1. EndpointInv => (path = 1 => OneOwner)
  BY OneHolder DEF OneOwner, At, Holding
<1> QED
  BY <1>1, Inductive, PTL

-----------------------------------------------------------------------------
(* The upgrade of the database.                                            *)

\* The rows of batches and attestations, and what a process has to do.
BatchRow == [made : {"absent", "before", "direct"}, for : Repositories \cup {None},
             owner : Repositories \cup {Store, None}]
AttestationRow ==
  [repository : Repositories \cup {Store, None},
   authority : {"none", "captured_direct", "immutable_evidence", "explicit_repair"}]
Opener == [todo : Seq(Nat), looked : BOOLEAN, captured : [Batches -> Repositories \cup {None}]]

\* Owners, evidence, attestations and processes keep to their values.
OwnersTyped ==
  /\ applied \subseteq Versions
  /\ batch \in [Batches -> BatchRow]
  /\ evidence \in [Batches -> SUBSET Repositories]
  /\ attested \in [Batches -> AttestationRow]
  /\ proc \in [Processes -> Opener]

\* An audit comes after the guess, the repair and the guard of the attestations.
AuditComesLast == 18 \in applied => {14, 15, 19} \subseteq applied

\* Until the repair a direct batch has the repository it was imported into, or none.
OwnersUntouched ==
  /\ 14 \notin applied => \A b \in Batches : ~Direct(b)
  /\ 15 \notin applied => \A b \in Batches : Direct(b) => batch[b].owner \in {None, batch[b].for}

\* What a process has captured is what was imported.
CapturedIsTrue(n) ==
  \A b \in Batches : n.captured[b] # None => Direct(b) /\ batch[b].for = n.captured[b]

\* What a process has yet to do comes after what it needs.
InOrder(n, done) ==
  /\ n.todo # << >> /\ n.todo[1] # 14 => 14 \in done
  /\ \A i \in 1..Len(n.todo) :
       /\ n.todo[i] \in (16..22) \cup {Audited} => 15 \in done
       /\ n.todo[i] = 18 => {18, 19} \cap done # {} \/ \E j \in 1..(i - 1) : n.todo[j] = 19

OpenersKnow == \A p \in Processes : CapturedIsTrue(proc[p]) /\ InOrder(proc[p], applied)

\* The inductive invariant of the owners.
OwnersInv == OwnersTyped /\ AuditComesLast /\ OwnersUntouched /\ OpenersKnow /\ AuditedAreTrue

\* What a release leaves of a batch: types, owners by the guess of schema 14, and
\* attestations.
LEMMA LeftTyped ==
  ASSUME NEW v \in Releases, NEW o \in Left(v)
  PROVE  /\ o.row \in BatchRow /\ o.named \in SUBSET Repositories
         /\ o.attested \in AttestationRow
         /\ o.row.made = "direct" => v # 13 /\ (v = 14 => o.row.owner = o.row.for)
         /\ v = 20 /\ o.row.made = "direct" =>
              o.row.owner = o.row.for \/ o.attested = Attestation(o.row.owner, "explicit_repair")
         /\ v = 20 /\ o.row.made = "before" =>
              /\ o.attested = Attestation(o.row.owner, "immutable_evidence")
              /\ o.row.owner \in o.named
<1>1. CASE o = Absent
  BY <1>1 DEF Absent, NoBatch, NoAttestation, BatchRow, AttestationRow
<1>2. CASE o \in OlderBatches(v) /\ (v = 13 => o.row.owner = None) /\ (v >= 15 => o.row.owner \in o.named)
  BY <1>2 DEF OlderBatches, NoAttestation, BatchRow, AttestationRow, Attestation
<1>3. CASE o \in DirectBatches(v) /\ v # 13 /\ (v = 14 => o.row.owner = o.row.for)
  BY <1>3 DEF DirectBatches, NoAttestation, BatchRow, AttestationRow, Attestation
<1> QED
  BY <1>1, <1>2, <1>3 DEF Left

\* What earlier releases leave behind satisfies the invariant.
LEMMA OwnersStart == OwnersInit => OwnersInv
<1> SUFFICES ASSUME OwnersInit PROVE OwnersInv
  OBVIOUS
<1>1. PICK left \in [Batches -> Left(release)] :
        /\ batch = [b \in Batches |-> left[b].row]
        /\ evidence = [b \in Batches |-> left[b].named]
        /\ attested = [b \in Batches |-> left[b].attested]
  BY DEF OwnersInit
<1>2. release \in Releases /\ release \in {13, 14, 15, 17, 20} /\ applied = {v \in Versions : v <= release}
  BY UpgradeAssumption DEF OwnersInit
<1>3. proc = [p \in Processes |-> Idle] /\ Idle \in Opener
  BY DEF OwnersInit, Idle, Opener, NoOwners
<1>4. OwnersTyped
  BY <1>1, <1>2, <1>3, LeftTyped DEF OwnersTyped
<1>5. AuditComesLast /\ (18 \in applied => release = 20) /\ (14 \notin applied => release = 13)
        /\ (15 \notin applied => release \in {13, 14})
  BY <1>2 DEF AuditComesLast, Versions
<1>6. OwnersUntouched
  <2>1. ASSUME NEW b \in Batches, Direct(b)
        PROVE  release # 13 /\ (release = 14 => batch[b].owner = batch[b].for)
    BY <1>1, <1>2, <2>1, LeftTyped DEF Direct
  <2> QED
    BY <1>5, <2>1 DEF OwnersUntouched
<1>7. OpenersKnow
  BY <1>3 DEF OpenersKnow, CapturedIsTrue, InOrder, Idle, NoOwners
<1>8. AuditedAreTrue
  <2> SUFFICES ASSUME release = 20, NEW b \in Present
               PROVE  IF Direct(b)
                        THEN \/ batch[b].owner = batch[b].for
                             \/ attested[b] = Attestation(batch[b].owner, "explicit_repair")
                        ELSE /\ attested[b] = Attestation(batch[b].owner, "immutable_evidence")
                             /\ batch[b].owner \in evidence[b]
    BY <1>5 DEF AuditedAreTrue
  <2>1. b \in Batches /\ batch[b].made \in {"before", "direct"}
    BY <1>4 DEF Present, OwnersTyped, BatchRow
  <2> QED
    BY <1>1, <1>2, <2>1, LeftTyped DEF Direct
<1> QED
  BY <1>4, <1>5, <1>6, <1>7, <1>8 DEF OwnersInv

\* What a process does next, once it is through with a step.
LEMMA TailInOrder ==
  ASSUME NEW done, NEW n \in Opener, InOrder(n, done), n.todo # << >>,
         Head(n.todo) = 14 => 14 \in done,
         Head(n.todo) = 19 => 19 \in done,
         NEW m \in Opener, m.todo = Tail(n.todo)
  PROVE  InOrder(m, done)
<1>1. n.todo \in Seq(Nat) /\ Len(n.todo) \in Nat \ {0} /\ Len(m.todo) = Len(n.todo) - 1
      /\ \A i \in 1..Len(m.todo) : m.todo[i] = n.todo[i + 1]
      /\ Head(n.todo) = n.todo[1]
  BY DEF Opener
<1>2. m.todo # << >> => Len(n.todo) > 1
  BY <1>1 DEF Opener
<1>3. 14 \in done
  BY <1>1 DEF InOrder
<1>4. ASSUME NEW i \in 1..Len(m.todo)
      PROVE  /\ m.todo[i] \in (16..22) \cup {Audited} => 15 \in done
             /\ m.todo[i] = 18 => {18, 19} \cap done # {} \/ \E j \in 1..(i - 1) : m.todo[j] = 19
  <2>1. i + 1 \in 1..Len(n.todo) /\ m.todo[i] = n.todo[i + 1]
    BY <1>1
  <2>2. n.todo[i + 1] \in (16..22) \cup {Audited} => 15 \in done
    BY <2>1 DEF InOrder
  <2>3. ASSUME n.todo[i + 1] = 18, {18, 19} \cap done = {}
        PROVE  \E j \in 1..(i - 1) : m.todo[j] = 19
    <3>1. PICK j \in 1..((i + 1) - 1) : n.todo[j] = 19
      BY <2>1, <2>3 DEF InOrder
    <3>2. j # 1
      BY <1>1, <2>3, <3>1
    <3>3. j - 1 \in 1..(i - 1) /\ j - 1 \in 1..Len(m.todo) /\ m.todo[j - 1] = n.todo[(j - 1) + 1]
      BY <1>1, <3>1, <3>2
    <3>4. (j - 1) + 1 = j
      BY <3>1
    <3> QED
      BY <3>1, <3>3, <3>4
  <2> QED
    BY <2>1, <2>2, <2>3
<1> QED
  BY <1>3, <1>4 DEF InOrder

\* What is applied stays applied.
LEMMA MoreDone ==
  ASSUME NEW done, NEW more, done \subseteq more, NEW n, InOrder(n, done)
  PROVE  InOrder(n, more)
BY DEF InOrder

\* What a step of one process leaves of what the processes know.
LEMMA OpenersGoOn ==
  ASSUME OpenersKnow, proc \in [Processes -> Opener], applied \subseteq applied',
         \A b \in Batches : Direct(b) => Direct(b)' /\ batch'[b].for = batch[b].for,
         NEW p \in Processes, NEW n \in Opener,
         proc' = [proc EXCEPT ![p] = n], CapturedIsTrue(n)', InOrder(n, applied')
  PROVE  OpenersKnow'
<1> SUFFICES ASSUME NEW q \in Processes
             PROVE  CapturedIsTrue(proc[q])' /\ InOrder(proc'[q], applied')
  BY DEF OpenersKnow
<1>1. CASE q = p
  <2>1. proc'[q] = n
    BY <1>1
  <2> QED
    BY <2>1 DEF CapturedIsTrue, InOrder
<1>2. CASE q # p
  <2>1. proc'[q] = proc[q] /\ CapturedIsTrue(proc[q]) /\ InOrder(proc[q], applied)
    BY <1>2 DEF OpenersKnow
  <2>2. CapturedIsTrue(proc[q])'
    BY <2>1 DEF CapturedIsTrue
  <2>3. InOrder(proc'[q], applied')
    BY <2>1 DEF InOrder
  <2> QED
    BY <2>2, <2>3
<1> QED
  BY <1>1, <1>2

\* A step that writes nothing: the process goes on with a record in order.
LEMMA ReadsOnly ==
  ASSUME OwnersInv, NEW p \in Processes, NEW n \in Opener,
         proc' = [proc EXCEPT ![p] = n],
         UNCHANGED <<applied, batch, evidence, attested>>,
         CapturedIsTrue(n), InOrder(n, applied)
  PROVE  OwnersInv'
<1>1. /\ OwnersTyped' /\ AuditComesLast' /\ OwnersUntouched' /\ AuditedAreTrue'
      /\ CapturedIsTrue(n)' /\ InOrder(n, applied') /\ \A b \in Batches : Direct(b)' = Direct(b)
  BY DEF OwnersInv, OwnersTyped, AuditComesLast, OwnersUntouched, AuditedAreTrue, CapturedIsTrue,
         InOrder, Direct, Present
<1>2. OpenersKnow'
  BY <1>1, OpenersGoOn DEF OwnersInv, OwnersTyped
<1> QED
  BY <1>1, <1>2 DEF OwnersInv

\* A process that does nothing has nothing to do out of order.
LEMMA IdleInOrder == Idle \in Opener /\ CapturedIsTrue(Idle) /\ InOrder(Idle, applied)
BY DEF Idle, Opener, NoOwners, CapturedIsTrue, InOrder

\* Idle, after a failure.
LEMMA FailStep ==
  ASSUME OwnersInv, NEW p \in Processes, Fail(p), UNCHANGED <<Database, evidence>>
  PROVE  OwnersInv'
BY IdleInOrder, ReadsOnly DEF Fail, Database

\* A process plans the migrations that its list has beyond what it finds applied.
LEMMA OpenStep ==
  ASSUME OwnersInv, NEW p \in Processes, Open(p)
  PROVE  OwnersInv'
<1> DEFINE n == [proc[p] EXCEPT !.todo = <<14, Capture, Choose>>]
<1>a. <<14, Capture, Choose>> \in Seq(Nat)
  BY DEF Capture, Choose
<1>1. /\ proc[p] \in Opener /\ n \in Opener /\ n.todo = <<14, Capture, Choose>>
      /\ n.captured = proc[p].captured /\ proc' = [proc EXCEPT ![p] = n]
  BY <1>a DEF Open, Continue, OwnersInv, OwnersTyped, Opener
<1>2. CapturedIsTrue(n)
  BY <1>1 DEF OwnersInv, OpenersKnow, CapturedIsTrue
<1>3. InOrder(n, applied)
  <2>1. /\ Len(n.todo) = 3 /\ n.todo[1] = 14 /\ n.todo[2] = 1 /\ n.todo[3] = 2
    BY <1>1 DEF Capture, Choose
  <2>2. \A i \in 1..Len(n.todo) : n.todo[i] \in {14, 1, 2}
    BY <2>1
  <2> QED
    BY <2>1, <2>2 DEF InOrder, Audited
<1> QED
  BY <1>1, <1>2, <1>3, ReadsOnly DEF Open, Database, Outside

\* A process goes on to its next step.
LEMMA AdvanceInOrder ==
  ASSUME OwnersInv, NEW p \in Processes, proc[p].todo # << >>,
         Head(proc[p].todo) = 14 => 14 \in applied,
         Head(proc[p].todo) = 19 => 19 \in applied,
         NEW captured \in [Batches -> Repositories \cup {None}], NEW looked \in BOOLEAN
  PROVE  LET n == [todo |-> Tail(proc[p].todo), looked |-> looked, captured |-> captured]
         IN  n \in Opener /\ InOrder(n, applied)
<1> DEFINE n == [todo |-> Tail(proc[p].todo), looked |-> looked, captured |-> captured]
<1>1. proc[p] \in Opener /\ InOrder(proc[p], applied) /\ n \in Opener
  BY DEF OwnersInv, OwnersTyped, OpenersKnow, Opener
<1>2. InOrder(n, applied)
  BY <1>1, TailInOrder
<1> QED
  BY <1>1, <1>2

\* Two updates of a process as a record: what it has looked for.
LEMMA OpenerLooked ==
  ASSUME NEW r \in Opener, NEW todo, NEW l
  PROVE  [[r EXCEPT !.todo = todo] EXCEPT !.looked = l]
           = [todo |-> todo, looked |-> l, captured |-> r.captured]
<1>1. PICK a, b, c : r = [todo |-> a, looked |-> b, captured |-> c]
  BY DEF Opener
<1> DEFINE m == [todo |-> todo, looked |-> b, captured |-> c]
<1>2. [r EXCEPT !.todo = todo] = m
  BY <1>1
<1>3. [m EXCEPT !.looked = l] = [todo |-> todo, looked |-> l, captured |-> c]
  OBVIOUS
<1>4. r.looked = b /\ r.captured = c
  BY <1>1
<1> HIDE DEF m
<1> QED
  BY <1>2, <1>3, <1>4

\* Two updates of a process as a record: what it has captured.
LEMMA OpenerCaptured ==
  ASSUME NEW r \in Opener, NEW todo, NEW o
  PROVE  [[r EXCEPT !.todo = todo] EXCEPT !.captured = o]
           = [todo |-> todo, looked |-> r.looked, captured |-> o]
<1>1. PICK a, b, c : r = [todo |-> a, looked |-> b, captured |-> c]
  BY DEF Opener
<1> DEFINE m == [todo |-> todo, looked |-> b, captured |-> c]
<1>2. [r EXCEPT !.todo = todo] = m
  BY <1>1
<1>3. [m EXCEPT !.captured = o] = [todo |-> todo, looked |-> b, captured |-> o]
  OBVIOUS
<1>4. r.looked = b /\ r.captured = c
  BY <1>1
<1> HIDE DEF m
<1> QED
  BY <1>2, <1>3, <1>4

\* A process that goes on drops the head of its list and what it has looked for.
LEMMA AdvanceIs ==
  ASSUME OwnersInv, NEW p \in Processes, Advance(p)
  PROVE  proc' = [proc EXCEPT ![p] =
           [todo |-> Tail(proc[p].todo), looked |-> FALSE, captured |-> proc[p].captured]]
<1>1. proc \in [Processes -> Opener]
  BY DEF OwnersInv, OwnersTyped
<1>2. proc' = [proc EXCEPT ![p] = [[proc[p] EXCEPT !.todo = Tail(proc[p].todo)] EXCEPT !.looked = FALSE]]
  BY <1>1 DEF Advance
<1>3. proc[p] \in Opener
  BY <1>1
<1>4. [[proc[p] EXCEPT !.todo = Tail(proc[p].todo)] EXCEPT !.looked = FALSE]
        = [todo |-> Tail(proc[p].todo), looked |-> FALSE, captured |-> proc[p].captured]
  BY ONLY <1>3, OpenerLooked, Zenon
<1> QED
  BY ONLY <1>2, <1>4, Zenon

\* Looking for a column or a row keeps the invariant.
LEMMA LookStep ==
  ASSUME OwnersInv, NEW p \in Processes, Look(p)
  PROVE  OwnersInv'
<1>1. PICK v \in Versions : Doing(p, v) /\
        IF v \in applied THEN Advance(p) ELSE proc' = [proc EXCEPT ![p].looked = TRUE]
  BY DEF Look
<1>2. proc[p] \in Opener /\ CapturedIsTrue(proc[p]) /\ InOrder(proc[p], applied)
  BY DEF OwnersInv, OwnersTyped, OpenersKnow
<1>3. UNCHANGED <<applied, batch, evidence, attested>>
  BY DEF Look, Database, Outside
<1>4. CASE v \in applied
  <2> DEFINE n == [todo |-> Tail(proc[p].todo), looked |-> FALSE, captured |-> proc[p].captured]
  <2>1. n \in Opener /\ InOrder(n, applied)
    BY <1>1, <1>2, <1>4, AdvanceInOrder DEF Doing, Opener
  <2>2. CapturedIsTrue(n)
    BY <1>2 DEF CapturedIsTrue
  <2> QED
    BY <1>1, <1>3, <1>4, <2>1, <2>2, AdvanceIs, ReadsOnly
<1>5. CASE v \notin applied
  <2> DEFINE n == [proc[p] EXCEPT !.looked = TRUE]
  <2>1. n \in Opener /\ n.todo = proc[p].todo /\ n.captured = proc[p].captured
    BY <1>2 DEF Opener
  <2>2. CapturedIsTrue(n) /\ InOrder(n, applied)
    BY <1>2, <2>1 DEF CapturedIsTrue, InOrder
  <2> QED
    BY <1>1, <1>3, <1>5, <2>1, <2>2, ReadsOnly
<1> QED
  BY <1>4, <1>5

\* Capturing the owners before migration 15 keeps the invariant: before the repair they
\* are what was imported.
LEMMA ReadOwnersStep ==
  ASSUME OwnersInv, NEW p \in Processes, ReadOwners(p)
  PROVE  OwnersInv'
<1> DEFINE n == [todo |-> Tail(proc[p].todo), looked |-> proc[p].looked, captured |-> Captured]
<1>1. proc[p] \in Opener /\ proc' = [proc EXCEPT ![p] = n]
  <2>1. proc \in [Processes -> Opener]
    BY DEF OwnersInv, OwnersTyped
  <2>2. proc' = [proc EXCEPT ![p] = [[proc[p] EXCEPT !.todo = Tail(proc[p].todo)] EXCEPT !.captured = Captured]]
    BY <2>1 DEF ReadOwners
  <2>3. proc[p] \in Opener
    BY <2>1
  <2>4. [[proc[p] EXCEPT !.todo = Tail(proc[p].todo)] EXCEPT !.captured = Captured]
           = [todo |-> Tail(proc[p].todo), looked |-> proc[p].looked, captured |-> Captured]
    BY ONLY <2>3, OpenerCaptured, Zenon
  <2>5. proc' = [proc EXCEPT ![p] = n]
    BY ONLY <2>2, <2>4, Zenon
  <2> QED
    BY <2>3, <2>5
<1>2. Captured \in [Batches -> Repositories \cup {None}]
  BY DEF Captured
<1>3. n \in Opener /\ InOrder(n, applied)
  BY <1>1, <1>2, AdvanceInOrder DEF ReadOwners, Doing, Capture, Opener
<1>4. CapturedIsTrue(n)
  BY UpgradeAssumption DEF OwnersInv, OwnersUntouched, CapturedIsTrue, Captured
<1> QED
  BY <1>1, <1>3, <1>4, ReadsOnly DEF ReadOwners, Database, Outside

\* Choosing between the two ways of migration 18 keeps the invariant.
LEMMA ChoosePathStep ==
  ASSUME OwnersInv, NEW p \in Processes, ChoosePath(p)
  PROVE  OwnersInv'
<1> DEFINE steps == IF 15 \in applied THEN <<16, 17, Audited>> ELSE <<Whole, 23>>
           n == [proc[p] EXCEPT !.todo = steps]
<1>1. steps \in Seq(Nat) /\ steps # << >>
  BY DEF Audited, Whole
<1>2. proc[p] \in Opener /\ n \in Opener /\ n.todo = steps /\ n.captured = proc[p].captured
      /\ proc' = [proc EXCEPT ![p] = n]
  BY <1>1 DEF ChoosePath, Continue, OwnersInv, OwnersTyped, Opener
<1>3. CapturedIsTrue(n)
  BY <1>2 DEF OwnersInv, OpenersKnow, CapturedIsTrue
<1>4. 14 \in applied
  <2>1. proc[p].todo # << >> /\ proc[p].todo[1] = 2 /\ InOrder(proc[p], applied)
    BY <1>2 DEF ChoosePath, Doing, Choose, OwnersInv, OpenersKnow, Opener
  <2> QED
    BY <2>1 DEF InOrder
<1>5. \A i \in 1..Len(steps) : IF 15 \in applied THEN steps[i] \in {16, 17, 4} ELSE steps[i] \in {3, 23}
  <2>1. CASE 15 \in applied
    <3>1. Len(steps) = 3 /\ steps[1] = 16 /\ steps[2] = 17 /\ steps[3] = 4
      BY <2>1 DEF Audited
    <3> QED
      BY <2>1, <3>1
  <2>2. CASE 15 \notin applied
    <3>1. Len(steps) = 2 /\ steps[1] = 3 /\ steps[2] = 23
      BY <2>2 DEF Whole
    <3> QED
      BY <2>2, <3>1
  <2> QED
    BY <2>1, <2>2
<1>6. InOrder(n, applied)
  BY <1>2, <1>4, <1>5 DEF InOrder, Audited
<1> QED
  BY <1>2, <1>3, <1>6, ReadsOnly DEF ChoosePath, Database, Outside

\* Finding the audit, or finding it missing, keeps the invariant.
LEMMA LookForAuditStep ==
  ASSUME OwnersInv, NEW p \in Processes, LookForAudit(p)
  PROVE  OwnersInv'
<1> DEFINE first == IF 18 \in applied THEN << >> ELSE <<19, 21, Prepare>>
           last == <<18, 19, 20, 21, 22, 23>>
           steps == first \o last
           n == [proc[p] EXCEPT !.todo = steps]
<1>1. first \in Seq(Nat) /\ last \in Seq(Nat) /\ steps \in Seq(Nat)
  <2>1. first \in Seq(Nat) /\ last \in Seq(Nat)
    BY DEF Prepare
  <2> QED
    BY <2>1
<1>2. proc[p] \in Opener /\ n \in Opener /\ n.todo = steps /\ n.captured = proc[p].captured
      /\ proc' = [proc EXCEPT ![p] = n]
  BY <1>1 DEF LookForAudit, Continue, OwnersInv, OwnersTyped, Opener
<1>3. CapturedIsTrue(n)
  BY <1>2 DEF OwnersInv, OpenersKnow, CapturedIsTrue
<1>4. 14 \in applied /\ 15 \in applied
  <2>1. proc[p].todo # << >> /\ proc[p].todo[1] = 4 /\ InOrder(proc[p], applied) /\ 1 \in 1..Len(proc[p].todo)
    BY <1>2 DEF LookForAudit, Doing, Audited, OwnersInv, OpenersKnow, Opener
  <2> QED
    BY <2>1 DEF InOrder, Audited
<1>5. \/ 18 \in applied
      \/ 1 \in 1..Len(steps) /\ steps[1] = 19
  <2>1. CASE 18 \notin applied
    <3>1. first = <<19, 21, Prepare>>
      BY <2>1
    <3>2. Len(first) = 3 /\ first[1] = 19 /\ Len(last) = 6
      BY <3>1
    <3>3. Len(steps) = Len(first) + Len(last) /\ (1 \in 1..Len(first) => steps[1] = first[1])
      BY <1>1
    <3>4. Len(steps) = 9 /\ steps[1] = 19
      BY <3>2, <3>3
    <3> QED
      BY <3>4
  <2> QED
    BY <2>1
<1>6. InOrder(n, applied)
  <2>1. ASSUME NEW i \in 1..Len(steps), steps[i] = 18, {18, 19} \cap applied = {}
        PROVE  \E j \in 1..(i - 1) : steps[j] = 19
    <3>1. steps[1] = 19 /\ i # 1
      BY <1>5, <2>1
    <3>2. 1 \in 1..(i - 1)
      BY <3>1, <1>1
    <3> QED
      BY <3>1, <3>2
  <2> QED
    BY <1>2, <1>4, <2>1 DEF InOrder
<1> QED
  BY <1>2, <1>3, <1>6, ReadsOnly DEF LookForAudit, Database, Outside

\* What the audit finds of a batch.
LEMMA VerdictIs ==
  ASSUME OwnersTyped, NEW n \in Opener, CapturedIsTrue(n), NEW b \in Batches,
         Verdict(b, n.captured) # NoAttestation
  PROVE  LET v == Verdict(b, n.captured)
         IN  /\ v \in AttestationRow /\ v.repository \in Repositories
             /\ IF Direct(b)
                  THEN v.repository = batch[b].for \/ v = Attestation(v.repository, "explicit_repair")
                  ELSE /\ v = Attestation(v.repository, "immutable_evidence")
                       /\ v.repository \in evidence[b]
<1> DEFINE v == Verdict(b, n.captured)
<1>1. CASE ~Direct(b)
  <2>1. Unique(b) # None /\ v = Attestation(Unique(b), "immutable_evidence")
    BY <1>1 DEF Verdict
  <2>2. PICK r \in Repositories : evidence[b] = {r}
    BY <2>1 DEF Unique
  <2>3. Unique(b) \in Repositories /\ Unique(b) \in evidence[b]
    BY <2>2 DEF Unique
  <2> QED
    BY <1>1, <2>1, <2>3 DEF Attestation, AttestationRow
<1>2. CASE Direct(b) /\ n.captured[b] # None
  <2>1. v = Attestation(n.captured[b], "captured_direct") /\ batch[b].for = n.captured[b]
        /\ n.captured[b] \in Repositories
    BY <1>2 DEF Verdict, CapturedIsTrue, Opener
  <2> QED
    BY <1>2, <2>1 DEF Attestation, AttestationRow
<1>3. CASE Direct(b) /\ n.captured[b] = None
  <2>1. v = attested[b] /\ attested[b].authority = "explicit_repair"
        /\ attested[b].repository \in Repositories /\ attested[b] \in AttestationRow
    BY <1>3 DEF Verdict, OwnersTyped
  <2>2. v = Attestation(v.repository, "explicit_repair")
    BY <2>1 DEF Attestation, AttestationRow
  <2> QED
    BY <1>3, <2>1, <2>2
<1> QED
  BY <1>1, <1>2, <1>3

\* The audit keeps what batches were imported as, and what it settles is true.
LEMMA AuditStep ==
  ASSUME OwnersInv, NEW n \in Opener, CapturedIsTrue(n), Audit(n.captured), UNCHANGED evidence
  PROVE  /\ batch' \in [Batches -> BatchRow] /\ attested' \in [Batches -> AttestationRow]
         /\ \A b \in Batches : batch'[b].made = batch[b].made /\ batch'[b].for = batch[b].for
         /\ AuditedAreTrue'
<1>0. OwnersTyped /\ batch \in [Batches -> BatchRow] /\ attested \in [Batches -> AttestationRow]
      /\ Present \subseteq Batches
  BY DEF OwnersInv, OwnersTyped, Present
<1>1. \A b \in Present : Verdict(b, n.captured) # NoAttestation
  BY DEF Audit, Auditable
<1>2. ASSUME NEW b \in Present
      PROVE  LET v == Verdict(b, n.captured)
             IN  /\ v \in AttestationRow /\ v.repository \in Repositories
                 /\ batch'[b] = [batch[b] EXCEPT !.owner = v.repository]
                 /\ attested'[b] = v
  BY <1>0, <1>1, VerdictIs DEF Audit
<1>3. ASSUME NEW b \in Batches, b \notin Present
      PROVE  batch'[b] = batch[b] /\ attested'[b] = attested[b]
  BY <1>3 DEF Audit
<1>4. ASSUME NEW b \in Batches
      PROVE  batch'[b] \in BatchRow /\ attested'[b] \in AttestationRow
             /\ batch'[b].made = batch[b].made /\ batch'[b].for = batch[b].for
  <2>1. batch[b] \in BatchRow /\ attested[b] \in AttestationRow
    BY <1>0
  <2>2. CASE b \in Present
    <3>1. PICK r \in Repositories : batch'[b] = [batch[b] EXCEPT !.owner = r]
      BY <1>2, <2>2
    <3>2. attested'[b] \in AttestationRow
      BY <1>2, <2>2
    <3> QED
      BY <2>1, <3>1, <3>2 DEF BatchRow
  <2>3. CASE b \notin Present
    BY <1>3, <2>1, <2>3
  <2> QED
    BY <2>2, <2>3
<1>5. batch' \in [Batches -> BatchRow] /\ attested' \in [Batches -> AttestationRow]
  <2>1. batch' = [b \in Batches |-> batch'[b]] /\ attested' = [b \in Batches |-> attested'[b]]
    BY DEF Audit
  <2> QED
    BY <1>4, <2>1
<1>6. Present' = Present /\ \A b \in Batches : Direct(b)' = Direct(b)
  BY <1>4 DEF Present, Direct
<1>7. AuditedAreTrue'
  <2> SUFFICES ASSUME NEW b \in Present
               PROVE  IF Direct(b)
                        THEN \/ batch'[b].owner = batch'[b].for
                             \/ attested'[b] = Attestation(batch'[b].owner, "explicit_repair")
                        ELSE /\ attested'[b] = Attestation(batch'[b].owner, "immutable_evidence")
                             /\ batch'[b].owner \in evidence[b]
    BY <1>0, <1>6 DEF AuditedAreTrue
  <2> DEFINE v == Verdict(b, n.captured)
  <2>1. IF Direct(b)
          THEN v.repository = batch[b].for \/ v = Attestation(v.repository, "explicit_repair")
          ELSE v = Attestation(v.repository, "immutable_evidence") /\ v.repository \in evidence[b]
    BY <1>0, <1>1, VerdictIs
  <2>2. batch'[b].owner = v.repository /\ batch'[b].for = batch[b].for /\ attested'[b] = v
    BY <1>0, <1>2, <1>4 DEF BatchRow
  <2> HIDE DEF v
  <2> QED
    BY <2>1, <2>2
<1> QED
  BY <1>4, <1>5, <1>7

\* A transaction that migrates further and records it; the process then goes on.
LEMMA Migrates ==
  ASSUME OwnersInv, NEW p \in Processes, NEW n \in Opener,
         proc' = [proc EXCEPT ![p] = n], UNCHANGED evidence,
         applied \subseteq applied', applied' \subseteq Versions,
         batch' \in [Batches -> BatchRow], attested' \in [Batches -> AttestationRow],
         \A b \in Batches : batch'[b].made = batch[b].made /\ batch'[b].for = batch[b].for,
         AuditComesLast', OwnersUntouched', AuditedAreTrue', CapturedIsTrue(n), InOrder(n, applied')
  PROVE  OwnersInv'
<1>1. \A b \in Batches : Direct(b)' = Direct(b)
  BY DEF Direct
<1>2. CapturedIsTrue(n)'
  BY <1>1 DEF CapturedIsTrue
<1>3. OpenersKnow'
  BY <1>1, <1>2, OpenersGoOn DEF OwnersInv, OwnersTyped
<1>4. OwnersTyped'
  BY DEF OwnersInv, OwnersTyped
<1> QED
  BY <1>3, <1>4 DEF OwnersInv

\* What is left to do after a migration is in order if the migration is done.
LEMMA AdvancedInOrder ==
  ASSUME OwnersInv, NEW p \in Processes, proc[p].todo # << >>,
         NEW more, applied \subseteq more,
         Head(proc[p].todo) = 14 => 14 \in more,
         Head(proc[p].todo) = 19 => 19 \in more
  PROVE  LET n == [todo |-> Tail(proc[p].todo), looked |-> FALSE, captured |-> proc[p].captured]
         IN  n \in Opener /\ InOrder(n, more) /\ CapturedIsTrue(n)
<1> DEFINE n == [todo |-> Tail(proc[p].todo), looked |-> FALSE, captured |-> proc[p].captured]
<1>1. proc[p] \in Opener /\ InOrder(proc[p], applied) /\ CapturedIsTrue(proc[p])
  BY DEF OwnersInv, OwnersTyped, OpenersKnow
<1>2. n \in Opener
  BY <1>1 DEF Opener
<1>3. InOrder(proc[p], more)
  BY <1>1, MoreDone
<1>4. InOrder(n, more)
  BY <1>1, <1>2, <1>3, TailInOrder
<1>5. CapturedIsTrue(n)
  BY <1>1 DEF CapturedIsTrue
<1> QED
  BY <1>2, <1>4, <1>5

\* What the migrations of the attestations leave has its type.
LEMMA RepairTyped ==
  ASSUME OwnersInv, RepairAttestations
  PROVE  /\ attested' \in [Batches -> AttestationRow]
         /\ 18 \in applied => attested' = attested
<1>1. attested \in [Batches -> AttestationRow] /\ NoAttestation \in AttestationRow
  BY DEF OwnersInv, OwnersTyped, NoAttestation, AttestationRow
<1> QED
  BY <1>1 DEF RepairAttestations

\* A migration changes owners and attestations within their types, never what was
\* imported, and an audit leaves owners that are true.
LEMMA MigrateTyped ==
  ASSUME OwnersInv, NEW v \in Versions, NEW n \in Opener, CapturedIsTrue(n),
         Migrate(v, n.captured), UNCHANGED evidence, v \notin applied,
         18 \in applied => v \notin {14, 19}
  PROVE  /\ batch' \in [Batches -> BatchRow] /\ attested' \in [Batches -> AttestationRow]
         /\ \A b \in Batches : batch'[b].made = batch[b].made /\ batch'[b].for = batch[b].for
         /\ v = 23 => batch' = batch
         /\ 18 \in applied \/ v = 18 => AuditedAreTrue'
<1>0. /\ batch \in [Batches -> BatchRow] /\ attested \in [Batches -> AttestationRow]
      /\ evidence \in [Batches -> SUBSET Repositories] /\ AuditedAreTrue
  BY DEF OwnersInv, OwnersTyped
<1>1. CASE v = 14 /\ Guess
  <2>1. PICK guess \in [Batches -> Repositories \cup {Store, None}] :
          batch' = [b \in Batches |-> [batch[b] EXCEPT !.owner = guess[b]]]
    BY <1>1 DEF Guess
  <2>2. \A b \in Batches : [batch[b] EXCEPT !.owner = guess[b]] \in BatchRow
          /\ batch'[b].made = batch[b].made /\ batch'[b].for = batch[b].for
    BY <1>0, <2>1 DEF BatchRow
  <2>3. attested' = attested
    BY <1>1 DEF Guess
  <2> QED
    BY <1>0, <1>1, <2>1, <2>2, <2>3
<1>2. CASE v = 18 /\ Audit(n.captured)
  BY <1>2, AuditStep
<1>3. CASE v = 19 /\ DiscardInvalid /\ UNCHANGED batch
  <2>1. NoAttestation \in AttestationRow
    BY DEF NoAttestation, AttestationRow
  <2>2. attested' \in [Batches -> AttestationRow]
    BY <1>0, <1>3, <2>1 DEF DiscardInvalid
  <2> QED
    BY <1>0, <1>3, <2>2
<1>4. CASE v = 21 /\ RepairAttestations /\ UNCHANGED batch
  <2>1. 18 \in applied => AuditedAreTrue'
    BY <1>0, <1>4, RepairTyped DEF AuditedAreTrue, Present, Direct
  <2> QED
    BY <1>0, <1>4, <2>1, RepairTyped
<1>5. CASE v \in {16, 17, 20, 22, 23} /\ UNCHANGED <<batch, attested>>
  BY <1>0, <1>5 DEF AuditedAreTrue, Present, Direct
<1> QED
  BY <1>1, <1>2, <1>3, <1>4, <1>5 DEF Migrate

\* A migration in a transaction of its own keeps the invariant.
LEMMA ApplyStep ==
  ASSUME OwnersInv, NEW p \in Processes, Apply(p)
  PROVE  OwnersInv'
<1>1. UNCHANGED evidence
  BY DEF Apply, Outside
<1>2. PICK v \in Versions :
        /\ Doing(p, v)
        /\ \/ /\ v \notin applied /\ Migrate(v, proc[p].captured)
              /\ Record({v}, v) /\ Advance(p)
           \/ Fail(p) /\ UNCHANGED Database
  BY DEF Apply
<1>3. CASE Fail(p) /\ UNCHANGED Database
  BY <1>1, <1>3, FailStep
<1>4. CASE v \notin applied /\ Migrate(v, proc[p].captured) /\ Record({v}, v) /\ Advance(p)
  <2> DEFINE n == [todo |-> Tail(proc[p].todo), looked |-> FALSE, captured |-> proc[p].captured]
  <2>1. /\ applied' = applied \cup {v} /\ applied \subseteq Versions /\ proc[p].todo # << >>
        /\ Head(proc[p].todo) = v /\ proc' = [proc EXCEPT ![p] = n]
    BY <1>2, <1>4, AdvanceIs DEF Record, Doing, OwnersInv, OwnersTyped
  <2>2. n \in Opener /\ InOrder(n, applied') /\ CapturedIsTrue(n) /\ n.captured = proc[p].captured
    BY <2>1, AdvancedInOrder
  <2>3. /\ v # 14 => 14 \in applied
        /\ v \in 16..22 => 15 \in applied
        /\ v = 18 => 19 \in applied
    <3>1. proc[p].todo \in Seq(Nat) /\ InOrder(proc[p], applied)
      BY DEF OwnersInv, OwnersTyped, OpenersKnow, Opener
    <3>2. 1 \in 1..Len(proc[p].todo) /\ proc[p].todo[1] = v
      BY <2>1, <3>1
    <3>3. v # 14 => 14 \in applied
      BY <2>1, <3>1, <3>2 DEF InOrder
    <3>4. /\ v \in 16..22 => 15 \in applied
          /\ v = 18 => {18, 19} \cap applied # {} \/ \E j \in 1..(1 - 1) : proc[p].todo[j] = 19
      BY <3>1, <3>2 DEF InOrder
    <3>5. v = 18 => 19 \in applied
      BY <1>4, <3>4
    <3> QED
      BY <3>3, <3>4, <3>5
  <2>4. AuditComesLast /\ OwnersUntouched
    BY DEF OwnersInv
  <2>5. 18 \in applied => v \notin {14, 19}
    BY <1>4, <2>4 DEF AuditComesLast
  <2>6. /\ batch' \in [Batches -> BatchRow] /\ attested' \in [Batches -> AttestationRow]
        /\ \A b \in Batches : batch'[b].made = batch[b].made /\ batch'[b].for = batch[b].for
        /\ v = 23 => batch' = batch
        /\ 18 \in applied \/ v = 18 => AuditedAreTrue'
    <3>1. Migrate(v, n.captured)
      BY <1>4, <2>2
    <3> HIDE DEF n
    <3> QED
      BY <1>1, <1>4, <2>2, <2>5, <3>1, MigrateTyped
  <2>7. AuditComesLast'
    BY <2>1, <2>3, <2>4 DEF AuditComesLast
  <2>8. OwnersUntouched'
    <3>1. \A b \in Batches : Direct(b)' = Direct(b)
      BY <2>6 DEF Direct
    <3>a. v \in {14, 15, 23} \cup (16..22)
      BY DEF Versions
    <3>b. applied' = applied \cup {v}
      BY <2>1
    <3>2. 15 \notin applied' => v = 14 \/ (v = 23 /\ 14 \in applied)
      BY ONLY <2>3, <3>a, <3>b
    <3> QED
      BY <1>4, <2>1, <2>4, <2>6, <3>1, <3>2 DEF OwnersUntouched
  <2>9. AuditedAreTrue'
    <3>1. 18 \notin applied' => AuditedAreTrue'
      BY DEF AuditedAreTrue
    <3> QED
      BY <2>1, <2>6, <3>1
  <2> HIDE DEF n
  <2> QED
    BY <1>1, <2>1, <2>2, <2>6, <2>7, <2>8, <2>9, Migrates
<1> QED
  BY <1>2, <1>3, <1>4

\* What a process does of an audit before its transaction keeps the invariant.
LEMMA PrepareAuditStep ==
  ASSUME OwnersInv, NEW p \in Processes, PrepareAudit(p)
  PROVE  OwnersInv'
<1> DEFINE n == [todo |-> Tail(proc[p].todo), looked |-> FALSE, captured |-> proc[p].captured]
<1>1. proc[p].todo # << >> /\ Head(proc[p].todo) = 5 /\ proc' = [proc EXCEPT ![p] = n]
  BY AdvanceIs DEF PrepareAudit, Doing, Prepare
<1>2. UNCHANGED <<applied, batch, evidence>> /\ RepairAttestations
  BY DEF PrepareAudit, Outside
<1>a. applied \subseteq applied' /\ Head(proc[p].todo) # 14 /\ Head(proc[p].todo) # 19
  BY <1>1, <1>2
<1>3. n \in Opener /\ InOrder(n, applied') /\ CapturedIsTrue(n)
  BY <1>1, <1>a, AdvancedInOrder
<1>4. attested' \in [Batches -> AttestationRow] /\ (18 \in applied => attested' = attested)
  BY <1>2, RepairTyped
<1>5. AuditComesLast' /\ OwnersUntouched' /\ AuditedAreTrue'
  BY <1>2, <1>4 DEF OwnersInv, AuditComesLast, OwnersUntouched, AuditedAreTrue, Present, Direct
<1>6. applied' \subseteq Versions /\ applied \subseteq applied' /\ batch' \in [Batches -> BatchRow]
  BY <1>2 DEF OwnersInv, OwnersTyped
<1> HIDE DEF n
<1> QED
  BY <1>1, <1>2, <1>3, <1>4, <1>5, <1>6, Migrates

\* The transaction that audits keeps the invariant.
LEMMA ApplyWholeStep ==
  ASSUME OwnersInv, NEW p \in Processes, ApplyWhole(p)
  PROVE  OwnersInv'
<1>1. UNCHANGED evidence /\ Doing(p, 3)
  BY DEF ApplyWhole, Outside, Whole
<1>2. CASE Fail(p) /\ UNCHANGED Database
  BY <1>1, <1>2, FailStep
<1>3. CASE 15 \notin applied /\ Audit(proc[p].captured) /\ Record(15..22, 22) /\ Advance(p)
  <2> DEFINE n == [todo |-> Tail(proc[p].todo), looked |-> FALSE, captured |-> proc[p].captured]
  <2>1. /\ applied' = applied \cup (15..22) /\ applied \subseteq Versions /\ proc[p].todo # << >>
        /\ Head(proc[p].todo) = 3 /\ proc' = [proc EXCEPT ![p] = n]
    BY <1>1, <1>3, AdvanceIs DEF Record, Doing, OwnersInv, OwnersTyped
  <2>a. applied \subseteq applied' /\ Head(proc[p].todo) # 14 /\ Head(proc[p].todo) # 19
    BY <2>1
  <2>2. n \in Opener /\ InOrder(n, applied') /\ CapturedIsTrue(n) /\ n.captured = proc[p].captured
    BY <2>1, <2>a, AdvancedInOrder
  <2>3. 14 \in applied
    <3>1. proc[p].todo \in Seq(Nat) /\ InOrder(proc[p], applied)
      BY DEF OwnersInv, OwnersTyped, OpenersKnow, Opener
    <3> QED
      BY <2>1, <3>1 DEF InOrder
  <2>4. /\ batch' \in [Batches -> BatchRow] /\ attested' \in [Batches -> AttestationRow]
        /\ \A b \in Batches : batch'[b].made = batch[b].made /\ batch'[b].for = batch[b].for
        /\ AuditedAreTrue'
    <3>1. Audit(n.captured)
      BY <1>3, <2>2
    <3> HIDE DEF n
    <3> QED
      BY <1>1, <2>2, <3>1, AuditStep
  <2>5. {14, 15, 19} \subseteq applied' /\ applied \subseteq applied' /\ applied' \subseteq Versions
    BY <2>1, <2>3 DEF Versions
  <2>6. AuditComesLast' /\ OwnersUntouched'
    BY <2>5 DEF AuditComesLast, OwnersUntouched
  <2> HIDE DEF n
  <2> QED
    BY <1>1, <2>1, <2>2, <2>4, <2>5, <2>6, Migrates
<1> QED
  BY <1>2, <1>3 DEF ApplyWhole

\* What others do leaves the processes and the migrations as they are.
LEMMA EnvironmentStep ==
  ASSUME OwnersInv, Environment
  PROVE  OwnersInv'
<1>1. PICK b \in Batches, r \in Repositories \cup {Store} :
        \/ r # Store /\ \E names \in SUBSET Repositories : Import(b, r, names)
        \/ r # Store /\ RecordPath(b, r)
        \/ \E authority \in {"explicit_repair", "captured_direct"} : Attest(b, r, authority)
  BY DEF Environment
<1>2. UNCHANGED <<applied, proc>>
  BY <1>1 DEF Import, RecordPath, Attest, Database
<1>0. /\ batch \in [Batches -> BatchRow] /\ attested \in [Batches -> AttestationRow]
      /\ evidence \in [Batches -> SUBSET Repositories]
  BY DEF OwnersInv, OwnersTyped
<1>3. ASSUME OwnersTyped', OwnersUntouched', AuditedAreTrue',
             \A a \in Batches : Direct(a) => Direct(a)' /\ batch'[a].for = batch[a].for
      PROVE  OwnersInv'
  <2>1. AuditComesLast'
    BY <1>2 DEF OwnersInv, AuditComesLast
  <2>2. OpenersKnow'
    BY <1>2, <1>3 DEF OwnersInv, OpenersKnow, CapturedIsTrue, InOrder
  <2> QED
    BY <1>3, <2>1, <2>2 DEF OwnersInv
<1>4. CASE r # Store /\ \E names \in SUBSET Repositories : Import(b, r, names)
  <2>1. PICK names \in SUBSET Repositories : Import(b, r, names)
    BY <1>4
  <2> DEFINE row == IF 14 \in applied
                      THEN [made |-> "direct", for |-> r, owner |-> IF release = 13 THEN None ELSE r]
                      ELSE [made |-> "before", for |-> None, owner |-> None]
  <2>2. /\ batch[b] = NoBatch /\ batch' = [batch EXCEPT ![b] = row] /\ row \in BatchRow
        /\ evidence' = [evidence EXCEPT ![b] = names] /\ UNCHANGED attested
        /\ release = 13 => 15 \notin applied
    BY <1>4, <2>1 DEF Import, BatchRow
  <2>3. OwnersTyped'
    BY <1>0, <1>2, <2>2 DEF OwnersInv, OwnersTyped
  <2>4. /\ batch'[b] = row /\ ~Direct(b) /\ b \notin Present
        /\ \A a \in Batches \ {b} : batch'[a] = batch[a] /\ evidence'[a] = evidence[a]
    BY <1>0, <2>2 DEF NoBatch, Direct, Present
  <2>5. \A a \in Batches : Direct(a) => Direct(a)' /\ batch'[a].for = batch[a].for
    BY <2>4 DEF Direct
  <2>6. OwnersUntouched'
    BY <1>2, <2>4 DEF OwnersInv, OwnersUntouched, Direct
  <2>7. AuditedAreTrue'
    <3>1. 18 \in applied => 14 \in applied /\ 15 \in applied
      BY DEF OwnersInv, AuditComesLast
    <3>2. \A a \in Batches \ {b} : a \in Present' <=> a \in Present
      BY <2>4 DEF Present
    <3>3. 18 \in applied => Direct(b)' /\ batch'[b].owner = batch'[b].for
      BY <2>2, <2>4, <3>1 DEF Direct
    <3>4. \A a \in Batches \ {b} : Direct(a)' = Direct(a)
      BY <2>4 DEF Direct
    <3>5. Present \subseteq Batches /\ Present' \subseteq Batches /\ AuditedAreTrue
      BY DEF Present, OwnersInv
    <3> QED
      BY <1>2, <2>2, <2>4, <3>2, <3>3, <3>4, <3>5 DEF AuditedAreTrue
  <2> QED
    BY <1>3, <2>3, <2>5, <2>6, <2>7
<1>5. CASE r # Store /\ RecordPath(b, r)
  <2>1. /\ UNCHANGED <<batch, attested>> /\ evidence' = [evidence EXCEPT ![b] = @ \cup {r}]
        /\ r \in Repositories
    BY <1>5 DEF RecordPath, Database
  <2>2. OwnersTyped'
    BY <1>0, <1>2, <2>1 DEF OwnersInv, OwnersTyped
  <2>3. \A a \in Batches : evidence[a] \subseteq evidence'[a]
    BY <1>0, <2>1
  <2>4. OwnersUntouched' /\ \A a \in Batches : Direct(a)' = Direct(a)
    BY <1>2, <2>1 DEF OwnersInv, OwnersUntouched, Direct
  <2>5. AuditedAreTrue'
    BY <1>2, <2>1, <2>3, <2>4 DEF OwnersInv, AuditedAreTrue, Present
  <2> QED
    BY <1>3, <2>1, <2>2, <2>4, <2>5
<1>6. CASE \E authority \in {"explicit_repair", "captured_direct"} : Attest(b, r, authority)
  <2>1. PICK authority \in {"explicit_repair", "captured_direct"} : Attest(b, r, authority)
    BY <1>6
  <2>2. /\ UNCHANGED <<batch, evidence>> /\ attested' = [attested EXCEPT ![b] = Attestation(r, authority)]
        /\ attested[b] = NoAttestation /\ b \in Present
    BY <2>1 DEF Attest
  <2>3. OwnersTyped'
    BY <1>0, <1>2, <2>2 DEF OwnersInv, OwnersTyped, Attestation, AttestationRow
  <2>4. OwnersUntouched' /\ Present' = Present /\ \A a \in Batches : Direct(a)' = Direct(a)
    BY <1>2, <2>2 DEF OwnersInv, OwnersUntouched, Direct, Present
  <2>5. AuditedAreTrue'
    <3> SUFFICES ASSUME 18 \in applied, NEW a \in Present
                 PROVE  IF Direct(a)
                          THEN \/ batch[a].owner = batch[a].for
                               \/ attested'[a] = Attestation(batch[a].owner, "explicit_repair")
                          ELSE /\ attested'[a] = Attestation(batch[a].owner, "immutable_evidence")
                               /\ batch[a].owner \in evidence[a]
      BY <1>2, <2>2, <2>4 DEF AuditedAreTrue, Present
    <3>1. IF Direct(a)
            THEN \/ batch[a].owner = batch[a].for
                 \/ attested[a] = Attestation(batch[a].owner, "explicit_repair")
            ELSE /\ attested[a] = Attestation(batch[a].owner, "immutable_evidence")
                 /\ batch[a].owner \in evidence[a]
      BY DEF OwnersInv, AuditedAreTrue
    <3>2. a # b => attested'[a] = attested[a]
      BY <1>0, <2>2 DEF Present
    <3>3. NoAttestation # Attestation(batch[a].owner, "immutable_evidence")
          /\ NoAttestation # Attestation(batch[a].owner, "explicit_repair")
      BY DEF NoAttestation, Attestation
    <3> QED
      BY <2>2, <3>1, <3>2, <3>3
  <2> QED
    BY <1>3, <2>2, <2>3, <2>4, <2>5
<1> QED
  BY <1>1, <1>4, <1>5, <1>6

\* The invariant of the owners is inductive.
LEMMA OwnersKept == OwnersInv /\ [OwnersNext]_ownersVars => OwnersInv'
<1> SUFFICES ASSUME OwnersInv, [OwnersNext]_ownersVars PROVE OwnersInv'
  OBVIOUS
<1>1. CASE Environment
  BY <1>1, EnvironmentStep
<1>2. ASSUME NEW p \in Processes, Open(p) \/ Step(p) \/ Crash(p) PROVE OwnersInv'
  <2>1. CASE Crash(p)
    BY <2>1, FailStep DEF Crash
  <2> QED
    BY <1>2, <2>1, OpenStep, LookStep, ApplyStep, ReadOwnersStep, ChoosePathStep, ApplyWholeStep,
       LookForAuditStep, PrepareAuditStep DEF Step
<1>3. CASE UNCHANGED ownersVars
  BY <1>3 DEF ownersVars, OwnersInv, OwnersTyped, AuditComesLast, OwnersUntouched, OpenersKnow,
              CapturedIsTrue, InOrder, AuditedAreTrue, Present, Direct
<1> QED
  BY <1>1, <1>2, <1>3 DEF OwnersNext

EvidenceRow == {Evidence!NoEvidence, Evidence!From("source", 1), Evidence!From("synthetic", 1)}
ImportRow ==
  [made : SUBSET Evidence!Parts, sources : SUBSET Evidence!Parts, members : SUBSET Evidence!Parts,
   finalized : BOOLEAN, evidence : [Evidence!Parts -> EvidenceRow],
   attested : {"none", "import_preview", "explicit_repair"}, revised : SUBSET Evidence!Parts]

\* What is finalized of a batch is true.
RowTrue(s, x) ==
  x.finalized =>
    /\ s >= 25 => x.members = x.made
    /\ s >= 28 => \A d \in x.made :
         x.evidence[d] = Evidence!From(IF d \in x.sources THEN "source" ELSE "synthetic", 1)
    /\ s >= 28 => (x.attested # "none") = ("epic" \notin x.sources)

RowOK(s, x) ==
  /\ x \in ImportRow
  /\ x.made # {} => "epic" \in x.made
  /\ x.finalized => "epic" \in x.made /\ s >= 24
  /\ x.attested # "none" => "epic" \notin x.sources
  /\ x.evidence["epic"].from = "synthetic" => x.attested # "none"
  /\ RowTrue(s, x)

EvidenceInv ==
  /\ version \in 22..30
  /\ DOMAIN import = ImportedBatches /\ import = [b \in ImportedBatches |-> import[b]]
  /\ \A b \in ImportedBatches : RowOK(version, import[b])

RowKept(s, x, y) ==
  x.finalized =>
    /\ y.finalized /\ y.members = x.members
    /\ \A d \in Evidence!Parts : x.evidence[d] # Evidence!NoEvidence => y.evidence[d] = x.evidence[d]
    /\ s = 30 => y.attested = x.attested

\* The parts of an import, and the schema of this release.
LEMMA PartsAre == Evidence!Parts = {"epic", "feature", "work_item"} /\ Evidence!Current = 30
BY DEF Evidence!Parts, Evidence!Current

\* Evidence of the imported revision names the source, or that there is none.
LEMMA EvidenceIs ==
  ASSUME NEW x \in ImportRow, ~Evidence!EvidenceFails(x), NEW d \in x.members
  PROVE  x.evidence[d] = Evidence!From(IF d \in x.sources THEN "source" ELSE "synthetic", 1)
<1>1. d \in Evidence!Parts /\ x.evidence[d] \in EvidenceRow
  BY DEF ImportRow
<1>2. /\ x.evidence[d].revision = 1
      /\ x.evidence[d].from = "source" => d \in x.sources
      /\ x.evidence[d].from = "synthetic" => d \notin x.sources
  BY DEF Evidence!EvidenceFails
<1> QED
  BY <1>1, <1>2 DEF EvidenceRow, Evidence!NoEvidence, Evidence!From

\* A finalized batch that passes the checks of migration 28 is true, if what describes an
\* Epic without a source is an attestation.
LEMMA ChecksTell ==
  ASSUME NEW x \in ImportRow, x.members = x.made, "epic" \in x.made, ~Evidence!EvidenceFails(x),
         x.attested # "none" => "epic" \notin x.sources,
         x.evidence["epic"].from = "synthetic" => x.attested # "none", NEW s
  PROVE  RowTrue(s, x)
<1>1. \A d \in x.made : x.evidence[d] = Evidence!From(IF d \in x.sources THEN "source" ELSE "synthetic", 1)
  BY EvidenceIs
<1>2. "epic" \notin x.sources => x.evidence["epic"].from = "synthetic"
  <2>1. "epic" \notin x.sources => x.evidence["epic"] = Evidence!From("synthetic", 1)
    BY <1>1
  <2> QED
    BY <2>1 DEF Evidence!From
<1>3. (x.attested # "none") = ("epic" \notin x.sources)
  BY <1>2
<1> QED
  BY <1>1, <1>3 DEF RowTrue

\* A batch whose members pass has all its parts as members.
LEMMA MembersAre ==
  ASSUME NEW x, ~Evidence!MembershipFails(x)
  PROVE  x.members = x.made
BY DEF Evidence!MembershipFails, Evidence!Expected

\* Migration 28 gives evidence only where there is none, and synthetic evidence only to
\* an Epic that is attested.
LEMMA BackfilledEvidence ==
  ASSUME NEW x \in ImportRow
  PROVE  LET y == Evidence!BackfillEvidence(x)
         IN  /\ y \in ImportRow
             /\ y.made = x.made /\ y.sources = x.sources /\ y.members = x.members
             /\ y.finalized = x.finalized /\ y.attested = x.attested
             /\ \A d \in Evidence!Parts : x.evidence[d] # Evidence!NoEvidence => y.evidence[d] = x.evidence[d]
             /\ y.evidence["epic"].from = "synthetic" =>
                  x.evidence["epic"].from = "synthetic" \/ x.attested # "none"
<1> DEFINE new == [d \in Evidence!Parts |->
             IF ~x.finalized \/ d \notin x.members \/ x.evidence[d] # Evidence!NoEvidence
               THEN x.evidence[d]
             ELSE IF d \in x.sources THEN Evidence!From("source", 1)
             ELSE IF d = "epic" /\ x.attested # "none" THEN Evidence!From("synthetic", 1)
             ELSE Evidence!NoEvidence]
<1>1. Evidence!BackfillEvidence(x) = [x EXCEPT !.evidence = new]
  BY DEF Evidence!BackfillEvidence
<1>2. new \in [Evidence!Parts -> EvidenceRow]
  BY DEF ImportRow, EvidenceRow
<1>3. \A d \in Evidence!Parts : x.evidence[d] # Evidence!NoEvidence => new[d] = x.evidence[d]
  OBVIOUS
<1>4. new["epic"].from = "synthetic" => x.evidence["epic"].from = "synthetic" \/ x.attested # "none"
  BY PartsAre DEF Evidence!From, Evidence!NoEvidence
<1> HIDE DEF new
<1> QED
  BY <1>1, <1>2, <1>3, <1>4 DEF ImportRow

\* A migration that validates a batch leaves it true, and keeps what was finalized.
LEMMA MigratedRow ==
  ASSUME NEW s \in 22..29, NEW x, RowOK(s, x),
         Evidence!Validated(s + 1, Evidence!Backfilled(s + 1, x))
  PROVE  RowOK(s + 1, Evidence!Backfilled(s + 1, x)) /\ RowKept(s, x, Evidence!Backfilled(s + 1, x))
<1> DEFINE y == Evidence!Backfilled(s + 1, x)
<1>1. CASE s = 22
  <2>1. y = [x EXCEPT !.members = x.made]
    BY <1>1 DEF Evidence!Backfilled, Evidence!BackfillMembers, Evidence!Expected
  <2>2. ~x.finalized
    BY <1>1 DEF RowOK
  <2> QED
    BY <1>1, <2>1, <2>2 DEF RowOK, RowTrue, RowKept, ImportRow
<1>2. CASE s = 23
  <2>1. y = [x EXCEPT !.members = x.made, !.finalized = x.made # {}]
    BY <1>2 DEF Evidence!Backfilled, Evidence!BackfillFinalizations, Evidence!Expected
  <2>2. ~x.finalized /\ x \in ImportRow
    BY <1>2 DEF RowOK
  <2>3. /\ y \in ImportRow /\ y.made = x.made /\ y.sources = x.sources /\ y.finalized = (x.made # {})
        /\ y.attested = x.attested /\ y.evidence = x.evidence
    BY <2>1, <2>2 DEF ImportRow
  <2> HIDE DEF y
  <2>a. RowTrue(s + 1, y) /\ RowKept(s, x, y)
    BY <1>2, <2>2 DEF RowTrue, RowKept
  <2>b. /\ y.made # {} => "epic" \in y.made
        /\ y.finalized => y.made # {}
        /\ y.attested # "none" => "epic" \notin y.sources
        /\ y.evidence["epic"].from = "synthetic" => y.attested # "none"
    BY <2>3 DEF RowOK
  <2>4. RowOK(s + 1, y) /\ RowKept(s, x, y)
    BY <1>2, <2>3, <2>a, <2>b DEF RowOK
  <2> QED
    BY <2>4 DEF y
<1>3. CASE s \in {24, 25, 26, 28, 29}
  <2>1. y = x
    BY <1>3 DEF Evidence!Backfilled
  <2>2. x.finalized /\ s + 1 \in {25, 26} => x.members = x.made
    BY <1>3, <2>1, MembersAre DEF Evidence!Validated
  <2> QED
    BY <1>3, <2>1, <2>2 DEF RowOK, RowTrue, RowKept
<1>4. CASE s = 27
  <2>1. y = Evidence!BackfillEvidence(x)
    BY <1>4 DEF Evidence!Backfilled
  <2>2. y.finalized => ~Evidence!MembershipFails(y) /\ ~Evidence!EvidenceFails(y)
    BY <1>4 DEF Evidence!Validated
  <2> HIDE DEF y
  <2>3. x \in ImportRow
    BY DEF RowOK
  <2>4. /\ y \in ImportRow
        /\ y.made = x.made /\ y.sources = x.sources /\ y.members = x.members
        /\ y.finalized = x.finalized /\ y.attested = x.attested
        /\ \A d \in Evidence!Parts : x.evidence[d] # Evidence!NoEvidence => y.evidence[d] = x.evidence[d]
        /\ y.evidence["epic"].from = "synthetic" =>
             x.evidence["epic"].from = "synthetic" \/ x.attested # "none"
    BY <2>1, <2>3, BackfilledEvidence
  <2>5. /\ y.made # {} => "epic" \in y.made
        /\ y.finalized => "epic" \in y.made
        /\ y.attested # "none" => "epic" \notin y.sources
        /\ y.evidence["epic"].from = "synthetic" => y.attested # "none"
    BY <2>4 DEF RowOK
  <2>6. y.finalized => y.members = y.made
    BY <2>2, MembersAre
  <2>7. y.finalized => RowTrue(s + 1, y)
    BY <2>2, <2>4, <2>5, <2>6, ChecksTell
  <2>8. RowTrue(s + 1, y)
    BY <2>7 DEF RowTrue
  <2>9. RowKept(s, x, y)
    BY <1>4, <2>4 DEF RowKept
  <2>10. RowOK(s + 1, y)
    BY <1>4, <2>4, <2>5, <2>8 DEF RowOK
  <2> QED
    BY <2>9, <2>10 DEF y
<1> QED
  BY <1>1, <1>2, <1>3, <1>4

\* What an import of any release inserts, and may finalize, is true.
LEMMA InsertedRow ==
  ASSUME NEW s \in 22..30, NEW r \in Nat, r <= s,
         NEW made \in {{"epic", "feature"}, Evidence!Parts}, NEW sourced \in SUBSET Evidence!Parts,
         NEW y, y = Evidence!Inserted(r, made, sourced),
         y.finalized => Evidence!Finalizable(s, y)
  PROVE  RowOK(s, y)
<1> DEFINE new == [d \in Evidence!Parts |->
             IF r < 27 \/ d \notin made THEN Evidence!NoEvidence
             ELSE Evidence!From(IF d \in sourced THEN "source" ELSE "synthetic", 1)]
<1>1. new \in [Evidence!Parts -> EvidenceRow]
  <2>1. ASSUME NEW d \in Evidence!Parts PROVE new[d] \in EvidenceRow
    <3>1. CASE d \in sourced
      BY <3>1 DEF EvidenceRow
    <3>2. CASE d \notin sourced
      BY <3>2 DEF EvidenceRow
    <3> QED
      BY <3>1, <3>2
  <2> QED
    BY <2>1
<1>2. new["epic"].from = "synthetic" => r >= 27 /\ "epic" \notin sourced
  BY PartsAre DEF Evidence!From, Evidence!NoEvidence
<1> DEFINE finalized == r >= 24
           members == IF r >= 23 THEN made ELSE {}
           attesting == IF r >= 27 /\ "epic" \notin sourced THEN "import_preview" ELSE "none"
<1>3. y = [made |-> made, sources |-> sourced, members |-> members, finalized |-> finalized,
           evidence |-> new, attested |-> attesting, revised |-> {}]
  BY DEF Evidence!Inserted, Evidence!Absent
<1>a. "epic" \in made /\ made \subseteq Evidence!Parts
  BY PartsAre
<1>b. /\ members \subseteq Evidence!Parts /\ attesting \in {"none", "import_preview"}
      /\ finalized \in BOOLEAN /\ (finalized => r >= 24 /\ members = made)
      /\ attesting # "none" => "epic" \notin sourced
      /\ r >= 27 /\ "epic" \notin sourced => attesting # "none"
  BY <1>a
<1> HIDE DEF new, members, attesting, finalized
<1>c. /\ y.made = made /\ y.sources = sourced /\ y.members = members
      /\ y.finalized = finalized /\ y.evidence = new /\ y.attested = attesting
  BY <1>3
<1>4. "epic" \in y.made
  BY <1>a, <1>c
<1>5. y \in ImportRow
  BY <1>1, <1>3, <1>a, <1>b DEF ImportRow
<1>6. /\ y.made # {} => "epic" \in y.made
      /\ y.finalized => "epic" \in y.made /\ s >= 24
      /\ y.attested # "none" => "epic" \notin y.sources
      /\ y.evidence["epic"].from = "synthetic" => y.attested # "none"
  BY <1>2, <1>4, <1>b, <1>c
<1>7. y.finalized => y.members = y.made
  BY <1>b, <1>c
<1>8. RowTrue(s, y)
  <2>1. y.finalized /\ s >= 28 => ~Evidence!EvidenceFails(y)
    BY DEF Evidence!Finalizable
  <2>2. y.finalized /\ s >= 28 => RowTrue(s, y)
    BY <1>4, <1>5, <1>6, <1>7, <2>1, ChecksTell
  <2> QED
    BY <1>7, <2>2 DEF RowTrue
<1> QED
  BY <1>5, <1>6, <1>8 DEF RowOK

\* A step of one batch.
LEMMA OneBatch ==
  ASSUME EvidenceInv, NEW b \in ImportedBatches, NEW y,
         import' = [import EXCEPT ![b] = y], version' = version,
         RowOK(version, y), RowKept(version, import[b], y)
  PROVE  EvidenceInv' /\ Evidence!FinalizedKept
<1>1. /\ DOMAIN import' = ImportedBatches /\ import' = [a \in ImportedBatches |-> import'[a]]
      /\ \A a \in ImportedBatches : import'[a] = IF a = b THEN y ELSE import[a]
  BY DEF EvidenceInv
<1>2. ASSUME NEW a \in ImportedBatches
      PROVE  RowOK(version', import'[a]) /\ RowKept(version, import[a], import'[a])
  BY <1>1 DEF EvidenceInv, RowKept
<1>3. EvidenceInv'
  BY <1>1, <1>2 DEF EvidenceInv
<1>4. Evidence!FinalizedKept
  BY <1>2, PartsAre DEF Evidence!FinalizedKept, RowKept
<1> QED
  BY <1>3, <1>4

\* What earlier releases leave of the imports satisfies the invariant.
LEMMA EvidenceStart == Evidence!Init => EvidenceInv
<1> SUFFICES ASSUME Evidence!Init PROVE EvidenceInv
  OBVIOUS
<1>1. version = 22 /\ import = [b \in ImportedBatches |-> Evidence!Absent]
  BY DEF Evidence!Init
<1>2. RowOK(22, Evidence!Absent)
  <2>1. [d \in Evidence!Parts |-> Evidence!NoEvidence] \in [Evidence!Parts -> EvidenceRow]
    BY DEF EvidenceRow
  <2>2. [d \in Evidence!Parts |-> Evidence!NoEvidence]["epic"].from # "synthetic"
    BY PartsAre DEF Evidence!NoEvidence
  <2> QED
    BY <2>1, <2>2 DEF RowOK, RowTrue, Evidence!Absent, ImportRow
<1> QED
  BY <1>1, <1>2 DEF EvidenceInv

\* The invariant of the evidence is inductive, and no step takes back what is finalized.
LEMMA EvidenceStep ==
  ASSUME EvidenceInv, Evidence!Next
  PROVE  EvidenceInv' /\ Evidence!FinalizedKept
<1>1. CASE Evidence!Migrate
  <2>1. /\ version \in 22..29 /\ version' = version + 1
        /\ import' = [b \in ImportedBatches |-> Evidence!Backfilled(version + 1, import[b])]
        /\ \A b \in ImportedBatches : Evidence!Validated(version + 1, import'[b])
    BY <1>1, PartsAre DEF Evidence!Migrate, EvidenceInv
  <2>2. ASSUME NEW b \in ImportedBatches
        PROVE  RowOK(version + 1, import'[b]) /\ RowKept(version, import[b], import'[b])
    <3>1. import'[b] = Evidence!Backfilled(version + 1, import[b])
      BY <2>1
    <3>2. RowOK(version, import[b]) /\ Evidence!Validated(version + 1, Evidence!Backfilled(version + 1, import[b]))
      BY <2>1, <3>1 DEF EvidenceInv
    <3> QED
      BY <2>1, <3>1, <3>2, MigratedRow
  <2>3. EvidenceInv'
    BY <2>1, <2>2 DEF EvidenceInv
  <2>4. Evidence!FinalizedKept
    BY <2>2, PartsAre DEF Evidence!FinalizedKept, RowKept
  <2> QED
    BY <2>3, <2>4
<1>2. ASSUME NEW b \in ImportedBatches, Evidence!Attest(b)
      PROVE  EvidenceInv' /\ Evidence!FinalizedKept
  <2> DEFINE x == import[b]
             y == [x EXCEPT !.attested = "explicit_repair"]
  <2>1. RowOK(version, x) /\ version \in 22..30
    BY DEF EvidenceInv
  <2>2. /\ import' = [import EXCEPT ![b] = y] /\ version' = version /\ "epic" \in x.members \ x.sources
        /\ version >= 30 => x.attested = "none"
    BY <1>2 DEF Evidence!Attest, Evidence!Attestable, Evidence!Generated
  <2>3. /\ y \in ImportRow /\ y.made = x.made /\ y.sources = x.sources /\ y.members = x.members
        /\ y.finalized = x.finalized /\ y.evidence = x.evidence /\ y.attested = "explicit_repair"
    BY <2>1 DEF RowOK, ImportRow
  <2> HIDE DEF y
  <2>4. RowTrue(version, y)
    BY <2>1, <2>2, <2>3 DEF RowOK, RowTrue
  <2>5. RowOK(version, y)
    BY <2>1, <2>2, <2>3, <2>4 DEF RowOK
  <2>6. RowKept(version, x, y)
    BY <2>1, <2>2, <2>3 DEF RowOK, RowTrue, RowKept
  <2> QED
    BY <2>2, <2>5, <2>6, OneBatch
<1>3. ASSUME NEW b \in ImportedBatches, NEW d \in Evidence!Parts, Evidence!Reparent(b, d)
      PROVE  EvidenceInv' /\ Evidence!FinalizedKept
  <2> DEFINE x == import[b]
             gone == IF d = "feature" THEN {d, "work_item"} ELSE {d}
             y == [x EXCEPT !.made = @ \ gone]
  <2>1. RowOK(version, x) /\ version \in 22..30
    BY DEF EvidenceInv
  <2>2. /\ import' = [import EXCEPT ![b] = y] /\ version' = version /\ "epic" \notin gone
        /\ version >= 25 => ~x.finalized
    BY <1>3 DEF Evidence!Reparent, Evidence!ParentFixed
  <2>3. /\ y \in ImportRow /\ y.made = x.made \ gone /\ y.sources = x.sources /\ y.members = x.members
        /\ y.finalized = x.finalized /\ y.evidence = x.evidence /\ y.attested = x.attested
    BY <2>1 DEF RowOK, ImportRow
  <2> HIDE DEF y, gone
  <2>4. RowOK(version, y) /\ RowKept(version, x, y)
    BY <2>1, <2>2, <2>3 DEF RowOK, RowTrue, RowKept
  <2> QED
    BY <2>2, <2>4, OneBatch
<1>4. ASSUME NEW b \in ImportedBatches, NEW r \in ImportReleases, Evidence!Apply(b, r)
      PROVE  EvidenceInv' /\ Evidence!FinalizedKept
  <2>1. PICK made \in {{"epic", "feature"}, Evidence!Parts}, sourced \in {{"feature"}, {"epic", "feature"}} :
          LET x == Evidence!Inserted(r, made, sourced \cup (made \ {"epic"})) IN
          (x.finalized => Evidence!Finalizable(version, x)) /\ import' = [import EXCEPT ![b] = x]
    BY <1>4 DEF Evidence!Apply
  <2> DEFINE y == Evidence!Inserted(r, made, sourced \cup (made \ {"epic"}))
  <2>2. /\ r \in Nat /\ r <= version /\ version \in 22..30 /\ version' = version
        /\ sourced \cup (made \ {"epic"}) \in SUBSET Evidence!Parts
    BY <1>4, PartsAre, ReleasesAssumption DEF Evidence!Apply, EvidenceInv
  <2>3. import' = [import EXCEPT ![b] = y] /\ (y.finalized => Evidence!Finalizable(version, y))
    BY <2>1
  <2>4. RowOK(version, y)
    BY <2>2, <2>3, InsertedRow
  <2>5. RowKept(version, import[b], y)
    BY <1>4 DEF Evidence!Apply, EvidenceInv, RowOK, RowKept
  <2> HIDE DEF y
  <2> QED
    BY <2>2, <2>3, <2>4, <2>5, OneBatch
<1>5. ASSUME NEW b \in ImportedBatches, NEW d \in Evidence!Parts, Evidence!Revise(b, d)
      PROVE  EvidenceInv' /\ Evidence!FinalizedKept
  <2> DEFINE x == import[b]
             y == [x EXCEPT !.revised = @ \cup {d}]
  <2>1. RowOK(version, x)
    BY DEF EvidenceInv
  <2>2. import' = [import EXCEPT ![b] = y] /\ version' = version
    BY <1>5 DEF Evidence!Revise
  <2>3. /\ y \in ImportRow /\ y.made = x.made /\ y.sources = x.sources /\ y.members = x.members
        /\ y.finalized = x.finalized /\ y.evidence = x.evidence /\ y.attested = x.attested
    BY <2>1 DEF RowOK, ImportRow
  <2> HIDE DEF y
  <2>4. RowOK(version, y) /\ RowKept(version, x, y)
    BY <2>1, <2>3 DEF RowOK, RowTrue, RowKept
  <2> QED
    BY <2>2, <2>4, OneBatch
<1> QED
  BY <1>1, <1>2, <1>3, <1>4, <1>5 DEF Evidence!Next


\* An audit is never taken back.
LEMMA AuditKept ==
  ASSUME OwnersInv, OwnersNext, 18 \in applied, NEW b \in Present
  PROVE  /\ batch'[b] = batch[b]
         /\ attested[b] # NoAttestation => attested'[b] = attested[b]
<1>1. /\ b \in Batches /\ batch[b].made # "absent" /\ {14, 15, 19} \subseteq applied
      /\ batch \in [Batches -> BatchRow] /\ attested \in [Batches -> AttestationRow]
  BY DEF Present, OwnersInv, OwnersTyped, AuditComesLast
<1>2. CASE Environment
  <2>1. PICK a \in Batches, r \in Repositories \cup {Store} :
          \/ r # Store /\ \E names \in SUBSET Repositories : Import(a, r, names)
          \/ r # Store /\ RecordPath(a, r)
          \/ \E authority \in {"explicit_repair", "captured_direct"} : Attest(a, r, authority)
    BY <1>2 DEF Environment
  <2>2. ASSUME NEW names \in SUBSET Repositories, Import(a, r, names)
        PROVE  batch'[b] = batch[b] /\ attested' = attested
    <3>1. a # b
      BY <1>1, <2>2 DEF Import, NoBatch
    <3> QED
      BY <1>1, <2>2, <3>1 DEF Import
  <2>3. CASE RecordPath(a, r)
    BY <2>3 DEF RecordPath, Database
  <2>4. ASSUME NEW authority \in {"explicit_repair", "captured_direct"}, Attest(a, r, authority)
        PROVE  batch' = batch /\ (attested[b] # NoAttestation => attested'[b] = attested[b])
    BY <1>1, <2>4 DEF Attest
  <2> QED
    BY <2>1, <2>2, <2>3, <2>4
<1>3. ASSUME NEW p \in Processes, Apply(p)
      PROVE  batch' = batch /\ attested' = attested
  <2>1. PICK v \in Versions :
          \/ v \notin applied /\ Migrate(v, proc[p].captured)
          \/ UNCHANGED Database
    BY <1>3 DEF Apply
  <2>2. CASE v \notin applied /\ Migrate(v, proc[p].captured)
    <3>1. v \notin {14, 18, 19}
      BY <1>1, <2>2
    <3>2. CASE RepairAttestations /\ UNCHANGED batch
      BY <3>2, RepairTyped
    <3> QED
      BY <2>2, <3>1, <3>2 DEF Migrate
  <2>3. CASE UNCHANGED Database
    BY <2>3 DEF Database
  <2> QED
    BY <2>1, <2>2, <2>3
<1>4. ASSUME NEW p \in Processes, PrepareAudit(p)
      PROVE  batch' = batch /\ attested' = attested
  BY <1>4, RepairTyped DEF PrepareAudit
<1>5. ASSUME NEW p \in Processes, ApplyWhole(p)
      PROVE  batch' = batch /\ attested' = attested
  BY <1>1, <1>5 DEF ApplyWhole, Database
<1>6. ASSUME NEW p \in Processes,
             Open(p) \/ Look(p) \/ ReadOwners(p) \/ ChoosePath(p) \/ LookForAudit(p) \/ Crash(p)
      PROVE  batch' = batch /\ attested' = attested
  BY <1>6 DEF Open, Look, ReadOwners, ChoosePath, LookForAudit, Crash, Database
<1> QED
  BY <1>2, <1>3, <1>4, <1>5, <1>6 DEF OwnersNext, Step

\* The owners that a database has, alone.
THEOREM OwnersAreTrue == OwnersSpec => []AuditedAreTrue
<1>1. OwnersInv => AuditedAreTrue
  BY DEF OwnersInv
<1> QED
  BY <1>1, OwnersStart, OwnersKept, PTL DEF OwnersSpec

\* An audit is final, for every number of batches, repositories and processes and every
\* order of their steps: no later migration, and no process that had found an older list,
\* changes an owner or an attestation again (Database::open_and_migrate, settle).
THEOREM AuditsStay == OwnersSpec => AuditStays
<1>1. OwnersInv /\ [OwnersNext]_ownersVars =>
        [18 \in applied => \A b \in Present :
           /\ batch'[b] = batch[b]
           /\ attested[b] # NoAttestation => attested'[b] = attested[b]]_ownersVars
  BY AuditKept
<1> QED
  BY <1>1, OwnersStart, OwnersKept, PTL DEF OwnersSpec, AuditStays

\* The invariant of whichever stretch of the upgrade the database goes through.
UpgradeInv == IF upgrade = "owners" THEN OwnersInv ELSE EvidenceInv

\* Either stretch starts in its invariant.
LEMMA UpgradeStart == UpgradeInit => UpgradeInv
BY OwnersStart, EvidenceStart DEF UpgradeInit, UpgradeInv

\* Either stretch keeps its invariant.
LEMMA UpgradeStep == UpgradeInv /\ [UpgradeNext]_upgradeVars => UpgradeInv'
<1> SUFFICES ASSUME UpgradeInv, [UpgradeNext]_upgradeVars PROVE UpgradeInv'
  OBVIOUS
<1>1. CASE upgrade = "owners"
  <2>1. upgrade' = "owners" /\ [OwnersNext]_ownersVars
    BY <1>1 DEF UpgradeNext, upgradeVars
  <2> QED
    BY <1>1, <2>1, OwnersKept DEF UpgradeInv
<1>2. CASE upgrade # "owners"
  <2>1. upgrade' = upgrade /\ (Evidence!Next \/ UNCHANGED <<version, import, reparents>>)
    BY <1>2 DEF UpgradeNext, upgradeVars
  <2>2. EvidenceInv'
    <3>1. CASE Evidence!Next
      BY <1>2, <3>1, EvidenceStep DEF UpgradeInv
    <3>2. CASE UNCHANGED <<version, import, reparents>>
      BY <1>2, <3>2 DEF UpgradeInv, EvidenceInv
    <3> QED
      BY <2>1, <3>1, <3>2
  <2> QED
    BY <1>2, <2>1, <2>2 DEF UpgradeInv
<1> QED
  BY <1>1, <1>2

\* Whatever the upgrade settles is true, for every number of processes, batches, repositories
\* and imports and whatever earlier releases, crashes and rivals left: the owners that the
\* audit gives (open_and_migrate, settle), and the members and the evidence of a finalized
\* import (the migrations 23 to 30).
THEOREM SettledTrue == UpgradeSpec => []SettledIsTrue
<1>1. UpgradeInv => SettledIsTrue
  <2>1. OwnersInv => AuditedAreTrue
    BY DEF OwnersInv
  <2>2. EvidenceInv => Evidence!FinalizedIsTrue
    BY DEF EvidenceInv, RowOK, RowTrue, Evidence!FinalizedIsTrue
  <2> QED
    BY <2>1, <2>2 DEF UpgradeInv, SettledIsTrue
<1> QED
  BY <1>1, UpgradeStart, UpgradeStep, PTL DEF UpgradeSpec

\* What is finalized stays so, with its members and its evidence, through every later migration,
\* import, update and repair, for every number of imports and every release that inserts
\* them (the triggers of the migrations 24 to 30).
THEOREM FinalizationsStay == UpgradeSpec => FinalizedStays
<1>1. UpgradeInv /\ [UpgradeNext]_upgradeVars =>
        [upgrade = "evidence" => Evidence!FinalizedKept]_upgradeVars
  <2> SUFFICES ASSUME UpgradeInv, UpgradeNext, upgrade = "evidence"
               PROVE  Evidence!FinalizedKept
    OBVIOUS
  <2>1. EvidenceInv /\ Evidence!Next
    BY DEF UpgradeInv, UpgradeNext
  <2> QED
    BY <2>1, EvidenceStep
<1> QED
  BY <1>1, UpgradeStart, UpgradeStep, PTL DEF UpgradeSpec, FinalizedStays

-----------------------------------------------------------------------------
(* Sessions of older catalogues.                                           *)

Ids == Natives \cup Conversations

\* Finite functions from the ids that catalogues list.
Ways == {<< >>} \cup UNION {[S -> Ids] : S \in SUBSET Conversations}

\* The rows of candidates, the calls and the rows of associations.
Candidate ==
  [repository : Codebases, checkout : Worktrees \cup {Nothing},
   status : {"unassigned", "confirmed", "ignored"}, told : DOMAIN Listed]

ImportCall ==
  [pc : {"replay", "import", "reconcile", "enrich", "resolve", "write"}, preview : Reviewed,
   repository : Codebases, found : Ways, doomed : SUBSET Ids]

Association == [session : Ids, item : Items, current : BOOLEAN]

\* The rows of the catalogues keep to their values.
RowsTyped ==
  /\ sources \in [Natives -> Ids \cup {Nothing}]
  /\ associations \subseteq Association
  /\ candidates \in [Ids -> {Catalogue!NoCandidate} \cup Candidate]
  /\ destinations \in [Reviewed -> Ways]
  /\ process \in [Importers -> {Catalogue!Idle} \cup ImportCall]

\* An id names the session it was made up or listed for, and no other names it.
SessionsOK(s) ==
  /\ s \in [Ids -> Natives \cup {Nothing}]
  /\ \A n \in Natives : s[n] \in {Nothing, n}
  /\ \A c \in Conversations : s[c] # Nothing =>
       \A v \in DOMAIN Listed : c \in DOMAIN Listed[v] => Listed[v][c].native = s[c]
  /\ \A d, e \in Ids : s[d] # Nothing /\ s[d] = s[e] => d = e

\* What is found leads to the session that is listed, or keeps the id it is listed under.
FoundOK(n, s) ==
  /\ DOMAIN n.found \subseteq DOMAIN n.preview.adopt
  /\ \A c \in DOMAIN n.found :
       s[n.found[c]] = Listed[n.preview.catalogue][c].native \/ n.found[c] = c
  /\ \A c, e \in DOMAIN n.found : n.found[c] = n.found[e] => c = e

\* A transaction has an id for each session it takes, and adopts with items of its repository.
WriteOK(n) ==
  n.pc = "write" =>
    /\ DOMAIN n.found = DOMAIN n.preview.adopt
    /\ \A c \in DOMAIN n.preview.adopt : n.preview.adopt[c] # Nothing =>
         Belongs[n.preview.adopt[c]] = n.repository

\* What a call knows.
CallOK(n, s) ==
  n.pc # "idle" => Catalogue!ValidPreview(n.preview) /\ FoundOK(n, s) /\ WriteOK(n)

CallsOK == \A i \in Importers : CallOK(process[i], sessions)

\* Where a batch and a transcript lead.
LeadsOK(s, src, dest) ==
  /\ \A p \in Reviewed : \A c \in DOMAIN dest[p] :
       /\ c \in DOMAIN p.adopt
       /\ s[dest[p][c]] = Listed[p.catalogue][c].native
  /\ \A n \in Natives : src[n] # Nothing => s[src[n]] = n

\* The inductive invariant of the catalogues.
CatalogueInv ==
  RowsTyped /\ SessionsOK(sessions) /\ LeadsOK(sessions, sources, destinations) /\ CallsOK
    /\ Catalogue!ConfirmedIsAdopted

\* A call that has found its batch is of the repository the batch was applied for, and
\* goes to delete candidates that the catalogue of the batch places elsewhere.
CallDoomed(n, b, dest) ==
  /\ n.pc \in {"replay", "reconcile"} => b[n.preview] = n.repository
  /\ n.pc = "reconcile" => \A d \in n.doomed : \E c \in DOMAIN dest[n.preview] :
       /\ dest[n.preview][c] = d
       /\ ~Catalogue!MatchesRepository(n.preview.catalogue, c, n.repository)

DoomedInv ==
  /\ batches \in [Reviewed -> Codebases \cup {Nothing}]
  /\ \A i \in Importers : CallDoomed(process[i], batches, destinations)

\* What is decided stays: so it does in every step but a reconciliation.
DecisionsHeld == \A d \in Ids : candidates[d].status \in {"confirmed", "ignored"} => Catalogue!Kept(d)

\* An id that names a session goes on naming it.
Later(s, t) == \A d \in Ids : s[d] # Nothing => t[d] = s[d]

-----------------------------------------------------------------------------
\* A finite function from conversations leads from conversations to ids.
LEMMA WayTyped == ASSUME NEW w \in Ways, NEW c \in DOMAIN w PROVE c \in Conversations /\ w[c] \in Ids
BY DEF Ways

\* What a preview adopts is listed in its catalogue, under an id of a native session.
LEMMA ListedTyped ==
  ASSUME NEW p \in Reviewed, NEW c \in DOMAIN p.adopt
  PROVE  /\ p.catalogue \in DOMAIN Listed /\ c \in DOMAIN Listed[p.catalogue]
         /\ c \in Conversations /\ c \in Ids /\ c \notin Natives
         /\ Listed[p.catalogue][c].native \in Natives
         /\ Listed[p.catalogue][c].native # Nothing
         /\ Listed[p.catalogue][c].tree \in Worktrees \cup {Nothing}
         /\ p.adopt[c] \in Items \cup {Nothing}
<1>1. p.catalogue \in DOMAIN Listed /\ DOMAIN p.adopt \subseteq DOMAIN Listed[p.catalogue]
      /\ p.adopt[c] \in Items \cup {Nothing}
  BY CatalogueAssumption
<1>2. c \in DOMAIN Listed[p.catalogue]
  BY <1>1
<1>3. DOMAIN Listed[p.catalogue] \subseteq Conversations /\ Listed[p.catalogue][c].native \in Natives
      /\ Listed[p.catalogue][c].tree \in Worktrees \cup {Nothing}
  BY <1>1, <1>2, CatalogueAssumption
<1> QED
  BY <1>1, <1>2, <1>3, CatalogueAssumption DEF Ids

\* Catalogues that list one id list one session under it.
LEMMA SameListed ==
  ASSUME NEW v \in DOMAIN Listed, NEW w \in DOMAIN Listed, NEW c \in DOMAIN Listed[v], c \in DOMAIN Listed[w]
  PROVE  Listed[v][c].native = Listed[w][c].native
BY CatalogueAssumption

\* Ids that are known stay known: so do the leads of batches, transcripts and calls.
LEMMA LeadsStay ==
  ASSUME NEW s, NEW t, NEW src, NEW dest, SessionsOK(s), Later(s, t), LeadsOK(s, src, dest),
         dest \in [Reviewed -> Ways], src \in [Natives -> Ids \cup {Nothing}]
  PROVE  LeadsOK(t, src, dest)
<1>1. ASSUME NEW p \in Reviewed, NEW c \in DOMAIN dest[p]
      PROVE  c \in DOMAIN p.adopt /\ t[dest[p][c]] = Listed[p.catalogue][c].native
  <2>1. dest[p][c] \in Ids
    BY <1>1, WayTyped
  <2>2. c \in DOMAIN p.adopt /\ s[dest[p][c]] = Listed[p.catalogue][c].native
    BY <1>1 DEF LeadsOK
  <2> QED
    BY <2>1, <2>2, ListedTyped DEF Later
<1>2. ASSUME NEW n \in Natives, src[n] # Nothing PROVE t[src[n]] = n
  BY <1>2, CatalogueAssumption DEF Later, LeadsOK
<1> QED
  BY <1>1, <1>2 DEF LeadsOK

\* What a call knows stays true while sessions only gain names.
LEMMA CallStays ==
  ASSUME NEW s, NEW t, Later(s, t), NEW n \in {Catalogue!Idle} \cup ImportCall, CallOK(n, s)
  PROVE  CallOK(n, t)
<1> SUFFICES ASSUME n.pc # "idle" PROVE FoundOK(n, t)
  BY DEF CallOK
<1>1. n \in ImportCall /\ FoundOK(n, s)
  BY DEF CallOK, Catalogue!Idle
<1>2. ASSUME NEW c \in DOMAIN n.found
      PROVE  t[n.found[c]] = Listed[n.preview.catalogue][c].native \/ n.found[c] = c
  <2>1. n.found \in Ways /\ n.preview \in Reviewed
    BY <1>1 DEF ImportCall
  <2>2. n.found[c] \in Ids /\ c \in DOMAIN n.preview.adopt
    BY <1>1, <1>2, <2>1, WayTyped DEF FoundOK
  <2> QED
    BY <1>1, <1>2, <2>1, <2>2, ListedTyped DEF FoundOK, Later
<1> QED
  BY <1>1, <1>2 DEF FoundOK

\* One call goes on, and sessions become known at most.
LEMMA CallsGoOn ==
  ASSUME RowsTyped, CallsOK, Later(sessions, sessions'),
         NEW i \in Importers, NEW n \in {Catalogue!Idle} \cup ImportCall,
         process' = [process EXCEPT ![i] = n], CallOK(n, sessions')
  PROVE  process' \in [Importers -> {Catalogue!Idle} \cup ImportCall] /\ CallsOK'
<1>1. process \in [Importers -> {Catalogue!Idle} \cup ImportCall]
  BY DEF RowsTyped
<1>2. ASSUME NEW j \in Importers PROVE CallOK(process'[j], sessions')
  <2>1. CASE j = i BY <1>1, <2>1
  <2>2. CASE j # i
    <3>1. process'[j] = process[j] /\ process[j] \in {Catalogue!Idle} \cup ImportCall
      BY <1>1, <2>2
    <3>2. CallOK(process[j], sessions')
      BY <3>1, CallStays DEF CallsOK
    <3> QED BY <3>1, <3>2
  <2> QED BY <2>1, <2>2
<1> QED
  BY <1>1, <1>2 DEF CallsOK

\* So does what all calls know.
LEMMA CallsStay ==
  ASSUME RowsTyped, CallsOK, Later(sessions, sessions'), process' = process
  PROVE  process' \in [Importers -> {Catalogue!Idle} \cup ImportCall] /\ CallsOK'
<1>1. ASSUME NEW j \in Importers PROVE CallOK(process'[j], sessions')
  <2>1. process[j] \in {Catalogue!Idle} \cup ImportCall
    BY DEF RowsTyped
  <2> QED BY <2>1, CallStays DEF CallsOK
<1> QED
  BY <1>1 DEF CallsOK, RowsTyped

\* A process outside of calls knows nothing that could be wrong.
LEMMA IdleOK == ASSUME NEW s PROVE CallOK(Catalogue!Idle, s)
BY DEF CallOK, Catalogue!Idle

\* What a call knows at one of its points.
LEMMA AtCall ==
  ASSUME RowsTyped, CallsOK, NEW i \in Importers, NEW pc, Catalogue!At(i, pc), pc # "idle"
  PROVE  /\ process[i] \in ImportCall /\ process[i].pc = pc
         /\ Catalogue!ValidPreview(process[i].preview) /\ FoundOK(process[i], sessions)
         /\ WriteOK(process[i])
<1>1. process[i] \in {Catalogue!Idle} \cup ImportCall /\ process[i].pc # "idle"
  BY DEF RowsTyped, Catalogue!At
<1>2. process[i] # Catalogue!Idle
  BY <1>1 DEF Catalogue!Idle
<1> QED
  BY <1>1, <1>2 DEF CallsOK, CallOK, Catalogue!At

\* A call that returns leaves the others as they are.
LEMMA ReturnKeeps ==
  ASSUME RowsTyped, CallsOK, Later(sessions, sessions'), NEW i \in Importers, Catalogue!Return(i)
  PROVE  process' \in [Importers -> {Catalogue!Idle} \cup ImportCall] /\ CallsOK'
BY CallsGoOn, IdleOK DEF Catalogue!Return

\* A call that goes on before its transaction knows what it knew.
LEMMA GotoKeeps ==
  ASSUME RowsTyped, CallsOK, Later(sessions, sessions'), NEW i \in Importers,
         NEW pc \in {"reconcile", "enrich", "resolve"}, NEW doomed \in SUBSET Ids,
         process[i] \in ImportCall, CallOK(process[i], sessions),
         \/ Catalogue!Goto(i, pc)
         \/ process' = [process EXCEPT ![i].pc = pc, ![i].doomed = doomed]
  PROVE  process' \in [Importers -> {Catalogue!Idle} \cup ImportCall] /\ CallsOK'
<1>1. PICK n \in ImportCall : /\ process' = [process EXCEPT ![i] = n] /\ n.pc = pc
                              /\ n.preview = process[i].preview /\ n.found = process[i].found
  <2>1. CASE Catalogue!Goto(i, pc)
    <3> DEFINE n == [process[i] EXCEPT !.pc = pc]
    <3>1. n \in ImportCall /\ n.pc = pc /\ n.preview = process[i].preview /\ n.found = process[i].found
      BY DEF ImportCall
    <3>2. process' = [process EXCEPT ![i] = n]
      BY <2>1 DEF Catalogue!Goto, RowsTyped
    <3> QED BY <3>1, <3>2
  <2>2. CASE process' = [process EXCEPT ![i].pc = pc, ![i].doomed = doomed]
    <3> DEFINE n == [process[i] EXCEPT !.pc = pc, !.doomed = doomed]
    <3>1. n \in ImportCall /\ n.pc = pc /\ n.preview = process[i].preview /\ n.found = process[i].found
      BY DEF ImportCall
    <3>2. process' = [process EXCEPT ![i] = n]
      BY <2>2 DEF RowsTyped
    <3> QED BY <3>1, <3>2
  <2> QED BY <2>1, <2>2
<1>2. process[i].pc # "idle"
  BY DEF ImportCall
<1>3. CallOK(n, sessions)
  BY <1>1, <1>2 DEF CallOK, FoundOK, WriteOK
<1>4. CallOK(n, sessions')
  BY <1>3, CallStays
<1> QED
  BY <1>1, <1>4, CallsGoOn

\* A step of a call that writes nothing.
LEMMA NothingWritten ==
  ASSUME CatalogueInv, UNCHANGED <<sessions, sources, associations, candidates, destinations>>,
         process' \in [Importers -> {Catalogue!Idle} \cup ImportCall] /\ CallsOK'
  PROVE  CatalogueInv' /\ DecisionsHeld
<1>1. RowsTyped' /\ SessionsOK(sessions)' /\ LeadsOK(sessions, sources, destinations)'
  BY DEF CatalogueInv, RowsTyped, SessionsOK, LeadsOK
<1>2. Catalogue!ConfirmedIsAdopted'
  BY DEF CatalogueInv, Catalogue!ConfirmedIsAdopted
<1>3. DecisionsHeld
  BY DEF DecisionsHeld, Catalogue!Kept
<1> QED
  BY <1>1, <1>2, <1>3 DEF CatalogueInv

\* What is held is kept.
LEMMA DecisionsHeldAreKept == ASSUME DecisionsHeld PROVE Catalogue!DecisionKept
BY DEF DecisionsHeld, Catalogue!DecisionKept, Catalogue!Ids, Ids

\* Sessions that stay as they are are later sessions.
LEMMA SameLater == ASSUME sessions' = sessions PROVE Later(sessions, sessions')
BY DEF Later

\* Candidates change, and every one that is confirmed was so or is adopted now.
LEMMA CandidatesChange ==
  ASSUME CatalogueInv, UNCHANGED <<sessions, sources, destinations>>,
         process' \in [Importers -> {Catalogue!Idle} \cup ImportCall] /\ CallsOK',
         candidates' \in [Ids -> {Catalogue!NoCandidate} \cup Candidate],
         associations' \subseteq Association,
         \A a \in associations : \E b \in associations' : b.session = a.session /\ b.item = a.item,
         \A d \in Ids : candidates'[d].status = "confirmed" =>
           \/ /\ candidates[d].status = "confirmed"
              /\ candidates'[d].repository = candidates[d].repository
           \/ \E a \in associations' : a.session = d /\ Belongs[a.item] = candidates'[d].repository
  PROVE  CatalogueInv'
<1>1. RowsTyped' /\ SessionsOK(sessions)' /\ LeadsOK(sessions, sources, destinations)'
  BY DEF CatalogueInv, RowsTyped, SessionsOK, LeadsOK
<1>2. Catalogue!ConfirmedIsAdopted'
  <2> SUFFICES ASSUME NEW d \in Ids, candidates'[d].status = "confirmed"
               PROVE  \E a \in associations' : a.session = d /\ Belongs[a.item] = candidates'[d].repository
    BY DEF Catalogue!ConfirmedIsAdopted, Ids, Catalogue!Ids
  <2>1. CASE candidates[d].status = "confirmed" /\ candidates'[d].repository = candidates[d].repository
    <3>1. PICK a \in associations : a.session = d /\ Belongs[a.item] = candidates[d].repository
      BY <2>1 DEF CatalogueInv, Catalogue!ConfirmedIsAdopted, Ids, Catalogue!Ids
    <3>2. PICK b \in associations' : b.session = a.session /\ b.item = a.item
      BY <3>1
    <3> QED BY <2>1, <3>1, <3>2
  <2> QED BY <2>1
<1> QED
  BY <1>1, <1>2 DEF CatalogueInv

\* The id of a session that is known.
LEMMA KnownId ==
  ASSUME NEW n, Catalogue!Known(n) # {}
  PROVE  /\ (CHOOSE d \in Catalogue!Known(n) : TRUE) \in Ids
         /\ sessions[CHOOSE d \in Catalogue!Known(n) : TRUE] = n
BY DEF Catalogue!Known, Catalogue!Ids, Ids

\* A native session is known under one id at most.
LEMMA OneKnown ==
  ASSUME SessionsOK(sessions), NEW n \in Natives
  PROVE  \A d, e \in Catalogue!Known(n) : d = e
BY CatalogueAssumption DEF SessionsOK, Catalogue!Known, Catalogue!Ids, Ids

\* The invariant gives what is promised.
LEMMA CatalogueInvPromises ==
  ASSUME CatalogueInv PROVE Catalogue!SessionsAreTheirs /\ Catalogue!ConfirmedIsAdopted
<1>1. \A n \in Natives : \A d, e \in Catalogue!Known(n) : d = e
  BY OneKnown DEF CatalogueInv
<1>2. \A p \in Reviewed : \A c \in DOMAIN destinations[p] :
        sessions[destinations[p][c]] = Listed[p.catalogue][c].native
  BY DEF CatalogueInv, LeadsOK
<1>3. \A n \in Natives : sources[n] # Nothing => sessions[sources[n]] = n
  BY DEF CatalogueInv, LeadsOK
<1>4. Catalogue!SessionsAreTheirs
  BY <1>1, <1>2, <1>3 DEF Catalogue!SessionsAreTheirs
<1> QED
  BY <1>4 DEF CatalogueInv

\* Without sessions, and with previews that were validated, the invariant holds.
LEMMA CatalogueStart == Catalogue!Init => CatalogueInv
<1> SUFFICES ASSUME Catalogue!Init PROVE CatalogueInv
  OBVIOUS
<1> USE DEF Ids, Catalogue!Ids
<1>1. PICK p \in Reviewed \cup {Nothing}, r \in Codebases :
       IF p = Nothing
         THEN /\ sessions = [d \in Ids |-> Nothing]
              /\ candidates = [d \in Ids |-> Catalogue!NoCandidate]
              /\ destinations = [q \in Reviewed |-> << >>]
         ELSE /\ Catalogue!ValidPreview(p)
              /\ sessions = [d \in Ids |-> IF d \in DOMAIN p.adopt
                                THEN Listed[p.catalogue][d].native ELSE Nothing]
              /\ \E older \in [DOMAIN p.adopt -> Catalogue!OlderCandidate(r, p.catalogue)] :
                   candidates = [d \in Ids |-> IF d \in DOMAIN p.adopt THEN older[d]
                                                                  ELSE Catalogue!NoCandidate]
              /\ destinations = [q \in Reviewed |->
                                  IF q = p THEN [c \in DOMAIN p.adopt |-> c] ELSE << >>]
  BY DEF Catalogue!Init
<1>2. /\ sources = [n \in Natives |-> Nothing] /\ associations = {}
      /\ process = [i \in Importers |-> Catalogue!Idle]
  BY DEF Catalogue!Init
<1>3. CallsOK
  BY <1>2, IdleOK DEF CallsOK
<1>4. CASE p = Nothing
  <2>1. RowsTyped
    BY <1>1, <1>2, <1>4 DEF RowsTyped, Ways
  <2>2. SessionsOK(sessions)
    BY <1>1, <1>4, CatalogueAssumption DEF SessionsOK
  <2>3. LeadsOK(sessions, sources, destinations)
    BY <1>1, <1>2, <1>4 DEF LeadsOK
  <2>4. Catalogue!ConfirmedIsAdopted
    BY <1>1, <1>4 DEF Catalogue!ConfirmedIsAdopted, Catalogue!NoCandidate
  <2> QED BY <1>3, <2>1, <2>2, <2>3, <2>4 DEF CatalogueInv
<1>5. CASE p # Nothing
  <2> DEFINE taken == DOMAIN p.adopt
  <2>1. p \in Reviewed /\ taken \subseteq Conversations /\ p.catalogue \in DOMAIN Listed
        /\ \A c \in taken : c \in DOMAIN Listed[p.catalogue] /\ Listed[p.catalogue][c].native \in Natives
    BY <1>1, <1>5, ListedTyped, CatalogueAssumption
  <2>2. PICK older \in [taken -> Catalogue!OlderCandidate(r, p.catalogue)] :
          candidates = [d \in Ids |-> IF d \in taken THEN older[d] ELSE Catalogue!NoCandidate]
    BY <1>1, <1>5
  <2>3. \A c \in taken : older[c] \in Candidate /\ older[c].status # "confirmed"
    BY <2>1, <2>2 DEF Catalogue!OlderCandidate, Candidate
  <2>4. [c \in taken |-> c] \in Ways /\ << >> \in Ways
    <3>1. [c \in taken |-> c] \in [taken -> Ids] /\ taken \in SUBSET Conversations
      BY <2>1
    <3> QED BY <3>1 DEF Ways
  <2>5. RowsTyped
    <3>1. destinations \in [Reviewed -> Ways]
      BY <1>1, <1>5, <2>1, <2>4
    <3>2. candidates \in [Ids -> {Catalogue!NoCandidate} \cup Candidate]
      BY <2>2, <2>3
    <3> QED BY <1>2, <3>1, <3>2 DEF RowsTyped
  <2>6. SessionsOK(sessions)
    <3>1. sessions = [d \in Ids |-> IF d \in taken THEN Listed[p.catalogue][d].native ELSE Nothing]
      BY <1>1, <1>5
    <3>2. \A c, e \in taken : Listed[p.catalogue][c].native = Listed[p.catalogue][e].native => c = e
      BY <1>1, <1>5 DEF Catalogue!ValidPreview
    <3>3. sessions \in [Ids -> Natives \cup {Nothing}] /\ \A n \in Natives : sessions[n] = Nothing
      BY <2>1, <3>1, CatalogueAssumption
    <3>4. ASSUME NEW c \in Conversations, sessions[c] # Nothing, NEW v \in DOMAIN Listed, c \in DOMAIN Listed[v]
          PROVE  Listed[v][c].native = sessions[c]
      <4>1. c \in taken /\ sessions[c] = Listed[p.catalogue][c].native
        BY <3>1, <3>4
      <4> QED BY <2>1, <3>4, <4>1, SameListed
    <3>5. \A d, e \in Ids : sessions[d] # Nothing /\ sessions[d] = sessions[e] => d = e
      BY <3>1, <3>2
    <3> QED BY <3>3, <3>4, <3>5 DEF SessionsOK
  <2>7. LeadsOK(sessions, sources, destinations)
    <3>1. ASSUME NEW q \in Reviewed, NEW c \in DOMAIN destinations[q]
          PROVE  c \in DOMAIN q.adopt /\ sessions[destinations[q][c]] = Listed[q.catalogue][c].native
      <4>1. CASE q = p
        BY <1>1, <1>5, <2>1, <3>1, <4>1
      <4>2. CASE q # p
        BY <1>1, <1>5, <3>1, <4>2
      <4> QED BY <4>1, <4>2
    <3> QED BY <1>2, <3>1 DEF LeadsOK
  <2>8. Catalogue!ConfirmedIsAdopted
    BY <2>2, <2>3 DEF Catalogue!ConfirmedIsAdopted, Catalogue!NoCandidate
  <2> QED BY <1>3, <2>5, <2>6, <2>7, <2>8 DEF CatalogueInv
<1> QED
  BY <1>4, <1>5

-----------------------------------------------------------------------------
\* Beginning an import keeps the invariant.
LEMMA ApplyKeeps ==
  ASSUME CatalogueInv, NEW i \in Importers, NEW p \in Reviewed, NEW r \in Codebases,
         Catalogue!Apply(i, p, r)
  PROVE  CatalogueInv' /\ DecisionsHeld
<1>1. UNCHANGED <<sessions, sources, associations, candidates, destinations>>
      /\ Catalogue!ValidPreview(p)
  BY DEF Catalogue!Apply, Catalogue!found, Catalogue!imports
<1> DEFINE n == [pc |-> IF Catalogue!ExistingImport(p, r) THEN "replay" ELSE "import", preview |-> p,
                 repository |-> r, found |-> << >>, doomed |-> {}]
<1>2. process' = [process EXCEPT ![i] = n]
  BY DEF Catalogue!Apply
<1>3. n \in ImportCall /\ CallOK(n, sessions')
  BY <1>1 DEF ImportCall, Ways, CallOK, FoundOK, WriteOK
<1> HIDE DEF n
<1>4. process' \in [Importers -> {Catalogue!Idle} \cup ImportCall] /\ CallsOK'
  BY <1>1, <1>2, <1>3, CallsGoOn, SameLater DEF CatalogueInv
<1> QED
  BY <1>1, <1>4, NothingWritten

\* Finding a batch that is imported already keeps the invariant.
LEMMA ReplayKeeps ==
  ASSUME CatalogueInv, NEW i \in Importers, Catalogue!Replay(i)
  PROVE  CatalogueInv' /\ DecisionsHeld
<1>1. UNCHANGED <<sessions, sources, associations, candidates, destinations>>
  BY DEF Catalogue!Replay, Catalogue!found, Catalogue!imports
<1>2. RowsTyped /\ CallsOK /\ Later(sessions, sessions') /\ CallOK(process[i], sessions)
      /\ process[i] \in ImportCall
  BY <1>1, AtCall, SameLater DEF CatalogueInv, CallsOK, Catalogue!Replay
<1> DEFINE doomed == {destinations[process[i].preview][c] :
              c \in Catalogue!Mismatched(i) \cap DOMAIN destinations[process[i].preview]}
<1>3. doomed \in SUBSET Ids
  <2>1. destinations[process[i].preview] \in Ways
    BY <1>2 DEF RowsTyped, ImportCall
  <2> QED BY <2>1, WayTyped
<1>4. \/ Catalogue!Return(i) \/ Catalogue!Goto(i, "enrich")
      \/ process' = [process EXCEPT ![i].pc = "reconcile", ![i].doomed = doomed]
  BY DEF Catalogue!Replay
<1> HIDE DEF doomed
<1>5. process' \in [Importers -> {Catalogue!Idle} \cup ImportCall] /\ CallsOK'
  BY <1>2, <1>3, <1>4, ReturnKeeps, GotoKeeps
<1> QED
  BY <1>1, <1>5, NothingWritten

\* Reconciling the candidates with other catalogues keeps the invariant and every
\* decision.
LEMMA ReconcileKeeps ==
  ASSUME CatalogueInv, DoomedInv, NEW i \in Importers, Catalogue!Reconcile(i)
  PROVE  CatalogueInv' /\ Catalogue!DecisionKept
<1> DEFINE here == {d \in process[i].doomed : candidates[d].status # "absent" /\
                      candidates[d].repository = process[i].repository}
           gone == [d \in Ids |-> IF d \in here THEN Catalogue!NoCandidate ELSE candidates[d]]
<1>1. UNCHANGED <<sessions, sources, associations, destinations>>
  BY DEF Catalogue!Reconcile, Catalogue!found, Catalogue!imports
<1>2. RowsTyped /\ CallsOK /\ Later(sessions, sessions') /\ CallOK(process[i], sessions)
      /\ process[i] \in ImportCall
  BY <1>1, AtCall, SameLater DEF CatalogueInv, CallsOK, Catalogue!Reconcile
<1>3. \/ Catalogue!Return(i) /\ UNCHANGED candidates
      \/ /\ candidates' = gone /\ Catalogue!Goto(i, "enrich")
         /\ \A d \in here : candidates[d].status # "confirmed"
  BY DEF Catalogue!Reconcile, Catalogue!Ids, Ids
<1> HIDE DEF here
<1>4. process' \in [Importers -> {Catalogue!Idle} \cup ImportCall] /\ CallsOK'
  BY <1>2, <1>3, ReturnKeeps, GotoKeeps
<1>5. CASE UNCHANGED candidates
  BY <1>1, <1>4, <1>5, NothingWritten, DecisionsHeldAreKept
<1>6. CASE /\ candidates' = gone /\ \A d \in here : candidates[d].status # "confirmed"
  <2>1. candidates \in [Ids -> {Catalogue!NoCandidate} \cup Candidate]
    BY <1>2 DEF RowsTyped
  <2>2. candidates' \in [Ids -> {Catalogue!NoCandidate} \cup Candidate]
    BY <1>6, <2>1
  <2>3. ASSUME NEW d \in Ids
        PROVE  /\ candidates'[d] = IF d \in here THEN Catalogue!NoCandidate ELSE candidates[d]
               /\ d \in here => candidates[d].status # "confirmed"
    BY <1>6
  <2>4. Catalogue!NoCandidate.status = "absent"
    BY DEF Catalogue!NoCandidate
  <2>5. \A d \in Ids : candidates'[d].status = "confirmed" =>
           candidates[d].status = "confirmed" /\ candidates'[d].repository = candidates[d].repository
    BY <2>3, <2>4
  <2>6. Catalogue!DecisionKept
    <3>1. ASSUME NEW d \in here PROVE Catalogue!Misplaced(d)
      <4>1. d \in process[i].doomed /\ candidates[d].repository = process[i].repository
        BY <3>1 DEF here
      <4>2. process[i].pc = "reconcile" /\ process[i].preview \in Reviewed
        BY <1>2 DEF Catalogue!Reconcile, Catalogue!At, ImportCall
      <4>3. CallDoomed(process[i], batches, destinations)
        BY DEF DoomedInv
      <4> QED BY <4>1, <4>2, <4>3 DEF CallDoomed, Catalogue!Misplaced
    <3> QED BY <2>3, <3>1 DEF Catalogue!DecisionKept, Catalogue!Kept, Catalogue!Ids, Ids
  <2>7. associations' \subseteq Association
    BY <1>1, <1>2 DEF RowsTyped
  <2> QED
    BY <1>1, <1>4, <2>2, <2>5, <2>6, <2>7, CandidatesChange
<1> QED
  BY <1>3, <1>5, <1>6

\* Preparing the backup, failing and crashing keep the invariant.
LEMMA ImportKeeps ==
  ASSUME CatalogueInv, NEW i \in Importers, Catalogue!Import(i) \/ Catalogue!WriteFails(i) \/ Catalogue!Crash(i)
  PROVE  CatalogueInv' /\ DecisionsHeld
<1>1. UNCHANGED <<sessions, sources, associations, candidates, destinations>>
  BY DEF Catalogue!Import, Catalogue!WriteFails, Catalogue!Crash, Catalogue!found, Catalogue!imports
<1>2. RowsTyped /\ CallsOK /\ Later(sessions, sessions')
  BY <1>1, SameLater DEF CatalogueInv
<1>3. CASE Catalogue!Return(i)
  BY <1>1, <1>2, <1>3, ReturnKeeps, NothingWritten
<1>4. CASE Catalogue!At(i, "import") /\ Catalogue!Goto(i, "resolve")
  <2>1. CallOK(process[i], sessions) /\ process[i] \in ImportCall
    BY <1>2, <1>4, AtCall DEF CallsOK
  <2>2. process' \in [Importers -> {Catalogue!Idle} \cup ImportCall] /\ CallsOK'
    BY <1>2, <1>4, <2>1, GotoKeeps
  <2> QED
    BY <1>1, <2>2, NothingWritten
<1> QED
  BY <1>3, <1>4 DEF Catalogue!Import, Catalogue!WriteFails, Catalogue!Crash

\* Looking a session up keeps the invariant: what it finds names the session, and nothing
\* else does.
LEMMA ResolveKeeps ==
  ASSUME CatalogueInv, NEW i \in Importers, NEW c \in Conversations, Catalogue!Resolve(i, c)
  PROVE  CatalogueInv' /\ DecisionsHeld
<1> DEFINE native == Listed[process[i].preview.catalogue][c].native
           destination == IF Catalogue!Known(native) # {}
                            THEN CHOOSE d \in Catalogue!Known(native) : TRUE ELSE c
           way == [e \in DOMAIN process[i].found \cup {c} |->
                     IF e = c THEN destination ELSE process[i].found[e]]
           n == [process[i] EXCEPT !.found = way]
<1>1. UNCHANGED <<sessions, sources, associations, candidates, destinations>>
  BY DEF Catalogue!Resolve, Catalogue!found, Catalogue!imports
<1>2. RowsTyped /\ CallsOK /\ Later(sessions, sessions')
  BY <1>1, SameLater DEF CatalogueInv
<1>3. /\ process[i] \in ImportCall /\ process[i].pc = "resolve"
      /\ Catalogue!ValidPreview(process[i].preview) /\ FoundOK(process[i], sessions)
  BY <1>2, AtCall DEF Catalogue!Resolve
<1>4. /\ c \in DOMAIN process[i].preview.adopt /\ c \notin DOMAIN process[i].found
      /\ \/ Catalogue!Return(i)
         \/ /\ process' = [process EXCEPT ![i].found = way]
            /\ \A e \in DOMAIN process[i].found : process[i].found[e] # destination
  <2>1. c \in Catalogue!Selected(i) \ DOMAIN process[i].found
    BY DEF Catalogue!Resolve
  <2>2. \/ Catalogue!Return(i)
        \/ /\ process' = [process EXCEPT ![i].found =
                [e \in DOMAIN @ \cup {c} |-> IF e = c THEN destination ELSE @[e]]]
           /\ destination \notin {process[i].found[e] : e \in DOMAIN process[i].found}
    BY Zenon DEF Catalogue!Resolve, Catalogue!Row
  <2> HIDE DEF destination
  <2>3. ASSUME process' = [process EXCEPT ![i].found =
                 [e \in DOMAIN @ \cup {c} |-> IF e = c THEN destination ELSE @[e]]]
        PROVE  process' = [process EXCEPT ![i].found = way]
    BY <2>3, Zenon
  <2> QED
    BY <2>1, <2>2, <2>3 DEF Catalogue!Selected
<1>5. destination \in Ids /\ (sessions[destination] = native \/ destination = c)
  BY KnownId DEF Ids
<1> HIDE DEF destination, native
<1>6. CASE Catalogue!Return(i)
  BY <1>1, <1>2, <1>6, ReturnKeeps, NothingWritten
<1>7. CASE /\ process' = [process EXCEPT ![i].found = way]
           /\ \A e \in DOMAIN process[i].found : process[i].found[e] # destination
  <2>1. process[i].found \in Ways /\ process[i].preview \in Reviewed
    BY <1>3 DEF ImportCall
  <2>2. way \in Ways
    <3>1. DOMAIN process[i].found \subseteq Conversations /\ \A e \in DOMAIN process[i].found : process[i].found[e] \in Ids
      BY <2>1, WayTyped
    <3>2. DOMAIN process[i].found \cup {c} \in SUBSET Conversations
      BY <3>1
    <3>3. way \in [DOMAIN process[i].found \cup {c} -> Ids]
      BY <1>5, <3>1
    <3> QED BY <3>2, <3>3 DEF Ways
  <2>3. /\ n \in ImportCall /\ n.pc = "resolve" /\ n.preview = process[i].preview /\ n.found = way
    <3> HIDE DEF way
    <3> QED BY <1>3, <2>2 DEF ImportCall
  <2>4. process' = [process EXCEPT ![i] = n]
    <3> HIDE DEF way
    <3> QED BY <1>2, <1>7 DEF RowsTyped
  <2>5. FoundOK(n, sessions)
    <3>1. DOMAIN way = DOMAIN process[i].found \cup {c} /\ way[c] = destination
          /\ \A e \in DOMAIN process[i].found : way[e] = process[i].found[e] /\ e # c
      BY <1>4
    <3> HIDE DEF way, n
    <3> QED BY <1>3, <1>4, <1>5, <1>7, <2>3, <3>1 DEF FoundOK, native
  <2> HIDE DEF n
  <2>6. CallOK(n, sessions')
    BY <1>1, <1>3, <2>3, <2>5 DEF CallOK, WriteOK
  <2> QED
    BY <1>1, <1>2, <2>3, <2>4, <2>6, CallsGoOn, NothingWritten
<1> QED
  BY <1>4, <1>6, <1>7

\* What passes the validation of its adoptions is adopted by items of its repository.
LEMMA ValidateKeeps ==
  ASSUME CatalogueInv, NEW i \in Importers, Catalogue!ValidateCandidateAdoptions(i)
  PROVE  CatalogueInv' /\ DecisionsHeld
<1>1. UNCHANGED <<sessions, sources, associations, candidates, destinations>>
  BY DEF Catalogue!ValidateCandidateAdoptions, Catalogue!found, Catalogue!imports
<1>2. RowsTyped /\ CallsOK /\ Later(sessions, sessions')
  BY <1>1, SameLater DEF CatalogueInv
<1>3. /\ process[i] \in ImportCall
      /\ Catalogue!ValidPreview(process[i].preview) /\ FoundOK(process[i], sessions)
  BY <1>2, AtCall DEF Catalogue!ValidateCandidateAdoptions
<1>4. CASE Catalogue!Return(i)
  BY <1>1, <1>2, <1>4, ReturnKeeps, NothingWritten
<1>5. CASE /\ Catalogue!Goto(i, "write")
           /\ \A c \in Catalogue!Selected(i) : process[i].preview.adopt[c] # Nothing =>
                Belongs[process[i].preview.adopt[c]] = process[i].repository
  <2> DEFINE n == [process[i] EXCEPT !.pc = "write"]
  <2>1. n \in ImportCall /\ n.pc = "write" /\ n.preview = process[i].preview /\ n.found = process[i].found
        /\ n.repository = process[i].repository
    BY <1>3 DEF ImportCall
  <2>2. process' = [process EXCEPT ![i] = n]
    BY <1>2, <1>5 DEF RowsTyped, Catalogue!Goto
  <2>3. DOMAIN process[i].found = DOMAIN process[i].preview.adopt
    BY DEF Catalogue!ValidateCandidateAdoptions, Catalogue!Selected
  <2> HIDE DEF n
  <2>4. CallOK(n, sessions')
    BY <1>1, <1>3, <1>5, <2>1, <2>3 DEF CallOK, FoundOK, WriteOK, Catalogue!Selected
  <2> QED
    BY <1>1, <1>2, <2>1, <2>2, <2>4, CallsGoOn, NothingWritten
<1> QED
  BY <1>4, <1>5 DEF Catalogue!ValidateCandidateAdoptions

\* Enriching the candidates keeps the invariant and every decision.
LEMMA EnrichKeeps ==
  ASSUME CatalogueInv, NEW i \in Importers, Catalogue!Enrich(i)
  PROVE  CatalogueInv' /\ DecisionsHeld
<1> DEFINE destination == destinations[process[i].preview]
<1>1. UNCHANGED <<sessions, sources, associations, destinations>>
  BY DEF Catalogue!Enrich, Catalogue!found, Catalogue!imports
<1>2. RowsTyped /\ CallsOK /\ Later(sessions, sessions')
  BY <1>1, SameLater DEF CatalogueInv
<1>3. process[i] \in ImportCall
  BY <1>2, AtCall DEF Catalogue!Enrich
<1>4. process' \in [Importers -> {Catalogue!Idle} \cup ImportCall] /\ CallsOK'
  BY <1>2, ReturnKeeps DEF Catalogue!Enrich
<1>5. ASSUME NEW c PROVE Catalogue!CheckoutForPath(i, c) \in Worktrees \cup {Nothing}
  BY DEF Catalogue!CheckoutForPath
<1>6. process[i].preview.catalogue \in DOMAIN Listed
  BY <1>3, CatalogueAssumption DEF ImportCall
<1>7. ASSUME NEW d \in Ids
      PROVE  \/ candidates'[d] = candidates[d]
             \/ /\ candidates[d].status # "absent"
                /\ \E c : candidates'[d] = [candidates[d] EXCEPT
                     !.checkout = IF @ = Nothing THEN Catalogue!CheckoutForPath(i, c) ELSE @,
                     !.told = process[i].preview.catalogue]
  BY DEF Catalogue!Enrich, Catalogue!Ids, Ids
<1>8. ASSUME NEW d \in Ids
      PROVE  /\ candidates'[d] \in {Catalogue!NoCandidate} \cup Candidate
             /\ candidates'[d].status = candidates[d].status
             /\ candidates[d].status # "absent" => candidates'[d].repository = candidates[d].repository
  <2>1. candidates[d] \in {Catalogue!NoCandidate} \cup Candidate
    BY <1>2 DEF RowsTyped
  <2>2. ASSUME candidates[d].status # "absent",
               NEW c, candidates'[d] = [candidates[d] EXCEPT
                     !.checkout = IF @ = Nothing THEN Catalogue!CheckoutForPath(i, c) ELSE @,
                     !.told = process[i].preview.catalogue]
        PROVE  /\ candidates'[d] \in Candidate /\ candidates'[d].status = candidates[d].status
               /\ candidates'[d].repository = candidates[d].repository
    <3>1. candidates[d] \in Candidate
      BY <2>1, <2>2 DEF Catalogue!NoCandidate
    <3> DEFINE checkout == IF candidates[d].checkout = Nothing THEN Catalogue!CheckoutForPath(i, c)
                                                           ELSE candidates[d].checkout
    <3>2. checkout \in Worktrees \cup {Nothing}
      BY <1>5, <3>1 DEF Candidate
    <3>3. candidates'[d] = [candidates[d] EXCEPT !.checkout = checkout,
                              !.told = process[i].preview.catalogue]
      BY <2>2, Zenon
    <3> HIDE DEF checkout
    <3> QED BY <1>6, <3>1, <3>2, <3>3 DEF Candidate
  <2> QED BY <1>7, <2>1, <2>2
<1>9. candidates' \in [Ids -> {Catalogue!NoCandidate} \cup Candidate]
  <2>1. candidates' = [d \in Ids |-> candidates'[d]]
    BY DEF Catalogue!Enrich, Catalogue!Ids, Ids
  <2> QED BY <1>8, <2>1
<1>10. DecisionsHeld
  BY <1>8 DEF DecisionsHeld, Catalogue!Kept
<1>11. associations' \subseteq Association
  BY <1>1, <1>2 DEF RowsTyped
<1> QED
  BY <1>1, <1>4, <1>8, <1>9, <1>10, <1>11, CandidatesChange

\* A session that Workboard discovers gets an id of its own, unless it has one.
LEMMA Discovered ==
  ASSUME CatalogueInv, NEW n \in Natives, NEW d \in Ids,
         sessions[d] = n \/ (Catalogue!Known(n) = {} /\ d = n),
         sessions' = [sessions EXCEPT ![d] = n]
  PROVE  SessionsOK(sessions') /\ Later(sessions, sessions')
<1>1. SessionsOK(sessions)
  BY DEF CatalogueInv
<1>2. CASE sessions[d] = n
  <2>1. sessions' = sessions
    BY <1>1, <1>2 DEF SessionsOK
  <2> QED BY <1>1, <2>1, SameLater
<1>3. CASE Catalogue!Known(n) = {} /\ d = n
  <2>1. \A e \in Ids : sessions[e] # n
    BY <1>3 DEF Catalogue!Known, Catalogue!Ids, Ids
  <2>2. \A e \in Ids : sessions'[e] = IF e = n THEN n ELSE sessions[e]
    BY <1>1, <1>3 DEF SessionsOK
  <2>3. sessions' \in [Ids -> Natives \cup {Nothing}] /\ sessions[n] = Nothing
    BY <1>1, <1>3, <2>1 DEF SessionsOK, Ids
  <2>4. ASSUME NEW c \in Conversations PROVE sessions'[c] = sessions[c]
    BY <1>1, <1>3, CatalogueAssumption DEF SessionsOK, Ids
  <2>5. \A m \in Natives : sessions'[m] \in {Nothing, m}
    BY <1>1, <2>2 DEF SessionsOK, Ids
  <2>6. \A e, f \in Ids : sessions'[e] # Nothing /\ sessions'[e] = sessions'[f] => e = f
    BY <1>1, <2>1, <2>2 DEF SessionsOK
  <2>7. SessionsOK(sessions')
    BY <1>1, <2>3, <2>4, <2>5, <2>6 DEF SessionsOK
  <2>8. Later(sessions, sessions')
    BY <2>2, <2>3 DEF Later
  <2> QED BY <2>7, <2>8
<1> QED
  BY <1>2, <1>3

\* Discovering a transcript, or reading it again, keeps the invariant.
LEMMA DiscoveryKeeps ==
  ASSUME CatalogueInv, NEW n \in Natives, Catalogue!EnsureNativeSession(n) \/ Catalogue!Refresh(n)
  PROVE  CatalogueInv' /\ DecisionsHeld
<1>1. UNCHANGED <<associations, candidates, destinations, process>>
  BY DEF Catalogue!EnsureNativeSession, Catalogue!Refresh, Catalogue!imports
<1>2. PICK d \in Ids : /\ sessions[d] = n \/ (Catalogue!Known(n) = {} /\ d = n)
                       /\ sessions' = [sessions EXCEPT ![d] = n]
                       /\ sources' \in {sources, [sources EXCEPT ![n] = d]}
  <2>1. CASE Catalogue!EnsureNativeSession(n)
    BY <2>1 DEF Catalogue!EnsureNativeSession, Ids
  <2>2. CASE Catalogue!Refresh(n)
    <3> DEFINE d == IF Catalogue!Known(n) # {} THEN CHOOSE e \in Catalogue!Known(n) : TRUE ELSE n
    <3>1. d \in Ids /\ (sessions[d] = n \/ (Catalogue!Known(n) = {} /\ d = n))
      <4>1. CASE Catalogue!Known(n) # {}
        BY <4>1, KnownId, Zenon
      <4>2. CASE Catalogue!Known(n) = {}
        BY <4>2 DEF Ids
      <4> QED BY <4>1, <4>2
    <3>2. sessions' = [sessions EXCEPT ![d] = n] /\ sources' = [sources EXCEPT ![n] = d]
      BY <2>2, Zenon DEF Catalogue!Refresh
    <3> QED BY <3>1, <3>2
  <2> QED BY <2>1, <2>2
<1>3. SessionsOK(sessions') /\ Later(sessions, sessions')
  BY <1>2, Discovered
<1>4. RowsTyped /\ CallsOK /\ SessionsOK(sessions) /\ LeadsOK(sessions, sources, destinations)
  BY DEF CatalogueInv
<1>5. process' \in [Importers -> {Catalogue!Idle} \cup ImportCall] /\ CallsOK'
  BY <1>1, <1>3, <1>4, CallsStay
<1>6. RowsTyped'
  BY <1>1, <1>2, <1>4, <1>5 DEF RowsTyped
<1>7. LeadsOK(sessions', sources, destinations)
  BY <1>3, <1>4, LeadsStay DEF RowsTyped
<1>8. sessions'[d] = n
  BY <1>2, <1>4 DEF SessionsOK
<1>9. LeadsOK(sessions', sources', destinations')
  <2>1. \A m \in Natives : sources'[m] # Nothing => sessions'[sources'[m]] = m
    BY <1>2, <1>4, <1>7, <1>8 DEF RowsTyped, LeadsOK
  <2> QED BY <1>1, <1>7, <2>1 DEF LeadsOK
<1>10. Catalogue!ConfirmedIsAdopted' /\ DecisionsHeld
  BY <1>1 DEF CatalogueInv, Catalogue!ConfirmedIsAdopted, DecisionsHeld, Catalogue!Kept
<1> QED
  BY <1>3, <1>5, <1>6, <1>9, <1>10 DEF CatalogueInv

\* The association of a session with an item, as a record.
LEMMA Bound ==
  ASSUME NEW d \in Ids, NEW item \in Items
  PROVE  /\ [session |-> d, item |-> item, current |-> TRUE] \in Association
         /\ [session |-> d, item |-> item, current |-> TRUE].session = d
         /\ [session |-> d, item |-> item, current |-> TRUE].item = item
BY DEF Association

\* A decision of a person on a candidate keeps the invariant and every earlier decision.
LEMMA DecisionKeeps ==
  ASSUME CatalogueInv, NEW d \in Ids, Catalogue!Decision(d)
  PROVE  CatalogueInv' /\ DecisionsHeld
<1>1. UNCHANGED <<sessions, sources, destinations, process>> /\ candidates[d].status = "unassigned"
  BY DEF Catalogue!Decision, Catalogue!IgnoreImported, Catalogue!AdoptImported, Catalogue!found, Catalogue!imports
<1>2. RowsTyped /\ CallsOK
  BY DEF CatalogueInv
<1>3. process' \in [Importers -> {Catalogue!Idle} \cup ImportCall] /\ CallsOK'
  BY <1>1, <1>2, CallsStay, SameLater
<1>4. candidates \in [Ids -> {Catalogue!NoCandidate} \cup Candidate] /\ candidates[d] \in Candidate
  BY <1>1, <1>2 DEF RowsTyped, Catalogue!NoCandidate
<1>5. PICK s \in {"ignored", "confirmed"} :
        /\ candidates' = [candidates EXCEPT ![d].status = s]
        /\ s = "ignored" => associations' = associations
        /\ s = "confirmed" => \E item \in Items :
             /\ candidates[d].repository = Belongs[item]
             /\ associations' = associations \cup {[session |-> d, item |-> item, current |-> TRUE]}
  BY DEF Catalogue!Decision, Catalogue!IgnoreImported, Catalogue!AdoptImported
<1>6. [candidates[d] EXCEPT !.status = s] \in Candidate
      /\ [candidates[d] EXCEPT !.status = s].status = s
      /\ [candidates[d] EXCEPT !.status = s].repository = candidates[d].repository
  BY <1>4 DEF Candidate
<1>7. /\ candidates' \in [Ids -> {Catalogue!NoCandidate} \cup Candidate]
      /\ \A e \in Ids : e # d => candidates'[e] = candidates[e]
      /\ candidates'[d].status = s /\ candidates'[d].repository = candidates[d].repository
  BY <1>4, <1>5, <1>6
<1>8. /\ associations' \subseteq Association /\ associations \subseteq associations'
      /\ s = "confirmed" =>
           \E a \in associations' : a.session = d /\ Belongs[a.item] = candidates'[d].repository
  <2>1. associations \subseteq Association
    BY <1>2 DEF RowsTyped
  <2>2. CASE s = "ignored"
    BY <1>5, <2>1, <2>2
  <2>3. CASE s = "confirmed"
    <3>1. PICK item \in Items :
             /\ candidates[d].repository = Belongs[item]
             /\ associations' = associations \cup {[session |-> d, item |-> item, current |-> TRUE]}
      BY <1>5, <2>3
    <3> DEFINE new == [session |-> d, item |-> item, current |-> TRUE]
    <3>2. new \in Association /\ new.session = d /\ new.item = item
      BY Bound
    <3>3. associations' = associations \cup {new}
      BY <3>1
    <3> HIDE DEF new
    <3>4. Belongs[new.item] = candidates'[d].repository
      BY <1>7, <3>1, <3>2
    <3> QED BY <2>1, <3>2, <3>3, <3>4
  <2> QED BY <2>2, <2>3
<1>10. DecisionsHeld
  BY <1>1, <1>7 DEF DecisionsHeld, Catalogue!Kept
<1>11. \A e \in Ids : candidates'[e].status = "confirmed" =>
           \/ /\ candidates[e].status = "confirmed"
              /\ candidates'[e].repository = candidates[e].repository
           \/ \E a \in associations' : a.session = e /\ Belongs[a.item] = candidates'[e].repository
  BY <1>7, <1>8
<1> QED
  BY <1>1, <1>3, <1>7, <1>8, <1>10, <1>11, CandidatesChange

\* Closing and binding a session keep the invariant and every decision.
LEMMA BindingKeeps ==
  ASSUME CatalogueInv, NEW d \in Ids,
         Catalogue!CloseSession(d) \/ \E item \in Items : Catalogue!Bind(d, item)
  PROVE  CatalogueInv' /\ DecisionsHeld
<1>1. UNCHANGED <<sessions, sources, destinations, process, candidates>>
  BY DEF Catalogue!CloseSession, Catalogue!Bind, Catalogue!found, Catalogue!imports
<1>2. RowsTyped /\ CallsOK
  BY DEF CatalogueInv
<1>3. process' \in [Importers -> {Catalogue!Idle} \cup ImportCall] /\ CallsOK'
  BY <1>1, <1>2, CallsStay, SameLater
<1>4. /\ associations' \subseteq Association
      /\ \A a \in associations : \E b \in associations' : b.session = a.session /\ b.item = a.item
  <2>1. CASE \E item \in Items : Catalogue!Bind(d, item)
    <3>1. PICK item \in Items :
            associations' = associations \cup {[session |-> d, item |-> item, current |-> TRUE]}
      BY <2>1 DEF Catalogue!Bind
    <3> QED BY <1>2, <3>1, Bound DEF RowsTyped
  <2>2. CASE Catalogue!CloseSession(d)
    <3> DEFINE closed(a) == [a EXCEPT !.current = a.current /\ a.session # d]
    <3>1. associations' = {closed(a) : a \in associations}
      BY <2>2 DEF Catalogue!CloseSession
    <3>2. ASSUME NEW a \in associations
          PROVE  closed(a) \in Association /\ closed(a).session = a.session /\ closed(a).item = a.item
      <4> DEFINE still == a.current /\ a.session # d
      <4>1. still \in BOOLEAN /\ a \in Association
        BY <1>2 DEF RowsTyped
      <4>2. closed(a) = [a EXCEPT !.current = still]
        OBVIOUS
      <4> HIDE DEF still, closed
      <4> QED BY <4>1, <4>2 DEF Association
    <3> HIDE DEF closed
    <3> QED BY <3>1, <3>2
  <2> QED BY <2>1, <2>2
<1>5. DecisionsHeld
  BY <1>1 DEF DecisionsHeld, Catalogue!Kept
<1> QED
  BY <1>1, <1>2, <1>3, <1>4, <1>5, CandidatesChange DEF RowsTyped

-----------------------------------------------------------------------------
\* A call that writes: what it has found.
WriteReady(i) ==
  /\ process[i] \in ImportCall /\ process[i].preview \in Reviewed
  /\ process[i].found \in Ways /\ process[i].repository \in Codebases
  /\ Catalogue!ValidPreview(process[i].preview) /\ FoundOK(process[i], sessions)
  /\ DOMAIN process[i].found = DOMAIN process[i].preview.adopt
  /\ \A c \in DOMAIN process[i].preview.adopt : process[i].preview.adopt[c] # Nothing =>
       Belongs[process[i].preview.adopt[c]] = process[i].repository

\* What a call has found when it writes.
LEMMA WriteIsReady ==
  ASSUME CatalogueInv, NEW i \in Importers, Catalogue!Write(i)
  PROVE  WriteReady(i)
<1>1. /\ process[i] \in ImportCall /\ process[i].pc = "write"
      /\ Catalogue!ValidPreview(process[i].preview) /\ FoundOK(process[i], sessions)
      /\ WriteOK(process[i])
  BY AtCall DEF CatalogueInv, Catalogue!Write
<1> QED
  BY <1>1 DEF WriteReady, WriteOK, ImportCall

\* The conversation that an id was found for.
LEMMA SourceOf ==
  ASSUME NEW i \in Importers, WriteReady(i), NEW d \in Catalogue!Destinations(i)
  PROVE  /\ Catalogue!Source(i, d) \in DOMAIN process[i].preview.adopt
         /\ process[i].found[Catalogue!Source(i, d)] = d
         /\ d \in Ids
<1>1. PICK c \in Catalogue!Selected(i) : process[i].found[c] = d
  BY DEF Catalogue!Destinations
<1>2. Catalogue!Source(i, d) \in Catalogue!Selected(i) /\ process[i].found[Catalogue!Source(i, d)] = d
  BY <1>1, Zenon DEF Catalogue!Source
<1>3. c \in DOMAIN process[i].found
  BY <1>1 DEF WriteReady, Catalogue!Selected
<1> QED
  BY <1>1, <1>2, <1>3, WayTyped DEF WriteReady, Catalogue!Selected

\* Each id that a transaction writes is of one conversation of its preview.
LEMMA SourceBack ==
  ASSUME NEW i \in Importers, WriteReady(i), NEW c \in DOMAIN process[i].preview.adopt
  PROVE  /\ process[i].found[c] \in Catalogue!Destinations(i)
         /\ Catalogue!Source(i, process[i].found[c]) = c
         /\ process[i].found[c] \in Ids
<1>1. process[i].found[c] \in Catalogue!Destinations(i)
  BY DEF Catalogue!Destinations, Catalogue!Selected
<1>2. Catalogue!Source(i, process[i].found[c]) \in DOMAIN process[i].found
      /\ process[i].found[Catalogue!Source(i, process[i].found[c])] = process[i].found[c]
  BY <1>1, SourceOf DEF WriteReady
<1>3. Catalogue!Source(i, process[i].found[c]) = c
  BY <1>2 DEF WriteReady, FoundOK
<1> QED
  BY <1>1, <1>3, SourceOf

\* The row that a conversation of the selection has in the catalogue.
LEMMA RowTyped ==
  ASSUME NEW i \in Importers, WriteReady(i), NEW c \in DOMAIN process[i].preview.adopt
  PROVE  /\ Catalogue!Row(i, c) = Listed[process[i].preview.catalogue][c]
         /\ Catalogue!Row(i, c).native \in Natives /\ Catalogue!Row(i, c).native # Nothing
         /\ Catalogue!Row(i, c).tree \in Worktrees \cup {Nothing}
BY ListedTyped DEF WriteReady, Catalogue!Row

\* The transaction gives ids to sessions that have none, those they are listed under.
LEMMA WrittenIds ==
  ASSUME CatalogueInv, NEW i \in Importers, WriteReady(i), Catalogue!Constraints(i),
         sessions' = Catalogue!ImportedSessions(i)
  PROVE  /\ SessionsOK(sessions') /\ Later(sessions, sessions')
         /\ \A c \in DOMAIN process[i].preview.adopt :
              sessions'[process[i].found[c]] = Catalogue!Row(i, c).native
<1> DEFINE New(d) == d \in Catalogue!Destinations(i)
                       /\ Catalogue!Known(Catalogue!Row(i, Catalogue!Source(i, d)).native) = {}
           native(d) == Catalogue!Row(i, Catalogue!Source(i, d)).native
<1>1. SessionsOK(sessions)
  BY DEF CatalogueInv
<1>2. ASSUME NEW d \in Ids
      PROVE  sessions'[d] = IF New(d) THEN native(d) ELSE sessions[d]
  BY DEF Catalogue!ImportedSessions, Catalogue!Ids, Ids
<1>3. Later(sessions, sessions')
  BY DEF Catalogue!Constraints, Later, Catalogue!Ids, Ids
<1>4. ASSUME NEW d \in Ids, New(d)
      PROVE  /\ d \in DOMAIN process[i].preview.adopt /\ Catalogue!Source(i, d) = d
             /\ native(d) = Listed[process[i].preview.catalogue][d].native
             /\ native(d) \in Natives /\ native(d) # Nothing
             /\ \A e \in Ids : sessions[e] # native(d)
  <2>1. Catalogue!Source(i, d) \in DOMAIN process[i].preview.adopt /\ process[i].found[Catalogue!Source(i, d)] = d
    BY <1>4, SourceOf
  <2>2. \A e \in Ids : sessions[e] # native(d)
    BY <1>4 DEF Catalogue!Known, Catalogue!Ids, Ids
  <2>3. native(d) = Listed[process[i].preview.catalogue][Catalogue!Source(i, d)].native
        /\ native(d) \in Natives /\ native(d) # Nothing
    BY <2>1, RowTyped
  <2>4. Catalogue!Source(i, d) = d
    BY <2>1, <2>2, <2>3 DEF WriteReady, FoundOK
  <2> QED BY <2>1, <2>2, <2>3, <2>4
<1> HIDE DEF New, native
<1>5. sessions' \in [Ids -> Natives \cup {Nothing}]
  <2>1. sessions' = [d \in Ids |-> sessions'[d]]
    BY DEF Catalogue!ImportedSessions, Catalogue!Ids, Ids
  <2>2. \A d \in Ids : sessions'[d] \in Natives \cup {Nothing}
    BY <1>1, <1>2, <1>4 DEF SessionsOK
  <2> QED BY <2>1, <2>2
<1>6. ASSUME NEW n \in Natives PROVE sessions'[n] \in {Nothing, n}
  <2>1. n \in Ids /\ ~New(n)
    BY <1>4, ListedTyped DEF WriteReady, Ids
  <2> QED BY <1>1, <1>2, <2>1 DEF SessionsOK
<1>7. ASSUME NEW c \in Conversations, sessions'[c] # Nothing, NEW v \in DOMAIN Listed, c \in DOMAIN Listed[v]
      PROVE  Listed[v][c].native = sessions'[c]
  <2>1. c \in Ids
    BY DEF Ids
  <2>2. CASE New(c)
    BY <1>2, <1>4, <1>7, <2>1, <2>2, ListedTyped, SameLater, SameListed DEF WriteReady
  <2>3. CASE ~New(c)
    BY <1>1, <1>2, <1>7, <2>1, <2>3 DEF SessionsOK
  <2> QED BY <2>2, <2>3
<1>8. ASSUME NEW d \in Ids, NEW e \in Ids, sessions'[d] # Nothing, sessions'[d] = sessions'[e]
      PROVE  d = e
  <2>1. CASE New(d) /\ New(e)
    BY <1>2, <1>4, <1>8, <2>1 DEF WriteReady, Catalogue!ValidPreview
  <2>2. CASE New(d) /\ ~New(e)
    BY <1>2, <1>4, <1>8, <2>2
  <2>3. CASE ~New(d) /\ New(e)
    BY <1>2, <1>4, <1>8, <2>3
  <2>4. CASE ~New(d) /\ ~New(e)
    BY <1>1, <1>2, <1>8, <2>4 DEF SessionsOK
  <2> QED BY <2>1, <2>2, <2>3, <2>4
<1>9. SessionsOK(sessions')
  BY <1>5, <1>6, <1>7, <1>8 DEF SessionsOK
<1>10. ASSUME NEW c \in DOMAIN process[i].preview.adopt
       PROVE  sessions'[process[i].found[c]] = Catalogue!Row(i, c).native
  <2>1. process[i].found[c] \in Catalogue!Destinations(i) /\ process[i].found[c] \in Ids
    BY SourceBack
  <2>2. sessions'[process[i].found[c]] # Nothing
    BY <2>1 DEF Catalogue!Constraints
  <2>3. Catalogue!Row(i, c).native = Listed[process[i].preview.catalogue][c].native
        /\ Catalogue!Row(i, c).native # Nothing
    BY RowTyped
  <2>4. CASE sessions[process[i].found[c]] = Listed[process[i].preview.catalogue][c].native
    BY <1>3, <2>1, <2>3, <2>4 DEF Later
  <2>5. CASE process[i].found[c] = c
    <3>1. process[i].preview.catalogue \in DOMAIN Listed /\ c \in DOMAIN Listed[process[i].preview.catalogue]
          /\ c \in Conversations
      BY ListedTyped DEF WriteReady
    <3> QED BY <1>9, <2>2, <2>3, <2>5, <3>1 DEF SessionsOK
  <2>6. c \in DOMAIN process[i].found
    BY DEF WriteReady
  <2> QED BY <2>4, <2>5, <2>6 DEF WriteReady, FoundOK
<1> QED
  BY <1>3, <1>9, <1>10

\* Transcripts that are taken lead to the ids of their sessions.
LEMMA WrittenLeads ==
  ASSUME CatalogueInv, NEW i \in Importers, WriteReady(i), Catalogue!Write(i)
  PROVE  /\ sources' \in [Natives -> Ids \cup {Nothing}] /\ destinations' \in [Reviewed -> Ways]
         /\ LeadsOK(sessions', sources', destinations')
<1>1. RowsTyped /\ SessionsOK(sessions) /\ LeadsOK(sessions, sources, destinations)
  BY DEF CatalogueInv
<1>2. /\ SessionsOK(sessions') /\ Later(sessions, sessions')
      /\ \A c \in DOMAIN process[i].preview.adopt :
           sessions'[process[i].found[c]] = Catalogue!Row(i, c).native
  BY WrittenIds DEF Catalogue!Write
<1>3. LeadsOK(sessions', sources, destinations)
  BY <1>1, <1>2, LeadsStay DEF RowsTyped
<1>4. destinations' = [destinations EXCEPT ![process[i].preview] = process[i].found]
      /\ sources' = Catalogue!ImportedSources(i)
  BY DEF Catalogue!Write
<1>5. destinations' \in [Reviewed -> Ways]
  BY <1>1, <1>4 DEF RowsTyped, WriteReady
<1>6. ASSUME NEW p \in Reviewed, NEW c \in DOMAIN destinations'[p]
      PROVE  c \in DOMAIN p.adopt /\ sessions'[destinations'[p][c]] = Listed[p.catalogue][c].native
  <2>1. CASE p = process[i].preview
    <3>1. destinations'[p] = process[i].found
      BY <1>1, <1>4, <2>1 DEF RowsTyped
    <3>2. c \in DOMAIN process[i].preview.adopt
      BY <1>6, <3>1 DEF WriteReady
    <3> QED BY <1>2, <2>1, <3>1, <3>2, RowTyped
  <2>2. CASE p # process[i].preview
    <3>1. destinations'[p] = destinations[p]
      BY <1>1, <1>4, <2>2 DEF RowsTyped
    <3> QED BY <1>3, <1>6, <3>1 DEF LeadsOK
  <2> QED BY <2>1, <2>2
<1>7. ASSUME NEW n \in Natives
      PROVE  /\ sources'[n] \in Ids \cup {Nothing}
             /\ sources'[n] # Nothing => sessions'[sources'[n]] = n
  <2>1. CASE \E c \in Catalogue!Selected(i) : Catalogue!Row(i, c).native = n /\ sources[n] = Nothing
    <3> DEFINE c == CHOOSE c \in Catalogue!Selected(i) : Catalogue!Row(i, c).native = n
    <3>1. c \in Catalogue!Selected(i) /\ Catalogue!Row(i, c).native = n
      BY <2>1, Zenon
    <3>2. sources'[n] = process[i].found[c]
      BY <1>4, <2>1 DEF Catalogue!ImportedSources
    <3> HIDE DEF c
    <3>3. c \in DOMAIN process[i].preview.adopt
      BY <3>1 DEF Catalogue!Selected
    <3> QED BY <1>2, <3>1, <3>2, <3>3, SourceBack
  <2>2. CASE ~\E c \in Catalogue!Selected(i) : Catalogue!Row(i, c).native = n /\ sources[n] = Nothing
    <3>1. sources'[n] = sources[n]
      BY <1>4, <2>2 DEF Catalogue!ImportedSources
    <3> QED BY <1>1, <1>3, <3>1 DEF RowsTyped, LeadsOK
  <2> QED BY <2>1, <2>2
<1>8. sources' \in [Natives -> Ids \cup {Nothing}]
  <2>1. sources' = [n \in Natives |-> sources'[n]]
    BY <1>4 DEF Catalogue!ImportedSources
  <2> QED BY <1>7, <2>1
<1> QED
  BY <1>5, <1>6, <1>7, <1>8 DEF LeadsOK

\* A session that has a candidate keeps it, and the others get theirs.
LEMMA WrittenCandidates ==
  ASSUME CatalogueInv, NEW i \in Importers, WriteReady(i), Catalogue!Write(i)
  PROVE  /\ candidates' \in [Ids -> {Catalogue!NoCandidate} \cup Candidate]
         /\ associations' \subseteq Association
         /\ Catalogue!ConfirmedIsAdopted' /\ DecisionsHeld
<1>1. RowsTyped
  BY DEF CatalogueInv
<1>2. candidates' = Catalogue!ImportedCandidates(i)
      /\ associations' = associations \cup Catalogue!ImportedAssociations(i)
  BY DEF Catalogue!Write
<1>3. ASSUME NEW c \in Catalogue!Adopted(i)
      PROVE  \E a \in Association : /\ a.session = process[i].found[c]
                                    /\ Belongs[a.item] = process[i].repository
                                    /\ a = [session |-> process[i].found[c],
                                            item |-> process[i].preview.adopt[c], current |-> TRUE]
  <2>1. c \in DOMAIN process[i].preview.adopt /\ process[i].preview.adopt[c] # Nothing
    BY DEF Catalogue!Adopted, Catalogue!Selected
  <2>2. process[i].found[c] \in Ids /\ process[i].preview.adopt[c] \in Items
        /\ Belongs[process[i].preview.adopt[c]] = process[i].repository
    BY <2>1, SourceBack, ListedTyped DEF WriteReady
  <2> QED BY <2>2, Bound
<1>4. associations' \subseteq Association
  BY ZenonT(60), <1>1, <1>2, <1>3 DEF RowsTyped, Catalogue!ImportedAssociations
<1>5. ASSUME NEW d \in Ids
      PROVE  \/ candidates'[d] = candidates[d]
             \/ /\ d \in Catalogue!Destinations(i) /\ candidates[d].status = "absent"
                /\ candidates'[d] \in Candidate /\ candidates'[d].repository = process[i].repository
                /\ candidates'[d].status = "confirmed" => Catalogue!Source(i, d) \in Catalogue!Adopted(i)
  <2>1. CASE d \in Catalogue!Destinations(i) /\ candidates[d].status = "absent"
    <3> DEFINE c == Catalogue!Source(i, d)
               tree == Catalogue!Row(i, c).tree
               checkout == IF tree # Nothing /\ Home[tree] = process[i].repository THEN tree ELSE Nothing
               status == IF c \in Catalogue!Adopted(i) THEN "confirmed" ELSE "unassigned"
    <3>1. candidates'[d] = [repository |-> process[i].repository, checkout |-> checkout,
                            status |-> status, told |-> process[i].preview.catalogue]
      BY <1>2, <2>1 DEF Catalogue!ImportedCandidates, Catalogue!Ids, Ids
    <3>2. checkout \in Worktrees \cup {Nothing}
      BY <2>1, SourceOf, RowTyped
    <3>3. status \in {"unassigned", "confirmed", "ignored"} /\ (status = "confirmed" => c \in Catalogue!Adopted(i))
      OBVIOUS
    <3>4. process[i].preview.catalogue \in DOMAIN Listed
      BY CatalogueAssumption DEF WriteReady
    <3> HIDE DEF checkout, status, c, tree
    <3>5. candidates'[d] \in Candidate /\ candidates'[d].repository = process[i].repository
          /\ candidates'[d].status = status
      BY <3>1, <3>2, <3>3, <3>4 DEF WriteReady, Candidate
    <3> QED BY <2>1, <3>3, <3>5 DEF c
  <2>2. CASE ~(d \in Catalogue!Destinations(i) /\ candidates[d].status = "absent")
    BY <1>2, <2>2 DEF Catalogue!ImportedCandidates, Catalogue!Ids, Ids
  <2> QED BY <2>1, <2>2
<1>6. candidates' \in [Ids -> {Catalogue!NoCandidate} \cup Candidate]
  <2>1. candidates' = [d \in Ids |-> candidates'[d]]
    BY <1>2 DEF Catalogue!ImportedCandidates, Catalogue!Ids, Ids
  <2>2. \A d \in Ids : candidates'[d] \in {Catalogue!NoCandidate} \cup Candidate
    BY <1>1, <1>5 DEF RowsTyped
  <2> QED BY <2>1, <2>2
<1>7. Catalogue!ConfirmedIsAdopted'
  <2> SUFFICES ASSUME NEW d \in Ids, candidates'[d].status = "confirmed"
               PROVE  \E a \in associations' : a.session = d /\ Belongs[a.item] = candidates'[d].repository
    BY DEF Catalogue!ConfirmedIsAdopted, Catalogue!Ids, Ids
  <2>1. CASE candidates'[d] = candidates[d]
    BY <1>2, <2>1 DEF CatalogueInv, Catalogue!ConfirmedIsAdopted, Catalogue!Ids, Ids
  <2>2. CASE candidates'[d] # candidates[d]
    <3>1. d \in Catalogue!Destinations(i) /\ candidates'[d].repository = process[i].repository
          /\ Catalogue!Source(i, d) \in Catalogue!Adopted(i)
      BY <1>5, <2>2
    <3>2. process[i].found[Catalogue!Source(i, d)] = d
      BY <3>1, SourceOf
    <3>3. PICK a \in Association : /\ a.session = process[i].found[Catalogue!Source(i, d)]
                /\ Belongs[a.item] = process[i].repository
                /\ a = [session |-> process[i].found[Catalogue!Source(i, d)],
                        item |-> process[i].preview.adopt[Catalogue!Source(i, d)], current |-> TRUE]
      BY <1>3, <3>1
    <3>4. a \in associations'
      BY <1>2, <3>1, <3>3 DEF Catalogue!ImportedAssociations
    <3> QED BY <3>1, <3>2, <3>3, <3>4
  <2> QED BY <2>1, <2>2
<1>8. DecisionsHeld
  <2>1. ASSUME NEW d \in Ids, candidates[d].status \in {"confirmed", "ignored"}
        PROVE  candidates'[d] = candidates[d]
    BY <1>5, <2>1
  <2> QED BY <2>1 DEF DecisionsHeld, Catalogue!Kept
<1> QED
  BY <1>4, <1>6, <1>7, <1>8

\* The transaction of an import keeps the invariant and every decision.
LEMMA WriteKeeps ==
  ASSUME CatalogueInv, NEW i \in Importers, Catalogue!Write(i)
  PROVE  CatalogueInv' /\ DecisionsHeld
<1>1. WriteReady(i)
  BY WriteIsReady
<1>2. SessionsOK(sessions') /\ Later(sessions, sessions')
  BY <1>1, WrittenIds DEF Catalogue!Write
<1>3. CallOK(process[i], sessions) /\ RowsTyped /\ CallsOK
  <2>1. CallsOK /\ RowsTyped
    BY DEF CatalogueInv
  <2> QED BY <2>1 DEF CallsOK
<1>4. process' \in [Importers -> {Catalogue!Idle} \cup ImportCall] /\ CallsOK'
  <2>1. Catalogue!Goto(i, "enrich")
    BY DEF Catalogue!Write
  <2> QED BY <1>1, <1>2, <1>3, <2>1, GotoKeeps DEF WriteReady
<1>5. /\ sources' \in [Natives -> Ids \cup {Nothing}] /\ destinations' \in [Reviewed -> Ways]
      /\ LeadsOK(sessions', sources', destinations')
  BY <1>1, WrittenLeads
<1>6. /\ candidates' \in [Ids -> {Catalogue!NoCandidate} \cup Candidate]
      /\ associations' \subseteq Association
      /\ Catalogue!ConfirmedIsAdopted' /\ DecisionsHeld
  BY <1>1, WrittenCandidates
<1> QED
  BY <1>2, <1>4, <1>5, <1>6 DEF CatalogueInv, RowsTyped

-----------------------------------------------------------------------------
\* Batches that were applied stay as they are, and one call goes on.
LEMMA DoomedGoesOn ==
  ASSUME RowsTyped, DoomedInv, batches' \in [Reviewed -> Codebases \cup {Nothing}],
         \A p \in Reviewed : batches[p] # Nothing =>
           batches'[p] = batches[p] /\ destinations'[p] = destinations[p],
         NEW i \in Importers, NEW n, process' = [process EXCEPT ![i] = n],
         CallDoomed(n, batches', destinations')
  PROVE  DoomedInv'
<1> SUFFICES ASSUME NEW j \in Importers PROVE CallDoomed(process'[j], batches', destinations')
  BY DEF DoomedInv
<1>1. CASE j = i
  BY <1>1 DEF RowsTyped
<1>2. CASE j # i
  <2>1. process'[j] = process[j] /\ process[j] \in {Catalogue!Idle} \cup ImportCall
    BY <1>2 DEF RowsTyped
  <2>2. CallDoomed(process[j], batches, destinations)
    BY DEF DoomedInv
  <2>3. CASE process[j].pc \in {"replay", "reconcile"}
    <3>1. process[j] \in ImportCall
      BY <2>1, <2>3 DEF Catalogue!Idle
    <3>2. process[j].preview \in Reviewed /\ batches[process[j].preview] # Nothing
      BY <2>2, <2>3, <3>1, CatalogueAssumption DEF CallDoomed, ImportCall
    <3> QED BY <2>1, <2>2, <3>2 DEF CallDoomed
  <2>4. CASE process[j].pc \notin {"replay", "reconcile"}
    BY <2>1, <2>4 DEF CallDoomed
  <2> QED BY <2>3, <2>4
<1> QED
  BY <1>1, <1>2

\* A call that is not about a batch it has found knows nothing of one.
LEMMA NothingDoomed ==
  ASSUME NEW n, n.pc \notin {"replay", "reconcile"}, NEW b, NEW dest
  PROVE  CallDoomed(n, b, dest)
BY DEF CallDoomed

\* A call that returns or goes on, and leaves the batches alone.
LEMMA DoomedCalls ==
  ASSUME RowsTyped, DoomedInv, UNCHANGED <<batches, destinations>>,
         \/ UNCHANGED process
         \/ \E i \in Importers : \E n :
              process' = [process EXCEPT ![i] = n] /\ CallDoomed(n, batches, destinations)
  PROVE  DoomedInv'
<1>1. CASE UNCHANGED process
  BY <1>1 DEF DoomedInv
<1>2. ASSUME NEW i \in Importers, NEW n, process' = [process EXCEPT ![i] = n],
             CallDoomed(n, batches, destinations)
      PROVE  DoomedInv'
  BY <1>2, DoomedGoesOn DEF DoomedInv
<1> QED
  BY <1>1, <1>2

\* Every step keeps what calls know of the batches they have found.
LEMMA DoomedStep ==
  ASSUME CatalogueInv, DoomedInv, Catalogue!Next
  PROVE  DoomedInv'
<1>1. RowsTyped
  BY DEF CatalogueInv
<1>2. ASSUME NEW i \in Importers, Catalogue!Return(i), UNCHANGED <<batches, destinations>>
      PROVE  DoomedInv'
  <2>1. CallDoomed(Catalogue!Idle, batches, destinations)
    BY NothingDoomed DEF Catalogue!Idle
  <2> QED BY <1>1, <1>2, <2>1, DoomedCalls DEF Catalogue!Return
<1>3. ASSUME NEW i \in Importers, NEW pc \in {"enrich", "resolve", "write"},
             process[i] \in ImportCall, Catalogue!Goto(i, pc)
      PROVE  \E n : process' = [process EXCEPT ![i] = n] /\ n.pc = pc
  <2> DEFINE n == [process[i] EXCEPT !.pc = pc]
  <2>1. process' = [process EXCEPT ![i] = n] /\ n.pc = pc
    BY <1>1, <1>3 DEF Catalogue!Goto, RowsTyped, ImportCall
  <2> HIDE DEF n
  <2> QED BY <2>1
<1>4. ASSUME NEW i \in Importers, NEW pc \in {"enrich", "resolve", "write"},
             process[i] \in ImportCall, Catalogue!Goto(i, pc), UNCHANGED <<batches, destinations>>
      PROVE  DoomedInv'
  <2>1. PICK n : process' = [process EXCEPT ![i] = n] /\ n.pc = pc
    BY <1>3, <1>4
  <2>2. CallDoomed(n, batches, destinations)
    BY <2>1, NothingDoomed
  <2> QED BY <1>1, <1>4, <2>1, <2>2, DoomedCalls
<1>5. ASSUME NEW i \in Importers, Catalogue!ImportCatalogue(i) PROVE DoomedInv'
  <2>1. PICK p \in Reviewed, r \in Codebases : Catalogue!Apply(i, p, r)
    BY <1>5 DEF Catalogue!ImportCatalogue
  <2> DEFINE n == [pc |-> IF Catalogue!ExistingImport(p, r) THEN "replay" ELSE "import", preview |-> p,
                   repository |-> r, found |-> << >>, doomed |-> {}]
  <2>2. process' = [process EXCEPT ![i] = n] /\ UNCHANGED <<batches, destinations>>
    BY <2>1 DEF Catalogue!Apply, Catalogue!imports
  <2>3. CallDoomed(n, batches, destinations)
    BY DEF CallDoomed, Catalogue!ExistingImport
  <2> HIDE DEF n
  <2> QED BY <1>1, <2>2, <2>3, DoomedCalls
<1>6. ASSUME NEW i \in Importers, Catalogue!Replay(i) PROVE DoomedInv'
  <2>1. process[i] \in ImportCall /\ process[i].pc = "replay" /\ UNCHANGED <<batches, destinations>>
    BY <1>1, <1>6, AtCall DEF CatalogueInv, Catalogue!Replay, Catalogue!imports
  <2> DEFINE doomed == {destinations[process[i].preview][c] :
                c \in Catalogue!Mismatched(i) \cap DOMAIN destinations[process[i].preview]}
             n == [process[i] EXCEPT !.pc = "reconcile", !.doomed = doomed]
  <2>2. CASE process' = [process EXCEPT ![i].pc = "reconcile", ![i].doomed = doomed]
    <3>1. process' = [process EXCEPT ![i] = n]
      BY <1>1, <2>2 DEF RowsTyped
    <3>2. n.pc = "reconcile" /\ n.preview = process[i].preview /\ n.doomed = doomed
          /\ n.repository = process[i].repository
      <4> HIDE DEF doomed
      <4> QED BY <2>1 DEF ImportCall
    <3>3. batches[process[i].preview] = process[i].repository
      BY <2>1 DEF DoomedInv, CallDoomed
    <3>4. \A d \in doomed : \E c \in DOMAIN destinations[process[i].preview] :
            /\ destinations[process[i].preview][c] = d
            /\ ~Catalogue!MatchesRepository(process[i].preview.catalogue, c, process[i].repository)
      BY DEF Catalogue!Mismatched
    <3> HIDE DEF n, doomed
    <3>5. CallDoomed(n, batches, destinations)
      BY <3>2, <3>3, <3>4 DEF CallDoomed
    <3> QED BY <1>1, <2>1, <3>1, <3>5, DoomedCalls
  <2> QED BY <1>2, <1>4, <1>6, <2>1, <2>2 DEF Catalogue!Replay
<1>7. ASSUME NEW i \in Importers, Catalogue!Write(i) PROVE DoomedInv'
  <2>1. /\ process[i] \in ImportCall /\ Catalogue!Goto(i, "enrich")
        /\ batches[process[i].preview] = Nothing
        /\ batches' = [batches EXCEPT ![process[i].preview] = process[i].repository]
        /\ destinations' = [destinations EXCEPT ![process[i].preview] = process[i].found]
    BY <1>1, <1>7, AtCall DEF CatalogueInv, Catalogue!Write, Catalogue!Constraints
  <2>2. PICK n : process' = [process EXCEPT ![i] = n] /\ n.pc = "enrich"
    BY <1>3, <2>1
  <2>3. CallDoomed(n, batches', destinations')
    BY <2>2, NothingDoomed
  <2>4. /\ batches' \in [Reviewed -> Codebases \cup {Nothing}]
        /\ \A p \in Reviewed : batches[p] # Nothing =>
             batches'[p] = batches[p] /\ destinations'[p] = destinations[p]
    BY <1>1, <2>1 DEF DoomedInv, RowsTyped, ImportCall
  <2> QED BY <1>1, <2>2, <2>3, <2>4, DoomedGoesOn
<1>8. ASSUME NEW i \in Importers, NEW c \in Conversations, Catalogue!Resolve(i, c), ~Catalogue!Return(i)
      PROVE  DoomedInv'
  <2>1. process[i] \in ImportCall /\ process[i].pc = "resolve" /\ UNCHANGED <<batches, destinations>>
    BY <1>1, <1>8, AtCall DEF CatalogueInv, Catalogue!Resolve, Catalogue!imports
  <2>2. PICK way : process' = [process EXCEPT ![i].found = way]
    BY <1>8, Zenon DEF Catalogue!Resolve
  <2> DEFINE n == [process[i] EXCEPT !.found = way]
  <2>3. process' = [process EXCEPT ![i] = n] /\ n.pc = "resolve"
    BY <1>1, <2>1, <2>2 DEF RowsTyped, ImportCall
  <2> HIDE DEF n
  <2>4. CallDoomed(n, batches, destinations)
    BY <2>3, NothingDoomed
  <2> QED BY <1>1, <2>1, <2>3, <2>4, DoomedCalls
<1>9. ASSUME NEW i \in Importers,
             \/ Catalogue!Reconcile(i) \/ Catalogue!Import(i) \/ Catalogue!ValidateCandidateAdoptions(i)
             \/ Catalogue!WriteFails(i) \/ Catalogue!Enrich(i) \/ Catalogue!Crash(i)
      PROVE  DoomedInv'
  <2>1. UNCHANGED <<batches, destinations>>
    BY <1>9 DEF Catalogue!Reconcile, Catalogue!Import, Catalogue!ValidateCandidateAdoptions,
       Catalogue!WriteFails, Catalogue!Enrich, Catalogue!Crash, Catalogue!imports
  <2>2. \/ Catalogue!Return(i)
        \/ \E pc \in {"reconcile", "import", "resolve"} : Catalogue!At(i, pc) /\
             \E to \in {"enrich", "resolve", "write"} : Catalogue!Goto(i, to)
    BY <1>9 DEF Catalogue!Reconcile, Catalogue!Import, Catalogue!ValidateCandidateAdoptions,
       Catalogue!WriteFails, Catalogue!Enrich, Catalogue!Crash
  <2>3. CASE Catalogue!Return(i)
    BY <1>2, <2>1, <2>3
  <2>4. ASSUME NEW pc \in {"reconcile", "import", "resolve"}, Catalogue!At(i, pc),
               NEW to \in {"enrich", "resolve", "write"}, Catalogue!Goto(i, to)
        PROVE  DoomedInv'
    <3>1. process[i] \in ImportCall
      BY <1>1, <2>4, AtCall DEF CatalogueInv
    <3> QED BY <1>4, <2>1, <2>4, <3>1
  <2> QED BY <2>2, <2>3, <2>4
<1>10. ASSUME NEW i \in Importers,
              Catalogue!ImportCatalogue(i) \/ Catalogue!Step(i) \/ Catalogue!Crash(i)
       PROVE  DoomedInv'
  <2>1. ASSUME NEW c \in Conversations, Catalogue!Resolve(i, c), Catalogue!Return(i) PROVE DoomedInv'
    BY <1>2, <2>1 DEF Catalogue!Resolve, Catalogue!imports
  <2> QED BY <1>5, <1>6, <1>7, <1>8, <1>9, <1>10, <2>1 DEF Catalogue!Step
<1>11. CASE \/ \E d \in Catalogue!Ids : \/ Catalogue!Decision(d) \/ Catalogue!CloseSession(d)
                                         \/ \E item \in Items : Catalogue!Bind(d, item)
            \/ \E n \in Natives : Catalogue!EnsureNativeSession(n) \/ Catalogue!Refresh(n)
            \/ \E v \in Catalogue!Catalogues : Catalogue!ReplaceBackup(v)
  <2>1. UNCHANGED <<batches, destinations, process>>
    BY <1>11 DEF Catalogue!Decision, Catalogue!IgnoreImported, Catalogue!AdoptImported,
       Catalogue!CloseSession, Catalogue!Bind, Catalogue!EnsureNativeSession, Catalogue!Refresh,
       Catalogue!ReplaceBackup, Catalogue!imports
  <2> QED BY <1>1, <2>1, DoomedCalls
<1> QED
  BY <1>10, <1>11 DEF Catalogue!Next

\* The invariant of the catalogues is inductive, and no step changes a decision but a
\* reconciliation of a candidate that is misplaced.
LEMMA CatalogueStep ==
  ASSUME CatalogueInv, DoomedInv, Catalogue!Next
  PROVE  CatalogueInv' /\ Catalogue!DecisionKept
<1>1. CASE \E i \in Importers : Catalogue!ImportCatalogue(i) \/ Catalogue!Step(i) \/ Catalogue!Crash(i)
  <2> PICK i \in Importers : Catalogue!ImportCatalogue(i) \/ Catalogue!Step(i) \/ Catalogue!Crash(i)
    BY <1>1
  <2>1. CASE Catalogue!ImportCatalogue(i)
    BY <2>1, ApplyKeeps, DecisionsHeldAreKept DEF Catalogue!ImportCatalogue
  <2>2. CASE Catalogue!Step(i)
    BY <2>2, ReplayKeeps, ReconcileKeeps, ImportKeeps, ResolveKeeps, ValidateKeeps, WriteKeeps, EnrichKeeps,
       DecisionsHeldAreKept DEF Catalogue!Step
  <2>3. CASE Catalogue!Crash(i)
    BY <2>3, ImportKeeps, DecisionsHeldAreKept
  <2> QED BY <2>1, <2>2, <2>3
<1>2. CASE \E d \in Catalogue!Ids : \/ Catalogue!Decision(d) \/ Catalogue!CloseSession(d)
                                    \/ \E item \in Items : Catalogue!Bind(d, item)
  BY <1>2, DecisionKeeps, BindingKeeps, DecisionsHeldAreKept DEF Catalogue!Ids, Ids
<1>3. CASE \E n \in Natives : Catalogue!EnsureNativeSession(n) \/ Catalogue!Refresh(n)
  BY <1>3, DiscoveryKeeps, DecisionsHeldAreKept
<1>4. CASE \E v \in Catalogue!Catalogues : Catalogue!ReplaceBackup(v)
  <2>1. UNCHANGED <<sessions, sources, associations, candidates, destinations, process>>
    BY <1>4 DEF Catalogue!ReplaceBackup, Catalogue!found, Catalogue!imports
  <2>2. process' \in [Importers -> {Catalogue!Idle} \cup ImportCall] /\ CallsOK'
    BY <2>1, CallsStay, SameLater DEF CatalogueInv
  <2> QED BY <2>1, <2>2, NothingWritten, DecisionsHeldAreKept
<1> QED
  BY <1>1, <1>2, <1>3, <1>4 DEF Catalogue!Next

\* Nor does a step that leaves the catalogues alone.
LEMMA CatalogueStutters ==
  ASSUME CatalogueInv, DoomedInv, UNCHANGED ofSessions, UNCHANGED <<batches, process>>
  PROVE  CatalogueInv' /\ DoomedInv' /\ Catalogue!DecisionKept
<1>1. UNCHANGED <<sessions, sources, associations, candidates, destinations, process>>
  BY DEF ofSessions
<1>2. process' \in [Importers -> {Catalogue!Idle} \cup ImportCall] /\ CallsOK'
  BY <1>1, CallsStay, SameLater DEF CatalogueInv
<1>3. DoomedInv'
  BY <1>1, DoomedCalls DEF CatalogueInv
<1> QED BY <1>1, <1>2, <1>3, NothingWritten, DecisionsHeldAreKept

\* The invariant, as long as sessions are imported.
SessionsAlways == importing = "sessions" => CatalogueInv /\ DoomedInv

\* The invariant holds in every run that imports sessions.
LEMMA SessionsAreKept == ImportsSpec => []SessionsAlways
<1>1. ImportsInit => SessionsAlways
  <2>1. Catalogue!Init => DoomedInv
    <3> SUFFICES ASSUME Catalogue!Init PROVE DoomedInv
      OBVIOUS
    <3>1. batches \in [Reviewed -> Codebases \cup {Nothing}]
      BY DEF Catalogue!Init
    <3>2. \A i \in Importers : process[i] = Catalogue!Idle
      BY DEF Catalogue!Init
    <3>3. CallDoomed(Catalogue!Idle, batches, destinations)
      BY NothingDoomed DEF Catalogue!Idle
    <3> QED BY <3>1, <3>2, <3>3 DEF DoomedInv
  <2> QED BY <2>1, CatalogueStart DEF ImportsInit, SessionsAlways
<1>2. SessionsAlways /\ [ImportsNext]_importsVars => SessionsAlways'
  BY CatalogueStep, DoomedStep, CatalogueStutters DEF SessionsAlways, ImportsNext, importsVars
<1> QED
  BY <1>1, <1>2, PTL DEF ImportsSpec

\* Whatever is imported, by how many processes, from which catalogues and in which order, and
\* whoever discovers the sessions meanwhile: the rows of a transaction that was decided
\* before it began lead to the sessions that were listed, and what is confirmed was adopted
\* in its own repository (apply_context_catalogue_import, adopt_imported_session_candidate,
\* refresh).
THEOREM SessionsFoundTheirs == ImportsSpec => []CandidatesAreTheirs
<1>1. SessionsAlways => CandidatesAreTheirs
  BY CatalogueInvPromises DEF SessionsAlways, CandidatesAreTheirs
<1> QED
  BY <1>1, SessionsAreKept, PTL

\* No import, repeated import, reconciliation or discovery changes what a person decided on a
\* candidate, for every catalogue and every number of imports, but that a reconciliation deletes
\* one that was dismissed when a catalogue imported for its repository places it in another
\* (reconcile_legacy_candidates, enrich_legacy_candidates).
THEOREM DecisionsAreKept == ImportsSpec => DecisionsStay
<1>1. SessionsAlways /\ [ImportsNext]_importsVars => [importing = "sessions" => Catalogue!DecisionKept]_importsVars
  BY CatalogueStep, DoomedStep, CatalogueStutters DEF SessionsAlways, ImportsNext, importsVars
<1> QED
  BY <1>1, SessionsAreKept, PTL DEF ImportsSpec, DecisionsStay

-----------------------------------------------------------------------------
(* Epics and plans.                                                        *)

\* What has a title, documents with their three copies, calls and decisions.
Titled == Proposals \cup Plans
Document ==
  [title : {"none", "torn"} \cup {TitleOf[x] : x \in Titled},
   id : (Plans \X {"epic", "feature"}) \cup Seq(Nat)]
Blank == {Epics!NoDocument, Epics!TornDocument}
DocumentRow ==
  [title : {"none"} \cup {TitleOf[x] : x \in Titled}, document : Document \ {Epics!TornDocument}]
Copies == [form : Document, staged : Document, committed : Document]
EpicCall ==
  [pc : {"lookup", "inspect", "write", "fill", "add", "commit", "rows", "decide", "preflight",
         "compare", "create"},
   of : Titled, todo : Seq(Epics!Paths), epic : BOOLEAN, document : Document]
Decided == [status : {"awaiting_approval", "approved", "rejected"}, epic : BOOLEAN]

\* Proposals, rows, files and calls keep to their values.
EpicsTyped ==
  /\ proposals \in [Proposals -> Decided]
  /\ rows \in [Epics!Paths -> DocumentRow]
  /\ file \in [Epics!Paths -> Copies]
  /\ process \in [Importers -> {Epics!Idle} \cup EpicCall]
  /\ overtaken \subseteq Plans
  /\ calls \in Nat

\* A document is staged as it was written, and committed as it was staged, or torn.
StagedAsWritten ==
  \A d \in Epics!Paths :
    /\ file[d].staged \in Blank \cup {file[d].form}
    /\ file[d].committed \in Blank \cup {file[d].staged}

\* The document that a call means for a path, and the paths of a call.
Meant(n, d) ==
  IF n.of \in Plans THEN [title |-> n.document.title, id |-> <<n.of, d[2]>>] ELSE n.document
EpicOf(n) == <<SlugOf[n.of], "epic">>
FeatureOf(n) == <<SlugOf[n.of], "feature">>
Targets(n) == IF n.of \in Plans THEN {EpicOf(n), FeatureOf(n)} ELSE {EpicOf(n)}

\* The file that a call is writing.
FillPath(n) == IF n.of \in Plans THEN Head(n.todo) ELSE EpicOf(n)

\* A document that is being written is torn, and one call is writing it.
FillsApart ==
  \A p \in Importers : process[p].pc = "fill" =>
    /\ file[FillPath(process[p])].form = Epics!TornDocument
    /\ \A q \in Importers : q # p /\ process[q].pc = "fill" => FillPath(process[q]) # FillPath(process[p])

\* It is at the path, unless another one was there first, and it is staged and committed.
Written(n, d, f, o) == f[d].form # Epics!NoDocument /\ (n.of \in o \/ f[d].form = Meant(n, d))
Staged(d, f) == f[d].staged = f[d].form
Committed(d, f) == Staged(d, f) /\ f[d].committed = f[d].form

\* How far a call has come.
Progress(n, f, o) ==
  /\ n.of \in Proposals => n.document \notin Blank
  /\ n.pc \in {"lookup", "inspect", "write", "decide"} => n.of \in Proposals
  /\ n.pc \in {"preflight", "compare", "create"} => n.of \in Plans
  /\ n.pc \in {"add", "commit", "rows"} => \A d \in Targets(n) : Written(n, d, f, o)
  /\ n.pc \in {"commit", "rows"} => \A d \in Targets(n) : n.of \in o \/ Staged(d, f)
  /\ n.pc = "rows" => \A d \in Targets(n) : n.of \in o \/ Committed(d, f)
  /\ n.pc = "create" =>
       \/ n.todo = <<EpicOf(n), FeatureOf(n)>>
       \/ n.todo = <<FeatureOf(n)>> /\ Written(n, EpicOf(n), f, o)
       \/ n.todo = << >> /\ Written(n, EpicOf(n), f, o) /\ Written(n, FeatureOf(n), f, o)
  /\ n.pc = "fill" /\ n.of \in Plans =>
       \/ n.todo = <<EpicOf(n), FeatureOf(n)>>
       \/ n.todo = <<FeatureOf(n)>> /\ Written(n, EpicOf(n), f, o)

\* An Epic of the slug and the title of a proposal.
HasEpic(q, r) ==
  /\ r[<<SlugOf[q], "epic">>].document # Epics!NoDocument
  /\ r[<<SlugOf[q], "epic">>].title = TitleOf[q]

\* What a call is about to decide is so, or is decided already.
Founded(n, r, decided) ==
  n.pc = "decide" => (n.epic /\ HasEpic(n.of, r)) \/ decided[n.of].status # "awaiting_approval"

\* What a call has come to.
EpicCallOK(n, f, o, r, decided) == n.pc # "idle" => Progress(n, f, o) /\ Founded(n, r, decided)

EpicCallsOK == \A p \in Importers : EpicCallOK(process[p], file, overtaken, rows, proposals)

\* What is approved has an Epic.
ApprovedHave(r, decided) ==
  \A q \in Proposals : decided[q].status = "approved" => decided[q].epic /\ HasEpic(q, r)

\* The inductive invariant of the Epics.
EpicsInv ==
  /\ EpicsTyped /\ StagedAsWritten /\ EpicCallsOK /\ FillsApart
  /\ Epics!RowsAreCommitted /\ ApprovedHave(rows, proposals)

\* What is created stays, and what is written, and is staged or committed.
FilesGoOn(f, g) ==
  \A d \in Epics!Paths :
    /\ f[d].form # Epics!NoDocument => g[d].form # Epics!NoDocument
    /\ f[d].form \notin Blank =>
         /\ g[d].form = f[d].form
         /\ Staged(d, f) => Staged(d, g)
         /\ Committed(d, f) => Committed(d, g)

\* Rows stay, and decisions.
RowsGoOn(r, s) == \A d \in Epics!Paths : r[d].document # Epics!NoDocument => s[d] = r[d]
DecisionsGoOn(e, h) == \A q \in Proposals : e[q].status # "awaiting_approval" => h[q].status # "awaiting_approval"

-----------------------------------------------------------------------------
\* No document is a document, and so is a torn one.
LEMMA NoDocumentTyped ==
  Blank \subseteq Document /\ Epics!NoDocument \in Document \ {Epics!TornDocument}
  /\ Epics!TornDocument # Epics!NoDocument
<1>1. Epics!TornDocument.title # Epics!NoDocument.title
  BY DEF Epics!NoDocument, Epics!TornDocument
<1>2. Epics!NoDocument \in Document /\ Epics!TornDocument \in Document
  BY DEF Epics!NoDocument, Epics!TornDocument, Document
<1> QED
  BY <1>1, <1>2 DEF Blank

\* A document with an id is not blank.
LEMMA NotBlank == ASSUME NEW x, x.id # << >> PROVE x \notin Blank
BY DEF Blank, Epics!NoDocument, Epics!TornDocument

\* The paths of a call are paths.
LEMMA TargetsTyped ==
  ASSUME NEW n \in EpicCall
  PROVE  /\ Targets(n) \subseteq Epics!Paths
         /\ EpicOf(n) \in Targets(n) /\ EpicOf(n) \in Epics!Paths /\ FeatureOf(n) \in Epics!Paths
         /\ EpicOf(n)[2] = "epic" /\ FeatureOf(n)[2] = "feature"
<1>1. SlugOf[n.of] \in Slugs
  BY EpicsAssumption DEF EpicCall, Titled
<1> QED
  BY <1>1 DEF Targets, EpicOf, FeatureOf, Epics!Paths

\* What a call means to write is a document.
LEMMA MeantTyped ==
  ASSUME NEW n \in EpicCall, NEW d \in Epics!Paths, n.of \in Proposals => n.document \notin Blank
  PROVE  Meant(n, d) \in Document /\ Meant(n, d) \notin Blank
<1>1. CASE n.of \in Plans
  <2> DEFINE x == [title |-> n.document.title, id |-> <<n.of, d[2]>>]
  <2>1. d[2] \in {"epic", "feature"}
    BY DEF Epics!Paths
  <2>2. n.document.title \in {"none", "torn"} \cup {TitleOf[y] : y \in Titled}
    BY DEF EpicCall, Document
  <2>3. <<n.of, d[2]>> # << >>
    OBVIOUS
  <2>4. <<n.of, d[2]>> \in Plans \X {"epic", "feature"}
    BY <1>1, <2>1
  <2>5. x \in Document /\ x.id # << >>
    BY <2>2, <2>3, <2>4 DEF Document
  <2>6. Meant(n, d) = x
    BY <1>1 DEF Meant
  <2> HIDE DEF x
  <2> QED
    BY <2>5, <2>6, NotBlank
<1>2. CASE n.of \notin Plans
  BY <1>2 DEF Meant, EpicCall, Titled
<1> QED
  BY <1>1, <1>2

\* The instance's own words for a call.
LEMMA SameWords ==
  ASSUME NEW p, process[p] \in EpicCall
  PROVE  /\ Epics!PathsOf(p) = Targets(process[p]) /\ Epics!EpicPath(p) = EpicOf(process[p])
         /\ \A d \in Epics!Paths : Epics!DocumentOf(p, d) = Meant(process[p], d)
<1>1. {SlugOf[process[p].of]} \X {"epic", "feature"} = {EpicOf(process[p]), FeatureOf(process[p])}
  BY DEF EpicOf, FeatureOf
<1> QED
  BY <1>1 DEF Epics!PathsOf, Epics!EpicPath, Epics!DocumentOf, Epics!Importing, Epics!Of, Targets,
       EpicOf, FeatureOf, Meant

\* What a call has come to stays true while files, rows and decisions only go on.
LEMMA CallGoesOn ==
  ASSUME NEW n \in EpicCall, NEW f, NEW g, NEW o, NEW u, NEW r, NEW s, NEW e, NEW h,
         EpicCallOK(n, f, o, r, e), FilesGoOn(f, g), o \subseteq u, RowsGoOn(r, s), DecisionsGoOn(e, h)
  PROVE  EpicCallOK(n, g, u, s, h)
<1>1. n.pc # "idle"
  BY DEF EpicCall
<1>2. Progress(n, f, o) /\ Founded(n, r, e)
  BY <1>1 DEF EpicCallOK
<1>3. ASSUME NEW d \in Epics!Paths, Written(n, d, f, o)
      PROVE  /\ Written(n, d, g, u)
             /\ n.of \in o \/ Staged(d, f) => n.of \in u \/ Staged(d, g)
             /\ n.of \in o \/ Committed(d, f) => n.of \in u \/ Committed(d, g)
  <2>1. Meant(n, d) \notin Blank
    BY <1>2, MeantTyped DEF Progress
  <2>2. n.of \in u \/ f[d].form \notin Blank
    BY <1>3, <2>1 DEF Written
  <2>3. g[d].form # Epics!NoDocument
    BY <1>3 DEF FilesGoOn, Written
  <2> QED BY <1>3, <2>2, <2>3 DEF FilesGoOn, Written
<1>4. Progress(n, g, u)
  <2>1. \A d \in Targets(n) : Written(n, d, f, o) =>
             /\ Written(n, d, g, u)
             /\ n.of \in o \/ Staged(d, f) => n.of \in u \/ Staged(d, g)
             /\ n.of \in o \/ Committed(d, f) => n.of \in u \/ Committed(d, g)
    BY <1>3, TargetsTyped
  <2>2. EpicOf(n) \in Epics!Paths /\ FeatureOf(n) \in Epics!Paths
    BY TargetsTyped
  <2>3. n.pc = "create" =>
       \/ n.todo = <<EpicOf(n), FeatureOf(n)>>
       \/ n.todo = <<FeatureOf(n)>> /\ Written(n, EpicOf(n), g, u)
       \/ n.todo = << >> /\ Written(n, EpicOf(n), g, u) /\ Written(n, FeatureOf(n), g, u)
    BY <1>2, <1>3, <2>2 DEF Progress
  <2>4. n.pc = "fill" /\ n.of \in Plans =>
       \/ n.todo = <<EpicOf(n), FeatureOf(n)>>
       \/ n.todo = <<FeatureOf(n)>> /\ Written(n, EpicOf(n), g, u)
    BY <1>2, <1>3, <2>2 DEF Progress
  <2> QED BY <1>2, <2>1, <2>3, <2>4 DEF Progress
<1>5. Founded(n, s, h)
  <2> SUFFICES ASSUME n.pc = "decide"
               PROVE  (n.epic /\ HasEpic(n.of, s)) \/ h[n.of].status # "awaiting_approval"
    BY DEF Founded
  <2>1. n.of \in Proposals /\ <<SlugOf[n.of], "epic">> \in Epics!Paths
    BY <1>2, TargetsTyped DEF Progress, EpicOf
  <2>2. HasEpic(n.of, r) => HasEpic(n.of, s)
    BY <2>1 DEF HasEpic, RowsGoOn
  <2> QED BY <1>2, <2>1, <2>2 DEF Founded, DecisionsGoOn
<1> QED
  BY <1>4, <1>5 DEF EpicCallOK

\* A process outside of calls has come to nothing that could be wrong.
LEMMA IdleCall == ASSUME NEW f, NEW o, NEW r, NEW e PROVE EpicCallOK(Epics!Idle, f, o, r, e)
BY DEF EpicCallOK, Epics!Idle

\* One call goes on, or none.
LEMMA EpicCallsGoOn ==
  ASSUME EpicsTyped, EpicCallsOK, FilesGoOn(file, file'), overtaken \subseteq overtaken',
         RowsGoOn(rows, rows'), DecisionsGoOn(proposals, proposals'),
         NEW p \in Importers, NEW n \in {Epics!Idle} \cup EpicCall,
         process' = [process EXCEPT ![p] = n],
         EpicCallOK(n, file', overtaken', rows', proposals')
  PROVE  process' \in [Importers -> {Epics!Idle} \cup EpicCall] /\ EpicCallsOK'
<1>1. process \in [Importers -> {Epics!Idle} \cup EpicCall]
  BY DEF EpicsTyped
<1>2. ASSUME NEW q \in Importers PROVE EpicCallOK(process'[q], file', overtaken', rows', proposals')
  <2>1. CASE q = p BY <1>1, <2>1
  <2>2. CASE q # p
    <3>1. process'[q] = process[q] /\ process[q] \in {Epics!Idle} \cup EpicCall
      BY <1>1, <2>2
    <3>2. EpicCallOK(process[q], file, overtaken, rows, proposals)
      BY DEF EpicCallsOK
    <3> QED BY <3>1, <3>2, CallGoesOn, IdleCall
  <2> QED BY <2>1, <2>2
<1> QED
  BY <1>1, <1>2 DEF EpicCallsOK

\* What all calls have come to stays true while files, rows and decisions only go on.
LEMMA EpicCallsStay ==
  ASSUME EpicsTyped, EpicCallsOK, FilesGoOn(file, file'), overtaken \subseteq overtaken',
         RowsGoOn(rows, rows'), DecisionsGoOn(proposals, proposals'), process' = process
  PROVE  process' \in [Importers -> {Epics!Idle} \cup EpicCall] /\ EpicCallsOK'
<1>1. ASSUME NEW q \in Importers PROVE EpicCallOK(process'[q], file', overtaken', rows', proposals')
  <2>1. process[q] \in {Epics!Idle} \cup EpicCall /\ EpicCallOK(process[q], file, overtaken, rows, proposals)
    BY DEF EpicsTyped, EpicCallsOK
  <2> QED BY <2>1, CallGoesOn, IdleCall
<1> QED
  BY <1>1 DEF EpicCallsOK, EpicsTyped

\* Files that stay as they are go on.
LEMMA FilesSame == ASSUME NEW f PROVE FilesGoOn(f, f)
BY DEF FilesGoOn

\* Rows that stay as they are go on.
LEMMA RowsSame == ASSUME NEW r PROVE RowsGoOn(r, r)
BY DEF RowsGoOn

\* Decisions that stay as they are go on.
LEMMA DecisionsSame == ASSUME NEW e PROVE DecisionsGoOn(e, e)
BY DEF DecisionsGoOn

\* What is committed for a row stays committed.
LEMMA RowsStayCommitted ==
  ASSUME EpicsTyped, StagedAsWritten, Epics!RowsAreCommitted, FilesGoOn(file, file'),
         overtaken \subseteq overtaken', rows' = rows
  PROVE  Epics!RowsAreCommitted'
<1>1. ASSUME NEW d \in Epics!Paths, rows[d].document # Epics!NoDocument,
             file[d].committed = rows[d].document
      PROVE  file'[d].committed = rows[d].document
  <2>1. rows[d].document \notin Blank
    BY <1>1 DEF EpicsTyped, DocumentRow, Blank
  <2>2. file[d].form = rows[d].document /\ Committed(d, file)
    BY <1>1, <2>1 DEF StagedAsWritten, Committed, Staged
  <2> QED BY <2>1, <2>2 DEF FilesGoOn, Committed
<1> QED
  BY <1>1 DEF Epics!RowsAreCommitted, Epics!HasRow

\* A step of a call that decides nothing and inserts nothing.
LEMMA FilesMove ==
  ASSUME EpicsInv, UNCHANGED <<proposals, rows>>, file' \in [Epics!Paths -> Copies], StagedAsWritten',
         FilesGoOn(file, file'), overtaken \subseteq overtaken', overtaken' \subseteq Plans, calls' \in Nat,
         process' \in [Importers -> {Epics!Idle} \cup EpicCall], EpicCallsOK', FillsApart'
  PROVE  EpicsInv'
<1>1. EpicsTyped'
  BY DEF EpicsInv, EpicsTyped
<1>2. Epics!RowsAreCommitted'
  BY RowsStayCommitted DEF EpicsInv
<1>3. ApprovedHave(rows, proposals)'
  BY DEF EpicsInv, ApprovedHave, HasEpic
<1> QED
  BY <1>1, <1>2, <1>3 DEF EpicsInv

\* A step that changes only what a process has come to keeps the invariant.
LEMMA OnlyProcess ==
  ASSUME EpicsInv, UNCHANGED <<proposals, rows, file, overtaken>>, calls' \in Nat,
         process' \in [Importers -> {Epics!Idle} \cup EpicCall], EpicCallsOK', FillsApart'
  PROVE  EpicsInv'
<1>1. file' \in [Epics!Paths -> Copies] /\ overtaken' \subseteq Plans
  BY DEF EpicsInv, EpicsTyped
<1>2. StagedAsWritten'
  BY DEF EpicsInv, StagedAsWritten
<1> QED
  BY <1>1, <1>2, FilesMove, FilesSame

\* What a call has come to at one of its points.
LEMMA AtEpicCall ==
  ASSUME EpicsTyped, EpicCallsOK, NEW p \in Importers, NEW pc, Epics!At(p, pc), pc # "idle"
  PROVE  /\ process[p] \in EpicCall /\ process[p].pc = pc
         /\ Progress(process[p], file, overtaken) /\ Founded(process[p], rows, proposals)
<1>1. process[p] \in {Epics!Idle} \cup EpicCall /\ process[p].pc # "idle"
  BY DEF EpicsTyped, Epics!At
<1>2. process[p] # Epics!Idle
  BY <1>1 DEF Epics!Idle
<1> QED
  BY <1>1, <1>2 DEF EpicCallsOK, EpicCallOK, Epics!At

\* A call at another program counter.
LEMMA GoesTo ==
  ASSUME EpicsTyped, NEW p \in Importers, process[p] \in EpicCall,
         NEW pc \in {"lookup", "inspect", "write", "fill", "add", "commit", "rows", "decide",
                     "preflight", "compare", "create"},
         Epics!Goto(p, pc)
  PROVE  \E n \in EpicCall :
           /\ process' = [process EXCEPT ![p] = n] /\ n.pc = pc
           /\ n.of = process[p].of /\ n.document = process[p].document
           /\ n.todo = process[p].todo /\ n.epic = process[p].epic
<1> DEFINE n == [process[p] EXCEPT !.pc = pc]
<1>1. n \in EpicCall /\ n.pc = pc /\ n.of = process[p].of /\ n.document = process[p].document
      /\ n.todo = process[p].todo /\ n.epic = process[p].epic
  BY DEF EpicCall
<1>2. process' = [process EXCEPT ![p] = n]
  BY DEF EpicsTyped, Epics!Goto
<1> QED
  BY <1>1, <1>2

\* The same call, as far as its targets are concerned.
LEMMA SameTargets ==
  ASSUME NEW n, NEW m, n.of = m.of, n.document = m.document
  PROVE  /\ Targets(n) = Targets(m) /\ EpicOf(n) = EpicOf(m) /\ FeatureOf(n) = FeatureOf(m)
         /\ \A d : Meant(n, d) = Meant(m, d)
         /\ \A d, f, o : Written(n, d, f, o) <=> Written(m, d, f, o)
BY DEF Targets, EpicOf, FeatureOf, Meant, Written

\* The file that a call is writing is at a path of a document.
LEMMA FillPathTyped ==
  ASSUME EpicsTyped, EpicCallsOK, NEW p \in Importers, process[p].pc = "fill"
  PROVE  /\ process[p] \in EpicCall /\ Progress(process[p], file, overtaken)
         /\ FillPath(process[p]) \in Epics!Paths
<1>1. process[p] \in EpicCall /\ Progress(process[p], file, overtaken)
  BY AtEpicCall DEF Epics!At
<1>2. EpicOf(process[p]) \in Epics!Paths /\ FeatureOf(process[p]) \in Epics!Paths
  BY <1>1, TargetsTyped
<1>3. CASE process[p].of \in Plans
  <2>1. process[p].todo \in {<<EpicOf(process[p]), FeatureOf(process[p])>>, <<FeatureOf(process[p])>>}
    BY <1>1, <1>3 DEF Progress
  <2> QED BY <1>1, <1>2, <1>3, <2>1 DEF FillPath
<1> QED
  BY <1>1, <1>2, <1>3 DEF FillPath

\* A call that comes to write nothing, while what is torn stays so, leaves the writing
\* apart.
LEMMA FillsStay ==
  ASSUME EpicsTyped, EpicCallsOK, FillsApart, \A d \in Epics!Paths : file'[d].form = file[d].form,
         NEW p \in Importers, NEW n, n.pc # "fill", process' = [process EXCEPT ![p] = n]
  PROVE  FillsApart'
<1>1. /\ process' \in [Importers -> {process'[q] : q \in Importers}] /\ process'[p] = n
      /\ \A q \in Importers : q # p => process'[q] = process[q]
  BY DEF EpicsTyped
<1> SUFFICES ASSUME NEW q \in Importers, process'[q].pc = "fill"
             PROVE  /\ file'[FillPath(process'[q])].form = Epics!TornDocument
                    /\ \A r \in Importers : r # q /\ process'[r].pc = "fill" =>
                         FillPath(process'[r]) # FillPath(process'[q])
  BY DEF FillsApart
<1>2. q # p /\ process'[q] = process[q] /\ process[q].pc = "fill"
  BY <1>1
<1>3. FillPath(process[q]) \in Epics!Paths
  BY <1>2, FillPathTyped
<1> QED
  BY <1>1, <1>2, <1>3 DEF FillsApart

\* A call that comes to write a file which it has created is alone there.
LEMMA FillsBegin ==
  ASSUME EpicsTyped, EpicCallsOK, FillsApart, NEW p \in Importers, NEW n \in EpicCall,
         process' = [process EXCEPT ![p] = n], FillPath(n) \in Epics!Paths,
         file[FillPath(n)].form = Epics!NoDocument, file'[FillPath(n)].form = Epics!TornDocument,
         \A d \in Epics!Paths : d # FillPath(n) => file'[d].form = file[d].form
  PROVE  FillsApart'
<1>1. process'[p] = n /\ \A q \in Importers : q # p => process'[q] = process[q]
  BY DEF EpicsTyped
<1>2. ASSUME NEW q \in Importers, q # p, process[q].pc = "fill"
      PROVE  FillPath(process[q]) # FillPath(n) /\ file'[FillPath(process[q])].form = Epics!TornDocument
  <2>1. FillPath(process[q]) \in Epics!Paths /\ file[FillPath(process[q])].form = Epics!TornDocument
    BY <1>2, FillPathTyped DEF FillsApart
  <2> QED BY <2>1, NoDocumentTyped
<1> SUFFICES ASSUME NEW q \in Importers, process'[q].pc = "fill"
             PROVE  /\ file'[FillPath(process'[q])].form = Epics!TornDocument
                    /\ \A r \in Importers : r # q /\ process'[r].pc = "fill" =>
                         FillPath(process'[r]) # FillPath(process'[q])
  BY DEF FillsApart
<1>3. CASE q = p
  BY <1>1, <1>2, <1>3
<1>4. CASE q # p
  BY <1>1, <1>2, <1>4 DEF FillsApart
<1> QED
  BY <1>3, <1>4

\* A call that has written its file leaves the others to theirs.
LEMMA FillsEnd ==
  ASSUME EpicsTyped, EpicCallsOK, FillsApart, NEW p \in Importers, process[p].pc = "fill",
         NEW n, n.pc # "fill", process' = [process EXCEPT ![p] = n],
         \A d \in Epics!Paths : d # FillPath(process[p]) => file'[d].form = file[d].form
  PROVE  FillsApart'
<1>1. process'[p] = n /\ \A q \in Importers : q # p => process'[q] = process[q]
  BY DEF EpicsTyped
<1> SUFFICES ASSUME NEW q \in Importers, process'[q].pc = "fill"
             PROVE  /\ file'[FillPath(process'[q])].form = Epics!TornDocument
                    /\ \A r \in Importers : r # q /\ process'[r].pc = "fill" =>
                         FillPath(process'[r]) # FillPath(process'[q])
  BY DEF FillsApart
<1>2. q # p /\ process'[q] = process[q] /\ process[q].pc = "fill"
  BY <1>1
<1>3. FillPath(process[q]) \in Epics!Paths /\ FillPath(process[q]) # FillPath(process[p])
  BY <1>2, FillPathTyped DEF FillsApart
<1> QED
  BY <1>1, <1>2, <1>3 DEF FillsApart

\* A call that returns, with the state as it is.
LEMMA EpicReturns ==
  ASSUME EpicsInv, UNCHANGED <<proposals, rows, file, overtaken>>, calls' \in Nat,
         NEW p \in Importers, Epics!Return(p)
  PROVE  EpicsInv'
<1>1. EpicsTyped /\ EpicCallsOK
  BY DEF EpicsInv
<1>2. FilesGoOn(file, file') /\ RowsGoOn(rows, rows') /\ DecisionsGoOn(proposals, proposals')
  BY FilesSame, RowsSame, DecisionsSame
<1>3. process' \in [Importers -> {Epics!Idle} \cup EpicCall] /\ EpicCallsOK'
  BY <1>1, <1>2, IdleCall, EpicCallsGoOn DEF Epics!Return
<1>4. FillsApart'
  BY <1>1, FillsStay DEF EpicsInv, Epics!Return, Epics!Idle
<1> QED
  BY <1>3, <1>4, OnlyProcess

\* A call that goes on, with the state as it is.
LEMMA EpicGoesOn ==
  ASSUME EpicsInv, UNCHANGED <<proposals, rows, file, overtaken>>, calls' \in Nat,
         NEW p \in Importers, NEW n \in EpicCall, process' = [process EXCEPT ![p] = n],
         Progress(n, file, overtaken), Founded(n, rows, proposals), n.pc # "fill"
  PROVE  EpicsInv'
<1>1. EpicsTyped /\ EpicCallsOK
  BY DEF EpicsInv
<1>2. FilesGoOn(file, file') /\ RowsGoOn(rows, rows') /\ DecisionsGoOn(proposals, proposals')
  BY FilesSame, RowsSame, DecisionsSame
<1>3. EpicCallOK(n, file', overtaken', rows', proposals')
  BY DEF EpicCallOK
<1>4. process' \in [Importers -> {Epics!Idle} \cup EpicCall] /\ EpicCallsOK'
  BY <1>1, <1>2, <1>3, EpicCallsGoOn
<1>5. FillsApart'
  BY <1>1, FillsStay DEF EpicsInv
<1> QED
  BY <1>4, <1>5, OnlyProcess

-----------------------------------------------------------------------------
\* Without Epics and plans the invariant holds.
LEMMA EpicsStart == Epics!Init => EpicsInv
<1> SUFFICES ASSUME Epics!Init PROVE EpicsInv
  OBVIOUS
<1>1. EpicsTyped
  <2>1. Epics!NoDocument \in Document /\ Epics!NoDocument # Epics!TornDocument
    BY NoDocumentTyped
  <2>2. proposals \in [Proposals -> Decided]
    BY DEF Epics!Init, Decided
  <2>3. rows \in [Epics!Paths -> DocumentRow]
    BY <2>1 DEF Epics!Init, DocumentRow
  <2>4. file \in [Epics!Paths -> Copies]
    BY <2>1 DEF Epics!Init, Copies
  <2> QED BY <2>2, <2>3, <2>4 DEF Epics!Init, EpicsTyped
<1>2. StagedAsWritten /\ FillsApart
  BY DEF Epics!Init, StagedAsWritten, Blank, FillsApart, Epics!Idle
<1>3. EpicCallsOK
  BY IdleCall DEF Epics!Init, EpicCallsOK
<1>4. Epics!RowsAreCommitted
  BY DEF Epics!Init, Epics!RowsAreCommitted, Epics!HasRow
<1>5. ApprovedHave(rows, proposals)
  BY DEF Epics!Init, ApprovedHave
<1> QED
  BY <1>1, <1>2, <1>3, <1>4, <1>5 DEF EpicsInv

\* Beginning an approval keeps the invariant.
LEMMA ApproveKeeps ==
  ASSUME EpicsInv, NEW p \in Importers, NEW q \in Proposals, Epics!Approve(p, q)
  PROVE  EpicsInv'
<1> DEFINE pc == IF proposals[q].status = "awaiting_approval" THEN "lookup" ELSE "decide"
           document == [title |-> TitleOf[q], id |-> <<calls + 1>>]
           n == [pc |-> pc, of |-> q, todo |-> << >>, epic |-> FALSE, document |-> document]
<1>1. UNCHANGED <<proposals, rows, file, overtaken>> /\ calls' = calls + 1 /\ calls \in Nat
  BY DEF EpicsInv, EpicsTyped, Epics!Approve
<1>2. process' = [process EXCEPT ![p] = n]
  BY DEF Epics!Approve
<1>3. document \in Document /\ document \notin Blank
  <2>1. <<calls + 1>> \in Seq(Nat) /\ <<calls + 1>> # << >>
    BY <1>1
  <2>2. document \in Document /\ document.id # << >>
    BY <2>1 DEF Document, Titled
  <2> QED BY <2>2, NotBlank
<1>4. pc \in {"lookup", "decide"} /\ (pc = "decide" => proposals[q].status # "awaiting_approval")
  OBVIOUS
<1> HIDE DEF document, pc
<1>5. n \in EpicCall /\ n.pc = pc /\ n.of = q /\ n.document = document
  BY <1>3, <1>4 DEF EpicCall, Titled
<1> HIDE DEF n
<1>6. q \notin Plans
  BY EpicsAssumption
<1>7. Progress(n, file, overtaken) /\ Founded(n, rows, proposals)
  BY <1>3, <1>4, <1>5, <1>6 DEF Progress, Founded
<1>8. calls' \in Nat
  BY <1>1
<1> QED
  BY <1>1, <1>2, <1>4, <1>5, <1>7, <1>8, EpicGoesOn

\* An approval that finds an Epic of its slug goes on to decide only if the title is its
\* own.
LEMMA LookUpKeeps ==
  ASSUME EpicsInv, NEW p \in Importers, Epics!LookUpEpic(p)
  PROVE  EpicsInv'
<1>1. UNCHANGED <<proposals, rows, file, overtaken>> /\ calls' \in Nat
  BY DEF EpicsInv, EpicsTyped, Epics!LookUpEpic, Epics!bounds
<1>2. EpicsTyped /\ EpicCallsOK
  BY DEF EpicsInv
<1>3. /\ process[p] \in EpicCall /\ Progress(process[p], file, overtaken)
      /\ process[p].pc = "lookup"
  BY <1>2, AtEpicCall DEF Epics!LookUpEpic
<1>4. process[p].of \in Proposals /\ process[p].of \notin Plans
  BY <1>3, EpicsAssumption DEF Progress
<1>5. CASE Epics!Return(p)
  BY <1>1, <1>5, EpicReturns
<1>6. CASE Epics!Goto(p, "inspect")
  <2>1. PICK n \in EpicCall :
           /\ process' = [process EXCEPT ![p] = n] /\ n.pc = "inspect"
           /\ n.of = process[p].of /\ n.document = process[p].document
    BY <1>2, <1>3, <1>6, GoesTo
  <2>2. Progress(n, file, overtaken) /\ Founded(n, rows, proposals)
    BY <1>3, <1>4, <2>1 DEF Progress, Founded
  <2> QED BY <1>1, <2>1, <2>2, EpicGoesOn
<1>7. CASE /\ process' = [process EXCEPT ![p].pc = "decide", ![p].epic = TRUE]
           /\ Epics!HasRow(Epics!EpicPath(p)) /\ rows[Epics!EpicPath(p)].title = TitleOf[Epics!Of(p)]
  <2> DEFINE n == [process[p] EXCEPT !.pc = "decide", !.epic = TRUE]
  <2>1. n \in EpicCall /\ n.pc = "decide" /\ n.of = process[p].of /\ n.document = process[p].document
        /\ n.epic
    BY <1>3 DEF EpicCall
  <2>2. process' = [process EXCEPT ![p] = n]
    BY <1>2, <1>7 DEF EpicsTyped
  <2> HIDE DEF n
  <2>3. HasEpic(n.of, rows)
    BY <1>7, <2>1 DEF HasEpic, Epics!HasRow, Epics!EpicPath, Epics!Of
  <2>4. Progress(n, file, overtaken) /\ Founded(n, rows, proposals)
    BY <1>3, <1>4, <2>1, <2>3 DEF Progress, Founded
  <2> QED BY <1>1, <2>1, <2>2, <2>4, EpicGoesOn
<1> QED
  BY <1>5, <1>6, <1>7 DEF Epics!LookUpEpic

\* Inspecting the path of a new document keeps the invariant.
LEMMA InspectKeeps ==
  ASSUME EpicsInv, NEW p \in Importers, Epics!InspectDocument(p)
  PROVE  EpicsInv'
<1>1. UNCHANGED <<proposals, rows, file, overtaken>> /\ calls' \in Nat
  BY DEF EpicsInv, EpicsTyped, Epics!InspectDocument, Epics!bounds
<1>2. EpicsTyped /\ EpicCallsOK
  BY DEF EpicsInv
<1>3. /\ process[p] \in EpicCall /\ Progress(process[p], file, overtaken)
      /\ process[p].pc = "inspect"
  BY <1>2, AtEpicCall DEF Epics!InspectDocument
<1>4. process[p].of \in Proposals /\ process[p].of \notin Plans
  BY <1>3, EpicsAssumption DEF Progress
<1> DEFINE d == EpicOf(process[p])
           pc == IF Epics!PathIsChanged(d) THEN "add" ELSE "rows"
           n == [process[p] EXCEPT !.document = file[d].form, !.pc = pc]
<1>5. Epics!EpicPath(p) = d /\ d \in Epics!Paths
  BY <1>3, SameWords, TargetsTyped
<1>6. CASE Epics!Take(p, pc)
  <2>1. file[d].form \in Document /\ file[d].form \notin Blank
    BY <1>2, <1>5, <1>6 DEF EpicsTyped, Copies, Epics!Take, Blank
  <2>2. pc \in {"add", "rows"} /\ (pc = "rows" => Committed(d, file))
    BY DEF Epics!PathIsChanged, Committed, Staged
  <2> HIDE DEF pc
  <2>3. n \in EpicCall /\ n.pc = pc /\ n.of = process[p].of /\ n.document = file[d].form
    BY <1>3, <2>1, <2>2 DEF EpicCall
  <2>4. process' = [process EXCEPT ![p] = n]
    BY <1>2, <1>5, <1>6 DEF EpicsTyped, Epics!Take
  <2> HIDE DEF n
  <2>5. Targets(n) = {d}
    BY <1>4, <2>3 DEF Targets, EpicOf
  <2>6. Written(n, d, file, overtaken)
    BY <1>4, <2>1, <2>3 DEF Written, Meant, Blank
  <2> HIDE DEF d
  <2>7. Progress(n, file, overtaken) /\ Founded(n, rows, proposals)
    BY <1>4, <2>1, <2>2, <2>3, <2>5, <2>6 DEF Progress, Founded, Committed
  <2> QED BY <1>1, <2>2, <2>3, <2>4, <2>7, EpicGoesOn
<1>7. CASE Epics!Goto(p, "write")
  <2> HIDE DEF n, d, pc
  <2>1. PICK m \in EpicCall :
           /\ process' = [process EXCEPT ![p] = m] /\ m.pc = "write"
           /\ m.of = process[p].of /\ m.document = process[p].document
    BY <1>2, <1>3, <1>7, GoesTo
  <2>2. Progress(m, file, overtaken) /\ Founded(m, rows, proposals)
    BY <1>3, <1>4, <2>1 DEF Progress, Founded
  <2> QED BY <1>1, <2>1, <2>2, EpicGoesOn
<1>8. CASE Epics!Return(p)
  BY <1>1, <1>8, EpicReturns
<1> QED
  BY <1>5, <1>6, <1>7, <1>8 DEF Epics!InspectDocument, Epics!TakeNone

\* A call that moves files: what it has to show.
LEMMA EpicWrites ==
  ASSUME EpicsInv, UNCHANGED <<proposals, rows>>, calls' \in Nat,
         file' \in [Epics!Paths -> Copies], StagedAsWritten', FilesGoOn(file, file'),
         overtaken \subseteq overtaken', overtaken' \subseteq Plans,
         NEW p \in Importers, NEW n \in EpicCall, process' = [process EXCEPT ![p] = n],
         Progress(n, file', overtaken'), n.pc # "decide", FillsApart'
  PROVE  EpicsInv'
<1>1. EpicsTyped /\ EpicCallsOK
  BY DEF EpicsInv
<1>2. RowsGoOn(rows, rows') /\ DecisionsGoOn(proposals, proposals')
  BY RowsSame, DecisionsSame
<1>3. EpicCallOK(n, file', overtaken', rows', proposals')
  BY DEF EpicCallOK, Founded
<1>4. process' \in [Importers -> {Epics!Idle} \cup EpicCall] /\ EpicCallsOK'
  BY <1>1, <1>2, <1>3, EpicCallsGoOn
<1> QED
  BY <1>4, FilesMove

\* A file is created where there is none, or written where it is torn.
LEMMA FormWritten ==
  ASSUME EpicsTyped, StagedAsWritten, NEW d \in Epics!Paths, NEW x \in Document,
         file[d].form \in Blank, x # Epics!NoDocument, file' = [file EXCEPT ![d].form = x]
  PROVE  /\ file' \in [Epics!Paths -> Copies] /\ StagedAsWritten' /\ FilesGoOn(file, file')
         /\ file'[d].form = x /\ \A e \in Epics!Paths : e # d => file'[e] = file[e]
<1> DEFINE g == [file[d] EXCEPT !.form = x]
<1>1. file[d] \in Copies
  BY DEF EpicsTyped
<1>2. g \in Copies /\ g.form = x /\ g.staged = file[d].staged /\ g.committed = file[d].committed
  BY <1>1 DEF Copies
<1>3. file' = [file EXCEPT ![d] = g]
  BY DEF EpicsTyped
<1> HIDE DEF g
<1>4. file' \in [Epics!Paths -> Copies] /\ file'[d] = g
  BY <1>2, <1>3 DEF EpicsTyped
<1>5. \A e \in Epics!Paths : e # d => file'[e] = file[e]
  BY <1>3 DEF EpicsTyped
<1>6. file[d].staged \in Blank /\ file[d].committed \in Blank
  BY DEF StagedAsWritten
<1>7. StagedAsWritten'
  BY <1>2, <1>4, <1>5, <1>6 DEF StagedAsWritten
<1>8. FilesGoOn(file, file')
  BY <1>2, <1>4, <1>5 DEF FilesGoOn, Staged, Committed
<1> QED
  BY <1>2, <1>4, <1>5, <1>7, <1>8

\* Creating a file where there is none keeps every document that is there.
LEMMA CreateNewKeeps ==
  ASSUME EpicsInv, NEW p \in Importers, Epics!CreateNewFile(p)
  PROVE  EpicsInv'
<1>1. UNCHANGED <<proposals, rows, overtaken>> /\ calls' \in Nat
  BY DEF EpicsInv, EpicsTyped, Epics!CreateNewFile, Epics!bounds
<1>2. EpicsTyped /\ EpicCallsOK /\ StagedAsWritten /\ FillsApart
  BY DEF EpicsInv
<1>3. /\ process[p] \in EpicCall /\ Progress(process[p], file, overtaken)
      /\ process[p].pc = "write"
  BY <1>2, AtEpicCall DEF Epics!CreateNewFile
<1>4. process[p].of \in Proposals /\ process[p].of \notin Plans
  BY <1>3, EpicsAssumption DEF Progress
<1> DEFINE d == EpicOf(process[p])
<1>5. Epics!EpicPath(p) = d /\ d \in Epics!Paths
  BY <1>3, SameWords, TargetsTyped
<1>6. CASE Epics!Return(p) /\ UNCHANGED file
  BY <1>1, <1>6, EpicReturns
<1>7. CASE /\ ~Epics!Exists(d) /\ Epics!Goto(p, "fill")
           /\ file' = [file EXCEPT ![d].form = Epics!TornDocument]
  <2> HIDE DEF d
  <2>1. Epics!TornDocument \in Document /\ Epics!TornDocument # Epics!NoDocument
        /\ file[d].form = Epics!NoDocument /\ file[d].form \in Blank
    BY <1>7, NoDocumentTyped DEF Epics!Exists, Blank
  <2>2. /\ file' \in [Epics!Paths -> Copies] /\ StagedAsWritten' /\ FilesGoOn(file, file')
        /\ file'[d].form = Epics!TornDocument /\ \A e \in Epics!Paths : e # d => file'[e] = file[e]
    BY <1>2, <1>5, <1>7, <2>1, FormWritten
  <2>3. PICK n \in EpicCall :
           /\ process' = [process EXCEPT ![p] = n] /\ n.pc = "fill"
           /\ n.of = process[p].of /\ n.document = process[p].document
    BY <1>2, <1>3, <1>7, GoesTo
  <2>4. FillPath(n) = d
    BY <1>4, <2>3, SameTargets DEF FillPath, d
  <2>5. Progress(n, file', overtaken')
    BY <1>3, <1>4, <2>3 DEF Progress
  <2>6. overtaken' \subseteq Plans
    BY <1>1, <1>2 DEF EpicsTyped
  <2>7. FillsApart'
    BY <1>2, <1>5, <2>1, <2>2, <2>3, <2>4, FillsBegin
  <2> QED BY <1>1, <2>2, <2>3, <2>5, <2>6, <2>7, EpicWrites
<1> QED
  BY <1>5, <1>6, <1>7 DEF Epics!CreateNewFile

\* Writing the file that was created keeps every other one.
LEMMA WriteNewKeeps ==
  ASSUME EpicsInv, NEW p \in Importers, Epics!WriteNewBytes(p)
  PROVE  EpicsInv'
<1>1. UNCHANGED <<proposals, rows, overtaken>> /\ calls' \in Nat
  BY DEF EpicsInv, EpicsTyped, Epics!WriteNewBytes, Epics!bounds
<1>2. EpicsTyped /\ EpicCallsOK /\ StagedAsWritten /\ FillsApart
  BY DEF EpicsInv
<1>3. /\ process[p] \in EpicCall /\ Progress(process[p], file, overtaken)
      /\ process[p].pc = "fill"
  BY <1>2, AtEpicCall DEF Epics!WriteNewBytes
<1>4. process[p].of \in Proposals /\ process[p].of \notin Plans
  BY <1>3 DEF Epics!WriteNewBytes, Epics!Importing, Epics!Of, EpicCall, Titled
<1> DEFINE d == EpicOf(process[p])
<1>5. Epics!EpicPath(p) = d /\ d \in Epics!Paths
  BY <1>3, SameWords, TargetsTyped
<1>6. file' = [file EXCEPT ![d].form = process[p].document] /\ Epics!Goto(p, "add")
  BY <1>5 DEF Epics!WriteNewBytes
<1>7. FillPath(process[p]) = d
  BY <1>4 DEF FillPath
<1> HIDE DEF d
<1>8. file[d].form \in Blank
  BY <1>2, <1>3, <1>7 DEF FillsApart, Blank
<1>9. process[p].document \in Document /\ process[p].document \notin Blank
      /\ process[p].document # Epics!NoDocument
  BY <1>3, <1>4 DEF EpicCall, Progress, Blank
<1>10. /\ file' \in [Epics!Paths -> Copies] /\ StagedAsWritten' /\ FilesGoOn(file, file')
       /\ file'[d].form = process[p].document /\ \A e \in Epics!Paths : e # d => file'[e] = file[e]
  BY <1>2, <1>5, <1>6, <1>8, <1>9, FormWritten
<1>11. PICK n \in EpicCall :
          /\ process' = [process EXCEPT ![p] = n] /\ n.pc = "add"
          /\ n.of = process[p].of /\ n.document = process[p].document
  BY <1>2, <1>3, <1>6, GoesTo
<1>12. Targets(n) = {d} /\ Written(n, d, file', overtaken')
  BY <1>4, <1>9, <1>10, <1>11 DEF Targets, EpicOf, Written, Meant, d
<1>13. Progress(n, file', overtaken')
  BY <1>4, <1>9, <1>11, <1>12 DEF Progress
<1>14. overtaken' \subseteq Plans
  BY <1>1, <1>2 DEF EpicsTyped
<1>15. FillsApart'
  BY <1>2, <1>3, <1>7, <1>10, <1>11, FillsEnd
<1> QED
  BY <1>1, <1>10, <1>11, <1>13, <1>14, <1>15, EpicWrites

\* Staging the paths of a call stages what is at them.
LEMMA AddKeeps ==
  ASSUME EpicsInv, NEW p \in Importers, Epics!AddPaths(p)
  PROVE  EpicsInv'
<1>1. UNCHANGED <<proposals, rows, overtaken>> /\ calls' \in Nat
  BY DEF EpicsInv, EpicsTyped, Epics!AddPaths, Epics!bounds
<1>2. EpicsTyped /\ EpicCallsOK /\ StagedAsWritten /\ FillsApart
  BY DEF EpicsInv
<1>3. /\ process[p] \in EpicCall /\ Progress(process[p], file, overtaken)
      /\ process[p].pc = "add"
  BY <1>2, AtEpicCall DEF Epics!AddPaths
<1>4. file' = [d \in Epics!Paths |-> IF d \in Targets(process[p])
                 THEN [file[d] EXCEPT !.staged = file[d].form] ELSE file[d]]
  BY <1>3, SameWords DEF Epics!AddPaths
<1>5. ASSUME NEW d \in Epics!Paths
      PROVE  /\ file'[d] \in Copies /\ file'[d].form = file[d].form /\ file'[d].committed = file[d].committed
             /\ file'[d].staged = IF d \in Targets(process[p]) THEN file[d].form ELSE file[d].staged
  <2>1. file[d] \in Copies
    BY <1>2 DEF EpicsTyped
  <2> QED BY <1>4, <2>1 DEF Copies
<1>6. file' \in [Epics!Paths -> Copies]
  BY <1>4, <1>5
<1>7. StagedAsWritten'
  BY <1>2, <1>5 DEF StagedAsWritten
<1>8. FilesGoOn(file, file')
  BY <1>5 DEF FilesGoOn, Staged, Committed
<1>9. PICK n \in EpicCall :
         /\ process' = [process EXCEPT ![p] = n] /\ n.pc = "commit"
         /\ n.of = process[p].of /\ n.document = process[p].document
  BY <1>2, <1>3, GoesTo DEF Epics!AddPaths
<1>10. ASSUME NEW d \in Targets(n) PROVE Written(n, d, file', overtaken') /\ Staged(d, file')
  <2>1. d \in Targets(process[p]) /\ d \in Epics!Paths /\ Written(process[p], d, file, overtaken)
    BY <1>3, <1>9, SameTargets, TargetsTyped DEF Progress
  <2>2. Written(n, d, file, overtaken)
    BY <1>9, <2>1, SameTargets
  <2> QED BY <1>1, <1>5, <2>1, <2>2 DEF Written, Staged
<1>11. Progress(n, file', overtaken')
  BY <1>3, <1>9, <1>10 DEF Progress
<1>12. overtaken' \subseteq Plans
  BY <1>1, <1>2 DEF EpicsTyped
<1>13. FillsApart'
  BY <1>2, <1>5, <1>9, FillsStay
<1> QED
  BY <1>1, <1>6, <1>7, <1>8, <1>9, <1>11, <1>12, <1>13, EpicWrites

\* Committing the paths of a call commits what is staged.
LEMMA CommitKeeps ==
  ASSUME EpicsInv, NEW p \in Importers, Epics!CommitPaths(p)
  PROVE  EpicsInv'
<1>1. UNCHANGED <<proposals, rows, overtaken>> /\ calls' \in Nat
  BY DEF EpicsInv, EpicsTyped, Epics!CommitPaths, Epics!bounds
<1>2. EpicsTyped /\ EpicCallsOK /\ StagedAsWritten /\ FillsApart
  BY DEF EpicsInv
<1>3. /\ process[p] \in EpicCall /\ Progress(process[p], file, overtaken)
      /\ process[p].pc = "commit"
  BY <1>2, AtEpicCall DEF Epics!CommitPaths
<1>4. CASE Epics!Return(p) /\ UNCHANGED file
  BY <1>1, <1>4, EpicReturns
<1>5. CASE /\ file' = [d \in Epics!Paths |-> [file[d] EXCEPT !.committed = file[d].staged]]
           /\ Epics!Goto(p, "rows")
  <2>1. ASSUME NEW d \in Epics!Paths
        PROVE  /\ file'[d] \in Copies /\ file'[d].form = file[d].form /\ file'[d].staged = file[d].staged
               /\ file'[d].committed = file[d].staged
    <3>1. file[d] \in Copies
      BY <1>2 DEF EpicsTyped
    <3> QED BY <1>5, <3>1 DEF Copies
  <2>2. file' \in [Epics!Paths -> Copies]
    BY <1>5, <2>1
  <2>3. StagedAsWritten'
    BY <1>2, <2>1 DEF StagedAsWritten
  <2>4. FilesGoOn(file, file')
    BY <2>1 DEF FilesGoOn, Staged, Committed
  <2>5. PICK n \in EpicCall :
           /\ process' = [process EXCEPT ![p] = n] /\ n.pc = "rows"
           /\ n.of = process[p].of /\ n.document = process[p].document
    BY <1>2, <1>3, <1>5, GoesTo
  <2>6. ASSUME NEW d \in Targets(n)
             PROVE  /\ Written(n, d, file', overtaken')
                    /\ n.of \in overtaken' \/ Committed(d, file')
    <3>1. d \in Targets(process[p]) /\ d \in Epics!Paths
      BY <1>3, <2>5, SameTargets, TargetsTyped
    <3>2. /\ Written(process[p], d, file, overtaken)
          /\ process[p].of \in overtaken \/ Staged(d, file)
      BY <1>3, <3>1 DEF Progress
    <3>3. Written(n, d, file, overtaken)
      BY <2>5, <3>2, SameTargets
    <3>4. Staged(d, file) => Committed(d, file')
      BY <2>1, <3>1 DEF Staged, Committed
    <3>5. Written(n, d, file', overtaken')
      BY <1>1, <2>1, <3>1, <3>3 DEF Written
    <3> QED BY <1>1, <2>5, <3>2, <3>4, <3>5
  <2>7. Progress(n, file', overtaken')
    BY <1>3, <2>5, <2>6 DEF Progress, Committed
  <2>8. overtaken' \subseteq Plans
    BY <1>1, <1>2 DEF EpicsTyped
  <2>9. FillsApart'
    BY <1>2, <2>1, <2>5, FillsStay
  <2> QED BY <1>1, <2>2, <2>3, <2>4, <2>5, <2>7, <2>8, <2>9, EpicWrites
<1> QED
  BY <1>4, <1>5 DEF Epics!CommitPaths

\* A row is inserted where there is none, by a call that returns or goes on to decide.
LEMMA RowsInserted ==
  ASSUME EpicsInv, UNCHANGED <<proposals, file, overtaken>>, calls' \in Nat,
         rows' \in [Epics!Paths -> DocumentRow],
         RowsGoOn(rows, rows'),
         \A d \in Epics!Paths : rows'[d] # rows[d] =>
           \/ file[d].committed = rows'[d].document
           \/ rows'[d].title \in {TitleOf[v] : v \in overtaken},
         process' \in [Importers -> {Epics!Idle} \cup EpicCall], EpicCallsOK', FillsApart'
  PROVE  EpicsInv'
<1>1. EpicsTyped' /\ StagedAsWritten'
  BY DEF EpicsInv, EpicsTyped, StagedAsWritten
<1>2. Epics!RowsAreCommitted'
  BY DEF EpicsInv, Epics!RowsAreCommitted, Epics!HasRow
<1>3. ApprovedHave(rows, proposals)'
  <2> SUFFICES ASSUME NEW q \in Proposals, proposals[q].status = "approved"
               PROVE  proposals[q].epic /\ HasEpic(q, rows')
    BY DEF ApprovedHave
  <2>1. <<SlugOf[q], "epic">> \in Epics!Paths
    BY EpicsAssumption DEF Epics!Paths
  <2> QED BY <2>1 DEF EpicsInv, ApprovedHave, HasEpic, RowsGoOn
<1> QED
  BY <1>1, <1>2, <1>3 DEF EpicsInv

\* The row of a new Epic names what is committed at its path.
LEMMA InsertEpicKeeps ==
  ASSUME EpicsInv, NEW p \in Importers, Epics!InsertEpic(p)
  PROVE  EpicsInv'
<1>1. UNCHANGED <<proposals, file, overtaken>> /\ calls' \in Nat
  BY DEF EpicsInv, EpicsTyped, Epics!InsertEpic, Epics!bounds
<1>2. EpicsTyped /\ EpicCallsOK /\ FillsApart
  BY DEF EpicsInv
<1>3. /\ process[p] \in EpicCall /\ Progress(process[p], file, overtaken)
      /\ process[p].pc = "rows"
  BY <1>2, AtEpicCall DEF Epics!InsertEpic
<1>4. process[p].of \in Proposals /\ process[p].of \notin Plans
  BY <1>3 DEF Epics!InsertEpic, Epics!Importing, Epics!Of, EpicCall, Titled
<1> DEFINE d == EpicOf(process[p])
           row == [title |-> TitleOf[process[p].of], document |-> process[p].document]
           n == [process[p] EXCEPT !.pc = "decide", !.epic = TRUE]
<1>5. Epics!EpicPath(p) = d /\ d \in Epics!Paths /\ Targets(process[p]) = {d}
  BY <1>3, <1>4, SameWords, TargetsTyped DEF Targets
<1>6. \/ Epics!Return(p) /\ UNCHANGED rows
      \/ /\ rows[d].document = Epics!NoDocument
         /\ rows' = [rows EXCEPT ![d] = row]
         /\ process' = [process EXCEPT ![p].pc = "decide", ![p].epic = TRUE]
  BY <1>5 DEF Epics!InsertEpic, Epics!Unique, Epics!HasRow, Epics!Of
<1>7. CASE Epics!Return(p) /\ UNCHANGED rows
  BY <1>1, <1>7, EpicReturns
<1>8. CASE /\ rows[d].document = Epics!NoDocument
           /\ rows' = [rows EXCEPT ![d] = row]
           /\ process' = [process EXCEPT ![p].pc = "decide", ![p].epic = TRUE]
  <2>1. process[p].document # Epics!NoDocument /\ process[p].document # Epics!TornDocument
    BY <1>3, <1>4 DEF Progress, Blank
  <2>2. row \in DocumentRow
        /\ row.title = TitleOf[process[p].of] /\ row.document = process[p].document
    BY <1>3, <2>1 DEF EpicCall, DocumentRow
  <2>3. file[d].committed = process[p].document
    <3>1. process[p].of \notin overtaken /\ Meant(process[p], d) = process[p].document
      BY <1>2, <1>4 DEF EpicsTyped, Meant
    <3>2. Written(process[p], d, file, overtaken) /\ Committed(d, file)
      BY <1>3, <1>5, <3>1 DEF Progress
    <3> QED BY <3>1, <3>2 DEF Written, Committed, Staged
  <2>4. n \in EpicCall /\ n.pc = "decide" /\ n.of = process[p].of /\ n.document = process[p].document
        /\ n.epic
    BY <1>3 DEF EpicCall
  <2>5. process' = [process EXCEPT ![p] = n]
    BY <1>2, <1>8 DEF EpicsTyped
  <2>6. d = <<SlugOf[process[p].of], "epic">>
    BY DEF EpicOf
  <2> HIDE DEF n, d, row
  <2>7. /\ rows' \in [Epics!Paths -> DocumentRow]
        /\ rows'[d] = row /\ \A e \in Epics!Paths : e # d => rows'[e] = rows[e]
    BY <1>2, <1>5, <1>8, <2>2 DEF EpicsTyped
  <2>8. RowsGoOn(rows, rows')
    BY <1>8, <2>7 DEF RowsGoOn
  <2>9. HasEpic(n.of, rows')
    BY <2>1, <2>2, <2>4, <2>6, <2>7 DEF HasEpic
  <2>10. Progress(n, file', overtaken') /\ Founded(n, rows', proposals')
    BY <1>1, <1>3, <1>4, <2>4, <2>9 DEF Progress, Founded
  <2>11. EpicCallOK(n, file', overtaken', rows', proposals')
    BY <2>10 DEF EpicCallOK
  <2>12. process' \in [Importers -> {Epics!Idle} \cup EpicCall] /\ EpicCallsOK'
    BY <1>1, <1>2, <2>4, <2>5, <2>8, <2>11, EpicCallsGoOn, FilesSame, DecisionsSame
  <2>13. \A e \in Epics!Paths : rows'[e] # rows[e] => file[e].committed = rows'[e].document
    BY <2>2, <2>3, <2>7
  <2>14. FillsApart'
    BY <1>1, <1>2, <2>4, <2>5, FillsStay
  <2> QED BY <1>1, <2>7, <2>8, <2>12, <2>13, <2>14, RowsInserted
<1> QED
  BY <1>6, <1>7, <1>8

\* An approval that is decided has its Epic.
LEMMA DecideKeeps ==
  ASSUME EpicsInv, NEW p \in Importers, Epics!Decide(p)
  PROVE  EpicsInv'
<1>1. UNCHANGED <<rows, file, overtaken>> /\ calls' \in Nat
  BY DEF EpicsInv, EpicsTyped, Epics!Decide, Epics!bounds
<1>2. EpicsTyped /\ EpicCallsOK /\ FillsApart
  BY DEF EpicsInv
<1>3. /\ process[p] \in EpicCall /\ Founded(process[p], rows, proposals)
      /\ process[p].pc = "decide" /\ process[p].of \in Proposals
  BY <1>2, AtEpicCall DEF Epics!Decide, Progress
<1> DEFINE q == process[p].of
           epic == process[p].epic
<1>4. CASE UNCHANGED proposals
  <2>1. Epics!Return(p)
    BY DEF Epics!Decide
  <2> QED BY <1>1, <1>4, <2>1, EpicReturns
<1>5. CASE /\ proposals[q].status = "awaiting_approval"
           /\ proposals' = [proposals EXCEPT ![q] = [status |-> "approved", epic |-> epic]]
  <2>1. epic = TRUE /\ HasEpic(q, rows)
    BY <1>3, <1>5 DEF Founded, EpicCall
  <2>2. [status |-> "approved", epic |-> epic] \in Decided
        /\ [status |-> "approved", epic |-> epic].status = "approved"
        /\ [status |-> "approved", epic |-> epic].epic
    BY <2>1 DEF Decided
  <2> HIDE DEF q, epic
  <2>3. /\ proposals' \in [Proposals -> Decided] /\ proposals'[q].status = "approved" /\ proposals'[q].epic
        /\ \A r \in Proposals : r # q => proposals'[r] = proposals[r]
    BY <1>2, <1>3, <1>5, <2>2 DEF EpicsTyped, q
  <2>4. DecisionsGoOn(proposals, proposals')
    BY <2>3 DEF DecisionsGoOn
  <2>5. process' \in [Importers -> {Epics!Idle} \cup EpicCall] /\ EpicCallsOK'
    BY <1>1, <1>2, <2>4, EpicCallsGoOn, IdleCall, FilesSame, RowsSame DEF Epics!Decide, Epics!Return
  <2>6. EpicsTyped' /\ StagedAsWritten'
    BY <1>1, <1>2, <2>3, <2>5 DEF EpicsInv, EpicsTyped, StagedAsWritten
  <2>7. ApprovedHave(rows, proposals)'
    BY <1>1, <2>1, <2>3 DEF EpicsInv, ApprovedHave, HasEpic
  <2>8. Epics!RowsAreCommitted'
    BY <1>1 DEF EpicsInv, Epics!RowsAreCommitted, Epics!HasRow
  <2>9. FillsApart'
    BY <1>1, <1>2, FillsStay DEF Epics!Decide, Epics!Return, Epics!Idle
  <2> QED BY <2>5, <2>6, <2>7, <2>8, <2>9 DEF EpicsInv
<1> QED
  BY <1>4, <1>5 DEF Epics!Decide, Epics!Of

\* Rejecting a proposal keeps the invariant.
LEMMA RejectKeeps ==
  ASSUME EpicsInv, NEW q \in Proposals, Epics!Reject(q)
  PROVE  EpicsInv'
<1>1. UNCHANGED <<rows, file, overtaken, process>> /\ calls' \in Nat
  BY DEF EpicsInv, EpicsTyped, Epics!Reject, Epics!bounds
<1>2. EpicsTyped /\ EpicCallsOK
  BY DEF EpicsInv
<1> DEFINE g == [proposals[q] EXCEPT !.status = "rejected"]
<1>3. g \in Decided /\ g.status = "rejected"
  <2>1. proposals[q] \in Decided
    BY <1>2 DEF EpicsTyped
  <2> QED BY <2>1 DEF Decided
<1>4. proposals' = [proposals EXCEPT ![q] = g]
  BY <1>2 DEF EpicsTyped, Epics!Reject
<1> HIDE DEF g
<1>5. /\ proposals' \in [Proposals -> Decided] /\ proposals'[q].status = "rejected"
      /\ \A r \in Proposals : r # q => proposals'[r] = proposals[r]
  BY <1>2, <1>3, <1>4 DEF EpicsTyped
<1>6. DecisionsGoOn(proposals, proposals')
  BY <1>5 DEF DecisionsGoOn
<1>7. process' \in [Importers -> {Epics!Idle} \cup EpicCall] /\ EpicCallsOK'
  BY <1>1, <1>2, <1>6, EpicCallsStay, FilesSame, RowsSame
<1>8. EpicsTyped' /\ StagedAsWritten'
  BY <1>1, <1>2, <1>5, <1>7 DEF EpicsInv, EpicsTyped, StagedAsWritten
<1>9. ApprovedHave(rows, proposals)'
  BY <1>1, <1>5 DEF EpicsInv, ApprovedHave, HasEpic
<1>10. Epics!RowsAreCommitted'
  BY <1>1 DEF EpicsInv, Epics!RowsAreCommitted, Epics!HasRow
<1>11. FillsApart'
  BY <1>1 DEF EpicsInv, FillsApart
<1> QED
  BY <1>7, <1>8, <1>9, <1>10, <1>11 DEF EpicsInv

\* Beginning the import of a plan keeps the invariant.
LEMMA ApplyImportKeeps ==
  ASSUME EpicsInv, NEW p \in Importers, NEW v \in Plans, Epics!ApplyImport(p, v)
  PROVE  EpicsInv'
<1> DEFINE document == [title |-> TitleOf[v], id |-> << >>]
           n == [pc |-> "preflight", of |-> v, todo |-> << >>, epic |-> FALSE, document |-> document]
<1>1. UNCHANGED <<proposals, rows, file, overtaken>> /\ calls' \in Nat
  BY DEF EpicsInv, EpicsTyped, Epics!ApplyImport, Epics!bounds
<1>2. process' = [process EXCEPT ![p] = n]
  BY DEF Epics!ApplyImport
<1>3. document \in Document
  BY DEF Document, Titled
<1> HIDE DEF document
<1>4. n \in EpicCall /\ n.pc = "preflight" /\ n.of = v
  BY <1>3 DEF EpicCall, Titled
<1> HIDE DEF n
<1>5. Progress(n, file, overtaken) /\ Founded(n, rows, proposals)
  BY <1>4, EpicsAssumption DEF Progress, Founded
<1> QED
  BY <1>1, <1>2, <1>4, <1>5, EpicGoesOn

\* Looking for collisions keeps the invariant.
LEMMA PreflightKeeps ==
  ASSUME EpicsInv, NEW p \in Importers, Epics!PreflightCollisions(p)
  PROVE  EpicsInv'
<1>1. UNCHANGED <<proposals, rows, file, overtaken>> /\ calls' \in Nat
  BY DEF EpicsInv, EpicsTyped, Epics!PreflightCollisions, Epics!bounds
<1>2. EpicsTyped /\ EpicCallsOK
  BY DEF EpicsInv
<1>3. process[p] \in EpicCall /\ process[p].pc = "preflight" /\ Progress(process[p], file, overtaken)
  BY <1>2, AtEpicCall DEF Epics!PreflightCollisions
<1>4. CASE Epics!Return(p)
  BY <1>1, <1>4, EpicReturns
<1>5. CASE Epics!Goto(p, "compare")
  <2>1. PICK n \in EpicCall :
           /\ process' = [process EXCEPT ![p] = n] /\ n.pc = "compare"
           /\ n.of = process[p].of /\ n.document = process[p].document
    BY <1>2, <1>3, <1>5, GoesTo
  <2>2. Progress(n, file, overtaken) /\ Founded(n, rows, proposals)
    BY <1>3, <2>1, EpicsAssumption DEF Progress, Founded
  <2> QED BY <1>1, <2>1, <2>2, EpicGoesOn
<1> QED
  BY <1>4, <1>5 DEF Epics!PreflightCollisions

\* Comparing the documents of a plan keeps the invariant.
LEMMA CompareKeeps ==
  ASSUME EpicsInv, NEW p \in Importers, Epics!CompareDocuments(p)
  PROVE  EpicsInv'
<1>1. UNCHANGED <<proposals, rows, file, overtaken>> /\ calls' \in Nat
  BY DEF EpicsInv, EpicsTyped, Epics!CompareDocuments, Epics!bounds
<1>2. EpicsTyped /\ EpicCallsOK
  BY DEF EpicsInv
<1>3. process[p] \in EpicCall /\ process[p].pc = "compare" /\ Progress(process[p], file, overtaken)
  BY <1>2, AtEpicCall DEF Epics!CompareDocuments
<1> DEFINE todo == [k \in DOMAIN Epics!Parts |-> <<SlugOf[process[p].of], Epics!Parts[k]>>]
<1>4. todo = <<EpicOf(process[p]), FeatureOf(process[p])>>
  BY DEF Epics!Parts, EpicOf, FeatureOf
<1>5. CASE Epics!Return(p)
  BY <1>1, <1>5, EpicReturns
<1>6. CASE process' = [process EXCEPT ![p].pc = "create", ![p].todo = todo]
  <2> HIDE DEF todo
  <2> DEFINE n == [process[p] EXCEPT !.pc = "create", !.todo = todo]
  <2>1. todo \in Seq(Epics!Paths)
    BY <1>3, <1>4, TargetsTyped
  <2>2. n \in EpicCall /\ n.pc = "create" /\ n.of = process[p].of /\ n.todo = todo
    BY <1>3, <2>1 DEF EpicCall
  <2>3. process' = [process EXCEPT ![p] = n]
    BY <1>2, <1>6 DEF EpicsTyped
  <2> HIDE DEF n
  <2>4. n.todo = <<EpicOf(n), FeatureOf(n)>>
    BY <1>4, <2>2 DEF EpicOf, FeatureOf
  <2>5. Progress(n, file, overtaken) /\ Founded(n, rows, proposals)
    BY <1>3, <2>2, <2>4, EpicsAssumption DEF Progress, Founded
  <2> QED BY <1>1, <2>2, <2>3, <2>5, EpicGoesOn
<1> QED
  BY <1>5, <1>6 DEF Epics!CompareDocuments, Epics!Of

\* An import comes to the next of its documents, or has been at all of them.
LEMMA NextDocument ==
  ASSUME NEW n \in EpicCall, NEW m \in EpicCall, n.of \in Plans, n.of \notin Proposals,
         n.pc \in {"create", "fill"}, Progress(n, file, overtaken), n.todo # << >>,
         m.pc = "create", m.of = n.of, m.document = n.document, m.todo = Tail(n.todo),
         Written(m, Head(n.todo), file', overtaken'),
         \A e \in Epics!Paths : Written(n, e, file, overtaken) => Written(m, e, file', overtaken')
  PROVE  Progress(m, file', overtaken')
<1>1. /\ EpicOf(m) = EpicOf(n) /\ FeatureOf(m) = FeatureOf(n)
      /\ EpicOf(m) \in Epics!Paths /\ FeatureOf(m) \in Epics!Paths
  BY TargetsTyped, SameTargets
<1>2. \/ m.todo = <<FeatureOf(m)>> /\ Written(m, EpicOf(m), file', overtaken')
      \/ /\ m.todo = << >> /\ Written(m, EpicOf(m), file', overtaken')
         /\ Written(m, FeatureOf(m), file', overtaken')
  <2>1. CASE n.todo = <<EpicOf(n), FeatureOf(n)>>
    BY <1>1, <2>1
  <2>2. CASE n.todo = <<FeatureOf(n)>> /\ Written(n, EpicOf(n), file, overtaken)
    BY <1>1, <2>2
  <2> QED BY <2>1, <2>2 DEF Progress
<1> QED
  BY <1>2 DEF Progress

\* Creating a document of a plan keeps the invariant: a file that is there by now is of
\* another call.
LEMMA CreateKeeps ==
  ASSUME EpicsInv, NEW p \in Importers, Epics!CreateDocument(p)
  PROVE  EpicsInv'
<1> DEFINE d == Head(process[p].todo)
<1>1. UNCHANGED <<proposals, rows>> /\ calls' \in Nat
  BY DEF EpicsInv, EpicsTyped, Epics!CreateDocument, Epics!bounds
<1>2. EpicsTyped /\ EpicCallsOK /\ StagedAsWritten /\ FillsApart
  BY DEF EpicsInv
<1>3. /\ process[p] \in EpicCall /\ process[p].pc = "create" /\ Progress(process[p], file, overtaken)
      /\ process[p].todo # << >>
  BY <1>2, AtEpicCall DEF Epics!CreateDocument
<1>4. process[p].of \in Plans /\ process[p].of \notin Proposals
      /\ process[p].todo \in Seq(Epics!Paths) /\ d \in Epics!Paths
  BY <1>3, EpicsAssumption DEF Progress, EpicCall
<1>5. CASE ~Epics!Exists(d) /\ Epics!Goto(p, "fill") /\ UNCHANGED overtaken
           /\ file' = [file EXCEPT ![d].form = Epics!TornDocument]
  <2> HIDE DEF d
  <2>1. Epics!TornDocument \in Document /\ Epics!TornDocument # Epics!NoDocument
        /\ file[d].form = Epics!NoDocument /\ file[d].form \in Blank
    BY <1>5, NoDocumentTyped DEF Epics!Exists, Blank
  <2>2. /\ file' \in [Epics!Paths -> Copies] /\ StagedAsWritten' /\ FilesGoOn(file, file')
        /\ file'[d].form = Epics!TornDocument /\ \A e \in Epics!Paths : e # d => file'[e] = file[e]
    BY <1>2, <1>4, <1>5, <2>1, FormWritten
  <2>3. PICK n \in EpicCall :
           /\ process' = [process EXCEPT ![p] = n] /\ n.pc = "fill"
           /\ n.of = process[p].of /\ n.document = process[p].document /\ n.todo = process[p].todo
    BY <1>2, <1>3, <1>5, GoesTo
  <2>4. FillPath(n) = d
    BY <1>4, <2>3 DEF FillPath, d
  <2>5. \/ n.todo = <<EpicOf(n), FeatureOf(n)>>
        \/ n.todo = <<FeatureOf(n)>> /\ Written(n, EpicOf(n), file', overtaken')
    <3>1. /\ EpicOf(n) = EpicOf(process[p]) /\ FeatureOf(n) = FeatureOf(process[p])
          /\ EpicOf(n) \in Epics!Paths /\ FeatureOf(n) \in Epics!Paths
      BY <1>3, <2>3, TargetsTyped, SameTargets
    <3>2. Written(process[p], EpicOf(n), file, overtaken) => Written(n, EpicOf(n), file', overtaken')
      <4>1. EpicOf(n) # d => file'[EpicOf(n)] = file[EpicOf(n)]
        BY <2>2, <3>1
      <4>2. Written(process[p], EpicOf(n), file, overtaken) => EpicOf(n) # d
        BY <2>1 DEF Written
      <4> QED BY <1>5, <2>3, <4>1, <4>2 DEF Written, Meant
    <3> QED BY <1>3, <2>3, <3>1, <3>2 DEF Progress
  <2>6. Progress(n, file', overtaken')
    BY <1>4, <2>3, <2>5 DEF Progress
  <2>7. overtaken' \subseteq Plans /\ overtaken \subseteq overtaken'
    BY <1>2, <1>5 DEF EpicsTyped
  <2>8. FillsApart'
    BY <1>2, <1>4, <2>1, <2>2, <2>3, <2>4, FillsBegin
  <2> QED BY <1>1, <2>2, <2>3, <2>6, <2>7, <2>8, EpicWrites
<1>6. CASE /\ Epics!Exists(d) /\ UNCHANGED file
           /\ process' = [process EXCEPT ![p].todo = Tail(@)]
           /\ overtaken' = overtaken \cup IF file[d].form = Meant(process[p], d) THEN {} ELSE {process[p].of}
  <2> DEFINE n == [process[p] EXCEPT !.todo = Tail(process[p].todo)]
  <2>1. n \in EpicCall /\ n.pc = "create" /\ n.of = process[p].of /\ n.document = process[p].document
        /\ n.todo = Tail(process[p].todo)
    <3>1. Tail(process[p].todo) \in Seq(Epics!Paths)
      BY <1>3, <1>4
    <3> QED BY <1>3, <3>1 DEF EpicCall
  <2>2. process' = [process EXCEPT ![p] = n]
    BY <1>2, <1>6 DEF EpicsTyped
  <2> HIDE DEF n
  <2>3. overtaken \subseteq overtaken' /\ overtaken' \subseteq Plans
    BY <1>2, <1>4, <1>6 DEF EpicsTyped
  <2>4. Written(n, d, file', overtaken')
    BY <1>6, <2>1 DEF Written, Meant, Epics!Exists
  <2>5. ASSUME NEW e \in Epics!Paths, Written(process[p], e, file, overtaken)
        PROVE  Written(n, e, file', overtaken')
    BY <1>6, <2>1, <2>3, <2>5 DEF Written, Meant
  <2>6. Progress(n, file', overtaken')
    BY <1>3, <1>4, <2>1, <2>4, <2>5, NextDocument
  <2>7. file' \in [Epics!Paths -> Copies] /\ StagedAsWritten' /\ FilesGoOn(file, file')
    BY <1>2, <1>6, FilesSame DEF EpicsTyped, StagedAsWritten
  <2>8. FillsApart'
    BY <1>2, <1>6, <2>1, <2>2, FillsStay
  <2> QED BY <1>1, <2>1, <2>2, <2>3, <2>6, <2>7, <2>8, EpicWrites
<1>7. CASE Epics!Return(p) /\ UNCHANGED <<file, overtaken>>
  BY <1>1, <1>7, EpicReturns
<1>8. Epics!DocumentOf(p, d) = Meant(process[p], d)
  BY <1>3, <1>4, SameWords
<1> QED
  BY <1>5, <1>6, <1>7, <1>8 DEF Epics!CreateDocument, Epics!Of

\* Writing a document of a plan where it was created keeps the invariant.
LEMMA FillKeeps ==
  ASSUME EpicsInv, NEW p \in Importers, Epics!FillDocument(p)
  PROVE  EpicsInv'
<1> DEFINE d == Head(process[p].todo)
           x == Meant(process[p], d)
           n == [process[p] EXCEPT !.pc = "create", !.todo = Tail(process[p].todo)]
<1>1. UNCHANGED <<proposals, rows, overtaken>> /\ calls' \in Nat
  BY DEF EpicsInv, EpicsTyped, Epics!FillDocument, Epics!bounds
<1>2. EpicsTyped /\ EpicCallsOK /\ StagedAsWritten /\ FillsApart
  BY DEF EpicsInv
<1>3. /\ process[p] \in EpicCall /\ process[p].pc = "fill" /\ Progress(process[p], file, overtaken)
      /\ process[p].of \in Plans /\ process[p].of \notin Proposals
  BY <1>2, AtEpicCall, EpicsAssumption DEF Epics!FillDocument, Epics!Importing, Epics!Of
<1>4. FillPath(process[p]) = d /\ d \in Epics!Paths
  BY <1>2, <1>3, FillPathTyped DEF FillPath
<1>5. process[p].todo \in Seq(Epics!Paths) /\ process[p].todo # << >>
      /\ Tail(process[p].todo) \in Seq(Epics!Paths)
  <2>1. process[p].todo \in Seq(Epics!Paths)
    BY <1>3 DEF EpicCall
  <2>2. /\ <<FeatureOf(process[p])>> # << >>
        /\ <<EpicOf(process[p]), FeatureOf(process[p])>> # << >>
    OBVIOUS
  <2>3. process[p].todo # << >>
    BY <1>3, <2>2 DEF Progress
  <2> QED BY <2>1, <2>3
<1>6. x \in Document /\ x \notin Blank /\ x # Epics!NoDocument /\ Epics!DocumentOf(p, d) = x
  BY <1>3, <1>4, MeantTyped, SameWords DEF Blank
<1>7. file' = [file EXCEPT ![d].form = x]
  BY <1>6 DEF Epics!FillDocument
<1>8. n \in EpicCall /\ n.pc = "create" /\ n.of = process[p].of /\ n.document = process[p].document
      /\ n.todo = Tail(process[p].todo)
  BY <1>3, <1>5 DEF EpicCall
<1>9. process' = [process EXCEPT ![p] = n]
  BY <1>2 DEF EpicsTyped, Epics!FillDocument
<1> HIDE DEF n, d, x
<1>10. file[d].form \in Blank
  BY <1>2, <1>3, <1>4 DEF FillsApart, Blank
<1>11. /\ file' \in [Epics!Paths -> Copies] /\ StagedAsWritten' /\ FilesGoOn(file, file')
       /\ file'[d].form = x /\ \A e \in Epics!Paths : e # d => file'[e] = file[e]
  BY <1>2, <1>4, <1>6, <1>7, <1>10, FormWritten
<1>12. Written(n, d, file', overtaken')
  BY <1>6, <1>8, <1>11 DEF Written, Meant, x
<1>13. ASSUME NEW e \in Epics!Paths, Written(process[p], e, file, overtaken)
       PROVE  Written(n, e, file', overtaken')
  <2>1. CASE e = d
    BY <1>12, <2>1
  <2>2. CASE e # d
    <3>1. file'[e] = file[e]
      BY <1>11, <2>2
    <3> QED BY <1>1, <1>8, <1>13, <3>1 DEF Written, Meant
  <2> QED BY <2>1, <2>2
<1>14. Progress(n, file', overtaken')
  BY <1>3, <1>5, <1>8, <1>12, <1>13, NextDocument DEF d
<1>15. overtaken' \subseteq Plans
  BY <1>1, <1>2 DEF EpicsTyped
<1>16. FillsApart'
  BY <1>2, <1>3, <1>4, <1>8, <1>9, <1>11, FillsEnd
<1> QED
  BY <1>1, <1>8, <1>9, <1>11, <1>14, <1>15, <1>16, EpicWrites

\* Comparing the documents before the rows are written keeps the invariant.
LEMMA ExamineKeeps ==
  ASSUME EpicsInv, NEW p \in Importers, Epics!ExamineDocuments(p)
  PROVE  EpicsInv'
<1>1. UNCHANGED <<proposals, rows, file, overtaken>> /\ calls' \in Nat
  BY DEF EpicsInv, EpicsTyped, Epics!ExamineDocuments, Epics!bounds
<1>2. EpicsTyped /\ EpicCallsOK
  BY DEF EpicsInv
<1>3. process[p] \in EpicCall /\ process[p].pc = "create" /\ Progress(process[p], file, overtaken)
      /\ process[p].todo = << >>
  BY <1>2, AtEpicCall DEF Epics!ExamineDocuments
<1>4. process[p].of \in Plans /\ Targets(process[p]) = {EpicOf(process[p]), FeatureOf(process[p])}
      /\ \A d \in Targets(process[p]) : Written(process[p], d, file, overtaken)
  BY <1>3 DEF Progress, Targets
<1> DEFINE pc == IF \E d \in Targets(process[p]) : Epics!PathIsChanged(d) THEN "add" ELSE "rows"
<1>5. Epics!Goto(p, pc)
  BY <1>3, SameWords DEF Epics!ExamineDocuments
<1>6. pc \in {"add", "rows"} /\ (pc = "rows" => \A d \in Targets(process[p]) : Staged(d, file) /\ Committed(d, file))
  BY DEF Epics!PathIsChanged, Staged, Committed
<1> HIDE DEF pc
<1>7. PICK n \in EpicCall :
         /\ process' = [process EXCEPT ![p] = n] /\ n.pc = pc
         /\ n.of = process[p].of /\ n.document = process[p].document
  BY <1>2, <1>3, <1>5, <1>6, GoesTo
<1>8. Targets(n) = Targets(process[p])
      /\ \A d \in Targets(n) : Written(n, d, file, overtaken)
  BY <1>4, <1>7, SameTargets
<1>9. Progress(n, file, overtaken) /\ Founded(n, rows, proposals)
  BY <1>4, <1>6, <1>7, <1>8, EpicsAssumption DEF Progress, Founded
<1> QED BY <1>1, <1>6, <1>7, <1>9, EpicGoesOn

\* The rows of a plan name what is committed at their paths, unless the plan was
\* overtaken.
LEMMA InsertImportKeeps ==
  ASSUME EpicsInv, NEW p \in Importers, Epics!InsertImport(p)
  PROVE  EpicsInv'
<1>1. UNCHANGED <<proposals, file, overtaken>> /\ calls' \in Nat /\ Epics!Return(p)
  BY DEF EpicsInv, EpicsTyped, Epics!InsertImport, Epics!bounds
<1>2. EpicsTyped /\ EpicCallsOK /\ FillsApart
  BY DEF EpicsInv
<1>3. /\ process[p] \in EpicCall /\ Progress(process[p], file, overtaken)
      /\ process[p].pc = "rows" /\ process[p].of \in Plans
  BY <1>2, AtEpicCall DEF Epics!InsertImport, Epics!Importing, Epics!Of
<1>4. CASE UNCHANGED rows
  BY <1>1, <1>4, EpicReturns
<1>5. CASE /\ \A d \in Targets(process[p]) : rows[d].document = Epics!NoDocument
           /\ rows' = [d \in Epics!Paths |-> IF d \in Targets(process[p])
                  THEN [title |-> TitleOf[process[p].of], document |-> Meant(process[p], d)] ELSE rows[d]]
  <2>1. ASSUME NEW d \in Epics!Paths
        PROVE  /\ rows'[d] \in DocumentRow
               /\ rows[d].document # Epics!NoDocument => rows'[d] = rows[d]
               /\ rows'[d] # rows[d] => \/ file[d].committed = rows'[d].document
                                        \/ rows'[d].title \in {TitleOf[v] : v \in overtaken}
    <3>1. CASE d \in Targets(process[p])
      <4> DEFINE row == [title |-> TitleOf[process[p].of], document |-> Meant(process[p], d)]
      <4>1. process[p].of \notin Proposals
        BY <1>3, EpicsAssumption
      <4>2. row \in DocumentRow
            /\ row.title = TitleOf[process[p].of] /\ row.document = Meant(process[p], d)
        <5>1. Meant(process[p], d) \in Document /\ Meant(process[p], d) # Epics!TornDocument
          BY <1>3, <4>1, MeantTyped DEF Blank
        <5> QED BY <1>3, <5>1 DEF Titled, DocumentRow
      <4>3. rows'[d] = row
        BY <1>5, <3>1
      <4>4. /\ Written(process[p], d, file, overtaken)
            /\ process[p].of \in overtaken \/ Committed(d, file)
        BY <1>3, <3>1 DEF Progress
      <4> HIDE DEF row
      <4>5. file[d].committed = row.document \/ row.title \in {TitleOf[v] : v \in overtaken}
        <5>1. CASE process[p].of \in overtaken
          BY <4>2, <5>1
        <5>2. CASE process[p].of \notin overtaken
          BY <4>2, <4>4, <5>2 DEF Written, Committed
        <5> QED BY <5>1, <5>2
      <4> QED BY <1>5, <3>1, <4>2, <4>3, <4>5
    <3>2. CASE d \notin Targets(process[p])
      BY <1>2, <1>5, <3>2 DEF EpicsTyped
    <3> QED BY <3>1, <3>2
  <2>2. rows' \in [Epics!Paths -> DocumentRow]
    <3>1. rows' = [d \in Epics!Paths |-> rows'[d]]
      BY <1>5
    <3> QED BY <2>1, <3>1
  <2>3. RowsGoOn(rows, rows')
    BY <2>1 DEF RowsGoOn
  <2>4. process' \in [Importers -> {Epics!Idle} \cup EpicCall] /\ EpicCallsOK'
    BY <1>1, <1>2, <2>3, EpicCallsGoOn, IdleCall, FilesSame, DecisionsSame DEF Epics!Return
  <2>5. FillsApart'
    BY <1>1, <1>2, FillsStay DEF Epics!Return, Epics!Idle
  <2> QED BY <1>1, <2>1, <2>2, <2>3, <2>4, <2>5, RowsInserted
<1>6. UNCHANGED rows
      \/ /\ \A d \in Targets(process[p]) : rows[d].document = Epics!NoDocument
         /\ rows' = [d \in Epics!Paths |-> IF d \in Targets(process[p])
                  THEN [title |-> TitleOf[process[p].of], document |-> Meant(process[p], d)] ELSE rows[d]]
  <2>1. /\ Epics!PathsOf(p) = Targets(process[p])
        /\ \A d \in Epics!Paths : Epics!DocumentOf(p, d) = Meant(process[p], d)
    BY <1>3, SameWords
  <2> QED BY <2>1 DEF Epics!InsertImport, Epics!Unique, Epics!HasRow, Epics!Of
<1> QED
  BY <1>4, <1>5, <1>6

\* Failing, moving sources and doing nothing keep the invariant.
LEMMA EpicsIdle ==
  ASSUME EpicsInv, \/ \E p \in Importers : Epics!Fail(p)
                   \/ \E v \in Plans : Epics!MoveSource(v)
                   \/ UNCHANGED ofEpics /\ UNCHANGED <<process, calls>>
  PROVE  EpicsInv'
<1>1. EpicsTyped /\ EpicCallsOK
  BY DEF EpicsInv
<1>2. UNCHANGED <<proposals, rows, file, overtaken>> /\ calls' \in Nat
  BY <1>1 DEF EpicsTyped, Epics!Fail, Epics!MoveSource, ofEpics
<1>3. CASE \E p \in Importers : Epics!Fail(p)
  BY <1>2, <1>3, EpicReturns DEF Epics!Fail
<1>4. CASE UNCHANGED process
  <2>1. process' \in [Importers -> {Epics!Idle} \cup EpicCall] /\ EpicCallsOK'
    BY <1>1, <1>2, <1>4, EpicCallsStay, FilesSame, RowsSame, DecisionsSame
  <2>2. FillsApart'
    BY <1>2, <1>4 DEF EpicsInv, FillsApart
  <2> QED BY <1>2, <2>1, <2>2, OnlyProcess
<1> QED
  BY <1>3, <1>4 DEF Epics!MoveSource

\* The invariant, as long as Epics and plans are imported.
EpicsAlways == importing = "epics" => EpicsInv

\* The invariant of the Epics is inductive.
LEMMA EpicsStep == ASSUME EpicsInv, Epics!Next PROVE EpicsInv'
<1>1. CASE \E p \in Importers : Epics!Step(p)
  <2> PICK p \in Importers : Epics!Step(p)
    BY <1>1
  <2> QED
    BY LookUpKeeps, InspectKeeps, CreateNewKeeps, WriteNewKeeps, AddKeeps, CommitKeeps, InsertEpicKeeps, DecideKeeps,
       PreflightKeeps, CompareKeeps, CreateKeeps, FillKeeps, ExamineKeeps, InsertImportKeeps DEF Epics!Step
<1>2. CASE \E p \in Importers : Epics!ImportPlans(p) \/ \E q \in Proposals : Epics!Approve(p, q)
  BY <1>2, ApplyImportKeeps, ApproveKeeps DEF Epics!ImportPlans
<1>3. CASE \E q \in Proposals : Epics!Reject(q)
  BY <1>3, RejectKeeps
<1>4. CASE (\E p \in Importers : Epics!Fail(p)) \/ (\E v \in Plans : Epics!MoveSource(v))
  BY <1>4, EpicsIdle
<1> QED
  BY <1>1, <1>2, <1>3, <1>4 DEF Epics!Next

\* The invariant holds in every run that imports Epics and plans.
LEMMA EpicsAreKept == ImportsSpec => []EpicsAlways
<1>1. ImportsInit => EpicsAlways
  BY EpicsStart DEF ImportsInit, EpicsAlways
<1>2. EpicsAlways /\ [ImportsNext]_importsVars => EpicsAlways'
  BY EpicsStep, EpicsIdle DEF EpicsAlways, ImportsNext, importsVars
<1> QED
  BY <1>1, <1>2, PTL DEF ImportsSpec

\* Whatever proposals and plans share slugs and titles, and however many processes approve and
\* apply them: a row of a document names what is committed at its path unless that file was
\* created by another call after the comparison, and what is approved has an Epic of its slug
\* and title (create_epic, publish_batch_new, approve_workspace_proposal, decide).
THEOREM EpicsFoundTrue == ImportsSpec => []EpicsAreTrue
<1>1. EpicsAlways => EpicsAreTrue
  BY DEF EpicsAlways, EpicsInv, EpicsAreTrue, ApprovedHave, HasEpic, Epics!ApprovedHasEpic
<1> QED
  BY <1>1, EpicsAreKept, PTL

================================================================================
