-------------------------- MODULE SessionLaunchProofs -------------------------
(***************************************************************************)
(* Theorems about SessionLaunch, for every set of sessions, launches,      *)
(* drivers and checkouts and every bound.                                  *)
(*                                                                         *)
(* The argument: an intent that exists keeps its request for ever, so that *)
(* what bind_hook read of it outside the transaction that binds is still   *)
(* true there; and a driver that is about to spawn is the one that inserted *)
(* the intent.  As to the rows, a step binds a session, retires one, or at *)
(* most removes sessions from those to restore (RowsMove).                 *)
(***************************************************************************)
EXTENDS SessionLaunch, TLAPS

-----------------------------------------------------------------------------
(* The inductive invariant.                                                *)

\* An intent that exists has the request it was inserted with.
Intended ==
  \A k \in Keys :
    IF intents[k].status = "absent"
      THEN intents[k] = NoIntent
      ELSE intents[k].req \in Requests /\ intents[k].req.key = k

\* A driver has a request, and from the transaction on the intent of it.
Launching ==
  \A d \in Drivers :
    /\ ~At(d, "idle") => driver[d].req \in Requests
    /\ driver[d].pc \in {"spawn", "mark", "await"} =>
         intents[driver[d].req.key].status # "absent"

\* The driver that inserted the intent spawns, and no other.
SpawnsOnce ==
  /\ \A k \in Keys : intents[k].status = "absent" => spawned[k] = 0
  /\ \A d \in Drivers : At(d, "spawn") => spawned[driver[d].req.key] = 0
  /\ \A d, e \in Drivers :
       At(d, "spawn") /\ At(e, "spawn") /\ driver[d].req.key = driver[e].req.key => d = e
  /\ SpawnedOnce

\* What the check of a token found is true of the intent ever after.
TokenChecked ==
  \A s \in Sessions, k \in Keys :
    <<s, k>> \in DOMAIN starting /\ starting[<<s, k>>] = "checked" =>
      intents[k].status # "absent" /\ ExpectedNative(intents[k].req, s)

\* A row refers to an intent that exists.
RowsIntended ==
  \A s \in Sessions : managed[s].intent # "none" => intents[managed[s].intent].status # "absent"

\* The reservation of a writer checkout is of the session that has a row there.
WritersReserved ==
  \A s \in Sessions :
    managed[s].generation > 0 /\ managed[s].checkout \in WriterCheckouts =>
      reservation[managed[s].checkout] = s

\* The parts that are inductive, each on the ones before it.
Launched == TypeOK /\ Intended /\ Launching /\ SpawnsOnce /\ TokenChecked
Bindings == RowsIntended /\ BindingParity /\ AuthorityMatches /\ ExactBinding /\ WritersReserved
LaunchInv == Launched /\ Bindings

-----------------------------------------------------------------------------
(* Types.                                                                  *)

\* The requests and the initial records have their types.
LEMMA RequestTypes ==
  /\ \A req \in Requests : /\ req.key \in Keys /\ req.owner \in Owners
                           /\ req.checkout \in Checkouts
                           /\ req.mode \in Sessions \cup {"new"}
  /\ \A pair \in ItemCheckouts : pair[1] \in Owners /\ pair[2] \in Checkouts
  /\ "none" \notin Keys /\ "none" \notin Owners /\ "none" \notin Sessions
<1>1. \A req \in Requests : req.key \in Keys /\ <<req.owner, req.checkout>> \in OwnerCheckouts
  BY DEF Keys, OwnerCheckouts
<1>2. \A req \in Requests : req.owner \in Owners /\ req.checkout \in Checkouts
  <2> TAKE req \in Requests
  <2> DEFINE pair == <<req.owner, req.checkout>>
  <2>1. pair \in OwnerCheckouts /\ pair[1] = req.owner /\ pair[2] = req.checkout
    BY <1>1
  <2> QED
    BY <2>1 DEF Owners, Checkouts
<1>3. \A pair \in ItemCheckouts : pair[1] \in Owners /\ pair[2] \in Checkouts
  BY DEF Owners, Checkouts, OwnerCheckouts
<1> QED
  BY <1>1, <1>2, <1>3, RequestsAssumption, NamesAssumption

IntentRows == [status : {"absent", "pending", "launched", "bound", "failed"},
               req : Requests \cup {NoRequest}, overdue : BOOLEAN]
ManagedRows == [current : BOOLEAN, intent : Keys \cup {"none"},
                checkout : Checkouts \cup {"none"},
                status : {"bound", "adopted", "stopped"}, generation : Nat]
DriverStates == [pc : {"idle", "insert", "spawn", "mark", "await"},
                 req : Requests \cup {NoRequest}]

\* The initial state has the types and the properties.
LEMMA InitLaunch == Init => LaunchInv
<1> SUFFICES ASSUME Init PROVE LaunchInv
  OBVIOUS
<1>1. TypeOK
  BY BoundsAssumption DEF Init, TypeOK, NoIntent, NoRow
<1>2. Intended /\ Launching /\ SpawnsOnce /\ TokenChecked
  BY DEF Init, Intended, Launching, SpawnsOnce, SpawnedOnce, TokenChecked, At, NoIntent
<1>3. Bindings
  BY DEF Init, Bindings, RowsIntended, BindingParity, AuthorityMatches, ExactBinding,
         WritersReserved, NoRow
<1> QED
  BY <1>1, <1>2, <1>3 DEF LaunchInv, Launched

\* A driver that goes on or returns is a driver state.
LEMMA DriverTypes ==
  ASSUME driver \in [Drivers -> DriverStates], NEW d \in Drivers
  PROVE  /\ \A pc \in {"insert", "spawn", "mark", "await"} :
              Goto(d, pc) => driver' \in [Drivers -> DriverStates]
         /\ Return(d) => driver' \in [Drivers -> DriverStates]
BY DEF Goto, Return, DriverStates

\* A hook that is handled or lost is one less.
LEMMA DoneTypes ==
  ASSUME starting \in [DOMAIN starting -> {"sent", "checked"}], NEW pair, Done(pair)
  PROVE  /\ DOMAIN starting' = DOMAIN starting \ {pair}
         /\ starting' \in [DOMAIN starting' -> {"sent", "checked"}]
         /\ \A other \in DOMAIN starting' : starting'[other] = starting[other]
BY DEF Done

\* One that starts is one more.
LEMMA StartTypes ==
  ASSUME starting \in [DOMAIN starting -> {"sent", "checked"}], DOMAIN starting \subseteq running,
         running \subseteq Sessions \X (Keys \cup {"none"}), started \subseteq Sessions,
         NEW s \in Sessions, NEW k \in Keys \cup {"none"}, StartProcess(s, k)
  PROVE  /\ running' \subseteq Sessions \X (Keys \cup {"none"})
         /\ starting' \in [DOMAIN starting' -> {"sent", "checked"}]
         /\ DOMAIN starting' \subseteq running'
         /\ started' \subseteq Sessions
         /\ starting'[<<s, k>>] = "sent"
         /\ \A other \in DOMAIN starting' \ {<<s, k>>} :
              other \in DOMAIN starting /\ starting'[other] = starting[other]
<1> DEFINE new == <<s, k>>
           hooks == DOMAIN starting \cup {new}
<1>1. new \in Sessions \X (Keys \cup {"none"})
  OBVIOUS
<1>2. running' = running \cup {new} /\ started' = started \cup {s}
  BY DEF StartProcess
<1>3. starting' = [pair \in hooks |-> IF pair = new THEN "sent" ELSE starting[pair]]
  BY DEF StartProcess
<1> HIDE DEF new
<1>4. DOMAIN starting' = hooks /\ \A pair \in hooks : starting'[pair] \in {"sent", "checked"}
  BY <1>3
<1>5. starting' \in [DOMAIN starting' -> {"sent", "checked"}]
  BY <1>3, <1>4
<1>6. starting'[new] = "sent"
  BY <1>3
<1>7. \A other \in DOMAIN starting' \ {new} :
        other \in DOMAIN starting /\ starting'[other] = starting[other]
  BY <1>3, <1>4
<1> QED
  BY <1>1, <1>2, <1>4, <1>5, <1>6, <1>7 DEF new

\* A change of an intent's status or age keeps its types.
LEMMA IntentTypes ==
  ASSUME intents \in [Keys -> IntentRows], NEW k \in Keys
  PROVE  /\ \A status \in {"pending", "launched", "bound", "failed"} :
              [intents EXCEPT ![k].status = status] \in [Keys -> IntentRows]
         /\ [intents EXCEPT ![k].overdue = TRUE] \in [Keys -> IntentRows]
<1>1. \A status \in {"pending", "launched", "bound", "failed"} :
        [intents[k] EXCEPT !.status = status] \in IntentRows
  BY DEF IntentRows
<1>2. [intents[k] EXCEPT !.overdue = TRUE] \in IntentRows
  BY DEF IntentRows
<1> QED
  BY <1>1, <1>2

\* A binding has the types of the rows.
LEMMA BindTypes ==
  ASSUME TypeOK, NEW s \in Sessions, NEW owner \in Owners, NEW c \in Checkouts,
         NEW k \in Keys \cup {"none"}, NEW status \in {"bound", "adopted"},
         Bind(s, owner, c, k, status)
  PROVE  /\ managed' \in [Sessions -> ManagedRows]
         /\ past' \subseteq Keys
         /\ association' \in [Sessions -> Owners \cup {"none"}]
         /\ membership' \subseteq Sessions /\ restore' \subseteq Sessions
         /\ live' \in [Sessions -> {"none", "active", "stopped", "expired"}]
         /\ reservation' \in [WriterCheckouts -> Sessions \cup {"none"}]
<1>1. /\ managed \in [Sessions -> ManagedRows]
      /\ managed[s] \in ManagedRows
      /\ NextGeneration(managed[s]) \in Nat
  BY DEF TypeOK, ManagedRows, NextGeneration
<1>2. [current |-> TRUE, intent |-> k, checkout |-> c, status |-> status,
       generation |-> NextGeneration(managed[s])] \in ManagedRows
  BY <1>1 DEF ManagedRows
<1>3. managed' \in [Sessions -> ManagedRows]
  BY <1>1, <1>2 DEF Bind
<1>4. past' \subseteq Keys
  BY <1>1 DEF Bind, TypeOK, ManagedRows
<1>5. association' \in [Sessions -> Owners \cup {"none"}]
  BY DEF Bind, TypeOK
<1>6. /\ membership' \subseteq Sessions /\ restore' \subseteq Sessions
      /\ live' \in [Sessions -> {"none", "active", "stopped", "expired"}]
  BY DEF Bind, TypeOK
<1>7. reservation' \in [WriterCheckouts -> Sessions \cup {"none"}]
  BY DEF Bind, TypeOK
<1> QED
  BY <1>3, <1>4, <1>5, <1>6, <1>7

\* So has a retirement.
LEMMA RetireTypes ==
  ASSUME TypeOK, NEW s \in Sessions, Retire(s)
  PROVE  /\ managed' \in [Sessions -> ManagedRows]
         /\ association' \in [Sessions -> Owners \cup {"none"}]
         /\ membership' \subseteq Sessions /\ restore' \subseteq Sessions
<1>1. managed \in [Sessions -> ManagedRows]
  BY DEF TypeOK, ManagedRows
<1>2. managed' \in [Sessions -> ManagedRows]
  BY <1>1 DEF Retire, ManagedRows
<1> QED
  BY <1>2 DEF Retire, TypeOK

\* The types, apart from those of the rows and of the bounds.
LEMMA TypeParts ==
  TypeOK <=>
    /\ intents \in [Keys -> IntentRows] /\ bundles \subseteq Keys
    /\ /\ managed \in [Sessions -> ManagedRows] /\ past \subseteq Keys
       /\ association \in [Sessions -> Owners \cup {"none"}]
       /\ membership \subseteq Sessions /\ restore \subseteq Sessions
       /\ live \in [Sessions -> {"none", "active", "stopped", "expired"}]
       /\ reservation \in [WriterCheckouts -> Sessions \cup {"none"}]
    /\ /\ running \subseteq Sessions \X (Keys \cup {"none"})
       /\ starting \in [DOMAIN starting -> {"sent", "checked"}]
       /\ DOMAIN starting \subseteq running
       /\ started \subseteq Sessions
    /\ driver \in [Drivers -> DriverStates] /\ spawned \in [Keys -> Nat]
    /\ acts \in 0..MaxActs /\ faults \in 0..MaxFaults
BY DEF TypeOK, IntentRows, ManagedRows, DriverStates

\* The same of the next state.
LEMMA TypePartsNext ==
  TypeOK' <=>
    /\ intents' \in [Keys -> IntentRows] /\ bundles' \subseteq Keys
    /\ /\ managed' \in [Sessions -> ManagedRows] /\ past' \subseteq Keys
       /\ association' \in [Sessions -> Owners \cup {"none"}]
       /\ membership' \subseteq Sessions /\ restore' \subseteq Sessions
       /\ live' \in [Sessions -> {"none", "active", "stopped", "expired"}]
       /\ reservation' \in [WriterCheckouts -> Sessions \cup {"none"}]
    /\ /\ running' \subseteq Sessions \X (Keys \cup {"none"})
       /\ starting' \in [DOMAIN starting' -> {"sent", "checked"}]
       /\ DOMAIN starting' \subseteq running'
       /\ started' \subseteq Sessions
    /\ driver' \in [Drivers -> DriverStates] /\ spawned' \in [Keys -> Nat]
    /\ acts' \in 0..MaxActs /\ faults' \in 0..MaxFaults
BY DEF TypeOK, IntentRows, ManagedRows, DriverStates

\* Every step keeps the types.
LEMMA TypeStep ==
  ASSUME TypeOK, Intended, Launching, TokenChecked, [Next]_vars
  PROVE  TypeOK'
<1>0. /\ intents \in [Keys -> IntentRows] /\ bundles \subseteq Keys
      /\ /\ managed \in [Sessions -> ManagedRows] /\ past \subseteq Keys
         /\ association \in [Sessions -> Owners \cup {"none"}]
         /\ membership \subseteq Sessions /\ restore \subseteq Sessions
         /\ live \in [Sessions -> {"none", "active", "stopped", "expired"}]
         /\ reservation \in [WriterCheckouts -> Sessions \cup {"none"}]
      /\ /\ running \subseteq Sessions \X (Keys \cup {"none"})
         /\ starting \in [DOMAIN starting -> {"sent", "checked"}]
         /\ DOMAIN starting \subseteq running
         /\ started \subseteq Sessions
      /\ driver \in [Drivers -> DriverStates] /\ spawned \in [Keys -> Nat]
      /\ acts \in 0..MaxActs /\ faults \in 0..MaxFaults
  BY TypeParts
<1> USE RequestTypes, <1>0
<1>1. ASSUME NEW d \in Drivers, Launch(d) PROVE TypeOK'
  <2>1. ASSUME NEW req \in Requests, Request(d, req) PROVE TypeOK'
    BY TypePartsNext, <2>1 DEF Request, DriverStates, rows, world, TypeOK
  <2>2. CASE Insert(d)
    <3>1. driver[d].req \in Requests /\ driver[d].req.key \in Keys
      BY <2>2 DEF Insert, Launching, At
    <3>2. Intent(driver[d].req) \in IntentRows
      BY <3>1 DEF Intent, IntentRows
    <3>4. intents' \in [Keys -> IntentRows] /\ bundles' \subseteq Keys
      BY <2>2, <3>1, <3>2 DEF Insert
    <3>3. driver' \in [Drivers -> DriverStates]
      BY <2>2, DriverTypes DEF Insert
    <3> QED
      BY TypePartsNext, <2>2, <3>4, <3>3 DEF Insert, rows, world
  <2>3. CASE Spawn(d)
    <3>1. driver[d].req \in Requests
      BY <2>3 DEF Spawn, Launching, At
    <3>2. spawned' \in [Keys -> Nat]
      BY <2>3, <3>1 DEF Spawn
    <3>3. driver' \in [Drivers -> DriverStates]
      BY <2>3, DriverTypes DEF Spawn
    <3>4. CASE UNCHANGED world
      BY TypePartsNext, <2>3, <3>2, <3>3, <3>4 DEF Spawn, rows, world
    <3>5. ASSUME NEW s \in Sessions, StartProcess(s, driver[d].req.key) PROVE TypeOK'
      <4>1. /\ running' \subseteq Sessions \X (Keys \cup {"none"})
            /\ started' \subseteq Sessions /\ DOMAIN starting' \subseteq running'
            /\ starting' \in [DOMAIN starting' -> {"sent", "checked"}]
        BY <3>1, <3>5, StartTypes
      <4> QED
        BY TypePartsNext, <2>3, <3>2, <3>3, <4>1 DEF Spawn, rows
    <3>6. driver[d].req.mode \in Sessions \cup {"new"}
      BY <3>1
    <3> QED
      BY TypePartsNext, <2>3, <3>4, <3>5, <3>6, NamesAssumption DEF Spawn
  <2>4. CASE SpawnFails(d)
    <3>1. driver' \in [Drivers -> DriverStates]
      BY <2>4, DriverTypes DEF SpawnFails
    <3>2. intents' \in [Keys -> IntentRows]
      <4>1. driver[d].req.key \in Keys
        BY <2>4 DEF SpawnFails, Launching, At
      <4> QED
        BY <2>4, <4>1, IntentTypes DEF SpawnFails
    <3> QED
      BY TypePartsNext, <2>4, <3>1, <3>2, BoundsAssumption DEF SpawnFails, rows, world
  <2>5. CASE MarkLaunched(d)
    <3>1. driver' \in [Drivers -> DriverStates]
      BY <2>5, DriverTypes DEF MarkLaunched
    <3>2. intents' \in [Keys -> IntentRows]
      <4>1. driver[d].req.key \in Keys
        BY <2>5 DEF MarkLaunched, Launching, At
      <4>2. [intents EXCEPT ![driver[d].req.key].status = "launched"] \in [Keys -> IntentRows]
        BY <4>1, IntentTypes
      <4> QED
        BY <2>5, <4>2 DEF MarkLaunched
    <3> QED
      BY TypePartsNext, <2>5, <3>1, <3>2 DEF MarkLaunched, rows, world
  <2>6. CASE Await(d) \/ DriverCrash(d)
    <3>1. driver' \in [Drivers -> DriverStates]
      BY <2>6, DriverTypes DEF Await, DriverCrash
    <3> QED
      BY TypePartsNext, <2>6, <3>1, BoundsAssumption DEF Await, DriverCrash, rows, world
  <2> QED
    BY <1>1, <2>1, <2>2, <2>3, <2>4, <2>5, <2>6 DEF Launch
<1>2. ASSUME NEW s \in Sessions, Hooks(s) PROVE TypeOK'
  <2>1. ASSUME NEW k \in Keys, CheckToken(s, k) PROVE TypeOK'
    <3>1. /\ starting' \in [DOMAIN starting' -> {"sent", "checked"}]
          /\ DOMAIN starting' \subseteq DOMAIN starting
      BY <2>1, DoneTypes DEF CheckToken
    <3> QED
      BY TypePartsNext, <2>1, <3>1 DEF CheckToken, rows
  <2>2. ASSUME NEW k \in Keys, BindHook(s, k) PROVE TypeOK'
    <3> DEFINE req == intents[k].req
    <3>1. /\ starting' \in [DOMAIN starting' -> {"sent", "checked"}]
          /\ DOMAIN starting' \subseteq DOMAIN starting
      BY <2>2, DoneTypes DEF BindHook
    <3>2. req \in Requests
      BY <2>2 DEF BindHook, TokenChecked, Intended
    <3>3. CASE /\ Bind(s, req.owner, req.checkout, k, "bound")
               /\ intents' = [intents EXCEPT ![k].status = IF Open(k) THEN "bound" ELSE @]
      <4>1. intents' \in [Keys -> IntentRows]
        BY <3>3 DEF IntentRows
      <4> QED
        BY TypePartsNext, <2>2, <3>1, <3>2, <3>3, <4>1, BindTypes DEF BindHook
    <3>4. CASE UNCHANGED <<intents, rows>>
      BY TypePartsNext, <2>2, <3>1, <3>4 DEF BindHook, rows
    <3> QED
      BY TypePartsNext, <2>2, <3>3, <3>4 DEF BindHook
  <2>3. ASSUME NEW k \in Keys \cup {"none"}, HookLost(s, k) PROVE TypeOK'
    <3>1. /\ starting' \in [DOMAIN starting' -> {"sent", "checked"}]
          /\ DOMAIN starting' \subseteq DOMAIN starting
      BY <2>3, DoneTypes DEF HookLost
    <3> QED
      BY TypePartsNext, <2>3, <3>1, BoundsAssumption DEF HookLost, rows
  <2>4. ASSUME NEW k \in Keys \cup {"none"}, SessionEnd(s, k) PROVE TypeOK'
    <3>1. CASE UNCHANGED rows
      BY TypePartsNext, <2>4, <3>1 DEF SessionEnd, rows
    <3>2. CASE Retire(s) /\ live' = [live EXCEPT ![s] = "stopped"] /\ UNCHANGED <<past, reservation>>
      BY TypePartsNext, <2>4, <3>2, RetireTypes DEF SessionEnd
    <3> QED
      BY TypePartsNext, <2>4, <3>1, <3>2 DEF SessionEnd
  <2>5. CASE Observe(s)
    <3>1. /\ starting' \in [DOMAIN starting' -> {"sent", "checked"}]
          /\ DOMAIN starting' \subseteq DOMAIN starting
      BY <2>5, DoneTypes DEF Observe
    <3> QED
      BY TypePartsNext, <2>5, <3>1 DEF Observe
  <2> QED
    BY <1>2, <2>1, <2>2, <2>3, <2>4, <2>5 DEF Hooks
<1>3. ASSUME NEW s \in Sessions, Person(s) PROVE TypeOK'
  <2>1. ASSUME NEW k \in Keys \cup {"none"}, StartOutside(s, k) PROVE TypeOK'
    <3>1. StartProcess(s, k)
      BY <2>1 DEF StartOutside
    <3>2. /\ running' \subseteq Sessions \X (Keys \cup {"none"})
          /\ starting' \in [DOMAIN starting' -> {"sent", "checked"}]
          /\ DOMAIN starting' \subseteq running' /\ started' \subseteq Sessions
      BY <3>1, StartTypes
    <3> QED
      BY TypePartsNext, <2>1, <3>2, BoundsAssumption DEF StartOutside, rows
  <2>2. ASSUME NEW k \in Keys \cup {"none"}, Die(s, k) PROVE TypeOK'
    BY TypePartsNext, <2>2, BoundsAssumption DEF Die, rows
  <2>3. ASSUME NEW pair \in ItemCheckouts, Adopt(s, pair[1], pair[2]) PROVE TypeOK'
    BY TypePartsNext, <2>3, BindTypes, BoundsAssumption DEF Adopt, world
  <2>4. CASE Close(s)
    BY TypePartsNext, <2>4, RetireTypes DEF Close, world
  <2>5. CASE RemoveFromRestore(s)
    BY TypePartsNext, <2>5, BoundsAssumption DEF RemoveFromRestore, world
  <2> QED
    BY <1>3, <2>1, <2>2, <2>3, <2>4, <2>5 DEF Person
<1>4. CASE Time
  <2>1. ASSUME NEW k \in Keys, IntentExpires(k) PROVE TypeOK'
    <3>1. intents' \in [Keys -> IntentRows]
      BY <2>1, IntentTypes DEF IntentExpires
    <3> QED
      BY TypePartsNext, <2>1, <3>1 DEF IntentExpires, rows, world
  <2>2. ASSUME NEW s \in Sessions, ObservationExpires(s) PROVE TypeOK'
    BY TypePartsNext, <2>2 DEF ObservationExpires, world
  <2> QED
    BY <1>4, <2>1, <2>2 DEF Time
<1>5. CASE UNCHANGED vars
  BY TypePartsNext, <1>5 DEF vars
<1> QED
  BY <1>1, <1>2, <1>3, <1>4, <1>5 DEF Next

-----------------------------------------------------------------------------
(* Intents, and who spawns.                                                *)

\* An intent that exists stays, with its request.
IntentsStay ==
  \A k \in Keys : intents[k].status # "absent" =>
    intents'[k].status # "absent" /\ intents'[k].req = intents[k].req

\* A change of the status of intents that exist.
LEMMA StatusStays ==
  ASSUME TypeOK, Intended, NEW k \in Keys, intents[k].status # "absent",
         NEW status \in {"pending", "launched", "bound", "failed"},
         \/ intents' = [intents EXCEPT ![k].status = status]
         \/ intents' = [intents EXCEPT ![k].overdue = TRUE]
  PROVE  Intended' /\ IntentsStay
<1>1. intents \in [Keys -> IntentRows] /\ intents[k] \in IntentRows
  BY TypeParts
<1>2. CASE intents' = [intents EXCEPT ![k].status = status]
  <2>1. \A j \in Keys \ {k} : intents'[j] = intents[j]
    BY <1>1, <1>2
  <2>2. intents'[k] = [intents[k] EXCEPT !.status = status]
    BY <1>1, <1>2
  <2>3. intents'[k].req = intents[k].req /\ intents'[k].status # "absent"
    BY <1>1, <2>2 DEF IntentRows
  <2> QED
    BY <2>1, <2>3 DEF Intended, IntentsStay
<1>3. CASE intents' = [intents EXCEPT ![k].overdue = TRUE]
  <2>1. \A j \in Keys \ {k} : intents'[j] = intents[j]
    BY <1>1, <1>3
  <2>2. intents'[k] = [intents[k] EXCEPT !.overdue = TRUE]
    BY <1>1, <1>3
  <2>3. intents'[k].req = intents[k].req /\ intents'[k].status # "absent"
    BY <1>1, <2>2 DEF IntentRows
  <2> QED
    BY <2>1, <2>3 DEF Intended, IntentsStay
<1> QED
  BY <1>2, <1>3

\* Every step keeps the intents.
LEMMA IntentStep ==
  ASSUME TypeOK, Intended, Launching, TokenChecked, [Next]_vars
  PROVE  Intended' /\ IntentsStay
<1> USE RequestTypes
<1>1. ASSUME UNCHANGED intents PROVE Intended' /\ IntentsStay
  BY <1>1 DEF Intended, IntentsStay
<1>2. ASSUME NEW d \in Drivers, Insert(d) PROVE Intended' /\ IntentsStay
  <2> DEFINE req == driver[d].req
  <2>1. req \in Requests /\ req.key \in Keys
    BY <1>2 DEF Insert, Launching, At
  <2>2. CASE intents[req.key].status = "absent" /\ intents' = [intents EXCEPT ![req.key] = Intent(req)]
    <3>1. intents \in [Keys -> IntentRows]
      BY TypeParts
    <3>2. /\ intents'[req.key] = Intent(req)
          /\ \A k \in Keys \ {req.key} : intents'[k] = intents[k]
      BY <2>1, <2>2, <3>1
    <3> QED
      BY <2>1, <2>2, <3>2 DEF Intended, IntentsStay, Intent
  <2> QED
    BY <1>1, <1>2, <2>2 DEF Insert
<1>3. ASSUME NEW d \in Drivers, SpawnFails(d) \/ MarkLaunched(d) PROVE Intended' /\ IntentsStay
  <2> DEFINE k == driver[d].req.key
  <2>1. k \in Keys /\ intents[k].status # "absent"
    BY <1>3 DEF SpawnFails, MarkLaunched, Launching, At
  <2>2. \/ intents' = [intents EXCEPT ![k].status = "failed"]
        \/ intents' = [intents EXCEPT ![k].status = "launched"]
        \/ UNCHANGED intents
    BY <1>3 DEF SpawnFails, MarkLaunched
  <2> QED
    BY <1>1, <2>1, <2>2, StatusStays
<1>4. ASSUME NEW s \in Sessions, NEW k \in Keys, BindHook(s, k) PROVE Intended' /\ IntentsStay
  <2>1. intents[k].status # "absent"
    BY <1>4 DEF BindHook, TokenChecked
  <2>2. \/ UNCHANGED intents
        \/ intents' = [intents EXCEPT ![k].status = IF Open(k) THEN "bound" ELSE @]
    BY <1>4 DEF BindHook
  <2>3. CASE Open(k) /\ intents' = [intents EXCEPT ![k].status = IF Open(k) THEN "bound" ELSE @]
    BY <2>1, <2>3, StatusStays
  <2>4. CASE ~Open(k) /\ intents' = [intents EXCEPT ![k].status = IF Open(k) THEN "bound" ELSE @]
    <3>1. intents[k].status \in {"pending", "launched", "bound", "failed"}
      BY <2>1, TypeParts DEF IntentRows
    <3> QED
      BY <2>1, <2>4, <3>1, StatusStays
  <2> QED
    BY <1>1, <2>2, <2>3, <2>4
<1>5. ASSUME NEW k \in Keys, IntentExpires(k) PROVE Intended' /\ IntentsStay
  BY <1>5, StatusStays DEF IntentExpires, Open
<1>6. CASE UNCHANGED intents
  BY <1>1, <1>6
<1> QED
  BY <1>2, <1>3, <1>4, <1>5, <1>6
     DEF Next, vars, Launch, Hooks, Person, Time, Request, Spawn, Await, DriverCrash, CheckToken,
         HookLost, SessionEnd, Observe, StartOutside, Die, Adopt, Close, RemoveFromRestore,
         ObservationExpires

\* What a driver or an intent holds back from spawning, or lets spawn, stays so.
LEMMA LaunchStep ==
  ASSUME TypeOK, Intended, Launching, SpawnsOnce, Intended', IntentsStay, [Next]_vars
  PROVE  Launching' /\ SpawnsOnce'
<1> USE RequestTypes
<1>0. /\ intents \in [Keys -> IntentRows] /\ driver \in [Drivers -> DriverStates]
      /\ spawned \in [Keys -> Nat]
  BY TypeParts
<1>1. ASSUME UNCHANGED <<driver, spawned>> PROVE Launching' /\ SpawnsOnce'
  BY <1>1 DEF Launching, SpawnsOnce, SpawnedOnce, IntentsStay, At
<1>2. ASSUME NEW d \in Drivers, UNCHANGED spawned, driver' = [driver EXCEPT ![d] = driver'[d]],
             ~At(d, "spawn")', driver'[d].pc # "idle" => driver'[d].req \in Requests,
             driver'[d].pc \in {"mark", "await"} => intents[driver'[d].req.key].status # "absent"
      PROVE  Launching' /\ SpawnsOnce'
  <2>1. \A e \in Drivers \ {d} : driver'[e] = driver[e]
    BY <1>0, <1>2
  <2>2. Launching'
    BY <1>2, <2>1 DEF Launching, At, IntentsStay
  <2> QED
    BY <1>2, <2>1, <2>2 DEF SpawnsOnce, SpawnedOnce, IntentsStay, At
<1>3. ASSUME NEW d \in Drivers, Launch(d) PROVE Launching' /\ SpawnsOnce'
  <2>1. ASSUME NEW req \in Requests, Request(d, req) PROVE Launching' /\ SpawnsOnce'
    BY <1>0, <1>2, <2>1 DEF Request, At, DriverStates
  <2>2. CASE Insert(d)
    <3> DEFINE k == driver[d].req.key
    <3>1. driver[d].req \in Requests /\ k \in Keys
      BY <2>2 DEF Insert, Launching, At
    <3>2. CASE Return(d)
      BY <1>0, <1>2, <2>2, <3>2 DEF Insert, Return, At
    <3>3. CASE intents[k].status = "absent" /\ Goto(d, "spawn")
      <4>1. /\ driver'[d].pc = "spawn" /\ driver'[d].req = driver[d].req
            /\ \A e \in Drivers \ {d} : driver'[e] = driver[e]
        BY <1>0, <3>3 DEF Goto, DriverStates
      <4>2. intents'[k].status # "absent" /\ UNCHANGED spawned
        BY <1>0, <2>2, <3>1, <3>3 DEF Insert, Intent
      <4>3. \A e \in Drivers : At(e, "spawn") => driver[e].req.key # k
        BY <3>3 DEF Launching, At
      <4>4. Launching'
        BY <3>1, <4>1, <4>2 DEF Launching, At, IntentsStay
      <4> QED
        BY <3>1, <3>3, <4>1, <4>2, <4>3, <4>4 DEF SpawnsOnce, SpawnedOnce, IntentsStay, At
    <3> QED
      BY <2>2, <3>2, <3>3 DEF Insert
  <2>3. CASE Spawn(d)
    <3> DEFINE k == driver[d].req.key
    <3>1. k \in Keys /\ intents[k].status # "absent" /\ UNCHANGED intents
      BY <2>3 DEF Spawn, Launching, At
    <3>2. /\ driver'[d].pc = "mark" /\ driver'[d].req = driver[d].req
          /\ \A e \in Drivers \ {d} : driver'[e] = driver[e]
      BY <1>0, <2>3 DEF Spawn, Goto, DriverStates
    <3>3. /\ spawned[k] = 0 /\ spawned'[k] = 1
          /\ \A j \in Keys \ {k} : spawned'[j] = spawned[j]
      BY <1>0, <2>3, <3>1 DEF Spawn, SpawnsOnce
    <3>4. \A e \in Drivers \ {d} : At(e, "spawn") => driver[e].req.key \in Keys \ {k}
      BY <2>3 DEF Spawn, SpawnsOnce, Launching, At
    <3>5. Launching'
      <4> SUFFICES ASSUME NEW e \in Drivers
                   PROVE  /\ driver'[e].pc # "idle" => driver'[e].req \in Requests
                          /\ driver'[e].pc \in {"spawn", "mark", "await"} =>
                               intents'[driver'[e].req.key].status # "absent"
        BY DEF Launching, At
      <4>1. CASE e = d
        BY <2>3, <3>1, <3>2, <4>1 DEF Launching, At, Spawn
      <4>2. CASE e # d
        BY <3>1, <3>2, <4>2 DEF Launching, At
      <4> QED
        BY <4>1, <4>2
    <3> QED
      BY <3>1, <3>2, <3>3, <3>4, <3>5 DEF SpawnsOnce, SpawnedOnce, At
  <2>4. CASE SpawnFails(d) \/ MarkLaunched(d) \/ Await(d) \/ DriverCrash(d)
    <3>1. CASE Return(d)
      BY <1>0, <1>2, <2>4, <3>1
         DEF SpawnFails, MarkLaunched, Await, DriverCrash, Return, At
    <3>2. CASE MarkLaunched(d) /\ Goto(d, "await")
      <4>1. driver'[d].pc = "await" /\ driver'[d].req = driver[d].req /\ UNCHANGED spawned
        BY <1>0, <3>2 DEF MarkLaunched, Goto, DriverStates
      <4>2. driver' = [driver EXCEPT ![d] = driver'[d]]
        BY <1>0, <3>2 DEF Goto, DriverStates
      <4> QED
        BY <1>2, <3>2, <4>1, <4>2 DEF MarkLaunched, Launching, At
    <3> QED
      BY <2>4, <3>1, <3>2 DEF SpawnFails, MarkLaunched, Await, DriverCrash
  <2> QED
    BY <1>3, <2>1, <2>2, <2>3, <2>4 DEF Launch
<1>4. CASE UNCHANGED <<driver, spawned>>
  BY <1>1, <1>4
<1> QED
  BY <1>3, <1>4
     DEF Next, vars, Hooks, Person, Time, CheckToken, BindHook, HookLost, SessionEnd, Observe,
         StartOutside, Die, Adopt, Close, RemoveFromRestore, IntentExpires, ObservationExpires

\* A token that was checked stays checked until its hook is handled.
LEMMA TokenStep ==
  ASSUME TypeOK, Intended, Launching, TokenChecked, IntentsStay, [Next]_vars
  PROVE  TokenChecked'
<1> USE RequestTypes
<1>0. /\ starting \in [DOMAIN starting -> {"sent", "checked"}] /\ DOMAIN starting \subseteq running
      /\ running \subseteq Sessions \X (Keys \cup {"none"}) /\ started \subseteq Sessions
  BY TypeParts
<1>1. ASSUME \A pair \in DOMAIN starting' :
               starting'[pair] = "checked" => pair \in DOMAIN starting /\ starting[pair] = "checked"
      PROVE  TokenChecked'
  BY <1>1 DEF TokenChecked, IntentsStay, ExpectedNative
<1>2. ASSUME NEW pair, Done(pair) PROVE TokenChecked'
  BY <1>0, <1>1, <1>2, DoneTypes
<1>3. ASSUME NEW s \in Sessions, NEW k \in Keys \cup {"none"}, StartProcess(s, k)
      PROVE  TokenChecked'
  BY <1>0, <1>1, <1>3, StartTypes
<1>4. ASSUME NEW s \in Sessions, NEW k \in Keys, CheckToken(s, k) PROVE TokenChecked'
  <2>1. CASE Done(<<s, k>>)
    BY <1>2, <2>1
  <2>2. CASE /\ Open(k) /\ ExpectedNative(intents[k].req, s)
             /\ starting' = [starting EXCEPT ![<<s, k>>] = "checked"]
    <3>1. \A t \in Sessions, j \in Keys :
            <<t, j>> \in DOMAIN starting' /\ starting'[<<t, j>>] = "checked" =>
              (t = s /\ j = k) \/ (<<t, j>> \in DOMAIN starting /\ starting[<<t, j>>] = "checked")
      BY <1>0, <2>2
    <3> QED
      BY <2>2, <3>1 DEF TokenChecked, IntentsStay, ExpectedNative, Open
  <2> QED
    BY <1>4, <2>1, <2>2 DEF CheckToken
<1>5. ASSUME NEW d \in Drivers, Spawn(d) PROVE TokenChecked'
  <2>1. driver[d].req.key \in Keys /\ driver[d].req.mode \in Sessions \cup {"new"}
    BY <1>5 DEF Spawn, Launching, At
  <2>2. CASE UNCHANGED world
    BY <1>1, <2>2 DEF world
  <2> QED
    BY <1>3, <1>5, <2>1, <2>2, NamesAssumption DEF Spawn
<1>6. ASSUME NEW s \in Sessions, NEW k \in Keys \cup {"none"}, StartOutside(s, k)
      PROVE  TokenChecked'
  BY <1>3, <1>6 DEF StartOutside
<1>7. ASSUME NEW s \in Sessions, NEW k \in Keys \cup {"none"},
             BindHook(s, k) \/ HookLost(s, k) \/ Observe(s)
      PROVE  TokenChecked'
  BY <1>2, <1>7 DEF BindHook, HookLost, Observe
<1>8. CASE UNCHANGED starting
  BY <1>1, <1>8
<1> QED
  BY <1>4, <1>5, <1>6, <1>7, <1>8
     DEF Next, vars, world, Launch, Hooks, Person, Time, Request, Insert, SpawnFails, MarkLaunched,
         Await, DriverCrash, SessionEnd, Die, Adopt, Close, RemoveFromRestore, IntentExpires,
         ObservationExpires

-----------------------------------------------------------------------------
(* The rows of the sessions.                                               *)

\* A launch binds the session it expects to the owner and the checkout it has.
BindsAsIntended(s, owner, c, k) ==
  k # "none" =>
    /\ intents[k].status # "absent"
    /\ ExpectedNative(intents[k].req, s)
    /\ intents[k].req.owner = owner /\ intents[k].req.checkout = c

\* What a step may do to the rows.
RowsMove ==
  \/ /\ UNCHANGED <<managed, past, association, membership, reservation>>
     /\ restore' \subseteq restore
  \/ \E s \in Sessions, owner \in Owners, c \in Checkouts, k \in Keys \cup {"none"},
        status \in {"bound", "adopted"} :
       Bind(s, owner, c, k, status) /\ BindsAsIntended(s, owner, c, k)
  \/ \E s \in Sessions : Retire(s) /\ UNCHANGED <<past, reservation>>

\* A step does no more.
LEMMA RowsStep ==
  ASSUME TypeOK, Intended, TokenChecked, [Next]_vars
  PROVE  RowsMove
<1> USE RequestTypes
<1>1. ASSUME NEW s \in Sessions, NEW k \in Keys, BindHook(s, k) PROVE RowsMove
  <2> DEFINE req == intents[k].req
  <2>1. /\ intents[k].status # "absent" /\ ExpectedNative(req, s)
        /\ req \in Requests /\ req.owner \in Owners /\ req.checkout \in Checkouts
    BY <1>1 DEF BindHook, TokenChecked, Intended
  <2>2. CASE Bind(s, req.owner, req.checkout, k, "bound")
    <3>1. BindsAsIntended(s, req.owner, req.checkout, k)
      BY <2>1 DEF BindsAsIntended
    <3> QED
      BY <2>1, <2>2, <3>1 DEF RowsMove
  <2>3. CASE UNCHANGED rows
    BY <2>3 DEF rows, RowsMove
  <2> QED
    BY <1>1, <2>2, <2>3 DEF BindHook
<1>2. ASSUME NEW s \in Sessions, NEW pair \in ItemCheckouts, Adopt(s, pair[1], pair[2])
      PROVE  RowsMove
  <2>1. Bind(s, pair[1], pair[2], "none", "adopted")
    BY <1>2 DEF Adopt
  <2>2. BindsAsIntended(s, pair[1], pair[2], "none")
    BY DEF BindsAsIntended
  <2>3. pair[1] \in Owners /\ pair[2] \in Checkouts
    OBVIOUS
  <2> QED
    BY <2>1, <2>2, <2>3 DEF RowsMove
<1>3. ASSUME NEW s \in Sessions, NEW k \in Keys \cup {"none"}, SessionEnd(s, k) PROVE RowsMove
  BY <1>3 DEF SessionEnd, rows, RowsMove
<1>4. ASSUME NEW s \in Sessions, Close(s) \/ RemoveFromRestore(s) \/ Observe(s) PROVE RowsMove
  BY <1>4 DEF Close, RemoveFromRestore, Observe, RowsMove
<1>5. ASSUME NEW s \in Sessions, ObservationExpires(s) PROVE RowsMove
  BY <1>5 DEF ObservationExpires, RowsMove
<1>6. CASE UNCHANGED rows
  BY <1>6 DEF rows, RowsMove
<1> QED
  BY <1>1, <1>2, <1>3, <1>4, <1>5, <1>6
     DEF Next, vars, rows, Launch, Hooks, Person, Time, Request, Insert, Spawn, SpawnFails,
         MarkLaunched, Await, DriverCrash, CheckToken, HookLost, StartOutside, Die, IntentExpires

\* What a binding leaves of the rows.
LEMMA BoundRow ==
  ASSUME TypeOK, NEW s \in Sessions, NEW owner \in Owners, NEW c \in Checkouts,
         NEW k \in Keys \cup {"none"}, NEW status \in {"bound", "adopted"},
         Bind(s, owner, c, k, status)
  PROVE  /\ managed'[s].current /\ managed'[s].intent = k /\ managed'[s].checkout = c
         /\ association'[s] = owner
         /\ \A t \in Sessions \ {s} :
              managed'[t] = managed[t] /\ association'[t] = association[t]
         /\ membership' = membership \cup {s} /\ restore' = restore \cup {s}
<1>1. managed \in [Sessions -> ManagedRows] /\ association \in [Sessions -> Owners \cup {"none"}]
  BY TypeParts
<1>2. /\ managed'[s].current /\ managed'[s].intent = k /\ managed'[s].checkout = c
      /\ \A t \in Sessions \ {s} : managed'[t] = managed[t]
  BY <1>1 DEF Bind
<1>3. association[s] \in {"none", owner}
  BY DEF Bind, MayBind
<1>4. /\ association'[s] = owner
      /\ \A t \in Sessions \ {s} : association'[t] = association[t]
  BY <1>1, <1>3 DEF Bind
<1> QED
  BY <1>2, <1>4 DEF Bind

\* What a retirement leaves of them.
LEMMA RetiredRow ==
  ASSUME TypeOK, NEW s \in Sessions, Retire(s)
  PROVE  /\ ~managed'[s].current /\ managed'[s].intent = managed[s].intent
         /\ managed'[s].checkout = managed[s].checkout
         /\ managed'[s].generation = managed[s].generation
         /\ association'[s] = "none"
         /\ \A t \in Sessions \ {s} :
              managed'[t] = managed[t] /\ association'[t] = association[t]
         /\ membership' = membership \ {s} /\ restore' = restore \ {s}
<1>1. managed \in [Sessions -> ManagedRows] /\ association \in [Sessions -> Owners \cup {"none"}]
  BY TypeParts
<1>2. managed'[s] = [managed[s] EXCEPT !.current = FALSE, !.status = "stopped"]
  BY <1>1 DEF Retire
<1>3. managed[s] \in ManagedRows
  BY <1>1
<1>4. /\ ~managed'[s].current /\ managed'[s].intent = managed[s].intent
      /\ managed'[s].checkout = managed[s].checkout
      /\ managed'[s].generation = managed[s].generation
  BY <1>2, <1>3 DEF ManagedRows
<1>5. \A t \in Sessions \ {s} : managed'[t] = managed[t]
  BY <1>1 DEF Retire
<1> QED
  BY <1>1, <1>4, <1>5 DEF Retire

\* A row refers to one that exists.
LEMMA RowsIntendedStep ==
  ASSUME TypeOK, RowsIntended, IntentsStay, RowsMove
  PROVE  RowsIntended'
<1>0. \A s \in Sessions : managed[s].intent \in Keys \cup {"none"}
  BY TypeParts DEF ManagedRows
<1>1. CASE UNCHANGED managed
  BY <1>0, <1>1 DEF RowsIntended, IntentsStay
<1>2. ASSUME NEW s \in Sessions, NEW owner \in Owners, NEW c \in Checkouts,
             NEW k \in Keys \cup {"none"}, NEW status \in {"bound", "adopted"},
             Bind(s, owner, c, k, status), BindsAsIntended(s, owner, c, k)
      PROVE  RowsIntended'
  <2>1. /\ managed'[s].intent = k
        /\ \A t \in Sessions \ {s} : managed'[t] = managed[t]
    BY <1>2, BoundRow
  <2> QED
    BY <1>0, <1>2, <2>1 DEF RowsIntended, IntentsStay, BindsAsIntended
<1>3. ASSUME NEW s \in Sessions, Retire(s) PROVE RowsIntended'
  <2>1. \A t \in Sessions : managed'[t].intent = managed[t].intent
    BY <1>3, RetiredRow
  <2> QED
    BY <1>0, <2>1 DEF RowsIntended, IntentsStay
<1> QED
  BY <1>1, <1>2, <1>3 DEF RowsMove

\* Binding and retiring write the row, the association and the two sets together.
LEMMA ParityStep ==
  ASSUME TypeOK, BindingParity, RowsMove
  PROVE  BindingParity'
<1> USE RequestTypes
<1>1. CASE /\ UNCHANGED <<managed, past, association, membership, reservation>>
           /\ restore' \subseteq restore
  BY <1>1 DEF BindingParity
<1>2. ASSUME NEW s \in Sessions, NEW owner \in Owners, NEW c \in Checkouts,
             NEW k \in Keys \cup {"none"}, NEW status \in {"bound", "adopted"},
             Bind(s, owner, c, k, status)
      PROVE  BindingParity'
  <2>1. /\ managed'[s].current /\ association'[s] # "none"
        /\ \A t \in Sessions \ {s} :
             managed'[t] = managed[t] /\ association'[t] = association[t]
        /\ membership' = membership \cup {s} /\ restore' = restore \cup {s}
    BY <1>2, BoundRow
  <2> QED
    BY <2>1 DEF BindingParity
<1>3. ASSUME NEW s \in Sessions, Retire(s) PROVE BindingParity'
  <2>1. /\ ~managed'[s].current /\ association'[s] = "none"
        /\ \A t \in Sessions \ {s} :
             managed'[t] = managed[t] /\ association'[t] = association[t]
        /\ membership' = membership \ {s} /\ restore' = restore \ {s}
    BY <1>3, RetiredRow
  <2> QED
    BY <2>1 DEF BindingParity
<1> QED
  BY <1>1, <1>2, <1>3 DEF RowsMove

\* The owner and the checkout of a row remain those of its intent.
LEMMA AuthorityStep ==
  ASSUME TypeOK, RowsIntended, AuthorityMatches, IntentsStay, RowsMove
  PROVE  AuthorityMatches'
<1>0. \A s \in Sessions :
        managed[s].intent # "none" =>
          /\ managed[s].intent \in Keys
          /\ intents'[managed[s].intent].req = intents[managed[s].intent].req
  BY TypeParts DEF ManagedRows, RowsIntended, IntentsStay
<1>1. CASE UNCHANGED <<managed, association>>
  BY <1>0, <1>1 DEF AuthorityMatches
<1>2. ASSUME NEW s \in Sessions, NEW owner \in Owners, NEW c \in Checkouts,
             NEW k \in Keys \cup {"none"}, NEW status \in {"bound", "adopted"},
             Bind(s, owner, c, k, status), BindsAsIntended(s, owner, c, k)
      PROVE  AuthorityMatches'
  <2>1. /\ managed'[s].intent = k /\ managed'[s].checkout = c /\ association'[s] = owner
        /\ \A t \in Sessions \ {s} :
             managed'[t] = managed[t] /\ association'[t] = association[t]
    BY <1>2, BoundRow
  <2>2. k # "none" => intents'[k].req.owner = owner /\ intents'[k].req.checkout = c
    BY <1>2 DEF BindsAsIntended, IntentsStay
  <2> QED
    BY <1>0, <2>1, <2>2 DEF AuthorityMatches
<1>3. ASSUME NEW s \in Sessions, Retire(s) PROVE AuthorityMatches'
  <2>1. /\ ~managed'[s].current
        /\ \A t \in Sessions \ {s} :
             managed'[t] = managed[t] /\ association'[t] = association[t]
    BY <1>3, RetiredRow
  <2> QED
    BY <1>0, <2>1 DEF AuthorityMatches
<1> QED
  BY <1>1, <1>2, <1>3 DEF RowsMove

\* An intent that a row refers to, or referred to, binds no other session.
LEMMA ExactStep ==
  ASSUME TypeOK, RowsIntended, ExactBinding, IntentsStay, RowsMove
  PROVE  ExactBinding'
<1>0. \A s \in Sessions :
        managed[s].intent # "none" =>
          /\ managed[s].intent \in Keys
          /\ intents'[managed[s].intent].req = intents[managed[s].intent].req
  BY TypeParts DEF ManagedRows, RowsIntended, IntentsStay
<1>1. ASSUME \A t \in Sessions : managed'[t].intent = managed[t].intent, UNCHANGED past
      PROVE  ExactBinding'
  BY <1>0, <1>1 DEF ExactBinding
<1>2. ASSUME NEW s \in Sessions, NEW owner \in Owners, NEW c \in Checkouts,
             NEW k \in Keys \cup {"none"}, NEW status \in {"bound", "adopted"},
             Bind(s, owner, c, k, status), BindsAsIntended(s, owner, c, k)
      PROVE  ExactBinding'
  <2>1. /\ managed'[s].intent = k
        /\ \A t \in Sessions \ {s} : managed'[t] = managed[t]
    BY <1>2, BoundRow
  <2>2. k # "none" => intents'[k].req.mode \in {"new", s}
    BY <1>2 DEF BindsAsIntended, IntentsStay, ExpectedNative
  <2>3. /\ past \subseteq past' /\ past' \subseteq past \cup {managed[s].intent}
        /\ managed[s].intent \in past' => managed[s].intent \in past \/ ~managed[s].current
    BY <1>2 DEF Bind
  <2>4. k # "none" =>
          /\ k \notin past
          /\ \A t \in Sessions : managed[t].intent = k => t = s /\ managed[s].current
    BY <1>2 DEF Bind, MayBind, Referenced
  <2>5. k # "none" => k \notin past'
    BY <2>3, <2>4
  <2>6. ASSUME NEW t \in Sessions \ {s}, managed[t].intent # "none"
        PROVE  /\ managed[t].intent \notin past'
               /\ intents'[managed[t].intent].req.mode \in {"new", t}
               /\ managed[t].intent # k
               /\ \A u \in Sessions \ {t} : managed[u].intent # managed[t].intent
    <3>1. /\ managed[t].intent \notin past
          /\ \A u \in Sessions \ {t} : managed[u].intent # managed[t].intent
          /\ intents[managed[t].intent].req.mode \in {"new", t}
      BY <2>6 DEF ExactBinding
    <3>2. managed[t].intent # managed[s].intent
      BY <3>1
    <3>3. managed[t].intent # k
      BY <2>4, <2>6
    <3> QED
      BY <1>0, <2>3, <2>6, <3>1, <3>2, <3>3
  <2>7. ASSUME NEW t \in Sessions, managed'[t].intent # "none"
        PROVE  /\ intents'[managed'[t].intent].req.mode \in {"new", t}
               /\ managed'[t].intent \notin past'
               /\ \A u \in Sessions \ {t} : managed'[u].intent # managed'[t].intent
    <3>1. CASE t = s
      <4>1. \A u \in Sessions \ {s} : managed[u].intent # k
        BY <2>1, <2>4, <2>7, <3>1
      <4> QED
        BY <2>1, <2>2, <2>5, <2>7, <3>1, <4>1
    <3>2. CASE t # s
      <4>1. managed'[t] = managed[t] /\ t \in Sessions \ {s}
        BY <2>1, <3>2
      <4> QED
        BY <2>1, <2>6, <2>7, <4>1
    <3> QED
      BY <3>1, <3>2
  <2> QED
    BY <2>7 DEF ExactBinding
<1>3. ASSUME NEW s \in Sessions, Retire(s), UNCHANGED past PROVE ExactBinding'
  <2>1. \A t \in Sessions : managed'[t].intent = managed[t].intent
    BY <1>3, RetiredRow
  <2> QED
    BY <1>1, <1>3, <2>1
<1> QED
  BY <1>1, <1>2, <1>3 DEF RowsMove

\* The first session to bind to a writer checkout keeps others out of it.
LEMMA ReservedStep ==
  ASSUME TypeOK, WritersReserved, RowsMove
  PROVE  WritersReserved'
<1> USE RequestTypes
<1>1. CASE UNCHANGED <<managed, reservation>>
  BY <1>1 DEF WritersReserved
<1>2. ASSUME NEW s \in Sessions, NEW owner \in Owners, NEW c \in Checkouts,
             NEW k \in Keys \cup {"none"}, NEW status \in {"bound", "adopted"},
             Bind(s, owner, c, k, status)
      PROVE  WritersReserved'
  <2>1. /\ managed'[s].checkout = c
        /\ \A t \in Sessions \ {s} : managed'[t] = managed[t]
    BY <1>2, BoundRow
  <2>2. \A w \in WriterCheckouts : reservation'[w] = IF w = c THEN s ELSE reservation[w]
    BY <1>2 DEF Bind
  <2>3. c \in WriterCheckouts => reservation[c] \in {"none", s}
    BY <1>2 DEF Bind, MayBind, Reserved
  <2>4. ASSUME NEW t \in Sessions \ {s}, managed[t].generation > 0,
               managed[t].checkout \in WriterCheckouts
        PROVE  reservation'[managed[t].checkout] = t
    <3>1. reservation[managed[t].checkout] = t
      BY <2>4 DEF WritersReserved
    <3>2. managed[t].checkout # c
      BY <2>3, <2>4, <3>1
    <3> QED
      BY <2>2, <2>4, <3>1, <3>2
  <2> QED
    BY <2>1, <2>2, <2>4 DEF WritersReserved
<1>3. ASSUME NEW s \in Sessions, Retire(s), UNCHANGED reservation PROVE WritersReserved'
  <2>1. \A t \in Sessions : /\ managed'[t].checkout = managed[t].checkout
                            /\ managed'[t].generation = managed[t].generation
    BY <1>3, RetiredRow
  <2> QED
    BY <1>3, <2>1 DEF WritersReserved
<1> QED
  BY <1>1, <1>2, <1>3 DEF RowsMove

-----------------------------------------------------------------------------
(* The theorems.                                                           *)

\* Every step keeps the inductive invariant, and the intents that exist.
LEMMA LaunchInvStep ==
  ASSUME LaunchInv, [Next]_vars
  PROVE  LaunchInv' /\ RowsMove
<1> USE DEF LaunchInv, Launched, Bindings
<1>1. TypeOK'
  BY TypeStep
<1>2. Intended' /\ IntentsStay
  BY IntentStep
<1>3. Launching' /\ SpawnsOnce'
  BY <1>2, LaunchStep
<1>4. TokenChecked'
  BY <1>2, TokenStep
<1>5. RowsMove
  BY RowsStep
<1>6. RowsIntended' /\ BindingParity' /\ AuthorityMatches' /\ ExactBinding' /\ WritersReserved'
  BY <1>2, <1>5, RowsIntendedStep, ParityStep, AuthorityStep, ExactStep, ReservedStep
<1> QED
  BY <1>1, <1>2, <1>3, <1>4, <1>5, <1>6

\* The invariant holds in every state of every behaviour.
THEOREM Inductive == Spec => []LaunchInv
<1>1. LaunchInv /\ [Next]_vars => LaunchInv'
  BY LaunchInvStep
<1> QED
  BY InitLaunch, <1>1, PTL DEF Spec

\* Every variable has its type.
THEOREM Types == Spec => []TypeOK
<1>1. LaunchInv => TypeOK
  BY DEF LaunchInv, Launched
<1> QED
  BY Inductive, <1>1, PTL

\* A session is managed, associated and a member of the restore set together.
THEOREM Parity == Spec => []BindingParity
<1>1. LaunchInv => BindingParity
  BY DEF LaunchInv, Bindings
<1> QED
  BY Inductive, <1>1, PTL

\* A session that a launch bound has the owner and the checkout it was launched for.
THEOREM Authority == Spec => []AuthorityMatches
<1>1. LaunchInv => AuthorityMatches
  BY DEF LaunchInv, Bindings
<1> QED
  BY Inductive, <1>1, PTL

\* A launch binds one session, the one it expects.
THEOREM Exact == Spec => []ExactBinding
<1>1. LaunchInv => ExactBinding
  BY DEF LaunchInv, Bindings
<1> QED
  BY Inductive, <1>1, PTL

\* A checkout of one writer has one session, whoever launches or adopts.
THEOREM Exclusive == Spec => []WriterCheckoutExclusive
<1>1. LaunchInv => WriterCheckoutExclusive
  BY DEF LaunchInv, Bindings, WritersReserved, WriterCheckoutExclusive
<1> QED
  BY Inductive, <1>1, PTL

\* A launch is spawned at most once, whoever retries it.
THEOREM Once == Spec => []SpawnedOnce
<1>1. LaunchInv => SpawnedOnce
  BY DEF LaunchInv, Launched, SpawnsOnce
<1> QED
  BY Inductive, <1>1, PTL

\* The generation of a binding grows when another launch or checkout takes it over.
TakeoverStep ==
  \A s \in Sessions :
    managed[s].current /\ managed'[s].current
      /\ (managed'[s].intent # managed[s].intent \/ managed'[s].checkout # managed[s].checkout)
    => managed'[s].generation > managed[s].generation

\* Whoever holds the generation of a binding sees that it was taken over.
THEOREM TakeoverSeen == Spec => TakeoverIsSeen
<1>1. LaunchInv /\ [Next]_vars => [TakeoverStep]_vars
  <2> SUFFICES ASSUME LaunchInv, [Next]_vars PROVE TakeoverStep
    OBVIOUS
  <2>1. TypeOK /\ RowsMove
    BY LaunchInvStep DEF LaunchInv, Launched
  <2>2. CASE UNCHANGED managed
    BY <2>2 DEF TakeoverStep
  <2>3. ASSUME NEW s \in Sessions, NEW owner \in Owners, NEW c \in Checkouts,
               NEW k \in Keys \cup {"none"}, NEW status \in {"bound", "adopted"},
               Bind(s, owner, c, k, status)
        PROVE  TakeoverStep
    <3>1. \A t \in Sessions \ {s} : managed'[t] = managed[t]
      BY <2>1, <2>3, BoundRow
    <3>2. managed \in [Sessions -> ManagedRows] /\ managed[s].generation \in Nat
      BY <2>1, TypeParts DEF ManagedRows
    <3>3. managed[s].current => managed'[s].generation = managed[s].generation + 1
      BY <2>3, <3>2 DEF Bind, NextGeneration
    <3> QED
      BY <3>1, <3>2, <3>3 DEF TakeoverStep
  <2>4. ASSUME NEW s \in Sessions, Retire(s) PROVE TakeoverStep
    <3>1. ~managed'[s].current /\ \A t \in Sessions \ {s} : managed'[t] = managed[t]
      BY <2>1, <2>4, RetiredRow
    <3> QED
      BY <3>1 DEF TakeoverStep
  <2> QED
    BY <2>1, <2>2, <2>3, <2>4 DEF RowsMove
<1> QED
  BY Inductive, <1>1, PTL DEF Spec, TakeoverIsSeen, TakeoverStep

=============================================================================
