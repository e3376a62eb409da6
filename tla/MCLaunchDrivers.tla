--------------------------- MODULE MCLaunchDrivers ---------------------------
(***************************************************************************)
(* The drivers of the launches of sessions, in one run of TLC: the first   *)
(* state chooses whether a batch is launched, the working set recovered,   *)
(* sessions are requested by a session, or the transcripts read that a     *)
(* session is resumed from, and each has bounds of its own.  Variables of  *)
(* one name are shared, the others of the drivers that do not run stay as  *)
(* they are.                                                               *)
(***************************************************************************)
EXTENDS Naturals, Sequences, FiniteSets, TLC

CONSTANTS Commands, MaxFailures,
          Size, MaxBatchCalls,
          Sessions, Exclusive, Attempts, MaxRecoveries, MaxActs,
          Keys, Repositories, Home, MaxRequestCalls,
          Providers, MaxRecords, MaxLines, MaxWrites, MaxReads

\* A batch has children, and sessions are numbered in the order of the preview.
ASSUME DriversAssumption ==
  /\ Size \in Nat \ {0}
  /\ Sessions \subseteq Nat /\ Exclusive \subseteq Sessions
  /\ Home \in Repositories

VARIABLES driver, batch, child, session, taken,
          restore, managed, live, sources, checkout, attempt, outcome, acts,
          request, intents, spawned, command, invocations, failures,
          provider, transcript, held, read, overlooked, reader, alone, fresh, writes, reads

Batch == INSTANCE BatchLaunch WITH
  MaxCalls <- MaxBatchCalls, calls <- invocations, MaxFaults <- MaxFailures, faults <- failures
Recover == INSTANCE Recovery WITH
  MaxCalls <- MaxRecoveries, calls <- invocations, MaxFaults <- 1, faults <- failures
Ask == INSTANCE SessionRequests WITH
  MaxCalls <- MaxRequestCalls, calls <- invocations, MaxActs <- 1, MaxFaults <- MaxFailures,
  faults <- failures

\* The own root of a provider and that of a bundle; lines of two conversations, of a helper
\* of one, of nobody, and of what is no record.
TwoRoots == <<{"own"}, {"bundle"}>>
Line(id, helper, text) == [id |-> id, helper |-> helper, text |-> text]
FiveLines == {Line("n1", FALSE, "a"), Line("n2", FALSE, "a"), Line("none", FALSE, "b"),
              Line("n1", TRUE, "b"), Line("none", FALSE, "invalid")}
Transcripts == INSTANCE NativeSources WITH Roots <- TwoRoots, Lines <- FiveLines,
                                           Readers <- Commands, file <- transcript

ofBatch == <<batch, child, session, taken>>
ofRecovery == <<restore, live, attempt, outcome>>
ofSessions == <<managed, checkout, acts>>
ofLaunches == <<intents, spawned, command, invocations, failures>>
ofTranscripts ==
  <<provider, transcript, held, read, overlooked, reader, alone, fresh, writes, reads>>
driversVars == <<driver, ofBatch, ofRecovery, ofSessions, request, ofLaunches, ofTranscripts>>

Unused == "unused"

NoBatch == batch = Unused /\ child = Unused /\ session = Unused /\ taken = Unused
NoRecovery == restore = Unused /\ live = Unused /\ attempt = Unused /\ outcome = Unused
NoSessions == managed = Unused /\ checkout = Unused /\ acts = Unused
NoLaunches ==
  /\ intents = Unused /\ spawned = Unused /\ command = Unused
  /\ invocations = Unused /\ failures = Unused
NoTranscripts ==
  /\ provider = Unused /\ transcript = Unused /\ held = Unused /\ read = Unused
  /\ overlooked = Unused /\ reader = Unused /\ alone = Unused
  /\ fresh = Unused /\ writes = Unused /\ reads = Unused

DriversInit ==
  \/ /\ driver = "batch" /\ Batch!Init
     /\ NoRecovery /\ NoSessions /\ request = Unused /\ sources = Unused /\ NoTranscripts
  \/ /\ driver = "recovery" /\ Recover!Init
     /\ NoBatch /\ request = Unused /\ NoTranscripts
  \/ /\ driver = "request" /\ Ask!Init
     /\ NoBatch /\ NoRecovery /\ sources = Unused /\ NoTranscripts
  \/ /\ driver = "transcripts" /\ Transcripts!Init
     /\ NoBatch /\ NoRecovery /\ NoSessions /\ NoLaunches /\ request = Unused

DriversNext ==
  /\ UNCHANGED driver
  /\ \/ /\ driver = "batch" /\ Batch!Next
        /\ UNCHANGED <<ofRecovery, ofSessions, request, sources, ofTranscripts>>
     \/ driver = "recovery" /\ Recover!Next /\ UNCHANGED <<ofBatch, request, ofTranscripts>>
     \/ /\ driver = "request" /\ Ask!Next
        /\ UNCHANGED <<ofBatch, ofRecovery, sources, ofTranscripts>>
     \/ /\ driver = "transcripts" /\ Transcripts!Next
        /\ UNCHANGED <<ofBatch, ofRecovery, ofSessions, ofLaunches, request>>

DriversSpec == DriversInit /\ [][DriversNext]_driversVars

CommandSymmetry == Permutations(Commands)

-----------------------------------------------------------------------------
\* However many commands start, resume, recover and request, and wherever they crash,
\* the terminal of a child, of a launch of an attempt and of a request is spawned once
\* (execute_batch_launches, recover_entry, execute_managed_session_request).
SpawnedOnce ==
  CASE driver = "batch"    -> Batch!SpawnedOnce
    [] driver = "recovery" -> Recover!SpawnedOnce
    [] driver = "request"  -> Ask!SpawnedOnce
    [] driver = "transcripts" -> TRUE

\* The records are true while several commands write them: the batch tells what its
\* children are, and a bound session whose child was marked failed stays within reach of
\* the next reconciliation (update_child, reconcile); what is recorded as restored was
\* bound by the launch of this attempt, and an attempt no crash has touched tells how its
\* sessions ended (record_outcome, finish_attempt); a request is launched and bound when
\* its session is (record_session_launch, record_session_binding); and what a scan has
\* kept and a refresh recorded of a transcript is what is in it (scan_source, refresh).
RecordsAreTrue ==
  CASE driver = "batch"    -> Batch!StatusMatchesChildren /\ Batch!Reconcilable
    [] driver = "recovery" -> Recover!RecordsAreTrue /\ Recover!AttemptsTellOutcomes
    [] driver = "request"  -> Ask!RecordsAreTrue
    [] driver = "transcripts" ->
         Transcripts!ScanningOnIsScanning /\ Transcripts!FreshIsResumable

\* Of NativeSources, by hand.
EveryRootIsPresent == driver = "transcripts" => Transcripts!EveryRootIsPresent
EditsAreSeen == driver = "transcripts" => Transcripts!EditsAreSeen

=============================================================================
