------------------------------ MODULE MCProviders ------------------------------
(***************************************************************************)
(* ProviderIntegration and AppServer, the two ways in which the program    *)
(* meets a provider, in one run of TLC: the first state chooses whether    *)
(* an integration is removed or the app-server called.  What belongs to    *)
(* the other stays as it is.                                               *)
(***************************************************************************)
EXTENDS ProviderIntegration

CONSTANTS Threads, MaxMessages, MaxPages, MaxThreads, Restarts, PageTurns,
          MaxServerCalls, MaxSpoken, MaxTurns

VARIABLES scenario,
          exchange, output, channel, connected, server, inbox, out, accepted, turns, calls, spoken

Server == INSTANCE AppServer WITH call <- exchange

ofServer == <<exchange, output, channel, connected, server, inbox, out, accepted, turns, calls,
              spoken>>
providersVars == <<scenario, vars, ofServer>>

ProvidersInit ==
  /\ scenario \in {"removal", "server"}
  /\ Init /\ (scenario = "server" => file = [f \in Files |-> Nothing])
  /\ Server!Init

ProvidersNext ==
  /\ UNCHANGED scenario
  /\ \/ scenario = "removal" /\ Next /\ UNCHANGED ofServer
     \/ scenario = "server" /\ Server!Next /\ UNCHANGED vars

\* The fairness of AppServer; nothing has to happen in a removal.
ProvidersSpec ==
  /\ ProvidersInit /\ [][ProvidersNext]_providersVars
  /\ WF_providersVars(scenario = "server" /\ Server!Client /\ UNCHANGED <<scenario, vars>>)
  /\ WF_providersVars(scenario = "server" /\ Server!Output /\ UNCHANGED <<scenario, vars>>)

-----------------------------------------------------------------------------
\* A receipt, of a call of the app-server that hands a message over or finds it, is for a
\* message that the provider has accepted (send_follow_up, reconcile_follow_up).
ReceiptsAreTrue == Server!ReceiptsAreTrue

\* Every call of the app-server returns, whatever the server says, and if it is silent,
\* hangs or exits; only the time of writing to a server that does not read is not limited
\* (request, receive and shutdown).
CallsReturn == Server!CallsReturn

\* Of AppServer, by hand.
RejectedIsNotAccepted == Server!RejectedIsNotAccepted
AcceptedIsFound == Server!AcceptedIsFound

=============================================================================
