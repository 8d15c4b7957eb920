------------------------------ MODULE MCClients ------------------------------
(***************************************************************************)
(* TLC instance of the clients that need no login: the program uses one of *)
(* the getwork client and the simulation client.                           *)
(***************************************************************************)
EXTENDS GetworkClient, SimulateClient

VARIABLE client   \* the one that the scheme of the definition selects

MCInit == client \in {"getwork", "simulation"} /\ Init /\ SimInit

MCNext ==
  \/ client = "getwork" /\ Next /\ UNCHANGED <<simVars, client>>
  \/ client = "simulation" /\ SimNext /\ UNCHANGED <<vars, client>>

MCSpec ==
  /\ MCInit /\ [][MCNext]_<<vars, simVars, client>>
  /\ client = "getwork" => Fairness
  /\ client = "simulation" => SimFairness

\* The simulation client implements what the manager relies on, with three
\* threads in it: the manager is told once, and the client it replaces is
\* really gone, its thread joined (SimulateClient::workLoop, ~Worker).
SimulationKeepsLifecycle == SimClient!Spec
=============================================================================
