--------------------------- MODULE LegacySimulation ---------------------------
(***************************************************************************)
(* SimulationEngine.simulate, which the execution worker calls for a built *)
(* graph before it plans: it starts an Anvil node, funds the address, asks *)
(* the node for the gas of every Aave deposit, and stops the node in any   *)
(* case.  The worker runs two jobs at once with one engine, so its field   *)
(* anvilProcess is shared.  A step is the code between two awaits.         *)
(***************************************************************************)
EXTENDS ExecutionPlan

CONSTANTS
  Callers,     \* jobs of the execution worker: 2 in the code
  MaxStarts,   \* bound: nodes started
  MaxNodeFaults    \* bound: nodes that do not come up, or die

VARIABLES
  anvil,       \* this.anvilProcess: a port, or 0
  nextPort,    \* SimulationEngine.nextPort
  alive,       \* nodes running, by their ports
  call,        \* call[c]: [at, port, node, allowed, silent, faulty, shared]
  nodeFaults

simVars == <<anvil, nextPort, alive, call, nodeFaults>>

(* allowed: the address could deposit before the simulation touched it.    *)
(* silent: started with --silent, this node does not say that it listens.  *)
(* faulty, shared: a fault met this call, another call was between its     *)
(* start and its end at the same time (history).                           *)
NoCall == [at |-> "idle", port |-> 0, node |-> 1, allowed |-> FALSE, silent |-> FALSE,
           faulty |-> FALSE, shared |-> FALSE]
Busy   == {c \in Callers : call[c].at \notin {"idle", "done", "failed"}}

SimInit ==
  /\ anvil = 0 /\ nextPort = 1 /\ alive = {} /\ nodeFaults = 0
  /\ call = [c \in Callers |-> NoCall]

At(c, at) == call' = [call EXCEPT ![c].at = at]

(* startAnvil: the field holds the node of the last call that started one. *)
(* It passes --silent and waits for "Listening on" (or eth_chainId) in the *)
(* node's output.  fork-context.ts says that --silent suppresses the line; *)
(* whether it does is the Anvil build's, so either may be the case.        *)
StartAnvil(c) ==
  /\ phase = "built" /\ call[c].at \in {"idle", "done", "failed"} /\ nextPort <= MaxStarts
  /\ anvil' = nextPort /\ nextPort' = nextPort + 1 /\ alive' = alive \cup {nextPort}
  /\ \E allowed, silent \in BOOLEAN :
       call' = [d \in Callers |->
         IF d = c THEN [NoCall EXCEPT !.at = "starting", !.port = nextPort, !.allowed = allowed,
                                      !.silent = silent, !.shared = Busy # {}]
         ELSE IF d \in Busy THEN [call[d] EXCEPT !.shared = TRUE] ELSE call[d]]
  /\ UNCHANGED nodeFaults

(* A node that says that it listens; or none does within thirty seconds,   *)
(* as a silent one never does.  One that was killed exits, which rejects   *)
(* as well.                                                                *)
Ready(c) ==
  /\ call[c].at = "starting"
  /\ At(c, IF call[c].port \in alive /\ ~call[c].silent THEN "funding" ELSE "stopping")
  /\ UNCHANGED <<anvil, nextPort, alive, nodeFaults>>

NotReady(c) ==
  /\ call[c].at = "starting" /\ nodeFaults < MaxNodeFaults
  /\ nodeFaults' = nodeFaults + 1
  /\ call' = [call EXCEPT ![c].at = "stopping", ![c].faulty = TRUE]
  /\ UNCHANGED <<anvil, nextPort, alive>>

NodeDies(p) ==
  /\ p \in alive /\ nodeFaults < MaxNodeFaults
  /\ nodeFaults' = nodeFaults + 1
  /\ alive' = alive \ {p}
  /\ call' = [c \in Callers |-> [call[c] EXCEPT !.faulty = @ \/ call[c].port = p]]
  /\ UNCHANGED <<anvil, nextPort>>

(* fundAddress ignores what the node answers: with --no-mining the         *)
(* transfer stays in the pool.                                             *)
FundAddress(c) ==
  /\ call[c].at = "funding"
  /\ At(c, IF call[c].port \in alive THEN "nodes" ELSE "stopping")
  /\ UNCHANGED <<anvil, nextPort, alive, nodeFaults>>

(* An Aave deposit is estimated without the approval before it having run, *)
(* so it passes where the address could deposit anyway; the other actions  *)
(* pass untried.                                                           *)
Estimates(c) ==
  LET n == kind[order[call[c].node]]
  IN  (n.protocol = "aave-v3" /\ n.action = "supply") => call[c].allowed

SimulateNode(c) ==
  /\ call[c].at = "nodes" /\ call[c].node <= Len(order)
  /\ call' = IF call[c].port \in alive /\ Estimates(c)
             THEN [call EXCEPT ![c].node = @ + 1]
             ELSE [call EXCEPT ![c].at = "stopping"]
  /\ UNCHANGED <<anvil, nextPort, alive, nodeFaults>>

(* The live rate is optional, the gas price after it is not.               *)
ReadRates(c) ==
  /\ call[c].at = "nodes" /\ call[c].node > Len(order)
  /\ At(c, IF call[c].port \in alive THEN "passed" ELSE "stopping")
  /\ UNCHANGED <<anvil, nextPort, alive, nodeFaults>>

StopOnSuccess(c) ==                                              \* mutant
  IF anvil = 0 \/ call[c].at = "stopping" THEN UNCHANGED <<anvil, alive>>
  ELSE alive' = alive \ {anvil} /\ anvil' = 0

(* stopAnvil in the finally of simulate: the node of the field, whoever    *)
(* started it.                                                             *)
StopAnvil(c) ==
  IF anvil = 0 THEN UNCHANGED <<anvil, alive>>
  ELSE alive' = alive \ {anvil} /\ anvil' = 0

End(c) ==
  /\ call[c].at \in {"passed", "stopping"}
  /\ StopAnvil(c)
  /\ call' = [call EXCEPT ![c].at = IF @ = "passed" THEN "done" ELSE "failed"]
  /\ UNCHANGED <<nextPort, nodeFaults>>

SimNext ==
  \/ \E c \in Callers : StartAnvil(c) \/ Ready(c) \/ NotReady(c) \/ FundAddress(c)
                          \/ SimulateNode(c) \/ ReadRates(c) \/ End(c)
  \/ \E p \in alive : NodeDies(p)

-----------------------------------------------------------------------------
(* The engine: a graph is built and assessed, then planned and run, and    *)
(* simulated by jobs at any time after it is built.                        *)

EngineInit == GraphInit /\ PlanInit /\ SimInit

EngineNext ==
  \/ GraphNext /\ UNCHANGED <<planVars, simVars>>
  \/ PlanNext /\ UNCHANGED simVars
  \/ SimNext /\ UNCHANGED <<graphVars, planVars>>

engineVars == <<graphVars, planVars, simVars>>
EngineSpec == EngineInit /\ [][EngineNext]_engineVars

-----------------------------------------------------------------------------
(* Properties *)

(* A call that no other overlapped stops the node it started, however it   *)
(* ended; two that overlap stop one node twice and leave the other.        *)
SoloStopsItsNode ==
  \A c \in Callers :
    (call[c].at \in {"done", "failed"} /\ ~call[c].shared) => call[c].port \notin alive

(* A simulation fails only by a fault, because another shared its engine,  *)
(* because --silent kept its node from saying that it listens (then the    *)
(* call fails whatever else happens: the engine could not simulate at      *)
(* all), or at an Aave deposit that the address could not have made        *)
(* before.                                                                 *)
FailuresExplained ==
  \A c \in Callers :
    call[c].at = "failed" =>
      \/ call[c].faulty \/ call[c].shared \/ call[c].silent
      \/ ~call[c].allowed /\ \E n \in Members(order) :
                                kind[n].protocol = "aave-v3" /\ kind[n].action = "supply"

(* Nodes are stopped and failures explained, but for overlapping calls.    *)
SimulationsSound == SoloStopsItsNode /\ FailuresExplained
=============================================================================
