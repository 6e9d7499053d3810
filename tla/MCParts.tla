------------------------------ MODULE MCParts ------------------------------
(***************************************************************************)
(* The parts that share no state with each other, checked in one run: a    *)
(* behaviour picks one part and is a behaviour of that part.               *)
(***************************************************************************)
EXTENDS EventStream, Surfaces, InputGate, RecordStore, McpGateway, Commands, CoreLifecycle,
        NetworkProbe, SystemProbe

VARIABLE part

PartVars == <<vars, surfaceVars, gateVars, recordVars, mcpVars, commandVars, coreVars, netVars, sysVars>>

\* Parts with several initial states start in one of them only where they run.
PartsInit ==
  /\ part \in {"stream", "surfaces", "gate", "record", "mcp", "commands", "core", "network", "system"}
  /\ Init /\ SurfaceInit /\ GateInit /\ RecordInit /\ McpInit /\ CommandInit /\ CoreInit
  /\ NetInit /\ SysInit
  /\ part # "record" => disk = Nothing
  /\ part # "mcp" => file = [n \in Name |-> Absent]

StreamStep ==
  /\ part = "stream" /\ Next
  /\ UNCHANGED <<part, surfaceVars, gateVars, recordVars, mcpVars, commandVars, coreVars, netVars, sysVars>>

SurfaceStep ==
  /\ part = "surfaces" /\ SurfaceNext
  /\ UNCHANGED <<part, vars, gateVars, recordVars, mcpVars, commandVars, coreVars, netVars, sysVars>>

GateStep ==
  /\ part = "gate" /\ GateNext
  /\ UNCHANGED <<part, vars, surfaceVars, recordVars, mcpVars, commandVars, coreVars, netVars, sysVars>>

RecordStep ==
  /\ part = "record" /\ RecordNext
  /\ UNCHANGED <<part, vars, surfaceVars, gateVars, mcpVars, commandVars, coreVars, netVars, sysVars>>

McpStep ==
  /\ part = "mcp" /\ McpNext
  /\ UNCHANGED <<part, vars, surfaceVars, gateVars, recordVars, commandVars, coreVars, netVars, sysVars>>

CommandStep ==
  /\ part = "commands" /\ CommandNext
  /\ UNCHANGED <<part, vars, surfaceVars, gateVars, recordVars, mcpVars, coreVars, netVars, sysVars>>

CoreStep ==
  /\ part = "core" /\ CoreNext
  /\ UNCHANGED <<part, vars, surfaceVars, gateVars, recordVars, mcpVars, commandVars, netVars, sysVars>>

NetworkStep ==
  /\ part = "network" /\ NetNext
  /\ UNCHANGED <<part, vars, surfaceVars, gateVars, recordVars, mcpVars, commandVars, coreVars, sysVars>>

SystemStep ==
  /\ part = "system" /\ SysNext
  /\ UNCHANGED <<part, vars, surfaceVars, gateVars, recordVars, mcpVars, commandVars, coreVars, netVars>>

PartsNext ==
  \/ StreamStep \/ SurfaceStep \/ GateStep \/ RecordStep \/ McpStep \/ CommandStep
  \/ CoreStep \/ NetworkStep \/ SystemStep

\* EventStream's fairness, where it is the stream that runs.
StreamFairness ==
  /\ WF_vars(part = "stream" /\ Connect) /\ WF_vars(part = "stream" /\ Hello)
  /\ WF_vars(part = "stream" /\ Snapshot) /\ WF_vars(part = "stream" /\ Replay)
  /\ WF_vars(part = "stream" /\ Forward) /\ WF_vars(part = "stream" /\ MonitorCloses)

PartsSpec == PartsInit /\ [][PartsNext]_<<part, PartVars>> /\ StreamFairness

\* The books of the two services that announce what they counted: the archive's
\* counters, watermark and retention describe its rows, and what the network
\* service announces, and the verdict a prompt gets, agree with its samples.
BooksAreTrue == ArchiveIsSound /\ NewsIsNew

\* Once nothing breaks any more, the desktop holds everything the core said that
\* no bound dropped: the gateway's tasks and the desktop's dialling get there.
StreamCatchesUp == part = "stream" => CatchesUp
=============================================================================
