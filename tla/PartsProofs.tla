----------------------------- MODULE PartsProofs -----------------------------
(***************************************************************************)
(* Theorems about the parts that share no state with each other: the       *)
(* commands of an agent, the core's stop, the input gate, the panels, the  *)
(* tool servers, the two probes and the archive; and of the two books in   *)
(* one behaviour.                                                          *)
(***************************************************************************)
EXTENDS MCParts, FiniteSetTheorems, TLAPS

------------------------------------------------------------------------------
(* The commands.  What an exit has done, and who answers for a process.    *)

\* What the exit has done by each of its stages.
ExitInv ==
  /\ leaving # "jobs" => doomed = {}
  /\ leaving \in {"jobs", "done"} => verb = Idle /\ jobs = {}

CommandInv == CommandTypeOK /\ ExitInv /\ NoCommandOutlivesAgent

LEMMA CommandInitHolds == CommandInit => CommandInv
<1> SUFFICES ASSUME CommandInit PROVE CommandInv
  OBVIOUS
<1>1. CommandTypeOK
  BY DEF CommandInit, CommandTypeOK, Idle, Letting
<1>2. ExitInv
  BY DEF CommandInit, ExitInv
<1>3. NoCommandOutlivesAgent
  BY DEF CommandInit, NoCommandOutlivesAgent, Running
<1> QED
  BY <1>1, <1>2, <1>3 DEF CommandInv

LEMMA CommandTypeStep == CommandInv /\ [CommandNext]_commandVars => CommandTypeOK'
<1> SUFFICES ASSUME CommandTypeOK, [CommandNext]_commandVars PROVE CommandTypeOK'
  BY DEF CommandInv
<1> USE NoCommandAssumption DEF CommandTypeOK, Idle, Killed, Running
<1>1. CASE UNCHANGED commandVars
  BY <1>1 DEF commandVars
<1>2. ASSUME NEW c \in Command, NEW how \in {"foreground", "background"}, Begin(c, how) PROVE CommandTypeOK'
  BY <1>2 DEF Begin
<1>3. ASSUME NEW c \in Command, LeaderExits(c) \/ BroodExits(c) PROVE CommandTypeOK'
  BY <1>3 DEF LeaderExits, BroodExits
<1>4. CASE PipeEnds \/ ForegroundEnds \/ BackgroundExited
  BY <1>4 DEF PipeEnds, ForegroundEnds, BackgroundExited
<1>5. CASE ForegroundTimesOut \/ TermGraceEnds
  BY <1>5 DEF ForegroundTimesOut, TermGraceEnds
<1>6. CASE BackgroundStarted
  BY <1>6 DEF BackgroundStarted, Registry
<1>7. ASSUME CancelTurn PROVE verb' \in [at : {"idle", "foreground", "exit", "term", "background"}, command : Command \cup {NoCommand}]
                               /\ (verb'.at = "idle" <=> verb'.command = NoCommand)
                               /\ dropped' \in [Letting -> SUBSET Command]
  BY <1>7, NoCommandAssumption DEF CancelTurn, Unkept, Letting
<1>8. CASE PauseAgent \/ ExitCancels
  BY <1>7, <1>8 DEF PauseAgent, ExitCancels
<1>9. CASE ResumeAgent \/ ExitByFinish \/ StopJobs
  BY <1>9 DEF ResumeAgent, ExitByFinish, StopJobs
<1>10. CASE JobsStopped
  BY <1>10 DEF JobsStopped, Survivors
<1>11. CASE TimeLimit
  BY <1>7, <1>11 DEF TimeLimit, Survivors
<1> QED
  BY <1>1, <1>2, <1>3, <1>4, <1>5, <1>6, <1>8, <1>9, <1>10, <1>11 DEF CommandNext, VerbStep

LEMMA ExitStep == CommandInv /\ [CommandNext]_commandVars => ExitInv'
<1> SUFFICES ASSUME CommandTypeOK, ExitInv, [CommandNext]_commandVars PROVE ExitInv'
  BY DEF CommandInv
<1> USE DEF ExitInv, Idle
<1>1. CASE UNCHANGED commandVars
  BY <1>1 DEF commandVars
<1>2. ASSUME NEW c \in Command, NEW how \in {"foreground", "background"}, Begin(c, how) PROVE ExitInv'
  BY <1>2 DEF Begin
<1>3. ASSUME NEW c \in Command, LeaderExits(c) \/ BroodExits(c) PROVE ExitInv'
  BY <1>3 DEF LeaderExits, BroodExits
<1>4. CASE VerbStep
  BY <1>4 DEF VerbStep, PipeEnds, ForegroundEnds, BackgroundExited, ForegroundTimesOut, TermGraceEnds, BackgroundStarted
<1>5. CASE PauseAgent \/ ExitCancels
  BY <1>5 DEF PauseAgent, ExitCancels
<1>6. CASE ResumeAgent \/ ExitByFinish \/ StopJobs \/ JobsStopped
  BY <1>6 DEF ResumeAgent, ExitByFinish, StopJobs, JobsStopped
<1>7. CASE TimeLimit
  BY <1>7 DEF TimeLimit
<1> QED
  BY <1>1, <1>2, <1>3, <1>4, <1>5, <1>6, <1>7 DEF CommandNext

LEMMA HeldStep == CommandInv /\ [CommandNext]_commandVars => NoCommandOutlivesAgent'
<1> SUFFICES ASSUME CommandInv, [CommandNext]_commandVars, ExitInv', CommandTypeOK' PROVE NoCommandOutlivesAgent'
  BY ExitStep, CommandTypeStep
<1> DEFINE Held(c) == c \in {verb.command} \cup jobs \cup doomed \/ \E w \in Letting : c \in dropped[w]
<1>a. \A c \in Command : Running(c) => Held(c)
  BY DEF CommandInv, NoCommandOutlivesAgent, CommandTypeOK
<1>b. SUFFICES \A c \in Command : Running(c)' => Held(c)'
  BY DEF ExitInv, NoCommandOutlivesAgent, CommandTypeOK
<1> SUFFICES ASSUME NEW c \in Command, Running(c)' PROVE Held(c)'
  BY <1>b
<1> USE DEF CommandTypeOK, Running, Killed, Idle
<1>1. CASE UNCHANGED commandVars
  BY <1>1, <1>a DEF commandVars, CommandInv
<1>2. ASSUME NEW d \in Command, NEW how \in {"foreground", "background"}, Begin(d, how) PROVE Held(c)'
  BY <1>2, <1>a, NoCommandAssumption DEF Begin, CommandInv
<1>3. ASSUME NEW d \in Command, LeaderExits(d) \/ BroodExits(d) PROVE Held(c)'
  BY <1>3, <1>a DEF LeaderExits, BroodExits, CommandInv
<1>4. CASE PipeEnds \/ ForegroundEnds \/ BackgroundExited
  BY <1>4, <1>a DEF PipeEnds, ForegroundEnds, BackgroundExited, CommandInv
<1>5. CASE ForegroundTimesOut \/ TermGraceEnds
  BY <1>5, <1>a, NoCommandAssumption DEF ForegroundTimesOut, TermGraceEnds, CommandInv
<1>6. CASE BackgroundStarted
  BY <1>6, <1>a DEF BackgroundStarted, Registry, CommandInv
<1>7. ASSUME CancelTurn, UNCHANGED <<leader, jobs, doomed>> PROVE Held(c)'
  BY <1>7, <1>a DEF CancelTurn, Unkept, CommandInv, Letting
<1>8. CASE PauseAgent \/ ExitCancels
  BY <1>7, <1>8 DEF PauseAgent, ExitCancels
<1>9. CASE ResumeAgent \/ ExitByFinish
  BY <1>9, <1>a DEF ResumeAgent, ExitByFinish, CommandInv
<1>10. CASE StopJobs
  BY <1>10, <1>a DEF StopJobs, CommandInv, ExitInv
<1>11. CASE JobsStopped
  BY <1>11, <1>a DEF JobsStopped, Survivors, CommandInv
<1>12. CASE TimeLimit
  <2>1. CASE leaving = "turn"
    BY <1>7, <1>12, <2>1 DEF TimeLimit
  <2>2. CASE leaving = "jobs"
    BY <1>12, <1>a, <2>2 DEF TimeLimit, Survivors, CommandInv, Letting
  <2> QED
    BY <1>12, <2>1, <2>2 DEF TimeLimit
<1> QED
  BY <1>1, <1>2, <1>3, <1>4, <1>5, <1>6, <1>8, <1>9, <1>10, <1>11, <1>12 DEF CommandNext, VerbStep

\* Somebody answers for every process of an agent, whatever pauses, exits and time
\* limits cross the commands, but for the four cancellations that let go of one (shell.py,
\* _foreground and _background; jobs.py, stop_all).
THEOREM CommandsAreHeld == CommandSpec => []NoCommandOutlivesAgent
<1>1. CommandInv /\ [CommandNext]_commandVars => CommandInv'
  BY CommandTypeStep, ExitStep, HeldStep DEF CommandInv
<1>2. CommandInv => NoCommandOutlivesAgent
  BY DEF CommandInv
<1> QED
  BY CommandInitHolds, <1>1, <1>2, PTL DEF CommandSpec

------------------------------------------------------------------------------
(* The core.  Which stage of the stop allows what of the hub, the root and *)
(* each boot script's group.                                               *)

Serving == {"wait", "blind", "root", "cancelled", "launches", "told", "gateway", "hubStop"}
AfterRoot == {"launches", "told", "gateway", "hubStop", "provider", "ended"}
AfterGroups == {"gateway", "hubStop", "provider", "ended"}

StageOK ==
  /\ CoreTypeOK
  /\ at \in {"initialize", "hub", "dead"} \cup Serving \cup AfterRoot

\* Where the hub, the gateway and the state can be what they are.
HubInv ==
  /\ hub = "up" => at \in Serving
  /\ hub = "down" => at \in {"provider", "ended"}
  /\ at = "told" => hub = "up"
  /\ core = "stopped" <=> at = "ended"
  /\ at \in {"hubStop", "provider", "ended"} => gateway # "serving"
  /\ at = "ended" => ~handlers

\* What has become of the root once the stop is past it.
RootInv ==
  /\ at \in {"initialize", "hub"} => rootTask \in {"none", "runs"}
  /\ rootTask = "runs" => at \in {"initialize", "hub", "wait", "blind", "dead"}
  /\ rootTask = "cut" => "root" \in late
  /\ at \in AfterRoot => rootTask # "suspends" \/ "root" \in late

\* A group that is up is somebody's: its launching task's, or on the list that
\* the stop goes by; or a time limit ran out on it.
GroupInv ==
  \A s \in Script :
    /\ launch[s] # "none" => hub # "none" /\ at \notin {"initialize", "hub", "dead"}
    /\ at \in {"told"} \cup AfterGroups => launch[s] \in {"none", "known"}
    /\ group[s] \in {"up", "told"} /\ at # "dead" => s \in late \/ launch[s] \in {"forked", "known"}
    /\ group[s] = "told" /\ at # "dead" => at = "told" /\ launch[s] = "known"
    /\ at \in AfterGroups /\ group[s] \in {"up", "told"} => s \in late

CoreInv == StageOK /\ HubInv /\ RootInv /\ GroupInv

LEMMA CoreInitHolds == CoreInit => CoreInv
<1> SUFFICES ASSUME CoreInit PROVE CoreInv
  OBVIOUS
<1> USE DEF CoreInit, Serving, AfterRoot, AfterGroups
<1>1. StageOK
  BY DEF StageOK, CoreTypeOK
<1>2. HubInv /\ RootInv
  BY DEF HubInv, RootInv
<1>3. GroupInv
  BY DEF GroupInv
<1> QED
  BY <1>1, <1>2, <1>3 DEF CoreInv

LEMMA StartStep ==
  ASSUME CoreInv, Initialize \/ Serve \/ BootFails \/ StopHeard PROVE CoreInv'
<1> USE DEF Initialize, Serve, BootFails, StopHeard, ShutDown, Serving, AfterRoot, AfterGroups
<1>1. StageOK'
  BY DEF CoreInv, StageOK, CoreTypeOK
<1>2. HubInv' /\ RootInv'
  BY DEF CoreInv, HubInv, RootInv, StageOK, CoreTypeOK
<1>3. GroupInv'
  BY DEF CoreInv, GroupInv, HubInv, StageOK, CoreTypeOK
<1> QED
  BY <1>1, <1>2, <1>3 DEF CoreInv

LEMMA ScriptStep ==
  ASSUME CoreInv, NEW s \in Script, Fork(s) \/ ForkFails(s) \/ Launched(s) \/ GroupEnds(s)
  PROVE  CoreInv'
<1> USE DEF Fork, ForkFails, Launched, GroupEnds, Serving, AfterRoot, AfterGroups
<1>1. StageOK'
  BY DEF CoreInv, StageOK, CoreTypeOK
<1>2. HubInv' /\ RootInv'
  BY DEF CoreInv, HubInv, RootInv
<1>3. GroupInv'
  BY DEF CoreInv, GroupInv, StageOK, CoreTypeOK
<1> QED
  BY <1>1, <1>2, <1>3 DEF CoreInv

LEMMA ServingStep ==
  ASSUME CoreInv, Signal \/ GatewayExits \/ GatewayMissed \/ RootSaves \/ RootAwaited \/ RootLimit \/ RootCut
  PROVE  CoreInv'
<1> USE DEF Signal, GatewayExits, GatewayMissed, RootSaves, RootAwaited, RootLimit, RootCut,
            Serving, AfterRoot, AfterGroups
<1>1. StageOK'
  BY DEF CoreInv, StageOK, CoreTypeOK
<1>2. HubInv' /\ RootInv'
  BY DEF CoreInv, HubInv, RootInv, StageOK, CoreTypeOK
<1>3. GroupInv'
  BY DEF CoreInv, GroupInv, StageOK, CoreTypeOK
<1> QED
  BY <1>1, <1>2, <1>3 DEF CoreInv

LEMMA LaunchesStep == ASSUME CoreInv, LaunchesAwaited PROVE CoreInv'
<1> USE DEF Serving, AfterRoot, AfterGroups
<1>0. launch \in [Script -> {"none", "due", "forked", "known"}] /\ group \in [Script -> {"none", "up", "told", "gone"}]
  BY DEF CoreInv, StageOK, CoreTypeOK
<1>1. /\ late \subseteq late' /\ late' \subseteq Script \cup {"root"}
      /\ at' \in {"told", "gateway"} /\ launch' \in [Script -> {"none", "known"}]
      /\ group' \in [Script -> {"none", "up", "told", "gone"}]
  <2>1. late \subseteq late' /\ late' \subseteq Script \cup {"root"}
    BY DEF LaunchesAwaited, CoreInv, StageOK, CoreTypeOK
  <2>2. at' \in {"told", "gateway"} /\ group' \in [Script -> {"none", "up", "told", "gone"}]
    BY <1>0 DEF LaunchesAwaited
  <2>3. launch' \in [Script -> {"none", "known"}]
    <3>1. CASE (\A s \in Script : launch[s] \notin {"due", "forked"}) /\ UNCHANGED <<launch, late>>
      BY <1>0, <3>1
    <3>2. CASE launch' = [s \in Script |-> IF launch[s] = "known" THEN "known" ELSE "none"]
      BY <3>2
    <3> QED
      BY <3>1, <3>2 DEF LaunchesAwaited
  <2> QED
    BY <2>1, <2>2, <2>3
<1>2. ASSUME NEW s \in Script
      PROVE  /\ launch'[s] = "known" <=> s \in KnownGroups
             /\ launch[s] = "forked" => s \in late'
             /\ group'[s] # group[s] => group[s] = "up" /\ group'[s] = "told" /\ s \in KnownGroups /\ at' = "told"
             /\ at' = "gateway" => s \notin KnownGroups
  <2>1. /\ launch'[s] = "known" <=> launch[s] = "known"
        /\ launch[s] = "forked" => s \in late'
    <3>1. CASE (\A r \in Script : launch[r] \notin {"due", "forked"}) /\ UNCHANGED <<launch, late>>
      BY <3>1
    <3>2. CASE /\ launch' = [r \in Script |-> IF launch[r] = "known" THEN "known" ELSE "none"]
               /\ late' = late \cup {r \in Script : launch[r] = "forked"}
      BY <3>2
    <3> QED
      BY <3>1, <3>2 DEF LaunchesAwaited
  <2>2. /\ group'[s] # group[s] => group[s] = "up" /\ group'[s] = "told" /\ s \in KnownGroups /\ at' = "told"
        /\ at' = "gateway" => s \notin KnownGroups
    BY DEF LaunchesAwaited
  <2> QED
    BY <2>1, <2>2 DEF KnownGroups
<1>3. StageOK'
  BY <1>1 DEF LaunchesAwaited, CoreInv, StageOK, CoreTypeOK
<1>4. at' = "told" => hub = "up"
  <2> SUFFICES ASSUME at' = "told" PROVE hub = "up"
    OBVIOUS
  <2>1. PICK s \in Script : launch[s] = "known"
    BY DEF LaunchesAwaited, KnownGroups
  <2> QED
    BY <2>1 DEF LaunchesAwaited, CoreInv, GroupInv, HubInv, StageOK, CoreTypeOK
<1>5. HubInv' /\ RootInv'
  BY <1>1, <1>4 DEF LaunchesAwaited, CoreInv, HubInv, RootInv, StageOK, CoreTypeOK
<1>6. GroupInv'
  <2> SUFFICES ASSUME NEW s \in Script
               PROVE  /\ launch'[s] # "none" => hub' # "none" /\ at' \notin {"initialize", "hub", "dead"}
                      /\ at' \in {"told"} \cup AfterGroups => launch'[s] \in {"none", "known"}
                      /\ group'[s] \in {"up", "told"} /\ at' # "dead" => s \in late' \/ launch'[s] \in {"forked", "known"}
                      /\ group'[s] = "told" /\ at' # "dead" => at' = "told" /\ launch'[s] = "known"
                      /\ at' \in AfterGroups /\ group'[s] \in {"up", "told"} => s \in late'
    BY DEF GroupInv
  <2>1. UNCHANGED hub /\ at = "launches"
    BY DEF LaunchesAwaited
  <2> QED
    BY <1>1, <1>2, <2>1 DEF CoreInv, GroupInv, KnownGroups
<1> QED
  BY <1>3, <1>5, <1>6 DEF CoreInv

LEMMA StopStep ==
  ASSUME CoreInv, GroupsKilled \/ CloseGateway \/ StopHub \/ Ended \/ CoreDies PROVE CoreInv'
<1> USE DEF GroupsKilled, CloseGateway, StopHub, Ended, CoreDies, KnownGroups, Serving, AfterRoot, AfterGroups
<1>1. StageOK'
  BY DEF CoreInv, StageOK, CoreTypeOK
<1>2. HubInv' /\ RootInv'
  BY DEF CoreInv, HubInv, RootInv, StageOK, CoreTypeOK
<1>3. GroupInv'
  BY DEF CoreInv, GroupInv, HubInv, StageOK, CoreTypeOK
<1> QED
  BY <1>1, <1>2, <1>3 DEF CoreInv

LEMMA CoreStepHolds == CoreInv /\ [CoreNext]_coreVars => CoreInv'
<1> SUFFICES ASSUME CoreInv, [CoreNext]_coreVars PROVE CoreInv'
  OBVIOUS
<1>1. CASE UNCHANGED coreVars
  BY <1>1 DEF coreVars, CoreInv, StageOK, CoreTypeOK, HubInv, RootInv, GroupInv
<1> QED
  BY <1>1, StartStep, ScriptStep, ServingStep, LaunchesStep, StopStep DEF CoreNext

LEMMA OrderlyFollows == CoreInv => StopIsOrderly
<1> SUFFICES ASSUME CoreInv PROVE StopIsOrderly
  OBVIOUS
<1> USE DEF Serving, AfterRoot, AfterGroups
<1>1. at \in {"provider", "ended"} => {s \in Script : group[s] \in {"up", "told"}} \ late = {}
  BY DEF CoreInv, GroupInv
<1>2. (\E s \in Script : group[s] = "told") /\ at # "dead" => hub = "up"
  BY DEF CoreInv, GroupInv, HubInv
<1>3. at = "ended" => rootTask \in {"none", "saved"} \/ "root" \in late
  BY DEF CoreInv, RootInv, StageOK, CoreTypeOK
<1> QED
  BY <1>1, <1>2, <1>3 DEF StopIsOrderly, CoreInv, HubInv

\* A core that stops leaves no service and no unsaved root behind, whatever signals,
\* failed starts and launches cross the stop, but for what a time limit gave up.
THEOREM CoreStopsInOrder == CoreSpec => []StopIsOrderly
  BY CoreInitHolds, CoreStepHolds, OrderlyFollows, PTL DEF CoreSpec

------------------------------------------------------------------------------
(* The input gate.  The memory of mids is the end of what was let through, *)
(* and once something was evicted it is at least half the limit long.      *)

GateTypeOK ==
  /\ coreUp \in {"running", "stopping"}
  /\ mids \in Seq(Mid) /\ let \in Seq(Mid)
  /\ reached \subseteq 1..Len(let)

\* Half of the limit, the smaller one.
Rest == DedupSize - DedupSize \div 2

MemoryInv ==
  /\ Len(mids) <= Len(let)
  /\ \A k \in 1..Len(mids) : mids[k] = let[Len(let) - Len(mids) + k]
  /\ Len(mids) = Len(let) \/ Rest <= Len(mids)
  /\ coreUp = "running" => reached = 1..Len(let)

\* The first half of LinesOnce.
FarApart == \A i, j \in reached : i < j /\ let[i] = let[j] => j - i > Rest

GateInv == GateTypeOK /\ MemoryInv /\ FarApart

LEMMA Halves ==
  /\ DedupSize \div 2 \in Nat
  /\ 2 * (DedupSize \div 2) <= DedupSize /\ DedupSize < 2 * (DedupSize \div 2) + 2
  /\ Rest \in Nat
BY GateAssumption, SMT DEF Rest

\* The memory after a line: the end of what there was, at least half of it.
LEMMA EvictedParts ==
  ASSUME NEW q \in Seq(Mid), q # <<>>
  PROVE  /\ Evicted(q) \in Seq(Mid) /\ Len(Evicted(q)) <= Len(q)
         /\ \A k \in 1..Len(Evicted(q)) : Evicted(q)[k] = q[Len(q) - Len(Evicted(q)) + k]
         /\ Evicted(q) = q \/ Rest <= Len(Evicted(q))
<1> DEFINE half == IF DedupSize \div 2 > 1 THEN DedupSize \div 2 ELSE 1
<1>1. half \in Nat \ {0} /\ (DedupSize >= 2 => half <= DedupSize \div 2) /\ (DedupSize < 2 => half = 1)
  BY Halves, GateAssumption
<1>2. Evicted(q) = IF Len(q) > DedupSize THEN SubSeq(q, half + 1, Len(q)) ELSE q
  BY DEF Evicted
<1>3. CASE Len(q) > DedupSize
  <2>1. half <= Len(q) /\ Len(q) \in Nat /\ Rest <= Len(q) - half
    <3>1. PICK h : h = DedupSize \div 2
      OBVIOUS
    <3>2. /\ h \in Nat /\ 2 * h <= DedupSize /\ DedupSize < 2 * h + 2 /\ Rest = DedupSize - h
          /\ half \in Nat \ {0} /\ (DedupSize >= 2 => half <= h) /\ (DedupSize < 2 => half = 1)
          /\ DedupSize \in Nat /\ Len(q) \in Nat /\ Len(q) > DedupSize
      BY <1>1, <1>3, <3>1, Halves, GateAssumption DEF Rest
    <3> HIDE DEF half
    <3> QED
      BY <3>2
  <2> HIDE DEF half
  <2>2. /\ SubSeq(q, half + 1, Len(q)) \in Seq(Mid)
        /\ Len(SubSeq(q, half + 1, Len(q))) = Len(q) - half
        /\ \A k \in 1..Len(q) - half : SubSeq(q, half + 1, Len(q))[k] = q[half + k]
    BY <1>1, <2>1
  <2>3. Len(q) - (Len(q) - half) = half
    BY <1>1, <2>1
  <2>4. PICK e : e = Evicted(q)
    OBVIOUS
  <2>5. /\ e \in Seq(Mid) /\ Len(e) = Len(q) - half /\ \A k \in 1..Len(q) - half : e[k] = q[half + k]
    BY <1>2, <1>3, <2>2, <2>4
  <2>6. Len(q) - Len(e) = half /\ Len(e) <= Len(q) /\ Rest <= Len(e)
    BY <1>1, <2>1, <2>3, <2>5
  <2> QED
    BY <2>4, <2>5, <2>6
<1>4. CASE ~(Len(q) > DedupSize)
  BY <1>2, <1>4
<1> QED
  BY <1>3, <1>4

LEMMA GateInitHolds == GateInit => GateInv
BY DEF GateInit, GateInv, GateTypeOK, MemoryInv, FarApart

LEMMA LineStep ==
  ASSUME GateInv, NEW m \in Mid, Line(m)
  PROVE  GateInv'
<1> DEFINE n == Len(let)
           q == Append(mids, m)
<1>0. /\ GateTypeOK /\ MemoryInv /\ FarApart /\ mids \in Seq(Mid) /\ let \in Seq(Mid)
      /\ n \in Nat /\ Len(mids) \in Nat /\ reached \subseteq 1..n
  BY DEF GateInv, GateTypeOK
<1>1. /\ q \in Seq(Mid) /\ q # <<>> /\ Len(q) = Len(mids) + 1 /\ q[Len(mids) + 1] = m
      /\ \A k \in 1..Len(mids) : q[k] = mids[k]
  BY <1>0
<1>2. /\ let' = Append(let, m) /\ mids' = Evicted(q) /\ UNCHANGED coreUp
      /\ reached' = IF coreUp = "running" THEN reached \cup {n + 1} ELSE reached
      /\ \A k \in 1..Len(mids) : mids[k] # m
  BY DEF Line, Contains
<1>3. /\ let' \in Seq(Mid) /\ Len(let') = n + 1 /\ let'[n + 1] = m
      /\ \A k \in 1..n : let'[k] = let[k]
  BY <1>0, <1>2
<1>4. /\ mids' \in Seq(Mid) /\ Len(mids') <= Len(mids) + 1 /\ Len(mids') \in Nat
      /\ \A k \in 1..Len(mids') : mids'[k] = q[Len(mids) + 1 - Len(mids') + k]
      /\ Len(mids') = Len(mids) + 1 \/ Rest <= Len(mids')
  <2> HIDE DEF q
  <2>1. /\ Evicted(q) \in Seq(Mid) /\ Len(Evicted(q)) <= Len(q)
        /\ \A k \in 1..Len(Evicted(q)) : Evicted(q)[k] = q[Len(q) - Len(Evicted(q)) + k]
        /\ Evicted(q) = q \/ Rest <= Len(Evicted(q))
    BY <1>1, EvictedParts
  <2> QED
    BY <1>1, <1>2, <2>1
<1> HIDE DEF q
<1>5. \A k \in 1..Len(mids) + 1 : q[k] = let'[n - Len(mids) + k]
  <2> SUFFICES ASSUME NEW k \in 1..Len(mids) + 1 PROVE q[k] = let'[n - Len(mids) + k]
    OBVIOUS
  <2>1. CASE k = Len(mids) + 1
    BY <1>0, <1>1, <1>3, <2>1
  <2>2. CASE k \in 1..Len(mids)
    <3>1. n - Len(mids) + k \in 1..n
      BY <1>0, <2>2 DEF MemoryInv
    <3> QED
      BY <1>0, <1>1, <1>3, <2>2, <3>1 DEF MemoryInv
  <2> QED
    BY <1>0, <2>1, <2>2
<1>6. MemoryInv'
  <2>1. \A k \in 1..Len(mids') : mids'[k] = let'[Len(let') - Len(mids') + k]
    <3> SUFFICES ASSUME NEW k \in 1..Len(mids') PROVE mids'[k] = let'[n + 1 - Len(mids') + k]
      BY <1>3
    <3>1. Len(mids) + 1 - Len(mids') + k \in 1..Len(mids) + 1
      BY <1>0, <1>4
    <3>2. n - Len(mids) + (Len(mids) + 1 - Len(mids') + k) = n + 1 - Len(mids') + k
      BY <1>0, <1>4
    <3> QED
      BY <1>4, <1>5, <3>1, <3>2
  <2>2. Len(mids') <= Len(let') /\ (Len(mids') = Len(let') \/ Rest <= Len(mids'))
    BY <1>0, <1>3, <1>4, Halves DEF MemoryInv
  <2>3. coreUp' = "running" => reached' = 1..Len(let')
    BY <1>0, <1>2, <1>3 DEF MemoryInv
  <2> QED
    BY <2>1, <2>2, <2>3 DEF MemoryInv
<1>7. GateTypeOK'
  <2>1. reached' \subseteq 1..n + 1
    <3>1. 1..n \subseteq 1..n + 1 /\ n + 1 \in 1..n + 1
      BY <1>0
    <3>2. reached' \subseteq reached \cup {n + 1}
      BY <1>2
    <3> QED
      BY <1>0, <3>1, <3>2
  <2>2. coreUp' \in {"running", "stopping"}
    BY <1>0, <1>2 DEF GateTypeOK
  <2> QED
    BY <1>3, <1>4, <2>1, <2>2 DEF GateTypeOK
<1>8. FarApart'
  <2> SUFFICES ASSUME NEW i \in reached', NEW j \in reached', i < j, let'[i] = let'[j]
               PROVE  j - i > Rest
    BY DEF FarApart, Rest
  <2>1. i \in 1..n /\ (j \in 1..n \/ j = n + 1) /\ i \in reached
    BY <1>0, <1>2
  <2>2. CASE j \in 1..n
    BY <1>0, <1>2, <1>3, <2>1, <2>2 DEF FarApart
  <2>3. CASE j = n + 1
    <3>1. let[i] = m
      BY <1>3, <2>1, <2>3
    <3>2. ~(n - Len(mids) < i)
      <4> SUFFICES ASSUME n - Len(mids) < i PROVE FALSE
        OBVIOUS
      <4>1. i - (n - Len(mids)) \in 1..Len(mids) /\ n - Len(mids) + (i - (n - Len(mids))) = i
        BY <1>0, <2>1
      <4> QED
        BY <1>0, <1>2, <3>1, <4>1 DEF MemoryInv
    <3>3. i <= n - Len(mids) /\ Rest <= Len(mids)
      BY <1>0, <2>1, <3>2 DEF MemoryInv
    <3> QED
      BY <1>0, <2>1, <2>3, <3>3, Halves
  <2> QED
    BY <2>1, <2>2, <2>3
<1> QED
  BY <1>6, <1>7, <1>8 DEF GateInv

LEMMA GateStepHolds == GateInv /\ [GateNext]_gateVars => GateInv'
<1> SUFFICES ASSUME GateInv, [GateNext]_gateVars PROVE GateInv'
  OBVIOUS
<1>1. CASE UNCHANGED gateVars
  BY <1>1 DEF gateVars, GateInv, GateTypeOK, MemoryInv, FarApart
<1>2. CASE CoreStops
  BY <1>2 DEF CoreStops, GateInv, GateTypeOK, MemoryInv, FarApart
<1> QED
  BY <1>1, <1>2, LineStep DEF GateNext, RepeatedLine

\* A line sent again reaches the root twice only if more than half the limit of
\* lines came between, and while the core runs a line that is remembered has
\* reached the root (gateway.py _accept_mid).
THEOREM LinesReachOnce == GateSpec => []LinesOnce
<1>1. GateInv => LinesOnce
  <2> SUFFICES ASSUME GateInv PROVE LinesOnce
    OBVIOUS
  <2>1. ASSUME coreUp = "running", NEW m \in ToSet(mids) PROVE \E i \in reached : let[i] = m
    <3>1. PICK k \in 1..Len(mids) : mids[k] = m
      BY <2>1 DEF ToSet, GateInv, GateTypeOK
    <3>2. Len(let) - Len(mids) + k \in 1..Len(let)
      BY DEF GateInv, GateTypeOK, MemoryInv
    <3> QED
      BY <2>1, <3>1, <3>2 DEF GateInv, MemoryInv
  <2> QED
    BY <2>1 DEF GateInv, FarApart, Rest, LinesOnce
<1> QED
  BY <1>1, GateInitHolds, GateStepHolds, PTL DEF GateSpec

------------------------------------------------------------------------------
(* The panels.  A desktop that is being told the table shows every entry   *)
(* that it will not be told yet, and a window without an entry is stale.   *)

SurfaceTypeOK ==
  /\ table \in [Owner -> PanelSpec \cup {NoPanel}]
  /\ link \in [Desktop -> {"off", "hello", "table", "on"}]
  /\ left \in [Desktop -> SUBSET Owner]
  /\ panels \in [Desktop -> [Owner -> PanelSpec \cup {NoPanel}]]
  /\ stale \in [Desktop -> SUBSET Owner]

\* The window of s on desktop d.
Shown(d, s) ==
  /\ table[s] # NoPanel /\ link[d] \in {"table", "on"} =>
       panels[d][s] = table[s] \/ (link[d] = "table" /\ s \in left[d])
  /\ table[s] = NoPanel => panels[d][s] = NoPanel \/ s \in stale[d]

ShownInv == SurfaceTypeOK /\ \A d \in Desktop, s \in Owner : Shown(d, s)

LEMMA SurfaceInitHolds == SurfaceInit => ShownInv
BY DEF SurfaceInit, ShownInv, SurfaceTypeOK, Shown

\* What a broadcast does to each window.
LEMMA BroadcastParts ==
  ASSUME SurfaceTypeOK, NEW s \in Owner, NEW p \in PanelSpec \cup {NoPanel}, Broadcast(s, p)
  PROVE  /\ panels' \in [Desktop -> [Owner -> PanelSpec \cup {NoPanel}]]
         /\ stale' \in [Desktop -> SUBSET Owner]
         /\ \A d \in Desktop, r \in Owner \ {s} :
              panels'[d][r] = panels[d][r] /\ (r \in stale'[d] <=> r \in stale[d])
         /\ \A d \in Desktop :
              /\ link[d] # "off" => panels'[d][s] = p
              /\ p = NoPanel => panels'[d][s] = NoPanel \/ s \in stale'[d]
BY DEF SurfaceTypeOK, Broadcast, Connected

LEMMA PostStep ==
  ASSUME ShownInv, NEW s \in Owner, NEW p \in PanelSpec, PostSurface(s, p) PROVE ShownInv'
<1>1. /\ SurfaceTypeOK /\ \A d \in Desktop, r \in Owner : Shown(d, r)
      /\ UNCHANGED link
  BY DEF ShownInv, PostSurface
<1>2. /\ table' \in [Owner -> PanelSpec \cup {NoPanel}] /\ table'[s] = p
      /\ \A r \in Owner \ {s} : table'[r] = table[r]
  BY <1>1 DEF PostSurface, SurfaceTypeOK
<1>3. /\ left' \in [Desktop -> SUBSET Owner]
      /\ \A d \in Desktop : left[d] \subseteq left'[d]
      /\ \A d \in Desktop : link[d] = "table" /\ table[s] = NoPanel => s \in left'[d]
  BY <1>1 DEF PostSurface, SurfaceTypeOK, Listed
<1>4. CASE table[s] = p /\ UNCHANGED <<panels, stale>>
  BY <1>1, <1>2, <1>3, <1>4 DEF ShownInv, SurfaceTypeOK, Shown
<1>5. CASE Broadcast(s, p)
  BY <1>1, <1>2, <1>3, <1>5, BroadcastParts DEF ShownInv, SurfaceTypeOK, Shown
<1> QED
  BY <1>4, <1>5 DEF PostSurface

LEMMA WithdrawStep ==
  ASSUME ShownInv, NEW s \in Owner, Withdraw(s), UNCHANGED link PROVE ShownInv'
<1>1. SurfaceTypeOK /\ \A d \in Desktop, r \in Owner : Shown(d, r)
  BY DEF ShownInv
<1>2. /\ table' \in [Owner -> PanelSpec \cup {NoPanel}] /\ table'[s] = NoPanel
      /\ \A r \in Owner \ {s} : table'[r] = table[r]
  BY <1>1 DEF Withdraw, SurfaceTypeOK
<1>3. /\ left' \in [Desktop -> SUBSET Owner]
      /\ \A d \in Desktop, r \in Owner \ {s} : r \in left[d] => r \in left'[d]
  BY <1>1 DEF Withdraw, SurfaceTypeOK
<1>4. Broadcast(s, NoPanel)
  BY DEF Withdraw
<1> QED
  BY <1>1, <1>2, <1>3, <1>4, BroadcastParts DEF ShownInv, SurfaceTypeOK, Shown

LEMMA DesktopStep ==
  ASSUME ShownInv, NEW d \in Desktop,
         \/ DesktopConnects(d) \/ DesktopGreeted(d) \/ TableTold(d)
         \/ DesktopGoes(d) \/ DesktopReloads(d)
  PROVE  ShownInv'
<1>1. SurfaceTypeOK /\ \A e \in Desktop, r \in Owner : Shown(e, r)
  BY DEF ShownInv
<1>2. CASE DesktopConnects(d)
  BY <1>1, <1>2 DEF DesktopConnects, ShownInv, SurfaceTypeOK, Shown
<1>3. CASE DesktopGreeted(d)
  BY <1>1, <1>3 DEF DesktopGreeted, Listed, ShownInv, SurfaceTypeOK, Shown
<1>4. CASE TableTold(d)
  BY <1>1, <1>4 DEF TableTold, ShownInv, SurfaceTypeOK, Shown
<1>5. CASE DesktopGoes(d)
  BY <1>1, <1>5 DEF DesktopGoes, ShownInv, SurfaceTypeOK, Shown
<1>6. CASE DesktopReloads(d)
  BY <1>1, <1>6 DEF DesktopReloads, ShownInv, SurfaceTypeOK, Shown
<1> QED
  BY <1>2, <1>3, <1>4, <1>5, <1>6

LEMMA TellStep ==
  ASSUME ShownInv, NEW d \in Desktop, NEW s \in Owner, TellSurface(d, s) PROVE ShownInv'
BY DEF TellSurface, ShownInv, SurfaceTypeOK, Shown

LEMMA SurfaceStepHolds == ShownInv /\ [SurfaceNext]_surfaceVars => ShownInv'
<1> SUFFICES ASSUME ShownInv, [SurfaceNext]_surfaceVars PROVE ShownInv'
  OBVIOUS
<1>1. CASE UNCHANGED surfaceVars
  BY <1>1 DEF surfaceVars, ShownInv, SurfaceTypeOK, Shown
<1>2. CASE ReapScan \/ SurfaceTick
  BY <1>2 DEF ReapScan, SurfaceTick, ShownInv, SurfaceTypeOK, Shown
<1>3. ASSUME NEW s \in Owner, DeleteSurface(s) \/ ReapOne(s) PROVE ShownInv'
  BY <1>3, WithdrawStep DEF DeleteSurface, ReapOne
<1> QED
  BY <1>1, <1>2, <1>3, PostStep, DesktopStep, TellStep DEF SurfaceNext

\* A desktop that was told the table shows it, whichever posts, withdrawals and
\* reaper rounds crossed the telling (gateway.py _ws_handler, _broadcast).
THEOREM DesktopsShowTheTable == SurfaceSpec => []DesktopShowsTable
<1>1. ShownInv => DesktopShowsTable
  BY DEF ShownInv, SurfaceTypeOK, Shown, Listed, DesktopShowsTable
<1> QED
  BY <1>1, SurfaceInitHolds, SurfaceStepHolds, PTL DEF SurfaceSpec

------------------------------------------------------------------------------
(* The system probe.  A count is the streak of the process that is listed, *)
(* unless it began with one that is gone; what was announced of a setting  *)
(* is what was read, from the second value on.                             *)

CountInv ==
  /\ runaway \in [Pid -> Nat] /\ streak \in [Pid -> Nat]
  /\ \A p \in Pid : p \in listed /\ p \notin shared => runaway[p] = streak[p]

SettingInv ==
  /\ actual \in Seq(Setting)
  /\ \/ known = Missing /\ actual = <<>> /\ heard = <<>>
     \/ known = Last(actual) /\ known # Missing /\ actual # <<>> /\ heard = Tail(actual)

SysInv == CountInv /\ SettingInv /\ AlarmsAreTrue

LEMMA SysInitHolds == SysInit => SysInv
BY DEF SysInit, SysInv, CountInv, SettingInv, AlarmsAreTrue

LEMMA CountStep ==
  ASSUME CountInv, NEW now \in SUBSET Pid, NEW hot \in SUBSET now, CheckRunaway(now, hot)
  PROVE  CountInv' /\ \A p \in alarm' : streak'[p] = RunawaySamples \/ p \in shared'
<1>1. \A p \in Pid :
        /\ runaway'[p] = IF p \in now THEN (IF p \in hot THEN runaway[p] + 1 ELSE 0) ELSE runaway[p]
        /\ streak'[p] = IF p \in now /\ p \in hot THEN (IF p \in listed THEN streak[p] ELSE 0) + 1 ELSE 0
        /\ p \in shared' <=> /\ runaway'[p] > 0
                             /\ p \in shared \/ (p \in now /\ p \notin listed /\ runaway[p] > 0)
        /\ runaway[p] \in Nat /\ streak[p] \in Nat
  BY DEF CheckRunaway, Counted, CountInv
<1>2. runaway' \in [Pid -> Nat] /\ streak' \in [Pid -> Nat]
  BY <1>1 DEF CheckRunaway, Counted, CountInv
<1>3. ASSUME NEW p \in Pid, p \in now, p \notin shared' PROVE runaway'[p] = streak'[p]
  <2>1. CASE p \in hot
    <3>1. p \notin shared /\ (p \in listed \/ runaway[p] = 0)
      BY <1>1, <1>3, <2>1
    <3>2. p \in listed => runaway[p] = streak[p]
      BY <3>1 DEF CountInv
    <3> QED
      BY <1>1, <1>3, <2>1, <3>1, <3>2
  <2>2. CASE p \notin hot
    BY <1>1, <1>3, <2>2
  <2> QED
    BY <2>1, <2>2
<1>4. /\ listed' = now
      /\ \A p \in alarm' : p \in now /\ p \in Pid /\ runaway'[p] = RunawaySamples
  BY DEF CheckRunaway
<1> QED
  BY <1>2, <1>3, <1>4 DEF CountInv

LEMMA SettingStep ==
  ASSUME SettingInv, NEW value \in Setting \cup {Missing}, CheckSetting(value)
  PROVE  SettingInv' /\ (actual' # <<>> => heard' = Tail(actual'))
<1>1. CASE value = Missing
  BY <1>1 DEF CheckSetting, Reading, SettingInv
<1>2. CASE value # Missing /\ actual = <<>>
  <2>1. known' = value /\ heard' = <<>> /\ actual' = Append(actual, value)
    BY <1>2 DEF CheckSetting, Reading, SettingInv
  <2>2. /\ actual' \in Seq(Setting) /\ Len(actual') = 1 /\ actual'[1] = value
        /\ Tail(actual') = <<>>
    BY <1>2, <2>1 DEF SettingInv
  <2> QED
    BY <1>2, <2>1, <2>2 DEF SettingInv, Last
<1>3. CASE value # Missing /\ actual # <<>> /\ value = known
  BY <1>3 DEF CheckSetting, Reading, SettingInv
<1>4. CASE value # Missing /\ actual # <<>> /\ value # known
  <2>1. /\ known' = value /\ heard' = Append(Tail(actual), value) /\ actual' = Append(actual, value)
        /\ actual \in Seq(Setting)
    BY <1>4 DEF CheckSetting, Reading, SettingInv
  <2>2. /\ actual' \in Seq(Setting) /\ actual' # <<>> /\ Last(actual') = value
    BY <1>4, <2>1 DEF Last
  <2>3. Tail(Append(actual, value)) = Append(Tail(actual), value)
    BY <1>4, <2>1
  <2> QED
    BY <1>4, <2>1, <2>2, <2>3 DEF SettingInv
<1> QED
  BY <1>1, <1>2, <1>3, <1>4

LEMMA SysStepHolds == SysInv /\ [SysNext]_sysVars => SysInv'
<1> SUFFICES ASSUME SysInv, [SysNext]_sysVars PROVE SysInv'
  OBVIOUS
<1>1. CASE UNCHANGED sysVars
  BY <1>1 DEF sysVars, SysInv, CountInv, SettingInv, AlarmsAreTrue
<1>2. CASE SysNext
  <2>1. PICK now \in SUBSET Pid, value \in Setting \cup {Missing} :
          \E hot \in SUBSET now : CheckSetting(value) /\ CheckRunaway(now, hot)
    BY <1>2 DEF SysNext, SysSample
  <2>2. PICK hot \in SUBSET now : CheckSetting(value) /\ CheckRunaway(now, hot)
    BY <2>1
  <2> QED
    BY <2>2, CountStep, SettingStep DEF SysInv, AlarmsAreTrue
<1> QED
  BY <1>1, <1>2

\* A runaway is announced only of a process that was hot in each of the last
\* samples, or took over the count of one that is gone, and every change of a
\* setting is announced once (main.py _check_runaway, _check_locked).
THEOREM AlarmsHold == SysSpec => []AlarmsAreTrue
<1>1. SysInv => AlarmsAreTrue
  BY DEF SysInv
<1> QED
  BY <1>1, SysInitHolds, SysStepHolds, PTL DEF SysSpec

------------------------------------------------------------------------------
(* The tool servers.  What runs under a name, while both tasks start and   *)
(* stop servers.                                                           *)

McpTypeOK ==
  /\ file \in [Name -> Def \cup {Absent}] /\ wanted \in [Name -> Def \cup {Absent}]
  /\ due \in [Task -> Seq([name : Name, def : Def])]
  /\ doing \in [Task -> {"nothing", "stop", "start", "register", "ended"}]
  /\ sweep \subseteq Name
  /\ held \in [Name -> Nat]
  /\ made \in Seq([name : Name, def : Def, by : Task])
  /\ alive \subseteq DOMAIN made /\ busy \subseteq alive

Launches(t) == doing[t] \in {"start", "register"}

\* Server i is the one that task t starts: its latest, not yet held by a name.
IsMine(t, i) ==
  /\ made[i] = [name |-> Item(t).name, def |-> Item(t).def, by |-> t]
  /\ \A j \in DOMAIN made : made[j].by = t => j <= i
  /\ \A n \in Name : held[n] # i
  /\ doing[t] = "register" => i \in alive

WorkInv ==
  \A t \in Task :
    /\ due[t] = <<>> => doing[t] \in {"nothing", "ended"}
    /\ doing[t] = "ended" => due[t] = <<>>
    /\ Launches(t) => \E i \in DOMAIN made : IsMine(t, i)

HeldInv == \A n \in Name : held[n] # 0 => held[n] \in DOMAIN made /\ made[held[n]].name = n

AtRest(n) == n \notin sweep /\ \A t \in Task : n \notin Names(due[t])

UnderWay(n) == \E t \in Task : Launches(t) /\ Item(t).name = n

\* A name that no reload took from under the boot task.
Sound(n) ==
  /\ \E t \in Task : n \notin Names(due[t])
  /\ n \in sweep => wanted[n] = Absent
  /\ \A t \in Task : \A s \in Range(due[t]) : s.name = n => s.def = wanted[n]
  /\ \A i \in alive : made[i].name = n =>
       i = held[n] \/ \E t \in Task : doing[t] = "register" /\ Item(t).name = n /\ IsMine(t, i)
  /\ n \in missed \/ UnderWay(n) => held[n] \notin alive
  /\ n \notin missed /\ held[n] # 0 /\ held[n] \notin alive => UnderWay(n)
  /\ AtRest(n) /\ wanted[n] = Absent => held[n] \notin alive
  /\ AtRest(n) /\ wanted[n] # Absent /\ n \notin missed => held[n] # 0 /\ made[held[n]].def = wanted[n]

McpInv == McpTypeOK /\ WorkInv /\ HeldInv /\ \A n \in Name \ raced : Sound(n)

\* A set becomes a sequence of the same elements.
LEMMA SetAsSeq ==
  ASSUME NEW S, IsFiniteSet(S)
  PROVE  SetToSeq(S) \in Seq(S) /\ Range(SetToSeq(S)) = S
<1> DEFINE n == Cardinality(S)
<1>1. n \in Nat /\ ExistsBijection(1..n, S)
  BY FS_CardinalityType
<1>2. PICK g \in [1..n -> S] : \A a, b \in 1..n : g[a] = g[b] => a = b
  BY <1>1 DEF ExistsBijection, Bijection, Injection, IsInjective
<1>3. \E f \in [1..n -> S] : IsInjective(f)
  BY <1>2 DEF IsInjective
<1>4. SetToSeq(S) \in [1..n -> S] /\ IsInjective(SetToSeq(S))
  BY <1>3, Zenon DEF SetToSeq
<1>5. SetToSeq(S) \in Injection(1..n, S)
  BY <1>4 DEF Injection, IsInjective
<1>6. IsFiniteSet(1..n) /\ Cardinality(1..n) = n
  BY <1>1, FS_Interval
<1>7. SetToSeq(S) \in Surjection(1..n, S)
  BY <1>5, <1>6, FS_Injection
<1>8. Range(SetToSeq(S)) = S
  BY <1>4, <1>7 DEF Surjection, Range
<1> QED
  BY <1>1, <1>4, <1>8

LEMMA SpecsParts ==
  ASSUME NEW f \in [Name -> Def \cup {Absent}]
  PROVE  /\ Specs(f) \in Seq([name : Name, def : Def])
         /\ \A s \in Range(Specs(f)) : s.def = f[s.name]
         /\ \A n \in Name : n \in Names(Specs(f)) <=> f[n] # Absent
<1> DEFINE N == {m \in Name : f[m] # Absent}
           S == {[name |-> n, def |-> f[n]] : n \in N}
<1>1. IsFiniteSet(N)
  BY FS_Subset, McpAssumption
<1>2. IsFiniteSet(S)
  <2> DEFINE g == [n \in N |-> [name |-> n, def |-> f[n]]]
  <2>1. g \in Surjection(N, S)
    BY DEF Surjection
  <2> QED
    BY <1>1, <2>1, FS_Surjection
<1>3. S \subseteq [name : Name, def : Def]
  OBVIOUS
<1>4. Specs(f) \in Seq(S) /\ Range(Specs(f)) = S
  BY <1>2, SetAsSeq DEF Specs
<1>5. Names(Specs(f)) = {s.name : s \in Range(Specs(f))}
  BY Zenon DEF Names, Range
<1>6. ASSUME NEW s \in S PROVE s.def = f[s.name] /\ s.name \in N
  OBVIOUS
<1>7. ASSUME NEW n \in N PROVE \E s \in S : s.name = n
  <2>1. [name |-> n, def |-> f[n]] \in S
    OBVIOUS
  <2> QED
    BY <2>1
<1>8. Specs(f) \in Seq([name : Name, def : Def])
  <2> HIDE DEF S
  <2> DEFINE T == [name : Name, def : Def]
  <2>1. S \subseteq T
    BY <1>3
  <2> HIDE DEF T
  <2>2. Specs(f) \in Seq(T)
    BY <1>4, <2>1
  <2> QED
    BY <2>2 DEF T
<1>9. \A n \in Name : n \in Names(Specs(f)) <=> n \in N
  BY <1>4, <1>5, <1>6, <1>7
<1> QED
  BY <1>4, <1>6, <1>8, <1>9

LEMMA TailParts ==
  ASSUME NEW T, NEW q \in Seq(T), q # <<>>
  PROVE  /\ Head(q) \in T /\ Head(q) \in Range(q) /\ Head(q).name \in Names(q)
         /\ Tail(q) \in Seq(T)
         /\ Range(Tail(q)) \subseteq Range(q)
         /\ Names(Tail(q)) \subseteq Names(q)
         /\ Names(q) \subseteq Names(Tail(q)) \cup {Head(q).name}
<1>1. Len(q) \in Nat /\ Len(q) >= 1 /\ DOMAIN q = 1..Len(q) /\ 1 \in DOMAIN q /\ Head(q) = q[1]
  OBVIOUS
<1>2. Len(Tail(q)) = Len(q) - 1 /\ DOMAIN Tail(q) = 1..Len(q) - 1 /\ Tail(q) \in Seq(T)
  OBVIOUS
<1>3. \A i \in DOMAIN Tail(q) : i + 1 \in DOMAIN q /\ Tail(q)[i] = q[i + 1]
  BY <1>1, <1>2
<1>4. \A j \in DOMAIN q : j # 1 => j - 1 \in DOMAIN Tail(q) /\ Tail(q)[j - 1] = q[j]
  BY <1>1, <1>2
<1>5. Head(q) \in T /\ Head(q) \in Range(q) /\ Head(q).name \in Names(q)
  <2>1. q[1] \in T
    BY <1>1
  <2> QED
    BY <1>1, <2>1 DEF Range, Names
<1>6. Range(Tail(q)) \subseteq Range(q)
  BY <1>3 DEF Range
<1>7. Names(Tail(q)) \subseteq Names(q)
  BY <1>3 DEF Names
<1>8. Names(q) \subseteq Names(Tail(q)) \cup {Head(q).name}
  <2>1. ASSUME NEW j \in DOMAIN q PROVE q[j].name \in Names(Tail(q)) \cup {Head(q).name}
    <3>1. CASE j = 1
      BY <1>1, <3>1
    <3>2. CASE j # 1
      <4>1. j - 1 \in DOMAIN Tail(q) /\ Tail(q)[j - 1].name = q[j].name
        BY <1>4, <3>2
      <4> QED
        BY <4>1, Zenon DEF Names
    <3> QED
      BY <3>1, <3>2
  <2> QED
    BY <2>1, Zenon DEF Names
<1> QED
  BY <1>2, <1>5, <1>6, <1>7, <1>8

LEMMA McpInitHolds == McpInit => McpInv
<1> SUFFICES ASSUME McpInit PROVE McpInv
  OBVIOUS
<1>1. file \in [Name -> Def \cup {Absent}] /\ wanted = file
  BY DEF McpInit
<1>2. due["starter"] = Specs(file) /\ due["watcher"] = <<>> /\ DOMAIN due = Task
  BY DEF McpInit, Task
<1>3. Names(<<>>) = {} /\ Range(<<>>) = {}
  BY DEF Names, Range
<1>4. /\ Specs(file) \in Seq([name : Name, def : Def])
      /\ \A s \in Range(Specs(file)) : s.def = file[s.name]
      /\ \A n \in Name : n \in Names(Specs(file)) <=> file[n] # Absent
  BY <1>1, SpecsParts
<1>5. McpTypeOK
  BY <1>1, <1>4 DEF McpInit, McpTypeOK
<1>6. WorkInv /\ HeldInv
  BY DEF McpInit, WorkInv, HeldInv, Launches
<1>7. ASSUME NEW n \in Name PROVE Sound(n)
  BY <1>1, <1>2, <1>3, <1>4 DEF McpInit, Sound, AtRest, UnderWay, Launches, Task
<1> QED
  BY <1>5, <1>6, <1>7 DEF McpInv

LEMMA MineIs ==
  ASSUME McpInv, NEW t \in Task, NEW i \in DOMAIN made, IsMine(t, i)
  PROVE  Mine(t) = i
<1>1. made \in Seq([name : Name, def : Def, by : Task])
  BY DEF McpInv, McpTypeOK
<1>2. i \in Nat /\ made[i].by = t /\ \A j \in DOMAIN made : made[j].by = t => j <= i
  BY <1>1 DEF IsMine
<1>3. ASSUME NEW k \in DOMAIN made, made[k].by = t, \A j \in DOMAIN made : made[j].by = t => j <= k
      PROVE  k = i
  <2>1. k <= i /\ i <= k /\ k \in Nat
    BY <1>1, <1>2, <1>3
  <2> QED
    BY <1>2, <2>1
<1> QED
  BY <1>2, <1>3 DEF Mine

\* Whatever leaves the servers, the tasks and the configuration alone.
LEMMA QuietStep ==
  ASSUME McpInv, UNCHANGED <<wanted, due, doing, sweep, held, made, alive, raced, missed>>,
         file' \in [Name -> Def \cup {Absent}], busy' \subseteq alive
  PROVE  McpInv'
<1>1. McpTypeOK'
  BY DEF McpInv, McpTypeOK
<1>2. WorkInv' /\ HeldInv'
  BY DEF McpInv, WorkInv, HeldInv, Launches, IsMine, Item
<1>3. \A n \in (Name \ raced)' : Sound(n)'
  BY DEF McpInv, Sound, AtRest, UnderWay, Launches, IsMine, Item
<1> QED
  BY <1>1, <1>2, <1>3 DEF McpInv

\* Task t is through with its first name.
LEMMA DropParts ==
  ASSUME McpInv, NEW t \in Task, due[t] # <<>>, due' = [due EXCEPT ![t] = Tail(@)]
  PROVE  /\ due' \in [Task -> Seq([name : Name, def : Def])]
         /\ Item(t).name \in Name /\ Item(t).def \in Def
         /\ Item(t) \in Range(due[t]) /\ Item(t).name \in Names(due[t])
         /\ \A u \in Task : /\ Range(due'[u]) \subseteq Range(due[u])
                           /\ Names(due'[u]) \subseteq Names(due[u])
                           /\ Names(due[u]) \subseteq Names(due'[u]) \cup {Item(t).name}
         /\ \A u \in Task \ {t} : due'[u] = due[u] /\ Item(u)' = Item(u)
<1> DEFINE T == [name : Name, def : Def]
           q == due[t]
<1>1. due \in [Task -> Seq(T)]
  BY DEF McpInv, McpTypeOK
<1> HIDE DEF T
<1>2. q \in Seq(T) /\ q # <<>> /\ due'[t] = Tail(q) /\ \A u \in Task \ {t} : due'[u] = due[u]
  BY <1>1
<1>3. /\ Head(q) \in T /\ Head(q) \in Range(q) /\ Head(q).name \in Names(q)
      /\ Tail(q) \in Seq(T)
      /\ Range(Tail(q)) \subseteq Range(q)
      /\ Names(Tail(q)) \subseteq Names(q)
      /\ Names(q) \subseteq Names(Tail(q)) \cup {Head(q).name}
  BY <1>2, TailParts
<1>4. due' \in [Task -> Seq(T)]
  BY <1>1, <1>2, <1>3
<1>5. Item(t) = Head(q) /\ \A u \in Task \ {t} : Item(u)' = Item(u)
  BY <1>2 DEF Item
<1>6. Head(q).name \in Name /\ Head(q).def \in Def
  BY <1>3 DEF T
<1> HIDE DEF q
<1> QED
  <2>1. \A u \in Task : /\ Range(due'[u]) \subseteq Range(due[u])
                       /\ Names(due'[u]) \subseteq Names(due[u])
                       /\ Names(due[u]) \subseteq Names(due'[u]) \cup {Item(t).name}
    <3> SUFFICES ASSUME NEW u \in Task
                 PROVE  /\ Range(due'[u]) \subseteq Range(due[u])
                        /\ Names(due'[u]) \subseteq Names(due[u])
                        /\ Names(due[u]) \subseteq Names(due'[u]) \cup {Item(t).name}
      OBVIOUS
    <3>1. CASE u = t
      BY <1>2, <1>3, <1>5, <3>1 DEF q
    <3>2. CASE u # t
      BY <1>2, <3>2
    <3> QED
      BY <3>1, <3>2
  <2> QED
    BY <1>2, <1>3, <1>4, <1>5, <1>6, <2>1 DEF T, q

LEMMA AlreadyHeldStep ==
  ASSUME McpInv, NEW t \in Task, AlreadyHeld(t)
  PROVE  McpInv'
<1>1. due[t] # <<>> /\ doing[t] = "nothing" /\ due' = [due EXCEPT ![t] = Tail(@)]
  BY DEF AlreadyHeld, Ready
<1>2. UNCHANGED <<file, wanted, doing, sweep, held, made, alive, busy, raced, missed>>
  BY DEF AlreadyHeld
<1>3. held[Item(t).name] # 0 /\ made[held[Item(t).name]].def = Item(t).def
  BY DEF AlreadyHeld, Settled
<1>4. /\ due' \in [Task -> Seq([name : Name, def : Def])]
      /\ Item(t).name \in Name /\ Item(t).def \in Def
      /\ Item(t) \in Range(due[t]) /\ Item(t).name \in Names(due[t])
      /\ \A u \in Task : /\ Range(due'[u]) \subseteq Range(due[u])
                        /\ Names(due'[u]) \subseteq Names(due[u])
                        /\ Names(due[u]) \subseteq Names(due'[u]) \cup {Item(t).name}
      /\ \A u \in Task \ {t} : due'[u] = due[u] /\ Item(u)' = Item(u)
  BY <1>1, DropParts
<1>5. McpTypeOK'
  BY <1>2, <1>4 DEF McpInv, McpTypeOK
<1>6. HeldInv'
  BY <1>2 DEF McpInv, HeldInv
<1>7. \A u \in Task : Launches(u) => u # t
  BY <1>1 DEF Launches
<1>8. \A u \in Task \ {t} : (Launches(u) <=> Launches(u)') /\ \A i : IsMine(u, i) <=> IsMine(u, i)'
  BY <1>2, <1>4 DEF Launches, IsMine
<1>9. WorkInv'
  BY <1>1, <1>2, <1>4, <1>7, <1>8 DEF McpInv, WorkInv, Launches
<1>10. ASSUME NEW n \in Name \ raced PROVE Sound(n)'
  <2>1. Sound(n)
    BY <1>10 DEF McpInv
  <2>2. UnderWay(n)' <=> UnderWay(n)
    BY <1>1, <1>2, <1>4, <1>7, <1>8 DEF UnderWay, Launches
  <2>3. n # Item(t).name => (AtRest(n)' <=> AtRest(n))
    BY <1>2, <1>4 DEF AtRest
  <2>4. n = Item(t).name => wanted[n] = Item(t).def
    BY <1>4, <2>1 DEF Sound
  <2>5. \A i : (\E u \in Task : doing[u] = "register" /\ Item(u).name = n /\ IsMine(u, i)) =>
                (\E u \in Task : doing'[u] = "register" /\ Item(u)'.name = n /\ IsMine(u, i)')
    BY <1>1, <1>2, <1>4, <1>8
  <2>6. Absent \notin Def
    BY McpAssumption
  <2> QED
    BY <1>2, <1>3, <1>4, <2>1, <2>2, <2>3, <2>4, <2>5, <2>6 DEF Sound
<1> QED
  BY <1>2, <1>5, <1>6, <1>9, <1>10 DEF McpInv

LEMMA WorkParts ==
  ASSUME McpInv, NEW t \in Task, doing[t] \in {"stop", "start", "register"}
  PROVE  /\ due[t] # <<>>
         /\ Item(t).name \in Name /\ Item(t).def \in Def
         /\ Item(t) \in Range(due[t]) /\ Item(t).name \in Names(due[t])
<1> DEFINE T == [name : Name, def : Def]
<1>1. due[t] \in Seq(T) /\ due[t] # <<>>
  BY DEF McpInv, McpTypeOK, WorkInv
<1> HIDE DEF T
<1>2. Head(due[t]) \in T /\ Head(due[t]) \in Range(due[t]) /\ Head(due[t]).name \in Names(due[t])
  BY <1>1, TailParts
<1> QED
  BY <1>1, <1>2 DEF Item, T

LEMMA StartFailsStep ==
  ASSUME McpInv, NEW t \in Task, StartFails(t)
  PROVE  McpInv'
<1>1. due[t] # <<>> /\ doing[t] = "start" /\ due' = [due EXCEPT ![t] = Tail(@)]
  BY WorkParts DEF StartFails
<1>2. /\ UNCHANGED <<file, wanted, sweep, held, made, alive, busy, raced>>
      /\ missed' = missed \cup {Item(t).name} /\ doing' = [doing EXCEPT ![t] = "nothing"]
  BY DEF StartFails
<1>3. doing'[t] = "nothing" /\ \A u \in Task \ {t} : doing'[u] = doing[u]
  BY <1>2 DEF McpInv, McpTypeOK
<1>4. /\ due' \in [Task -> Seq([name : Name, def : Def])]
      /\ Item(t).name \in Name /\ Item(t).def \in Def
      /\ Item(t) \in Range(due[t]) /\ Item(t).name \in Names(due[t])
      /\ \A u \in Task : /\ Range(due'[u]) \subseteq Range(due[u])
                        /\ Names(due'[u]) \subseteq Names(due[u])
                        /\ Names(due[u]) \subseteq Names(due'[u]) \cup {Item(t).name}
      /\ \A u \in Task \ {t} : due'[u] = due[u] /\ Item(u)' = Item(u)
  BY <1>1, DropParts
<1>5. McpTypeOK'
  BY <1>2, <1>4 DEF McpInv, McpTypeOK
<1>6. HeldInv'
  BY <1>2 DEF McpInv, HeldInv
<1>7. ~Launches(t)' /\ Launches(t)
  BY <1>1, <1>3 DEF Launches
<1>8. \A u \in Task \ {t} : (Launches(u) <=> Launches(u)') /\ \A i : IsMine(u, i) <=> IsMine(u, i)'
  BY <1>2, <1>3, <1>4 DEF Launches, IsMine
<1>9. WorkInv'
  BY <1>1, <1>2, <1>3, <1>4, <1>7, <1>8 DEF McpInv, WorkInv
<1>10. ASSUME NEW n \in Name \ raced PROVE Sound(n)'
  <2>1. Sound(n)
    BY <1>10 DEF McpInv
  <2>2. (UnderWay(n)' => UnderWay(n)) /\ (n # Item(t).name /\ UnderWay(n) => UnderWay(n)')
    BY <1>4, <1>7, <1>8 DEF UnderWay
  <2>3. n # Item(t).name => (AtRest(n)' <=> AtRest(n))
    BY <1>2, <1>4 DEF AtRest
  <2>4. n = Item(t).name => UnderWay(n) /\ wanted[n] = Item(t).def
    BY <1>4, <1>7, <2>1 DEF Sound, UnderWay
  <2>5. \A i : (\E u \in Task : doing[u] = "register" /\ Item(u).name = n /\ IsMine(u, i)) =>
                (\E u \in Task : doing'[u] = "register" /\ Item(u)'.name = n /\ IsMine(u, i)')
    BY <1>1, <1>3, <1>4, <1>8
  <2>6. Absent \notin Def
    BY McpAssumption
  <2> QED
    BY <1>2, <1>4, <2>1, <2>2, <2>3, <2>4, <2>5, <2>6 DEF Sound
<1> QED
  BY <1>2, <1>5, <1>6, <1>9, <1>10 DEF McpInv

LEMMA RegisterStep ==
  ASSUME McpInv, NEW t \in Task, Register(t)
  PROVE  McpInv'
<1>1. due[t] # <<>> /\ doing[t] = "register" /\ due' = [due EXCEPT ![t] = Tail(@)]
  BY WorkParts DEF Register
<1>2. /\ UNCHANGED <<file, wanted, sweep, made, alive, busy, raced>>
      /\ missed' = missed \ {Item(t).name} /\ doing' = [doing EXCEPT ![t] = "nothing"]
      /\ held' = [held EXCEPT ![Item(t).name] = Mine(t)]
  BY DEF Register
<1>3. doing'[t] = "nothing" /\ \A u \in Task \ {t} : doing'[u] = doing[u]
  BY <1>2 DEF McpInv, McpTypeOK
<1>4. /\ due' \in [Task -> Seq([name : Name, def : Def])]
      /\ Item(t).name \in Name /\ Item(t).def \in Def
      /\ Item(t) \in Range(due[t]) /\ Item(t).name \in Names(due[t])
      /\ \A u \in Task : /\ Range(due'[u]) \subseteq Range(due[u])
                        /\ Names(due'[u]) \subseteq Names(due[u])
                        /\ Names(due[u]) \subseteq Names(due'[u]) \cup {Item(t).name}
      /\ \A u \in Task \ {t} : due'[u] = due[u] /\ Item(u)' = Item(u)
  BY <1>1, DropParts
<1>5. PICK i \in DOMAIN made : IsMine(t, i)
  BY <1>1 DEF McpInv, WorkInv, Launches
<1>6. /\ Mine(t) = i /\ i \in Nat /\ i \in alive
      /\ made[i].name = Item(t).name /\ made[i].def = Item(t).def /\ made[i].by = t
  <2>1. made \in Seq([name : Name, def : Def, by : Task])
    BY DEF McpInv, McpTypeOK
  <2> QED
    BY <1>1, <1>5, <2>1, MineIs DEF IsMine
<1>7. held'[Item(t).name] = i /\ \A n \in Name : n # Item(t).name => held'[n] = held[n]
  BY <1>2, <1>4, <1>6 DEF McpInv, McpTypeOK
<1>8. McpTypeOK'
  BY <1>2, <1>4, <1>6 DEF McpInv, McpTypeOK
<1>9. HeldInv'
  BY <1>2, <1>5, <1>6, <1>7 DEF McpInv, HeldInv
<1>10. ~Launches(t)' /\ Launches(t)
  BY <1>1, <1>3 DEF Launches
<1>11. \A u \in Task \ {t} : Launches(u) <=> Launches(u)'
  BY <1>3 DEF Launches
<1>12. ASSUME NEW u \in Task \ {t}, NEW j, IsMine(u, j) PROVE IsMine(u, j)'
  <2>1. made[j].by = u
    BY <1>12 DEF IsMine
  <2>2. \A n \in Name : held'[n] # j
    BY <1>6, <1>7, <1>12, <2>1 DEF IsMine
  <2> QED
    BY <1>2, <1>3, <1>4, <1>12, <2>2 DEF IsMine
<1>13. WorkInv'
  BY <1>1, <1>2, <1>3, <1>4, <1>10, <1>11, <1>12 DEF McpInv, WorkInv
<1>14. ASSUME NEW n \in Name \ raced, n # Item(t).name PROVE Sound(n)'
  <2>1. Sound(n)
    BY <1>14 DEF McpInv
  <2>2. UnderWay(n)' <=> UnderWay(n)
    BY <1>4, <1>10, <1>11, <1>14 DEF UnderWay
  <2>3. AtRest(n)' <=> AtRest(n)
    BY <1>2, <1>4, <1>14 DEF AtRest
  <2>4. \A j : (\E u \in Task : doing[u] = "register" /\ Item(u).name = n /\ IsMine(u, j)) =>
                (\E u \in Task : doing'[u] = "register" /\ Item(u)'.name = n /\ IsMine(u, j)')
    BY <1>3, <1>4, <1>12, <1>14
  <2> QED
    BY <1>2, <1>4, <1>7, <1>14, <2>1, <2>2, <2>3, <2>4 DEF Sound
<1>15. ASSUME NEW n \in Name \ raced, n = Item(t).name PROVE Sound(n)'
  <2>1. Sound(n)
    BY <1>15 DEF McpInv
  <2>2. \A u \in Task \ {t} : n \notin Names(due[u])
    BY <1>4, <1>15, <2>1 DEF Sound, Task
  <2>3. \A u \in Task \ {t} : doing[u] \in {"stop", "start", "register"} => Item(u).name # n
    BY <2>2, WorkParts
  <2>4. UnderWay(n) /\ held[n] \notin alive /\ wanted[n] = Item(t).def
    BY <1>4, <1>10, <1>15, <2>1 DEF Sound, UnderWay
  <2>5. ~UnderWay(n)'
    BY <1>3, <1>4, <1>10, <1>11, <2>3 DEF UnderWay, Launches
  <2>6. ASSUME NEW j \in alive, made[j].name = n PROVE j = i
    <3>1. PICK u \in Task : doing[u] = "register" /\ Item(u).name = n /\ IsMine(u, j)
      BY <2>1, <2>4, <2>6 DEF Sound
    <3>2. u = t /\ j \in DOMAIN made
      BY <2>3, <3>1 DEF McpInv, McpTypeOK
    <3> QED
      BY <1>6, <3>1, <3>2, MineIs
  <2>7. held'[n] = i /\ i # 0 /\ n \notin missed' /\ wanted[n] # Absent
    BY <1>2, <1>4, <1>5, <1>7, <1>15, <2>4, McpAssumption DEF McpInv, McpTypeOK
  <2> QED
    BY <1>2, <1>4, <1>6, <1>15, <2>1, <2>4, <2>5, <2>6, <2>7 DEF Sound
<1> QED
  BY <1>2, <1>8, <1>9, <1>13, <1>14, <1>15 DEF McpInv

\* Task t makes a server for its first name; one held under that name has stopped.
LEMMA MakeStep ==
  ASSUME McpInv, NEW t \in Task, due[t] # <<>>, doing[t] \in {"nothing", "stop"},
         NewServer(t), doing' = [doing EXCEPT ![t] = "start"],
         held[Item(t).name] \notin busy, alive' = alive \ {held[Item(t).name]},
         UNCHANGED <<file, wanted, due, sweep, held, busy, raced, missed>>
  PROVE  McpInv'
<1> DEFINE Server == [name : Name, def : Def, by : Task]
<1>s. PICK s : s = [name |-> Item(t).name, def |-> Item(t).def, by |-> t]
  OBVIOUS
<1>l. PICK L : L = Len(made) + 1
  OBVIOUS
<1>0. Item(t).name \in Name /\ Item(t).def \in Def
  <2> DEFINE T == [name : Name, def : Def]
  <2>1. due[t] \in Seq(T)
    BY DEF McpInv, McpTypeOK
  <2> HIDE DEF T
  <2>2. Head(due[t]) \in T
    BY <2>1
  <2> QED
    BY <2>2 DEF Item, T
<1>1. s \in Server /\ made \in Seq(Server) /\ made' = Append(made, s)
  BY <1>s, <1>0 DEF McpInv, McpTypeOK, NewServer
<1> HIDE DEF Server
<1>2. /\ made' \in Seq(Server) /\ DOMAIN made' = DOMAIN made \cup {L} /\ made'[L] = s
      /\ \A i \in DOMAIN made : made'[i] = made[i]
      /\ \A i \in DOMAIN made : i < L /\ i \in Nat
      /\ L \notin DOMAIN made /\ L # 0 /\ L \in Nat /\ 0 \notin DOMAIN made
  BY <1>l, <1>1
<1>3. s.name = Item(t).name /\ s.def = Item(t).def /\ s.by = t
  BY <1>s
<1>4. doing'[t] = "start" /\ \A u \in Task \ {t} : doing'[u] = doing[u]
  BY DEF McpInv, McpTypeOK
<1>5. \A u \in Task : Item(u)' = Item(u)
  BY DEF Item
<1>6. McpTypeOK'
  BY <1>1, <1>2 DEF McpInv, McpTypeOK, Server
<1>7. HeldInv'
  BY <1>2 DEF McpInv, HeldInv
<1>8. ~Launches(t) /\ Launches(t)'
  BY <1>4 DEF Launches
<1>9. \A u \in Task \ {t} : Launches(u) <=> Launches(u)'
  BY <1>4 DEF Launches
<1>10. ASSUME NEW u \in Task \ {t}, NEW i \in DOMAIN made, IsMine(u, i) PROVE IsMine(u, i)'
  <2>1. \A j \in DOMAIN made' : made'[j].by = u => j <= i
    BY <1>2, <1>3, <1>10 DEF IsMine
  <2>2. doing[u] = "register" => i \in alive'
    BY <1>0, <1>10 DEF IsMine
  <2> QED
    BY <1>2, <1>4, <1>5, <1>10, <2>1, <2>2 DEF IsMine
<1>11. IsMine(t, L)'
  <2>1. \A n \in Name : held[n] # L
    BY <1>2 DEF McpInv, HeldInv
  <2>2. \A j \in DOMAIN made' : j <= L
    BY <1>2
  <2> QED
    BY <1>s, <1>2, <1>4, <1>5, <2>1, <2>2 DEF IsMine
<1>12. WorkInv'
  BY <1>2, <1>4, <1>8, <1>9, <1>10, <1>11 DEF McpInv, WorkInv
<1>13. ASSUME NEW n \in Name \ raced PROVE Sound(n)'
  <2>1. Sound(n) /\ alive \subseteq DOMAIN made
    BY <1>13 DEF McpInv, McpTypeOK
  <2>2. (UnderWay(n) => UnderWay(n)') /\ (n # Item(t).name => (UnderWay(n)' <=> UnderWay(n)))
    BY <1>5, <1>8, <1>9 DEF UnderWay
  <2>3. n = Item(t).name => UnderWay(n)'
    BY <1>5, <1>8 DEF UnderWay
  <2>4. AtRest(n)' <=> AtRest(n)
    BY DEF AtRest
  <2>5. \A i \in DOMAIN made :
          (\E u \in Task : doing[u] = "register" /\ Item(u).name = n /\ IsMine(u, i)) =>
          (\E u \in Task : doing'[u] = "register" /\ Item(u)'.name = n /\ IsMine(u, i)')
    BY <1>4, <1>5, <1>10
  <2>6. n = Item(t).name => held[n] \notin alive'
    OBVIOUS
  <2>7. held[n] # 0 /\ n # Item(t).name => held[n] # held[Item(t).name]
    BY <1>0 DEF McpInv, HeldInv
  <2>8. held[n] # 0 => made'[held[n]] = made[held[n]]
    BY <1>2 DEF McpInv, HeldInv
  <2>9. \A i \in alive' : i \in alive /\ made'[i] = made[i]
    BY <1>2, <2>1
  <2> QED
    BY <1>2, <2>1, <2>2, <2>3, <2>4, <2>5, <2>6, <2>7, <2>8, <2>9 DEF Sound
<1> QED
  BY <1>6, <1>7, <1>12, <1>13 DEF McpInv

LEMMA OtherStoppedStep ==
  ASSUME McpInv, NEW t \in Task, OtherStopped(t)
  PROVE  McpInv'
BY WorkParts, MakeStep DEF OtherStopped

LEMMA StartNewStep ==
  ASSUME McpInv, NEW t \in Task, StartNew(t)
  PROVE  McpInv'
<1>1. 0 \notin alive /\ busy \subseteq alive
  BY DEF McpInv, McpTypeOK
<1>2. alive' = alive \ {held[Item(t).name]} /\ held[Item(t).name] \notin busy
  BY <1>1 DEF StartNew
<1> QED
  BY <1>2, MakeStep DEF StartNew, Ready

LEMMA StopOtherStep ==
  ASSUME McpInv, NEW t \in Task, StopOther(t)
  PROVE  McpInv'
<1>1. doing[t] = "nothing" /\ due[t] # <<>> /\ doing' = [doing EXCEPT ![t] = "stop"]
  BY DEF StopOther, Ready
<1>2. UNCHANGED <<file, wanted, due, sweep, held, made, alive, busy, raced, missed>>
  BY DEF StopOther
<1>3. doing'[t] = "stop" /\ \A u \in Task \ {t} : doing'[u] = doing[u]
  BY <1>1 DEF McpInv, McpTypeOK
<1>4. McpTypeOK'
  BY <1>1, <1>2 DEF McpInv, McpTypeOK
<1>5. \A u \in Task : /\ Item(u)' = Item(u) /\ (Launches(u)' <=> Launches(u))
                     /\ (doing'[u] = "register" <=> doing[u] = "register")
                     /\ \A i : IsMine(u, i)' <=> IsMine(u, i)
  BY <1>1, <1>2, <1>3 DEF Item, Launches, IsMine
<1>6. WorkInv' /\ HeldInv'
  BY <1>1, <1>2, <1>3, <1>5 DEF McpInv, WorkInv, HeldInv
<1>7. ASSUME NEW n \in Name \ raced PROVE Sound(n)'
  <2>1. Sound(n) /\ (UnderWay(n)' <=> UnderWay(n)) /\ (AtRest(n)' <=> AtRest(n))
    BY <1>2, <1>5 DEF McpInv, UnderWay, AtRest
  <2> QED
    BY <1>2, <1>5, <2>1 DEF Sound
<1> QED
  BY <1>2, <1>4, <1>6, <1>7 DEF McpInv

LEMMA StartedStep ==
  ASSUME McpInv, NEW t \in Task, Started(t)
  PROVE  McpInv'
<1>1. PICK i \in DOMAIN made : IsMine(t, i)
  BY DEF McpInv, WorkInv, Launches, Started
<1>2. /\ Mine(t) = i /\ made[i].name = Item(t).name /\ made[i].by = t
      /\ \A n \in Name : held[n] # i
  BY <1>1, MineIs DEF IsMine
<1>3. /\ UNCHANGED <<file, wanted, due, sweep, held, made, busy, raced, missed>>
      /\ doing[t] = "start" /\ alive' = alive \cup {i} /\ doing' = [doing EXCEPT ![t] = "register"]
  BY <1>2 DEF Started
<1>4. doing'[t] = "register" /\ \A u \in Task \ {t} : doing'[u] = doing[u]
  BY <1>3 DEF McpInv, McpTypeOK
<1>5. McpTypeOK'
  BY <1>1, <1>3 DEF McpInv, McpTypeOK
<1>6. \A u \in Task : Item(u)' = Item(u) /\ (Launches(u)' <=> Launches(u))
  BY <1>3, <1>4 DEF Item, Launches
<1>7. \A u \in Task \ {t} : \A j : IsMine(u, j) => IsMine(u, j)'
  BY <1>3, <1>4, <1>6 DEF IsMine
<1>8. IsMine(t, i)'
  BY <1>1, <1>3, <1>6 DEF IsMine
<1>9. WorkInv' /\ HeldInv'
  <2>1. WorkInv'
    BY <1>1, <1>3, <1>4, <1>6, <1>7, <1>8 DEF McpInv, WorkInv
  <2> QED
    BY <1>3, <2>1 DEF McpInv, HeldInv
<1>10. ASSUME NEW n \in Name \ raced PROVE Sound(n)'
  <2>1. Sound(n) /\ (UnderWay(n)' <=> UnderWay(n)) /\ (AtRest(n)' <=> AtRest(n))
    BY <1>3, <1>6, <1>10 DEF McpInv, UnderWay, AtRest
  <2>2. \A j : (\E u \in Task : doing[u] = "register" /\ Item(u).name = n /\ IsMine(u, j)) =>
                (\E u \in Task : doing'[u] = "register" /\ Item(u)'.name = n /\ IsMine(u, j)')
    BY <1>3, <1>4, <1>6, <1>7
  <2>3. made[i].name = n => \E u \in Task : doing'[u] = "register" /\ Item(u)'.name = n /\ IsMine(u, i)'
    BY <1>2, <1>4, <1>6, <1>8
  <2>4. held[n] \in alive' <=> held[n] \in alive
    BY <1>2, <1>3
  <2> QED
    BY <1>3, <2>1, <2>2, <2>3, <2>4 DEF Sound
<1> QED
  BY <1>3, <1>5, <1>9, <1>10 DEF McpInv

LEMMA ReloadStep ==
  ASSUME McpInv, ReloadConfig
  PROVE  McpInv'
<1>1. /\ UNCHANGED <<file, doing, held, made, alive, busy, missed>> /\ wanted' = file
      /\ doing["watcher"] = "nothing"
      /\ sweep = {} /\ sweep' = {n \in Name : held[n] # 0 /\ file[n] = Absent}
      /\ due["watcher"] = <<>> /\ due' = [due EXCEPT !["watcher"] = Specs(file)]
      /\ raced' = raced \cup Names(due["starter"])
  BY DEF ReloadConfig, Quiet
<1>2. file \in [Name -> Def \cup {Absent}] /\ Absent \notin Def /\ DOMAIN due = Task
  BY McpAssumption DEF McpInv, McpTypeOK
<1>3. /\ Specs(file) \in Seq([name : Name, def : Def])
      /\ \A s \in Range(Specs(file)) : s.def = file[s.name]
      /\ \A n \in Name : n \in Names(Specs(file)) <=> file[n] # Absent
  BY <1>2, SpecsParts
<1>4. due'["watcher"] = Specs(file) /\ due'["starter"] = due["starter"]
  BY <1>1, <1>2 DEF Task
<1>5. McpTypeOK'
  BY <1>1, <1>3 DEF McpInv, McpTypeOK
<1>6. doing["watcher"] = "nothing" /\ ~Launches("watcher")
  BY <1>1 DEF McpInv, WorkInv, Launches, Task
<1>7. Item("starter")' = Item("starter") /\ \A t \in Task : Launches(t)' <=> Launches(t)
  BY <1>1, <1>4 DEF Item, Launches
<1>8. \A i : IsMine("starter", i)' <=> IsMine("starter", i)
  BY <1>1, <1>7 DEF IsMine
<1>9. WorkInv' /\ HeldInv'
  BY <1>1, <1>4, <1>6, <1>7, <1>8 DEF McpInv, WorkInv, HeldInv, Task
<1>10. ASSUME NEW n \in Name \ raced' PROVE Sound(n)'
  <2>1. Sound(n) /\ n \notin Names(due["starter"]) /\ Names(<<>>) = {} /\ Range(<<>>) = {}
    BY <1>1, <1>10 DEF McpInv, Names, Range
  <2>2. AtRest(n) /\ (AtRest(n)' => file[n] = Absent /\ held[n] = 0)
    BY <1>1, <1>3, <1>4, <1>10, <2>1 DEF AtRest, Task
  <2>3. \A t \in Task : doing[t] \in {"stop", "start", "register"} => Item(t).name # n
    BY <1>1, <2>1, <1>6, WorkParts DEF Task
  <2>4. ~UnderWay(n)' /\ ~UnderWay(n)
    BY <1>6, <1>7, <2>3 DEF UnderWay, Launches, Task
  <2>5. \A s \in Range(due["starter"]) : s.name # n
    BY <2>1 DEF Names, Range
  <2>6. \A t \in Task : \A s \in Range(due'[t]) : s.name = n => s.def = file[n]
    BY <1>3, <1>4, <2>5 DEF Task
  <2>7. \A i \in alive : made[i].name = n => i = held[n]
    BY <2>1, <2>3 DEF Sound
  <2>8. 0 \notin alive
    BY DEF McpInv, McpTypeOK
  <2>9. \E t \in Task : n \notin Names(due'[t])
    BY <1>4, <2>1 DEF Task
  <2> QED
    BY <1>1, <2>1, <2>2, <2>4, <2>6, <2>7, <2>8, <2>9 DEF Sound
<1> QED
  BY <1>5, <1>9, <1>10 DEF McpInv

LEMMA RemovedStep ==
  ASSUME McpInv, NEW m \in Name, Removed(m)
  PROVE  McpInv'
<1>1. /\ UNCHANGED <<file, wanted, due, doing, made, busy, raced, missed>>
      /\ m \in sweep /\ held[m] \notin busy /\ alive' = alive \ {held[m]}
      /\ held' = [held EXCEPT ![m] = 0] /\ sweep' = sweep \ {m}
  BY DEF Removed
<1>2. held'[m] = 0 /\ \A n \in Name : n # m => held'[n] = held[n]
  BY <1>1 DEF McpInv, McpTypeOK
<1>3. 0 \notin alive /\ alive \subseteq DOMAIN made /\ 0 \notin DOMAIN made
  BY DEF McpInv, McpTypeOK
<1>4. McpTypeOK'
  BY <1>1 DEF McpInv, McpTypeOK
<1>5. \A t \in Task : Item(t)' = Item(t) /\ (Launches(t)' <=> Launches(t))
  BY <1>1 DEF Item, Launches
<1>6. ASSUME NEW t \in Task, NEW i \in DOMAIN made, IsMine(t, i) PROVE IsMine(t, i)'
  <2>1. \A n \in Name : held'[n] # i
    BY <1>2, <1>3, <1>6 DEF IsMine
  <2>2. doing[t] = "register" => i \in alive'
    BY <1>1, <1>6 DEF IsMine
  <2> QED
    BY <1>1, <1>5, <1>6, <2>1, <2>2 DEF IsMine
<1>7. WorkInv' /\ HeldInv'
  <2>1. WorkInv'
    BY <1>1, <1>5, <1>6 DEF McpInv, WorkInv
  <2> QED
    BY <1>1, <1>2, <2>1 DEF McpInv, HeldInv
<1>8. ASSUME NEW n \in Name \ raced PROVE Sound(n)'
  <2>1. Sound(n)
    BY <1>8 DEF McpInv
  <2>2. UnderWay(n)' <=> UnderWay(n)
    BY <1>5 DEF UnderWay
  <2>3. n # m => (AtRest(n)' <=> AtRest(n))
    BY <1>1 DEF AtRest
  <2>4. \A i \in DOMAIN made :
          (\E u \in Task : doing[u] = "register" /\ Item(u).name = n /\ IsMine(u, i)) =>
          (\E u \in Task : doing'[u] = "register" /\ Item(u)'.name = n /\ IsMine(u, i)')
    BY <1>1, <1>5, <1>6
  <2>5. n # m /\ held[n] # 0 => held[n] # held[m]
    BY DEF McpInv, HeldInv
  <2>6. n # m => (held'[n] \in alive' <=> held[n] \in alive)
    BY <1>1, <1>2, <1>3, <2>5
  <2>7. CASE n # m
    BY <1>1, <1>2, <1>3, <2>1, <2>2, <2>3, <2>4, <2>6, <2>7 DEF Sound
  <2>8. CASE n = m
    <3>1. wanted[n] = Absent
      BY <1>1, <2>1, <2>8 DEF Sound
    <3>2. held'[n] = 0 /\ held'[n] \notin alive'
      BY <1>1, <1>2, <1>3, <2>8
    <3>3. \A i \in alive' : i \in alive /\ i # held[n]
      BY <1>1, <2>8
    <3> QED
      BY <1>1, <1>3, <2>1, <2>2, <2>4, <3>1, <3>2, <3>3 DEF Sound
  <2> QED
    BY <2>7, <2>8
<1> QED
  BY <1>1, <1>4, <1>7, <1>8 DEF McpInv

\* The watcher had nothing in hand when it ended.
LEMMA WatcherEndsStep == ASSUME McpInv, WatcherEnds PROVE McpInv'
<1>1. /\ doing["watcher"] = "nothing" /\ due["watcher"] = <<>>
      /\ doing' = [doing EXCEPT !["watcher"] = "ended"]
      /\ UNCHANGED <<file, wanted, due, sweep, held, made, alive, busy, raced, missed>>
  BY DEF WatcherEnds, Quiet
<1>2. McpTypeOK'
  BY <1>1 DEF McpInv, McpTypeOK
<1>3. /\ \A t \in Task : doing'[t] = doing[t] \/ (t = "watcher" /\ doing'[t] = "ended")
      /\ \A t \in Task : Launches(t)' <=> Launches(t)
      /\ \A t \in Task : doing'[t] = "register" <=> doing[t] = "register"
  BY <1>1 DEF McpInv, McpTypeOK, Launches, Task
<1>4. WorkInv'
  BY <1>1, <1>3 DEF McpInv, WorkInv, IsMine, Item
<1>5. HeldInv'
  BY <1>1 DEF McpInv, HeldInv
<1>6. ASSUME NEW n \in Name \ raced PROVE Sound(n)'
  BY <1>1, <1>3 DEF McpInv, Sound, AtRest, UnderWay, IsMine, Item
<1> QED
  BY <1>1, <1>2, <1>4, <1>5, <1>6 DEF McpInv

LEMMA McpStepHolds == McpInv /\ [McpNext]_mcpVars => McpInv'
<1> SUFFICES ASSUME McpInv, [McpNext]_mcpVars PROVE McpInv'
  OBVIOUS
<1>0. file \in [Name -> Def \cup {Absent}] /\ busy \subseteq alive
  BY DEF McpInv, McpTypeOK
<1>1. ASSUME NEW t \in Task,
             \/ AlreadyHeld(t) \/ StopOther(t) \/ OtherStopped(t) \/ StartNew(t)
             \/ Started(t) \/ StartFails(t) \/ Register(t)
      PROVE  McpInv'
  BY <1>1, AlreadyHeldStep, StopOtherStep, OtherStoppedStep, StartNewStep, StartedStep, StartFailsStep,
     RegisterStep
<1>2. ASSUME NEW f \in [Name -> Def \cup {Absent}], Edit(f) PROVE McpInv'
  BY <1>0, <1>2, QuietStep DEF Edit
<1>3. CASE ReloadConfig
  BY <1>3, ReloadStep
<1>4. CASE ReloadFails
  BY <1>0, <1>4, QuietStep DEF ReloadFails
<1>5. ASSUME NEW n \in Name, Removed(n) PROVE McpInv'
  BY <1>5, RemovedStep
<1>9. CASE WatcherEnds
  BY <1>9, WatcherEndsStep
<1>6. ASSUME NEW n \in Name, Call(n) PROVE McpInv'
  BY <1>0, <1>6, QuietStep DEF Call
<1>7. ASSUME NEW i \in alive, CallReturns(i) PROVE McpInv'
  BY <1>0, <1>7, QuietStep DEF CallReturns
<1>8. CASE UNCHANGED mcpVars
  BY <1>0, <1>8, QuietStep DEF mcpVars
<1> QED
  BY <1>1, <1>2, <1>3, <1>4, <1>5, <1>6, <1>7, <1>8, <1>9 DEF McpNext

LEMMA FollowingHolds == McpInv => ServersFollowConfig
<1> SUFFICES ASSUME McpInv, NEW n \in Name \ raced, AtRest(n)
             PROVE  LET up == {i \in alive : made[i].name = n}
                    IN  IF wanted[n] = Absent \/ n \in missed THEN up = {}
                        ELSE up = {held[n]} /\ made[held[n]].def = wanted[n]
  BY DEF McpInv, McpTypeOK, ServersFollowConfig, AtRest
<1>1. Sound(n)
  BY DEF McpInv
<1>2. \A t \in Task : doing[t] \in {"stop", "start", "register"} => Item(t).name # n
  BY WorkParts DEF AtRest
<1>3. ~UnderWay(n) /\ \A i \in alive : made[i].name = n => i = held[n]
  BY <1>1, <1>2 DEF Sound, UnderWay, Launches
<1>4. CASE wanted[n] = Absent \/ n \in missed
  BY <1>1, <1>3, <1>4 DEF Sound
<1>5. CASE wanted[n] # Absent /\ n \notin missed
  <2>1. held[n] # 0 /\ held[n] \in alive /\ made[held[n]].def = wanted[n] /\ made[held[n]].name = n
    BY <1>1, <1>3, <1>5 DEF Sound, McpInv, HeldInv
  <2> QED
    BY <1>3, <1>5, <2>1
<1> QED
  BY <1>4, <1>5

\* For any names, definitions, edits and servers: at a name no task is at work on, just the
\* server the configuration names runs, and calls and stops reach it (MCPService._ensure,
\* reload_if_changed), but where the last start failed or a reload crossed the boot's start.
THEOREM ServersAreFollowed == McpSpec => []ServersFollowConfig
<1>1. McpInit => McpInv
  BY McpInitHolds
<1>2. McpInv /\ [McpNext]_mcpVars => McpInv'
  BY McpStepHolds
<1>3. McpInv => ServersFollowConfig
  BY FollowingHolds
<1> QED
  BY <1>1, <1>2, <1>3, PTL DEF McpSpec

------------------------------------------------------------------------------
(* The archive.  First the ranks of a finite set in a strict total order:     *)
(* each below the size of the set, and no two the same.                       *)

Below(x, S, R) == {y \in S : <<y, x>> \in R}

LEMMA RankBijects ==
  ASSUME NEW S, IsFiniteSet(S), NEW R,
         \A x \in S : <<x, x>> \notin R,
         \A x, y, z \in S : <<x, y>> \in R /\ <<y, z>> \in R => <<x, z>> \in R,
         \A x, y \in S : x = y \/ <<x, y>> \in R \/ <<y, x>> \in R
  PROVE  /\ Cardinality(S) \in Nat
         /\ \A x \in S : Cardinality(Below(x, S, R)) \in 0..(Cardinality(S) - 1)
         /\ [x \in S |-> Cardinality(Below(x, S, R))] \in Bijection(S, 0..(Cardinality(S) - 1))
<1>1. Cardinality(S) \in Nat
  BY FS_CardinalityType
<1>2. ASSUME NEW x \in S PROVE IsFiniteSet(Below(x, S, R)) /\ Cardinality(Below(x, S, R)) \in Nat
                               /\ Cardinality(Below(x, S, R)) < Cardinality(S)
  <2>1. Below(x, S, R) \in SUBSET S /\ Below(x, S, R) # S
    BY <1>2 DEF Below
  <2>2. IsFiniteSet(Below(x, S, R)) /\ Cardinality(Below(x, S, R)) \in Nat
    BY <2>1, FS_Subset, FS_CardinalityType
  <2>3. Cardinality(Below(x, S, R)) <= Cardinality(S) /\ Cardinality(Below(x, S, R)) # Cardinality(S)
    BY <2>1, FS_Subset
  <2> QED
    BY <1>1, <2>2, <2>3
<1>3. ASSUME NEW x \in S, NEW y \in S, <<x, y>> \in R
      PROVE Cardinality(Below(x, S, R)) < Cardinality(Below(y, S, R))
  <2>1. Below(x, S, R) \in SUBSET Below(y, S, R) /\ x \in Below(y, S, R) /\ x \notin Below(x, S, R)
    BY <1>3 DEF Below
  <2>2. Below(x, S, R) # Below(y, S, R)
    BY <2>1
  <2>3. Cardinality(Below(x, S, R)) <= Cardinality(Below(y, S, R))
        /\ Cardinality(Below(x, S, R)) # Cardinality(Below(y, S, R))
    BY <1>2, <2>1, <2>2, FS_Subset
  <2> QED
    BY <1>2, <2>3
<1> DEFINE rank == [x \in S |-> Cardinality(Below(x, S, R))]
           T == 0..(Cardinality(S) - 1)
<1>4. \A x \in S : Cardinality(Below(x, S, R)) \in T
  BY <1>1, <1>2
<1>5. \A x, y \in S : Cardinality(Below(x, S, R)) = Cardinality(Below(y, S, R)) => x = y
  <2> TAKE x \in S, y \in S
  <2>1. Cardinality(Below(x, S, R)) \in Nat /\ Cardinality(Below(y, S, R)) \in Nat
    BY <1>2
  <2>2. CASE <<x, y>> \in R
    BY <1>3, <2>1, <2>2
  <2>3. CASE <<y, x>> \in R
    BY <1>3, <2>1, <2>3
  <2> QED
    BY <2>2, <2>3
<1>6. rank \in Injection(S, T)
  BY <1>4, <1>5 DEF Injection, IsInjective
<1>7. IsFiniteSet(T) /\ Cardinality(T) = Cardinality(S)
  <2>1. 0 \in Int /\ Cardinality(S) - 1 \in Int
    BY <1>1
  <2>2. IsFiniteSet(T) /\ Cardinality(T) = IF 0 > Cardinality(S) - 1 THEN 0 ELSE Cardinality(S) - 1 - 0 + 1
    BY <2>1, FS_Interval
  <2> QED
    BY <1>1, <2>2
<1>8. rank \in Surjection(S, T)
  <2> HIDE DEF rank, T
  <2> QED
    BY <1>6, <1>7, FS_Injection
<1> QED
  BY <1>1, <1>4, <1>6, <1>8 DEF Bijection

\* As many elements as n have a rank below n.
LEMMA RankedFirst ==
  ASSUME NEW S, IsFiniteSet(S), NEW R,
         \A x \in S : <<x, x>> \notin R,
         \A x, y, z \in S : <<x, y>> \in R /\ <<y, z>> \in R => <<x, z>> \in R,
         \A x, y \in S : x = y \/ <<x, y>> \in R \/ <<y, x>> \in R,
         NEW n \in 0..Cardinality(S)
  PROVE  Cardinality({x \in S : Cardinality(Below(x, S, R)) < n}) = n
<1> DEFINE F == {x \in S : Cardinality(Below(x, S, R)) < n}
           T == 0..(Cardinality(S) - 1)
           f == [x \in F |-> Cardinality(Below(x, S, R))]
<1>1. /\ Cardinality(S) \in Nat /\ n \in Nat
      /\ \A x \in S : Cardinality(Below(x, S, R)) \in T
      /\ [x \in S |-> Cardinality(Below(x, S, R))] \in Bijection(S, T)
  <2>1. /\ Cardinality(S) \in Nat
        /\ \A x \in S : Cardinality(Below(x, S, R)) \in T
        /\ [x \in S |-> Cardinality(Below(x, S, R))] \in Bijection(S, T)
    BY RankBijects
  <2> QED
    BY <2>1
<1>2. /\ \A x, y \in S : Cardinality(Below(x, S, R)) = Cardinality(Below(y, S, R)) => x = y
      /\ \A k \in T : \E x \in S : Cardinality(Below(x, S, R)) = k
  BY <1>1 DEF Bijection, Injection, IsInjective, Surjection
<1>3. f \in Injection(F, 0..(n - 1))
  BY <1>1, <1>2 DEF Injection, IsInjective
<1>4. \A k \in 0..(n - 1) : \E x \in F : f[x] = k
  <2> TAKE k \in 0..(n - 1)
  <2>1. k \in T /\ k < n
    BY <1>1
  <2>2. PICK x \in S : Cardinality(Below(x, S, R)) = k
    BY <1>2, <2>1
  <2> QED
    BY <2>1, <2>2
<1>5. f \in Surjection(F, 0..(n - 1))
  BY <1>3, <1>4 DEF Injection, Surjection
<1>6. IsFiniteSet(F)
  BY FS_Subset
<1>7. f \in Bijection(F, 0..(n - 1))
  BY <1>3, <1>5 DEF Bijection
<1> HIDE DEF F, f
<1>8. Cardinality(0..(n - 1)) = Cardinality(F)
  BY <1>6, <1>7, FS_Bijection DEF ExistsBijection
<1>9. Cardinality(0..(n - 1)) = n
  BY <1>1, FS_Interval
<1> QED
  BY <1>8, <1>9 DEF F

\* Something is after everything else.
LEMMA RankedLast ==
  ASSUME NEW S, IsFiniteSet(S), S # {}, NEW R,
         \A x \in S : <<x, x>> \notin R,
         \A x, y, z \in S : <<x, y>> \in R /\ <<y, z>> \in R => <<x, z>> \in R,
         \A x, y \in S : x = y \/ <<x, y>> \in R \/ <<y, x>> \in R
  PROVE  \E m \in S : \A x \in S : x = m \/ <<x, m>> \in R
<1> DEFINE T == 0..(Cardinality(S) - 1)
<1>1. Cardinality(S) \in Nat /\ Cardinality(S) # 0
  BY FS_CardinalityType, FS_EmptySet
<1>2. [x \in S |-> Cardinality(Below(x, S, R))] \in Bijection(S, T)
  <2> HIDE DEF T
  <2> QED
    BY RankBijects DEF T
<1>3. Cardinality(S) - 1 \in T
  BY <1>1
<1>4. PICK m \in S : Cardinality(Below(m, S, R)) = Cardinality(S) - 1
  BY <1>2, <1>3 DEF Bijection, Surjection
<1>5. IsFiniteSet(S \ {m}) /\ Cardinality(S \ {m}) = Cardinality(S) - 1
  BY FS_RemoveElement
<1>6. Below(m, S, R) \in SUBSET (S \ {m})
  BY DEF Below
<1>7. S \ {m} = Below(m, S, R)
  BY <1>4, <1>5, <1>6, FS_Subset
<1> QED
  BY <1>7 DEF Below

\* The bounds of a finite set of numbers.
LEMMA BoundsAre ==
  ASSUME NEW S, IsFiniteSet(S), S # {}, \A x \in S : x \in Nat
  PROVE  /\ Max(S) \in S /\ \A x \in S : x <= Max(S)
         /\ Min(S) \in S /\ \A x \in S : Min(S) <= x
<1>1. \E m \in S : \A x \in S : m >= x
  <2>1. PICK R : R = {p \in S \X S : p[1] < p[2]}
    OBVIOUS
  <2>2. \A x, y \in S : <<x, y>> \in R <=> x < y
    BY <2>1
  <2>3. \A x \in S : <<x, x>> \notin R
    BY <2>2
  <2>4. \A x, y, z \in S : <<x, y>> \in R /\ <<y, z>> \in R => <<x, z>> \in R
    BY <2>2
  <2>5. \A x, y \in S : x = y \/ <<x, y>> \in R \/ <<y, x>> \in R
    <3> TAKE x \in S, y \in S
    <3>1. x \in Nat /\ y \in Nat
      OBVIOUS
    <3>2. x = y \/ x < y \/ y < x
      BY <3>1
    <3> QED
      BY <2>2, <3>2
  <2>6. PICK m \in S : \A x \in S : x = m \/ <<x, m>> \in R
    BY <2>3, <2>4, <2>5, RankedLast
  <2>7. ASSUME NEW x \in S PROVE m >= x
    <3>1. x \in Nat /\ m \in Nat
      OBVIOUS
    <3>2. x = m \/ x < m
      BY <2>2, <2>6
    <3> QED
      BY <3>1, <3>2
  <2> QED
    BY <2>7
<1>2. \E m \in S : \A x \in S : m <= x
  <2>1. PICK R : R = {p \in S \X S : p[1] > p[2]}
    OBVIOUS
  <2>2. \A x, y \in S : <<x, y>> \in R <=> x > y
    BY <2>1
  <2>3. \A x \in S : <<x, x>> \notin R
    BY <2>2
  <2>4. \A x, y, z \in S : <<x, y>> \in R /\ <<y, z>> \in R => <<x, z>> \in R
    BY <2>2
  <2>5. \A x, y \in S : x = y \/ <<x, y>> \in R \/ <<y, x>> \in R
    <3> TAKE x \in S, y \in S
    <3>1. x \in Nat /\ y \in Nat
      OBVIOUS
    <3>2. x = y \/ x < y \/ y < x
      BY <3>1
    <3> QED
      BY <2>2, <3>2
  <2>6. PICK m \in S : \A x \in S : x = m \/ <<x, m>> \in R
    BY <2>3, <2>4, <2>5, RankedLast
  <2>7. ASSUME NEW x \in S PROVE m <= x
    <3>1. x \in Nat /\ m \in Nat
      OBVIOUS
    <3>2. x = m \/ x > m
      BY <2>2, <2>6
    <3> QED
      BY <3>1, <3>2
  <2> QED
    BY <2>7
<1>3. Max(S) \in S /\ \A x \in S : Max(S) >= x
  BY <1>1 DEF Max
<1>4. Min(S) \in S /\ \A x \in S : Min(S) <= x
  BY <1>2 DEF Min
<1> QED
  BY <1>3, <1>4

\* Keys, of stored turns and of the reader's start.
Turn == [agent : Nat, stamp : Nat, seq : Nat]

\* The key order is a strict total order.
LEMMA KeysOrder ==
  /\ \A r \in Turn : ~Before(r, r)
  /\ \A r, q, p \in Turn : Before(r, q) /\ Before(q, p) => Before(r, p)
  /\ \A r, q \in Turn : r = q \/ Before(r, q) \/ Before(q, r)
<1>1. \A r \in Turn : r.agent \in Nat /\ r.stamp \in Nat /\ r.seq \in Nat
  BY DEF Turn
<1>2. \A r, q \in Turn : r.agent = q.agent /\ r.stamp = q.stamp /\ r.seq = q.seq => r = q
  BY DEF Turn
<1> HIDE DEF Turn
<1> QED
  BY <1>1, <1>2 DEF Before

\* The n first of a finite set of turns: n of them, and nothing outside is before
\* one of them.
LEMMA FirstAre ==
  ASSUME NEW R \in SUBSET Turn, IsFiniteSet(R), NEW n \in Nat
  PROVE  /\ First(R, n) \in SUBSET R
         /\ n <= Cardinality(R) => Cardinality(First(R, n)) = n
         /\ Cardinality(R) <= n => First(R, n) = R
         /\ \A r \in First(R, n), q \in R : Before(q, r) => q \in First(R, n)
<1> DEFINE O == {p \in R \X R : Before(p[1], p[2])}
<1>1. \A x, y \in R : <<x, y>> \in O <=> Before(x, y)
  OBVIOUS
<1>2. \A x \in R : Below(x, R, O) = {q \in R : Before(q, x)}
  BY DEF Below
<1>3. First(R, n) = {x \in R : Cardinality(Below(x, R, O)) < n}
  BY <1>2 DEF First
<1> HIDE DEF O
<1>4. /\ \A x \in R : <<x, x>> \notin O
      /\ \A x, y, z \in R : <<x, y>> \in O /\ <<y, z>> \in O => <<x, z>> \in O
      /\ \A x, y \in R : x = y \/ <<x, y>> \in O \/ <<y, x>> \in O
  <2>1. \A x \in R : x \in Turn
    OBVIOUS
  <2> QED
    BY <1>1, <2>1, KeysOrder
<1>5. /\ Cardinality(R) \in Nat
      /\ \A x \in R : Cardinality(Below(x, R, O)) \in 0..(Cardinality(R) - 1)
  BY <1>4, RankBijects
<1>6. ASSUME n <= Cardinality(R) PROVE Cardinality(First(R, n)) = n
  <2>1. n \in 0..Cardinality(R)
    BY <1>5, <1>6
  <2>2. Cardinality({x \in R : Cardinality(Below(x, R, O)) < n}) = n
    BY <1>4, <2>1, RankedFirst
  <2> QED
    BY <1>3, <2>2
<1>7. Cardinality(R) <= n => First(R, n) = R
  BY <1>3, <1>5
<1>8. ASSUME NEW r \in First(R, n), NEW q \in R, Before(q, r) PROVE q \in First(R, n)
  <2>1. r \in R /\ Cardinality(Below(r, R, O)) < n
    BY <1>3
  <2>2. IsFiniteSet(Below(r, R, O))
    BY FS_Subset DEF Below
  <2>3. Below(q, R, O) \in SUBSET Below(r, R, O)
    BY <1>1, <1>4, <1>8, <2>1 DEF Below
  <2>4. Cardinality(Below(q, R, O)) <= Cardinality(Below(r, R, O))
    BY <2>2, <2>3, FS_Subset
  <2>5. Cardinality(Below(q, R, O)) \in Nat /\ Cardinality(Below(r, R, O)) \in Nat
    BY <1>5, <2>1
  <2> QED
    BY <1>3, <2>1, <2>4, <2>5
<1> QED
  BY <1>3, <1>6, <1>7, <1>8

\* The last of a finite set of turns.
LEMMA LastIs ==
  ASSUME NEW P \in SUBSET Turn, IsFiniteSet(P), P # {}
  PROVE  /\ LastOf(P) \in P
         /\ \A q \in P : q = LastOf(P) \/ Before(q, LastOf(P))
<1> DEFINE O == {p \in P \X P : Before(p[1], p[2])}
<1>1. \A x, y \in P : <<x, y>> \in O <=> Before(x, y)
  OBVIOUS
<1> HIDE DEF O
<1>2. /\ \A x \in P : <<x, x>> \notin O
      /\ \A x, y, z \in P : <<x, y>> \in O /\ <<y, z>> \in O => <<x, z>> \in O
      /\ \A x, y \in P : x = y \/ <<x, y>> \in O \/ <<y, x>> \in O
  <2>1. \A x \in P : x \in Turn
    OBVIOUS
  <2> QED
    BY <1>1, <2>1, KeysOrder
<1>3. \E m \in P : \A x \in P : x = m \/ <<x, m>> \in O
  BY <1>2, RankedLast
<1>4. \E m \in P : \A x \in P : x = m \/ Before(x, m)
  BY <1>1, <1>3
<1> QED
  BY <1>4 DEF LastOf

\* Distinct values number as many as what they are taken from.
LEMMA ImageCounts ==
  ASSUME NEW I, IsFiniteSet(I), NEW f, \A i, j \in I : f[i] = f[j] => i = j
  PROVE  /\ IsFiniteSet({f[i] : i \in I})
         /\ Cardinality({f[i] : i \in I}) = Cardinality(I)
<1> DEFINE T == {f[i] : i \in I}
           g == [i \in I |-> f[i]]
<1>1. g \in Bijection(I, T)
  BY DEF Bijection, Injection, IsInjective, Surjection
<1> HIDE DEF T, g
<1>2. IsFiniteSet(T) /\ Cardinality(T) = Cardinality(I)
  BY <1>1, FS_Bijection DEF ExistsBijection
<1> QED
  BY <1>2 DEF T

Row == [agent : Author, stamp : Stamp, seq : Nat]
Counters == [total : Nat, first : Nat, last : Nat, mark : Nat, rolls : [Buckets -> Nat], next : [Author -> Nat]]

ArchiveTypeOK ==
  /\ inbox \in Seq([agent : Author, stamp : Stamp])
  /\ mem \in Counters /\ disk \in Counters
  /\ rows \in SUBSET Row /\ IsFiniteSet(rows)
  /\ stage \in {"open", "locked", "closed"}
  /\ stopping \in BOOLEAN /\ astray \in BOOLEAN /\ overdue \in BOOLEAN
  /\ reader \in [at : Row \cup {Start}, seen : SUBSET Row, behind : SUBSET Row]

\* No number is given twice: what memory will give next is past what the disk has.
NumberInv ==
  /\ \A r, q \in rows : r.agent = q.agent /\ r.seq = q.seq => r = q
  /\ \A r \in rows : r.seq < disk.next[r.agent]
  /\ stage # "closed" => \A a \in Author : disk.next[a] <= mem.next[a]

\* The counters c describe the turns in R.
Describes(c, R) ==
  /\ \A b \in Buckets : c.rolls[b] = Cardinality(InBucket(R, b))
  /\ \A r \in R : r.stamp <= c.last /\ (r.stamp >= c.mark => c.first # 0 /\ c.first <= r.stamp)

\* Until a write fails: only an archive from before rollups is not described, and
\* the next opening mends that.
CounterInv ==
  /\ ~astray =>
       /\ disk.total = Cardinality(rows)
       /\ stage # "closed" => Describes(disk, rows) /\ mem = disk
       /\ ~Describes(disk, rows) => disk.rolls = NoRolls /\ rows # {}
  /\ stage = "locked" => mem.total > MaxKept

LimitInv ==
  ~astray /\ ~overdue => Cardinality(rows) <= MaxKept \/ \A r \in rows : r.stamp < disk.mark

\* The reader has all that is not after its cursor, but what was written there late.
ReaderInv ==
  /\ \A r \in reader.seen : r = reader.at \/ Before(r, reader.at)
  /\ reader.at = Start \/ reader.at \in reader.seen
  /\ \A r \in rows : r = reader.at \/ Before(r, reader.at) => r \in reader.seen \cup reader.behind

ArchiveInv == ArchiveTypeOK /\ NumberInv /\ CounterInv /\ LimitInv /\ ReaderInv

------------------------------------------------------------------------------
(* The batch: its rows are new, as many as its turns, with numbers of their own. *)

Same(k, a) == {j \in 1..k : inbox[j].agent = a}
Falling(k, b) == {j \in 1..k : Bucket(inbox[j].stamp) = b}

LEMMA Nats ==
  /\ \A t \in Stamp : t \in Nat /\ t # 0
  /\ \A a \in Author : a \in Nat
  /\ Row \subseteq Turn
  /\ \A t \in Stamp : Bucket(t) \in Buckets
BY RecordAssumption DEF Row, Turn, Buckets

LEMMA SameParts ==
  ASSUME NEW a, NEW k \in Nat, NEW i \in 0..k
  PROVE  /\ IsFiniteSet(Same(i, a)) /\ Cardinality(Same(i, a)) \in Nat
         /\ Cardinality(Same(i, a)) <= Cardinality(Same(k, a))
         /\ i < k /\ inbox[i + 1].agent = a => Cardinality(Same(i, a)) < Cardinality(Same(k, a))
<1>1. IsFiniteSet(1..k)
  BY FS_Interval
<1>2. Same(k, a) \in SUBSET (1..k)
  BY DEF Same
<1>3. IsFiniteSet(Same(k, a))
  BY <1>1, <1>2, FS_Subset
<1>4. Same(i, a) \in SUBSET Same(k, a)
  BY DEF Same
<1>5. IsFiniteSet(Same(i, a)) /\ Cardinality(Same(i, a)) <= Cardinality(Same(k, a))
      /\ (Cardinality(Same(i, a)) = Cardinality(Same(k, a)) => Same(k, a) = Same(i, a))
  BY <1>3, <1>4, FS_Subset
<1>6. Cardinality(Same(i, a)) \in Nat /\ Cardinality(Same(k, a)) \in Nat
  BY <1>3, <1>5, FS_CardinalityType
<1>7. ASSUME i < k, inbox[i + 1].agent = a PROVE Same(k, a) # Same(i, a)
  <2>1. i + 1 \in Same(k, a) /\ i + 1 \notin Same(i, a)
    BY <1>7 DEF Same
  <2> QED
    BY <2>1
<1> QED
  BY <1>5, <1>6, <1>7

LEMMA BatchRows ==
  ASSUME ArchiveTypeOK, NumberInv, stage # "closed", NEW n \in Nat, Taken(n)
  PROVE  /\ NewRows(n) \in SUBSET Row
         /\ IsFiniteSet(NewRows(n)) /\ Cardinality(NewRows(n)) = n
         /\ \A r \in NewRows(n) : mem.next[r.agent] <= r.seq
         /\ \A r \in NewRows(n) : r.seq < mem.next[r.agent] + Cardinality(Same(n, r.agent))
         /\ \A r, q \in NewRows(n) : r.agent = q.agent /\ r.seq = q.seq => r = q
         /\ NewRows(n) \cap rows = {}
         /\ \A b \in Buckets : Cardinality(InBucket(NewRows(n), b)) = Cardinality(Falling(n, b))
<1>1. \A i \in 1..n : inbox[i].agent \in Author /\ inbox[i].stamp \in Stamp
  <2>1. PICK T : T = [agent : Author, stamp : Stamp]
    OBVIOUS
  <2>2. inbox \in Seq(T) /\ n \in 1..Len(inbox)
    BY <2>1 DEF ArchiveTypeOK, Taken
  <2>3. \A i \in 1..n : inbox[i] \in T
    BY <2>2
  <2> QED
    BY <2>1, <2>3
<1>2. \A a \in Author : mem.next[a] \in Nat /\ disk.next[a] \in Nat /\ disk.next[a] <= mem.next[a]
  BY DEF ArchiveTypeOK, Counters, NumberInv
<1>3. \A i \in 1..n : Number(i) = mem.next[inbox[i].agent] + Cardinality(Same(i - 1, inbox[i].agent))
  BY DEF Number, Count, Same
<1>4. ASSUME NEW i \in 1..n
      PROVE  /\ Number(i) \in Nat /\ mem.next[inbox[i].agent] <= Number(i)
             /\ Number(i) < mem.next[inbox[i].agent] + Cardinality(Same(n, inbox[i].agent))
  <2>1. i - 1 \in 0..n /\ i - 1 < n /\ inbox[(i - 1) + 1].agent = inbox[i].agent
    OBVIOUS
  <2>2. /\ Cardinality(Same(i - 1, inbox[i].agent)) \in Nat
        /\ Cardinality(Same(i - 1, inbox[i].agent)) < Cardinality(Same(n, inbox[i].agent))
    BY <2>1, SameParts
  <2>3. Cardinality(Same(n, inbox[i].agent)) \in Nat
    <3>1. n \in 0..n
      OBVIOUS
    <3> QED
      BY <3>1, SameParts
  <2> QED
    BY <1>1, <1>2, <1>3, <2>2, <2>3
<1>5. ASSUME NEW i \in 1..n, NEW j \in 1..n, i < j, inbox[i].agent = inbox[j].agent PROVE Number(i) < Number(j)
  <2>1. i - 1 \in 0..(j - 1) /\ j - 1 \in Nat /\ i - 1 < j - 1 /\ inbox[(i - 1) + 1].agent = inbox[i].agent
    BY <1>5
  <2>2. /\ Cardinality(Same(i - 1, inbox[i].agent)) \in Nat
        /\ Cardinality(Same(i - 1, inbox[i].agent)) < Cardinality(Same(j - 1, inbox[i].agent))
    BY <2>1, SameParts
  <2>3. Cardinality(Same(j - 1, inbox[i].agent)) \in Nat
    <3>1. j - 1 \in 0..(j - 1)
      BY <2>1
    <3> QED
      BY <2>1, <3>1, SameParts
  <2>4. mem.next[inbox[i].agent] \in Nat
    BY <1>1, <1>2
  <2> QED
    BY <1>3, <1>5, <2>2, <2>3, <2>4
<1>6. PICK f : f = [i \in 1..n |-> [agent |-> inbox[i].agent, stamp |-> inbox[i].stamp, seq |-> Number(i)]]
  OBVIOUS
<1>7. \A i \in 1..n : f[i].agent = inbox[i].agent /\ f[i].stamp = inbox[i].stamp /\ f[i].seq = Number(i) /\ f[i] \in Row
  BY <1>1, <1>4, <1>6 DEF Row
<1>8. NewRows(n) = {f[i] : i \in 1..n}
  BY <1>6 DEF NewRows
<1>9. \A i, j \in 1..n : f[i].agent = f[j].agent /\ f[i].seq = f[j].seq => i = j
  <2> SUFFICES ASSUME NEW i \in 1..n, NEW j \in 1..n, f[i].agent = f[j].agent, f[i].seq = f[j].seq PROVE i = j
    OBVIOUS
  <2>1. inbox[i].agent = inbox[j].agent /\ Number(i) = Number(j)
    BY <1>7
  <2>2. Number(i) \in Nat /\ Number(j) \in Nat
    BY <1>4
  <2>3. ~(i < j) /\ ~(j < i)
    BY <1>5, <2>1, <2>2
  <2> QED
    BY <2>3
<1>10. NewRows(n) \in SUBSET Row
  BY <1>7, <1>8
<1>11. \A i, j \in 1..n : f[i] = f[j] => i = j
  BY <1>9
<1>12. IsFiniteSet(1..n) /\ Cardinality(1..n) = n
  BY FS_Interval
<1>13. IsFiniteSet(NewRows(n)) /\ Cardinality(NewRows(n)) = n
  <2>1. PICK I : I = 1..n
    OBVIOUS
  <2>2. IsFiniteSet(I) /\ Cardinality(I) = n /\ \A i, j \in I : f[i] = f[j] => i = j
    BY <1>11, <1>12, <2>1
  <2>3. IsFiniteSet({f[i] : i \in I}) /\ Cardinality({f[i] : i \in I}) = Cardinality(I)
    BY <2>2, ImageCounts
  <2> QED
    BY <1>8, <2>1, <2>2, <2>3
<1>14. \A r \in NewRows(n) : mem.next[r.agent] <= r.seq /\ r.seq < mem.next[r.agent] + Cardinality(Same(n, r.agent))
  BY <1>4, <1>7, <1>8
<1>15. \A r, q \in NewRows(n) : r.agent = q.agent /\ r.seq = q.seq => r = q
  BY <1>8, <1>9
<1>16. ASSUME NEW r \in NewRows(n), r \in rows PROVE FALSE
  <2>1. r.agent \in Author /\ r.seq \in Nat
    BY <1>10 DEF Row
  <2>2. r.seq < disk.next[r.agent] /\ mem.next[r.agent] <= r.seq
    BY <1>14, <1>16 DEF NumberInv
  <2> QED
    BY <1>2, <2>1, <2>2
<1>17. ASSUME NEW b \in Buckets PROVE Cardinality(InBucket(NewRows(n), b)) = Cardinality(Falling(n, b))
  <2>1. InBucket(NewRows(n), b) = {f[i] : i \in Falling(n, b)}
    BY <1>7, <1>8 DEF InBucket, Falling
  <2>2. \A i \in Falling(n, b) : i \in 1..n
    BY DEF Falling
  <2>3. IsFiniteSet(Falling(n, b))
    BY <1>12, <2>2, FS_Subset
  <2>4. \A i, j \in Falling(n, b) : f[i] = f[j] => i = j
    BY <1>11, <2>2
  <2> QED
    BY <2>1, <2>3, <2>4, ImageCounts
<1> QED
  BY <1>10, <1>13, <1>14, <1>15, <1>16, <1>17

\* What the counters are after a batch.
LEMMA TalliedParts ==
  ASSUME ArchiveTypeOK, NEW n \in Nat \ {0}, Taken(n)
  PROVE  /\ Tallied(n) \in Counters
         /\ Tallied(n).total = mem.total + n /\ Tallied(n).mark = mem.mark
         /\ \A b \in Buckets : Tallied(n).rolls[b] = mem.rolls[b] + Cardinality(Falling(n, b))
         /\ \A a \in Author : Tallied(n).next[a] = mem.next[a] + Cardinality(Same(n, a))
         /\ mem.last <= Tallied(n).last /\ \A r \in NewRows(n) : r.stamp <= Tallied(n).last
         /\ Tallied(n).first # 0 /\ (mem.first # 0 => Tallied(n).first <= mem.first)
         /\ \A r \in NewRows(n) : Tallied(n).first <= r.stamp
<1>1. \A i \in 1..n : inbox[i].agent \in Author /\ inbox[i].stamp \in Stamp
  <2>1. PICK T : T = [agent : Author, stamp : Stamp]
    OBVIOUS
  <2>2. inbox \in Seq(T) /\ n \in 1..Len(inbox)
    BY <2>1 DEF ArchiveTypeOK, Taken
  <2>3. \A i \in 1..n : inbox[i] \in T
    BY <2>2
  <2> QED
    BY <2>1, <2>3
<1>2. mem \in Counters
  BY DEF ArchiveTypeOK
<1>3. PICK S : S = {inbox[i].stamp : i \in 1..n}
  OBVIOUS
<1>4. IsFiniteSet(S)
  <2>1. PICK g : g = [i \in 1..n |-> inbox[i].stamp]
    OBVIOUS
  <2>2. g \in Surjection(1..n, S)
    BY <1>3, <2>1 DEF Surjection
  <2>3. IsFiniteSet(1..n)
    BY FS_Interval
  <2> QED
    BY <2>2, <2>3, FS_Surjection
<1>5. S # {} /\ \A t \in S : t \in Nat /\ t # 0
  <2>1. 1 \in 1..n
    OBVIOUS
  <2>2. \A t \in S : t \in Stamp
    BY <1>1, <1>3
  <2> QED
    BY <1>3, <2>1, <2>2, Nats
<1>6. PICK L : L = S \cup ({mem.first} \ {0})
  OBVIOUS
<1>7. PICK H : H = S \cup {mem.last}
  OBVIOUS
<1>8. mem.first \in Nat /\ mem.last \in Nat /\ mem.total \in Nat
      /\ mem.rolls \in [Buckets -> Nat] /\ mem.next \in [Author -> Nat]
  BY <1>2 DEF Counters
<1>9. IsFiniteSet(L) /\ IsFiniteSet(H)
  <2>1. IsFiniteSet(S \cup {mem.first}) /\ IsFiniteSet(S \cup {mem.last})
    BY <1>4, FS_AddElement
  <2>2. L \in SUBSET (S \cup {mem.first})
    BY <1>6
  <2>3. IsFiniteSet(L)
    BY <2>1, <2>2, FS_Subset
  <2> QED
    BY <1>7, <2>1, <2>3
<1>10. L # {} /\ H # {} /\ (\A x \in L : x \in Nat /\ x # 0) /\ (\A x \in H : x \in Nat)
  BY <1>5, <1>6, <1>7, <1>8
<1>11. /\ Min(L) \in L /\ \A x \in L : Min(L) <= x
       /\ Max(H) \in H /\ \A x \in H : x <= Max(H)
  BY <1>9, <1>10, BoundsAre
<1>12. Tallied(n) = [mem EXCEPT !.total = @ + n, !.first = Min(L), !.last = Max(H),
                                !.rolls = [b \in Buckets |-> @[b] + Cardinality(Falling(n, b))],
                                !.next = [a \in Author |-> @[a] + Cardinality(Same(n, a))]]
  BY <1>3, <1>6, <1>7 DEF Tallied, Count, Falling, Same
<1>13. \A b \in Buckets : Cardinality(Falling(n, b)) \in Nat
  <2> TAKE b \in Buckets
  <2>1. IsFiniteSet(1..n)
    BY FS_Interval
  <2>2. Falling(n, b) \in SUBSET (1..n)
    BY DEF Falling
  <2> QED
    BY <2>1, <2>2, FS_Subset, FS_CardinalityType
<1>14. \A a \in Author : Cardinality(Same(n, a)) \in Nat
  <2>1. n \in 0..n
    OBVIOUS
  <2> QED
    BY <2>1, SameParts
<1>15. /\ Tallied(n).total = mem.total + n /\ Tallied(n).mark = mem.mark
       /\ Tallied(n).first = Min(L) /\ Tallied(n).last = Max(H)
       /\ Tallied(n).rolls = [b \in Buckets |-> mem.rolls[b] + Cardinality(Falling(n, b))]
       /\ Tallied(n).next = [a \in Author |-> mem.next[a] + Cardinality(Same(n, a))]
       /\ Tallied(n) = [mem EXCEPT !.total = Tallied(n).total, !.first = Tallied(n).first, !.last = Tallied(n).last,
                                   !.rolls = Tallied(n).rolls, !.next = Tallied(n).next]
  BY <1>2, <1>12 DEF Counters
<1>16. /\ Tallied(n).total \in Nat /\ Tallied(n).first \in Nat /\ Tallied(n).last \in Nat
       /\ Tallied(n).rolls \in [Buckets -> Nat] /\ Tallied(n).next \in [Author -> Nat]
  BY <1>8, <1>10, <1>11, <1>13, <1>14, <1>15
<1>17. Tallied(n) \in Counters
  BY <1>2, <1>15, <1>16 DEF Counters
<1>18. \A r \in NewRows(n) : r.stamp \in S
  BY <1>3 DEF NewRows
<1>19. mem.last <= Tallied(n).last /\ \A r \in NewRows(n) : r.stamp <= Tallied(n).last
  BY <1>7, <1>11, <1>15, <1>18
<1>20. Tallied(n).first # 0 /\ (mem.first # 0 => Tallied(n).first <= mem.first)
  BY <1>6, <1>10, <1>11, <1>15
<1>21. \A r \in NewRows(n) : Tallied(n).first <= r.stamp
  BY <1>6, <1>11, <1>15, <1>18
<1> QED
  BY <1>15, <1>17, <1>19, <1>20, <1>21

\* What a prune takes, and what the counters are after it.
LEMMA PrunedParts ==
  ASSUME ArchiveTypeOK, mem.total > MaxKept, Walk # {}
  PROVE  /\ Victims \in SUBSET rows /\ IsFiniteSet(Victims) /\ Cardinality(Victims) = Excess
         /\ Excess \in Nat /\ (Excess = mem.total - PruneTo \/ Victims = Walk)
         /\ Pruned(mem) \in Counters
         /\ Pruned(mem).total = mem.total - Excess
         /\ Pruned(mem).next = mem.next /\ Pruned(mem).last = mem.last
         /\ Pruned(mem).first = Pruned(mem).mark /\ Pruned(mem).mark # 0 /\ mem.mark <= Pruned(mem).mark
         /\ \A r \in Victims : r.stamp <= Pruned(mem).mark
         /\ \A b \in Buckets : Pruned(mem).rolls[b] =
              IF mem.rolls[b] > Cardinality(InBucket(Victims, b))
                THEN mem.rolls[b] - Cardinality(InBucket(Victims, b)) ELSE 0
<1>1. mem \in Counters /\ rows \in SUBSET Row /\ IsFiniteSet(rows)
  BY DEF ArchiveTypeOK
<1>2. /\ mem.total \in Nat /\ mem.last \in Nat /\ mem.mark \in Nat
      /\ mem.rolls \in [Buckets -> Nat] /\ mem.next \in [Author -> Nat]
  BY <1>1 DEF Counters
<1>3. MaxKept \in Nat /\ PruneTo \in Nat /\ PruneTo <= MaxKept
  BY RecordAssumption
<1>4. Walk \in SUBSET rows /\ IsFiniteSet(Walk)
  <2>1. Walk \in SUBSET rows
    BY DEF Walk
  <2> QED
    BY <1>1, <2>1, FS_Subset
<1>5. Cardinality(Walk) \in Nat /\ Cardinality(Walk) # 0
  BY <1>4, FS_CardinalityType, FS_EmptySet
<1>6. /\ Excess \in Nat /\ Excess # 0 /\ Excess <= Cardinality(Walk) /\ Excess <= mem.total - PruneTo
      /\ Excess = mem.total - PruneTo \/ Excess = Cardinality(Walk)
  <2>1. mem.total - PruneTo \in Nat /\ mem.total - PruneTo # 0
    BY <1>2, <1>3
  <2>2. Excess = IF mem.total - PruneTo < Cardinality(Walk) THEN mem.total - PruneTo ELSE Cardinality(Walk)
    BY DEF Excess, AtMost
  <2> QED
    BY <1>5, <2>1, <2>2
<1>7. Walk \in SUBSET Turn
  BY <1>1, <1>4, Nats
<1>8. /\ Victims \in SUBSET Walk /\ Cardinality(Victims) = Excess
      /\ Excess = Cardinality(Walk) => Victims = Walk
  BY <1>4, <1>5, <1>6, <1>7, FirstAre DEF Victims
<1>9. IsFiniteSet(Victims) /\ Victims # {}
  BY <1>4, <1>6, <1>8, FS_Subset, FS_EmptySet
<1>10. PICK S : S = {r.stamp : r \in Victims}
  OBVIOUS
<1>11. IsFiniteSet(S)
  <2>1. PICK g : g = [r \in Victims |-> r.stamp]
    OBVIOUS
  <2>2. g \in Surjection(Victims, S)
    BY <1>10, <2>1 DEF Surjection
  <2> QED
    BY <1>9, <2>2, FS_Surjection
<1>12. \A r \in Victims : r.stamp \in Nat /\ r.stamp # 0 /\ mem.mark <= r.stamp
  <2>1. \A r \in Victims : r \in Row /\ r.stamp >= mem.mark
    BY <1>1, <1>4, <1>8 DEF Walk
  <2>2. \A r \in Victims : r.stamp \in Stamp
    BY <2>1 DEF Row
  <2> QED
    BY <1>2, <2>1, <2>2, Nats
<1>13. S # {} /\ \A x \in S : x \in Nat /\ x # 0 /\ mem.mark <= x
  BY <1>9, <1>10, <1>12
<1>14. Max(S) \in S /\ \A x \in S : x <= Max(S)
  BY <1>11, <1>13, BoundsAre
<1>15. Max(S) \in Nat /\ Max(S) # 0 /\ mem.mark <= Max(S)
  BY <1>13, <1>14
<1>16. PICK c : c = Pruned(mem)
  OBVIOUS
<1>17. PICK rolls : rolls = [b \in Buckets |->
           IF mem.rolls[b] > Cardinality(InBucket(Victims, b))
             THEN mem.rolls[b] - Cardinality(InBucket(Victims, b)) ELSE 0]
  OBVIOUS
<1>18. c = [mem EXCEPT !.total = @ - Excess, !.mark = Max(S), !.first = Max(S), !.rolls = rolls]
  BY <1>2, <1>10, <1>16, <1>17 DEF Pruned
<1>19. \A b \in Buckets : Cardinality(InBucket(Victims, b)) \in Nat
  <2> TAKE b \in Buckets
  <2>1. InBucket(Victims, b) \in SUBSET Victims
    BY DEF InBucket
  <2> QED
    BY <1>9, <2>1, FS_Subset, FS_CardinalityType
<1>20. rolls \in [Buckets -> Nat]
  BY <1>2, <1>17, <1>19
<1>21. mem.total - Excess \in Nat
  BY <1>2, <1>3, <1>6
<1>22. c \in Counters
  BY <1>1, <1>15, <1>18, <1>20, <1>21 DEF Counters
<1>23. /\ c.total = mem.total - Excess /\ c.next = mem.next /\ c.last = mem.last
       /\ c.first = Max(S) /\ c.mark = Max(S) /\ c.rolls = rolls
  BY <1>1, <1>18 DEF Counters
<1>24. \A r \in Victims : r.stamp <= c.mark
  BY <1>10, <1>14, <1>23
<1> QED
  BY <1>4, <1>6, <1>8, <1>9, <1>15, <1>16, <1>17, <1>22, <1>23, <1>24

LEMMA ArchiveInitHolds == RecordInit => ArchiveInv
<1> SUFFICES ASSUME RecordInit PROVE ArchiveInv
  OBVIOUS
<1>1. MaxKept \in Nat /\ MaxKept # 0
  BY RecordAssumption
<1>2. /\ NoRolls \in [Buckets -> Nat] /\ [a \in Author |-> 0] \in [Author -> Nat]
      /\ \A b \in Buckets : NoRolls[b] = 0
  BY DEF NoRolls
<1>3. Nothing \in Counters /\ Nothing.total = 0 /\ Nothing.rolls = NoRolls
  BY <1>2 DEF Nothing, Counters
<1>4. inbox = <<>> /\ stage = "closed" /\ stopping = FALSE /\ mem = Nothing /\ reader = NewReader
      /\ astray = FALSE /\ overdue = FALSE
  BY DEF RecordInit
<1>5. inbox \in Seq([agent : Author, stamp : Stamp])
  BY <1>4
<1>6. reader \in [at : Row \cup {Start}, seen : SUBSET Row, behind : SUBSET Row]
  BY <1>4 DEF NewReader
<1>7. ReaderInv
  <2>1. \A r \in rows : r.stamp # 0 /\ r.stamp \in Nat
    <3>1. CASE rows = {}
      BY <3>1
    <3>2. CASE \E a \in Author, t \in Stamp : rows = {[agent |-> a, stamp |-> t, seq |-> 0]}
      BY <3>2, Nats
    <3> QED
      BY <3>1, <3>2 DEF RecordInit
  <2>2. \A r \in rows : r # Start /\ ~Before(r, Start)
    BY <2>1 DEF Start, Before
  <2> QED
    BY <1>4, <2>2 DEF ReaderInv, NewReader
<1>8. CASE disk = Nothing /\ rows = {}
  <2>1. IsFiniteSet(rows) /\ Cardinality(rows) = 0
    BY <1>8, FS_EmptySet
  <2>2. ArchiveTypeOK
    BY <1>3, <1>4, <1>8, <1>5, <1>6, <2>1 DEF ArchiveTypeOK
  <2>3. NumberInv
    BY <1>4, <1>8 DEF NumberInv
  <2>4. \A b \in Buckets : Cardinality(InBucket(rows, b)) = 0
    BY <1>8, FS_EmptySet DEF InBucket
  <2>5. Describes(disk, rows)
    BY <1>2, <1>3, <1>8, <2>4 DEF Describes
  <2>6. CounterInv
    BY <1>3, <1>4, <1>8, <2>1, <2>5 DEF CounterInv
  <2>7. LimitInv
    BY <1>8 DEF LimitInv
  <2> QED
    BY <1>7, <2>2, <2>3, <2>6, <2>7 DEF ArchiveInv
<1>9. CASE \E a \in Author, t \in Stamp : disk = Old(a, t) /\ rows = {[agent |-> a, stamp |-> t, seq |-> 0]}
  <2>1. PICK a \in Author, t \in Stamp : disk = Old(a, t) /\ rows = {[agent |-> a, stamp |-> t, seq |-> 0]}
    BY <1>9
  <2>2. PICK r : r = [agent |-> a, stamp |-> t, seq |-> 0]
    OBVIOUS
  <2>3. rows = {r} /\ r \in Row /\ r.agent = a /\ r.seq = 0
    BY <2>1, <2>2 DEF Row
  <2>4. IsFiniteSet(rows) /\ Cardinality(rows) = 1
    BY <2>3, FS_Singleton
  <2>5. /\ disk.total = 1 /\ disk.rolls = NoRolls
        /\ disk.next = [[b \in Author |-> 0] EXCEPT ![a] = 1]
        /\ disk \in Counters
    BY <1>2, <2>1 DEF Old, Nothing, Counters
  <2>6. disk.next[a] = 1
    BY <2>5
  <2>7. ArchiveTypeOK
    BY <1>3, <1>4, <1>5, <1>6, <2>3, <2>4, <2>5 DEF ArchiveTypeOK
  <2>8. NumberInv
    BY <1>4, <2>3, <2>6 DEF NumberInv
  <2>9. CounterInv
    BY <1>4, <2>3, <2>4, <2>5 DEF CounterInv
  <2>10. LimitInv
    BY <1>1, <2>4 DEF LimitInv
  <2> QED
    BY <1>7, <2>7, <2>8, <2>9, <2>10 DEF ArchiveInv
<1> QED
  BY <1>8, <1>9 DEF RecordInit

LEMMA OpenStep == ArchiveInv /\ Open => ArchiveInv'
<1> SUFFICES ASSUME ArchiveInv, Open PROVE ArchiveInv'
  OBVIOUS
<1>1. /\ ArchiveTypeOK /\ NumberInv /\ CounterInv /\ LimitInv /\ ReaderInv
      /\ stage = "closed" /\ stage' = "open" /\ inbox' = <<>>
      /\ UNCHANGED <<rows, stopping, handed, faults, reader, astray, overdue>>
  BY DEF ArchiveInv, Open
<1>2. disk \in Counters /\ rows \in SUBSET Row /\ IsFiniteSet(rows)
  BY <1>1 DEF ArchiveTypeOK
<1>3. PICK c : /\ c = IF disk.total > 0 /\ disk.rolls = NoRolls /\ rows # {} THEN Backfilled(disk) ELSE disk
               /\ mem' = c /\ disk' = c
  BY DEF Open
<1>4. ASSUME rows # {}
      PROVE  /\ Backfilled(disk) \in Counters /\ Describes(Backfilled(disk), rows)
             /\ Backfilled(disk).total = disk.total /\ Backfilled(disk).next = disk.next
             /\ Backfilled(disk).mark = disk.mark
  <2>1. PICK S : S = {r.stamp : r \in rows}
    OBVIOUS
  <2>2. IsFiniteSet(S)
    <3>1. PICK g : g = [r \in rows |-> r.stamp]
      OBVIOUS
    <3>2. g \in Surjection(rows, S)
      BY <2>1, <3>1 DEF Surjection
    <3> QED
      BY <1>2, <3>2, FS_Surjection
  <2>3. \A r \in rows : r.stamp \in Stamp
    BY <1>2 DEF Row
  <2>4. S # {} /\ \A x \in S : x \in Nat /\ x # 0
    BY <1>4, <2>1, <2>3, Nats
  <2>5. /\ Max(S) \in S /\ \A x \in S : x <= Max(S)
        /\ Min(S) \in S /\ \A x \in S : Min(S) <= x
    BY <2>2, <2>4, BoundsAre
  <2>6. PICK rolls : rolls = [b \in Buckets |-> Cardinality(InBucket(rows, b))]
    OBVIOUS
  <2>7. rolls \in [Buckets -> Nat]
    <3>1. ASSUME NEW b \in Buckets PROVE Cardinality(InBucket(rows, b)) \in Nat
      <4>1. InBucket(rows, b) \in SUBSET rows
        BY DEF InBucket
      <4> QED
        BY <1>2, <4>1, FS_Subset, FS_CardinalityType
    <3> QED
      BY <2>6, <3>1
  <2>8. PICK d : d = Backfilled(disk)
    OBVIOUS
  <2>9. d = [disk EXCEPT !.rolls = rolls, !.first = Min(S), !.last = Max(S)]
    BY <2>1, <2>6, <2>8 DEF Backfilled
  <2>10. /\ d \in Counters /\ d.total = disk.total /\ d.next = disk.next /\ d.mark = disk.mark
         /\ d.rolls = rolls /\ d.first = Min(S) /\ d.last = Max(S)
    BY <1>2, <2>4, <2>5, <2>7, <2>9 DEF Counters
  <2>11. \A r \in rows : r.stamp <= Max(S) /\ Min(S) # 0 /\ Min(S) <= r.stamp
    BY <2>1, <2>4, <2>5
  <2>12. Describes(d, rows)
    BY <2>6, <2>10, <2>11 DEF Describes
  <2> QED
    BY <2>8, <2>10, <2>12
<1>5. c \in Counters /\ c.total = disk.total /\ c.next = disk.next /\ c.mark = disk.mark
  BY <1>2, <1>3, <1>4
<1>6. ArchiveTypeOK'
  <2>1. inbox' \in Seq([agent : Author, stamp : Stamp])
    BY <1>1
  <2> QED
    BY <1>1, <1>3, <1>5, <2>1 DEF ArchiveTypeOK
<1>7. \A a \in Author : disk.next[a] \in Nat
  BY <1>2 DEF Counters
<1>8. NumberInv'
  BY <1>1, <1>3, <1>5, <1>7 DEF NumberInv
<1>9. ~astray => Describes(c, rows) /\ c.total = Cardinality(rows)
  <2> SUFFICES ASSUME ~astray PROVE Describes(c, rows) /\ c.total = Cardinality(rows)
    OBVIOUS
  <2>1. disk.total = Cardinality(rows) /\ (Describes(disk, rows) \/ (disk.rolls = NoRolls /\ rows # {}))
    BY <1>1 DEF CounterInv
  <2>2. rows # {} => disk.total > 0
    BY <1>2, <2>1, FS_CardinalityType, FS_EmptySet
  <2> QED
    BY <1>3, <1>4, <1>5, <2>1, <2>2
<1>10. CounterInv'
  BY <1>1, <1>3, <1>9 DEF CounterInv
<1>11. LimitInv'
  BY <1>1, <1>3, <1>5 DEF LimitInv
<1>12. ReaderInv'
  BY <1>1 DEF ReaderInv
<1> QED
  BY <1>6, <1>8, <1>10, <1>11, <1>12 DEF ArchiveInv

LEMMA QueueParts ==
  ASSUME NEW T, NEW q \in Seq(T)
  PROVE  /\ \A x \in T : Append(q, x) \in Seq(T)
         /\ q # <<>> => Tail(q) \in Seq(T)
         /\ \A n \in 1..Len(q) : SubSeq(q, n + 1, Len(q)) \in Seq(T)
OBVIOUS

\* What a turn handed in, a stop, a death and a failed write leave behind.
LEMMA ArchiveQuietStep ==
  ASSUME ArchiveInv,
         \/ \E a \in Author, t \in Stamp : IngestTurn(a, t)
         \/ Stop \/ Close \/ Die
  PROVE  ArchiveInv'
<1>1. ArchiveTypeOK /\ NumberInv /\ CounterInv /\ LimitInv /\ ReaderInv
  BY DEF ArchiveInv
<1>2. UNCHANGED <<disk, rows, reader, astray, overdue>>
  BY DEF IngestTurn, Stop, Close, Die
<1>3. \/ UNCHANGED <<mem, stage>>
      \/ stage # "closed" /\ stage' = "closed" /\ mem' = Nothing
  BY DEF IngestTurn, Stop, Close, Die
<1>4. stopping' \in BOOLEAN
  BY <1>1 DEF IngestTurn, Stop, Close, Die, ArchiveTypeOK
<1>5. inbox' \in Seq([agent : Author, stamp : Stamp])
  <2>1. PICK T : T = [agent : Author, stamp : Stamp]
    OBVIOUS
  <2>2. inbox \in Seq(T)
    BY <1>1, <2>1 DEF ArchiveTypeOK
  <2>3. ASSUME NEW a \in Author, NEW t \in Stamp, IngestTurn(a, t) PROVE inbox' \in Seq(T)
    <3>1. [agent |-> a, stamp |-> t] \in T
      BY <2>1
    <3> QED
      BY <2>2, <2>3, <3>1, QueueParts DEF IngestTurn
  <2>4. ASSUME Stop PROVE inbox' \in Seq(T)
    <3>1. Len(inbox) = QueueLimit => inbox # <<>>
      BY RecordAssumption
    <3> QED
      BY <2>2, <2>4, <3>1, QueueParts DEF Stop
  <2>5. ASSUME Close \/ Die PROVE inbox' \in Seq(T)
    <3>1. inbox' = inbox \/ inbox' = <<>>
      BY <2>5 DEF Close, Die
    <3>2. <<>> \in Seq(T)
      OBVIOUS
    <3> QED
      BY <2>2, <3>1, <3>2
  <2> QED
    BY <2>1, <2>3, <2>4, <2>5
<1>6. Nothing \in Counters
  BY DEF Nothing, Counters, NoRolls
<1>7. ArchiveTypeOK'
  BY <1>1, <1>2, <1>3, <1>4, <1>5, <1>6 DEF ArchiveTypeOK
<1>8. NumberInv'
  BY <1>1, <1>2, <1>3 DEF NumberInv
<1>9. CounterInv'
  BY <1>1, <1>2, <1>3 DEF CounterInv
<1>10. LimitInv' /\ ReaderInv'
  BY <1>1, <1>2 DEF LimitInv, ReaderInv
<1> QED
  BY <1>7, <1>8, <1>9, <1>10 DEF ArchiveInv

\* Once a write has failed only the numbers are promised.
LEMMA FailingStep ==
  ASSUME ArchiveInv, (\E n \in 1..BatchSize : WriteFails(n)) \/ PruneFails
  PROVE  ArchiveInv'
<1>1. ArchiveTypeOK /\ NumberInv /\ CounterInv /\ LimitInv /\ ReaderInv
  BY DEF ArchiveInv
<1>2. /\ UNCHANGED <<disk, rows, reader, overdue, stopping>>
      /\ astray' = TRUE /\ stage' = "open" /\ stage # "closed"
  BY <1>1 DEF WriteFails, PruneFails
<1>3. \A a \in Author : mem.next[a] \in Nat /\ disk.next[a] \in Nat
  BY <1>1 DEF ArchiveTypeOK, Counters
<1>4. /\ mem' \in Counters /\ inbox' \in Seq([agent : Author, stamp : Stamp])
      /\ \A a \in Author : mem.next[a] <= mem'.next[a]
  <2>1. CASE PruneFails
    <3>1. mem' = Pruned(mem) /\ inbox' = inbox /\ Walk # {} /\ mem.total > MaxKept
      BY <1>1, <2>1 DEF PruneFails, CounterInv
    <3>2. mem' \in Counters /\ mem'.next = mem.next
      BY <1>1, <3>1, PrunedParts
    <3> QED
      BY <1>1, <1>3, <3>1, <3>2 DEF ArchiveTypeOK
  <2>2. ASSUME NEW n \in 1..BatchSize, WriteFails(n)
        PROVE  /\ mem' \in Counters /\ inbox' \in Seq([agent : Author, stamp : Stamp])
               /\ \A a \in Author : mem.next[a] <= mem'.next[a]
    <3>1. n \in Nat \ {0} /\ Taken(n) /\ mem' = Tallied(n) /\ inbox' = SubSeq(inbox, n + 1, Len(inbox))
      BY <2>2 DEF WriteFails, Taken
    <3>2. /\ mem' \in Counters
          /\ \A a \in Author : mem'.next[a] = mem.next[a] + Cardinality(Same(n, a))
      BY <1>1, <3>1, TalliedParts
    <3>3. \A a \in Author : Cardinality(Same(n, a)) \in Nat
      <4>1. n \in Nat /\ n \in 0..n
        BY <3>1
      <4> QED
        BY <4>1, SameParts
    <3>4. inbox' \in Seq([agent : Author, stamp : Stamp])
      <4>1. PICK T : T = [agent : Author, stamp : Stamp]
        OBVIOUS
      <4>2. inbox \in Seq(T) /\ n \in 1..Len(inbox)
        BY <1>1, <3>1, <4>1 DEF ArchiveTypeOK, Taken
      <4> QED
        BY <3>1, <4>1, <4>2, QueueParts
    <3> QED
      BY <1>3, <3>2, <3>3, <3>4
  <2> QED
    BY <2>1, <2>2
<1>5. ArchiveTypeOK'
  BY <1>1, <1>2, <1>4 DEF ArchiveTypeOK
<1>6. \A a \in Author : mem'.next[a] \in Nat
  BY <1>4 DEF Counters
<1>7. NumberInv'
  BY <1>1, <1>2, <1>3, <1>4, <1>6 DEF NumberInv
<1>8. CounterInv' /\ LimitInv' /\ ReaderInv'
  BY <1>1, <1>2 DEF CounterInv, LimitInv, ReaderInv
<1> QED
  BY <1>5, <1>7, <1>8 DEF ArchiveInv

LEMMA WriteStep ==
  ASSUME ArchiveInv, NEW n \in 1..BatchSize, WriteBatch(n)
  PROVE  ArchiveInv'
<1>1. ArchiveTypeOK /\ NumberInv /\ CounterInv /\ LimitInv /\ ReaderInv
  BY DEF ArchiveInv
<1>2. /\ stage = "open" /\ Taken(n) /\ n \in Nat \ {0} /\ n \in Nat
      /\ inbox' = SubSeq(inbox, n + 1, Len(inbox))
      /\ mem' = Tallied(n) /\ disk' = Tallied(n)
      /\ rows' = rows \cup NewRows(n)
      /\ reader' = [reader EXCEPT !.behind = @ \cup {r \in NewRows(n) : Before(r, reader.at)}]
      /\ stage' = (IF Tallied(n).total > MaxKept THEN "locked" ELSE "open")
      /\ overdue' = (Tallied(n).total > MaxKept)
      /\ UNCHANGED <<stopping, astray>>
  BY DEF WriteBatch
<1>3. /\ mem \in Counters /\ disk \in Counters /\ rows \in SUBSET Row /\ IsFiniteSet(rows)
      /\ reader \in [at : Row \cup {Start}, seen : SUBSET Row, behind : SUBSET Row]
  BY <1>1 DEF ArchiveTypeOK
<1>4. PICK N : N = NewRows(n)
  OBVIOUS
<1>5. /\ N \in SUBSET Row /\ IsFiniteSet(N) /\ Cardinality(N) = n
      /\ \A r \in N : mem.next[r.agent] <= r.seq /\ r.seq < mem.next[r.agent] + Cardinality(Same(n, r.agent))
      /\ \A r, q \in N : r.agent = q.agent /\ r.seq = q.seq => r = q
      /\ N \cap rows = {}
      /\ \A b \in Buckets : Cardinality(InBucket(N, b)) = Cardinality(Falling(n, b))
  BY <1>1, <1>2, <1>4, BatchRows
<1>6. PICK c : c = Tallied(n)
  OBVIOUS
<1>7. /\ c \in Counters /\ c.total = mem.total + n /\ c.mark = mem.mark
      /\ \A b \in Buckets : c.rolls[b] = mem.rolls[b] + Cardinality(Falling(n, b))
      /\ \A a \in Author : c.next[a] = mem.next[a] + Cardinality(Same(n, a))
      /\ mem.last <= c.last /\ \A r \in N : r.stamp <= c.last
      /\ c.first # 0 /\ (mem.first # 0 => c.first <= mem.first)
      /\ \A r \in N : c.first <= r.stamp
  BY <1>1, <1>2, <1>4, <1>6, TalliedParts
<1>8. mem' = c /\ disk' = c /\ rows' = rows \cup N /\ (stage' = "locked" \/ stage' = "open")
      /\ (stage' = "locked" => c.total > MaxKept) /\ overdue' = (c.total > MaxKept)
      /\ UNCHANGED <<stopping, astray>>
  BY <1>2, <1>4, <1>6
<1>9. reader' = [reader EXCEPT !.behind = reader.behind \cup {r \in N : Before(r, reader.at)}]
  BY <1>2, <1>3, <1>4
<1>10. /\ reader' \in [at : Row \cup {Start}, seen : SUBSET Row, behind : SUBSET Row]
       /\ reader'.at = reader.at /\ reader'.seen = reader.seen
       /\ reader'.behind = reader.behind \cup {r \in N : Before(r, reader.at)}
  BY <1>3, <1>5, <1>9
<1>11. rows' \in SUBSET Row /\ IsFiniteSet(rows') /\ Cardinality(rows') = Cardinality(rows) + n
       /\ Cardinality(rows) \in Nat
  <2>1. IsFiniteSet(rows \cup N) /\ Cardinality(rows \cup N) = Cardinality(rows) + Cardinality(N) - Cardinality(rows \cap N)
    BY <1>3, <1>5, FS_Union
  <2>2. Cardinality(rows \cap N) = 0 /\ Cardinality(rows) \in Nat
    BY <1>3, <1>5, FS_EmptySet, FS_CardinalityType
  <2>3. rows' \in SUBSET Row
    BY <1>3, <1>5, <1>8
  <2>4. Cardinality(rows \cup N) = Cardinality(rows) + n
    BY <1>2, <1>5, <2>1, <2>2
  <2> QED
    BY <1>8, <2>1, <2>2, <2>3, <2>4
<1>12. inbox' \in Seq([agent : Author, stamp : Stamp])
  <2>1. PICK T : T = [agent : Author, stamp : Stamp]
    OBVIOUS
  <2>2. inbox \in Seq(T) /\ n \in 1..Len(inbox)
    BY <1>1, <1>2, <2>1 DEF ArchiveTypeOK, Taken
  <2> QED
    BY <1>2, <2>1, <2>2, QueueParts
<1>13. ArchiveTypeOK'
  BY <1>1, <1>7, <1>8, <1>10, <1>11, <1>12 DEF ArchiveTypeOK
<1>14. \A a \in Author : /\ mem.next[a] \in Nat /\ disk.next[a] \in Nat /\ c.next[a] \in Nat
                         /\ disk.next[a] <= mem.next[a] /\ mem.next[a] <= c.next[a]
  <2>1. \A a \in Author : Cardinality(Same(n, a)) \in Nat
    <3>1. n \in 0..n
      BY <1>2
    <3> QED
      BY <1>2, <3>1, SameParts
  <2>2. \A a \in Author : mem.next[a] \in Nat /\ disk.next[a] \in Nat /\ c.next[a] \in Nat
    BY <1>3, <1>7 DEF Counters
  <2> QED
    BY <1>1, <1>2, <1>7, <2>1, <2>2 DEF NumberInv
<1>15. NumberInv'
  <2>1. \A r \in rows : r.agent \in Author /\ r.seq \in Nat /\ r.seq < disk.next[r.agent]
    BY <1>1, <1>3 DEF NumberInv, Row
  <2>2. \A r \in N : r.agent \in Author /\ r.seq \in Nat
    BY <1>5 DEF Row
  <2>3. \A r \in rows, q \in N : r.agent = q.agent => r.seq < q.seq
    BY <1>5, <1>14, <2>1, <2>2
  <2>4. \A r, q \in rows' : r.agent = q.agent /\ r.seq = q.seq => r = q
    <3> SUFFICES ASSUME NEW r \in rows', NEW q \in rows', r.agent = q.agent, r.seq = q.seq PROVE r = q
      OBVIOUS
    <3>1. (r \in rows \/ r \in N) /\ (q \in rows \/ q \in N) /\ r.seq \in Nat /\ q.seq \in Nat
      BY <1>8, <2>1, <2>2
    <3>2. ~(r \in rows /\ q \in N) /\ ~(q \in rows /\ r \in N)
      BY <2>3, <3>1
    <3> QED
      BY <1>1, <1>5, <3>1, <3>2 DEF NumberInv
  <2>5. \A r \in rows' : r.seq < c.next[r.agent]
    <3>1. \A r \in rows : r.seq < c.next[r.agent]
      BY <1>14, <2>1
    <3>2. \A r \in N : r.seq < c.next[r.agent]
      BY <1>5, <1>7, <2>2
    <3> QED
      BY <1>8, <3>1, <3>2
  <2> QED
    BY <1>8, <1>14, <2>4, <2>5 DEF NumberInv
<1>16. ~astray => mem = disk /\ mem.total = Cardinality(rows) /\ Describes(mem, rows)
  BY <1>1, <1>2 DEF CounterInv
<1>17. ~astray => Describes(c, rows')
  <2> SUFFICES ASSUME ~astray PROVE Describes(c, rows')
    OBVIOUS
  <2>1. ASSUME NEW b \in Buckets PROVE c.rolls[b] = Cardinality(InBucket(rows', b))
    <3>1. InBucket(rows', b) = InBucket(rows, b) \cup InBucket(N, b)
      BY <1>8 DEF InBucket
    <3>2. InBucket(rows, b) \in SUBSET rows /\ InBucket(N, b) \in SUBSET N
          /\ InBucket(rows, b) \cap InBucket(N, b) = {}
      BY <1>5 DEF InBucket
    <3>3. IsFiniteSet(InBucket(rows, b)) /\ IsFiniteSet(InBucket(N, b))
      BY <1>3, <1>5, <3>2, FS_Subset
    <3>4. Cardinality(InBucket(rows', b)) =
            Cardinality(InBucket(rows, b)) + Cardinality(InBucket(N, b)) - Cardinality(InBucket(rows, b) \cap InBucket(N, b))
      BY <3>1, <3>3, FS_Union
    <3>5. Cardinality(InBucket(rows, b) \cap InBucket(N, b)) = 0
          /\ Cardinality(InBucket(rows, b)) \in Nat /\ Cardinality(InBucket(N, b)) \in Nat
      BY <3>2, <3>3, FS_EmptySet, FS_CardinalityType
    <3>6. mem.rolls[b] = Cardinality(InBucket(rows, b))
      BY <1>16 DEF Describes
    <3> QED
      BY <1>5, <1>7, <3>4, <3>5, <3>6
  <2>2. mem.last \in Nat /\ mem.first \in Nat /\ mem.mark \in Nat /\ c.last \in Nat /\ c.first \in Nat
    BY <1>3, <1>7 DEF Counters
  <2>3. \A r \in rows' : r.stamp \in Nat
    BY <1>11, Nats DEF Row
  <2>4. ASSUME NEW r \in rows PROVE r.stamp <= c.last /\ (r.stamp >= c.mark => c.first # 0 /\ c.first <= r.stamp)
    <3>1. r.stamp <= mem.last /\ (r.stamp >= mem.mark => mem.first # 0 /\ mem.first <= r.stamp)
      BY <1>16 DEF Describes
    <3>2. r.stamp \in Nat
      BY <1>8, <2>3
    <3> QED
      BY <1>7, <2>2, <3>1, <3>2
  <2>5. ASSUME NEW r \in N PROVE r.stamp <= c.last /\ (r.stamp >= c.mark => c.first # 0 /\ c.first <= r.stamp)
    BY <1>7
  <2> QED
    BY <1>8, <2>1, <2>4, <2>5 DEF Describes
<1>18. CounterInv'
  BY <1>7, <1>8, <1>11, <1>16, <1>17 DEF CounterInv
<1>19. LimitInv'
  <2>1. MaxKept \in Nat /\ c.total \in Nat
    BY <1>7, RecordAssumption DEF Counters
  <2> SUFFICES ASSUME ~astray', ~overdue' PROVE Cardinality(rows') <= MaxKept
    BY DEF LimitInv
  <2>2. ~(c.total > MaxKept) /\ c.total = Cardinality(rows')
    BY <1>7, <1>8, <1>11, <1>16
  <2> QED
    BY <2>1, <2>2
<1>20. ReaderInv'
  <2>1. reader.at = Start => \A r \in N : r # Start
    <3>1. \A r \in N : r.stamp # 0
      BY <1>5, Nats DEF Row
    <3> QED
      BY <3>1 DEF Start
  <2>2. ASSUME NEW r \in N, r = reader.at \/ Before(r, reader.at) PROVE r \in reader'.seen \cup reader'.behind
    <3>1. r = reader.at => r \in reader.seen
      BY <1>1, <2>1 DEF ReaderInv
    <3> QED
      BY <1>10, <2>2, <3>1
  <2>3. \A r \in rows' : r = reader'.at \/ Before(r, reader'.at) => r \in reader'.seen \cup reader'.behind
    BY <1>1, <1>8, <1>10, <2>2 DEF ReaderInv
  <2> QED
    BY <1>1, <1>10, <2>3 DEF ReaderInv
<1> QED
  BY <1>13, <1>15, <1>18, <1>19, <1>20 DEF ArchiveInv

LEMMA PruneStep == ArchiveInv /\ Prune => ArchiveInv'
<1> SUFFICES ASSUME ArchiveInv, Prune PROVE ArchiveInv'
  OBVIOUS
<1>1. ArchiveTypeOK /\ NumberInv /\ CounterInv /\ LimitInv /\ ReaderInv
  BY DEF ArchiveInv
<1>2. /\ stage = "locked" /\ stage' = "open" /\ overdue' = FALSE
      /\ UNCHANGED <<inbox, stopping, reader, astray>>
  BY DEF Prune
<1>3. /\ mem \in Counters /\ disk \in Counters /\ rows \in SUBSET Row /\ IsFiniteSet(rows)
  BY <1>1 DEF ArchiveTypeOK
<1>4. mem.total > MaxKept /\ (~astray => mem = disk /\ mem.total = Cardinality(rows) /\ Describes(mem, rows))
  BY <1>1, <1>2 DEF CounterInv
<1>5. CASE Walk = {}
  <2>1. UNCHANGED <<mem, disk, rows>>
    BY <1>5 DEF Prune
  <2>2. ArchiveTypeOK' /\ NumberInv' /\ CounterInv' /\ ReaderInv'
    BY <1>1, <1>2, <2>1 DEF ArchiveTypeOK, NumberInv, CounterInv, ReaderInv
  <2>3. LimitInv'
    <3>1. ASSUME ~astray, NEW r \in rows PROVE r.stamp < disk.mark
      <4>1. ~(r.stamp >= mem.mark)
        BY <1>5 DEF Walk
      <4>2. r.stamp \in Nat /\ mem.mark \in Nat
        BY <1>3, Nats DEF Row, Counters
      <4> QED
        BY <1>4, <3>1, <4>1, <4>2
    <3> QED
      BY <1>2, <2>1, <3>1 DEF LimitInv
  <2> QED
    BY <2>2, <2>3 DEF ArchiveInv
<1>6. CASE Walk # {}
  <2>1. PICK c, V : c = Pruned(mem) /\ V = Victims
    OBVIOUS
  <2>2. mem' = c /\ disk' = c /\ rows' = rows \ V
    BY <1>6, <2>1 DEF Prune
  <2>3. /\ V \in SUBSET rows /\ IsFiniteSet(V) /\ Cardinality(V) = Excess
        /\ Excess \in Nat /\ (Excess = mem.total - PruneTo \/ V = Walk)
        /\ c \in Counters /\ c.total = mem.total - Excess /\ c.next = mem.next /\ c.last = mem.last
        /\ c.first = c.mark /\ c.mark # 0 /\ mem.mark <= c.mark
        /\ \A r \in V : r.stamp <= c.mark
        /\ \A b \in Buckets : c.rolls[b] =
             IF mem.rolls[b] > Cardinality(InBucket(V, b)) THEN mem.rolls[b] - Cardinality(InBucket(V, b)) ELSE 0
    BY <1>1, <1>4, <1>6, <2>1, PrunedParts
  <2>4. /\ rows' \in SUBSET Row /\ IsFiniteSet(rows') /\ rows' \in SUBSET rows
        /\ Cardinality(rows') = Cardinality(rows) - Excess
        /\ Cardinality(rows) \in Nat
    <3>1. IsFiniteSet(rows \ V) /\ Cardinality(rows \ V) = Cardinality(rows) - Cardinality(rows \cap V)
      BY <1>3, FS_Difference
    <3>2. rows \cap V = V
      BY <2>3
    <3>3. Cardinality(rows) \in Nat
      BY <1>3, FS_CardinalityType
    <3> QED
      BY <1>3, <2>2, <2>3, <3>1, <3>2, <3>3
  <2>5. ArchiveTypeOK'
    BY <1>1, <1>2, <2>2, <2>3, <2>4 DEF ArchiveTypeOK
  <2>6. NumberInv'
    <3>1. \A a \in Author : mem.next[a] \in Nat /\ disk.next[a] \in Nat /\ disk.next[a] <= mem.next[a]
      BY <1>1, <1>2, <1>3 DEF NumberInv, Counters
    <3>2. \A r \in rows : r.agent \in Author /\ r.seq \in Nat /\ r.seq < disk.next[r.agent]
      BY <1>1, <1>3 DEF NumberInv, Row
    <3>3. \A r \in rows' : r.seq < c.next[r.agent]
      BY <2>3, <2>4, <3>1, <3>2
    <3>4. \A a \in Author : c.next[a] <= c.next[a]
      BY <2>3, <3>1
    <3> QED
      BY <1>1, <2>2, <2>4, <3>3, <3>4 DEF NumberInv
  <2>7. ASSUME ~astray PROVE Describes(c, rows')
    <3>1. ASSUME NEW b \in Buckets PROVE c.rolls[b] = Cardinality(InBucket(rows', b))
      <4>1. InBucket(rows', b) = InBucket(rows, b) \ InBucket(V, b)
        BY <2>2 DEF InBucket
      <4>2. InBucket(rows, b) \in SUBSET rows /\ InBucket(V, b) \in SUBSET InBucket(rows, b)
            /\ InBucket(rows, b) \cap InBucket(V, b) = InBucket(V, b)
        BY <2>3 DEF InBucket
      <4>3. IsFiniteSet(InBucket(rows, b)) /\ IsFiniteSet(InBucket(V, b))
            /\ Cardinality(InBucket(V, b)) <= Cardinality(InBucket(rows, b))
        BY <1>3, <4>2, FS_Subset
      <4>4. Cardinality(InBucket(rows', b)) = Cardinality(InBucket(rows, b)) - Cardinality(InBucket(V, b))
        <5>1. Cardinality(InBucket(rows, b) \ InBucket(V, b)) =
                Cardinality(InBucket(rows, b)) - Cardinality(InBucket(rows, b) \cap InBucket(V, b))
          BY <4>3, FS_Difference
        <5> QED
          BY <4>1, <4>2, <5>1
      <4>5. Cardinality(InBucket(rows, b)) \in Nat /\ Cardinality(InBucket(V, b)) \in Nat
        BY <4>3, FS_CardinalityType
      <4>6. mem.rolls[b] = Cardinality(InBucket(rows, b))
        BY <1>4, <2>7 DEF Describes
      <4>7. c.rolls[b] = IF mem.rolls[b] > Cardinality(InBucket(V, b)) THEN mem.rolls[b] - Cardinality(InBucket(V, b)) ELSE 0
        BY <2>3
      <4> QED
        BY <4>3, <4>4, <4>5, <4>6, <4>7
    <3>2. \A r \in rows' : r.stamp <= c.last /\ (r.stamp >= c.mark => c.first # 0 /\ c.first <= r.stamp)
      <4> TAKE r \in rows'
      <4>1. r.stamp <= mem.last
        BY <1>4, <2>4, <2>7 DEF Describes
      <4>2. c.mark \in Nat /\ r.stamp \in Nat
        BY <2>3, <2>4, Nats DEF Counters, Row
      <4> QED
        BY <2>3, <4>1, <4>2
    <3> QED
      BY <3>1, <3>2 DEF Describes
  <2>8. CounterInv'
    BY <1>2, <1>4, <2>2, <2>3, <2>4, <2>7 DEF CounterInv
  <2>9. LimitInv'
    <3> SUFFICES ASSUME ~astray PROVE Cardinality(rows') <= MaxKept \/ \A r \in rows' : r.stamp < c.mark
      BY <1>2, <2>2 DEF LimitInv
    <3>1. CASE Excess = mem.total - PruneTo
      <4>1. PruneTo \in Nat /\ MaxKept \in Nat /\ PruneTo <= MaxKept
        BY RecordAssumption
      <4>2. Cardinality(rows') = PruneTo
        BY <1>4, <2>4, <3>1, <4>1
      <4> QED
        BY <4>1, <4>2
    <3>2. CASE V = Walk
      <4>1. ASSUME NEW r \in rows' PROVE r.stamp < c.mark
        <5>1. ~(r.stamp >= mem.mark)
          BY <2>2, <3>2 DEF Walk
        <5>2. r.stamp \in Nat /\ mem.mark \in Nat /\ c.mark \in Nat
          BY <1>3, <2>3, <2>4, Nats DEF Counters, Row
        <5> QED
          BY <2>3, <5>1, <5>2
      <4> QED
        BY <4>1
    <3> QED
      BY <2>3, <3>1, <3>2
  <2>10. ReaderInv'
    BY <1>1, <1>2, <2>4 DEF ReaderInv
  <2> QED
    BY <2>5, <2>6, <2>8, <2>9, <2>10 DEF ArchiveInv
<1> QED
  BY <1>5, <1>6

------------------------------------------------------------------------------
(* The reader.                                                                *)

LEMMA PageParts ==
  ASSUME ArchiveTypeOK
  PROVE  /\ Page \in SUBSET AfterCursor /\ IsFiniteSet(Page) /\ AfterCursor \in SUBSET rows
         /\ Cardinality(Page) < PageSize => Page = AfterCursor
         /\ \A r \in Page, q \in AfterCursor : Before(q, r) => q \in Page
<1>1. AfterCursor \in SUBSET rows
  BY DEF AfterCursor
<1>2. rows \in SUBSET Row /\ IsFiniteSet(rows)
  BY DEF ArchiveTypeOK
<1>3. AfterCursor \in SUBSET Turn /\ IsFiniteSet(AfterCursor)
  BY <1>1, <1>2, Nats, FS_Subset
<1>4. PageSize \in Nat /\ Cardinality(AfterCursor) \in Nat
  BY <1>3, RecordAssumption, FS_CardinalityType
<1>5. /\ Page \in SUBSET AfterCursor
      /\ PageSize <= Cardinality(AfterCursor) => Cardinality(Page) = PageSize
      /\ Cardinality(AfterCursor) <= PageSize => Page = AfterCursor
      /\ \A r \in Page, q \in AfterCursor : Before(q, r) => q \in Page
  BY <1>3, <1>4, FirstAre DEF Page
<1>6. IsFiniteSet(Page)
  BY <1>3, <1>5, FS_Subset
<1> QED
  BY <1>1, <1>4, <1>5, <1>6

LEMMA CursorOrder ==
  ASSUME ArchiveTypeOK
  PROVE  /\ reader.at \in Turn
         /\ \A r \in rows : r \in Turn
         /\ \A r \in rows : r \in AfterCursor \/ r = reader.at \/ Before(r, reader.at)
<1>1. reader.at \in Row \cup {Start} /\ rows \in SUBSET Row
  BY DEF ArchiveTypeOK
<1>2. Start \in Turn
  BY DEF Start, Turn
<1>3. reader.at \in Turn /\ \A r \in rows : r \in Turn
  BY <1>1, <1>2, Nats
<1> QED
  BY <1>3, KeysOrder DEF AfterCursor

LEMMA PageStep == ArchiveInv /\ LedgerPage => ArchiveInv'
<1> SUFFICES ASSUME ArchiveInv, LedgerPage PROVE ArchiveInv'
  OBVIOUS
<1>1. ArchiveTypeOK /\ NumberInv /\ CounterInv /\ LimitInv /\ ReaderInv
  BY DEF ArchiveInv
<1>2. /\ Cardinality(Page) = PageSize
      /\ reader' = [reader EXCEPT !.at = LastOf(Page), !.seen = @ \cup Page]
      /\ UNCHANGED <<inbox, mem, disk, rows, stage, stopping, astray, overdue>>
  BY DEF LedgerPage
<1>3. /\ rows \in SUBSET Row
      /\ reader \in [at : Row \cup {Start}, seen : SUBSET Row, behind : SUBSET Row]
  BY <1>1 DEF ArchiveTypeOK
<1>4. /\ Page \in SUBSET AfterCursor /\ IsFiniteSet(Page) /\ AfterCursor \in SUBSET rows
      /\ \A r \in Page, q \in AfterCursor : Before(q, r) => q \in Page
  BY <1>1, PageParts
<1>5. Page # {} /\ Page \in SUBSET Turn /\ Page \in SUBSET Row
  BY <1>2, <1>3, <1>4, FS_EmptySet, RecordAssumption, Nats
<1>6. PICK l : l = LastOf(Page)
  OBVIOUS
<1>7. l \in Page /\ \A q \in Page : q = l \/ Before(q, l)
  BY <1>4, <1>5, <1>6, LastIs
<1>8. reader' \in [at : Row \cup {Start}, seen : SUBSET Row, behind : SUBSET Row]
      /\ reader'.at = l /\ reader'.seen = reader.seen \cup Page /\ reader'.behind = reader.behind
  BY <1>2, <1>3, <1>5, <1>6, <1>7
<1>9. ArchiveTypeOK'
  BY <1>1, <1>2, <1>8 DEF ArchiveTypeOK
<1>10. NumberInv' /\ CounterInv' /\ LimitInv'
  BY <1>1, <1>2 DEF NumberInv, CounterInv, LimitInv
<1>11. Before(reader.at, l) /\ l \in Turn
  BY <1>4, <1>5, <1>7 DEF AfterCursor
<1>12. /\ reader.at \in Turn /\ \A r \in rows : r \in Turn
       /\ \A r \in rows : r \in AfterCursor \/ r = reader.at \/ Before(r, reader.at)
  BY <1>1, CursorOrder
<1>13. \A r \in reader'.seen : r = l \/ Before(r, l)
  <2> TAKE r \in reader'.seen
  <2>1. CASE r \in Page
    BY <1>7, <2>1
  <2>2. CASE r \in reader.seen
    <3>1. r \in Turn /\ (r = reader.at \/ Before(r, reader.at))
      BY <1>1, <1>3, <2>2, Nats DEF ReaderInv
    <3> QED
      BY <1>11, <1>12, <3>1, KeysOrder
  <2> QED
    BY <1>8, <2>1, <2>2
<1>14. \A r \in rows : r = l \/ Before(r, l) => r \in reader'.seen \cup reader'.behind
  <2> SUFFICES ASSUME NEW r \in rows, r = l \/ Before(r, l) PROVE r \in reader'.seen \cup reader'.behind
    OBVIOUS
  <2>1. r \in AfterCursor => r \in Page
    BY <1>4, <1>7
  <2>2. r = reader.at \/ Before(r, reader.at) => r \in reader.seen \cup reader.behind
    BY <1>1 DEF ReaderInv
  <2> QED
    BY <1>8, <1>12, <2>1, <2>2
<1>15. ReaderInv'
  BY <1>2, <1>7, <1>8, <1>13, <1>14 DEF ReaderInv
<1> QED
  BY <1>9, <1>10, <1>15 DEF ArchiveInv

LEMMA EndsStep == ArchiveInv /\ LedgerEnds => ArchiveInv'
<1> SUFFICES ASSUME ArchiveInv, LedgerEnds PROVE ArchiveInv'
  OBVIOUS
<1>1. ArchiveTypeOK /\ NumberInv /\ CounterInv /\ LimitInv /\ ReaderInv
  BY DEF ArchiveInv
<1>2. reader' = NewReader /\ UNCHANGED <<inbox, mem, disk, rows, stage, stopping, astray, overdue>>
  BY DEF LedgerEnds
<1>3. reader' \in [at : Row \cup {Start}, seen : SUBSET Row, behind : SUBSET Row]
      /\ reader'.at = Start /\ reader'.seen = {}
  BY <1>2 DEF NewReader
<1>4. ArchiveTypeOK' /\ NumberInv' /\ CounterInv' /\ LimitInv'
  BY <1>1, <1>2, <1>3 DEF ArchiveTypeOK, NumberInv, CounterInv, LimitInv
<1>5. \A r \in rows : r # Start /\ ~Before(r, Start)
  <2>1. \A r \in rows : r.stamp \in Nat /\ r.stamp # 0
    BY <1>1, Nats DEF ArchiveTypeOK, Row
  <2> QED
    BY <2>1 DEF Start, Before
<1>6. ReaderInv'
  BY <1>2, <1>3, <1>5 DEF ReaderInv
<1> QED
  BY <1>4, <1>6 DEF ArchiveInv

LEMMA ArchiveStepHolds == ArchiveInv /\ [RecordNext]_recordVars => ArchiveInv'
<1> SUFFICES ASSUME ArchiveInv, [RecordNext]_recordVars PROVE ArchiveInv'
  OBVIOUS
<1>1. CASE UNCHANGED recordVars
  BY <1>1 DEF recordVars, ArchiveInv, ArchiveTypeOK, NumberInv, CounterInv, LimitInv, ReaderInv
<1>2. CASE Open \/ Prune \/ LedgerPage \/ LedgerEnds
  BY <1>2, OpenStep, PruneStep, PageStep, EndsStep
<1>3. CASE (\E a \in Author, t \in Stamp : IngestTurn(a, t)) \/ Stop \/ Close \/ Die
  BY <1>3, ArchiveQuietStep
<1>4. CASE (\E n \in 1..BatchSize : WriteFails(n)) \/ PruneFails
  BY <1>4, FailingStep
<1>5. CASE \E n \in 1..BatchSize : WriteBatch(n)
  BY <1>5, WriteStep
<1> QED
  BY <1>1, <1>2, <1>3, <1>4, <1>5 DEF RecordNext

LEMMA SoundnessFollows == ArchiveInv => ArchiveIsSound
<1> SUFFICES ASSUME ArchiveInv PROVE ArchiveIsSound
  OBVIOUS
<1>1. NumberInv /\ CounterInv /\ LimitInv
  BY DEF ArchiveInv
<1>2. CountersMatchRows
  BY <1>1 DEF NumberInv, CounterInv, Describes, CountersMatchRows
<1>3. RetentionHolds
  BY <1>1 DEF LimitInv, RetentionHolds
<1> QED
  BY <1>2, <1>3 DEF ArchiveIsSound

\* A page has nothing the reader holds; after the last one it holds everything,
\* but what was written behind its cursor.
LEMMA PagesAreNew ==
  ASSUME ArchiveInv
  PROVE  /\ Page \cap reader.seen = {}
         /\ Cardinality(Page) < PageSize => rows \subseteq reader.seen \cup Page \cup reader.behind
<1>1. ArchiveTypeOK /\ ReaderInv
  BY DEF ArchiveInv
<1>2. /\ Page \in SUBSET AfterCursor /\ AfterCursor \in SUBSET rows
      /\ Cardinality(Page) < PageSize => Page = AfterCursor
  BY <1>1, PageParts
<1>3. reader.at \in Turn /\ (\A r \in rows : r \in Turn)
      /\ \A r \in rows : r \in AfterCursor \/ r = reader.at \/ Before(r, reader.at)
  BY <1>1, CursorOrder
<1>4. ASSUME NEW r \in Page, r \in reader.seen PROVE FALSE
  <2>1. Before(reader.at, r) /\ r \in Turn
    BY <1>2, <1>3 DEF AfterCursor
  <2>2. r = reader.at \/ Before(r, reader.at)
    BY <1>1, <1>4 DEF ReaderInv
  <2> QED
    BY <1>3, <2>1, <2>2, KeysOrder
<1>5. Cardinality(Page) < PageSize => rows \subseteq reader.seen \cup Page \cup reader.behind
  BY <1>1, <1>2, <1>3 DEF ReaderInv
<1> QED
  BY <1>4, <1>5

\* The counters on disk describe the turns on disk, whatever crash, stop or late turn
\* came between a batch and its prune (store.py, _write_batch and _prune_locked), no
\* sequence number is given twice, and retention keeps to its limit.
THEOREM ArchiveStaysSound == RecordSpec => []ArchiveIsSound
<1>1. RecordInit => ArchiveInv
  BY ArchiveInitHolds
<1>2. ArchiveInv /\ [RecordNext]_recordVars => ArchiveInv'
  BY ArchiveStepHolds
<1>3. ArchiveInv => ArchiveIsSound
  BY SoundnessFollows
<1> QED
  BY <1>1, <1>2, <1>3, PTL DEF RecordSpec

\* A client that pages the ledger (store.py, ledger) gets no turn twice and, at its
\* end, has every turn that is stored, but those written behind its cursor.
THEOREM LedgersAreReadOnce == RecordSpec => LedgerReadsOnce
<1>1. RecordInit => ArchiveInv
  BY ArchiveInitHolds
<1>2. ArchiveInv /\ [RecordNext]_recordVars => ArchiveInv'
  BY ArchiveStepHolds
<1>3. ArchiveInv => [(LedgerPage \/ LedgerEnds) =>
                       /\ Page \cap reader.seen = {}
                       /\ LedgerEnds => rows \subseteq reader.seen \cup Page \cup reader.behind]_recordVars
  BY PagesAreNew DEF LedgerEnds
<1> QED
  BY <1>1, <1>2, <1>3, PTL DEF RecordSpec, LedgerReadsOnce

------------------------------------------------------------------------------
(* The network probe.  What is remembered of a connection is no older than   *)
(* the last news of it, until its time is over.                              *)

News == [at : Nat, what : Remote \cup {"offline", "online"}]

NetTypeOK ==
  /\ sampled \in Nat /\ sampling \in BOOLEAN /\ fails \in Nat /\ down \in BOOLEAN
  /\ outbound \in [Remote -> Nat]
  /\ news \in Seq(News)
  /\ facts \in [online : BOOLEAN, news : Seq(News)]
  /\ sampling => sampled # 0
  /\ \A i \in DOMAIN news : news[i].at <= sampled
  /\ \A r \in Remote : outbound[r] <= sampled

RememberedInv ==
  \A i \in DOMAIN news : news[i].what \in Remote =>
    \/ outbound[news[i].what] # 0 /\ news[i].at <= outbound[news[i].what]
    \/ news[i].at + OutboundTTL <= sampled

NetInv == NetTypeOK /\ RememberedInv /\ NewsIsNew

LEMMA NetInitHolds == NetInit => NetInv
<1> SUFFICES ASSUME NetInit PROVE NetInv
  OBVIOUS
<1>1. <<>> \in Seq(News) /\ DOMAIN <<>> = {}
  OBVIOUS
<1>2. NetTypeOK
  <2>1. outbound \in [Remote -> Nat] /\ \A r \in Remote : outbound[r] <= sampled
    BY DEF NetInit
  <2>2. facts \in [online : BOOLEAN, news : Seq(News)]
    BY <1>1 DEF NetInit
  <2> QED
    BY <1>1, <2>1, <2>2 DEF NetInit, NetTypeOK
<1>3. ~OfflineIn(<<>>)
  BY DEF OfflineIn, OfflineBy
<1>4. news = <<>> /\ facts.news = <<>> /\ facts.online = TRUE /\ down = FALSE
  BY DEF NetInit
<1>5. RememberedInv /\ NewsIsNew
  BY <1>1, <1>3, <1>4 DEF RememberedInv, NewsIsNew
<1> QED
  BY <1>2, <1>5 DEF NetInv

\* One more entry: whether an outage is open is as before it, and decided by it.
LEMMA OneMore ==
  ASSUME NEW T, NEW log \in Seq(T), NEW e \in T
  PROVE  /\ Append(log, e) \in Seq(T)
         /\ DOMAIN Append(log, e) = 1..(Len(log) + 1) /\ DOMAIN log = 1..Len(log) /\ Len(log) \in Nat
         /\ Len(Append(log, e)) = Len(log) + 1
         /\ \A i \in DOMAIN log : Append(log, e)[i] = log[i]
         /\ Append(log, e)[Len(log) + 1] = e
         /\ \A n \in 0..Len(log) : (OfflineBy(Append(log, e), n) <=> OfflineBy(log, n))
         /\ e.what = "offline" => OfflineIn(Append(log, e))
         /\ e.what = "online" => ~OfflineIn(Append(log, e))
         /\ e.what \notin {"offline", "online"} => (OfflineIn(Append(log, e)) <=> OfflineIn(log))
<1>1. PICK l : l = Append(log, e)
  OBVIOUS
<1>2. l \in Seq(T) /\ DOMAIN l = 1..(Len(log) + 1) /\ Len(l) = Len(log) + 1
  BY <1>1
<1>3. Len(log) \in Nat /\ DOMAIN log = 1..Len(log)
  OBVIOUS
<1>4. (\A i \in 1..Len(log) : l[i] = log[i]) /\ l[Len(log) + 1] = e
  BY <1>1
<1>5. ASSUME NEW n \in 0..Len(log) PROVE OfflineBy(l, n) <=> OfflineBy(log, n)
  <2>1. \A i \in 1..n : i \in 1..Len(log) /\ \A j \in (i + 1)..n : j \in 1..Len(log)
    BY <1>3
  <2>2. \A i \in 1..n : l[i] = log[i] /\ \A j \in (i + 1)..n : l[j] = log[j]
    BY <1>4, <2>1
  <2> QED
    BY <2>2 DEF OfflineBy
<1>6. PICK k : k = Len(log) + 1
  OBVIOUS
<1>7. k \in 1..k /\ (k + 1)..k = {} /\ l[k] = e /\ Len(l) = k /\ 1..Len(log) = (1..k) \ {k}
      /\ \A i \in 1..Len(log) : (i + 1)..k = ((i + 1)..Len(log)) \cup {k} /\ i \in 1..k
  BY <1>2, <1>3, <1>4, <1>6
<1>8. ASSUME e.what = "offline" PROVE OfflineIn(l)
  BY <1>7, <1>8 DEF OfflineIn, OfflineBy
<1>9. ASSUME e.what = "online" PROVE ~OfflineIn(l)
  BY <1>7, <1>9 DEF OfflineIn, OfflineBy
<1>10. ASSUME e.what \notin {"offline", "online"} PROVE OfflineIn(l) <=> OfflineIn(log)
  <2>1. OfflineBy(l, k) <=> OfflineBy(l, Len(log))
    <3>1. l[k].what # "offline" /\ l[k].what # "online"
      BY <1>7, <1>10
    <3>2. ASSUME OfflineBy(l, k) PROVE OfflineBy(l, Len(log))
      <4>1. PICK i \in 1..k : l[i].what = "offline" /\ \A j \in (i + 1)..k : l[j].what # "online"
        BY <3>2 DEF OfflineBy
      <4>2. i \in 1..Len(log)
        BY <1>7, <3>1, <4>1
      <4>3. \A j \in (i + 1)..Len(log) : l[j].what # "online"
        BY <1>7, <4>1, <4>2
      <4> QED
        BY <4>1, <4>2, <4>3 DEF OfflineBy
    <3>3. ASSUME OfflineBy(l, Len(log)) PROVE OfflineBy(l, k)
      <4>1. PICK i \in 1..Len(log) : l[i].what = "offline" /\ \A j \in (i + 1)..Len(log) : l[j].what # "online"
        BY <3>3 DEF OfflineBy
      <4>2. i \in 1..k /\ \A j \in (i + 1)..k : l[j].what # "online"
        BY <1>7, <3>1, <4>1
      <4> QED
        BY <4>1, <4>2 DEF OfflineBy
    <3> QED
      BY <3>2, <3>3
  <2>2. Len(log) \in 0..Len(log)
    BY <1>3
  <2> QED
    BY <1>5, <1>7, <2>1, <2>2 DEF OfflineIn
<1> QED
  BY <1>1, <1>2, <1>3, <1>4, <1>5, <1>6, <1>7, <1>8, <1>9, <1>10

\* Outages: at most one more piece of news, and the right one.
LEMMA BeginStep == NetInv /\ SampleBegins => NetInv'
<1> SUFFICES ASSUME NetInv, SampleBegins PROVE NetInv'
  OBVIOUS
<1>1. /\ NetTypeOK /\ RememberedInv /\ NewsIsNew
      /\ sampling' = TRUE /\ sampled' = sampled + 1 /\ OnlineChecked
      /\ news' = news \o OutageNews /\ outbound' = outbound /\ facts' = facts
  BY DEF NetInv, SampleBegins
<1>2. sampled \in Nat /\ news \in Seq(News) /\ outbound \in [Remote -> Nat]
  BY <1>1 DEF NetTypeOK
<1>3. fails' \in Nat /\ down' \in BOOLEAN
  <2>1. fails \in Nat /\ down \in BOOLEAN /\ OfflineAfter \in Nat
    BY <1>1, NetAssumption DEF NetTypeOK
  <2>2. CASE UNCHANGED <<fails, down>>
    BY <2>1, <2>2
  <2>3. CASE Unanswered
    <3>1. fails' = fails \/ fails' = fails + 1
      BY <2>3 DEF Unanswered
    <3>2. down' \in BOOLEAN
      BY <2>3, Zenon DEF Unanswered
    <3> QED
      BY <2>1, <3>1, <3>2
  <2>4. CASE Answered
    BY <2>4 DEF Answered
  <2> QED
    BY <1>1, <2>2, <2>3, <2>4 DEF OnlineChecked
<1>4. \/ news' = news /\ down' = down
      \/ \E e \in News : /\ news' = Append(news, e) /\ e.at = sampled'
                         /\ \/ e.what = "offline" /\ ~down /\ down'
                            \/ e.what = "online" /\ down /\ ~down'
  <2>1. down \in BOOLEAN
    BY <1>1 DEF NetTypeOK
  <2>2. CASE down' /\ ~down
    <3>1. PICK e : e = [at |-> sampled', what |-> "offline"]
      OBVIOUS
    <3>2. e \in News /\ e.at = sampled' /\ e.what = "offline"
      BY <1>1, <1>2, <3>1 DEF News
    <3>3. OutageNews = <<e>>
      BY <2>2, <3>1 DEF OutageNews, Told
    <3>4. news' = Append(news, e)
      BY <1>1, <1>2, <3>2, <3>3
    <3> QED
      BY <2>2, <3>2, <3>4
  <2>3. CASE down /\ ~down'
    <3>1. PICK e : e = [at |-> sampled', what |-> "online"]
      OBVIOUS
    <3>2. e \in News /\ e.at = sampled' /\ e.what = "online"
      BY <1>1, <1>2, <3>1 DEF News
    <3>3. OutageNews = <<e>>
      BY <2>3, <3>1 DEF OutageNews, Told
    <3>4. news' = Append(news, e)
      BY <1>1, <1>2, <3>2, <3>3
    <3> QED
      BY <2>3, <3>2, <3>4
  <2>4. CASE down' = down
    <3>1. OutageNews = <<>>
      BY <2>4 DEF OutageNews
    <3> QED
      BY <1>1, <1>2, <2>4, <3>1
  <2> QED
    BY <1>3, <2>1, <2>2, <2>3, <2>4
<1>5. OutboundTTL \in Nat
  BY NetAssumption
<1>6. \A i \in DOMAIN news : news[i].at \in Nat /\ news[i].at <= sampled'
  <2>1. \A i \in DOMAIN news : news[i] \in News
    BY <1>2
  <2> QED
    BY <1>1, <1>2, <2>1 DEF News, NetTypeOK
<1>7. \A r \in Remote : outbound[r] <= sampled'
  BY <1>1, <1>2 DEF NetTypeOK
<1>8. ASSUME NEW i \in DOMAIN news, news[i].what \in Remote
      PROVE  \/ outbound[news[i].what] # 0 /\ news[i].at <= outbound[news[i].what]
             \/ news[i].at + OutboundTTL <= sampled'
  BY <1>1, <1>2, <1>5, <1>6, <1>8 DEF RememberedInv
<1>9. CASE news' = news /\ down' = down
  <2>1. NetTypeOK'
    BY <1>1, <1>2, <1>3, <1>6, <1>7, <1>9 DEF NetTypeOK
  <2>2. RememberedInv'
    BY <1>1, <1>8, <1>9 DEF RememberedInv
  <2>3. NewsIsNew'
    BY <1>1, <1>9 DEF NewsIsNew
  <2> QED
    BY <2>1, <2>2, <2>3 DEF NetInv
<1>10. ASSUME NEW e \in News, news' = Append(news, e), e.at = sampled',
              \/ e.what = "offline" /\ ~down /\ down'
              \/ e.what = "online" /\ down /\ ~down'
       PROVE  NetInv'
  <2>1. /\ news' \in Seq(News) /\ DOMAIN news' = 1..(Len(news) + 1) /\ DOMAIN news = 1..Len(news)
        /\ Len(news) \in Nat /\ Len(news') = Len(news) + 1
        /\ \A i \in DOMAIN news : news'[i] = news[i]
        /\ news'[Len(news) + 1] = e
        /\ \A n \in 0..Len(news) : (OfflineBy(news', n) <=> OfflineBy(news, n))
        /\ e.what = "offline" => OfflineIn(news')
        /\ e.what = "online" => ~OfflineIn(news')
    BY <1>2, <1>10, OneMore
  <2>2. \A i \in DOMAIN news' : i \in DOMAIN news \/ i = Len(news) + 1
    BY <2>1
  <2>3. e.what \notin Remote
    BY <1>10, NetAssumption
  <2>4. \A i \in DOMAIN news' : news'[i].at <= sampled'
    BY <1>1, <1>2, <1>6, <1>10, <2>1, <2>2
  <2>5. NetTypeOK'
    BY <1>1, <1>2, <1>3, <1>7, <2>1, <2>4 DEF NetTypeOK
  <2>6. RememberedInv'
    BY <1>1, <1>8, <2>1, <2>2, <2>3 DEF RememberedInv
  <2>7. down <=> OfflineBy(news, Len(news))
    BY <1>1 DEF NewsIsNew, OfflineIn
  <2>8. ASSUME NEW i \in DOMAIN news'
        PROVE  /\ news'[i].what = "offline" => ~OfflineBy(news', i - 1)
               /\ news'[i].what = "online" => OfflineBy(news', i - 1)
    <3>1. CASE i \in DOMAIN news
      <4>1. i - 1 \in 0..Len(news)
        BY <2>1, <3>1
      <4> QED
        BY <1>1, <2>1, <3>1, <4>1 DEF NewsIsNew
    <3>2. CASE i = Len(news) + 1
      <4>1. i - 1 = Len(news) /\ Len(news) \in 0..Len(news)
        BY <2>1, <3>2
      <4> QED
        BY <1>10, <2>1, <2>7, <3>2, <4>1
    <3> QED
      BY <2>2, <3>1, <3>2
  <2>9. (down' <=> OfflineIn(news')) /\ (facts'.online <=> ~OfflineIn(facts'.news))
    BY <1>1, <1>3, <1>10, <2>1 DEF NewsIsNew
  <2>10. ASSUME NEW i \in DOMAIN news', NEW j \in DOMAIN news',
                i < j, news'[i].what = news'[j].what, news'[i].what \in Remote
         PROVE  news'[j].at - news'[i].at >= OutboundTTL
    <3>1. i \in DOMAIN news /\ j \in DOMAIN news
      BY <2>1, <2>2, <2>3, <2>10
    <3> QED
      BY <1>1, <2>1, <2>10, <3>1 DEF NewsIsNew
  <2>11. NewsIsNew'
    BY <2>8, <2>9, <2>10 DEF NewsIsNew
  <2> QED
    BY <2>5, <2>6, <2>11 DEF NetInv
<1> QED
  BY <1>4, <1>9, <1>10

LEMMA TrimmedParts ==
  ASSUME sampled \in Nat, NEW memo \in [Remote -> Nat]
  PROVE  /\ Trimmed(memo) \in [Remote -> Nat]
         /\ \A q \in Remote : \/ Trimmed(memo)[q] = memo[q]
                              \/ Trimmed(memo)[q] = 0 /\ memo[q] + OutboundTTL <= sampled
<1>1. OutboundTTL \in Nat
  BY NetAssumption
<1>2. \A q \in Remote : memo[q] \in Nat
  OBVIOUS
<1> QED
  BY <1>1, <1>2 DEF Trimmed

\* A connection that is not remembered: the last news of it are old enough.
LEMMA ConnectionStep == ASSUME NetInv, NEW r \in Remote, Connection(r) PROVE NetInv'
<1>1. /\ NetTypeOK /\ RememberedInv /\ NewsIsNew
      /\ sampling /\ outbound[r] = 0 /\ UNCHANGED <<sampled, sampling, fails, down, facts>>
  BY DEF NetInv, Connection
<1>2. PICK e, memo : /\ e = [at |-> sampled, what |-> r] /\ memo = [outbound EXCEPT ![r] = sampled]
                     /\ news' = Append(news, e) /\ outbound' = Trimmed(memo)
  BY DEF Connection
<1>3. /\ sampled \in Nat /\ sampled # 0 /\ news \in Seq(News) /\ outbound \in [Remote -> Nat]
      /\ OutboundTTL \in Nat
  BY <1>1, NetAssumption DEF NetTypeOK
<1>4. e \in News /\ e.at = sampled /\ e.what = r
  BY <1>2, <1>3 DEF News
<1>5. memo \in [Remote -> Nat] /\ memo[r] = sampled /\ \A q \in Remote : q # r => memo[q] = outbound[q]
  BY <1>2, <1>3
<1>6. /\ outbound' \in [Remote -> Nat]
      /\ \A q \in Remote : \/ outbound'[q] = memo[q]
                           \/ outbound'[q] = 0 /\ memo[q] + OutboundTTL <= sampled
  BY <1>2, <1>3, <1>5, TrimmedParts
<1>7. r \notin {"offline", "online"}
  BY NetAssumption
<1>8. /\ news' \in Seq(News) /\ DOMAIN news' = 1..(Len(news) + 1) /\ DOMAIN news = 1..Len(news)
      /\ Len(news) \in Nat /\ Len(news') = Len(news) + 1
      /\ \A i \in DOMAIN news : news'[i] = news[i]
      /\ news'[Len(news) + 1] = e
      /\ \A n \in 0..Len(news) : (OfflineBy(news', n) <=> OfflineBy(news, n))
      /\ e.what \notin {"offline", "online"} => (OfflineIn(news') <=> OfflineIn(news))
  BY <1>2, <1>3, <1>4, OneMore
<1>9. \A i \in DOMAIN news' : i \in DOMAIN news \/ i = Len(news) + 1
  BY <1>8
<1>10. \A i \in DOMAIN news : news[i].at \in Nat /\ news[i].at <= sampled
  <2>1. \A i \in DOMAIN news : news[i] \in News
    BY <1>3
  <2> QED
    BY <1>1, <2>1 DEF News, NetTypeOK
<1>11. \A q \in Remote : memo[q] <= sampled /\ memo[q] \in Nat /\ outbound'[q] <= sampled
  <2> TAKE q \in Remote
  <2>1. outbound[q] \in Nat /\ outbound[q] <= sampled
    BY <1>1, <1>3 DEF NetTypeOK
  <2>2. memo[q] \in Nat /\ (memo[q] = sampled \/ memo[q] = outbound[q])
    BY <1>3, <1>5, <2>1
  <2>3. outbound'[q] = memo[q] \/ outbound'[q] = 0
    BY <1>6
  <2> QED
    BY <1>3, <2>1, <2>2, <2>3
<1>12. NetTypeOK'
  <2>1. \A i \in DOMAIN news' : news'[i].at <= sampled
    BY <1>3, <1>4, <1>8, <1>9, <1>10
  <2> QED
    BY <1>1, <1>6, <1>8, <1>11, <2>1 DEF NetTypeOK
<1>13. ASSUME NEW i \in DOMAIN news', news'[i].what \in Remote
       PROVE  \/ outbound'[news'[i].what] # 0 /\ news'[i].at <= outbound'[news'[i].what]
              \/ news'[i].at + OutboundTTL <= sampled
  <2>1. PICK q \in Remote : q = news'[i].what
    BY <1>13
  <2>2. news'[i].at \in Nat
    BY <1>3, <1>4, <1>8, <1>9, <1>10
  <2>3. (memo[q] # 0 /\ news'[i].at <= memo[q]) \/ news'[i].at + OutboundTTL <= sampled
    <3>1. CASE i \in DOMAIN news
      <4>1. news'[i] = news[i] /\ news[i].at \in Nat /\ news[i].at <= sampled
        BY <1>8, <1>10, <3>1
      <4>2. (outbound[q] # 0 /\ news[i].at <= outbound[q]) \/ news[i].at + OutboundTTL <= sampled
        BY <1>1, <2>1, <3>1, <4>1 DEF RememberedInv
      <4> QED
        BY <1>3, <1>5, <4>1, <4>2
    <3>2. CASE i = Len(news) + 1
      BY <1>3, <1>4, <1>5, <1>8, <2>1, <3>2
    <3> QED
      BY <1>9, <3>1, <3>2
  <2>4. outbound'[q] = memo[q] \/ memo[q] + OutboundTTL <= sampled
    BY <1>6
  <2>5. memo[q] \in Nat
    BY <1>11
  <2> QED
    BY <1>3, <2>1, <2>2, <2>3, <2>4, <2>5
<1>14. RememberedInv'
  BY <1>1, <1>13 DEF RememberedInv
<1>15. ASSUME NEW i \in DOMAIN news'
       PROVE  /\ news'[i].what = "offline" => ~OfflineBy(news', i - 1)
              /\ news'[i].what = "online" => OfflineBy(news', i - 1)
  <2>1. CASE i \in DOMAIN news
    <3>1. i - 1 \in 0..Len(news)
      BY <1>8, <2>1
    <3> QED
      BY <1>1, <1>8, <2>1, <3>1 DEF NewsIsNew
  <2>2. CASE i = Len(news) + 1
    BY <1>4, <1>7, <1>8, <2>2
  <2> QED
    BY <1>9, <2>1, <2>2
<1>16. ASSUME NEW i \in DOMAIN news', NEW j \in DOMAIN news',
              i < j, news'[i].what = news'[j].what, news'[i].what \in Remote
       PROVE  news'[j].at - news'[i].at >= OutboundTTL
  <2>1. i \in DOMAIN news
    BY <1>8, <1>9, <1>16
  <2>2. CASE j \in DOMAIN news
    BY <1>1, <1>8, <1>16, <2>1, <2>2 DEF NewsIsNew
  <2>3. CASE j = Len(news) + 1
    <3>1. news[i].what = r /\ news'[j].at = sampled /\ news'[i] = news[i] /\ news[i].at \in Nat
      BY <1>4, <1>8, <1>10, <1>16, <2>1, <2>3
    <3>2. news[i].at + OutboundTTL <= sampled
      BY <1>1, <2>1, <3>1 DEF RememberedInv
    <3> QED
      BY <1>3, <3>1, <3>2
  <2> QED
    BY <1>9, <2>2, <2>3
<1>17. (down' <=> OfflineIn(news')) /\ (facts'.online <=> ~OfflineIn(facts'.news))
  BY <1>1, <1>4, <1>7, <1>8 DEF NewsIsNew
<1>18. NewsIsNew'
  BY <1>15, <1>16, <1>17 DEF NewsIsNew
<1> QED
  BY <1>12, <1>14, <1>18 DEF NetInv

LEMMA NetStepHolds == NetInv /\ [NetNext]_netVars => NetInv'
<1> SUFFICES ASSUME NetInv, [NetNext]_netVars PROVE NetInv'
  OBVIOUS
<1>1. CASE SampleBegins
  BY <1>1, BeginStep
<1>2. CASE \E r \in Remote : Connection(r)
  BY <1>2, ConnectionStep
<1>3. ASSUME NEW complete \in BOOLEAN, SampleEnds(complete) PROVE NetInv'
  <2>1. /\ NetTypeOK /\ RememberedInv /\ NewsIsNew
        /\ sampling' = FALSE /\ UNCHANGED <<sampled, fails, down, outbound, news>>
        /\ facts' = [online |-> ~down, news |-> news] \/ facts' = facts
    BY <1>3 DEF NetInv, SampleEnds
  <2>2. PICK v \in BOOLEAN : v = ~down
    OBVIOUS
  <2>3. facts \in [online : BOOLEAN, news : Seq(News)] /\ news \in Seq(News)
    BY <2>1 DEF NetTypeOK
  <2>4. facts' = [online |-> v, news |-> news] \/ facts' = facts
    BY <2>1, <2>2
  <2>5. facts' \in [online : BOOLEAN, news : Seq(News)]
    BY <2>3, <2>4
  <2>6. NetTypeOK' /\ RememberedInv'
    BY <2>1, <2>5 DEF NetTypeOK, RememberedInv
  <2>7. (v <=> ~OfflineIn(news)) /\ (facts.online <=> ~OfflineIn(facts.news))
    BY <2>1, <2>2 DEF NewsIsNew
  <2>8. \/ facts'.online = v /\ facts'.news = news
        \/ facts'.online = facts.online /\ facts'.news = facts.news
    BY <2>4
  <2>9. facts'.online <=> ~OfflineIn(facts'.news)
    BY <2>7, <2>8
  <2>10. NewsIsNew'
    BY <2>1, <2>9 DEF NewsIsNew
  <2> QED
    BY <2>6, <2>10 DEF NetInv
<1>4. CASE UNCHANGED netVars
  BY <1>4 DEF netVars, NetInv, NetTypeOK, RememberedInv, NewsIsNew
<1> QED
  BY <1>1, <1>2, <1>3, <1>4 DEF NetNext

\* Outages are announced in turn, the verdict a prompt gets agrees with the news beside
\* it, and no connection is called new twice within its time (network/main.py,
\* _check_online and _check_connections).
THEOREM NewsStaysNew == NetSpec => []NewsIsNew
<1>1. NetInv => NewsIsNew
  BY DEF NetInv
<1> QED
  BY <1>1, NetInitHolds, NetStepHolds, PTL DEF NetSpec

------------------------------------------------------------------------------
(* The parts side by side: a step of one leaves the books of the others.     *)

LEMMA PartsMove ==
  [PartsNext]_<<part, PartVars>> => [RecordNext]_recordVars /\ [NetNext]_netVars
<1> SUFFICES ASSUME [PartsNext]_<<part, PartVars>>
             PROVE  [RecordNext]_recordVars /\ [NetNext]_netVars
  OBVIOUS
<1>1. CASE RecordStep
  BY <1>1 DEF RecordStep
<1>2. CASE NetworkStep
  BY <1>2 DEF NetworkStep
<1>3. CASE StreamStep \/ SurfaceStep \/ GateStep \/ McpStep \/ CommandStep \/ CoreStep \/ SystemStep
  BY <1>3 DEF StreamStep, SurfaceStep, GateStep, McpStep, CommandStep, CoreStep, SystemStep
<1>4. CASE UNCHANGED <<part, PartVars>>
  BY <1>4 DEF PartVars
<1> QED
  BY <1>1, <1>2, <1>3, <1>4 DEF PartsNext

\* In the behaviour the run checks, whichever part it picks: the archive's counters,
\* watermark, numbers and retention describe its rows, and what the network service
\* announces is new (store.py, flush and prune; network/main.py, _check_online and
\* _check_connections).
THEOREM BooksStayTrue == PartsSpec => []BooksAreTrue
<1>1. PartsInit => ArchiveInv /\ NetInv
  BY ArchiveInitHolds, NetInitHolds DEF PartsInit
<1>2. ArchiveInv /\ NetInv /\ [PartsNext]_<<part, PartVars>> => (ArchiveInv /\ NetInv)'
  BY PartsMove, ArchiveStepHolds, NetStepHolds
<1>3. ArchiveInv /\ NetInv => BooksAreTrue
  BY SoundnessFollows DEF NetInv, BooksAreTrue
<1> QED
  BY <1>1, <1>2, <1>3, PTL DEF PartsSpec
=============================================================================
