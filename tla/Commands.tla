------------------------------ MODULE Commands ------------------------------
(***************************************************************************)
(* The operating-system processes of one agent: the shell verb             *)
(* (nan/agent/verbs/shell.py) in its turn, the registry of background jobs *)
(* (nan/execution/jobs.py), and the cancellations that reach both: pause,  *)
(* exit, and the time limit of the core's shutdown.                        *)
(*                                                                         *)
(* A command is a process group: a leader, which asyncio waits for, and    *)
(* children that may outlive it.  SIGTERM can be ignored, so it shows only *)
(* as an exit that may come at any time; SIGKILL to the group cannot.      *)
(***************************************************************************)
EXTENDS Naturals, FiniteSets

CONSTANTS
  Command,     \* commands the agent may start
  NoCommand    \* the turn runs none

ASSUME NoCommandAssumption == NoCommand \notin Command

VARIABLES
  leader,      \* the leader of each command: none, live or dead
  brood,       \* commands whose group has children
  verb,        \* what the turn does in the shell verb, and for which command
  jobs,        \* the registry
  doomed,      \* the jobs stop_all has taken out of it
  frozen,      \* the agent is paused
  leaving,     \* the agent's exit: no, turn (its end is awaited), jobs (in stop_all), done
  dropped      \* history: commands whose handling was cut short, and where

commandVars == <<leader, brood, verb, jobs, doomed, frozen, leaving, dropped>>

Idle == [at |-> "idle", command |-> NoCommand]

\* Where a cancellation lets go of a command.
Letting == {"start", "exit", "grace", "limit"}

CommandInit ==
  /\ leader = [c \in Command |-> "none"] /\ brood = {}
  /\ verb = Idle /\ jobs = {} /\ doomed = {}
  /\ frozen = FALSE /\ leaving = "no"
  /\ dropped = [where \in Letting |-> {}]

-----------------------------------------------------------------------------
Running(c) == leader[c] = "live"
Killed(S) == [c \in Command |-> IF c \in S THEN "dead" ELSE leader[c]]

\* create_subprocess_shell returns a process with a session of its own, for
\* the foreground or not; cancelled before, it kills the process itself.
Begin(c, how) ==
  /\ leaving = "no" /\ ~frozen /\ verb = Idle /\ leader[c] = "none"
  /\ leader' = [leader EXCEPT ![c] = "live"]
  /\ brood' \in {brood, brood \cup {c}}
  /\ verb' = [at |-> how, command |-> c]
  /\ UNCHANGED <<jobs, doomed, frozen, leaving, dropped>>

\* A leader exits, of its own or by SIGTERM; so do the last of its children.
LeaderExits(c) ==
  /\ Running(c)
  /\ leader' = Killed({c})
  /\ UNCHANGED <<brood, verb, jobs, doomed, frozen, leaving, dropped>>

BroodExits(c) ==
  /\ c \in brood
  /\ brood' = brood \ {c}
  /\ UNCHANGED <<leader, verb, jobs, doomed, frozen, leaving, dropped>>

\* _foreground has read the pipe to its end (shell.py:166): whoever held it has
\* exited, or has closed it and runs on.
PipeEnds ==
  /\ verb.at = "foreground"
  /\ verb' = [verb EXCEPT !.at = "exit"]
  /\ UNCHANGED <<leader, brood, jobs, doomed, frozen, leaving, dropped>>

\* The leader's exit is awaited next, without a time limit (shell.py:168).
ForegroundEnds ==
  /\ verb.at = "exit" /\ ~Running(verb.command)
  /\ verb' = Idle
  /\ UNCHANGED <<leader, brood, jobs, doomed, frozen, leaving, dropped>>

\* shell_timeout, which is for the pipe alone: the group is killed.
ForegroundTimesOut ==
  /\ verb.at = "foreground"
  /\ leader' = Killed({verb.command}) /\ brood' = brood \ {verb.command}
  /\ verb' = Idle
  /\ UNCHANGED <<jobs, doomed, frozen, leaving, dropped>>

\* The grace of a cancelled command is over, or its leader has exited in it.
TermGraceEnds ==
  /\ verb.at = "term"
  /\ IF Running(verb.command)
       THEN leader' = Killed({verb.command}) /\ brood' = brood \ {verb.command}
       ELSE UNCHANGED <<leader, brood>>
  /\ verb' = Idle
  /\ UNCHANGED <<jobs, doomed, frozen, leaving, dropped>>

\* _background: a command that exits within the start grace is no job.
BackgroundExited ==
  /\ verb.at = "background" /\ ~Running(verb.command)
  /\ verb' = Idle
  /\ UNCHANGED <<leader, brood, jobs, doomed, frozen, leaving, dropped>>

\* A fault: the registry forgets the jobs that still run.
RegistryForgetsLive(c) == {j \in jobs : ~Running(j)} \cup {c}

\* JobRegistry.add forgets those that have exited.
Registry(c) == {j \in jobs : Running(j)} \cup {c}

BackgroundStarted ==
  /\ verb.at = "background" /\ Running(verb.command)
  /\ jobs' = Registry(verb.command)
  /\ verb' = Idle
  /\ UNCHANGED <<leader, brood, doomed, frozen, leaving, dropped>>

-----------------------------------------------------------------------------
(* Cancellation.                                                           *)

Unkept(where) == dropped' = [dropped EXCEPT ![where] = @ \cup {verb.command}]

\* The turn task is cancelled.  A command whose pipe is read gets SIGTERM and its
\* grace.  One whose exit is awaited gets SIGTERM and no more: the cancellation
\* has reached the awaited task, so the wait of the grace (shell.py:197) raises
\* at once and the SIGKILL after it is skipped.  One in its grace is left as it
\* is for the same reason, and so is one in the start grace (shell.py:250).
CancelTurn ==
  \/ verb.at = "foreground" /\ verb' = [verb EXCEPT !.at = "term"] /\ UNCHANGED dropped
  \/ verb.at = "exit" /\ verb' = Idle /\ Unkept("exit")
  \/ verb.at = "term" /\ verb' = Idle /\ Unkept("grace")
  \/ verb.at = "background" /\ verb' = Idle /\ Unkept("start")
  \/ verb = Idle /\ UNCHANGED <<verb, dropped>>

PauseAgent ==
  /\ ~frozen /\ leaving = "no"
  /\ frozen' = TRUE
  /\ CancelTurn
  /\ UNCHANGED <<leader, brood, jobs, doomed, leaving>>

ResumeAgent ==
  /\ frozen
  /\ frozen' = FALSE
  /\ UNCHANGED <<leader, brood, verb, jobs, doomed, leaving, dropped>>

\* request_death and suspend cancel the turn; finish ends the loop without.
ExitCancels ==
  /\ leaving = "no"
  /\ leaving' = "turn"
  /\ CancelTurn
  /\ UNCHANGED <<leader, brood, jobs, doomed, frozen>>

ExitByFinish ==
  /\ leaving = "no" /\ verb = Idle
  /\ leaving' = "turn"
  /\ UNCHANGED <<leader, brood, verb, jobs, doomed, frozen, dropped>>

\* JobRegistry.stop_all: the list is taken and cleared, the groups get SIGTERM.
StopJobs ==
  /\ leaving = "turn" /\ verb = Idle
  /\ leaving' = "jobs"
  /\ jobs' = {} /\ doomed' = {j \in jobs : Running(j)}
  /\ UNCHANGED <<leader, brood, verb, frozen, dropped>>

\* A fault: the jobs are trusted to obey SIGTERM.
NotKilled == {}

\* Those whose group is killed when the grace is over.
Survivors == {j \in doomed : Running(j)}

JobsStopped ==
  /\ leaving = "jobs"
  /\ leaving' = "done" /\ doomed' = {}
  /\ leader' = Killed(Survivors) /\ brood' = brood \ Survivors
  /\ UNCHANGED <<verb, jobs, frozen, dropped>>

\* The shutdown's time limit (app.py:205) cancels the loop where it stands: in
\* the turn's grace the turn with it, in stop_all before the kill.
TimeLimit ==
  \/ /\ leaving = "turn" /\ verb.at = "term"
     /\ CancelTurn
     /\ UNCHANGED <<leader, brood, jobs, doomed, frozen, leaving>>
  \/ /\ leaving = "jobs"
     /\ leaving' = "done" /\ doomed' = {}
     /\ dropped' = [dropped EXCEPT !["limit"] = @ \cup Survivors]
     /\ UNCHANGED <<leader, brood, verb, jobs, frozen>>

\* What the shell verb does of its own accord.
VerbStep ==
  \/ PipeEnds \/ ForegroundEnds \/ ForegroundTimesOut \/ TermGraceEnds
  \/ BackgroundExited \/ BackgroundStarted

CommandNext ==
  \/ \E c \in Command : \/ Begin(c, "foreground") \/ Begin(c, "background")
                        \/ LeaderExits(c) \/ BroodExits(c)
  \/ VerbStep
  \/ PauseAgent \/ ResumeAgent \/ ExitCancels \/ ExitByFinish
  \/ StopJobs \/ JobsStopped \/ TimeLimit

CommandSpec == CommandInit /\ [][CommandNext]_commandVars

-----------------------------------------------------------------------------
(* Properties.                                                             *)

CommandTypeOK ==
  /\ leader \in [Command -> {"none", "live", "dead"}]
  /\ brood \subseteq Command /\ jobs \subseteq Command /\ doomed \subseteq Command
  /\ verb \in [at : {"idle", "foreground", "exit", "term", "background"}, command : Command \cup {NoCommand}]
  /\ verb.at = "idle" <=> verb.command = NoCommand
  /\ frozen \in BOOLEAN /\ leaving \in {"no", "turn", "jobs", "done"}
  /\ dropped \in [Letting -> SUBSET Command]

\* Somebody answers for every leader that runs: the turn, the registry or
\* stop_all.  So no command outlives its agent (jobs.py:9), but for the four
\* places where a cancellation lets go of one: during the start grace, after the
\* end of its output, during the grace after SIGTERM, and in stop_all at the
\* shutdown's time limit.  Children whose leader has exited nobody answers for.
NoCommandOutlivesAgent ==
  /\ \A c \in Command : Running(c) =>
       c \in {verb.command} \cup jobs \cup doomed \/ \E w \in Letting : c \in dropped[w]
  /\ leaving = "done" => verb = Idle /\ jobs = {} /\ doomed = {}
=============================================================================
