---------------------------- MODULE McpGateway ----------------------------
(***************************************************************************)
(* The MCP service (workspace/services/mcp/main.py): the tool servers it   *)
(* holds, started by one task at boot and, when config.yaml changes,       *)
(* restarted, started or stopped by another.  A start takes minutes and    *)
(* holds no lock, so the two overlap; a stop waits for the call in flight. *)
(***************************************************************************)
EXTENDS Naturals, Sequences, FiniteSets, SequencesExt

CONSTANTS
  Name,       \* names of servers
  Def,        \* definitions of a server (fingerprints)
  Absent,     \* no definition: the file does not name the server
  MaxEdits,   \* bound: edits of config.yaml
  MaxStarts   \* bound: servers started

ASSUME McpAssumption == IsFiniteSet(Name) /\ Absent \notin Def /\ MaxEdits \in Nat /\ MaxStarts \in Nat

VARIABLES
  file,       \* config.yaml: a definition for each name
  edits,      \* edits so far
  seen,       \* the edit whose mtime the watcher has noted
  wanted,     \* MCPService.specs
  due,        \* the names each task has still to ensure, with the definition it read
  doing,      \* what each task awaits: nothing, a stop or a start; or it has ended
  sweep,      \* the names a reload has still to stop
  holds,      \* the task that holds the lifecycle lock
  held,       \* _running: the server of each name, 0 for none
  made,       \* the server objects made, with name and definition
  alive,      \* those whose client runs
  busy,       \* those with a call in flight
  raced,      \* history: names the boot task was not through with at a reload
  missed,     \* history: names whose last start failed
  failed      \* history: names whose start failed since the last reload

mcpVars == <<file, edits, seen, wanted, due, doing, sweep, holds, held, made, alive, busy,
             raced, missed, failed>>

Task == {"starter", "watcher"}
Free == "nobody"
Specs(f) == SetToSeq({[name |-> n, def |-> f[n]] : n \in {m \in Name : f[m] # Absent}})
Names(q) == {q[i].name : i \in DOMAIN q}

McpInit ==
  /\ file \in [Name -> Def \cup {Absent}] /\ wanted = file
  /\ edits = 0 /\ seen = 0
  /\ due = [t \in Task |-> IF t = "starter" THEN Specs(file) ELSE <<>>]
  /\ doing = [t \in Task |-> "nothing"]
  /\ sweep = {} /\ holds = Free
  /\ held = [n \in Name |-> 0]
  /\ made = <<>> /\ alive = {} /\ busy = {}
  /\ raced = {} /\ missed = {} /\ failed = {}

-----------------------------------------------------------------------------
(* _ensure, for the first name a task has to do.                           *)

Item(t) == Head(due[t])
Ready(t) == due[t] # <<>> /\ doing[t] = "nothing" /\ holds = Free /\ (t = "watcher" => sweep = {})

\* A fault: a server of that name is enough.
SettledByName(spec) == held[spec.name] # 0

\* The name is held with this very definition, running or not.
Settled(spec) == held[spec.name] # 0 /\ made[held[spec.name]].def = spec.def

AlreadyHeld(t) ==
  /\ Ready(t) /\ Settled(Item(t))
  /\ due' = [due EXCEPT ![t] = Tail(@)]
  /\ UNCHANGED <<file, edits, seen, wanted, doing, sweep, holds, held, made, alive, busy, raced, missed, failed>>

\* Another definition is held: it is stopped with the lifecycle lock held.
StopOther(t) ==
  /\ Ready(t) /\ ~Settled(Item(t)) /\ held[Item(t).name] # 0
  /\ doing' = [doing EXCEPT ![t] = "stop"] /\ holds' = t
  /\ UNCHANGED <<file, edits, seen, wanted, due, sweep, held, made, alive, busy, raced, missed, failed>>

NewServer(t) == made' = Append(made, [name |-> Item(t).name, def |-> Item(t).def, by |-> t])

\* MCPServer.stop waits for the server's own lock, which a call holds.
OtherStopped(t) ==
  /\ doing[t] = "stop" /\ held[Item(t).name] \notin busy /\ Len(made) < MaxStarts
  /\ alive' = alive \ {held[Item(t).name]}
  /\ NewServer(t)
  /\ doing' = [doing EXCEPT ![t] = "start"] /\ holds' = Free
  /\ UNCHANGED <<file, edits, seen, wanted, due, sweep, held, busy, raced, missed, failed>>

StartNew(t) ==
  /\ Ready(t) /\ held[Item(t).name] = 0 /\ Len(made) < MaxStarts
  /\ NewServer(t)
  /\ doing' = [doing EXCEPT ![t] = "start"]
  /\ UNCHANGED <<file, edits, seen, wanted, due, sweep, holds, held, alive, busy, raced, missed, failed>>

\* The server a task is starting: the last it made.
Mine(t) == CHOOSE i \in DOMAIN made : made[i].by = t /\ \A j \in DOMAIN made : made[j].by = t => j <= i

Started(t) ==
  /\ doing[t] = "start"
  /\ alive' = alive \cup {Mine(t)}
  /\ doing' = [doing EXCEPT ![t] = "register"]
  /\ UNCHANGED <<file, edits, seen, wanted, due, sweep, holds, held, made, busy, raced, missed, failed>>

StartFails(t) ==
  /\ doing[t] = "start"
  /\ doing' = [doing EXCEPT ![t] = "nothing"]
  /\ due' = [due EXCEPT ![t] = Tail(@)]
  /\ missed' = missed \cup {Item(t).name} /\ failed' = failed \cup {Item(t).name}
  /\ UNCHANGED <<file, edits, seen, wanted, sweep, holds, held, made, alive, busy, raced>>

\* Whatever is held under the name by now is overwritten.
Register(t) ==
  /\ doing[t] = "register" /\ holds = Free
  /\ held' = [held EXCEPT ![Item(t).name] = Mine(t)]
  /\ doing' = [doing EXCEPT ![t] = "nothing"]
  /\ due' = [due EXCEPT ![t] = Tail(@)]
  /\ missed' = missed \ {Item(t).name}
  /\ UNCHANGED <<file, edits, seen, wanted, sweep, holds, made, alive, busy, raced, failed>>

-----------------------------------------------------------------------------
(* reload_if_changed.                                                      *)

Edit(f) ==
  /\ edits < MaxEdits /\ f # file
  /\ edits' = edits + 1 /\ file' = f
  /\ UNCHANGED <<seen, wanted, due, doing, sweep, holds, held, made, alive, busy, raced, missed, failed>>

Quiet == doing["watcher"] = "nothing" /\ due["watcher"] = <<>> /\ sweep = {}

\* A changed file that cannot be read is not read again.
ReloadFails ==
  /\ Quiet /\ seen # edits
  /\ seen' = edits
  /\ UNCHANGED <<file, edits, wanted, due, doing, sweep, holds, held, made, alive, busy, raced, missed, failed>>

\* A file with an entry that is no server specification raises out of
\* reload_if_changed (main.py:295) and ends the watcher: no file is read again.
WatcherEnds ==
  /\ Quiet /\ seen # edits
  /\ seen' = edits
  /\ doing' = [doing EXCEPT !["watcher"] = "ended"]
  /\ UNCHANGED <<file, edits, wanted, due, sweep, holds, held, made, alive, busy, raced, missed, failed>>

\* reload_if_changed: names no longer wanted are to be stopped first.
ReloadConfig ==
  /\ Quiet /\ seen # edits /\ holds = Free
  /\ seen' = edits /\ wanted' = file
  /\ sweep' = {n \in Name : held[n] # 0 /\ file[n] = Absent}
  /\ holds' = IF sweep' = {} THEN Free ELSE "watcher"
  /\ due' = [due EXCEPT !["watcher"] = Specs(file)]
  /\ raced' = raced \cup Names(due["starter"])
  /\ failed' = {}
  /\ UNCHANGED <<file, edits, doing, held, made, alive, busy, missed>>

Removed(n) ==
  /\ n \in sweep /\ held[n] \notin busy
  /\ alive' = alive \ {held[n]}
  /\ held' = [held EXCEPT ![n] = 0]
  /\ sweep' = sweep \ {n}
  /\ holds' = IF sweep' = {} THEN Free ELSE holds
  /\ UNCHANGED <<file, edits, seen, wanted, due, doing, made, busy, raced, missed, failed>>

-----------------------------------------------------------------------------
(* POST /call                                                              *)

Call(n) ==
  /\ held[n] \in alive \ busy
  /\ busy' = busy \cup {held[n]}
  /\ UNCHANGED <<file, edits, seen, wanted, due, doing, sweep, holds, held, made, alive, raced, missed, failed>>

CallReturns(i) ==
  /\ i \in busy
  /\ busy' = busy \ {i}
  /\ UNCHANGED <<file, edits, seen, wanted, due, doing, sweep, holds, held, made, alive, raced, missed, failed>>

McpNext ==
  \/ \E t \in Task : \/ AlreadyHeld(t) \/ StopOther(t) \/ OtherStopped(t) \/ StartNew(t)
                     \/ Started(t) \/ StartFails(t) \/ Register(t)
  \/ \E f \in [Name -> Def \cup {Absent}] : Edit(f)
  \/ ReloadConfig \/ ReloadFails \/ WatcherEnds
  \/ \E n \in Name : Removed(n) \/ Call(n)
  \/ \E i \in alive : CallReturns(i)

McpSpec == McpInit /\ [][McpNext]_mcpVars

-----------------------------------------------------------------------------
(* Properties.                                                             *)

\* When no task is at work on a name, the servers that run under it are the one
\* the configuration names, in its current definition and held, so that calls
\* and the next stop reach it: a changed one was stopped before its successor
\* ran, a removed one is gone.  Excepted are names whose last start failed, and
\* names that the boot task was still starting when a reload came: it registers
\* the definition it read at boot over the newer one.  No stop cuts a call short.
ServersFollowConfig ==
  /\ busy \subseteq alive
  /\ \A n \in Name \ raced :
       (\A t \in Task : n \notin Names(due[t])) /\ n \notin sweep =>
         LET up == {i \in alive : made[i].name = n}
         IN  IF wanted[n] = Absent \/ n \in missed THEN up = {}
             ELSE up = {held[n]} /\ made[held[n]].def = wanted[n]

\* "config.yaml is reloaded on change: servers whose definition changed are
\* restarted, added ones are spawned" (main.py:11): after a reload in which no
\* start failed, every server the file names runs.
ReloadedServersRun ==
  \A n \in Name \ (raced \cup failed) :
    (\A t \in Task : n \notin Names(due[t])) /\ wanted[n] # Absent =>
      \E i \in alive : made[i].name = n /\ made[i].def = wanted[n]
=============================================================================
