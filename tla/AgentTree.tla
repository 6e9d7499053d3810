------------------------------ MODULE AgentTree ------------------------------
(***************************************************************************)
(* The spawn tree of nan/agent/core.py: spawn, kill, finish, the pause and *)
(* resume cascades, disposal, shutdown, and the rebuild of the tree from   *)
(* the snapshot directory (nan/boot.py).                                   *)
(*                                                                         *)
(* Agent has the inside of one agent; here a turn is one stage, and a save *)
(* of an agent that exists is one step.  The birth write of a child keeps  *)
(* its window: its parent awaits it and may be cancelled there.            *)
(***************************************************************************)
EXTENDS Naturals, Sequences, FiniteSets, SequencesExt

CONSTANTS
  Agents,       \* agent ids; an id is used once
  Root,         \* the root's id
  NoAgent,      \* nobody
  MaxDepth, MaxChildren,   \* the settings max_depth and max_children
  MaxTroubles   \* bound: pauses, failed turns, shutdowns, crashes and birth writes
                \* that fail or are abandoned, together

ASSUME RootAssumption == Root \in Agents /\ NoAgent \notin Agents
ASSUME LimitsAssumption == MaxDepth \in Nat /\ MaxChildren \in Nat /\ MaxTroubles \in Nat

VARIABLES
  agent,      \* each agent in the process: its stage, the chain of ids from the root,
              \* its latches, the child it awaits the birth of, and what it knows of others
  file,       \* [Agents -> its snapshot, or NoFile]
  births,     \* children whose birth write has not ended
  frozen,     \* the user asked for a pause and not yet for a resume
  troubles,   \* how many of MaxTroubles there were
  mishaps,    \* history: which of "park", "badWrite", "abandon" there were
  told        \* history: how often each agent's exit was announced

vars == <<agent, file, births, frozen, troubles, mishaps, told>>

NoFile == [exists |-> FALSE, chain |-> <<>>, claims |-> {}, reports |-> {}, death |-> FALSE]

Fresh(stage, chain, claims, reports) ==
  [stage |-> stage, chain |-> chain, death |-> "none", paused |-> FALSE,
   suspending |-> FALSE, cancelling |-> FALSE, baby |-> NoAgent,
   claims |-> claims, reports |-> reports]

\* "unborn" and "gone" are not in the process; a "down" agent has suspended
\* or its process crashed; a turn thinks first, then runs its
\* verbs ("turn"); a "spawn" is one that awaits a birth write.
Stage(a) == agent[a].stage
Exiting(a) == agent[a].death # "none" \/ agent[a].suspending
Live(a) == Stage(a) \notin {"unborn", "down", "gone"}
Parent(a) == IF a = Root THEN NoAgent ELSE agent[a].chain[Len(agent[a].chain) - 1]

\* `children` of a: a slot is held until the child's disposal.
Children(a) == {c \in Agents \ {Root} : Stage(c) \notin {"unborn", "gone"} /\ Parent(c) = a}

\* The snapshot of an agent with this memory.
Snapshot(m, dead) ==
  [exists |-> TRUE, chain |-> m.chain, claims |-> m.claims, reports |-> m.reports, death |-> dead]

\* agent[a] becomes m and is saved.
Saves(a, m) ==
  /\ agent' = [agent EXCEPT ![a] = m]
  /\ file' = [file EXCEPT ![a] = Snapshot(m, FALSE)]

History == <<troubles, mishaps, told>>
Trouble == troubles < MaxTroubles /\ troubles' = troubles + 1
Mishap(what) == Trouble /\ mishaps' = mishaps \cup {what}

------------------------------------------------------------------------------
(* Cascades.  Pause and resume walk the children from the root and stop at *)
(* an agent they leave alone; death and shutdown reach a child when its    *)
(* parent's loop has ended.                                                *)

\* The live agents all of whose chain, themselves included, is in S.
Down(S) == {d \in Agents : Live(d) /\ ToSet(agent[d].chain) \subseteq S}

\* A fault: the cascade does not go beyond the root's children.
PauseReachesChildren ==
  {d \in Down({a \in Agents : ~agent[a].paused /\ ~Exiting(a)}) : Len(agent[d].chain) <= 2}

\* Agent.pause leaves a frozen or leaving agent, and all beneath it, alone.
PauseReaches == Down({a \in Agents : ~agent[a].paused /\ ~Exiting(a)})

\* A fault: an agent whose turn was cancelled is skipped, and all beneath it.
ResumeReachesSettled == Down({a \in Agents : agent[a].paused /\ ~agent[a].cancelling})

\* Agent.resume leaves an agent that is not frozen, and all beneath it, alone.
ResumeReaches == Down({a \in Agents : agent[a].paused})

InTurn(m) == m.stage \in {"think", "turn", "spawn"}

\* Agent.pause of one agent: freeze, and cancel the turn.
Frozen(m) == [m EXCEPT !.paused = TRUE, !.cancelling = @ \/ InTurn(m)]

\* Agent.request_death: the first exit on record wins.
Killed(m) ==
  IF m.death # "none" THEN m
  ELSE [m EXCEPT !.death = "killed", !.cancelling = @ \/ InTurn(m)]

\* Agent.suspend.
Suspended(m) ==
  IF m.death # "none" \/ m.suspending THEN m
  ELSE [m EXCEPT !.suspending = TRUE, !.cancelling = @ \/ InTurn(m)]

------------------------------------------------------------------------------
(* Turns, and the verbs that change the tree.                              *)

TurnStarts(a) ==
  /\ Stage(a) = "idle" /\ ~Exiting(a) /\ ~agent[a].paused
  /\ Saves(a, [agent[a] EXCEPT !.stage = "think"])
  /\ UNCHANGED <<births, frozen, History>>

\* The model answers; the turn goes on to its verbs.
Answered(a) ==
  /\ Stage(a) = "think" /\ ~agent[a].cancelling
  /\ Saves(a, [agent[a] EXCEPT !.stage = "turn"])
  /\ UNCHANGED <<births, frozen, History>>

InVerbs(a) == Stage(a) = "turn" /\ ~agent[a].cancelling

\* The turn commits; an exit on record is committed with it.
TurnEnds(a) ==
  /\ InVerbs(a)
  /\ agent' = [agent EXCEPT ![a].stage = "idle"]
  /\ file' = [file EXCEPT ![a] = Snapshot(agent[a], agent[a].death # "none")]
  /\ UNCHANGED <<births, frozen, History>>

\* spawn_child: register the child and begin to write it.
Spawn(a, c) ==
  /\ InVerbs(a)
  /\ Stage(c) = "unborn"
  /\ Len(agent[a].chain) <= MaxDepth /\ Cardinality(Children(a)) < MaxChildren
  /\ agent' = [agent EXCEPT ![a].stage = "spawn", ![a].baby = c,
                            ![c] = Fresh("birth", Append(agent[a].chain, c), {}, {})]
  /\ births' = births \cup {c}
  /\ UNCHANGED <<file, frozen, History>>

\* The child starts, frozen if its parent is.
Started(a, c) ==
  [agent[c] EXCEPT !.stage = "idle", !.paused = @ \/ (agent[a].paused /\ ~Exiting(c))]

\* A fault: the child's birth write is not awaited.
WrittenAtOnce(c) == c \in Agents

\* persist of the child returned: its write landed or failed.
Written(c) == c \notin births

\* spawn_child returns and the verb's result is recorded.
SpawnReturns(a) ==
  LET c == agent[a].baby
      parent == [agent[a] EXCEPT !.stage = "turn", !.baby = NoAgent, !.claims = @ \cup {c}]
  IN  /\ Stage(a) = "spawn" /\ ~agent[a].cancelling /\ Written(c)
      /\ agent' = [agent EXCEPT ![a] = parent, ![c] = Started(a, c)]
      /\ file' = [file EXCEPT ![a] = Snapshot(parent, FALSE)]
      /\ UNCHANGED <<births, frozen, History>>

\* The turn's cancellation is delivered.  A pause parks and writes the turn;
\* an exit drops it.
Cut(a) == [agent[a] EXCEPT !.stage = "idle", !.baby = NoAgent, !.cancelling = FALSE]
Parks(a) == file' = IF Exiting(a) THEN file ELSE [file EXCEPT ![a] = Snapshot(Cut(a), FALSE)]

TurnCancelled(a) ==
  /\ Stage(a) \in {"think", "turn"} /\ agent[a].cancelling
  /\ agent' = [agent EXCEPT ![a] = Cut(a)]
  /\ Parks(a)
  /\ UNCHANGED <<births, frozen, History>>

\* A child is started even when its spawn is cancelled mid-write.
SpawnCancelled(a) ==
  LET c == agent[a].baby IN
  /\ Stage(a) = "spawn" /\ agent[a].cancelling
  /\ agent' = [agent EXCEPT ![a] = Cut(a), ![c] = Started(a, c)]
  /\ Parks(a)
  /\ IF c \in births THEN Mishap("abandon") ELSE UNCHANGED <<troubles, mishaps>>
  /\ UNCHANGED <<births, frozen, told>>

BirthLands(c) ==
  /\ c \in births /\ births' = births \ {c}
  /\ file' = [file EXCEPT ![c] = Snapshot(Fresh("birth", agent[c].chain, {}, {}), FALSE)]
  /\ UNCHANGED <<agent, frozen, History>>

BirthFails(c) ==
  /\ c \in births /\ births' = births \ {c}
  /\ Mishap("badWrite")
  /\ UNCHANGED <<agent, file, frozen, told>>

\* KillVerb: any child that still holds its slot.
Kill(a, c) ==
  /\ InVerbs(a) /\ c \in Children(a)
  /\ agent' = [agent EXCEPT ![c] = Killed(@)]
  /\ file' = [file EXCEPT ![a] = Snapshot(agent[a], FALSE)]
  /\ UNCHANGED <<births, frozen, History>>

\* FinishVerb; the root has none.
Finish(a) ==
  /\ InVerbs(a) /\ a # Root /\ agent[a].death = "none"
  /\ Saves(a, [agent[a] EXCEPT !.death = "finished"])
  /\ UNCHANGED <<births, frozen, History>>

\* _fail_turn (no persona, no model): a child dies; the root freezes itself,
\* not its subtree.
FailTurn(a) ==
  /\ Stage(a) = "think" /\ ~agent[a].cancelling
  /\ IF a = Root
     THEN /\ Saves(a, [agent[a] EXCEPT !.stage = "idle", !.paused = TRUE])
          /\ Mishap("park")
     ELSE /\ Saves(a, [agent[a] EXCEPT !.stage = "idle",
                         !.death = IF @ = "none" THEN "failed" ELSE @])
          /\ Trouble /\ UNCHANGED mishaps
  /\ UNCHANGED <<births, frozen, told>>

------------------------------------------------------------------------------
(* Exits.                                                                  *)

\* A fault: a dying agent waits for its children and does not kill them.
StopChildWaits(a, m) == IF agent[a].death # "none" THEN m ELSE Suspended(m)

\* What _stop_children asks of each child.
StopChild(a, m) == IF agent[a].death # "none" THEN Killed(m) ELSE Suspended(m)

\* The loop is over: the finalizer has stopped the jobs and tells the children.
LoopEnds(a) ==
  /\ Stage(a) = "idle" /\ Exiting(a)
  /\ agent' = [d \in Agents |->
       IF d = a
       THEN [agent[a] EXCEPT !.stage = IF agent[a].death # "none" THEN "dispose" ELSE "suspend"]
       ELSE IF d \in Children(a) THEN StopChild(a, agent[d]) ELSE agent[d]]
  /\ UNCHANGED <<file, births, frozen, History>>

ChildrenEnded(a) == \A c \in Children(a) : ~Live(c)

\* The parent hears of the exit, the slot is freed, the snapshot removed: one step.
Leaves(a) ==
  /\ agent' = [agent EXCEPT ![a].stage = "gone",
                 ![Parent(a)].reports = IF agent[a].death = "finished" THEN @ \cup {a} ELSE @]
  /\ told' = [told EXCEPT ![a] = @ + 1]
  /\ UNCHANGED <<births, frozen, troubles, mishaps>>

\* A fault: the children's loops are not awaited.
DisposeAtOnce(a) ==
  /\ Stage(a) = "dispose"
  /\ Leaves(a)
  /\ file' = [file EXCEPT ![a] = NoFile]

\* A fault: the snapshot is left behind.
DisposeKeepsFile(a) ==
  /\ Stage(a) = "dispose" /\ ChildrenEnded(a)
  /\ Leaves(a)
  /\ UNCHANGED file

\* Agent._dispose, after its children's loops ended.
Dispose(a) ==
  /\ Stage(a) = "dispose" /\ ChildrenEnded(a)
  /\ Leaves(a)
  /\ file' = [file EXCEPT ![a] = NoFile]

\* A fault: the children's loops are not awaited.
SuspendAtOnce(a) ==
  /\ Stage(a) = "suspend"
  /\ Saves(a, [agent[a] EXCEPT !.stage = "down"])
  /\ UNCHANGED <<births, frozen, History>>

\* Agent._suspend, after its children's loops ended.
SuspendSaves(a) ==
  /\ Stage(a) = "suspend" /\ ChildrenEnded(a)
  /\ Saves(a, [agent[a] EXCEPT !.stage = "down"])
  /\ UNCHANGED <<births, frozen, History>>

------------------------------------------------------------------------------
(* The user, the process, and the next boot.                               *)

Pause ==
  /\ Live(Root) /\ ~Exiting(Root) /\ ~frozen /\ Trouble
  /\ frozen' = TRUE
  /\ agent' = [d \in Agents |-> IF d \in PauseReaches THEN Frozen(agent[d]) ELSE agent[d]]
  /\ UNCHANGED <<file, births, mishaps, told>>

Resume ==
  /\ Live(Root) /\ ~Exiting(Root) /\ agent[Root].paused
  /\ frozen' = FALSE
  /\ agent' = [d \in Agents |->
                 IF d \in ResumeReaches THEN [agent[d] EXCEPT !.paused = FALSE] ELSE agent[d]]
  /\ UNCHANGED <<file, births, History>>

Shutdown ==
  /\ Live(Root) /\ ~Exiting(Root) /\ Trouble
  /\ agent' = [agent EXCEPT ![Root] = Suspended(@)]
  /\ UNCHANGED <<file, births, frozen, mishaps, told>>

Crash ==
  /\ Live(Root) /\ Trouble
  /\ agent' = [a \in Agents |->
       IF Stage(a) \in {"unborn", "gone"} THEN agent[a]
       ELSE Fresh("down", agent[a].chain, {}, {})]
  /\ births' = {}
  /\ frozen' = FALSE
  /\ UNCHANGED <<file, mishaps, told>>

\* A fault: a death on file is not looked for.
PresentDead == {a \in Agents : file[a].exists}

\* The snapshots with no exit on record.
Present == {a \in Agents : file[a].exists /\ ~file[a].death}

\* Those that hang off the root.
Restorable == {a \in Present : ToSet(file[a].chain) \subseteq Present}

\* boot.restore: the rest is discarded; no root on file, and a new one starts.
Boot ==
  /\ Stage(Root) = "down" /\ births = {}
  /\ agent' = [a \in Agents |->
       IF a \in Restorable THEN Fresh("idle", file[a].chain, file[a].claims, file[a].reports)
       ELSE IF a = Root THEN Fresh("idle", <<Root>>, {}, {})
       ELSE IF Stage(a) = "unborn" THEN agent[a]
       ELSE Fresh("gone", agent[a].chain, {}, {})]
  /\ file' = [a \in Agents |-> IF a \in Restorable THEN file[a] ELSE NoFile]
  /\ frozen' = FALSE
  /\ UNCHANGED <<births, History>>

------------------------------------------------------------------------------
Init ==
  /\ agent = [a \in Agents |-> IF a = Root THEN Fresh("idle", <<Root>>, {}, {})
                                ELSE Fresh("unborn", <<>>, {}, {})]
  /\ file = [a \in Agents |-> NoFile]
  /\ births = {} /\ frozen = FALSE
  /\ troubles = 0 /\ mishaps = {}
  /\ told = [a \in Agents |-> 0]

Turn(a) ==
  \/ TurnStarts(a) \/ Finish(a) \/ FailTurn(a)
  \/ \E c \in Agents : Spawn(a, c) \/ Kill(a, c)

\* What the event loop owes each agent.
Progress(a) ==
  \/ Answered(a) \/ TurnEnds(a) \/ SpawnReturns(a) \/ TurnCancelled(a) \/ SpawnCancelled(a)
  \/ BirthLands(a) \/ LoopEnds(a) \/ Dispose(a) \/ SuspendSaves(a)

Next ==
  \/ \E a \in Agents : Turn(a) \/ Progress(a) \/ BirthFails(a)
  \/ Pause \/ Resume \/ Shutdown \/ Crash \/ Boot

Spec == Init /\ [][Next]_vars

\* A thread ends its write, a model call returns, and a ready task runs; a verb
\* need not return (see Agent).
FairSpec == Spec /\ \A a \in Agents : WF_vars(Progress(a) /\ ~InVerbs(a))

------------------------------------------------------------------------------
(* Properties.                                                             *)

\* No agent outlives its parent: whoever runs has a running parent, through
\* kills, finishes, spawns cut short, shutdown and restore (_stop_children).
NoOrphans == \A a \in Agents \ {Root} : Live(a) => Live(Parent(a))

\* "An exit is announced exactly once ... and the child slot is released in
\* the same step" (architecture.md invariant 12); and a report the parent has,
\* or has on file, is of a child that is gone, its snapshot too: "the child's
\* death (its snapshot is gone; the tree is consistent)" (architecture.md:561).
ReportsAreTrue ==
  "abandon" \notin mishaps =>
    /\ \A a \in Agents : told[a] <= 1 /\ (told[a] = 1 => ~Live(a))
    /\ \A p, c \in Agents : c \in agent[p].reports \cup file[p].reports =>
         Stage(c) = "gone" /\ ~file[c].exists

\* "A claim can only be committed after the child's write"
\* (architecture.md:562): a spawn a parent has on file is of a child that is
\* on file, or has died.
NoFalseChild ==
  "badWrite" \notin mishaps =>
    \A p, c \in Agents : c \in file[p].claims => file[c].exists \/ Stage(c) = "gone"

Leaving(a) == \E b \in ToSet(agent[a].chain) : Exiting(b)

\* While the user's pause stands, no agent of the tree runs on, children born
\* meanwhile included -- unless an agent above it is on its way out (pause
\* skips that agent and all beneath it, and its disposal takes them along),
\* or the root had parked itself.
FrozenTree ==
  frozen /\ "park" \notin mishaps =>
    \A a \in Agents : Live(a) => agent[a].paused \/ Leaving(a)

\* The same without the condition: "Freeze the agent and its whole subtree"
\* (core.py:355), "Pause is one latch over the whole subtree".  A root that
\* parked itself refutes it: its pause returns early and freezes nobody.
PauseFreezesSubtree ==
  frozen => \A a \in Agents : Live(a) => agent[a].paused \/ Leaving(a)

\* A resume leaves nobody frozen for good: a frozen agent has a frozen root.
NobodyStaysFrozen ==
  \A a \in Agents : Live(a) /\ agent[a].paused /\ ~Exiting(a) => agent[Root].paused

\* A graceful stop loses no agent and no report: whoever suspended runs
\* again after the boot, in its place in the tree, with every report it had,
\* those its children made during the shutdown included.
GracefulStopKeepsTree ==
  [][\A a \in Agents : agent[a].suspending /\ Stage(a) = "down" /\ Stage(a)' # "down" =>
       "abandon" \in mishaps
       \/ /\ Stage(a)' = "idle"
          /\ agent'[a].chain = agent[a].chain /\ agent'[a].reports = agent[a].reports]_vars

\* Who is gone, or has committed its exit and stopped, never runs again.
DeadStayDead ==
  [][\A a \in Agents \ {Root} :
       "abandon" \notin mishaps /\ ~Live(a) /\ (Stage(a) = "gone" \/ file[a].death)
         => ~Live(a)']_vars

\* An exit ends: who is asked to die or to suspend does, after its subtree.
\* Excepted is a tree with an agent whose verb never returns after its `finish`:
\* that exit is on record, so no later one cancels it (core.py:324).
StaysInVerbs(a) == agent[a].death = "finished" /\ InVerbs(a)

ExitsEnd ==
  \A a \in Agents : Exiting(a) ~> ~Live(a) \/ \E b \in Agents : []StaysInVerbs(b)
=============================================================================
