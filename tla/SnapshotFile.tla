---------------------------- MODULE SnapshotFile ----------------------------
(***************************************************************************)
(* What one agent may rely on when it writes its snapshot: a whole-state   *)
(* file with atomic writes, at most one of which the agent awaits.  The    *)
(* write runs in a thread, so an agent whose task is cancelled stops       *)
(* waiting without stopping the write: an abandoned write may still land,  *)
(* in any order with the writes that follow it.                            *)
(* SnapshotStore implements this module; Agent is written against it.      *)
(***************************************************************************)
EXTENDS Naturals

CONSTANTS
  Snapshots,    \* the states an agent can write
  NoSnapshot    \* the file is absent, or no write is awaited

VARIABLES
  file,       \* the snapshot a reader of <agent_id>.json finds
  settled,    \* the snapshot a power loss would leave there
  saving,     \* the awaited write that has not landed, or NoSnapshot
  abandoned   \* the writes nobody awaits that have not landed

vars == <<file, settled, saving, abandoned>>

Maybe == Snapshots \cup {NoSnapshot}

Init ==
  /\ file \in Maybe
  /\ settled = file
  /\ saving \in Maybe
  /\ abandoned = {}

Begin ==
  /\ saving = NoSnapshot
  /\ saving' \in Snapshots
  /\ UNCHANGED <<file, settled, abandoned>>

Land ==
  /\ saving # NoSnapshot
  /\ file' = saving
  /\ settled' \in {settled, saving}
  /\ saving' = NoSnapshot
  /\ UNCHANGED abandoned

Fail ==
  /\ saving # NoSnapshot
  /\ saving' = NoSnapshot
  /\ UNCHANGED <<file, settled, abandoned>>

\* The cancelled caller may begin its next write in the same step.
Abandon ==
  /\ saving # NoSnapshot
  /\ abandoned' = abandoned \cup {saving}
  /\ saving' \in Maybe
  /\ UNCHANGED <<file, settled>>

LandAbandoned(s) ==
  /\ file' = s
  /\ settled' \in {settled, s}
  /\ abandoned' = abandoned \ {s}
  /\ UNCHANGED saving

FailAbandoned(s) ==
  /\ abandoned' = abandoned \ {s}
  /\ UNCHANGED <<file, settled, saving>>

Settle ==
  /\ settled' = file
  /\ UNCHANGED <<file, saving, abandoned>>

Remove ==
  /\ saving = NoSnapshot
  /\ file' = NoSnapshot
  /\ settled' \in {settled, NoSnapshot}
  /\ UNCHANGED <<saving, abandoned>>

\* The process dies: writes in flight die with it, the file stays.
Crash ==
  /\ saving' = NoSnapshot
  /\ abandoned' = {}
  /\ UNCHANGED <<file, settled>>

\* The machine dies: the file falls back to what was synced.
PowerLoss ==
  /\ file' = settled
  /\ saving' = NoSnapshot
  /\ abandoned' = {}
  /\ UNCHANGED settled

Next ==
  \/ \E s \in abandoned : LandAbandoned(s) \/ FailAbandoned(s)
  \/ Begin \/ Land \/ Fail \/ Abandon \/ Settle \/ Remove \/ Crash \/ PowerLoss

Spec == Init /\ [][Next]_vars
=============================================================================
