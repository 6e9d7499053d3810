---------------------------- MODULE SnapshotStore ----------------------------
(***************************************************************************)
(* nan/persistence/snapshot.py SnapshotStore and Agent.persist: the file   *)
(* of ONE agent, the threads that write it, and the reader at boot.        *)
(*                                                                         *)
(* A snapshot is abstracted to its version: the k-th whole state the agent *)
(* handed to `save`.  A larger version is a later state of the agent.      *)
(* `save` runs `_write` in a thread (asyncio.to_thread); cancelling the    *)
(* task that awaits it (pause, kill, shutdown) leaves the thread running.  *)
(***************************************************************************)
EXTENDS Naturals, FiniteSets

CONSTANTS
  MaxSaves,     \* bound: saves over the agent's life
  MaxCancels,   \* bound: cancellations of a task that awaits a save
  MaxCrashes    \* bound: process crashes and power losses

ASSUME BoundsAssumption ==
  MaxSaves \in Nat /\ MaxCancels \in Nat /\ MaxCrashes \in Nat

VARIABLES
  begun,     \* the newest version handed to `save`
  writers,   \* the threads running `_write`
  awaited,   \* the version `persist` awaits, 0 when none
  entry,     \* the version <agent_id>.json names, 0 when there is no file
  durable,   \* the version that name holds after a power loss
  mode,      \* the agent: "up", "removed" (disposed), "stopped", "crashed"
  acked,     \* history: the newest version whose save returned
  dead,      \* history: the agent was disposed
  cancels,   \* history: saves whose caller was cancelled
  crashes,   \* history: crashes so far
  losses     \* history: those that were power losses

vars == <<begun, writers, awaited, entry, durable, mode,
          acked, dead, cancels, crashes, losses>>

Versions == 1..MaxSaves

\* Where a thread stands: the temporary file is being written; it is
\* fsynced; it was renamed over the target and the directory is not synced.
Stages == {"temp", "synced", "replaced"}
Writer(v, stage) == [version |-> v, at |-> stage]

TypeOK ==
  /\ begun \in 0..MaxSaves
  /\ writers \subseteq [version : 1..begun, at : Stages]
  /\ awaited \in {0, begun}
  /\ entry \in 0..MaxSaves /\ durable \in 0..MaxSaves
  /\ mode \in {"up", "removed", "stopped", "crashed"}
  /\ acked \in 0..MaxSaves
  /\ dead \in BOOLEAN
  /\ cancels \in 0..MaxCancels
  /\ crashes \in 0..MaxCrashes /\ losses \in 0..crashes

Init ==
  /\ begun = 0 /\ writers = {} /\ awaited = 0
  /\ entry = 0 /\ durable = 0
  /\ mode = "up"
  /\ acked = 0 /\ dead = FALSE
  /\ cancels = 0 /\ crashes = 0 /\ losses = 0

------------------------------------------------------------------------------
(* The caller: Agent.persist.  It awaits the save it began.                *)

BeginSave ==
  /\ begun < MaxSaves
  /\ begun' = begun + 1
  /\ writers' = writers \cup {Writer(begun + 1, "temp")}
  /\ awaited' = begun + 1

Save ==
  /\ mode = "up" /\ awaited = 0
  /\ BeginSave
  /\ UNCHANGED <<entry, durable, mode, acked, dead, cancels, crashes, losses>>

\* The awaiting task is cancelled: the await ends, the thread does not.
Cancel ==
  /\ awaited # 0 /\ cancels < MaxCancels
  /\ awaited' = 0
  /\ cancels' = cancels + 1
  /\ UNCHANGED <<begun, writers, entry, durable, mode, acked, dead, crashes, losses>>

------------------------------------------------------------------------------
(* The thread: SnapshotStore._write.                                       *)

\* A fault: the target is written in place, truncated before it is whole.
TruncateTarget(w) ==
  /\ w.at = "temp"
  /\ writers' = (writers \ {w}) \cup {Writer(w.version, "synced")}
  /\ entry' = 0
  /\ UNCHANGED <<begun, awaited, durable, mode, acked, dead, cancels, crashes, losses>>

SyncTemp(w) ==
  /\ w.at = "temp"
  /\ writers' = (writers \ {w}) \cup {Writer(w.version, "synced")}
  /\ UNCHANGED <<begun, awaited, entry, durable, mode,
                 acked, dead, cancels, crashes, losses>>

\* A fault: the rename happens before the file's content is on disk, and
\* the write returns there.
ReplaceUnsynced(w) ==
  /\ w.at = "synced"
  /\ writers' = writers \ {w}
  /\ entry' = w.version
  /\ acked' = IF awaited = w.version THEN w.version ELSE acked
  /\ awaited' = IF awaited = w.version THEN 0 ELSE awaited
  /\ UNCHANGED <<begun, durable, mode, dead, cancels, crashes, losses>>

Replace(w) ==
  /\ w.at = "synced"
  /\ writers' = (writers \ {w}) \cup {Writer(w.version, "replaced")}
  /\ entry' = w.version
  /\ UNCHANGED <<begun, awaited, durable, mode, acked, dead, cancels, crashes, losses>>

\* The directory is synced and the thread returns; so does the save,
\* when somebody still awaits it.
SyncDirectory(w) ==
  /\ w.at = "replaced"
  /\ writers' = writers \ {w}
  /\ durable' = entry
  /\ acked' = IF awaited = w.version THEN w.version ELSE acked
  /\ awaited' = IF awaited = w.version THEN 0 ELSE awaited
  /\ UNCHANGED <<begun, entry, mode, dead, cancels, crashes, losses>>

\* An I/O error at any stage: the temporary file is unlinked and `persist`
\* logs and goes on.  Past the rename the file is already the new one.
WriteFails(w) ==
  /\ writers' = writers \ {w}
  /\ awaited' = IF awaited = w.version THEN 0 ELSE awaited
  /\ UNCHANGED <<begun, entry, durable, mode, acked, dead, cancels, crashes, losses>>

\* Another agent's write syncs the shared directory.
OtherAgentSyncs ==
  /\ durable # entry
  /\ durable' = entry
  /\ UNCHANGED <<begun, writers, awaited, entry, mode,
                 acked, dead, cancels, crashes, losses>>

------------------------------------------------------------------------------
(* The end of a life, and the next boot.                                   *)

\* A fault: the snapshot is removed while its last write is still awaited.
RemoveEarly ==
  /\ mode = "up"
  /\ entry' = 0
  /\ mode' = "removed" /\ dead' = TRUE
  /\ UNCHANGED <<begun, writers, awaited, durable, acked, cancels, crashes, losses>>

\* Agent._dispose: the unlink is not followed by a directory sync.
Remove ==
  /\ mode = "up" /\ awaited = 0
  /\ entry' = 0
  /\ mode' = "removed" /\ dead' = TRUE
  /\ UNCHANGED <<begun, writers, awaited, durable, acked, cancels, crashes, losses>>

\* Agent._suspend returned; leaving asyncio.run joins the threads.
Stop ==
  /\ mode = "up" /\ awaited = 0
  /\ mode' = "stopped"
  /\ UNCHANGED <<begun, writers, awaited, entry, durable,
                 acked, dead, cancels, crashes, losses>>

Die ==
  /\ mode # "crashed" /\ crashes < MaxCrashes
  /\ crashes' = crashes + 1
  /\ mode' = "crashed"
  /\ writers' = {} /\ awaited' = 0
  /\ UNCHANGED <<begun, durable, acked, dead, cancels>>

Crash == Die /\ UNCHANGED <<entry, losses>>

PowerLoss == Die /\ entry' = durable /\ losses' = losses + 1

\* boot.restore reads the file and rewrites it before the agent starts.
Restore ==
  /\ mode \in {"stopped", "crashed"} /\ writers = {}
  /\ \/ entry = 0 /\ mode' = "removed" /\ UNCHANGED <<begun, writers, awaited>>
     \/ entry # 0 /\ mode' = "up" /\ BeginSave
  /\ UNCHANGED <<entry, durable, acked, dead, cancels, crashes, losses>>

------------------------------------------------------------------------------
Next ==
  \/ Save \/ Cancel \/ Remove \/ Stop
  \/ \E w \in writers : SyncTemp(w) \/ Replace(w) \/ SyncDirectory(w) \/ WriteFails(w)
  \/ OtherAgentSyncs
  \/ Crash \/ PowerLoss \/ Restore

Spec == Init /\ [][Next]_vars

------------------------------------------------------------------------------
(* Properties.                                                             *)

\* "The last good snapshot stands" (core.py, persist): a save that returned
\* is what a reader, or a reader after a power loss, finds from then on,
\* or something newer, whatever writes fail afterwards -- as long as no
\* caller of save was cancelled.
LastGoodSnapshotStands ==
  cancels = 0 /\ ~dead => acked <= entry /\ acked <= durable

\* A disposed agent's file does not come back, unless a write was abandoned
\* or a power loss undid the unlink.
DisposedStaysGone == dead /\ cancels = 0 /\ losses = 0 => entry = 0

\* The same for every agent whose process did not lose power: "the child's
\* death (its snapshot is gone; the tree is consistent)".
DisposedSnapshotIsGone == dead /\ losses = 0 => entry = 0

(* Every step is one the abstract file allows.  A write lands when its     *)
(* rename does; what remains of it then only settles the directory.        *)
Pending == {w \in writers : w.at # "replaced"}

Saving == IF \E w \in Pending : w.version = awaited THEN awaited ELSE 0

Abandoned == {v \in 1..begun : v # awaited /\ \E w \in Pending : w.version = v}

File == INSTANCE SnapshotFile WITH
  Snapshots <- Versions, NoSnapshot <- 0,
  file <- entry, settled <- durable, saving <- Saving, abandoned <- Abandoned

\* SnapshotStore implements SnapshotFile: whatever is cancelled, failed or
\* crashed (snapshot.py:151-186), the agent sees whole snapshots that land
\* atomically, each at most once, and none after it failed.
ImplementsSnapshotFile == File!Spec
==============================================================================
