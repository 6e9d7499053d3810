# A TLA+ verification of NAN

NAN keeps a tree of LLM agents alive in one asyncio process. Each agent is a loop
that runs one *turn* at a time (drain the inbox, think, run the verbs the model
asked for, commit), writes a whole-state snapshot at four points of the turn, and
can be paused, killed, shut down or crash at any await. Around it stand the services
that feed it (an injection hub and its clients), the stream and the panels a desktop
sees, the processes its commands start, the archive of turns, and the application
that starts and stops all of them. This directory models these parts, model-checks
them with TLC, and proves their most important invariants with TLAPS.

Paths are relative to `src/`; `core.py`, `control.py`, `boot.py`, `snapshot.py` and
`engine.py` stand for `nan/agent/core.py`, `nan/agent/control.py`, `nan/boot.py`,
`nan/persistence/snapshot.py` and `nan/agent/engine.py`; `hub.py`, `events.py`,
`gateway.py`, `app.py`, `shell.py`, `jobs.py` for the files of those names under `nan/`;
`store.py` for `builtin/services/record/store.py`.

## 1. Inventory

| component | state it keeps | operations | talks to | what is hard | what makes it correct |
|---|---|---|---|---|---|
| snapshot store (`snapshot.py`) | `<id>.json` per agent, a temporary file per write | `save` (thread: write, fsync, rename, directory fsync), `remove`, `load_all` | awaited by agents, read by boot | the caller's cancellation does not stop the thread; crash or I/O error at every stage; power loss | a save that returned is what a reader finds; a removed file does not come back |
| agent loop (`core.py`, `control.py`) | turns, inbox, pending delta lines, `_death`, `_paused`, `_suspending`, `_paced`, `_pause_cancel`, wake event, one turn task | fold, wait, pace, run and resume turns; `deliver`, `pause`, `resume`, `request_death`, `suspend`, `persist`, `_dispose`, `_suspend` | store (await), engine and hub (await), parent and children (calls), app (calls) | cancellation delivered later than requested; pause, resume, exit and write crossing each other | nothing delivered is lost, no verb runs twice, no wakeup is lost, only an exit ends the loop |
| turn engine (`engine.py`, `turn/model.py`) | the turn's phase, calls and results | `inject`, `think` with its backoff ladder, `act` | LLM provider, hub, verbs | each result recorded before the next call; what to do with an interrupted turn | phases and results only grow, a committed turn is frozen |
| agent tree (`core.py`, `verbs/spawn.py`, `kill.py`, `finish.py`) | `_children`, depth, the ancestor chain | spawn with a birth write, kill, finish, cascades of pause, resume, death and suspend | parent and child call each other | spawn cut short, pause racing a birth, exits that await exits | no orphans, an exit announced once, a frozen tree is wholly frozen |
| boot (`boot.py`) | the snapshot directory | read, discard, requeue, rebuild the tree, rewrite | store, agents | the crash left any combination of files | what was promised before the crash holds after it |
| application (`nan/app.py`, `nan/utils/autostart.py`) | root, gateway, signal flags, service groups | start, input, pause, resume, ordered shutdown with time limits | everything | time limit racing a slow exit; second signal | graceful stop loses nothing |
| background jobs (`nan/execution/jobs.py`, `verbs/shell.py`) | process groups | start, grace, SIGTERM, SIGKILL, `stop_all` | shell verb, agent exits | start window before registration; second cancellation during the grace | no command outlives its agent |
| injection hub (`nan/injection/hub.py`, `client.py`, the service kit) | registered services, expiry, per-agent reported services | register, heartbeat, expire, inject, archive | HTTP services | heartbeat racing expiry; re-registration; the reported set updated before the turn is written | an agent's view of services equals the deltas it was told |
| event sink and gateway (`nan/events.py`, `nan/gateway.py`) | sequence number, coalesced history, subscriber queues, seen mids, surfaces | emit, subscribe, replay, dedupe, reap | frontend, app | slow subscribers, reconnect between history and live, eviction of mids | a client sees a gap or everything, a message is taken once |
| frontend transport and history (`frontend/src/transport`, `frontend/src/kernel`) | cursor, rebuilt history | connect, replay, map | gateway | reconnects, boot id changes | the rebuilt view equals the stream's |
| record service (`builtin/services/record/`) | bounded queue, counters in memory and on disk, a key-value store of turns | ingest, batch, rollup, prune, page | hub, gateway | full queue, failed write, crash between batch and prune, late turns | counters agree with rows, a page is read once |
| mcp service (`workspace/services/mcp/`) | configured specs, running servers, a lock | start all, reload, ensure, call | hub, tool servers | a reload during the boot's starts, starts that fail, calls in flight | what runs is what the configuration names |
| system and network services (`workspace/services/`) | counts and last readings carried between samples | sample, announce | hub | readings that are missing, ids used again, samples that fail half way | what is announced is new and true |
| LLM provider, configuration, rendering, views, scripts | none that the above depends on | – | – | – | – |

How a message travels: the gateway hands input to `app._on_input`, which calls
`root.deliver`; the loop's fold (`control.transition`) says *run*; the turn drains
the inbox, writes its intent (write 1), asks the hub and the model, writes the answer
(write 2), runs each verb and writes each result (write 3), commits (write 4) and
hands the turn to the archive. A spawn creates a child whose task is its first
message; the child's exit puts a report in the parent's inbox. Exits run from the
top: a parent's finalizer tells its children, awaits their loops, and only then
disposes of itself (death) or writes itself a last time (shutdown).

`PROJECT.json` lists every component with its status, and every hazard of this code
at its line, the uncovered ones with the reason.

## 2. The modules

| module | models | builds on |
|---|---|---|
| `SnapshotFile` | the promise: one agent's file with atomic writes, one awaited at a time, abandoned writes landing in any order | – |
| `SnapshotStore` | `SnapshotStore.save`/`_write`/`remove`, the threads, the cancelled callers, crash, power loss | implements `SnapshotFile` |
| `Control` | `control.transition`, a pure function | – |
| `Agent` (`MCAgent`) | one agent: loop task, turn task, file, deliveries, pause, resume, kill, shutdown, failure, crash, restore | `Control`; uses `SnapshotFile` as its disk |
| `AgentTree` | the spawn tree, its cascades, shutdown and the rebuild at boot | – |
| `InjectionHub` (`MCHub`) | the hub's registry and reports, the service kit's link, the client's posts, an agent's inject and archive calls | – |
| `EventStream` | the sink's counter, ring and queues, one connection's replay and forwarding, a desktop's cursor and text | – |
| `Surfaces` | the gateway's panel table, its reaper and broadcasts, a desktop's windows | – |
| `InputGate` | the memory of mids and the core's input callback | – |
| `Commands` | the shell verb, the job registry, the process groups, cancellations | – |
| `CoreLifecycle` | `Core.run`, the ordered stop with its limits, signals, the boot scripts' groups | – |
| `RecordStore` | the archive's queue, writer, counters, retention and ledger | – |
| `McpGateway` | the tool servers, their reload and the calls to them | – |
| `NetworkProbe`, `SystemProbe` | what the two host probes carry from sample to sample and announce | – |
| `MCParts` | the nine modules from `EventStream` on, as alternatives of one run | all of them |
| `SnapshotStoreProofs`, `HubProofs`, `StreamProofs` | the theorems about the module named, with their proofs | TLAPS |
| `AgentProofs`, `AgentRecordProofs` | control flow of `Agent`; what its turns, inbox and file hold over time | TLAPS; each on the one before |
| `TreeProofs`, `TreeFileProofs` | the tree in memory; what snapshots, reports and stops leave of it | TLAPS; each on the one before |
| `PartsProofs` | commands, the core's stop, the input gate, panels, tool servers, both probes, the archive; and `MCParts`, for the books of the last two in one behaviour | TLAPS, `FiniteSetTheorems` |

The detail is split in three layers. `SnapshotStore` has the stages of one write and
shows that an agent sees only `SnapshotFile`. `Agent` has every await of one agent
and uses the file no more freely than `SnapshotFile` allows (`ImplementsFile`), so
the two results meet in the same abstract module. `AgentTree` has many agents with a turn as a
stage and a save of an existing agent as a step; it keeps a window only for the birth
write, the one save another agent awaits.

### `SnapshotStore`

A snapshot is its version, the k-th state the agent handed to `save`. `writers` are
the threads in `_write`, each at `temp`, `synced` or `replaced`. `entry` is what the
name points at, `durable` what a power loss would leave there. `Save`, `SyncTemp`,
`Replace`, `SyncDirectory` and `WriteFails` are the stages of a write; `Cancel` is
the caller's task being cancelled, which leaves the thread running; `Remove`, `Stop`,
`Crash`, `PowerLoss` and `Restore` are the ends of a life and the boot.
`OtherAgentSyncs` is another agent's directory fsync, which syncs this entry too.

### `Agent`

asyncio switches tasks only at an await, so one action is one stretch between two
awaits. `loop` names the await of the loop task:

| `loop` | code |
|---|---|
| `born` | the birth snapshot is being written by the parent (`spawn_child`) |
| `new` | the task is created and has not run |
| `wait`, `pace` | `_take_action`: the wake event, the interval's sleep |
| `turn` | `_run_turn_task` awaits the turn task |
| `dispose`, `suspend` | the finalizer waits for jobs and children, then disposes or writes |
| `saving`, `boot` | the last write of a shutdown, the rewrite of a restore |
| `gone`, `down`, `crashed` | disposed; stopped; the process died |

and `step` that of the turn task: `open` and `resume` (created, not run), `intent`,
`answer`, `result`, `acted`, `commit`, `failing` and `park` (a save is awaited there),
`inject`, `think`, `verb` and `archive` (the hub, the model, a verb, the archive),
`done` and `cancelled` (ended). `cancelling` separates `task.cancel()` from the
delivery of the cancellation when the task next runs (`TurnCancelled`): between the
two, a save may land, a pause may be taken back, an exit may be recorded. A
cancellation at an awaited save moves that save to `abandoned` (`AbandonSave`): the
thread goes on. `Continue` is the restart of a resumed turn, where
`close_interrupted` and the four phases decide; `BootRestores` is `_restore_turns`.

A turn keeps its phase, the messages and delta lines it observed, how many calls the
model made, how many reported, and whether an exit is on it. A delta line is either
a child's notice or one of the agent's own. History variables record which messages
a context clear dropped, which calls started for which message, and whether a
committed turn was handed to the archive.

### `AgentTree`

`agent[a]` is the memory of one agent (its stage, chain of ids from the root, exit
record, latches, the child being born, spawns and reports it knows); `file[a]` is its
snapshot. `Down(S)` is a cascade: it stops at the first agent outside S, as `pause`
and `resume` return early. `Boot` discards dead snapshots and those whose chain to
the root is broken, and starts a new root when none is on file.

### `InjectionHub`

`registry[s]` is the hub's entry of a service with its age, `reported[a]` the set the
hub last told an agent, `proc`, `post` and `timer` the service's `HubLink` (the step of
its life, the HTTP post it awaits, how long its beat has slept). A post fails at any
time; if the hub had not read it, it moves to `late`, from where the hub may still
read it (`HandleLate`) or never does (`LoseLate`). `After` is where each answer leads,
`beat()`'s re-registration after an unknown heartbeat included. `Inject` is
`InjectionHub.inject` up to its await: evict, list the live services, compute the delta, remember
it as reported. `InjectReturns` adds it to the turn, `InjectCut` is the await cancelled,
`Restart` the agents' process starting again while the services run on. Time is
counted in 5 s, the largest divisor of the period, the post's time limit and the time to live.

### `EventStream`, `Surfaces`, `InputGate`

`Emit` is `Sink.emit`: `Remembered` the ring, where a delta joins a tail of its own
stream and the ring drops its head at the limit, `Queued` the bounded queue of the connection. `conn`
names the await of `_ws_handler`: `hello`, `greeted` (the surface table is being
sent), `replay`, `live`, and `stalled` when the forwarder has died and the monitor has not noticed.
`Ingest` is the desktop's `Hub.ingest` (drop what is not above the cursor), `Greeted` its
answer to `hello`. A delta's text is its own number, so a view shows which deltas it
holds and how often.

In `Surfaces` a broadcast is one step, since sends to one socket keep their order; the
replay of the table and the reaper's round take one step per panel, with every other
handler between two of them. A desktop counts as connected, and hears broadcasts, from before
its `hello` on; then it is told one entry of the table per step, and an iteration that finds the
table's size changed ends the connection, as Python's does. `InputGate` has the eviction of half of the mids and the
core's refusal of input while it stops.

### `Commands`, `CoreLifecycle`

A command is a process group: a leader, and possibly children that outlive it.
`verb` names the await of the shell verb: `foreground` (the output is read, with the time limit),
`exit` (the output has ended, the leader's exit is awaited without one), `term` (the grace after
SIGTERM), `background` (the start grace). The output ends when whoever holds the pipe has exited or
has closed it, so `PipeEnds` may come with the leader and its children alive. `CancelTurn` is what a
cancellation does at each: in `foreground` it leads to `term`; in the other three, and in
`stop_all` at the shutdown's limit, it lets go of the command (`Letting`).
`leaving` is the agent's exit up to `stop_all` and its grace. `at` in `CoreLifecycle` is
the await of `Core.run`; the root appears as a task that saves, or is cut off by a time limit;
each boot script is a launching task and a group with a session of its own.

### `RecordStore`, `McpGateway`, `NetworkProbe`, `SystemProbe`

`mem` and `disk` are the counters in memory and on disk, `rows` the turns on disk.
`WriteBatch` is one atomic write of rows and counters: the first n turns of the queue become
a set of rows, each numbered by its agent's next number and how many of that agent came before it in
the batch. When it leaves more than the limit, the lock is kept (`locked`) for `Prune`, a write of its own. `Open` loads, and backfills an archive
from before rollups. `McpGateway` has the boot task and the watcher, each with the names it has still to
ensure; a stop holds the lifecycle lock, a start does not. A reload may fail and be forgotten
(`ReloadFails`), or raise out of the watcher and end it (`WatcherEnds`). In `SystemProbe` one
action is one sample, with whatever readings it got. In `NetworkProbe` a sample begins with the
online check, comes to its connections one by one, each of which may be announced, and ends
complete or cut short by a failure, which leaves the facts of the sample before.

Operators introduced by "A fault:" are plausible bugs of the definition that follows
them (a dropped guard, a missing wake, a swapped order). No specification uses
them. Each is there to show, by replacing the definition, that some property notices.

## 3. What the runs show

| run | states | question | result |
|---|---|---|---|
| `snapshot_store` | 40,403 | does the threaded writer keep what a save promised? | holds |
| `snapshot_zombie` | – | is a disposed agent's file gone for good? | violated |
| `agent` | 2,157,455 | what may one agent lose, reorder or start? | holds |
| `agent_live` | 249,014 | with two calls in an answer, is each result on file before the next call, does none run twice, is the report's turn archived? do exits end, is input observed? | holds |
| `agent_archive` | – | does the archive see every commit? | violated |
| `agent_rerun` | – | does no verb run twice, whatever is cancelled? | violated |
| `agent_tree` | 118,430 | does the tree stay whole? | holds |
| `agent_tree_pause` | – | does a pause freeze the subtree? | violated |
| `injection_hub` | 131,457 | what is an agent told, who is asked, who expires, who comes back? | holds |
| `parts` | 921,631 | do the nine parts around the core keep their own promises? | holds |
| `event_replay` | – | does a reconnect keep the text of an answer? | violated |
| `mcp_reload` | – | does every server the configuration names run? | violated |

`parts` checks nine modules that share no state. Their product would say nothing that
the parts do not say alone, so a behaviour of `MCParts` picks one part at the start
and is a behaviour of that part; the others stand still at their initial state, where their
properties hold. Each part has its own constants in `Parts.cfg`.

The properties, by what they relate:

* *Disk and memory*: `LastGoodSnapshotStands`, `DisposedStaysGone`,
  `FileNeverForgets`, `RecordedBeforeNextCall`, `ParkedTurnIsWritten`, `NoFalseChild`,
  `BooksAreTrue` (in the part for the archive, `ArchiveIsSound`).
* *Before and after a crash or a stop*: `NothingLost`, `AtMostOnce`, `ArrivalOrder`,
  `GracefulStopKeepsTree`, `DeadStayDead`, `ReportsAreTrue`.
* *Crossing tasks*: `NoLostWakeup`, `OnlyExitEndsLoop`, `PausedStandsStill`,
  `FinishIsArchived`, `TurnsOnlyGrow`, `DesktopShowsTable`, `ServersFollowConfig`.
* *Across agents*: `NoOrphans`, `FrozenTree`, `NobodyStaysFrozen`.
* *Two views of one thing*: `ViewFollowsReports` (the agent's and the hub's),
  `CursorSkipsNothing` and `TextIsWhatWasSaid` (the desktop's and the core's),
  `LedgerReadsOnce` (the reader's and the archive's), `LinesOnce`, `AlarmsAreTrue`, and
  `BooksAreTrue` (in the part for the network probe, `NewsIsNew`).
* *Timing*: `HealthyStaysLive`, `DeadNotAsked`.
* *What must not be left behind*: `NoCommandOutlivesAgent`, `StopIsOrderly`.
* *Eventually*: `ExitsEnd` (of `Agent` and of `AgentTree`), `InputIsObserved`,
  `ComesBack`, `StreamCatchesUp`.
* *Layers*: `ImplementsSnapshotFile`, `ImplementsFile`.

Several are conditioned on a history: `mishaps` says whether the process crashed, a
write failed or a save was abandoned, and `cancels` and `losses` count cancelled
callers and power losses. Each condition is as weak as the code allows. `persist` is
documented as best-effort, so a failed write may cost what it held. An abandoned
write is what the violation runs are about. `NothingLost` assumes no crash because
the documentation's crash row gives up the messages that no write had reached.

### Where the code and its documents disagree

1. **A dead agent's file comes back** (`snapshot_zombie`). A pause or kill that
   catches a turn in a save cancels the await, not the thread. `_dispose` removes the
   file; the abandoned write then renames its temporary file over the name. The next
   boot restores and runs the dead agent. (`snapshot.py:149`, `core.py:1028`)
2. **A committed turn misses the archive** (`agent_archive`). A pause delivered while
   the commit is being written raises past `turn_done` and `archive`. The turn is
   committed already, so no resume returns to it. (`core.py:770`)
3. **Verbs run twice** (`agent_rerun`). The abandoned write of a turn's intent lands
   after the turn's later writes. A crash then finds the turn unanswered on file, and
   the restore delivers its messages again. (`core.py:957`, `boot.py:175`)
4. **Pause does not freeze the subtree** (`agent_tree_pause`). A root that parked
   itself after a failed turn is already paused. The user's pause returns early and
   the children run on. (`core.py:360`, `core.py:832`)
5. **A reconnect loses or doubles text** (`event_replay`). The ring's entry of a stream
   keeps the number of its *first* delta while its text grows. A desktop that
   reconnects in mid-answer has a higher cursor and drops the entry with the deltas
   it missed; one that takes it may then get deltas from its queue that the entry
   held already. `TextIsWhatWasSaid` shows that nothing else disturbs the text. (`events.py:141`)
6. **A reverted tool server stays down** (`mcp_reload`). A definition is changed to one
   that does not start: the old server is stopped and stays in `_running`. Changing it
   back finds the same fingerprint there and starts nothing. (`mcp/main.py:254`)

Disagreements that no run states, met while modelling:

* `shell_timeout` is not the limit of a foreground command (`shell.py:35`, "a fixed timeout set by
  the user"). It limits the reading of the output (`shell.py:166`). A command that closes or redirects
  its own output ends that reading; its exit is then awaited without a limit (`shell.py:168`), and
  only a pause, a kill or a shutdown gets the agent out. So fairness does not assume that a verb returns.
* `jobs.py:6` says that no command outlives its agent. A cancellation lets go of one at four places
  (`Letting` in `Commands`): in the start grace of a background command (`shell.py:250`); at the await
  of the exit, where the cancellation has reached the awaited task itself, so that `wait_for(waited)` raises
  at once and the SIGKILL is skipped (`shell.py:168`, `shell.py:197`); at a second cancellation during
  the grace (`shell.py:197`); and in `stop_all` at the shutdown's limit (`jobs.py:90`).
  `NoCommandOutlivesAgent` shows that there is no fifth.
* `protocol.md:202` says that each agent learns about service transitions. The hub counts the live services
  as reported before it awaits them (`hub.py:289`); the lines reach the turn after (`engine.py:90`). A
  pause in the await loses them, and the resumed turn's inject finds nothing new
  (`InjectCut`; `doubt` in `ViewFollowsReports`).
* `app.py:168` and `architecture.md:538` say that suspending writes the snapshot
  before the first await. `suspend` only sets a latch and cancels; the loop writes later, and
  not at all when the time limit of `app.py:200` cuts it (`StopIsOrderly` is conditional on `late`).
* The children of a leader that has exited are never signalled, which `jobs.py:6` ("kills their
  process groups") does not say. The properties of `Commands` speak of leaders only.
* An agent that has called `finish` and then a verb that does not return can no longer be killed:
  its exit is on record, so `request_death` and `suspend` return early, and the exits of its
  ancestors wait for it (the exception in both `ExitsEnd`).
* An entry of `config.yaml` that is no server specification raises outside the reload's `try`
  (`mcp/main.py:295`) and ends the watcher for good. The service's shutdown then awaits that
  task, gets its exception, and comes to none of the steps after it.
* A surface withdrawn while a desktop is away stays there: a reconnect adds windows and
  removes none (`Shell.tsx:88`; `stale` in `Surfaces`).
* The desktop holds events until it knows the root, then feeds all of them to the root's
  timeline, a subagent's among them (`frontend/src/kernel/history/hub.ts:165`, whose comment speaks of
  `user_input` only).
* `store.py:26` says that a full queue drops the oldest item; `ingest` refuses the arriving
  one. `store.py:777` says that paging skips no row written between calls, which is
  false for a turn older than the cursor (`behind` in `RecordStore`).
* A turn that starts before the watermark is stored, and no later prune reaches it
  (`RetentionHolds` names the case).
* `outbound_max` is not a cap: entries younger than the time to live are all kept
  (`network/main.py:665`).

### Bounds

Every bound is a constant of its module, given in the `.cfg`.

* `SnapshotStore`: 4 saves, 2 cancelled callers, 2 crashes. Four saves leave room for two
  abandoned threads, one live one and the rewrite of a restore, which is every
  pairing of writes the file can tell apart.
* `Agent`: 2 messages, up to 1 call per answer, a history limit of 2 turns, 2 troubles
  (pauses, failures, shutdowns, crashes, cancelled saves and children's notices
  together), for a root, a paced root and a child at once. Two messages make two
  turns and an order; a limit of 2 makes the clear happen in the third turn, which
  an owed step opens. Two troubles pair every mishap with every other. The
  invariants also held with 3 troubles: for a root with these bounds, for a child
  with 1 message and 2 calls, and for all three kinds with 1 message and 1 call; with 2 messages
  and up to 2 calls all of them hold over 10,882,205 states. At most one abandoned save is in flight.
* `AgentLive`: up to 2 calls per answer, so that a call follows an earlier result of its turn, a
  `finish` is followed by a call or follows one, and a restore finds an answer with one of two
  results; 1 message, a history limit of 1 and 2 troubles, which liveness needs to stay small. Its three invariants
  also held with a limit of 2, over 1,521,805 states, and there with 3 troubles.
* `AgentRerun` needs 3 troubles: the pause, the abandoned save and the crash.
* `AgentTree`: a root and two others form every tree shape that has a grandchild or
  siblings; an id is used once; 2 troubles (the properties also held with 3).

* `InjectionHub`: one service and one agent with the code's own ratio of
  intervals (3, 1, 1), every configuration kind, a panel to repost, and no bound on faults or
  restarts. Services meet only in the sets an agent is told, so a second one adds a
  copy; the proofs cover any number.
* `EventStream`: 2 streams, 4 events per boot, a ring of 3, a queue of 2, 2 boots, 1
  broken connection: enough for an overlap of replay and queue, a full queue, an
  entry that leaves the ring, and a stream cut by a mark. `EventReplay` needs one boot.
* `Surfaces`: 2 panels of 2 good specs and a bad one, 1 desktop; desktops do not meet.
  `InputGate`: a memory of 4 mids, 5 mids, 7 lines, so that an evicted mid comes back.
* `RecordStore`: 2 agents, 2 start times, 4 turns, batches and queue of 2, a limit of 2 turns
  pruned to 1, 1 fault: a prune over two buckets, a turn below the watermark, a crash in between.
* `McpGateway`: 1 name, 2 definitions, 3 edits, 4 starts. `Commands`: 3 commands, one in the
  verb, one in the registry and one let go. `CoreLifecycle`: 2 scripts. `NetworkProbe`: 2 connections, 5
  samples; `SystemProbe`: 2 pids, 2 values, counts up to 4.

Deadlock is not checked: a process that stopped, a disposed agent, or an agent with
nothing to do at the bounds really stops. Liveness properties cover the stops that
would be wrong.

### Fairness

`FairSpec` is weak fairness on what the process owes: the event loop runs a ready
task (`LoopStep`, `TurnStep`, `ExitStep`, `Booted`, `SpawnReturns`; `Progress(a)` in
the tree), and a thread ends its write (`Land`). A model call ends because the
backoff ladder is finite and the HTTP client has a time limit. A verb is not assumed to
return, since the shell may wait for ever (above): `TurnStep` is fair except at a
running verb (`~InVerb`; `~InVerbs(a)` in the tree). A cancellation gets a turn out of a verb, so
exits end all the same. What remains is an exception in the properties: a verb that never
returns after its own agent's `finish`, which cancels nothing, and for
`InputIsObserved` any verb that never returns. Nothing forces a user, a crash, a failed
write or a new turn to happen.

In `InjectionHub` time passes, a beat wakes when its sleep is over, and a post ends because
the client has a time limit. That a registration tried again and again is handled in the end
is strong fairness (`SF_vars(Handle ...)`): each try may time out, but not all of them for ever, which is
what a local connection to a running hub gives. `EventStream`'s fairness is that the desktop dials again
(`ws.ts` retries without end) and that the handler, the forwarder and the monitor, tasks of
one event loop, run; nothing makes connections break or events come.

## 4. What is proved

For every value of the constants, subject only to the named assumptions in the
modules (bounds are naturals, `Kinds` is a set of kinds, `NoSnapshot` is no snapshot,
`None` is no entry and no post, `Root` is an agent and `NoAgent` is none, the intervals satisfy
`TimingAssumption`, the names of tool servers are finitely many and `Absent` is no definition,
`GateAssumption` makes the memory's size a natural, `StreamAssumption` gives ring and queue room for
an event and makes `"mark"` no stream, `RecordAssumption` makes agents and start times numbers,
start times, limits and page size not 0 and the prune's target no more than the limit,
`NetAssumption` makes no connection of the words `"offline"` and `"online"`):

| theorem | statement | inductive invariant |
|---|---|---|
| `StoreTypeCorrect` | `Spec => []TypeOK` | `TypeOK` |
| `GoodSnapshotStands` | `Spec => []LastGoodSnapshotStands` | `Serial` |
| `DisposedStaysDisposed` | `Spec => []DisposedStaysGone` | `Serial` |
| `StoreImplementsFile` | `Spec => ImplementsSnapshotFile` | `Distinct` |
| `AgentTypeCorrect` | `Spec => []TypeOK` | `TypeInv` |
| `LoopEndsOnlyByExit` | `Spec => []OnlyExitEndsLoop` | `ExitInv` |
| `AgentNeverOversleeps` | `Spec => []NoLostWakeup` | `NoLostWakeup` itself |
| `AgentImplementsFile` | `Spec => ImplementsFile` | `DiskInv` |
| `PausedAgentStandsStill` | `Spec => PausedStandsStill` | `PausedInv` |
| `NobodyOutlivesItsParent` | `Spec => []NoOrphans` | `TreeInv` |
| `ThePauseHolds` | `Spec => []FrozenTree` | `TreeInv` |
| `TheResumeReaches` | `Spec => []NobodyStaysFrozen` | `TreeInv` |
| `ClaimsAreOfChildren` | `Spec => []NoFalseChild` | `RecordInv` with `TreeInv` |
| `ReportsHold` | `Spec => []ReportsAreTrue` | `RecordInv` with `TreeInv` |
| `TheDeadStayDead` | `Spec => DeadStayDead` | `RecordInv` with `TreeInv` |
| `ViewsFollow` | `Spec => []ViewFollowsReports` | `ViewInv` |
| `HealthyStayLive` | `Spec => []HealthyStaysLive` | `LinkInv` |
| `DeadAreNotAsked` | `Spec => DeadNotAsked` | `AgesInv` |
| `GracefulStopsKeepTheTree` | `Spec => GracefulStopKeepsTree` | `StopInv` with `TreeInv`, `RecordInv` |
| `MessagesKeepTheirOrder` | `Spec => []ArrivalOrder` | `OrderInv` with `BaseInv` |
| `ResultsAreRecorded` | `Spec => []RecordedBeforeNextCall` | `WrittenInv` with `BaseInv` |
| `ParkedTurnsAreWritten` | `Spec => []ParkedTurnIsWritten` | `WrittenInv` with `BaseInv` |
| `VerbsAreAtMostOnce` | `Spec => []AtMostOnce` | `RanInv` with `OrderInv`, `WrittenInv` |
| `TurnsAreFrozen` | `Spec => TurnsOnlyGrow` | `BaseInv` |
| `TheFileNeverForgets` | `Spec => FileNeverForgets` | `CoverInv` with `BaseInv` |
| `GracefulStopsLoseNothing` | `Spec => []NothingLost` | `LossInv` with `RootInv`, `BaseInv` |
| `FinishedTurnsAreArchived` | `Spec => []FinishIsArchived` | `FinishInv` with `BaseInv` |
| `NothingIsSkipped` | `Spec => []CursorSkipsNothing` | `StreamInv` |
| `TextIsTrue` | `Spec => []TextIsWhatWasSaid` | `StreamInv` |
| `CommandsAreHeld` | `CommandSpec => []NoCommandOutlivesAgent` | `CommandInv` |
| `CoreStopsInOrder` | `CoreSpec => []StopIsOrderly` | `CoreInv` |
| `LinesReachOnce` | `GateSpec => []LinesOnce` | `GateInv` |
| `DesktopsShowTheTable` | `SurfaceSpec => []DesktopShowsTable` | `ShownInv` |
| `ServersAreFollowed` | `McpSpec => []ServersFollowConfig` | `McpInv` |
| `ArchiveStaysSound` | `RecordSpec => []ArchiveIsSound` | `ArchiveInv` |
| `LedgersAreReadOnce` | `RecordSpec => LedgerReadsOnce` | `ArchiveInv` |
| `NewsStaysNew` | `NetSpec => []NewsIsNew` | `NetInv` |
| `BooksStayTrue` | `PartsSpec => []BooksAreTrue` | `ArchiveInv` and `NetInv` |
| `AlarmsHold` | `SysSpec => []AlarmsAreTrue` | `SysInv` |

* `Serial`: while no caller was cancelled there is at most one thread, it writes the
  awaited version and that is the newest. Without it an acknowledged save could be
  overwritten by an older thread, which is exactly what happens once a caller is
  cancelled.
* `Distinct`: threads differ in the version they write, so the thread that lands is
  one of the abstract file's awaited and abandoned writes and not two.
* `TypeInv` adds to `TypeOK` that a running turn has a turn to work on, that a running
  verb has a result still to report, and that only a turn task that has not ended is
  being cancelled. The results of a turn stay within its calls only because of it.
* `ExitInv` adds `CancelMeant`: a cancellation on its way, or being handled, has its
  cause still on record, either the pause latch or an exit. The latch is cleared by
  the loop after it has seen the cancellation and not by `resume`. That is why a
  resume which overtakes the pause cannot end the loop.
* `DiskInv`: the agent awaits a save only at the steps that begin one. With it, a
  save is never begun while another is awaited and the file is never removed under one.
* `PausedInv`: a paused agent with a running turn has a cancellation on its way, or the
  turn is past it. With it, no step of the turn is taken between pause and resume.

* `TreeInv`: in memory each agent is its chain of ids from the root, and a cascade is a
  quantifier over whoever has an id in its chain. `Lineages` says that these chains agree: every
  agent on one was born, with the part of the chain that leads to it. `NoOrphans` and
  `NobodyStaysFrozen` speak of one step up or of the root and are not inductive, since a
  death in the middle is disposed of by what is above and beneath; `AncestorsLive` and
  `AncestorsPaused` say the same of every agent on the chain. `FrozenTree` needs two more:
  the turn of a frozen agent is being cancelled (`PausedTurnsEnd`), or it would spawn under a
  pause; and only the user freezes a root that has not parked (`OnlyUserFreezes`), or
  `pause` would return at once and reach nobody. `Babies` places a child whose birth is
  awaited under the parent that awaits it, `Files` puts each snapshot in its owner's place, which
  is what the boot rebuilds the tree from.
* `RecordInv`: `NoFalseChild` with the claims that are in memory only (`ClaimsHold`), which the next
  save would write; that a birth write which ended well left a file (`BirthsWritten`) and that one
  under way is still awaited (`BirthsAwaited`), so none lands after a disposal; and that whoever is
  gone has no file and no one else was announced (`GoneForGood`). The history
  `mishaps` names the two exceptions, a birth write that failed and one whose caller was cancelled.
* `StopInv`: whoever is asked to stop does not die, and a turn it is in is being cancelled
  (`StopsMeant`); all above it were asked before and wait, or have stopped (`StopsFromAbove`), which is
  what rules out that a parent's death takes a stopped child's file; who has stopped is on file
  with its reports (`StopsOnFile`). Most steps are `Calm`: they change no ask, and neither the
  place nor the file of who was asked. Only the loop's end, the last save, a shutdown, a crash
  and a boot are not.

* `PhaseInv` and `TaskInv` say what phase the last turn has at each step of the turn task and that
  the loop awaits the task while there is one. `BaseInv` joins them with the three invariants above.
* `OrderInv` says `ArrivalOrder` of every snapshot a later boot may find (`Kept`: memory, file, the
  awaited write, the abandoned ones), since any of them can become the memory again.
* `WrittenInv`: at each step past the first write the newest write begun is of the turns as they
  are, and an open turn of an agent that is not running one is on file. It is false once a write failed
  or was abandoned, which `Faultless` says; a crash alone does not hurt it.
* `RanInv`: no call was started for a message that some snapshot would have answered again
  (`Unanswered`), and of the answer at hand none was started but those that reported and the one
  that runs. So a restore can run no call twice.
* `CoverInv`: what any snapshot holds, the memory holds too, but for what a clear dropped. An
  abandoned write is what breaks it. `LossInv` says where a message is at every step that no mishap
  preceded; `RootInv`, that a root never dies, keeps the boot from discarding the file.
* `FinishInv`: an agent with a report on record takes no pause, kill or shutdown any more, and what its
  turn has still to do before it may leave. Each exit and each cancellation needs a case of it.

* `ViewInv`: an agent that is between turns has no delta in hand, so what it was told is
  what its written turns say.
* `LinkInv`: an entry of a service whose posts are answered is no older than the post
  in flight plus the sleep before it (`Oldest`), and an answered post was handled (`Confirmed`).
  It needs `Every + 2 * PostLimit <= TTL`: a beat may sleep its period, take a time limit
  to be answered, and be followed by a panel's post that takes another. The code's
  5, 5 and 15 seconds meet this with nothing to spare.
* `AgesInv`: the entry of a service that is gone is at least as old as its process has
  been gone, and no request of a process that is gone waits when time passes.
* `CommandInv`: every leader that runs is held or was let go at one of the four places; the exit takes the registry over into `doomed` only when the turn holds no
  command, so nothing is registered after `stop_all` took the list.
* `CoreInv`: which stage of the stop allows what of the hub, the root and each group; a group
  that is up is known to its launching task or to the stop's list (`GroupInv`).
* `GateInv`: the memory of mids is the tail of what was let through, and at least half the limit long
  once something was evicted (`MemoryInv`); so an id that comes back is that far from its last use.
* `ShownInv`: a desktop that is being told the table shows every entry it is not still to be
  told, and a window without an entry is stale.
* `McpInv`: at most one task is at work on a name that no reload took from the boot task, and with the
  definition that is wanted; whoever runs under the name is held, or is the latest server of the task
  that is about to register it (`IsMine`, which also says that no name holds it yet); a held server that
  does not run is one whose successor is being started or has failed (`Sound`). `HeldInv` keeps the
  names apart, so that stopping one server stops no other name's.
* `ArchiveInv`: `NumberInv` says that the next numbers in memory are past those on disk, whatever failed,
  which is why no number is given twice even then. `CounterInv`: until a write fails, memory
  and disk are equal while the store is open and describe the rows; the one archive that is not described is
  one from before rollups, and the next opening mends it. `LimitInv` is the retention without its
  condition on the store. `ReaderInv`: what is not after the reader's cursor it has, or it was written
  there late. The arithmetic of batch, prune and page rests on one fact about the time order, that
  ranks count (`RankBijects`): the n first of a finite set are n.
* `NetInv`: what is remembered of a connection is no older than the last news of it until its time
  is over (`RememberedInv`). The connection at hand is remembered before the memory is trimmed, so
  what a trim forgets is over its time, and news of it may be given again.
* `BooksStayTrue` is about the behaviours the run checks: a step of any part is a step or a stutter
  of the archive and of the network probe (`PartsMove`), so both invariants hold in all of them.
* `SysInv`: a count is the streak of its process unless the pid was used again (`shared`).
* `StreamInv`: events are numbered in the order of their emission (`SentInv`); every entry of ring,
  queue and replay is a contiguous piece of its stream beginning with its own number (`Said`), and
  entries follow each other (`Ordered`). `RingInv` and `QueueInv` say which events are still held,
  `TodoInv` that a replay is of entries the ring still has, grown since. `CursorInv` follows one event
  on its way to the desktop: applied, dropped, in the replay, or in the queue behind it (`Behind`).
  `TextInv` does the same for the text: what is shown is a prefix, and complete up to the cursor
  (`Kept`); each missing delta is still coming, once (`Coming`).

Each proof has a lemma per group of actions (loop, turn, exit, boot, world), one step
per action, and ends in a temporal step. The abstract and the concrete results
compose: `StoreImplementsFile` says what the disk offers, `AgentImplementsFile` that
the agent asks for no more.

Only model-checked:

* liveness (`ExitsEnd`, `InputIsObserved`, `ComesBack`, `StreamCatchesUp`) and the fairness part of
  every refinement: `ENABLED` and fairness are outside the prover.

Every invariant and every action property of the passing runs is stated by a theorem. A batch is
stated as a set of rows, and a sample as one step per connection, and neither as a fold over a sequence:
what a fold returns takes an induction over data, which the prover cannot do.

## 5. Abstractions, and what they cost

* Message and delta texts are left out: a message is its arrival number, a delta line
  one of two kinds. So which lines a graceful stop drops from a requeued turn is not
  followed (listed as a hazard).
* The history limit counts turns instead of characters. Whether the limit is reached
  can then depend only on the number of turns; the clear itself is whole.
* The model's answer is a number of calls. The kinds of verbs that matter are the one
  that reports without awaiting (`finish`), the awaited ones, and, in the tree, spawn
  and kill.
* The backoff ladder is one step that answers or gives up. Cancellation during its
  sleeps is the cancellation at `think`.
* In `Agent`, `Kill` and `Suspend` do not reach an agent that is exiting, and
  `Pause` not one that is frozen or exiting. Those calls return early in the code.
* In `AgentTree`, an exiting agent and everything beneath it is skipped by a pause
  (`Leaving`), since its disposal takes the subtree along.
* In `Agent` and `AgentTree` shutdown has no time limit, so their graceful-stop properties
  hold for exits that end in time. `CoreLifecycle` and `Commands` have the limit and show what it costs.
* `InjectionHub`: what a service contributes and how long it takes is left out; a
  gather returns. Clock skew between the two processes does not matter, since each measures
  its own intervals, but a process stalled for longer than a time limit is a missed post.
* `EventStream`: one desktop, for queues are per connection; a send either reaches the
  desktop or breaks the connection. Events held until the root is known, rounds and the agent tree
  of the desktop are left out.
* `RecordStore`: a turn weighs one unit, so bytes and turns are one counter; one bucket
  width stands for hours, days and weeks; the pages of one agent (`turns`) and the histogram are left out.
  The code's prune stops after 50,000 turns and goes on after the next batch if still over the limit; the model's goes to its target.
* `McpGateway`: a server that dies under way is the client's to report, and its restart is
  not the gateway's; the text of the contribution is left out.
* `SystemProbe` and `NetworkProbe` keep one check of each shape: a counter per process, a
  setting that may be unreadable, a threshold with an end, a set of things seen.
* A snapshot that cannot be parsed, several root files and a wrong recorded depth are
  left out: an atomic writer writes none of them.

## 6. Not modelled, and what is left

| part | why |
|---|---|
| LLM provider | wire formats of vendors; the core sees an answer or a failure, which `Agent` has |
| configuration, rendering, loopback guard | pure functions of settings and text |
| frontend views beyond the service panels | a projection of state that `EventStream` and `Surfaces` have |
| the record service's seed data, histogram and HTTP surface | reads without state of their own |
| readers of host facts in the probes | operating-system calls and wording |
| scripts and packaging | not part of the running system |

What would come next, in this order: delta lines in `Agent` (the lines a graceful stop drops,
`architecture.md:556`); the pages of one agent in the archive; the events a desktop holds until
the root is known.
