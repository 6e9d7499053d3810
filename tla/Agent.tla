-------------------------------- MODULE Agent --------------------------------
(***************************************************************************)
(* nan/agent/core.py: one agent.  Its loop task, the one cancellable turn  *)
(* task, its snapshot file, and the world around it: messages delivered,   *)
(* pause and resume, a kill by its parent, process shutdown, crashes and   *)
(* the restore at the next boot (nan/boot.py).                             *)
(*                                                                         *)
(* asyncio runs one task at a time, from one await to the next.  An action *)
(* is one such stretch, so a variable `loop` or `step` names the await a   *)
(* task stands at.  A cancellation is requested in one step and delivered  *)
(* when the task next runs.  A save lands in a thread; the file follows    *)
(* SnapshotFile (see ImplementsFile).                                      *)
(***************************************************************************)
EXTENDS Control, Naturals, Sequences, SequencesExt

CONSTANTS
  Kinds,          \* the agents considered: [root : BOOLEAN, interval : BOOLEAN]
  MaxMessages,    \* bound: messages delivered
  MaxCalls,       \* bound: verb calls in one model answer
  HistoryLimit,   \* history_char_limit, counted in turns
  MaxTroubles,    \* bound: pauses, failed turns and writes, shutdowns, crashes,
                  \* saves whose task is cancelled and children's notices, together
  NoSnapshot      \* the file is absent, or no save is awaited

ASSUME KindsAssumption == Kinds \subseteq [root : BOOLEAN, interval : BOOLEAN]
ASSUME LimitsAssumption ==
  /\ MaxMessages \in Nat \ {0} /\ MaxCalls \in Nat /\ HistoryLimit \in Nat \ {0}
  /\ MaxTroubles \in Nat

VARIABLES
  kind,        \* root or child, paced by an interval or by input
  turns,       \* the Turn list
  inbox,       \* delivered, not yet observed
  deltas,      \* _pending_deltas
  death,       \* _death: "none", or how it was recorded
  paused, suspending, paced, pauseCancel,   \* the latches of the same names
  wake,        \* the wake event is set
  loop,        \* where the loop task stands
  step,        \* where the turn task stands
  cancelling,  \* a cancellation of the turn task is requested, not delivered
  file, saving, abandoned,   \* the snapshot: see SnapshotFile
  delivered,   \* messages 1..delivered were delivered, in that order
  troubles,    \* how many of MaxTroubles there were
  mishaps,     \* history: which of "crash", "badWrite" and "abandon" there were
  cleared,     \* history: messages of the turns a context clear dropped
  ran,         \* history: <<message, k>> when the k-th call answering it started
  reran,       \* history: a call in `ran` started again
  unarchived   \* history: a turn committed and was not sent to the archive

memory == <<turns, inbox, deltas, death, paused, suspending, paced, pauseCancel>>
tasks == <<wake, loop, step, cancelling>>
disk == <<file, saving, abandoned>>
history == <<delivered, troubles, mishaps, cleared, ran, reran, unarchived>>
vars == <<kind, memory, tasks, disk, history>>

------------------------------------------------------------------------------
(* A turn carries what the properties tell apart: its phase, the messages  *)
(* and delta lines it observed, how many calls the model made and how many *)
(* reported.  A delta line is a child's notice or one of the agent's own.  *)

Messages == 1..MaxMessages
Lines == {"child", "agent"}
Phases == <<"observed", "injected", "thought", "acted", "committed">>
Turns == [phase : Range(Phases), inbox : SUBSET Messages, delta : SUBSET Lines,
          calls : 0..MaxCalls, results : 0..MaxCalls, death : BOOLEAN]
Snapshots == [turns : Seq(Turns), pending : SUBSET Messages]

ASSUME NoSnapshotAssumption == NoSnapshot \notin Snapshots

IsOpen(ts) == ts # <<>> /\ Last(ts).phase # "committed"

OwesStep(ts) ==
  ts # <<>> /\ Last(ts).phase = "committed" /\ Last(ts).calls > 0 /\ ~Last(ts).death

Noted(turn, line) == [turn EXCEPT !.delta = @ \cup {line}]
Held(turn) == [turns EXCEPT ![Len(turns)] = turn]
Exiting == death # "none" \/ suspending

Status ==
  [death |-> death # "none", suspend |-> suspending, paused |-> paused,
   openTurn |-> IsOpen(turns), owedStep |-> OwesStep(turns),
   inputReady |-> inbox # {}, paced |-> paced]

\* A fault: the messages no turn has observed are not written.
PersistTurnsOnly(ts, pending) == saving' = [turns |-> ts, pending |-> {}]

\* Agent.persist of a state with these turns and this inbox.
Persist(ts, pending) == saving' = [turns |-> ts, pending |-> pending]
Saved == saving = NoSnapshot

------------------------------------------------------------------------------
(* The loop: one fold, one action, and the fold again.                     *)

\* Leave the fold into the finalizer of Agent.loop.
Leave ==
  /\ loop' = IF death # "none" THEN "dispose" ELSE "suspend"
  /\ step' = "none"
  /\ UNCHANGED <<paced, wake>>

Fold(status) ==
  LET action == Transition(status, kind.interval) IN
  \/ /\ action = "stop"
     /\ Leave
  \/ /\ action = "wait"
     /\ loop' = "wait" /\ step' = "none" /\ wake' = FALSE
     /\ paced' = status.paced
  \/ /\ action = "pace"
     /\ loop' = "pace" /\ step' = "none"
     /\ paced' = status.paced
     /\ UNCHANGED wake
  \/ /\ action \in {"run", "resume"}
     /\ loop' = "turn" /\ step' = IF action = "run" THEN "open" ELSE "resume"
     /\ paced' = FALSE
     /\ UNCHANGED wake

LoopUnchanged ==
  UNCHANGED <<kind, turns, inbox, deltas, death, paused, suspending, disk, history>>

LoopStarts ==
  /\ loop = "new"
  /\ Fold(Status)
  /\ LoopUnchanged /\ UNCHANGED <<cancelling, pauseCancel>>

\* An exit cancels the loop's await; anything else wakes it.
LoopWakes ==
  /\ loop = "wait" /\ (wake \/ Exiting)
  /\ Fold(Status)
  /\ LoopUnchanged /\ UNCHANGED <<cancelling, pauseCancel>>

LoopPaced ==
  /\ loop = "pace"
  /\ Fold([Status EXCEPT !.paced = TRUE])
  /\ LoopUnchanged /\ UNCHANGED <<cancelling, pauseCancel>>

\* _run_turn_task: only a pause leaves the loop alive after a cancellation.
LoopReaps ==
  /\ loop = "turn" /\ step \in {"done", "cancelled"}
  /\ IF step = "cancelled" /\ (Exiting \/ ~pauseCancel) THEN Leave ELSE Fold(Status)
  /\ pauseCancel' = FALSE /\ cancelling' = FALSE
  /\ LoopUnchanged

------------------------------------------------------------------------------
(* The turn task.                                                          *)

At(where) == loop = "turn" /\ step = where /\ ~cancelling

\* A fault: a save is begun and not awaited.
WroteUnawaited(where) == At(where)

\* A fault: the next call starts while a result is being written.
WroteButResults(where) == At(where) /\ (Saved \/ where = "result")

\* `persist`, awaited at `where`, returned: its write landed or failed.
Wrote(where) == At(where) /\ Saved

TurnUnchanged ==
  UNCHANGED <<kind, suspending, paced, pauseCancel, loop, cancelling,
              file, abandoned, delivered>>

\* Hold `turn`, begin to write it, and wait there.
HoldAndWrite(turn, where) ==
  /\ turns' = Held(turn)
  /\ Persist(turns', inbox)
  /\ step' = where

\* Everything but the turn list stays.
OnlyTurns == UNCHANGED <<inbox, deltas, paused, wake>> /\ TurnUnchanged

\* A failed turn takes the reason as a delta line (_fail_turn).
Trouble == troubles < MaxTroubles /\ troubles' = troubles + 1 /\ UNCHANGED mishaps
Mishap(what) ==
  troubles < MaxTroubles /\ troubles' = troubles + 1 /\ mishaps' = mishaps \cup {what}
Untroubled == UNCHANGED <<troubles, mishaps>>

\* A fault: a drained message stays in the inbox.
DrainedNothing == inbox

\* What _drain_inbox leaves behind.
Drained == {}

\* _open_turn and the first stretch of _complete_turn: drain, append, write
\* the intent.  A history over its limit is dropped first.  An unreadable
\* persona fails the turn before its intent is written.
OpenTurn ==
  LET keep == IF Len(turns) >= HistoryLimit THEN <<>> ELSE turns
      turn == [phase |-> "observed", inbox |-> inbox, delta |-> deltas,
               calls |-> 0, results |-> 0, death |-> FALSE]
  IN  /\ At("open")
      /\ \/ turns' = Append(keep, turn) /\ step' = "intent" /\ Untroubled
         \/ Trouble /\ turns' = Append(keep, Noted(turn, "agent")) /\ step' = "failing"
      /\ inbox' = Drained /\ deltas' = {}
      /\ Persist(turns', inbox')
      /\ cleared' = cleared \cup UNION {turns[i].inbox : i \in DOMAIN turns \ DOMAIN keep}
      /\ UNCHANGED <<death, paused, wake, ran, reran, unarchived>>
      /\ TurnUnchanged

\* _resume_turn: the same turn continues, with one more line.
ResumeTurn ==
  /\ At("resume")
  /\ \/ HoldAndWrite(Noted(Last(turns), "agent"), "intent") /\ Untroubled
     \/ Trouble /\ HoldAndWrite(Noted(Last(turns), "agent"), "failing")
  /\ UNCHANGED <<death, cleared, ran, reran, unarchived>> /\ OnlyTurns

\* A fault: an exit recorded during the turn is not attached to it.
CommitForgetsDeath(turn) ==
  /\ HoldAndWrite([turn EXCEPT !.phase = "committed"], "commit")
  /\ unarchived' = TRUE

\* _commit, up to write 4.
Commit(turn) ==
  /\ HoldAndWrite([turn EXCEPT !.phase = "committed", !.death = death # "none"], "commit")
  /\ unarchived' = TRUE

\* The intent is written: _run_phases or _resume_phases.  An unanswered turn
\* runs on; one whose verbs may have run closes the calls that never
\* reported (close_interrupted: fewer results than calls) and commits.
Continue ==
  /\ Wrote("intent")
  /\ LET turn == Last(turns) IN
     \/ turn.phase = "observed" /\ step' = "inject" /\ UNCHANGED <<turns, saving, unarchived>>
     \/ turn.phase = "injected" /\ step' = "think" /\ UNCHANGED <<turns, saving, unarchived>>
     \/ turn.phase \in {"thought", "acted"} /\ Commit(turn)
  /\ UNCHANGED <<death, troubles, mishaps, cleared, ran, reran>> /\ OnlyTurns

Inject ==
  /\ At("inject")
  /\ turns' = Held([Last(turns) EXCEPT !.phase = "injected"])
  /\ step' = "think"
  /\ UNCHANGED <<saving, death, troubles, mishaps, cleared, ran, reran, unarchived>> /\ OnlyTurns

\* _think: the model answers with some verb calls, or the backoff ladder
\* runs out (or the failure is not retryable).
Think ==
  /\ At("think")
  /\ \/ /\ \E n \in 0..MaxCalls :
             HoldAndWrite([Last(turns) EXCEPT !.phase = "thought", !.calls = n], "answer")
        /\ Untroubled
     \/ Trouble /\ HoldAndWrite(Noted(Last(turns), "agent"), "failing")
  /\ UNCHANGED <<death, cleared, ran, reran, unarchived>> /\ OnlyTurns

\* A verb call starts: the history of what ran for these messages.
Starts(turn) ==
  LET started == {<<m, turn.results + 1>> : m \in turn.inbox}
  IN  ran' = ran \cup started /\ reran' = (reran \/ started \cap ran # {})

\* engine.act has a call of the answer left to run.
Unreported(turn) == turn.results < turn.calls

\* engine.act between two awaits: the answer, or the last result, is
\* written; the next call starts, or every call reported.  `finish` records
\* the exit and reports without awaiting; other verbs are awaited.
Act ==
  /\ Wrote("answer") \/ Wrote("result")
  /\ LET turn == Last(turns) IN
     \/ /\ Unreported(turn)
        /\ Starts(turn)
        /\ \/ step' = "verb" /\ UNCHANGED <<turns, saving, death, wake>>
           \/ /\ ~kind.root
              /\ death' = IF death = "none" THEN "finished" ELSE death
              /\ wake' = TRUE
              /\ HoldAndWrite([turn EXCEPT !.results = @ + 1], "result")
     \/ /\ ~Unreported(turn)
        /\ HoldAndWrite([turn EXCEPT !.phase = "acted"], "acted")
        /\ UNCHANGED <<ran, reran, death, wake>>
  /\ UNCHANGED <<inbox, deltas, paused, troubles, mishaps, cleared, unarchived>> /\ TurnUnchanged

\* The awaited verb returns and its result is recorded (write 3).
VerbReturns ==
  /\ At("verb")
  /\ HoldAndWrite([Last(turns) EXCEPT !.results = @ + 1], "result")
  /\ UNCHANGED <<death, troubles, mishaps, cleared, ran, reran, unarchived>> /\ OnlyTurns

FinishActing ==
  /\ Wrote("acted")
  /\ Commit(Last(turns))
  /\ UNCHANGED <<death, troubles, mishaps, cleared, ran, reran>> /\ OnlyTurns

\* The commit is written and announced; the archive is called.
Archive ==
  /\ Wrote("commit")
  /\ step' = "archive" /\ unarchived' = FALSE
  /\ UNCHANGED <<turns, saving, death, troubles, mishaps, cleared, ran, reran>> /\ OnlyTurns

ArchiveReturns ==
  /\ At("archive")
  /\ step' = "done"
  /\ UNCHANGED <<turns, saving, death, troubles, mishaps, cleared, ran, reran, unarchived>> /\ OnlyTurns

\* _fail_turn after its write: a child dies, the root parks itself.
FailTurn ==
  /\ Wrote("failing")
  /\ step' = "done" /\ wake' = TRUE
  /\ IF kind.root
     THEN paused' = TRUE /\ UNCHANGED death
     ELSE death' = (IF death = "none" THEN "failed" ELSE death) /\ UNCHANGED paused
  /\ UNCHANGED <<turns, inbox, deltas, saving, troubles, mishaps, cleared, ran, reran, unarchived>>
  /\ TurnUnchanged

Parked ==
  /\ Wrote("park")
  /\ step' = "cancelled"
  /\ UNCHANGED <<turns, saving, death, troubles, mishaps, cleared, ran, reran, unarchived>> /\ OnlyTurns

\* A fault: a line that arrives after the commit is put on the frozen turn.
RecordOnLastTurn(line) ==
  IF turns # <<>>
  THEN turns' = Held(Noted(Last(turns), line)) /\ UNCHANGED deltas
  ELSE deltas' = deltas \cup {line} /\ UNCHANGED turns

\* _record_delta: on the open turn, else on the next observation.
RecordDelta(line) ==
  IF IsOpen(turns)
  THEN turns' = Held(Noted(Last(turns), line)) /\ UNCHANGED deltas
  ELSE deltas' = deltas \cup {line} /\ UNCHANGED turns

\* The awaiting task is cancelled: its save, if it has not landed, goes on
\* in its thread.  At most one such save is in flight.
AbandonSave ==
  IF Saved
  THEN UNCHANGED <<abandoned, troubles, mishaps>>
  ELSE /\ abandoned = {} /\ abandoned' = {saving}
       /\ Mishap("abandon")

\* A fault: the turn is written before its last line is put on it.
ParkWritesFirst == RecordDelta("agent") /\ Persist(turns, inbox) /\ step' = "park"

\* _persist_paused_turn.
Park == RecordDelta("agent") /\ Persist(turns', inbox) /\ step' = "park"

\* _complete_turn's handler: only a pause parks the turn.
Parks == ~Exiting /\ pauseCancel

\* The cancellation is delivered where the turn task stands.  A task that
\* has not begun, or is in a handler, ends there.
TurnCancelled ==
  /\ loop = "turn" /\ cancelling
  /\ cancelling' = FALSE
  /\ AbandonSave
  /\ IF step \notin {"open", "resume", "failing", "park"} /\ Parks
     THEN Park
     ELSE step' = "cancelled" /\ saving' = NoSnapshot /\ UNCHANGED <<turns, deltas>>
  /\ UNCHANGED <<kind, inbox, death, paused, suspending, paced, pauseCancel, wake, loop,
                 file, delivered, cleared, ran, reran, unarchived>>

------------------------------------------------------------------------------
(* The finalizer of Agent.loop.  Waiting for background jobs and children  *)
(* to end is the time the agent spends at "dispose" and "suspend".         *)

\* Agent._dispose: the snapshot goes, the agent is gone.
Dispose ==
  /\ loop = "dispose"
  /\ file' = NoSnapshot
  /\ loop' = "gone"
  /\ UNCHANGED <<kind, memory, wake, step, cancelling, saving, abandoned, history>>

\* Agent._suspend.
Suspends ==
  /\ loop = "suspend"
  /\ Persist(turns, inbox)
  /\ loop' = "saving"
  /\ UNCHANGED <<kind, memory, wake, step, cancelling, file, abandoned, history>>

Suspended ==
  /\ loop = "saving" /\ Saved
  /\ loop' = "down"
  /\ UNCHANGED <<kind, memory, wake, step, cancelling, disk, history>>

------------------------------------------------------------------------------
(* The file: SnapshotFile without its power loss.                          *)

DiskStep == UNCHANGED <<kind, memory, tasks, delivered, cleared, ran, reran, unarchived>>

Land ==
  /\ saving # NoSnapshot
  /\ file' = saving /\ saving' = NoSnapshot
  /\ UNCHANGED <<abandoned, troubles, mishaps>> /\ DiskStep

\* `persist` logs the error and returns.
WriteFails ==
  /\ saving # NoSnapshot /\ Mishap("badWrite")
  /\ saving' = NoSnapshot
  /\ UNCHANGED <<file, abandoned>> /\ DiskStep

AbandonedEnds ==
  /\ \E s \in abandoned : file' \in {s, file}
  /\ abandoned' = {}
  /\ UNCHANGED <<saving, troubles, mishaps>> /\ DiskStep

------------------------------------------------------------------------------
(* The world.                                                              *)

Running == loop \in {"new", "wait", "pace", "turn"}

WorldUnchanged ==
  UNCHANGED <<kind, paced, loop, step, disk, cleared, ran, reran, unarchived>>

\* A fault: the loop is not woken.
DeliverSilently ==
  /\ delivered < MaxMessages
  /\ Running \/ loop = "suspend"
  /\ delivered' = delivered + 1
  /\ inbox' = inbox \cup {delivered + 1}
  /\ UNCHANGED <<turns, deltas, death, paused, suspending, pauseCancel, cancelling, wake, troubles, mishaps>>
  /\ WorldUnchanged

\* Agent.deliver.  While the agent suspends, only its children's reports
\* still arrive (app._on_input drops the user's).
Deliver ==
  /\ delivered < MaxMessages
  /\ Running \/ loop = "suspend"
  /\ delivered' = delivered + 1
  /\ inbox' = inbox \cup {delivered + 1}
  /\ wake' = TRUE
  /\ UNCHANGED <<turns, deltas, death, paused, suspending, pauseCancel, cancelling, troubles, mishaps>>
  /\ WorldUnchanged

\* A child's spawn or death is noted (note_delta); it wakes nobody.
NoteChild ==
  /\ Running /\ Trouble
  /\ deltas' = deltas \cup {"child"}
  /\ UNCHANGED <<turns, inbox, death, paused, suspending, pauseCancel, cancelling, wake,
                 delivered>>
  /\ WorldUnchanged

\* The turn task, if there is one that has not ended, is to be cancelled.
CancelTurn == cancelling' = (cancelling \/ (loop = "turn" /\ step \notin {"done", "cancelled"}))

\* Agent.pause.
Pause ==
  /\ Running \/ loop = "born"
  /\ ~paused /\ ~Exiting /\ Trouble
  /\ paused' = TRUE /\ wake' = TRUE
  /\ pauseCancel' = (loop = "turn") /\ CancelTurn
  /\ UNCHANGED <<turns, inbox, deltas, death, suspending, delivered>>
  /\ WorldUnchanged

\* A fault: a resume takes back the pause the turn has not seen yet.
ResumeClearsLatch ==
  /\ paused /\ (Running \/ loop = "born")
  /\ paused' = FALSE /\ wake' = TRUE
  /\ pauseCancel' = FALSE
  /\ UNCHANGED <<turns, inbox, deltas, death, suspending, cancelling, delivered, troubles, mishaps>>
  /\ WorldUnchanged

\* Agent.resume.
Resume ==
  /\ paused /\ (Running \/ loop = "born")
  /\ paused' = FALSE /\ wake' = TRUE
  /\ UNCHANGED <<turns, inbox, deltas, death, suspending, pauseCancel, cancelling,
                 delivered, troubles, mishaps>>
  /\ WorldUnchanged

\* Agent.request_death, by the parent: its kill verb or its own disposal.
\* Neither runs once the shutdown has reached the child.
Kill ==
  /\ Running /\ ~kind.root /\ ~Exiting
  /\ death' = "killed" /\ wake' = TRUE
  /\ CancelTurn
  /\ UNCHANGED <<turns, inbox, deltas, paused, suspending, pauseCancel, delivered, troubles, mishaps>>
  /\ WorldUnchanged

\* Agent.suspend.
Suspend ==
  /\ Running /\ ~Exiting /\ Trouble
  /\ suspending' = TRUE /\ wake' = TRUE
  /\ CancelTurn
  /\ UNCHANGED <<turns, inbox, deltas, death, paused, pauseCancel, delivered>>
  /\ WorldUnchanged

\* spawn_child: the parent awaited the birth snapshot, or was cancelled.
SpawnReturns ==
  /\ loop = "born"
  /\ loop' = "new" /\ saving' = NoSnapshot /\ AbandonSave
  /\ UNCHANGED <<kind, memory, wake, step, cancelling, file,
                 delivered, cleared, ran, reran, unarchived>>

\* The process dies and its memory and threads with it.
Crash ==
  /\ loop \notin {"down", "crashed", "gone"} /\ Mishap("crash")
  /\ loop' = "crashed" /\ step' = "none" /\ cancelling' = FALSE /\ wake' = FALSE
  /\ turns' = <<>> /\ inbox' = {} /\ deltas' = {} /\ death' = "none"
  /\ paused' = FALSE /\ suspending' = FALSE /\ pauseCancel' = FALSE /\ paced' = TRUE
  /\ saving' = NoSnapshot /\ abandoned' = {}
  /\ unarchived' = FALSE
  /\ UNCHANGED <<kind, file, delivered, cleared, ran, reran>>

------------------------------------------------------------------------------
(* The next boot: boot.restore of this agent, whose parent is restored.    *)

\* A fault: any open turn is dropped, though its verbs may have run.
UnobservedIfOpen(ts) == IsOpen(ts)

\* InFlight.unobserved.
Unobserved(ts) == IsOpen(ts) /\ Last(ts).phase = "observed"

\* A fault: the inbox no turn had observed is not delivered again.
RedeliveredInFlight(snapshot) ==
  IF Unobserved(snapshot.turns) THEN Last(snapshot.turns).inbox ELSE {}

\* What _restore_turns delivers.
Redelivered(snapshot) ==
  snapshot.pending \cup (IF Unobserved(snapshot.turns) THEN Last(snapshot.turns).inbox ELSE {})

Fresh ==
  /\ deltas' = {} /\ death' = "none" /\ paused' = FALSE /\ suspending' = FALSE
  /\ pauseCancel' = FALSE /\ paced' = TRUE
  /\ step' = "none" /\ cancelling' = FALSE /\ wake' = (inbox' # {})

Died(snapshot) == \E i \in DOMAIN snapshot.turns : snapshot.turns[i].death

\* A graceful exit joined the threads (asyncio.run), so nothing is in flight.
Booting == loop \in {"down", "crashed"} /\ abandoned = {}

\* A snapshot with a death record is discarded; without a snapshot a root
\* starts anew and a child does not exist.
BootDiscards ==
  /\ Booting /\ (file # NoSnapshot => Died(file))
  /\ file' = NoSnapshot
  /\ loop' = IF kind.root THEN "new" ELSE "gone"
  /\ turns' = <<>> /\ inbox' = {}
  /\ Fresh
  /\ UNCHANGED <<kind, saving, abandoned, history>>

BootRestores ==
  /\ Booting /\ file # NoSnapshot /\ ~Died(file)
  /\ turns' = IF Unobserved(file.turns) THEN Front(file.turns) ELSE file.turns
  /\ inbox' = Redelivered(file)
  /\ Persist(turns', inbox')
  /\ loop' = "boot"
  /\ Fresh
  /\ UNCHANGED <<kind, file, abandoned, history>>

Booted ==
  /\ loop = "boot" /\ Saved
  /\ loop' = "new"
  /\ UNCHANGED <<kind, memory, wake, step, cancelling, disk, history>>

------------------------------------------------------------------------------
\* A root boots with nothing; a child is born with its task in the inbox and
\* its birth snapshot being written (spawn_child).
Init ==
  /\ kind \in Kinds
  /\ turns = <<>> /\ deltas = {}
  /\ death = "none" /\ paused = FALSE /\ suspending = FALSE
  /\ paced = TRUE /\ pauseCancel = FALSE
  /\ wake = ~kind.root
  /\ step = "none" /\ cancelling = FALSE
  /\ file = NoSnapshot /\ abandoned = {}
  /\ inbox = (IF kind.root THEN {} ELSE {1}) /\ delivered = (IF kind.root THEN 0 ELSE 1)
  /\ loop = (IF kind.root THEN "new" ELSE "born")
  /\ saving = (IF kind.root THEN NoSnapshot ELSE [turns |-> <<>>, pending |-> {1}])
  /\ troubles = 0 /\ mishaps = {}
  /\ cleared = {} /\ ran = {} /\ reran = FALSE /\ unarchived = FALSE

LoopStep == LoopStarts \/ LoopWakes \/ LoopPaced \/ LoopReaps

TurnStep ==
  \/ OpenTurn \/ ResumeTurn \/ Continue \/ Inject \/ Think \/ Act \/ VerbReturns
  \/ FinishActing \/ Archive \/ ArchiveReturns \/ FailTurn \/ Parked \/ TurnCancelled

ExitStep == Dispose \/ Suspends \/ Suspended

BootStep == BootDiscards \/ BootRestores \/ Booted

World ==
  \/ Deliver \/ NoteChild \/ Pause \/ Resume \/ Kill \/ Suspend \/ Crash

Next ==
  \/ LoopStep \/ TurnStep \/ ExitStep \/ BootStep \/ SpawnReturns
  \/ Land \/ WriteFails \/ AbandonedEnds
  \/ World

Spec == Init /\ [][Next]_vars

\* A verb runs and is not being cancelled.
InVerb == At("verb")

\* The event loop runs every ready task, a thread ends its write, a model call
\* returns (the provider has time limits).  A verb need not return: the shell
\* awaits the exit of its command without a limit (shell.py:168).
Fairness ==
  /\ WF_vars(LoopStep) /\ WF_vars(TurnStep /\ ~InVerb) /\ WF_vars(ExitStep)
  /\ WF_vars(SpawnReturns) /\ WF_vars(Booted) /\ WF_vars(Land)

FairSpec == Spec /\ Fairness

------------------------------------------------------------------------------
(* Properties.                                                             *)

TypeOK ==
  /\ kind \in Kinds
  /\ turns \in Seq(Turns) /\ inbox \subseteq Messages /\ deltas \subseteq Lines
  /\ death \in {"none", "killed", "failed", "finished"}
  /\ paused \in BOOLEAN /\ suspending \in BOOLEAN /\ paced \in BOOLEAN
  /\ pauseCancel \in BOOLEAN /\ wake \in BOOLEAN /\ cancelling \in BOOLEAN
  /\ loop \in {"born", "new", "wait", "pace", "turn", "dispose", "gone",
               "suspend", "saving", "down", "crashed", "boot"}
  /\ step \in {"none", "open", "resume", "intent", "inject", "think", "answer", "verb",
               "result", "acted", "commit", "archive", "failing", "park", "done", "cancelled"}
  /\ file \in Snapshots \cup {NoSnapshot}
  /\ saving \in Snapshots \cup {NoSnapshot}
  /\ abandoned \subseteq Snapshots
  /\ delivered \in 0..MaxMessages
  /\ troubles \in 0..MaxTroubles /\ mishaps \subseteq {"crash", "badWrite", "abandon"}
  /\ cleared \subseteq Messages /\ ran \subseteq Messages \X (1..MaxCalls)
  /\ reran \in BOOLEAN /\ unarchived \in BOOLEAN

Seen(ts) == UNION {ts[i].inbox : i \in DOMAIN ts}

\* Every message is observed by one turn or waits in the inbox, and turns
\* observe messages in the order they arrived, across parks and restores
\* (architecture.md invariant 14, "a drain cannot interleave").
ArrivalOrder ==
  /\ \A i, j \in DOMAIN turns : i < j =>
       \A m \in turns[i].inbox, n \in turns[j].inbox : m < n
  /\ \A m \in Seen(turns), n \in inbox : m < n

\* "Graceful stop: never lost: turns, inbox" (architecture.md:556): with no
\* crash, no failed write and no abandoned save, every message delivered is
\* in the inbox or on a turn, whatever was paused, stopped and restored.
NothingLost ==
  /\ loop \notin {"down", "gone"}
  /\ mishaps = {}
  => 1..delivered \subseteq cleared \cup Seen(turns) \cup inbox

\* The file never forgets: a message it holds stays in it, and a committed
\* turn stays committed, until the agent dies or the context is cleared.
Committed(ts) == UNION {ts[i].inbox : i \in {j \in DOMAIN ts : ts[j].phase = "committed"}}

FileNeverForgets ==
  [][file # NoSnapshot /\ file' # NoSnapshot /\ "abandon" \notin mishaps' =>
       /\ Seen(file.turns) \cup file.pending
            \subseteq cleared' \cup Seen(file'.turns) \cup file'.pending
       /\ Committed(file.turns) \subseteq cleared' \cup Committed(file'.turns)]_vars

\* "Verbs are at-most-once" (architecture.md:126): no call answering a
\* message starts twice, across pauses, crashes and restores, unless a write
\* failed or was abandoned.
AtMostOnce == mishaps \subseteq {"crash"} => ~reran

\* The same whatever was cancelled: a pause that catches a turn in a write
\* leaves that write running, and it may land after the turn's later ones.
VerbsRunOnce == "badWrite" \notin mishaps => ~reran

\* "Every result is recorded before the next call starts" (engine.py:128):
\* while a verb runs, the file holds the turn as it stands, every earlier
\* result included.
RecordedBeforeNextCall ==
  step = "verb" /\ mishaps \subseteq {"crash"} =>
    file # NoSnapshot /\ file.turns = turns

\* "Pause loses nothing (the parked turn is persisted)": an agent that waits
\* with an open turn has that turn on disk.
ParkedTurnIsWritten ==
  loop = "wait" /\ IsOpen(turns) /\ mishaps \subseteq {"crash"} =>
    file # NoSnapshot /\ file.turns = turns

\* A loop that waits, unwoken, has nothing to do: no delivery, resume, pause
\* or exit slips between the fold and the wait (core.py:486).
NoLostWakeup ==
  loop = "wait" /\ ~wake => Transition(Status, kind.interval) = "wait"

\* Only an exit ends the loop; a pause, even one taken back before the turn
\* sees it, never does (core.py:518).
OnlyExitEndsLoop ==
  /\ loop \in {"suspend", "saving", "down"} => suspending
  /\ loop = "dispose" => death # "none"

\* "phase ... is monotone" and "a committed turn is frozen": while the agent
\* lives, a turn is changed only as the last one and while open, and then
\* its phase and its recorded results only grow.
Rank(phase) == CHOOSE i \in DOMAIN Phases : Phases[i] = phase

TurnsOnlyGrow ==
  [][Running /\ loop' # "crashed" /\ step # "open" =>
       /\ Len(turns') = Len(turns)
       /\ \A i \in DOMAIN turns :
            \/ turns'[i] = turns[i]
            \/ /\ i = Len(turns) /\ turns[i].phase # "committed"
               /\ Rank(turns[i].phase) <= Rank(turns'[i].phase)
               /\ turns[i].results <= turns'[i].results]_vars

\* A frozen agent starts nothing: no turn, model call or verb begins between
\* a pause and its resume; the turn can only park, or end as cancelled.
PausedStandsStill ==
  [][paused /\ paused' => step' \in {step, "park", "cancelled", "none"}]_vars

\* "A finished turn is archived with its death record" (protocol.md:198):
\* once a report is on record nothing cuts the finishing turn short.
FinishIsArchived ==
  loop \in {"dispose", "gone"} /\ death = "finished" =>
    turns # <<>> /\ Last(turns).phase = "committed" /\ Last(turns).death /\ ~unarchived

\* "The archive sees every turn that committed, in the order it committed"
\* (core.py:785): a committed turn was handed to the archive before the next
\* turn opens.
ArchiveSeesEveryCommit == unarchived => ~IsOpen(turns)

\* An exit on record, whoever recorded it and wherever the turn stands, ends
\* in the disposal of the agent; a shutdown ends in its last save.  Excepted is
\* a verb that never returns after `finish` in the same answer, which cancels
\* nothing.
ExitsEnd ==
  /\ death # "none" ~> loop \in {"gone", "crashed"} \/ (death = "finished" /\ []InVerb)
  /\ suspending ~> loop \in {"down", "crashed"}

\* A message delivered is observed by a turn, unless the agent is frozen or
\* leaves first, or a verb never returns.
InputIsObserved ==
  \A m \in Messages : m \in inbox ~> m \notin inbox \/ paused \/ Exiting \/ []InVerb

\* The agent uses its file as SnapshotFile allows, no more: it awaits one
\* write at a time, and removes the file only when it awaits none.
File == INSTANCE SnapshotFile WITH settled <- file

ImplementsFile == File!Spec
==============================================================================
