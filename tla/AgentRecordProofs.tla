-------------------------- MODULE AgentRecordProofs --------------------------
(***************************************************************************)
(* What an agent has been told and has done survives: proofs about the     *)
(* contents of Agent's turns, inbox and file over time, across pauses,     *)
(* stops, crashes and restores, for every number of messages, calls and    *)
(* troubles.                                                               *)
(***************************************************************************)
EXTENDS AgentProofs

(* The memory as a snapshot would hold it, and every snapshot that a later *)
(* boot may find.                                                          *)

Now == [turns |-> turns, pending |-> inbox]
Kept == ({Now, file, saving} \cup abandoned) \ {NoSnapshot}

\* Where the turn task stands says how far its turn is.
PhaseInv ==
  /\ step = "open" => ~IsOpen(turns)
  /\ step \in {"resume", "intent", "failing"} => IsOpen(turns)
  /\ step = "inject" => Last(turns).phase = "observed"
  /\ step = "think" => Last(turns).phase = "injected"
  /\ step \in {"answer", "verb", "result"} => Last(turns).phase = "thought"
  /\ step = "acted" => Last(turns).phase = "acted"
  /\ step \in {"commit", "archive"} => Last(turns).phase = "committed"

\* There is a turn task only while the loop awaits it.
TaskInv == step # "none" => loop = "turn"

\* What the other invariants of Agent say of it, and these two.
BaseInv == TypeInv /\ ExitInv /\ DiskInv /\ TaskInv /\ PhaseInv

\* ArrivalOrder of a snapshot, of n messages delivered.
InOrder(s, n) ==
  /\ \A i, j \in DOMAIN s.turns : i < j =>
       \A m \in s.turns[i].inbox, later \in s.turns[j].inbox : m < later
  /\ \A m \in Seen(s.turns), later \in s.pending : m < later
  /\ Seen(s.turns) \cup s.pending \subseteq 1..n

OrderInv == \A s \in Kept : InOrder(s, delivered)

\* A root never dies.
RootInv == kind.root => death = "none" /\ \A s \in Kept : ~Died(s)

\* A graceful stop leaves the memory on file.
LossInv ==
  mishaps = {} =>
    /\ abandoned = {} /\ loop # "crashed"
    /\ loop # "gone" => 1..delivered \subseteq cleared \cup Seen(turns) \cup inbox
    /\ loop = "saving" => saving = Now \/ (saving = NoSnapshot /\ file = Now)
    /\ loop = "down" => file = Now

\* The newest write that was begun is of the turns as they are.
OnFile ==
  \/ saving # NoSnapshot /\ saving.turns = turns
  \/ saving = NoSnapshot /\ file # NoSnapshot /\ file.turns = turns

Faultless == mishaps \subseteq {"crash"}

WrittenInv ==
  Faultless =>
    /\ abandoned = {}
    /\ step \in {"intent", "inject", "answer", "verb", "result", "acted", "commit", "archive",
                 "failing", "park"} => OnFile
    /\ IsOpen(turns) =>
         /\ loop \in {"born", "new", "wait", "pace", "boot"} => OnFile
         /\ step \in {"resume", "done"} => OnFile
         /\ step = "cancelled" /\ ~Exiting => OnFile

\* The messages that no model answer is on record for.
Unanswered(s) ==
  s.pending \cup
  UNION {s.turns[i].inbox : i \in {j \in DOMAIN s.turns : s.turns[j].phase \in {"observed", "injected"}}}

\* No call was started for them; and of the answer that is being run, no call
\* was started but those that reported, and the one that runs.
RanInv ==
  /\ \A p \in ran : p[1] <= delivered
  /\ Faultless =>
       /\ ~reran
       /\ \A s \in Kept : \A p \in ran : p[1] \notin Unanswered(s)
       /\ step \in {"answer", "verb", "result"} =>
            \A p \in ran : p[1] \in Last(turns).inbox =>
              p[2] <= Last(turns).results + (IF step = "verb" THEN 1 ELSE 0)

\* What s holds, t holds, but for what a context clear dropped.
Covers(t, s) ==
  /\ Seen(s.turns) \cup s.pending \subseteq cleared \cup Seen(t.turns) \cup t.pending
  /\ Committed(s.turns) \subseteq cleared \cup Committed(t.turns)

CoverInv ==
  "abandon" \notin mishaps =>
    /\ abandoned = {}
    /\ file # NoSnapshot /\ saving # NoSnapshot => Covers(saving, file)
    /\ loop # "crashed" =>
         \A s \in Kept : Covers(Now, s)

\* A report on record is never cut short.
FinishInv ==
  death = "finished" =>
    /\ loop \in {"turn", "dispose", "gone"} /\ ~cancelling
    /\ loop = "turn" => step \in {"verb", "result", "acted", "commit", "archive", "done"}
    /\ loop # "turn" \/ step \in {"commit", "archive", "done"} =>
         turns # <<>> /\ Last(turns).phase = "committed" /\ Last(turns).death
    /\ loop # "turn" \/ step \in {"archive", "done"} => ~unarchived

------------------------------------------------------------------------------
(* One step of the loop, and the helpers.                                  *)

\* The loop's fold changes no content, opens a turn only when none is open and
\* resumes one only when one is; an exit leaves it.
LEMMA FoldStep ==
  ASSUME LoopStep
  PROVE  /\ UNCHANGED <<kind, turns, inbox, deltas, death, paused, suspending, disk, history>>
         /\ \/ loop' \in {"dispose", "suspend"} /\ step' = "none"
            \/ loop' \in {"wait", "pace"} /\ step' = "none" /\ ~Exiting
            \/ loop' = "turn" /\ step' = "open" /\ ~IsOpen(turns) /\ ~Exiting
            \/ loop' = "turn" /\ step' = "resume" /\ IsOpen(turns) /\ ~Exiting
         /\ loop' = "suspend" => death = "none"
         /\ loop' \in {"wait", "pace", "turn"} /\ step = "cancelled" /\ loop = "turn" => ~Exiting
<1> DEFINE Paced == [Status EXCEPT !.paced = TRUE]
<1>1. /\ Status.death <=> death # "none"
      /\ Status.suspend <=> suspending
      /\ Status.openTurn <=> IsOpen(turns)
      /\ Paced.death <=> death # "none"
      /\ Paced.suspend <=> suspending
      /\ Paced.openTurn <=> IsOpen(turns)
  BY Zenon DEF Status
<1>2. UNCHANGED <<kind, turns, inbox, deltas, death, paused, suspending, disk, history>>
  BY DEF LoopStep, LoopStarts, LoopWakes, LoopPaced, LoopReaps, LoopUnchanged
<1>3. Leave \/ Fold(Status) \/ Fold(Paced)
  BY DEF LoopStep, LoopStarts, LoopWakes, LoopPaced, LoopReaps
<1>4. ASSUME NEW status, Fold(status), status.death <=> death # "none",
             status.suspend <=> suspending, status.openTurn <=> IsOpen(turns)
      PROVE  \/ Leave
             \/ loop' \in {"wait", "pace"} /\ step' = "none" /\ ~Exiting
             \/ loop' = "turn" /\ step' = "open" /\ ~IsOpen(turns) /\ ~Exiting
             \/ loop' = "turn" /\ step' = "resume" /\ IsOpen(turns) /\ ~Exiting
  <2>1. PICK action : action = Transition(status, kind.interval)
    OBVIOUS
  <2>2. /\ action # "stop" => ~Exiting
        /\ action = "run" => ~IsOpen(turns)
        /\ action = "resume" => IsOpen(turns)
    BY <1>4, <2>1 DEF Transition, Exiting
  <2> QED
    BY <1>4, <2>1, <2>2 DEF Fold
<1> HIDE DEF Paced
<1> QED
  BY <1>1, <1>2, <1>3, <1>4 DEF Leave, Exiting

LEMMA HeldParts ==
  ASSUME TypeInv, turns # <<>>, NEW turn \in Turns
  PROVE  /\ Held(turn) \in Seq(Turns) /\ Held(turn) # <<>> /\ Last(Held(turn)) = turn
         /\ Len(Held(turn)) = Len(turns) /\ DOMAIN Held(turn) = DOMAIN turns
         /\ Len(turns) \in DOMAIN turns /\ turns[Len(turns)] = Last(turns)
         /\ Held(turn)[Len(turns)] = turn
         /\ \A i \in DOMAIN turns : i # Len(turns) => Held(turn)[i] = turns[i]
BY DEF TypeInv, TypeOK, Held, Last

\* A recorded line changes the open turn's lines and nothing else.
LEMMA RecordParts ==
  ASSUME TypeInv, RecordDelta("agent")
  PROVE  \/ IsOpen(turns) /\ turns' = Held(Noted(Last(turns), "agent"))
         \/ ~IsOpen(turns) /\ turns' = turns
BY DEF RecordDelta

\* A turn with one more line is the same turn.
LEMMA NotedParts ==
  ASSUME NEW turn \in Turns
  PROVE  /\ Noted(turn, "agent") \in Turns
         /\ Noted(turn, "agent").phase = turn.phase /\ Noted(turn, "agent").inbox = turn.inbox
         /\ Noted(turn, "agent").results = turn.results /\ Noted(turn, "agent").death = turn.death
         /\ Noted(turn, "agent").calls = turn.calls
<1>1. "agent" \in Lines
  BY DEF Lines
<1> QED
  BY <1>1, TurnNoted DEF Noted, Turns

------------------------------------------------------------------------------
(* How far the turn is, by where the turn task stands.                     *)

LEMMA HoldStep ==
  ASSUME TypeInv, turns # <<>>, NEW turn \in Turns, NEW where, HoldAndWrite(turn, where)
  PROVE  /\ turns' = Held(turn) /\ turns' # <<>> /\ Last(turns') = turn
         /\ step' = where /\ saving' = [turns |-> turns', pending |-> inbox]
         /\ IsOpen(turns') <=> turn.phase # "committed"
BY HeldParts DEF HoldAndWrite, Persist, IsOpen

LEMMA PhaseTurn == TypeInv /\ PhaseInv /\ TurnStep => PhaseInv'
<1> SUFFICES ASSUME TypeInv, PhaseInv, TurnStep PROVE PhaseInv'
  OBVIOUS
<1> DEFINE last == Last(turns)
<1>0. turns # <<>> => last \in Turns
  BY LastTurn DEF TypeInv, TypeOK
<1>1. CASE OpenTurn
  <2>1. PICK keep, turn :
          /\ keep \in {<<>>, turns} /\ turn.phase = "observed"
          /\ turns' = Append(keep, turn) /\ step' \in {"intent", "failing"}
    BY <1>1 DEF OpenTurn, Noted
  <2>2. turns' # <<>> /\ Last(turns') = turn
    BY <2>1 DEF Last, TypeInv, TypeOK
  <2> QED
    BY <2>1, <2>2 DEF PhaseInv, IsOpen
<1>2. CASE ResumeTurn
  <2>1. turns # <<>> /\ last.phase # "committed"
    BY <1>2 DEF ResumeTurn, At, PhaseInv, IsOpen
  <2>2. /\ HoldAndWrite(Noted(last, "agent"), step') /\ step' \in {"intent", "failing"}
    BY <1>2 DEF ResumeTurn, HoldAndWrite
  <2> QED
    BY <1>0, <2>1, <2>2, NotedParts, HoldStep DEF PhaseInv
<1>3. ASSUME turns # <<>>, Commit(last)
      PROVE  PhaseInv'
  <2>1. PICK turn \in Turns : turn.phase = "committed" /\ HoldAndWrite(turn, "commit")
    <3> DEFINE turn == [last EXCEPT !.phase = "committed", !.death = death # "none"]
    <3>1. turn \in Turns /\ turn.phase = "committed"
      BY <1>0, <1>3, PhaseSet DEF Turns
    <3> QED
      BY <1>3, <3>1 DEF Commit
  <2> QED
    BY <1>3, <2>1, HoldStep DEF PhaseInv
<1>4. CASE Continue
  <2>1. turns # <<>> /\ IsOpen(turns)
    BY <1>4 DEF Continue, Wrote, At, PhaseInv, IsOpen
  <2>2. CASE Commit(last)
    BY <1>3, <2>1, <2>2
  <2>3. CASE ~Commit(last)
    BY <1>4, <2>1, <2>3 DEF Continue, PhaseInv
  <2> QED
    BY <2>2, <2>3
<1>5. CASE Inject
  <2>1. turns # <<>> /\ turns' = Held([last EXCEPT !.phase = "injected"]) /\ step' = "think"
    BY <1>5 DEF Inject, At, TypeInv, TurnStands
  <2>2. [last EXCEPT !.phase = "injected"] \in Turns
        /\ [last EXCEPT !.phase = "injected"].phase = "injected"
    BY <1>0, <2>1, PhaseSet DEF Turns
  <2> QED
    BY <2>1, <2>2, HeldParts DEF PhaseInv
<1>6. CASE Think
  <2>1. turns # <<>> /\ last.phase = "injected"
    BY <1>6 DEF Think, At, TypeInv, TurnStands, PhaseInv
  <2>2. CASE \E n \in 0..MaxCalls :
               HoldAndWrite([last EXCEPT !.phase = "thought", !.calls = n], "answer")
    <3>1. PICK n \in 0..MaxCalls :
            HoldAndWrite([last EXCEPT !.phase = "thought", !.calls = n], "answer")
      BY <2>2
    <3>2. PICK turn : turn = [last EXCEPT !.phase = "thought", !.calls = n]
      OBVIOUS
    <3>3. turn \in Turns /\ turn.phase = "thought"
      BY <1>0, <2>1, <3>2, PhaseSet DEF Turns
    <3>4. HoldAndWrite(turn, "answer")
      BY <3>1, <3>2
    <3> QED
      BY <2>1, <3>3, <3>4, HoldStep DEF PhaseInv
  <2>3. CASE HoldAndWrite(Noted(last, "agent"), "failing")
    BY <1>0, <2>1, <2>3, NotedParts, HoldStep DEF PhaseInv
  <2> QED
    BY <1>6, <2>2, <2>3 DEF Think
<1>7. ASSUME turns # <<>>, last.phase = "thought", last.results < last.calls,
             HoldAndWrite([last EXCEPT !.results = @ + 1], "result")
      PROVE  PhaseInv'
  <2>1. PICK turn : turn = [last EXCEPT !.results = @ + 1]
    OBVIOUS
  <2>2. turn \in Turns /\ turn.phase = "thought"
    BY <1>0, <1>7, <2>1, TurnReported DEF Turns
  <2>3. HoldAndWrite(turn, "result")
    BY <1>7, <2>1
  <2> QED
    BY <1>7, <2>2, <2>3, HoldStep DEF PhaseInv
<1>8. CASE Act
  <2>1. turns # <<>> /\ last.phase = "thought"
    BY <1>8 DEF Act, Wrote, At, TypeInv, TurnStands, PhaseInv
  <2>2. CASE step' = "verb" /\ UNCHANGED turns
    BY <2>1, <2>2 DEF PhaseInv
  <2>3. CASE Unreported(last) /\ HoldAndWrite([last EXCEPT !.results = @ + 1], "result")
    BY <1>7, <2>1, <2>3 DEF Unreported
  <2>4. CASE HoldAndWrite([last EXCEPT !.phase = "acted"], "acted")
    <3>1. [last EXCEPT !.phase = "acted"] \in Turns /\ [last EXCEPT !.phase = "acted"].phase = "acted"
      BY <1>0, <2>1, PhaseSet DEF Turns
    <3> QED
      BY <2>1, <2>4, <3>1, HoldStep DEF PhaseInv
  <2> QED
    BY <1>8, <2>2, <2>3, <2>4 DEF Act
<1>9. CASE VerbReturns
  BY <1>7, <1>9 DEF VerbReturns, At, TypeInv, TurnStands, PhaseInv
<1>10. CASE FinishActing
  BY <1>3, <1>10 DEF FinishActing, Wrote, At, TypeInv, TurnStands
<1>11. CASE Archive \/ ArchiveReturns \/ FailTurn \/ Parked
  BY <1>11 DEF Archive, ArchiveReturns, FailTurn, Parked, Wrote, At, OnlyTurns, PhaseInv
<1>12. CASE TurnCancelled
  BY <1>12 DEF TurnCancelled, Park, PhaseInv
<1> QED
  BY <1>1, <1>2, <1>4, <1>5, <1>6, <1>8, <1>9, <1>10, <1>11, <1>12 DEF TurnStep

LEMMA PhaseStep == TypeInv /\ PhaseInv /\ [Next]_vars => PhaseInv'
<1> SUFFICES ASSUME TypeInv, PhaseInv, [Next]_vars PROVE PhaseInv'
  OBVIOUS
<1>1. CASE TurnStep
  BY <1>1, PhaseTurn
<1>2. CASE LoopStep
  BY <1>2, FoldStep DEF PhaseInv
<1>3. CASE Crash \/ BootStep
  <2>1. CASE Booted
    BY <2>1 DEF Booted, memory, PhaseInv
  <2>2. CASE ~Booted
    BY <1>3, <2>2 DEF Crash, BootStep, BootDiscards, BootRestores, Fresh, PhaseInv
  <2> QED
    BY <2>1, <2>2
<1>4. CASE Deliver \/ NoteChild \/ Pause \/ Resume \/ Kill \/ Suspend
  BY <1>4 DEF Deliver, NoteChild, Pause, Resume, Kill, Suspend, WorldUnchanged, PhaseInv
<1>5. CASE ExitStep \/ SpawnReturns
  BY <1>5 DEF ExitStep, Dispose, Suspends, Suspended, SpawnReturns, memory, PhaseInv
<1>6. CASE Land \/ WriteFails \/ AbandonedEnds \/ UNCHANGED vars
  BY <1>6 DEF Land, WriteFails, AbandonedEnds, DiskStep, memory, tasks, vars, PhaseInv
<1> QED
  BY <1>1, <1>2, <1>3, <1>4, <1>5, <1>6 DEF Next, World

------------------------------------------------------------------------------
(* What a step does to the memory, and to what a boot may find.            *)

\* The last turn goes on, or takes a line: it is still of the same messages.
Advances ==
  \E turn \in Turns :
    /\ IsOpen(turns) /\ turns' = Held(turn)
    /\ turn.inbox = Last(turns).inbox
    /\ Rank(Last(turns).phase) <= Rank(turn.phase) /\ Last(turns).results <= turn.results
    /\ turn.death => Last(turns).death \/ death # "none"
    /\ UNCHANGED <<inbox, delivered, cleared>>

\* A turn observes the inbox; the turns before it are kept, or cleared.
Opens ==
  \E turn \in Turns, keep \in {<<>>, turns} :
    /\ step = "open" /\ turns' = Append(keep, turn) /\ inbox' = {}
    /\ turn.inbox = inbox /\ turn.phase = "observed" /\ ~turn.death
    /\ cleared \subseteq cleared' /\ (keep # turns => Seen(turns) \subseteq cleared')
    /\ UNCHANGED delivered

Arrives ==
  /\ inbox' = inbox \cup {delivered + 1} /\ delivered' = delivered + 1
  /\ UNCHANGED <<turns, cleared>>

Forgets ==
  /\ Crash \/ BootDiscards
  /\ turns' = <<>> /\ inbox' = {} /\ UNCHANGED <<delivered, cleared>>

Rests == UNCHANGED <<turns, inbox, delivered, cleared>>

LEMMA Ranks ==
  /\ Rank("observed") = 1 /\ Rank("injected") = 2 /\ Rank("thought") = 3
  /\ Rank("acted") = 4 /\ Rank("committed") = 5
<1>1. DOMAIN Phases = 1..5
  BY DEF Phases
<1>2. /\ Phases[1] = "observed" /\ Phases[2] = "injected" /\ Phases[3] = "thought"
      /\ Phases[4] = "acted" /\ Phases[5] = "committed"
  BY DEF Phases
<1>3. \A i \in 1..5 : i = 1 \/ i = 2 \/ i = 3 \/ i = 4 \/ i = 5
  OBVIOUS
<1>4. ASSUME NEW k \in 1..5 PROVE Rank(Phases[k]) = k
  <2>1. \A i \in 1..5 : Phases[i] = Phases[k] => i = k
    BY <1>2, <1>3
  <2> QED
    BY <1>1, <2>1 DEF Rank
<1> QED
  BY <1>2, <1>4

\* Holding a turn of the same messages that is further on.
LEMMA HoldAdvances ==
  ASSUME TypeInv, IsOpen(turns), NEW turn \in Turns, turns' = Held(turn),
         turn.inbox = Last(turns).inbox,
         Rank(Last(turns).phase) <= Rank(turn.phase), Last(turns).results <= turn.results,
         turn.death => Last(turns).death \/ death # "none",
         UNCHANGED <<inbox, delivered, cleared>>
  PROVE  Advances
BY DEF Advances

LEMMA TurnNow == TypeInv /\ PhaseInv /\ TurnStep => Rests \/ Advances \/ Opens
<1> SUFFICES ASSUME TypeInv, PhaseInv, TurnStep PROVE Rests \/ Advances \/ Opens
  OBVIOUS
<1> DEFINE last == Last(turns)
<1>0. turns # <<>> => last \in Turns /\ last.results \in Nat /\ Rank(last.phase) \in Nat
  <2>1. turns # <<>> => last \in Turns
    BY LastTurn DEF TypeInv, TypeOK
  <2>2. \A t \in Turns : t.results \in Nat /\ Rank(t.phase) \in Nat
    BY PhaseSet, Ranks, LimitsAssumption DEF Turns
  <2> QED
    BY <2>1, <2>2
<1>1. CASE OpenTurn
  <2> DEFINE keep == IF Len(turns) >= HistoryLimit THEN <<>> ELSE turns
  <2>1. PICK turn : turn = [phase |-> "observed", inbox |-> inbox, delta |-> deltas,
                            calls |-> 0, results |-> 0, death |-> FALSE]
    OBVIOUS
  <2>2. turn \in Turns /\ turn.inbox = inbox /\ turn.phase = "observed" /\ ~turn.death
    BY <2>1, PhaseSet, LimitsAssumption DEF TypeInv, TypeOK, Turns
  <2>a. turns' = Append(keep, turn) \/ turns' = Append(keep, Noted(turn, "agent"))
    BY <1>1, <2>1 DEF OpenTurn
  <2>3. PICK t \in Turns : /\ turns' = Append(keep, t)
                          /\ t.inbox = inbox /\ t.phase = "observed" /\ ~t.death
    BY <2>2, <2>a, NotedParts
  <2>4. keep \in {<<>>, turns}
    OBVIOUS
  <2>5. /\ inbox' = {} /\ step = "open" /\ UNCHANGED delivered
        /\ cleared' = cleared \cup UNION {turns[i].inbox : i \in DOMAIN turns \ DOMAIN keep}
    BY <1>1 DEF OpenTurn, At, Drained, TurnUnchanged
  <2>6. keep # turns => Seen(turns) \subseteq cleared'
    <3> SUFFICES ASSUME keep = <<>>, keep # turns PROVE Seen(turns) \subseteq cleared'
      BY <2>4
    <3>1. DOMAIN turns \ DOMAIN keep = DOMAIN turns
      <4>1. DOMAIN keep = {}
        <5> HIDE DEF keep
        <5> QED
          OBVIOUS
      <4> QED
        BY <4>1
    <3> HIDE DEF keep
    <3> QED
      BY <2>5, <3>1 DEF Seen
  <2> HIDE DEF keep
  <2> QED
    BY <2>3, <2>4, <2>5, <2>6 DEF Opens
<1>2. CASE ResumeTurn
  <2>1. IsOpen(turns) /\ turns # <<>>
    BY <1>2 DEF ResumeTurn, At, PhaseInv, IsOpen
  <2>2. turns' = Held(Noted(last, "agent")) /\ UNCHANGED <<inbox, delivered, cleared>>
    BY <1>2 DEF ResumeTurn, HoldAndWrite, OnlyTurns, TurnUnchanged
  <2> QED
    BY <1>0, <2>1, <2>2, NotedParts, HoldAdvances
<1>3. ASSUME IsOpen(turns), Commit(last), UNCHANGED <<inbox, delivered, cleared>>
      PROVE  Advances
  <2>1. PICK turn : turn = [last EXCEPT !.phase = "committed", !.death = death # "none"]
    OBVIOUS
  <2>2. /\ turn \in Turns /\ turn.phase = "committed" /\ turn.inbox = last.inbox
        /\ turn.results = last.results /\ (turn.death => death # "none")
    BY <1>0, <1>3, <2>1, PhaseSet DEF Turns, IsOpen
  <2>3. turns' = Held(turn) /\ IsOpen(turns) /\ UNCHANGED <<inbox, delivered, cleared>>
    BY <1>3, <2>1 DEF Commit, HoldAndWrite
  <2>4. Rank(last.phase) <= Rank(turn.phase)
    BY <1>0, <1>3, <2>2, PhaseSet, Ranks DEF Turns, IsOpen
  <2> QED
    BY <1>0, <2>2, <2>3, <2>4, HoldAdvances DEF IsOpen
<1>4. CASE Continue
  <2>1. IsOpen(turns) /\ UNCHANGED <<inbox, delivered, cleared>>
    BY <1>4 DEF Continue, Wrote, At, PhaseInv, OnlyTurns, TurnUnchanged
  <2>2. Commit(last) \/ UNCHANGED turns
    BY <1>4 DEF Continue
  <2> QED
    BY <1>3, <2>1, <2>2 DEF Rests
<1>5. ASSUME turns # <<>>, last.phase # "committed", NEW phase \in Range(Phases),
             NEW n \in 0..MaxCalls, NEW turn,
             \/ turn = [last EXCEPT !.phase = phase]
             \/ turn = [last EXCEPT !.phase = phase, !.calls = n],
             turns' = Held(turn), Rank(last.phase) <= Rank(phase),
             UNCHANGED <<inbox, delivered, cleared>>
      PROVE  Advances
  <2>1. /\ turn \in Turns /\ turn.phase = phase /\ turn.inbox = last.inbox
        /\ turn.results = last.results /\ turn.death = last.death
    BY <1>0, <1>5 DEF Turns
  <2>2. /\ turns' = Held(turn) /\ IsOpen(turns) /\ Rank(last.phase) <= Rank(phase)
        /\ UNCHANGED <<inbox, delivered, cleared>>
    BY <1>5 DEF IsOpen
  <2> QED
    BY <1>0, <2>1, <2>2, HoldAdvances DEF IsOpen
<1>6. CASE Inject
  <2>1. /\ turns # <<>> /\ last.phase = "observed" /\ UNCHANGED <<inbox, delivered, cleared>>
        /\ turns' = Held([last EXCEPT !.phase = "injected"])
    BY <1>6 DEF Inject, At, TypeInv, TurnStands, PhaseInv, OnlyTurns, TurnUnchanged
  <2>2. PICK turn : turn = [last EXCEPT !.phase = "injected"]
    OBVIOUS
  <2>3. turns' = Held(turn)
    BY <2>1, <2>2
  <2>4. Rank(last.phase) <= Rank("injected") /\ "injected" \in Range(Phases) /\ 0 \in 0..MaxCalls
    BY <2>1, PhaseSet, Ranks, LimitsAssumption
  <2>5. last.phase # "committed"
    BY <2>1
  <2> QED
    BY <1>5, <2>1, <2>2, <2>3, <2>4, <2>5
<1>7. CASE Think
  <2>1. turns # <<>> /\ last.phase = "injected" /\ UNCHANGED <<inbox, delivered, cleared>>
    BY <1>7 DEF Think, At, TypeInv, TurnStands, PhaseInv, OnlyTurns, TurnUnchanged
  <2>2. CASE \E n \in 0..MaxCalls : turns' = Held([last EXCEPT !.phase = "thought", !.calls = n])
    <3>1. PICK n \in 0..MaxCalls : turns' = Held([last EXCEPT !.phase = "thought", !.calls = n])
      BY <2>2
    <3>2. PICK turn : turn = [last EXCEPT !.phase = "thought", !.calls = n]
      OBVIOUS
    <3>3. turns' = Held(turn)
      BY <3>1, <3>2
    <3>4. Rank(last.phase) <= Rank("thought") /\ "thought" \in Range(Phases)
      BY <2>1, PhaseSet, Ranks
    <3>5. last.phase # "committed"
      BY <2>1
    <3> QED
      BY <1>5, <2>1, <3>2, <3>3, <3>4, <3>5
  <2>3. CASE turns' = Held(Noted(last, "agent"))
    BY <1>0, <2>1, <2>3, NotedParts, HoldAdvances DEF IsOpen
  <2> QED
    BY <1>7, <2>2, <2>3 DEF Think, HoldAndWrite
<1>8. ASSUME turns # <<>>, last.phase = "thought", last.results < last.calls,
             turns' = Held([last EXCEPT !.results = @ + 1]),
             UNCHANGED <<inbox, delivered, cleared>>
      PROVE  Advances
  <2>1. PICK turn : turn = [last EXCEPT !.results = @ + 1]
    OBVIOUS
  <2>2. /\ turn \in Turns /\ turn.phase = last.phase /\ turn.inbox = last.inbox
        /\ turn.results = last.results + 1 /\ turn.death = last.death
    BY <1>0, <1>8, <2>1, TurnReported DEF Turns
  <2>3. turns' = Held(turn) /\ IsOpen(turns) /\ UNCHANGED <<inbox, delivered, cleared>>
    BY <1>8, <2>1 DEF IsOpen
  <2> QED
    BY <1>0, <2>2, <2>3, HoldAdvances DEF IsOpen
<1>9. CASE Act
  <2>1. turns # <<>> /\ last.phase = "thought" /\ UNCHANGED <<inbox, delivered, cleared>>
    BY <1>9 DEF Act, Wrote, At, TypeInv, TurnStands, PhaseInv, TurnUnchanged
  <2>2. CASE Unreported(last) /\ turns' = Held([last EXCEPT !.results = @ + 1])
    BY <1>8, <2>1, <2>2 DEF Unreported
  <2>3. CASE turns' = Held([last EXCEPT !.phase = "acted"])
    <3>1. PICK turn : turn = [last EXCEPT !.phase = "acted"]
      OBVIOUS
    <3>2. turns' = Held(turn)
      BY <2>3, <3>1
    <3>3. Rank(last.phase) <= Rank("acted") /\ "acted" \in Range(Phases) /\ 0 \in 0..MaxCalls
      BY <2>1, PhaseSet, Ranks, LimitsAssumption
    <3>4. last.phase # "committed"
      BY <2>1
    <3> QED
      BY <1>5, <2>1, <3>1, <3>2, <3>3, <3>4
  <2> QED
    BY <1>9, <2>1, <2>2, <2>3 DEF Act, HoldAndWrite, Rests
<1>10. CASE VerbReturns
  BY <1>8, <1>10 DEF VerbReturns, At, HoldAndWrite, TypeInv, TurnStands, PhaseInv, OnlyTurns,
     TurnUnchanged
<1>11. CASE FinishActing
  BY <1>3, <1>11 DEF FinishActing, Wrote, At, TypeInv, TurnStands, PhaseInv, IsOpen, OnlyTurns,
     TurnUnchanged
<1>12. CASE Archive \/ ArchiveReturns \/ FailTurn \/ Parked
  BY <1>12 DEF Archive, ArchiveReturns, FailTurn, Parked, OnlyTurns, TurnUnchanged, Rests
<1>13. CASE TurnCancelled
  <2>1. UNCHANGED <<inbox, delivered, cleared>> /\ (RecordDelta("agent") \/ UNCHANGED turns)
    BY <1>13 DEF TurnCancelled, Park
  <2>2. CASE UNCHANGED turns
    BY <2>1, <2>2 DEF Rests
  <2>3. CASE RecordDelta("agent")
    <3>1. CASE IsOpen(turns) /\ turns' = Held(Noted(last, "agent"))
      BY <1>0, <2>1, <3>1, NotedParts, HoldAdvances DEF IsOpen
    <3> QED
      BY <2>1, <2>2, <2>3, <3>1, RecordParts
  <2> QED
    BY <2>1, <2>2, <2>3
<1> QED
  BY <1>1, <1>2, <1>4, <1>6, <1>7, <1>9, <1>10, <1>11, <1>12, <1>13 DEF TurnStep

LEMMA NowStep ==
  TypeInv /\ PhaseInv /\ [Next]_vars =>
    Rests \/ Advances \/ Opens \/ Arrives \/ Forgets \/ BootRestores
<1> SUFFICES ASSUME TypeInv, PhaseInv, [Next]_vars
             PROVE  Rests \/ Advances \/ Opens \/ Arrives \/ Forgets \/ BootRestores
  OBVIOUS
<1>1. CASE TurnStep
  BY <1>1, TurnNow
<1>2. CASE LoopStep
  BY <1>2, FoldStep DEF history, Rests
<1>3. CASE Crash \/ BootDiscards
  BY <1>3 DEF Crash, BootDiscards, history, Forgets
<1>4. CASE Deliver
  BY <1>4 DEF Deliver, WorldUnchanged, Arrives
<1>5. CASE NoteChild \/ Pause \/ Resume \/ Kill \/ Suspend
  BY <1>5 DEF NoteChild, Pause, Resume, Kill, Suspend, WorldUnchanged, Rests
<1>6. CASE ExitStep \/ SpawnReturns \/ Booted
  BY <1>6 DEF ExitStep, Dispose, Suspends, Suspended, SpawnReturns, Booted, memory, history, Rests
<1>7. CASE Land \/ WriteFails \/ AbandonedEnds \/ UNCHANGED vars
  BY <1>7 DEF Land, WriteFails, AbandonedEnds, DiskStep, memory, history, vars, Rests
<1> QED
  BY <1>1, <1>2, <1>3, <1>4, <1>5, <1>6, <1>7 DEF Next, World, BootStep

\* Nothing but the memory as it then is becomes something a boot may find.
LEMMA KeptStep ==
  [Next]_vars => \A s \in Kept' : s \in Kept \/ s = Now'
<1> SUFFICES ASSUME [Next]_vars
             PROVE  \A s \in {file', saving'} \cup abandoned' :
                      s \in {file, saving, Now', NoSnapshot} \cup abandoned
  BY DEF Kept
<1>1. CASE UNCHANGED disk
  BY <1>1 DEF disk
<1>2. ASSUME UNCHANGED <<file, abandoned>>, saving' = Now' \/ saving' \in {saving, NoSnapshot}
      PROVE  \A s \in {file', saving'} \cup abandoned' :
               s \in {file, saving, Now', NoSnapshot} \cup abandoned
  BY <1>2
<1>3. ASSUME AbandonSave, UNCHANGED file, saving' = Now' \/ saving' = NoSnapshot
      PROVE  \A s \in {file', saving'} \cup abandoned' :
               s \in {file, saving, Now', NoSnapshot} \cup abandoned
  BY <1>3 DEF AbandonSave
<1>4. CASE TurnStep
  <2>1. CASE TurnCancelled
    BY <1>3, <2>1 DEF TurnCancelled, Park, Persist, Now
  <2>2. CASE ~TurnCancelled
    <3>1. UNCHANGED <<file, abandoned>>
      BY <1>4, <2>2 DEF TurnStep, OpenTurn, ResumeTurn, Continue, Inject, Think, Act, VerbReturns,
         FinishActing, Archive, ArchiveReturns, FailTurn, Parked, OnlyTurns, TurnUnchanged
    <3>2. saving' = Now' \/ saving' = saving
      BY <1>4, <2>2 DEF TurnStep, OpenTurn, ResumeTurn, Continue, Inject, Think, Act, VerbReturns,
         FinishActing, Archive, ArchiveReturns, FailTurn, Parked, OnlyTurns, Commit, HoldAndWrite,
         Persist, Now
    <3> QED
      BY <1>2, <3>1, <3>2
  <2> QED
    BY <2>1, <2>2
<1>5. CASE LoopStep \/ World \/ Dispose \/ Suspended \/ Booted \/ UNCHANGED vars
  <2>1. CASE Crash
    BY <2>1 DEF Crash
  <2>2. CASE Dispose
    BY <2>2 DEF Dispose
  <2>3. CASE ~Crash /\ ~Dispose
    BY <1>1, <1>5, <2>3, FoldStep DEF World, Deliver, NoteChild, Pause, Resume, Kill, Suspend,
       WorldUnchanged, Suspended, Booted, vars
  <2> QED
    BY <2>1, <2>2, <2>3
<1>6. CASE Suspends \/ BootRestores
  BY <1>2, <1>6 DEF Suspends, BootRestores, Persist, memory, Now
<1>7. CASE BootDiscards
  BY <1>7 DEF BootDiscards
<1>8. CASE SpawnReturns
  BY <1>3, <1>8 DEF SpawnReturns
<1>9. CASE Land \/ WriteFails \/ AbandonedEnds
  BY <1>9 DEF Land, WriteFails, AbandonedEnds
<1> QED
  BY <1>4, <1>5, <1>6, <1>7, <1>8, <1>9 DEF Next, ExitStep, BootStep

------------------------------------------------------------------------------
(* The messages of turns that advance, are appended or are dropped.        *)

LEMMA SeenParts ==
  ASSUME NEW ts \in Seq(Turns)
  PROVE  /\ DOMAIN ts = 1..Len(ts) /\ Len(ts) \in Nat
         /\ \A i \in DOMAIN ts : ts[i] \in Turns /\ ts[i].inbox \subseteq Seen(ts)
         /\ \A m \in Seen(ts) : \E i \in DOMAIN ts : m \in ts[i].inbox
BY DEF Seen

LEMMA AdvancesParts ==
  ASSUME TypeInv, Advances
  PROVE  /\ turns' \in Seq(Turns) /\ turns # <<>> /\ turns' # <<>>
         /\ DOMAIN turns' = DOMAIN turns
         /\ Len(turns') = Len(turns) /\ Len(turns) \in DOMAIN turns
         /\ \A i \in DOMAIN turns : turns'[i].inbox = turns[i].inbox
         /\ \A i \in DOMAIN turns : i # Len(turns) => turns'[i] = turns[i]
         /\ Seen(turns') = Seen(turns)
<1>1. PICK turn \in Turns : IsOpen(turns) /\ turns' = Held(turn) /\ turn.inbox = Last(turns).inbox
  BY DEF Advances
<1>2. turns # <<>>
  BY <1>1 DEF IsOpen
<1>3. /\ turns' \in Seq(Turns) /\ turns' # <<>> /\ DOMAIN turns' = DOMAIN turns
      /\ Len(turns') = Len(turns) /\ Len(turns) \in DOMAIN turns
      /\ \A i \in DOMAIN turns : turns'[i].inbox = turns[i].inbox
      /\ \A i \in DOMAIN turns : i # Len(turns) => turns'[i] = turns[i]
  BY <1>1, <1>2, HeldParts
<1>4. Seen(turns') = Seen(turns)
  BY <1>3 DEF Seen
<1> QED
  BY <1>2, <1>3, <1>4

LEMMA AppendParts ==
  ASSUME NEW ts \in Seq(Turns), NEW turn \in Turns
  PROVE  /\ Append(ts, turn) \in Seq(Turns)
         /\ DOMAIN Append(ts, turn) = 1..Len(ts) + 1 /\ Len(Append(ts, turn)) = Len(ts) + 1
         /\ \A i \in DOMAIN ts : Append(ts, turn)[i] = ts[i]
         /\ Append(ts, turn)[Len(ts) + 1] = turn /\ Last(Append(ts, turn)) = turn
         /\ Seen(Append(ts, turn)) = Seen(ts) \cup turn.inbox
<1>1. /\ Append(ts, turn) \in Seq(Turns)
      /\ DOMAIN Append(ts, turn) = 1..Len(ts) + 1 /\ Len(Append(ts, turn)) = Len(ts) + 1
      /\ \A i \in DOMAIN ts : Append(ts, turn)[i] = ts[i]
      /\ Append(ts, turn)[Len(ts) + 1] = turn /\ Last(Append(ts, turn)) = turn
  BY DEF Last
<1>2. 1..Len(ts) + 1 = DOMAIN ts \cup {Len(ts) + 1}
  OBVIOUS
<1>3. PICK longer : longer = Append(ts, turn)
  OBVIOUS
<1>4. Seen(longer) = Seen(ts) \cup turn.inbox
  BY <1>1, <1>2, <1>3 DEF Seen
<1> QED
  BY <1>1, <1>3, <1>4

LEMMA FrontParts ==
  ASSUME NEW ts \in Seq(Turns), ts # <<>>
  PROVE  /\ Front(ts) \in Seq(Turns)
         /\ DOMAIN Front(ts) = 1..Len(ts) - 1 /\ Len(Front(ts)) = Len(ts) - 1
         /\ \A i \in DOMAIN Front(ts) : i \in DOMAIN ts /\ Front(ts)[i] = ts[i]
         /\ Len(ts) \in DOMAIN ts /\ ts[Len(ts)] = Last(ts)
         /\ Seen(ts) = Seen(Front(ts)) \cup Last(ts).inbox
<1>0. Len(ts) \in Nat \ {0} /\ DOMAIN ts = 1..Len(ts) /\ Front(ts) = SubSeq(ts, 1, Len(ts) - 1)
  BY DEF Front
<1>a. /\ Front(ts) \in Seq(Turns)
      /\ Len(Front(ts)) = Len(ts) - 1
      /\ \A i \in 1..Len(ts) - 1 : Front(ts)[i] = ts[i]
  BY <1>0
<1>1. /\ Front(ts) \in Seq(Turns)
      /\ DOMAIN Front(ts) = 1..Len(ts) - 1 /\ Len(Front(ts)) = Len(ts) - 1
      /\ \A i \in DOMAIN Front(ts) : i \in DOMAIN ts /\ Front(ts)[i] = ts[i]
      /\ Len(ts) \in DOMAIN ts /\ ts[Len(ts)] = Last(ts)
  BY <1>0, <1>a DEF Last
<1>2. DOMAIN ts = DOMAIN Front(ts) \cup {Len(ts)}
  BY <1>1
<1>3. PICK front : front = Front(ts)
  OBVIOUS
<1>4. Seen(ts) = Seen(front) \cup Last(ts).inbox
  BY <1>1, <1>2, <1>3 DEF Seen
<1> QED
  BY <1>1, <1>3, <1>4

\* What BootRestores makes of the file's turns and messages.
LEMMA RestoreParts ==
  ASSUME TypeInv, BootRestores
  PROVE  /\ file \in Snapshots /\ file \in Kept /\ turns' \in Seq(Turns)
         /\ \/ ~Unobserved(file.turns) /\ turns' = file.turns /\ inbox' = file.pending
            \/ /\ Unobserved(file.turns) /\ file.turns # <<>> /\ turns' = Front(file.turns)
               /\ inbox' = file.pending \cup Last(file.turns).inbox
         /\ Seen(turns') \cup inbox' = Seen(file.turns) \cup file.pending
         /\ UNCHANGED <<delivered, cleared, file, abandoned>>
<1>1. file \in Snapshots /\ file \in Kept
  BY DEF BootRestores, TypeInv, TypeOK, Kept
<1>2. file.turns \in Seq(Turns)
  BY <1>1, SnapshotParts
<1>3. CASE ~Unobserved(file.turns)
  BY <1>1, <1>2, <1>3 DEF BootRestores, Redelivered, history
<1>4. CASE Unobserved(file.turns)
  <2>1. /\ file.turns # <<>> /\ turns' = Front(file.turns)
        /\ inbox' = file.pending \cup Last(file.turns).inbox
    BY <1>4 DEF BootRestores, Redelivered, Unobserved, IsOpen
  <2> QED
    BY <1>1, <1>2, <1>4, <2>1, FrontParts DEF BootRestores, history
<1> QED
  BY <1>3, <1>4

------------------------------------------------------------------------------
(* Messages are observed in the order they arrived.                        *)

LEMMA OrderInit == Init => OrderInv
<1> SUFFICES ASSUME Init, NEW s \in Kept PROVE InOrder(s, delivered)
  BY DEF OrderInv
<1>1. s.turns = <<>> /\ s.pending \subseteq 1..delivered
  <2>1. CASE kind.root
    BY <2>1 DEF Init, Kept, Now
  <2>2. CASE ~kind.root
    BY <2>2 DEF Init, Kept, Now
  <2> QED
    BY <2>1, <2>2
<1> QED
  BY <1>1 DEF InOrder, Seen

LEMMA OrderNow ==
  TypeInv /\ TypeInv' /\ PhaseInv /\ OrderInv /\ [Next]_vars => InOrder(Now', delivered')
<1> SUFFICES ASSUME TypeInv, TypeInv', PhaseInv, OrderInv, [Next]_vars
             PROVE  InOrder(Now', delivered')
  OBVIOUS
<1>0. /\ turns \in Seq(Turns) /\ delivered \in Nat /\ Now \in Snapshots
      /\ Now.turns = turns /\ Now.pending = inbox
      /\ Now'.turns = turns' /\ Now'.pending = inbox' /\ Now' = [turns |-> turns', pending |-> inbox']
  BY LimitsAssumption, SnapshotOf DEF TypeInv, TypeOK, Now
<1>1. /\ \A i, j \in DOMAIN turns : i < j => \A m \in turns[i].inbox, n \in turns[j].inbox : m < n
      /\ \A m \in Seen(turns), n \in inbox : m < n
      /\ Seen(turns) \cup inbox \subseteq 1..delivered
  <2>1. InOrder(Now, delivered)
    BY <1>0, NoSnapshotAssumption DEF OrderInv, Kept
  <2> QED
    BY <1>0, <2>1 DEF InOrder
<1> SUFFICES
      /\ \A i, j \in DOMAIN turns' : i < j => \A m \in turns'[i].inbox, n \in turns'[j].inbox : m < n
      /\ \A m \in Seen(turns'), n \in inbox' : m < n
      /\ Seen(turns') \cup inbox' \subseteq 1..delivered'
  BY <1>0 DEF InOrder
<1>2. CASE Rests
  BY <1>1, <1>2 DEF Rests
<1>3. CASE Advances
  <2>1. UNCHANGED <<inbox, delivered>>
    BY <1>3 DEF Advances
  <2> QED
    BY <1>1, <1>3, <2>1, AdvancesParts
<1>4. CASE Opens
  <2>1. PICK turn \in Turns, keep \in {<<>>, turns} :
          /\ turns' = Append(keep, turn) /\ inbox' = {} /\ turn.inbox = inbox
          /\ UNCHANGED delivered
    BY <1>4 DEF Opens
  <2>2. /\ DOMAIN turns' = 1..Len(keep) + 1 /\ Len(keep) \in Nat
        /\ \A i \in DOMAIN keep : turns'[i] = keep[i]
        /\ turns'[Len(keep) + 1].inbox = inbox
        /\ Seen(turns') = Seen(keep) \cup inbox
    <3>0. <<>> \in Seq(Turns)
      OBVIOUS
    <3>1. keep \in Seq(Turns)
      BY <1>0, <3>0
    <3> QED
      BY <2>1, <3>1, AppendParts
  <2>3. Seen(keep) \subseteq Seen(turns)
    BY <2>1 DEF Seen
  <2>4. \A i \in 1..Len(keep) + 1 : i \in DOMAIN keep \/ i = Len(keep) + 1
    BY <1>0, <2>1
  <2>5. \A i \in DOMAIN keep : i \in DOMAIN turns /\ keep[i] = turns[i] /\ turns[i].inbox \subseteq Seen(turns)
    BY <2>1 DEF Seen
  <2>6. /\ Seen(turns') \cup inbox' \subseteq 1..delivered'
        /\ \A m \in Seen(turns'), n \in inbox' : m < n
    BY <1>1, <2>1, <2>2, <2>3
  <2>7. ASSUME NEW i \in DOMAIN turns', NEW j \in DOMAIN turns', i < j,
               NEW m \in turns'[i].inbox, NEW n \in turns'[j].inbox
        PROVE  m < n
    <3>1. i \in DOMAIN keep
      BY <2>2, <2>4, <2>7
    <3>2. CASE j \in DOMAIN keep
      BY <1>1, <2>2, <2>5, <2>7, <3>1, <3>2
    <3>3. CASE j = Len(keep) + 1
      BY <1>1, <2>2, <2>5, <2>7, <3>1, <3>3
    <3> QED
      BY <2>2, <2>4, <3>2, <3>3
  <2> QED
    BY <2>6, <2>7
<1>5. CASE Arrives
  BY <1>0, <1>1, <1>5 DEF Arrives
<1>6. CASE Forgets
  BY <1>6 DEF Forgets, Seen
<1>7. CASE BootRestores
  <2>1. file \in Kept /\ file.turns \in Seq(Turns)
    BY <1>7, RestoreParts, SnapshotParts
  <2>2. InOrder(file, delivered) /\ UNCHANGED delivered
    BY <1>7, <2>1, RestoreParts DEF OrderInv
  <2>3. CASE ~Unobserved(file.turns)
    BY <1>7, <2>2, <2>3, RestoreParts DEF InOrder
  <2>4. CASE Unobserved(file.turns)
    <3>1. PICK ts : ts = file.turns
      OBVIOUS
    <3>2. /\ ts \in Seq(Turns) /\ ts # <<>> /\ turns' = Front(ts)
          /\ inbox' = file.pending \cup Last(ts).inbox
      BY <1>7, <2>1, <2>4, <3>1, RestoreParts
    <3>3. /\ \A i, j \in DOMAIN ts : i < j => \A m \in ts[i].inbox, n \in ts[j].inbox : m < n
          /\ \A m \in Seen(ts), n \in file.pending : m < n
          /\ Seen(ts) \cup file.pending \subseteq 1..delivered
      BY <2>2, <3>1 DEF InOrder
    <3>4. /\ \A i \in DOMAIN turns' : i \in DOMAIN ts /\ turns'[i] = ts[i] /\ i < Len(ts)
          /\ Len(ts) \in DOMAIN ts /\ ts[Len(ts)] = Last(ts)
          /\ Seen(ts) = Seen(turns') \cup Last(ts).inbox
      BY <3>2, FrontParts
    <3>5. \A m \in Seen(turns') : \E i \in DOMAIN turns' : m \in turns'[i].inbox
      BY DEF Seen
    <3>6. \A m \in Seen(turns'), n \in Last(ts).inbox : m < n
      BY <3>3, <3>4, <3>5
    <3> QED
      BY <2>2, <3>2, <3>3, <3>4, <3>6
  <2> QED
    BY <2>3, <2>4
<1> QED
  BY <1>2, <1>3, <1>4, <1>5, <1>6, <1>7, NowStep

LEMMA OrderStep == TypeInv /\ TypeInv' /\ PhaseInv /\ OrderInv /\ [Next]_vars => OrderInv'
<1> SUFFICES ASSUME TypeInv, TypeInv', PhaseInv, OrderInv, [Next]_vars, NEW s \in Kept'
             PROVE  InOrder(s, delivered')
  BY DEF OrderInv
<1>1. delivered \in Nat /\ delivered' \in Nat /\ delivered <= delivered'
  <2>1. delivered \in Nat
    BY LimitsAssumption DEF TypeInv, TypeOK
  <2>2. delivered' = delivered \/ delivered' = delivered + 1
    BY NowStep, RestoreParts DEF Rests, Advances, Opens, Arrives, Forgets
  <2> QED
    BY <2>1, <2>2
<1>2. CASE s = Now'
  BY <1>2, OrderNow
<1>3. CASE s \in Kept
  <2>1. InOrder(s, delivered)
    BY <1>3 DEF OrderInv
  <2>2. 1..delivered \subseteq 1..delivered'
    BY <1>1
  <2> QED
    BY <2>1, <2>2 DEF InOrder
<1> QED
  BY <1>2, <1>3, KeptStep

\* Turns observe messages in the order they arrived, each by one turn, across
\* parks, cancellations, crashes and restores (core.py _drain_inbox, boot.py).
THEOREM MessagesKeepTheirOrder == Spec => []ArrivalOrder
<1>1. Init => PhaseInv /\ OrderInv
  <2>1. Init => PhaseInv
    BY DEF Init, PhaseInv
  <2> QED
    BY <2>1, OrderInit
<1>2. TypeInv /\ OrderInv => ArrivalOrder
  <2> SUFFICES ASSUME TypeInv, OrderInv PROVE ArrivalOrder
    OBVIOUS
  <2>1. Now \in Snapshots /\ Now.turns = turns /\ Now.pending = inbox
    BY SnapshotOf DEF TypeInv, TypeOK, Now
  <2>2. InOrder(Now, delivered)
    BY <2>1, NoSnapshotAssumption DEF OrderInv, Kept
  <2> QED
    BY <2>1, <2>2 DEF InOrder, ArrivalOrder
<1> QED
  BY <1>1, <1>2, TypeInit, TypeNext, PhaseStep, OrderStep, PTL DEF Spec

------------------------------------------------------------------------------
(* The invariants of Agent together, and what every step leaves alone.     *)

LEMMA TaskStep == TaskInv /\ [Next]_vars => TaskInv'
<1> SUFFICES ASSUME TaskInv, [Next]_vars PROVE TaskInv'
  OBVIOUS
<1> USE DEF TaskInv
<1>1. CASE TurnStep
  BY <1>1 DEF TurnStep, OpenTurn, ResumeTurn, Continue, Inject, Think, Act, VerbReturns,
     FinishActing, Archive, ArchiveReturns, FailTurn, Parked, TurnCancelled, Wrote, At, OnlyTurns,
     TurnUnchanged
<1>2. CASE LoopStep
  BY <1>2, FoldStep
<1>3. CASE Crash \/ BootDiscards \/ BootRestores
  BY <1>3 DEF Crash, BootDiscards, BootRestores, Fresh
<1>4. CASE ExitStep \/ SpawnReturns \/ Booted
  BY <1>4 DEF ExitStep, Dispose, Suspends, Suspended, SpawnReturns, Booted
<1>5. CASE Deliver \/ NoteChild \/ Pause \/ Resume \/ Kill \/ Suspend
  BY <1>5 DEF Deliver, NoteChild, Pause, Resume, Kill, Suspend, WorldUnchanged
<1>6. CASE Land \/ WriteFails \/ AbandonedEnds \/ UNCHANGED vars
  BY <1>6 DEF Land, WriteFails, AbandonedEnds, DiskStep, tasks, vars
<1> QED
  BY <1>1, <1>2, <1>3, <1>4, <1>5, <1>6 DEF Next, BootStep, World

LEMMA BaseInit == Init => BaseInv
<1> SUFFICES ASSUME Init PROVE BaseInv
  OBVIOUS
<1>1. ExitInv /\ DiskInv /\ TaskInv /\ PhaseInv
  BY DEF Init, ExitInv, OnlyExitEndsLoop, CancelMeant, DiskInv, TaskInv, PhaseInv
<1> QED
  BY <1>1, TypeInit DEF BaseInv

LEMMA BaseStep == BaseInv /\ [Next]_vars => BaseInv'
<1> SUFFICES ASSUME BaseInv, [Next]_vars PROVE BaseInv'
  OBVIOUS
<1>1. TypeInv /\ TypeInv' /\ PhaseInv' /\ TaskInv'
  BY TypeNext, PhaseStep, TaskStep DEF BaseInv
<1>2. CASE UNCHANGED vars
  BY <1>1, <1>2 DEF BaseInv, vars, memory, tasks, disk, ExitInv, OnlyExitEndsLoop, CancelMeant,
     Exiting, DiskInv
<1>3. CASE Next
  BY <1>1, <1>3, ExitLoop, ExitTurn, ExitRest, FileTurn, FileRest DEF BaseInv, Next
<1> QED
  BY <1>2, <1>3

\* What went wrong is remembered.
LEMMA MishapsGrow == [Next]_vars => mishaps \subseteq mishaps'
<1> SUFFICES ASSUME [Next]_vars PROVE mishaps \subseteq mishaps'
  OBVIOUS
<1> USE DEF Untroubled, Trouble, Mishap, AbandonSave
<1>1. CASE TurnStep
  BY <1>1 DEF TurnStep, OpenTurn, ResumeTurn, Continue, Inject, Think, Act, VerbReturns,
     FinishActing, Archive, ArchiveReturns, FailTurn, Parked, TurnCancelled, OnlyTurns, TurnUnchanged
<1>2. CASE LoopStep
  BY <1>2, FoldStep DEF history
<1>3. CASE ExitStep \/ BootStep \/ SpawnReturns
  BY <1>3 DEF ExitStep, Dispose, Suspends, Suspended, BootStep, BootDiscards, BootRestores, Booted,
     SpawnReturns, history
<1>4. CASE World
  BY <1>4 DEF World, Deliver, NoteChild, Pause, Resume, Kill, Suspend, Crash
<1>5. CASE Land \/ WriteFails \/ AbandonedEnds \/ UNCHANGED vars
  BY <1>5 DEF Land, WriteFails, AbandonedEnds, vars, history
<1> QED
  BY <1>1, <1>2, <1>3, <1>4, <1>5 DEF Next

\* A write is abandoned only by a mishap of that name.
LEMMA NoneAbandoned ==
  ASSUME abandoned = {}, [Next]_vars, "abandon" \notin mishaps'
  PROVE  abandoned' = {}
<1> USE DEF Mishap, AbandonSave
<1>1. CASE TurnStep
  BY <1>1 DEF TurnStep, OpenTurn, ResumeTurn, Continue, Inject, Think, Act, VerbReturns,
     FinishActing, Archive, ArchiveReturns, FailTurn, Parked, TurnCancelled, OnlyTurns, TurnUnchanged
<1>2. CASE LoopStep
  BY <1>2, FoldStep DEF disk
<1>3. CASE ExitStep \/ BootStep \/ SpawnReturns
  BY <1>3 DEF ExitStep, Dispose, Suspends, Suspended, BootStep, BootDiscards, BootRestores, Booted,
     SpawnReturns, disk
<1>4. CASE World
  BY <1>4 DEF World, Deliver, NoteChild, Pause, Resume, Kill, Suspend, WorldUnchanged, disk, Crash
<1>5. CASE Land \/ WriteFails \/ AbandonedEnds \/ UNCHANGED vars
  BY <1>5 DEF Land, WriteFails, AbandonedEnds, vars, disk
<1> QED
  BY <1>1, <1>2, <1>3, <1>4, <1>5 DEF Next

------------------------------------------------------------------------------
(* The turn a verb runs for, and an open turn that waits, are on file.     *)

LEMMA Begun ==
  ASSUME TypeInv', saving' = [turns |-> turns', pending |-> inbox']
  PROVE  OnFile'
<1>1. saving' \in Snapshots /\ saving'.turns = turns'
  BY SnapshotOf DEF TypeInv, TypeOK
<1> QED
  BY <1>1, NoSnapshotAssumption DEF OnFile

LEMMA WrittenTurn ==
  /\ BaseInv /\ BaseInv' /\ WrittenInv /\ TurnStep /\ Faultless /\ Faultless'
  => WrittenInv'
<1> SUFFICES ASSUME BaseInv, BaseInv', WrittenInv, TurnStep, Faultless, Faultless'
             PROVE  WrittenInv'
  OBVIOUS
<1>1. abandoned' = {} /\ "abandon" \notin mishaps'
  BY NoneAbandoned DEF WrittenInv, Next, Faultless
<1>2. ASSUME saving' = [turns |-> turns', pending |-> inbox'] PROVE WrittenInv'
  <2>1. OnFile'
    BY <1>2, Begun DEF BaseInv
  <2> QED
    BY <1>1, <2>1 DEF WrittenInv
<1>3. ASSUME OnFile, UNCHANGED <<turns, saving, file>> PROVE WrittenInv'
  BY <1>1, <1>3 DEF WrittenInv, OnFile
<1>4. CASE OpenTurn
  BY <1>2, <1>4 DEF OpenTurn, Persist
<1>5. CASE ResumeTurn \/ Think \/ VerbReturns
  BY <1>2, <1>5 DEF ResumeTurn, Think, VerbReturns, HoldAndWrite, Persist, OnlyTurns
<1>6. CASE Continue
  <2>1. OnFile
    BY <1>6 DEF Continue, Wrote, At, WrittenInv
  <2>2. CASE UNCHANGED <<turns, saving>>
    BY <1>3, <1>6, <2>1, <2>2 DEF Continue, OnlyTurns, TurnUnchanged
  <2>3. CASE Commit(Last(turns))
    BY <1>2, <1>6, <2>3 DEF Continue, Commit, HoldAndWrite, Persist, OnlyTurns
  <2> QED
    BY <1>6, <2>2, <2>3 DEF Continue
<1>7. CASE Inject
  BY <1>1, <1>7 DEF Inject, At, OnlyTurns, TurnUnchanged, WrittenInv
<1>8. CASE Act
  <2>1. OnFile /\ UNCHANGED <<inbox, file>>
    BY <1>8 DEF Act, Wrote, At, WrittenInv, TurnUnchanged
  <2>2. CASE UNCHANGED <<turns, saving>>
    BY <1>3, <2>1, <2>2
  <2>3. CASE saving' = [turns |-> turns', pending |-> inbox]
    BY <1>2, <2>1, <2>3
  <2> QED
    BY <1>8, <2>2, <2>3 DEF Act, HoldAndWrite, Persist
<1>9. CASE FinishActing
  BY <1>2, <1>9 DEF FinishActing, Commit, HoldAndWrite, Persist, OnlyTurns
<1>10. CASE Archive \/ ArchiveReturns \/ FailTurn \/ Parked
  <2>1. OnFile
    BY <1>10 DEF Archive, ArchiveReturns, FailTurn, Parked, Wrote, At, WrittenInv
  <2> QED
    BY <1>3, <1>10, <2>1 DEF Archive, ArchiveReturns, FailTurn, Parked, OnlyTurns, TurnUnchanged
<1>11. CASE TurnCancelled
  <2>1. Saved /\ UNCHANGED <<file, inbox, loop, death, suspending>> /\ loop = "turn" /\ cancelling
    BY <1>1, <1>11 DEF TurnCancelled, AbandonSave, Mishap
  <2>2. CASE Park
    BY <1>2, <2>1, <2>2 DEF Park, Persist
  <2>3. CASE /\ step \in {"open", "resume", "failing", "park"} \/ ~Parks
             /\ step' = "cancelled" /\ saving' = NoSnapshot /\ UNCHANGED turns
    <3>1. Exiting' = Exiting
      BY <2>1 DEF Exiting
    <3>2. CASE ~Exiting
      <4>1. Parks
        BY <2>1, <3>2 DEF Parks, BaseInv, ExitInv, CancelMeant
      <4>2. IsOpen(turns) => OnFile
        BY <2>3, <4>1 DEF WrittenInv, BaseInv, PhaseInv
      <4> QED
        BY <1>1, <2>1, <2>3, <4>2 DEF WrittenInv, OnFile, Saved
    <3>3. CASE Exiting
      BY <1>1, <2>1, <2>3, <3>1, <3>3 DEF WrittenInv
    <3> QED
      BY <3>2, <3>3
  <2> QED
    BY <1>11, <2>2, <2>3 DEF TurnCancelled
<1> QED
  BY <1>4, <1>5, <1>6, <1>7, <1>8, <1>9, <1>10, <1>11 DEF TurnStep

LEMMA WrittenStep == BaseInv /\ BaseInv' /\ WrittenInv /\ [Next]_vars => WrittenInv'
<1> SUFFICES ASSUME BaseInv, BaseInv', WrittenInv, [Next]_vars, Faultless' PROVE WrittenInv'
  BY DEF WrittenInv
<1>1. Faultless /\ "abandon" \notin mishaps' /\ "badWrite" \notin mishaps'
  BY MishapsGrow DEF Faultless
<1>2. abandoned = {} /\ abandoned' = {}
  BY <1>1, NoneAbandoned DEF WrittenInv
<1>3. CASE TurnStep
  BY <1>1, <1>3, WrittenTurn
<1>4. CASE LoopStep
  <2>1. UNCHANGED <<turns, file, saving, death, suspending>>
    BY <1>4, FoldStep DEF disk
  <2>2. OnFile' <=> OnFile
    BY <2>1 DEF OnFile
  <2>3. loop \in {"new", "wait", "pace"} \/ (loop = "turn" /\ step \in {"done", "cancelled"})
    BY <1>4 DEF LoopStep, LoopStarts, LoopWakes, LoopPaced, LoopReaps
  <2>4. CASE loop' \in {"dispose", "suspend"} /\ step' = "none"
    BY <1>2, <2>4 DEF WrittenInv
  <2>5. CASE loop' \in {"wait", "pace", "turn"} /\ step' \in {"none", "open", "resume"} /\ ~Exiting
    <3>1. IsOpen(turns) => OnFile
      BY <1>1, <2>3, <2>5 DEF WrittenInv
    <3> QED
      BY <1>2, <2>1, <2>2, <2>5, <3>1 DEF WrittenInv
  <2> QED
    BY <1>4, <2>4, <2>5, FoldStep
<1>5. CASE Crash \/ BootDiscards
  <2>1. turns' = <<>> /\ step' = "none"
    BY <1>5 DEF Crash, BootDiscards, Fresh
  <2> QED
    BY <1>2, <2>1 DEF WrittenInv, IsOpen
<1>6. CASE BootRestores
  <2>1. OnFile'
    BY <1>6, Begun DEF BootRestores, Persist, BaseInv
  <2> QED
    BY <1>2, <2>1 DEF WrittenInv
<1>7. CASE Land
  <2>1. /\ saving # NoSnapshot /\ file' = saving /\ saving' = NoSnapshot
        /\ UNCHANGED <<turns, loop, step, death, suspending>>
    BY <1>7 DEF Land, DiskStep, memory, tasks
  <2>2. OnFile => OnFile'
    BY <2>1 DEF OnFile
  <2>3. Exiting' <=> Exiting
    BY <2>1 DEF Exiting
  <2> QED
    BY <1>1, <1>2, <2>1, <2>2, <2>3 DEF WrittenInv
<1>8. CASE WriteFails \/ AbandonedEnds
  BY <1>1, <1>2, <1>8 DEF WriteFails, AbandonedEnds, Mishap
<1>9. CASE Booted \/ SpawnReturns
  <2>1. Saved /\ UNCHANGED <<turns, file, saving, step>> /\ loop \in {"boot", "born"} /\ loop' = "new"
    BY <1>1, <1>9 DEF Booted, SpawnReturns, AbandonSave, Mishap, Saved, memory, disk
  <2>2. OnFile => OnFile'
    BY <2>1 DEF OnFile
  <2>3. step = "none"
    BY <2>1 DEF BaseInv, TaskInv
  <2> QED
    BY <1>1, <1>2, <2>1, <2>2, <2>3 DEF WrittenInv
<1>10. CASE ExitStep
  <2>1. step = "none" /\ step' = "none" /\ loop' \in {"gone", "saving", "down"}
    BY <1>10 DEF ExitStep, Dispose, Suspends, Suspended, BaseInv, TaskInv
  <2> QED
    BY <1>2, <2>1 DEF WrittenInv
<1>11. CASE Deliver \/ NoteChild \/ Pause \/ Resume \/ Kill \/ Suspend \/ UNCHANGED vars
  <2>1. UNCHANGED <<turns, file, saving, step, loop>>
    BY <1>11 DEF Deliver, NoteChild, Pause, Resume, Kill, Suspend, WorldUnchanged, vars, memory,
       tasks, disk
  <2>2. ~Exiting' => ~Exiting
    <3>1. UNCHANGED <<death, suspending>> \/ death' = "killed" \/ suspending'
      BY <1>11 DEF Deliver, NoteChild, Pause, Resume, Kill, Suspend, vars, memory
    <3> QED
      BY <3>1 DEF Exiting
  <2>3. OnFile' <=> OnFile
    BY <2>1 DEF OnFile
  <2> QED
    BY <1>1, <1>2, <2>1, <2>2, <2>3 DEF WrittenInv
<1> QED
  BY <1>3, <1>4, <1>5, <1>6, <1>7, <1>8, <1>9, <1>10, <1>11 DEF Next, BootStep, World

LEMMA WrittenInit == Init => WrittenInv
BY DEF Init, WrittenInv, IsOpen

\* While a verb runs, the file holds the turn as it stands, with every result
\* before it (engine.py act, core.py persist), unless a write failed or was
\* abandoned.
THEOREM ResultsAreRecorded == Spec => []RecordedBeforeNextCall
<1>1. BaseInv /\ WrittenInv => RecordedBeforeNextCall
  <2> SUFFICES ASSUME BaseInv, WrittenInv, step = "verb", mishaps \subseteq {"crash"}
               PROVE  file # NoSnapshot /\ file.turns = turns
    BY DEF RecordedBeforeNextCall
  <2>1. OnFile
    BY DEF WrittenInv, Faultless
  <2>2. saving = NoSnapshot
    BY DEF BaseInv, DiskInv, TaskInv
  <2> QED
    BY <2>1, <2>2 DEF OnFile
<1> QED
  BY <1>1, BaseInit, BaseStep, WrittenInit, WrittenStep, PTL DEF Spec

\* Pause loses nothing: an agent that waits with an open turn has it on file
\* (core.py _persist_paused_turn), unless a write failed or was abandoned.
THEOREM ParkedTurnsAreWritten == Spec => []ParkedTurnIsWritten
<1>1. BaseInv /\ WrittenInv => ParkedTurnIsWritten
  <2> SUFFICES ASSUME BaseInv, WrittenInv, loop = "wait", IsOpen(turns), mishaps \subseteq {"crash"}
               PROVE  file # NoSnapshot /\ file.turns = turns
    BY DEF ParkedTurnIsWritten
  <2>1. OnFile
    BY DEF WrittenInv, Faultless
  <2>2. saving = NoSnapshot
    BY DEF BaseInv, DiskInv
  <2> QED
    BY <2>1, <2>2 DEF OnFile
<1> QED
  BY <1>1, BaseInit, BaseStep, WrittenInit, WrittenStep, PTL DEF Spec

------------------------------------------------------------------------------
(* No verb call starts twice.                                              *)

LEMMA UnansweredParts ==
  ASSUME NEW s
  PROVE  \A m : m \in Unanswered(s) <=>
           \/ m \in s.pending
           \/ \E i \in DOMAIN s.turns :
                s.turns[i].phase \in {"observed", "injected"} /\ m \in s.turns[i].inbox
BY DEF Unanswered

LEMMA NowParts ==
  ASSUME TypeInv
  PROVE  /\ Now \in Snapshots /\ Now \in Kept
         /\ Now.turns = turns /\ Now.pending = inbox
BY SnapshotOf, NoSnapshotAssumption DEF TypeInv, TypeOK, Now, Kept

\* A step leaves no message unanswered that was answered.
LEMMA UnansweredNow ==
  ASSUME TypeInv, TypeInv', PhaseInv, [Next]_vars, NEW m \in Unanswered(Now')
  PROVE  \/ \E s \in Kept : m \in Unanswered(s)
         \/ m = delivered + 1
<1>0. /\ turns \in Seq(Turns) /\ Now \in Kept /\ Now.turns = turns /\ Now.pending = inbox
      /\ Now'.turns = turns' /\ Now'.pending = inbox'
  BY NowParts DEF TypeInv, TypeOK, Now
<1> DEFINE Open(ts, i) == ts[i].phase \in {"observed", "injected"} /\ m \in ts[i].inbox
<1>1. m \in inbox' \/ \E i \in DOMAIN turns' : Open(turns', i)
  BY <1>0, UnansweredParts
<1>2. m \in inbox => m \in Unanswered(Now)
  BY <1>0, UnansweredParts
<1>3. \A i \in DOMAIN turns : Open(turns, i) => m \in Unanswered(Now)
  BY <1>0, UnansweredParts
<1>4. CASE Rests
  BY <1>0, <1>1, <1>2, <1>3, <1>4 DEF Rests
<1>5. CASE Advances
  <2>1. PICK turn \in Turns :
          /\ IsOpen(turns) /\ turns' = Held(turn) /\ turn.inbox = Last(turns).inbox
          /\ Rank(Last(turns).phase) <= Rank(turn.phase) /\ UNCHANGED inbox
    BY <1>5 DEF Advances
  <2>2. /\ DOMAIN turns' = DOMAIN turns /\ Len(turns) \in DOMAIN turns
        /\ turns[Len(turns)] = Last(turns) /\ turns'[Len(turns)] = turn
        /\ \A i \in DOMAIN turns : i # Len(turns) => turns'[i] = turns[i]
    BY <2>1, HeldParts DEF IsOpen
  <2>3. turn.phase \in {"observed", "injected"} => Last(turns).phase \in {"observed", "injected"}
    <3>1. Last(turns).phase \in {"observed", "injected", "thought", "acted", "committed"}
      BY <2>1, LastTurn, PhaseSet DEF TypeInv, TypeOK, IsOpen, Turns
    <3> QED
      BY <2>1, <3>1, Ranks
  <2>4. \A i \in DOMAIN turns : Open(turns', i) => Open(turns, i)
    BY <2>1, <2>2, <2>3
  <2> QED
    BY <1>0, <1>1, <1>2, <1>3, <2>1, <2>2, <2>4
<1>6. CASE Opens
  <2>1. PICK turn \in Turns, keep \in {<<>>, turns} :
          turns' = Append(keep, turn) /\ inbox' = {} /\ turn.inbox = inbox
    BY <1>6 DEF Opens
  <2>2. <<>> \in Seq(Turns)
    OBVIOUS
  <2>3. keep \in Seq(Turns)
    BY <1>0, <2>2
  <2>4. /\ DOMAIN turns' = 1..Len(keep) + 1 /\ DOMAIN keep = 1..Len(keep) /\ Len(keep) \in Nat
        /\ \A i \in DOMAIN keep : turns'[i] = keep[i] /\ i \in DOMAIN turns /\ keep[i] = turns[i]
        /\ turns'[Len(keep) + 1] = turn
    BY <2>1, <2>3, AppendParts
  <2>5. \A i \in DOMAIN turns' : i \in DOMAIN keep \/ i = Len(keep) + 1
    BY <2>4
  <2> QED
    BY <1>0, <1>1, <1>2, <1>3, <2>1, <2>4, <2>5
<1>7. CASE Arrives
  BY <1>0, <1>1, <1>2, <1>3, <1>7 DEF Arrives
<1>8. CASE Forgets
  BY <1>1, <1>8 DEF Forgets
<1>9. CASE BootRestores
  <2>1. file \in Kept /\ file.turns \in Seq(Turns)
    BY <1>9, RestoreParts, SnapshotParts
  <2>2. \/ m \in file.pending
        \/ \E i \in DOMAIN file.turns : Open(file.turns, i)
    <3>1. PICK ts \in Seq(Turns) : ts = file.turns
      BY <2>1
    <3>2. CASE ~Unobserved(ts)
      BY <1>1, <1>9, <3>1, <3>2, RestoreParts
    <3>3. CASE Unobserved(ts)
      <4>1. /\ ts # <<>> /\ turns' = Front(ts) /\ inbox' = file.pending \cup Last(ts).inbox
            /\ Last(ts).phase = "observed"
        BY <1>9, <3>1, <3>3, RestoreParts DEF Unobserved
      <4>2. /\ \A i \in DOMAIN turns' : i \in DOMAIN ts /\ turns'[i] = ts[i]
            /\ Len(ts) \in DOMAIN ts /\ ts[Len(ts)] = Last(ts)
        BY <4>1, FrontParts
      <4> QED
        BY <1>1, <3>1, <4>1, <4>2
    <3> QED
      BY <3>2, <3>3
  <2>3. m \in Unanswered(file)
    BY <2>2, UnansweredParts
  <2> QED
    BY <2>1, <2>3
<1> QED
  BY <1>4, <1>5, <1>6, <1>7, <1>8, <1>9, NowStep

LEMMA RanParts ==
  ASSUME TypeInv
  PROVE  \A p \in ran : p = <<p[1], p[2]>> /\ p[1] \in Nat /\ p[2] \in Nat
BY DEF TypeInv, TypeOK, Messages

\* The messages whose calls run are answered in whatever a boot may find.
LEMMA RunningIsAnswered ==
  ASSUME TypeInv, OrderInv, NEW s \in Kept, s.turns = turns, turns # <<>>,
         Last(turns).phase = "thought", NEW m \in Last(turns).inbox
  PROVE  m \notin Unanswered(s)
<1> SUFFICES ASSUME m \in Unanswered(s) PROVE FALSE
  OBVIOUS
<1>1. /\ \A i, j \in DOMAIN turns : i < j => \A k \in turns[i].inbox, n \in turns[j].inbox : k < n
      /\ \A k \in Seen(turns), n \in s.pending : k < n
      /\ Seen(turns) \subseteq Nat
  BY DEF OrderInv, InOrder
<1>2. /\ turns \in Seq(Turns) /\ DOMAIN turns = 1..Len(turns) /\ Len(turns) \in DOMAIN turns
      /\ turns[Len(turns)] = Last(turns)
  BY DEF TypeInv, TypeOK, Last
<1>3. m \in Seen(turns) /\ m \in Nat
  BY <1>1, <1>2, SeenParts
<1>4. CASE m \in s.pending
  BY <1>1, <1>3, <1>4
<1>5. CASE \E i \in DOMAIN turns : turns[i].phase \in {"observed", "injected"} /\ m \in turns[i].inbox
  <2>1. PICK i \in DOMAIN turns : turns[i].phase \in {"observed", "injected"} /\ m \in turns[i].inbox
    BY <1>5
  <2>2. i < Len(turns)
    BY <1>2, <2>1
  <2> QED
    BY <1>1, <1>2, <1>3, <2>1, <2>2
<1> QED
  BY <1>4, <1>5, UnansweredParts

\* A step that starts no call.
LEMMA RanKept ==
  ASSUME TypeInv, TypeInv', PhaseInv, RanInv, [Next]_vars, UNCHANGED ran, Faultless
  PROVE  \A s \in Kept' : \A p \in ran' : p[1] \notin Unanswered(s)
<1>1. \A s \in Kept : \A p \in ran : p[1] \notin Unanswered(s)
  BY DEF RanInv
<1>2. \A p \in ran : p[1] # delivered + 1
  <2>1. \A p \in ran : p[1] <= delivered /\ p[1] \in Nat /\ delivered \in Nat
    BY RanParts, LimitsAssumption DEF RanInv, TypeInv, TypeOK
  <2> QED
    BY <2>1
<1>3. \A p \in ran : p[1] \notin Unanswered(Now')
  BY <1>1, <1>2, UnansweredNow
<1> QED
  BY <1>1, <1>3, KeptStep

\* The calls that started for the messages of the last turn.
Within(k) == \A p \in ran : p[1] \in Last(turns).inbox => p[2] <= k

LEMMA RanAct ==
  /\ BaseInv /\ BaseInv' /\ OrderInv /\ WrittenInv /\ RanInv /\ Act /\ Faultless
  => RanInv'
<1> SUFFICES ASSUME BaseInv, BaseInv', OrderInv, WrittenInv, RanInv, Act, Faultless
             PROVE  RanInv'
  OBVIOUS
<1> DEFINE last == Last(turns)
<1>0. TypeInv /\ TypeInv' /\ PhaseInv /\ [Next]_vars /\ UNCHANGED <<delivered, inbox, mishaps>>
  BY DEF BaseInv, Next, TurnStep, Act, TurnUnchanged
<1>1. /\ turns # <<>> /\ last.phase = "thought" /\ last \in Turns /\ last.results \in Nat
      /\ Wrote("answer") \/ Wrote("result")
  <2>1. turns # <<>> /\ last.phase = "thought" /\ (Wrote("answer") \/ Wrote("result"))
    BY <1>0 DEF Act, Wrote, At, TypeInv, TurnStands, PhaseInv
  <2>2. last \in Turns
    BY <1>0, <2>1, LastTurn DEF TypeInv, TypeOK
  <2> QED
    BY <2>1, <2>2, LimitsAssumption DEF Turns
<1>2. Within(last.results) /\ ~reran /\ \A p \in ran : p[1] <= delivered
  <2>1. step \in {"answer", "result"}
    BY <1>1 DEF Wrote, At
  <2>2. \A p \in ran : p[2] \in Nat
    BY <1>0, RanParts
  <2> QED
    BY <1>1, <2>1, <2>2 DEF RanInv, Within
<1>3. CASE ~Unreported(last)
  <2>1. UNCHANGED <<ran, reran>> /\ step' = "acted"
    BY <1>3 DEF Act, HoldAndWrite
  <2>2. \A s \in Kept' : \A p \in ran' : p[1] \notin Unanswered(s)
    BY <1>0, <2>1, RanKept
  <2> QED
    BY <1>0, <1>2, <2>1, <2>2 DEF RanInv
<1>4. CASE Unreported(last)
  <2>1. /\ ran' = ran \cup {<<m, last.results + 1>> : m \in last.inbox}
        /\ reran' = (reran \/ {<<m, last.results + 1>> : m \in last.inbox} \cap ran # {})
    BY <1>4 DEF Act, Starts
  <2>2. \A p \in ran' : p \in ran \/ (p[1] \in last.inbox /\ p[2] = last.results + 1)
    BY <2>1
  <2>3. ~reran'
    <3>1. {<<m, last.results + 1>> : m \in last.inbox} \cap ran = {}
      <4> SUFFICES ASSUME NEW m \in last.inbox, <<m, last.results + 1>> \in ran PROVE FALSE
        OBVIOUS
      <4>1. last.results + 1 <= last.results
        BY <1>2 DEF Within
      <4> QED
        BY <1>1, <4>1
    <3> QED
      BY <1>2, <2>1, <3>1, Zenon
  <2>4. \A m \in last.inbox : m <= delivered /\ m \in Nat
    <3>1. InOrder(Now, delivered) /\ turns \in Seq(Turns) /\ Now.turns = turns
      BY <1>0, NowParts DEF OrderInv, TypeInv, TypeOK
    <3>2. Len(turns) \in DOMAIN turns /\ turns[Len(turns)] = last
      BY <1>1, <3>1 DEF Last
    <3>3. last.inbox \subseteq 1..delivered
      BY <3>1, <3>2, SeenParts DEF InOrder
    <3> QED
      BY <1>0, <3>3, LimitsAssumption DEF TypeInv, TypeOK
  <2>5. \A p \in ran' : p[1] <= delivered'
    BY <1>0, <1>2, <2>2, <2>4
  <2>6. \A s \in Kept : s.turns = turns
    <3>1. OnFile /\ Saved /\ abandoned = {}
      BY <1>1 DEF Wrote, At, WrittenInv
    <3>2. file # NoSnapshot /\ file.turns = turns /\ Now.turns = turns
      BY <1>0, <3>1, NowParts DEF OnFile, Saved
    <3> QED
      BY <3>1, <3>2 DEF Kept, Saved
  <2>7. \A s \in Kept : \A p \in ran' : p[1] \notin Unanswered(s)
    <3> SUFFICES ASSUME NEW s \in Kept, NEW p \in ran' PROVE p[1] \notin Unanswered(s)
      OBVIOUS
    <3>1. CASE p \in ran
      BY <3>1 DEF RanInv
    <3>2. CASE p[1] \in last.inbox
      BY <1>0, <1>1, <2>6, <3>2, RunningIsAnswered
    <3> QED
      BY <2>2, <3>1, <3>2
  <2>8. \A p \in ran' : p[1] # delivered + 1
    <3>1. delivered \in Nat
      BY <1>0, LimitsAssumption DEF TypeInv, TypeOK
    <3>2. \A p \in ran' : p[1] \in Nat
      BY <1>0, <2>2, <2>4, RanParts
    <3> QED
      BY <1>0, <2>5, <3>1, <3>2
  <2>9. \A p \in ran' : p[1] \notin Unanswered(Now')
    BY <1>0, <2>7, <2>8, UnansweredNow
  <2>10. \A s \in Kept' : \A p \in ran' : p[1] \notin Unanswered(s)
    BY <1>0, <2>7, <2>9, KeptStep
  <2>11. step' \in {"verb", "result"} /\ Last(turns').inbox = last.inbox
         /\ Last(turns').results + (IF step' = "verb" THEN 1 ELSE 0) = last.results + 1
    <3>1. CASE step' = "verb" /\ UNCHANGED turns
      BY <1>1, <3>1
    <3>2. CASE HoldAndWrite([last EXCEPT !.results = @ + 1], "result")
      <4>1. PICK turn : turn = [last EXCEPT !.results = @ + 1]
        OBVIOUS
      <4>2. turn \in Turns /\ turn.inbox = last.inbox /\ turn.results = last.results + 1
        BY <1>1, <1>4, <4>1, TurnReported DEF Unreported, Turns
      <4>3. HoldAndWrite(turn, "result")
        BY <3>2, <4>1
      <4>4. Last(turns') = turn /\ step' = "result"
        BY <1>0, <1>1, <4>2, <4>3, HoldStep
      <4> QED
        BY <1>1, <4>2, <4>4
    <3> QED
      BY <1>4, <3>1, <3>2 DEF Act
  <2>12. \A p \in ran' : p[1] \in last.inbox => p[2] <= last.results + 1
    <3>1. \A p \in ran : p[2] \in Nat
      BY <1>0, RanParts
    <3> QED
      BY <1>1, <1>2, <2>2, <3>1 DEF Within
  <2> QED
    BY <2>3, <2>5, <2>10, <2>11, <2>12 DEF RanInv
<1> QED
  BY <1>3, <1>4

LEMMA RanStep ==
  /\ BaseInv /\ BaseInv' /\ OrderInv /\ WrittenInv /\ RanInv /\ [Next]_vars
  => RanInv'
<1> SUFFICES ASSUME BaseInv, BaseInv', OrderInv, WrittenInv, RanInv, [Next]_vars
             PROVE  RanInv'
  OBVIOUS
<1>0. /\ TypeInv /\ TypeInv' /\ PhaseInv /\ delivered \in Nat
      /\ Faultless' => Faultless
  BY MishapsGrow, LimitsAssumption DEF BaseInv, TypeInv, TypeOK, Faultless
<1>1. CASE Act /\ Faultless
  BY <1>1, RanAct
<1>2. CASE Act /\ ~Faultless
  <2>1. UNCHANGED <<delivered, mishaps>> /\ \A p \in ran' : p \in ran \/ p[1] \in Last(turns).inbox
    BY <1>2 DEF Act, Starts, TurnUnchanged
  <2>2. turns \in Seq(Turns) /\ turns # <<>> /\ InOrder(Now, delivered) /\ Now.turns = turns
    BY <1>0, <1>2, NowParts DEF Act, Wrote, At, TypeInv, TypeOK, TurnStands, OrderInv
  <2>3. Last(turns).inbox \subseteq 1..delivered
    <3>1. Len(turns) \in DOMAIN turns /\ turns[Len(turns)] = Last(turns)
      BY <2>2 DEF Last
    <3> QED
      BY <2>2, <3>1, SeenParts DEF InOrder
  <2> QED
    BY <1>0, <1>2, <2>1, <2>3 DEF RanInv, Faultless
<1>3. CASE ~Act
  <2>1. UNCHANGED <<ran, reran>>
    <3>1. CASE TurnStep
      BY <1>3, <3>1 DEF TurnStep, OpenTurn, ResumeTurn, Continue, Inject, Think, VerbReturns,
         FinishActing, Archive, ArchiveReturns, FailTurn, Parked, TurnCancelled
    <3>2. CASE LoopStep
      BY <3>2, FoldStep DEF history
    <3>3. CASE ExitStep \/ BootStep \/ SpawnReturns
      BY <3>3 DEF ExitStep, Dispose, Suspends, Suspended, BootStep, BootDiscards, BootRestores,
         Booted, SpawnReturns, history
    <3>4. CASE World
      BY <3>4 DEF World, Deliver, NoteChild, Pause, Resume, Kill, Suspend, WorldUnchanged, Crash
    <3>5. CASE Land \/ WriteFails \/ AbandonedEnds \/ UNCHANGED vars
      BY <3>5 DEF Land, WriteFails, AbandonedEnds, DiskStep, vars, history
    <3> QED
      BY <3>1, <3>2, <3>3, <3>4, <3>5 DEF Next
  <2>2. delivered' \in Nat /\ delivered <= delivered'
    <3>1. delivered' = delivered \/ delivered' = delivered + 1
      BY <1>0, NowStep, RestoreParts DEF Rests, Advances, Opens, Arrives, Forgets
    <3> QED
      BY <1>0, <3>1
  <2>3. \A p \in ran' : p[1] <= delivered'
    <3>1. \A p \in ran : p[1] \in Nat /\ p[1] <= delivered
      BY <1>0, RanParts DEF RanInv
    <3> QED
      BY <1>0, <2>1, <2>2, <3>1
  <2> SUFFICES ASSUME Faultless'
               PROVE  step' \in {"answer", "verb", "result"} =>
                        \A p \in ran : p[1] \in Last(turns').inbox =>
                          p[2] <= Last(turns').results + (IF step' = "verb" THEN 1 ELSE 0)
    <3>1. Faultless' => \A s \in Kept' : \A p \in ran' : p[1] \notin Unanswered(s)
      BY <1>0, <2>1, RanKept
    <3>2. Faultless' => ~reran'
      BY <1>0, <2>1, Zenon DEF RanInv
    <3> QED
      BY <2>1, <2>3, <3>1, <3>2 DEF RanInv
  <2>4. CASE UNCHANGED <<turns, step>>
    BY <1>0, <2>4 DEF RanInv
  <2>5. CASE Think
    <3>1. turns # <<>> /\ Last(turns).phase = "injected" /\ Last(turns) \in Turns
      BY <1>0, <2>5, LastTurn DEF Think, At, TypeInv, TypeOK, TurnStands, PhaseInv
    <3>2. CASE step' = "failing"
      BY <3>2
    <3>3. CASE \E n \in 0..MaxCalls :
                 HoldAndWrite([Last(turns) EXCEPT !.phase = "thought", !.calls = n], "answer")
      <4>1. PICK n \in 0..MaxCalls :
              HoldAndWrite([Last(turns) EXCEPT !.phase = "thought", !.calls = n], "answer")
        BY <3>3
      <4>2. PICK turn : turn = [Last(turns) EXCEPT !.phase = "thought", !.calls = n]
        OBVIOUS
      <4>3. turn \in Turns /\ turn.inbox = Last(turns).inbox
        BY <3>1, <4>2, PhaseSet DEF Turns
      <4>4. HoldAndWrite(turn, "answer")
        BY <4>1, <4>2
      <4>5. Last(turns').inbox = Last(turns).inbox
        BY <1>0, <3>1, <4>3, <4>4, HoldStep
      <4>6. \A m \in Last(turns).inbox : m \in Unanswered(Now)
        <5>1. /\ Len(turns) \in DOMAIN turns /\ turns[Len(turns)] = Last(turns)
              /\ Now.turns = turns
          BY <1>0, <3>1, NowParts DEF Last, TypeInv, TypeOK
        <5> QED
          BY <3>1, <5>1, UnansweredParts
      <4>7. \A p \in ran : p[1] \notin Unanswered(Now)
        BY <1>0, NowParts DEF RanInv
      <4> QED
        BY <4>5, <4>6, <4>7
    <3> QED
      BY <2>5, <3>2, <3>3 DEF Think, HoldAndWrite
  <2>6. CASE VerbReturns
    <3>1. /\ step = "verb" /\ turns # <<>> /\ Last(turns) \in Turns
          /\ Last(turns).results < Last(turns).calls
      BY <1>0, <2>6, LastTurn DEF VerbReturns, At, TypeInv, TypeOK, TurnStands
    <3>2. PICK turn : turn = [Last(turns) EXCEPT !.results = @ + 1]
      OBVIOUS
    <3>3. /\ turn \in Turns /\ turn.inbox = Last(turns).inbox
          /\ turn.results = Last(turns).results + 1 /\ turn.results \in Nat
      BY <3>1, <3>2, TurnReported, LimitsAssumption DEF Turns
    <3>4. HoldAndWrite(turn, "result")
      BY <2>6, <3>2 DEF VerbReturns
    <3>5. Last(turns') = turn /\ step' = "result"
      BY <1>0, <3>1, <3>3, <3>4, HoldStep
    <3>6. \A p \in ran : p[1] \in Last(turns).inbox => p[2] <= Last(turns).results + 1
      BY <1>0, <3>1 DEF RanInv
    <3> QED
      BY <3>3, <3>5, <3>6
  <2>7. CASE TurnStep /\ ~Think /\ ~VerbReturns
    BY <1>3, <2>7 DEF TurnStep, OpenTurn, ResumeTurn, Continue, Inject, FinishActing, Archive,
       ArchiveReturns, FailTurn, Parked, TurnCancelled, Park, Commit, HoldAndWrite
  <2>8. CASE LoopStep \/ Crash \/ BootDiscards \/ BootRestores
    BY <2>8, FoldStep DEF Crash, BootDiscards, BootRestores, Fresh
  <2>9. CASE ~(TurnStep \/ LoopStep \/ Crash \/ BootDiscards \/ BootRestores)
    <3>1. UNCHANGED <<turns, step>>
      BY <2>9 DEF Next, World, Deliver, NoteChild, Pause, Resume, Kill, Suspend, WorldUnchanged,
         ExitStep, Dispose, Suspends, Suspended, BootStep, Booted, SpawnReturns, Land, WriteFails,
         AbandonedEnds, DiskStep, memory, tasks, vars
    <3> QED
      BY <2>4, <3>1
  <2> QED
    BY <2>5, <2>6, <2>7, <2>8, <2>9
<1> QED
  BY <1>1, <1>2, <1>3

\* Verbs are at-most-once (architecture.md:126): no call that answers a message
\* starts twice, whatever is paused, stopped, crashed and restored (engine.py
\* act, boot.py _restore_turns), unless a write failed or was abandoned.
THEOREM VerbsAreAtMostOnce == Spec => []AtMostOnce
<1>1. Init => OrderInv /\ WrittenInv /\ RanInv
  BY OrderInit, WrittenInit DEF Init, RanInv
<1>2. RanInv => AtMostOnce
  BY DEF RanInv, AtMostOnce, Faultless
<1>3. BaseInv /\ BaseInv' /\ OrderInv /\ [Next]_vars => OrderInv'
  BY OrderStep DEF BaseInv
<1> QED
  BY <1>1, <1>2, <1>3, BaseInit, BaseStep, WrittenStep, RanStep, PTL DEF Spec

------------------------------------------------------------------------------
(* A committed turn is frozen, and an open one only goes on.               *)

\* The body of TurnsOnlyGrow.
Grows ==
  Running /\ loop' # "crashed" /\ step # "open" =>
    /\ Len(turns') = Len(turns)
    /\ \A i \in DOMAIN turns :
         \/ turns'[i] = turns[i]
         \/ /\ i = Len(turns) /\ turns[i].phase # "committed"
            /\ Rank(turns[i].phase) <= Rank(turns'[i].phase)
            /\ turns[i].results <= turns'[i].results

LEMMA GrowStep == TypeInv /\ PhaseInv /\ [Next]_vars => Grows
<1> SUFFICES ASSUME TypeInv, PhaseInv, [Next]_vars, Running, loop' # "crashed", step # "open"
             PROVE  /\ Len(turns') = Len(turns)
                    /\ \A i \in DOMAIN turns :
                         \/ turns'[i] = turns[i]
                         \/ /\ i = Len(turns) /\ turns[i].phase # "committed"
                            /\ Rank(turns[i].phase) <= Rank(turns'[i].phase)
                            /\ turns[i].results <= turns'[i].results
  BY DEF Grows
<1>1. CASE Rests \/ Arrives
  BY <1>1 DEF Rests, Arrives
<1>2. CASE Advances
  <2>1. PICK turn \in Turns :
          /\ IsOpen(turns) /\ turns' = Held(turn)
          /\ Rank(Last(turns).phase) <= Rank(turn.phase) /\ Last(turns).results <= turn.results
    BY <1>2 DEF Advances
  <2>2. /\ Len(turns') = Len(turns) /\ turns[Len(turns)] = Last(turns) /\ turns'[Len(turns)] = turn
        /\ \A i \in DOMAIN turns : i # Len(turns) => turns'[i] = turns[i]
    BY <2>1, HeldParts DEF IsOpen
  <2>3. Last(turns).phase # "committed"
    BY <2>1 DEF IsOpen
  <2> QED
    BY <2>1, <2>2, <2>3
<1>3. ~Opens
  BY DEF Opens
<1>4. ~Forgets /\ ~BootRestores
  BY DEF Forgets, Crash, BootDiscards, BootRestores, Booting, Running
<1> QED
  BY <1>1, <1>2, <1>3, <1>4, NowStep

\* While the agent lives a turn is changed only as the last one and while
\* open, and then its phase and its results only grow (model.py
\* Turn.with_phase, engine.py act).
THEOREM TurnsAreFrozen == Spec => TurnsOnlyGrow
<1>1. Init => PhaseInv
  BY DEF Init, PhaseInv
<1>2. Spec => [][Grows]_vars
  BY <1>1, TypeInit, TypeNext, PhaseStep, GrowStep, PTL DEF Spec
<1> QED
  BY <1>2 DEF TurnsOnlyGrow, Grows

------------------------------------------------------------------------------
(* The file never forgets.  Without abandoned writes the memory covers     *)
(* whatever a boot may find, and a write that was begun covers the file.   *)

LEMMA ClearedGrows ==
  TypeInv /\ PhaseInv /\ [Next]_vars => cleared \subseteq cleared'
BY NowStep, RestoreParts DEF Rests, Advances, Opens, Arrives, Forgets

LEMMA CommittedParts ==
  ASSUME NEW ts
  PROVE  /\ \A m : m \in Committed(ts) <=>
                     \E i \in DOMAIN ts : ts[i].phase = "committed" /\ m \in ts[i].inbox
         /\ Committed(ts) \subseteq Seen(ts)
BY DEF Committed, Seen

\* The memory keeps what it holds, but for what is cleared.
LEMMA NowCovers ==
  ASSUME TypeInv, Rests \/ Advances \/ Opens \/ Arrives
  PROVE  /\ cleared \subseteq cleared'
         /\ Seen(turns) \cup inbox \subseteq cleared' \cup Seen(turns') \cup inbox'
         /\ Committed(turns) \subseteq cleared' \cup Committed(turns')
<1>1. CASE Rests \/ Arrives
  BY <1>1 DEF Rests, Arrives
<1>2. CASE Advances
  <2>1. IsOpen(turns) /\ UNCHANGED <<inbox, cleared>>
    BY <1>2 DEF Advances
  <2>2. /\ DOMAIN turns' = DOMAIN turns /\ Seen(turns') = Seen(turns)
        /\ \A i \in DOMAIN turns : i # Len(turns) => turns'[i] = turns[i]
    BY <1>2, AdvancesParts
  <2>3. turns[Len(turns)].phase # "committed"
    BY <2>1 DEF IsOpen, Last
  <2>4. Committed(turns) \subseteq Committed(turns')
    <3> SUFFICES ASSUME NEW m \in Committed(turns) PROVE m \in Committed(turns')
      OBVIOUS
    <3>1. PICK i \in DOMAIN turns : turns[i].phase = "committed" /\ m \in turns[i].inbox
      BY CommittedParts
    <3> QED
      BY <2>2, <2>3, <3>1, CommittedParts
  <2> QED
    BY <2>1, <2>2, <2>4
<1>3. CASE Opens
  <2>1. PICK turn \in Turns, keep \in {<<>>, turns} :
          /\ turns' = Append(keep, turn) /\ inbox' = {} /\ turn.inbox = inbox
          /\ cleared \subseteq cleared' /\ (keep # turns => Seen(turns) \subseteq cleared')
    BY <1>3 DEF Opens
  <2>2. <<>> \in Seq(Turns)
    OBVIOUS
  <2>3. keep \in Seq(Turns)
    BY <2>1, <2>2 DEF TypeInv, TypeOK
  <2>4. /\ Seen(turns') = Seen(keep) \cup inbox /\ DOMAIN turns' = 1..Len(keep) + 1
        /\ DOMAIN keep = 1..Len(keep) /\ Len(keep) \in Nat
        /\ \A i \in DOMAIN keep : turns'[i] = keep[i]
    BY <2>1, <2>3, AppendParts, SeenParts
  <2>5. CASE keep # turns
    BY <2>1, <2>4, <2>5, CommittedParts
  <2>6. CASE keep = turns
    <3>1. ASSUME NEW m \in Committed(turns) PROVE m \in Committed(turns')
      <4>1. PICK i \in DOMAIN turns : turns[i].phase = "committed" /\ m \in turns[i].inbox
        BY CommittedParts
      <4>2. i \in DOMAIN turns' /\ turns'[i] = turns[i]
        BY <2>4, <2>6
      <4> QED
        BY <4>1, <4>2, CommittedParts
    <3> QED
      BY <2>1, <2>4, <2>6, <3>1
  <2> QED
    BY <2>5, <2>6
<1> QED
  BY <1>1, <1>2, <1>3

\* What a restore takes up covers the file it was read from.
LEMMA RestoreCovers ==
  ASSUME TypeInv, BootRestores
  PROVE  /\ Seen(file.turns) \cup file.pending \subseteq cleared' \cup Seen(turns') \cup inbox'
         /\ Committed(file.turns) \subseteq cleared' \cup Committed(turns')
<1>1. Seen(turns') \cup inbox' = Seen(file.turns) \cup file.pending
  BY RestoreParts
<1>2. PICK ts : ts = file.turns
  OBVIOUS
<1>3. ts \in Seq(Turns)
  BY <1>2, RestoreParts, SnapshotParts
<1>4. CASE ~Unobserved(ts)
  BY <1>1, <1>2, <1>4, RestoreParts
<1>5. CASE Unobserved(ts)
  <2>1. ts # <<>> /\ turns' = Front(ts) /\ Last(ts).phase = "observed"
    BY <1>2, <1>5, RestoreParts DEF Unobserved
  <2>2. /\ DOMAIN turns' = 1..Len(ts) - 1 /\ DOMAIN ts = 1..Len(ts) /\ Len(ts) \in Nat
        /\ \A i \in DOMAIN turns' : turns'[i] = ts[i]
        /\ ts[Len(ts)] = Last(ts)
    BY <1>3, <2>1, FrontParts, SeenParts
  <2>3. \A i \in DOMAIN ts : i \in DOMAIN turns' \/ i = Len(ts)
    BY <2>2
  <2>4. ASSUME NEW m \in Committed(ts) PROVE m \in Committed(turns')
    <3>1. PICK i \in DOMAIN ts : ts[i].phase = "committed" /\ m \in ts[i].inbox
      BY CommittedParts
    <3>2. i \in DOMAIN turns' /\ turns'[i] = ts[i]
      BY <2>1, <2>2, <2>3, <3>1
    <3> QED
      BY <3>1, <3>2, CommittedParts
  <2> QED
    BY <1>1, <1>2, <2>4
<1> QED
  BY <1>4, <1>5

\* Which write is awaited, and what the file becomes.
LEMMA DiskCases ==
  ASSUME [Next]_vars
  PROVE  /\ \/ saving' = NoSnapshot
            \/ saving' = Now' /\ file' = file
            \/ saving' = saving /\ (file' = file \/ abandoned # {} \/ file' = NoSnapshot)
         /\ file' \in {file, saving, NoSnapshot} \/ abandoned # {}
<1>1. CASE UNCHANGED disk
  BY <1>1 DEF disk
<1>2. ASSUME UNCHANGED file, saving' = Now' \/ saving' \in {saving, NoSnapshot}
      PROVE  /\ \/ saving' = NoSnapshot
                \/ saving' = Now' /\ file' = file
                \/ saving' = saving /\ file' = file
             /\ file' \in {file, saving, NoSnapshot}
  BY <1>2
<1>4. CASE TurnStep
  <2>1. UNCHANGED file
    BY <1>4 DEF TurnStep, OpenTurn, ResumeTurn, Continue, Inject, Think, Act, VerbReturns,
       FinishActing, Archive, ArchiveReturns, FailTurn, Parked, TurnCancelled, OnlyTurns,
       TurnUnchanged
  <2>2. saving' = Now' \/ saving' \in {saving, NoSnapshot}
    BY <1>4 DEF TurnStep, OpenTurn, ResumeTurn, Continue, Inject, Think, Act, VerbReturns,
       FinishActing, Archive, ArchiveReturns, FailTurn, Parked, TurnCancelled, Park, OnlyTurns,
       Commit, HoldAndWrite, Persist, Now
  <2> QED
    BY <1>2, <2>1, <2>2
<1>5. CASE LoopStep \/ World \/ Dispose \/ Suspended \/ Booted \/ UNCHANGED vars
  <2>1. CASE Crash
    BY <2>1 DEF Crash
  <2>2. CASE Dispose
    BY <2>2 DEF Dispose
  <2>3. CASE ~Crash /\ ~Dispose
    BY <1>1, <1>5, <2>3, FoldStep DEF World, Deliver, NoteChild, Pause, Resume, Kill, Suspend,
       WorldUnchanged, Suspended, Booted, vars
  <2> QED
    BY <2>1, <2>2, <2>3
<1>6. CASE Suspends \/ BootRestores
  BY <1>2, <1>6 DEF Suspends, BootRestores, Persist, memory, Now
<1>7. CASE BootDiscards
  BY <1>7 DEF BootDiscards
<1>8. CASE SpawnReturns
  BY <1>8 DEF SpawnReturns
<1>9. CASE Land \/ WriteFails \/ AbandonedEnds
  BY <1>9 DEF Land, WriteFails, AbandonedEnds
<1> QED
  BY <1>4, <1>5, <1>6, <1>7, <1>8, <1>9 DEF Next, ExitStep, BootStep

LEMMA CoverInit == Init => CoverInv
<1> SUFFICES ASSUME Init PROVE CoverInv
  OBVIOUS
<1>1. abandoned = {} /\ file = NoSnapshot
  BY DEF Init
<1>2. \A s \in Kept : s = Now
  <2>1. CASE kind.root
    BY <2>1 DEF Init, Kept, Now
  <2>2. CASE ~kind.root
    BY <2>2 DEF Init, Kept, Now
  <2> QED
    BY <2>1, <2>2
<1> QED
  BY <1>1, <1>2 DEF CoverInv, Covers

\* Only a boot ends the time after a crash.
LEMMA CrashedBoots ==
  ASSUME loop = "crashed", loop' # "crashed", [Next]_vars
  PROVE  BootDiscards \/ BootRestores
<1>1. ~TurnStep
  BY DEF TurnStep, OpenTurn, ResumeTurn, Continue, Inject, Think, Act, VerbReturns,
     FinishActing, Archive, ArchiveReturns, FailTurn, Parked, TurnCancelled, Wrote, At
<1>2. ~LoopStep /\ ~ExitStep /\ ~SpawnReturns /\ ~Booted
  BY DEF LoopStep, LoopStarts, LoopWakes, LoopPaced, LoopReaps, ExitStep, Dispose, Suspends,
     Suspended, SpawnReturns, Booted
<1>3. ~World
  BY DEF World, Deliver, NoteChild, Pause, Resume, Kill, Suspend, Crash, Running
<1>4. ~Land /\ ~WriteFails /\ ~AbandonedEnds /\ ~UNCHANGED vars
  BY DEF Land, WriteFails, AbandonedEnds, DiskStep, tasks, vars
<1> QED
  BY <1>1, <1>2, <1>3, <1>4 DEF Next, BootStep

\* After a step, the memory covers what a boot may then find.
LEMMA CoverNow ==
  ASSUME BaseInv, BaseInv', CoverInv, [Next]_vars, "abandon" \notin mishaps, abandoned = {},
         loop' # "crashed", NEW s \in Kept'
  PROVE  Covers(Now, s)'
<1>0. /\ TypeInv /\ PhaseInv
      /\ Now.turns = turns /\ Now.pending = inbox /\ Now'.turns = turns' /\ Now'.pending = inbox'
  BY DEF BaseInv, Now
<1>1. CASE s = Now'
  BY <1>1 DEF Covers
<1>2. CASE s \in Kept /\ loop # "crashed" /\ (Rests \/ Advances \/ Opens \/ Arrives)
  <2>1. /\ Seen(s.turns) \cup s.pending \subseteq cleared \cup Seen(turns) \cup inbox
        /\ Committed(s.turns) \subseteq cleared \cup Committed(turns)
    BY <1>0, <1>2 DEF CoverInv, Covers
  <2>2. /\ cleared \subseteq cleared'
        /\ Seen(turns) \cup inbox \subseteq cleared' \cup Seen(turns') \cup inbox'
        /\ Committed(turns) \subseteq cleared' \cup Committed(turns')
    BY <1>0, <1>2, NowCovers
  <2> QED
    BY <1>0, <2>1, <2>2 DEF Covers
<1>3. loop = "crashed" => BootDiscards \/ BootRestores
  BY CrashedBoots
<1>4. CASE BootDiscards
  <2>1. saving = NoSnapshot
    BY <1>4 DEF BootDiscards, Booting, BaseInv, DiskInv
  <2>2. s = Now'
    BY <1>4, <2>1 DEF BootDiscards, Kept
  <2> QED
    BY <1>1, <2>2
<1>5. CASE BootRestores
  <2>1. s = Now' \/ s = file
    BY <1>5 DEF BootRestores, Kept, Persist, Now
  <2> QED
    BY <1>0, <1>1, <1>5, <2>1, RestoreCovers DEF Covers
<1>6. ~Crash
  BY DEF Crash
<1> QED
  BY <1>0, <1>1, <1>2, <1>3, <1>4, <1>5, <1>6, KeptStep, NowStep DEF Forgets

LEMMA CoverStep == BaseInv /\ BaseInv' /\ CoverInv /\ [Next]_vars => CoverInv'
<1> SUFFICES ASSUME BaseInv, BaseInv', CoverInv, [Next]_vars, "abandon" \notin mishaps'
             PROVE  CoverInv'
  BY DEF CoverInv
<1>1. "abandon" \notin mishaps /\ abandoned = {} /\ abandoned' = {}
  <2>1. "abandon" \notin mishaps
    BY MishapsGrow
  <2>2. abandoned = {}
    BY <2>1 DEF CoverInv
  <2> QED
    BY <2>1, <2>2, NoneAbandoned
<1>2. loop' # "crashed" => \A s \in Kept' : Covers(Now, s)'
  BY <1>1, CoverNow
<1>3. ASSUME file' # NoSnapshot, saving' # NoSnapshot PROVE Covers(saving, file)'
  <2>1. CASE saving' = Now' /\ file' = file
    <3>1. loop' # "crashed"
      BY <1>3 DEF BaseInv, DiskInv
    <3>2. file' \in Kept'
      BY <1>3 DEF Kept
    <3>3. Covers(Now, file)'
      BY <1>2, <3>1, <3>2
    <3> QED
      BY <2>1, <3>3 DEF Covers
  <2>2. CASE saving' = saving /\ file' = file
    <3>1. Covers(saving, file)
      BY <1>1, <1>3, <2>2 DEF CoverInv
    <3>2. cleared \subseteq cleared'
      BY ClearedGrows DEF BaseInv
    <3> QED
      BY <2>2, <3>1, <3>2 DEF Covers
  <2> QED
    BY <1>1, <1>3, <2>1, <2>2, DiskCases
<1> QED
  BY <1>1, <1>2, <1>3 DEF CoverInv

\* The body of FileNeverForgets.
Remembers ==
  file # NoSnapshot /\ file' # NoSnapshot /\ "abandon" \notin mishaps' =>
    /\ Seen(file.turns) \cup file.pending
         \subseteq cleared' \cup Seen(file'.turns) \cup file'.pending
    /\ Committed(file.turns) \subseteq cleared' \cup Committed(file'.turns)

LEMMA RememberStep == BaseInv /\ CoverInv /\ [Next]_vars => Remembers
<1> SUFFICES ASSUME BaseInv, CoverInv, [Next]_vars, file # NoSnapshot, file' # NoSnapshot,
                    "abandon" \notin mishaps'
             PROVE  Remembers
  BY DEF Remembers
<1>1. "abandon" \notin mishaps /\ abandoned = {} /\ cleared \subseteq cleared'
  BY MishapsGrow, ClearedGrows DEF CoverInv, BaseInv
<1>2. CASE file' = file
  BY <1>1, <1>2 DEF Remembers
<1>3. CASE file' = saving
  <2>1. Covers(saving, file)
    BY <1>1, <1>3 DEF CoverInv
  <2> QED
    BY <1>1, <1>3, <2>1 DEF Covers, Remembers
<1> QED
  BY <1>1, <1>2, <1>3, DiskCases

\* A message the file holds stays in it and a committed turn stays committed,
\* until the agent dies or the context is cleared (core.py persist, boot.py),
\* unless a write was abandoned.
THEOREM TheFileNeverForgets == Spec => FileNeverForgets
<1>1. Spec => [][Remembers]_vars
  BY BaseInit, BaseStep, CoverInit, CoverStep, RememberStep, PTL DEF Spec
<1> QED
  BY <1>1 DEF FileNeverForgets, Remembers

------------------------------------------------------------------------------
(* Nothing is lost.                                                        *)

\* A root is asked to die by nobody.
LEMMA RootDeath == [Next]_vars => kind' = kind /\ (kind.root /\ death = "none" => death' = "none")
<1> SUFFICES ASSUME [Next]_vars
             PROVE  kind' = kind /\ (kind.root /\ death = "none" => death' = "none")
  OBVIOUS
<1>1. CASE TurnStep
  BY <1>1 DEF TurnStep, OpenTurn, ResumeTurn, Continue, Inject, Think, Act, VerbReturns,
     FinishActing, Archive, ArchiveReturns, FailTurn, Parked, TurnCancelled, OnlyTurns, TurnUnchanged
<1>2. CASE LoopStep
  BY <1>2, FoldStep
<1>3. CASE ExitStep \/ BootStep \/ SpawnReturns
  BY <1>3 DEF ExitStep, Dispose, Suspends, Suspended, BootStep, BootDiscards, BootRestores, Booted,
     SpawnReturns, Fresh, memory
<1>4. CASE World
  BY <1>4 DEF World, Deliver, NoteChild, Pause, Resume, Kill, Suspend, Crash, WorldUnchanged
<1>5. CASE Land \/ WriteFails \/ AbandonedEnds \/ UNCHANGED vars
  BY <1>5 DEF Land, WriteFails, AbandonedEnds, DiskStep, vars, memory
<1> QED
  BY <1>1, <1>2, <1>3, <1>4, <1>5 DEF Next

\* A turn takes a death record only from an exit on record.
LEMMA DiedNow ==
  ASSUME BaseInv, [Next]_vars, death = "none", \A s \in Kept : ~Died(s)
  PROVE  ~Died(Now')
<1>0. /\ TypeInv /\ PhaseInv /\ Now'.turns = turns' /\ turns \in Seq(Turns)
      /\ \A i \in DOMAIN turns : ~turns[i].death
  BY NowParts DEF BaseInv, Now, Died, TypeInv, TypeOK
<1> SUFFICES \A i \in DOMAIN turns' : ~turns'[i].death
  BY <1>0 DEF Died
<1>1. CASE Rests \/ Arrives
  BY <1>0, <1>1 DEF Rests, Arrives
<1>2. CASE Advances
  <2>1. PICK turn \in Turns :
          /\ IsOpen(turns) /\ turns' = Held(turn) /\ (turn.death => Last(turns).death)
    BY <1>2 DEF Advances
  <2>2. /\ DOMAIN turns' = DOMAIN turns /\ Len(turns) \in DOMAIN turns
        /\ turns[Len(turns)] = Last(turns) /\ turns'[Len(turns)] = turn
        /\ \A i \in DOMAIN turns : i # Len(turns) => turns'[i] = turns[i]
    BY <1>0, <2>1, HeldParts DEF IsOpen
  <2> QED
    BY <1>0, <2>1, <2>2
<1>3. CASE Opens
  <2>1. PICK turn \in Turns, keep \in {<<>>, turns} : turns' = Append(keep, turn) /\ ~turn.death
    BY <1>3 DEF Opens
  <2>2. <<>> \in Seq(Turns)
    OBVIOUS
  <2>3. keep \in Seq(Turns)
    BY <1>0, <2>1, <2>2
  <2>4. /\ DOMAIN turns' = 1..Len(keep) + 1 /\ DOMAIN keep = 1..Len(keep) /\ Len(keep) \in Nat
        /\ \A i \in DOMAIN keep : turns'[i] = keep[i] /\ i \in DOMAIN turns /\ keep[i] = turns[i]
        /\ turns'[Len(keep) + 1] = turn
    BY <2>1, <2>3, AppendParts
  <2>5. \A i \in DOMAIN turns' : i \in DOMAIN keep \/ i = Len(keep) + 1
    BY <2>4
  <2> QED
    BY <1>0, <2>1, <2>4, <2>5
<1>4. CASE Forgets
  BY <1>4 DEF Forgets
<1>5. CASE BootRestores
  <2>1. PICK ts : ts = file.turns
    OBVIOUS
  <2>2. ts \in Seq(Turns) /\ \A i \in DOMAIN ts : ~ts[i].death
    BY <1>0, <1>5, <2>1, RestoreParts, SnapshotParts DEF Died
  <2>3. turns' = ts \/ (ts # <<>> /\ turns' = Front(ts))
    BY <1>0, <1>5, <2>1, RestoreParts
  <2> QED
    BY <2>2, <2>3, FrontParts
<1> QED
  BY <1>0, <1>1, <1>2, <1>3, <1>4, <1>5, NowStep

LEMMA RootInit == Init => RootInv
<1> SUFFICES ASSUME Init, kind.root, NEW s \in Kept PROVE ~Died(s)
  BY DEF RootInv, Init
<1>1. s.turns = <<>>
  BY DEF Init, Kept, Now
<1> QED
  BY <1>1 DEF Died

LEMMA RootStep == BaseInv /\ RootInv /\ [Next]_vars => RootInv'
<1> SUFFICES ASSUME BaseInv, RootInv, [Next]_vars, kind.root, kind' = kind PROVE RootInv'
  BY RootDeath DEF RootInv
<1>1. death' = "none" /\ ~Died(Now')
  BY RootDeath, DiedNow DEF RootInv
<1>2. \A s \in Kept' : ~Died(s)
  BY <1>1, KeptStep DEF RootInv
<1> QED
  BY <1>1, <1>2 DEF RootInv, Died

\* How the loop comes to stand at its last save, at rest, or crashed.
LEMMA EndCases ==
  ASSUME [Next]_vars, loop' \in {"saving", "down", "crashed"}
  PROVE  \/ Suspends \/ Suspended \/ Crash
         \/ /\ loop' = loop /\ UNCHANGED <<turns, inbox>>
            /\ UNCHANGED disk \/ Land \/ WriteFails \/ AbandonedEnds
<1>1. ~TurnStep
  BY DEF TurnStep, OpenTurn, ResumeTurn, Continue, Inject, Think, Act, VerbReturns,
     FinishActing, Archive, ArchiveReturns, FailTurn, Parked, TurnCancelled, Wrote, At, OnlyTurns,
     TurnUnchanged
<1>2. ~LoopStep
  BY FoldStep
<1>3. ~Dispose /\ ~SpawnReturns /\ ~BootStep
  BY DEF Dispose, SpawnReturns, BootStep, BootDiscards, BootRestores, Booted
<1>4. CASE World
  BY <1>4 DEF World, Deliver, NoteChild, Pause, Resume, Kill, Suspend, WorldUnchanged, Running
<1>5. CASE Land \/ WriteFails \/ AbandonedEnds \/ UNCHANGED vars
  BY <1>5 DEF Land, WriteFails, AbandonedEnds, DiskStep, vars, memory, tasks, disk
<1> QED
  BY <1>1, <1>2, <1>3, <1>4, <1>5 DEF Next, ExitStep

\* An agent that is gone stays gone.
LEMMA GoneStays ==
  ASSUME loop = "gone", [Next]_vars
  PROVE  loop' = "gone"
<1>1. ~TurnStep
  BY DEF TurnStep, OpenTurn, ResumeTurn, Continue, Inject, Think, Act, VerbReturns,
     FinishActing, Archive, ArchiveReturns, FailTurn, Parked, TurnCancelled, Wrote, At
<1>2. ~LoopStep /\ ~ExitStep /\ ~SpawnReturns /\ ~BootStep
  BY DEF LoopStep, LoopStarts, LoopWakes, LoopPaced, LoopReaps, ExitStep, Dispose, Suspends,
     Suspended, SpawnReturns, BootStep, BootDiscards, BootRestores, Booting, Booted
<1>3. ~World
  BY DEF World, Deliver, NoteChild, Pause, Resume, Kill, Suspend, Crash, Running
<1>4. CASE Land \/ WriteFails \/ AbandonedEnds \/ UNCHANGED vars
  BY <1>4 DEF Land, WriteFails, AbandonedEnds, DiskStep, tasks, vars
<1> QED
  BY <1>1, <1>2, <1>3, <1>4 DEF Next

LEMMA LossInit == Init => LossInv
<1> SUFFICES ASSUME Init PROVE LossInv
  OBVIOUS
<1>1. CASE kind.root
  <2>1. delivered = 0 /\ loop = "new" /\ abandoned = {}
    BY <1>1 DEF Init
  <2>2. 1..0 = {}
    OBVIOUS
  <2> QED
    BY <2>1, <2>2 DEF LossInv
<1>2. CASE ~kind.root
  <2>1. delivered = 1 /\ inbox = {1} /\ loop = "born" /\ abandoned = {}
    BY <1>2 DEF Init
  <2>2. 1..1 = {1}
    OBVIOUS
  <2> QED
    BY <2>1, <2>2 DEF LossInv
<1> QED
  BY <1>1, <1>2

LEMMA LossStep == BaseInv /\ BaseInv' /\ RootInv /\ LossInv /\ [Next]_vars => LossInv'
<1> SUFFICES ASSUME BaseInv, BaseInv', RootInv, LossInv, [Next]_vars, mishaps' = {}
             PROVE  LossInv'
  BY DEF LossInv
<1>0. /\ TypeInv /\ TypeInv' /\ PhaseInv /\ delivered \in Nat
      /\ Now' = [turns |-> turns', pending |-> inbox'] /\ Now = [turns |-> turns, pending |-> inbox]
  BY LimitsAssumption DEF BaseInv, TypeInv, TypeOK, Now
<1>1. mishaps = {} /\ abandoned = {} /\ loop # "crashed"
  BY MishapsGrow DEF LossInv
<1>2. abandoned' = {}
  BY <1>1, NoneAbandoned
<1>3. ~Crash /\ ~WriteFails /\ ~AbandonedEnds
  BY <1>1 DEF Crash, WriteFails, AbandonedEnds, Mishap
<1>4. loop' # "crashed"
  BY <1>1, <1>3, EndCases DEF Suspends, Suspended
<1>5. ASSUME loop' = "saving"
      PROVE  saving' = Now' \/ (saving' = NoSnapshot /\ file' = Now')
  <2>1. CASE Suspends
    BY <1>0, <2>1 DEF Suspends, Persist, memory
  <2>2. CASE loop = "saving" /\ UNCHANGED <<turns, inbox>> /\ (UNCHANGED disk \/ Land)
    BY <1>0, <1>1, <2>2 DEF LossInv, disk, Land
  <2> QED
    BY <1>3, <1>5, <2>1, <2>2, EndCases DEF Suspended
<1>6. ASSUME loop' = "down"
      PROVE  file' = Now'
  <2>1. CASE Suspended
    <3>1. Now # NoSnapshot
      BY <1>0, NowParts, NoSnapshotAssumption
    <3> QED
      BY <1>0, <1>1, <2>1, <3>1 DEF Suspended, Saved, LossInv, memory, disk
  <2>2. CASE loop = "down" /\ UNCHANGED <<turns, inbox>> /\ (UNCHANGED disk \/ Land)
    <3>1. ~Land
      BY <2>2 DEF Land, BaseInv, DiskInv
    <3> QED
      BY <1>0, <1>1, <2>2, <3>1 DEF LossInv, disk
  <2> QED
    BY <1>3, <1>6, <2>1, <2>2, EndCases DEF Suspends
<1>7. ASSUME loop' # "gone"
      PROVE  1..delivered' \subseteq cleared' \cup Seen(turns') \cup inbox'
  <2>1. 1..delivered \subseteq cleared \cup Seen(turns) \cup inbox
    BY <1>1, <1>7, GoneStays DEF LossInv
  <2>2. CASE Rests \/ Advances \/ Opens
    <3>1. delivered' = delivered
      BY <2>2 DEF Rests, Advances, Opens
    <3> QED
      BY <1>0, <2>1, <2>2, <3>1, NowCovers
  <2>3. CASE Arrives
    <3>1. 1..delivered + 1 = (1..delivered) \cup {delivered + 1}
      BY <1>0
    <3> QED
      BY <2>1, <2>3, <3>1 DEF Arrives
  <2>4. CASE BootRestores
    <3>1. file = Now
      BY <1>1, <2>4 DEF BootRestores, Booting, LossInv
    <3>2. file.turns = turns /\ file.pending = inbox
      BY <1>0, <3>1, NowParts
    <3> QED
      BY <1>0, <2>1, <2>4, <3>2, RestoreParts
  <2>5. ~BootDiscards
    <3> SUFFICES ASSUME BootDiscards PROVE FALSE
      OBVIOUS
    <3>1. kind.root /\ loop = "down"
      BY <1>1, <1>7 DEF BootDiscards, Booting
    <3>2. file = Now /\ Now \in Kept
      BY <1>0, <1>1, <3>1, NowParts DEF LossInv
    <3>3. file # NoSnapshot /\ ~Died(file)
      BY <3>1, <3>2 DEF RootInv, Kept
    <3> QED
      BY <3>3 DEF BootDiscards
  <2> QED
    BY <1>0, <1>3, <2>2, <2>3, <2>4, <2>5, NowStep DEF Forgets
<1> QED
  BY <1>2, <1>4, <1>5, <1>6, <1>7 DEF LossInv

\* With no crash, no failed and no abandoned write, every message delivered to
\* an agent is in its inbox or on a turn, or on a turn that a context clear
\* dropped, whatever was paused, stopped and restored (core.py _suspend,
\* boot.py _restore_turns).
THEOREM GracefulStopsLoseNothing == Spec => []NothingLost
<1>1. LossInv => NothingLost
  BY DEF LossInv, NothingLost
<1> QED
  BY <1>1, BaseInit, BaseStep, RootInit, RootStep, LossInit, LossStep, PTL DEF Spec

------------------------------------------------------------------------------
(* A finished turn is archived with its death record.                      *)

\* The turn task of an agent whose report is on record goes on to its commit.
LEMMA FinishTurn == BaseInv /\ FinishInv /\ TurnStep /\ death' = "finished" => FinishInv'
<1> SUFFICES ASSUME BaseInv, FinishInv, TurnStep, death' = "finished" PROVE FinishInv'
  OBVIOUS
<1> DEFINE last == Last(turns)
<1>0. TypeInv /\ (turns # <<>> => last \in Turns)
  BY LastTurn DEF BaseInv, TypeInv, TypeOK
<1>1. CASE Act
  BY <1>1 DEF Act, Wrote, At, TurnUnchanged, HoldAndWrite, FinishInv
<1>2. CASE ~Act
  <2>1. /\ death = "finished" /\ loop = "turn" /\ ~cancelling
        /\ step \in {"verb", "result", "acted", "commit", "archive", "done"}
    <3>1. death = "finished"
      BY <1>2 DEF TurnStep, OpenTurn, ResumeTurn, Continue, Inject, Think, VerbReturns,
         FinishActing, Archive, ArchiveReturns, FailTurn, Parked, TurnCancelled, OnlyTurns
    <3>2. loop = "turn"
      BY DEF TurnStep, OpenTurn, ResumeTurn, Continue, Inject, Think, Act, VerbReturns,
         FinishActing, Archive, ArchiveReturns, FailTurn, Parked, TurnCancelled, Wrote, At
    <3> QED
      BY <3>1, <3>2 DEF FinishInv
  <2>2. VerbReturns \/ FinishActing \/ Archive \/ ArchiveReturns
    BY <1>2, <2>1 DEF TurnStep, OpenTurn, ResumeTurn, Continue, Inject, Think, FailTurn, Parked,
       TurnCancelled, Wrote, At
  <2>3. CASE VerbReturns
    BY <2>1, <2>3 DEF VerbReturns, At, HoldAndWrite, OnlyTurns, TurnUnchanged, FinishInv
  <2>4. CASE FinishActing
    <3>1. turns # <<>> /\ Commit(last) /\ loop' = "turn" /\ ~cancelling'
      BY <1>0, <2>1, <2>4 DEF FinishActing, Wrote, At, TypeInv, TurnStands, OnlyTurns, TurnUnchanged
    <3>2. PICK turn : turn = [last EXCEPT !.phase = "committed", !.death = death # "none"]
      OBVIOUS
    <3>3. turn \in Turns /\ turn.phase = "committed" /\ turn.death
      BY <1>0, <2>1, <3>1, <3>2, PhaseSet DEF Turns
    <3>4. HoldAndWrite(turn, "commit")
      BY <3>1, <3>2 DEF Commit
    <3>5. turns' # <<>> /\ Last(turns') = turn /\ step' = "commit"
      BY <1>0, <3>1, <3>3, <3>4, HoldStep
    <3> QED
      BY <3>1, <3>3, <3>5 DEF FinishInv
  <2>5. CASE Archive \/ ArchiveReturns
    BY <2>1, <2>5 DEF Archive, ArchiveReturns, Wrote, At, OnlyTurns, TurnUnchanged, FinishInv
  <2> QED
    BY <2>2, <2>3, <2>4, <2>5
<1> QED
  BY <1>1, <1>2

LEMMA FinishStep == BaseInv /\ FinishInv /\ [Next]_vars => FinishInv'
<1> SUFFICES ASSUME BaseInv, FinishInv, [Next]_vars, death' = "finished" PROVE FinishInv'
  BY DEF FinishInv
<1>1. CASE TurnStep
  BY <1>1, FinishTurn
<1>2. CASE LoopStep
  <2>1. death = "finished" /\ UNCHANGED <<turns, unarchived>>
    BY <1>2, FoldStep DEF history
  <2>2. loop = "turn" /\ step \in {"done", "cancelled"} /\ ~cancelling'
    BY <1>2, <2>1 DEF LoopStep, LoopStarts, LoopWakes, LoopPaced, LoopReaps, FinishInv
  <2>3. loop' = "dispose"
    BY <1>2, <2>1, FoldStep DEF Exiting
  <2> QED
    BY <2>1, <2>2, <2>3 DEF FinishInv
<1>3. CASE ExitStep
  BY <1>3 DEF ExitStep, Dispose, Suspends, Suspended, memory, history, FinishInv
<1>4. CASE BootStep \/ SpawnReturns \/ Crash
  BY <1>4 DEF BootStep, BootDiscards, BootRestores, Booted, SpawnReturns, Crash, Fresh, memory,
     FinishInv
<1>5. CASE Deliver \/ NoteChild \/ Resume
  BY <1>5 DEF Deliver, NoteChild, Resume, WorldUnchanged, FinishInv
<1>6. CASE Pause \/ Kill \/ Suspend
  BY <1>6 DEF Pause, Kill, Suspend, Exiting
<1>7. CASE Land \/ WriteFails \/ AbandonedEnds \/ UNCHANGED vars
  BY <1>7 DEF Land, WriteFails, AbandonedEnds, DiskStep, vars, memory, tasks, history, FinishInv
<1> QED
  BY <1>1, <1>2, <1>3, <1>4, <1>5, <1>6, <1>7 DEF Next, World

\* Once a report is on record nothing cuts the finishing turn short: it is
\* committed with its death record and archived before the agent is disposed
\* (verbs finish, core.py _commit, _dispose).
THEOREM FinishedTurnsAreArchived == Spec => []FinishIsArchived
<1>1. Init => FinishInv
  BY DEF Init, FinishInv
<1>2. FinishInv => FinishIsArchived
  BY DEF FinishInv, FinishIsArchived
<1> QED
  BY <1>1, <1>2, BaseInit, BaseStep, FinishStep, PTL DEF Spec
==============================================================================
