----------------------------- MODULE AgentProofs -----------------------------
(***************************************************************************)
(* Proofs about Agent, for every number of messages, calls, restarts and   *)
(* failures and every history limit.                                       *)
(***************************************************************************)
EXTENDS Agent, TLAPS

(* Turns, turn lists and snapshots.                                        *)

LEMMA PhaseSet == Range(Phases) = {"observed", "injected", "thought", "acted", "committed"}
<1>1. DOMAIN Phases = 1..5
      BY DEF Phases
<1>2. /\ Phases[1] = "observed" /\ Phases[2] = "injected" /\ Phases[3] = "thought"
      /\ Phases[4] = "acted" /\ Phases[5] = "committed"
      BY DEF Phases
<1>3. \A i \in 1..5 : i = 1 \/ i = 2 \/ i = 3 \/ i = 4 \/ i = 5
      OBVIOUS
<1> QED BY <1>1, <1>2, <1>3 DEF Range

LEMMA TurnNoted ==
  ASSUME NEW turn \in Turns, NEW line \in Lines
  PROVE  Noted(turn, line) \in Turns
BY DEF Turns, Noted, Lines

LEMMA TurnAdvanced ==
  ASSUME NEW turn \in Turns
  PROVE  /\ \A p \in Range(Phases) : [turn EXCEPT !.phase = p] \in Turns
         /\ \A p \in Range(Phases), n \in 0..MaxCalls :
              [turn EXCEPT !.phase = p, !.calls = n] \in Turns
         /\ \A p \in Range(Phases), d \in BOOLEAN :
              [turn EXCEPT !.phase = p, !.death = d] \in Turns
BY DEF Turns

LEMMA TurnReported ==
  ASSUME NEW turn \in Turns, turn.results < turn.calls
  PROVE  [turn EXCEPT !.results = @ + 1] \in Turns
BY LimitsAssumption DEF Turns

LEMMA LastTurn ==
  ASSUME NEW ts \in Seq(Turns), ts # <<>>
  PROVE  Last(ts) \in Turns /\ Front(ts) \in Seq(Turns)
BY DEF Last, Front

LEMMA HeldTurns ==
  ASSUME turns \in Seq(Turns), turns # <<>>, NEW turn \in Turns
  PROVE  Held(turn) \in Seq(Turns) /\ Held(turn) # <<>> /\ Last(Held(turn)) = turn
BY DEF Held, Last

LEMMA SnapshotOf ==
  ASSUME NEW ts \in Seq(Turns), NEW pending \in SUBSET Messages
  PROVE  [turns |-> ts, pending |-> pending] \in Snapshots
BY DEF Snapshots

LEMMA SnapshotParts ==
  ASSUME NEW s \in Snapshots
  PROVE  s.turns \in Seq(Turns) /\ s.pending \in SUBSET Messages
BY DEF Snapshots

------------------------------------------------------------------------------
(* The type invariant.  It is not inductive alone: a running turn has a    *)
(* turn to work on, a verb that runs has a result to report, and only a    *)
(* turn task that has not ended is to be cancelled.                        *)

TurnStands ==
  /\ loop = "turn" => step # "none"
  /\ step \notin {"none", "open", "done", "cancelled"} => turns # <<>>
  /\ step = "verb" => Last(turns).results < Last(turns).calls

TypeInv ==
  /\ TypeOK
  /\ TurnStands
  /\ cancelling => loop = "turn" /\ step \notin {"none", "done", "cancelled"}

LEMMA TypeInit == Init => TypeInv
<1> SUFFICES ASSUME Init PROVE TypeInv
    OBVIOUS
<1>1. turns \in Seq(Turns)
      BY DEF Init
<1>2. kind.root => inbox = {} /\ delivered = 0 /\ loop = "new" /\ saving = NoSnapshot
      BY DEF Init
<1>3. ~kind.root => inbox = {1} /\ delivered = 1 /\ loop = "born"
                    /\ saving = [turns |-> <<>>, pending |-> {1}]
      BY DEF Init
<1>4. 1 \in Messages /\ 1 \in 0..MaxMessages /\ 0 \in 0..MaxMessages
      BY LimitsAssumption DEF Messages
<1>5. inbox \subseteq Messages /\ delivered \in 0..MaxMessages /\ loop \in {"new", "born"}
      BY <1>2, <1>3, <1>4
<1>6. saving \in Snapshots \cup {NoSnapshot}
  <2>1. [turns |-> <<>>, pending |-> {1}] \in Snapshots
        BY <1>4 DEF Snapshots
  <2> QED BY <2>1, <1>2, <1>3
<1>7. wake \in BOOLEAN /\ paused \in BOOLEAN /\ suspending \in BOOLEAN /\ paced \in BOOLEAN
      /\ pauseCancel \in BOOLEAN /\ cancelling \in BOOLEAN /\ reran \in BOOLEAN
      /\ unarchived \in BOOLEAN
      BY Zenon DEF Init
<1>8. TurnStands
      BY DEF Init, TurnStands
<1> QED BY <1>1, <1>5, <1>6, <1>7, <1>8, LimitsAssumption DEF Init, TypeOK, TypeInv

\* Only the turn list, the step and the write change, and they are right.
LEMMA FoldType ==
  ASSUME TypeInv, NEW status, status.paced \in BOOLEAN, Fold(status),
         status.openTurn = IsOpen(turns), UNCHANGED turns
  PROVE  /\ loop' \in {"dispose", "suspend", "wait", "pace", "turn"}
         /\ step' \in {"none", "open", "resume"}
         /\ wake' \in BOOLEAN /\ paced' \in BOOLEAN
         /\ TurnStands'
<1>1. PICK action : action = Transition(status, kind.interval)
      OBVIOUS
<1>2. action \in {"stop", "wait", "pace", "run", "resume"}
      BY <1>1 DEF Transition
<1>3. action = "resume" => turns # <<>>
      BY <1>1 DEF Transition, IsOpen
<1>4. CASE action = "stop"
      BY <1>1, <1>4 DEF Fold, Leave, TypeInv, TypeOK, TurnStands
<1>5. CASE action = "wait"
      BY <1>1, <1>5 DEF Fold, TurnStands
<1>6. CASE action = "pace"
      BY <1>1, <1>6 DEF Fold, TypeInv, TypeOK, TurnStands
<1>7. CASE action \in {"run", "resume"}
      BY <1>1, <1>3, <1>7 DEF Fold, TypeInv, TypeOK, TurnStands
<1> QED BY <1>2, <1>4, <1>5, <1>6, <1>7

\* A held turn is a turn to work on, and its list a snapshot to write.
LEMMA HoldType ==
  ASSUME TypeInv, turns # <<>>, NEW turn \in Turns,
         turns' = Held(turn), saving' = [turns |-> turns', pending |-> inbox]
  PROVE  /\ turns' \in Seq(Turns) /\ turns' # <<>> /\ Last(turns') = turn
         /\ saving' \in Snapshots
<1>1. turns' \in Seq(Turns) /\ turns' # <<>> /\ Last(turns') = turn
      BY HeldTurns DEF TypeInv, TypeOK
<1> QED BY <1>1, SnapshotOf DEF TypeInv, TypeOK

\* RecordDelta keeps turns and pending lines well typed, and drops no turn.
LEMMA RecordType ==
  ASSUME TypeInv, RecordDelta("agent")
  PROVE  /\ turns' \in Seq(Turns) /\ deltas' \subseteq Lines
         /\ turns # <<>> => turns' # <<>>
<1>0. "agent" \in Lines
      BY DEF Lines
<1>1. CASE IsOpen(turns)
  <2>1. turns # <<>> /\ Noted(Last(turns), "agent") \in Turns
        BY <1>0, <1>1, LastTurn, TurnNoted DEF IsOpen, TypeInv, TypeOK
  <2> QED BY <1>1, <2>1, HeldTurns DEF RecordDelta, TypeInv, TypeOK
<1>2. CASE ~IsOpen(turns)
      BY <1>0, <1>2 DEF RecordDelta, TypeInv, TypeOK
<1> QED BY <1>1, <1>2

LEMMA LoopType == TypeInv /\ LoopStep => TypeInv'
<1> SUFFICES ASSUME TypeInv, LoopStep PROVE TypeInv'
    OBVIOUS
<1>0. Status.paced \in BOOLEAN /\ Status.openTurn = IsOpen(turns)
      BY DEF Status, TypeInv, TypeOK
<1>1. CASE LoopStarts
      BY <1>0, <1>1, FoldType DEF LoopStarts, LoopUnchanged, disk, history, TypeInv, TypeOK
<1>2. CASE LoopWakes
      BY <1>0, <1>2, FoldType DEF LoopWakes, LoopUnchanged, disk, history, TypeInv, TypeOK
<1>3. CASE LoopPaced
  <2>0. UNCHANGED turns
        BY <1>3 DEF LoopPaced, LoopUnchanged
  <2>1. PICK action : action = Transition([Status EXCEPT !.paced = TRUE], kind.interval)
        OBVIOUS
  <2>2. /\ action \in {"stop", "wait", "pace", "run", "resume"}
        /\ action = "resume" => turns # <<>>
        BY <2>1 DEF Transition, Status, IsOpen
  <2>a. [Status EXCEPT !.paced = TRUE].paced = TRUE
        BY Zenon DEF Status
  <2>b. TRUE \in BOOLEAN /\ FALSE \in BOOLEAN
        BY Zenon
  <2>3. /\ loop' \in {"dispose", "suspend", "wait", "pace", "turn"}
        /\ step' \in {"none", "open", "resume"}
        /\ wake' \in BOOLEAN /\ paced' \in BOOLEAN /\ TurnStands'
    <3>1. CASE action = "stop"
          BY <1>3, <2>0, <2>1, <3>1 DEF LoopPaced, Fold, Leave, TypeInv, TypeOK, TurnStands
    <3>2. CASE action = "wait"
          BY <1>3, <2>0, <2>1, <2>a, <2>b, <3>2 DEF LoopPaced, Fold, TypeInv, TypeOK, TurnStands
    <3>3. CASE action = "pace"
          BY <1>3, <2>0, <2>1, <2>a, <2>b, <3>3 DEF LoopPaced, Fold, TypeInv, TypeOK, TurnStands
    <3>4. CASE action \in {"run", "resume"}
          BY <1>3, <2>0, <2>1, <2>2, <2>b, <3>4 DEF LoopPaced, Fold, TypeInv, TypeOK, TurnStands
    <3> QED BY <2>2, <3>1, <3>2, <3>3, <3>4
  <2> QED BY <1>3, <2>3 DEF LoopPaced, LoopUnchanged, disk, history, TypeInv, TypeOK
<1>4. CASE LoopReaps
  <2>1. UNCHANGED turns
        BY <1>4 DEF LoopReaps, LoopUnchanged
  <2>0. pauseCancel' \in BOOLEAN /\ cancelling' \in BOOLEAN
        BY <1>4, Zenon DEF LoopReaps
  <2>2. CASE Leave
        BY <1>4, <2>0, <2>1, <2>2 DEF Leave, LoopReaps, LoopUnchanged, disk, history,
           TypeInv, TypeOK, TurnStands
  <2>3. CASE Fold(Status)
        BY <1>0, <1>4, <2>0, <2>1, <2>3, FoldType
           DEF LoopReaps, LoopUnchanged, disk, history, TypeInv, TypeOK
  <2> QED BY <1>4, <2>2, <2>3 DEF LoopReaps
<1> QED BY <1>1, <1>2, <1>3, <1>4 DEF LoopStep

LEMMA TroubleType ==
  ASSUME TypeInv
  PROVE  /\ Untroubled => troubles' \in 0..MaxTroubles
                          /\ mishaps' \subseteq {"crash", "badWrite", "abandon"}
         /\ Trouble => troubles' \in 0..MaxTroubles
                       /\ mishaps' \subseteq {"crash", "badWrite", "abandon"}
         /\ Mishap("crash") \/ Mishap("badWrite") \/ Mishap("abandon") =>
              troubles' \in 0..MaxTroubles
              /\ mishaps' \subseteq {"crash", "badWrite", "abandon"}
<1>0. /\ MaxTroubles \in Nat /\ troubles \in 0..MaxTroubles
      /\ mishaps \subseteq {"crash", "badWrite", "abandon"}
      BY LimitsAssumption DEF TypeInv, TypeOK
<1>1. CASE Untroubled
      BY <1>0, <1>1 DEF Untroubled
<1>2. CASE Trouble
      BY <1>0, <1>2 DEF Trouble
<1>3. CASE Mishap("crash")
      BY <1>0, <1>3 DEF Mishap
<1>4. CASE Mishap("badWrite")
      BY <1>0, <1>4 DEF Mishap
<1>5. CASE Mishap("abandon")
      BY <1>0, <1>5 DEF Mishap
<1> QED BY <1>1, <1>2, <1>3, <1>4, <1>5

LEMMA OpenType == TypeInv /\ OpenTurn => TypeInv'
<1> SUFFICES ASSUME TypeInv, OpenTurn PROVE TypeInv'
    OBVIOUS
<1> DEFINE keep == IF Len(turns) >= HistoryLimit THEN <<>> ELSE turns
           turn == [phase |-> "observed", inbox |-> inbox, delta |-> deltas,
                    calls |-> 0, results |-> 0, death |-> FALSE]
<1>1. keep \in Seq(Turns)
      BY DEF TypeInv, TypeOK
<1>2. turn \in Turns /\ Noted(turn, "agent") \in Turns
  <2>1. FALSE \in BOOLEAN /\ "observed" \in Range(Phases)
        BY Zenon, PhaseSet
  <2>2. turn \in Turns
        BY <2>1, LimitsAssumption DEF Turns, TypeInv, TypeOK
  <2> QED BY <2>2, TurnNoted DEF Lines
<1>3. turns' \in Seq(Turns) /\ turns' # <<>>
  <2>1. turns' = Append(keep, turn) \/ turns' = Append(keep, Noted(turn, "agent"))
        BY DEF OpenTurn
  <2> HIDE DEF keep, turn
  <2> QED BY <1>1, <1>2, <2>1
<1>4. inbox' = {} /\ deltas' = {} /\ saving' = [turns |-> turns', pending |-> {}]
      BY DEF OpenTurn, Drained, Persist
<1>5. saving' \in Snapshots
      BY <1>3, <1>4, SnapshotOf
<1>6. cleared' \subseteq Messages
  <2>0. \A i \in DOMAIN turns : turns[i] \in Turns
        BY DEF TypeInv, TypeOK
  <2>1. \A i \in DOMAIN turns : turns[i].inbox \subseteq Messages
        BY <2>0 DEF Turns
  <2> QED BY <2>1 DEF OpenTurn, TypeInv, TypeOK
<1>7. step' \in {"intent", "failing"}
      BY DEF OpenTurn
<1>8. troubles' \in 0..MaxTroubles /\ mishaps' \subseteq {"crash", "badWrite", "abandon"}
      BY TroubleType DEF OpenTurn
<1>9. UNCHANGED <<kind, death, paused, suspending, paced, pauseCancel, wake, loop, cancelling,
                  file, abandoned, delivered, ran, reran, unarchived>>
      BY DEF OpenTurn, TurnUnchanged
<1> HIDE DEF keep, turn
<1> QED BY <1>3, <1>4, <1>5, <1>6, <1>7, <1>8, <1>9 DEF TypeInv, TypeOK, TurnStands

\* The rest of the turn task.
LEMMA TurnType == TypeInv /\ TurnStep => TypeInv'
<1> SUFFICES ASSUME TypeInv, TurnStep PROVE TypeInv'
    OBVIOUS
<1>0. CASE OpenTurn
      BY <1>0, OpenType
<1> USE DEF TypeInv, TypeOK
<1>a. turns # <<>> => Last(turns) \in Turns /\ Noted(Last(turns), "agent") \in Turns
      BY LastTurn, TurnNoted DEF Lines
<1>b. /\ "injected" \in Range(Phases) /\ "thought" \in Range(Phases)
      /\ "acted" \in Range(Phases) /\ "committed" \in Range(Phases)
      BY PhaseSet
<1>c. TRUE \in BOOLEAN /\ FALSE \in BOOLEAN /\ (death # "none") \in BOOLEAN
      BY Zenon
<1>1. CASE ResumeTurn
  <2>1. turns # <<>>
        BY <1>1 DEF ResumeTurn, At, TurnStands
  <2>2. /\ turns' = Held(Noted(Last(turns), "agent"))
        /\ saving' = [turns |-> turns', pending |-> inbox]
        /\ step' \in {"intent", "failing"}
        BY <1>1 DEF ResumeTurn, HoldAndWrite, Persist
  <2>3. turns' \in Seq(Turns) /\ turns' # <<>> /\ saving' \in Snapshots
        BY <1>a, <2>1, <2>2, HoldType
  <2>4. troubles' \in 0..MaxTroubles /\ mishaps' \subseteq {"crash", "badWrite", "abandon"}
        BY <1>1, TroubleType DEF ResumeTurn
  <2> QED BY <1>1, <2>2, <2>3, <2>4 DEF ResumeTurn, OnlyTurns, TurnUnchanged, TurnStands
<1>2. ASSUME Commit(Last(turns)), turns # <<>>, OnlyTurns,
             UNCHANGED <<death, troubles, mishaps, cleared, ran, reran>>
      PROVE  TypeInv'
  <2>1. [Last(turns) EXCEPT !.phase = "committed", !.death = death # "none"] \in Turns
        BY <1>2, <1>a, <1>b, <1>c, TurnAdvanced
  <2>2. /\ turns' = Held([Last(turns) EXCEPT !.phase = "committed", !.death = death # "none"])
        /\ saving' = [turns |-> turns', pending |-> inbox] /\ step' = "commit"
        /\ unarchived' = TRUE
        BY <1>2 DEF Commit, HoldAndWrite, Persist
  <2>3. turns' \in Seq(Turns) /\ turns' # <<>> /\ saving' \in Snapshots
        BY <1>2, <2>1, <2>2, HoldType
  <2>4. unarchived' \in BOOLEAN
        BY <1>c, <2>2
  <2> QED BY <1>2, <2>2, <2>3, <2>4 DEF OnlyTurns, TurnUnchanged, TurnStands
<1>3. CASE Continue
  <2>1. turns # <<>>
        BY <1>3 DEF Continue, Wrote, At, TurnStands
  <2>2. CASE Commit(Last(turns))
        BY <1>2, <1>3, <2>1, <2>2 DEF Continue
  <2>3. CASE step' \in {"inject", "think"} /\ UNCHANGED <<turns, saving, unarchived>>
        BY <1>3, <2>1, <2>3 DEF Continue, OnlyTurns, TurnUnchanged, TurnStands
  <2> QED BY <1>3, <2>2, <2>3 DEF Continue
<1>4. CASE Inject
  <2>1. turns # <<>> /\ [Last(turns) EXCEPT !.phase = "injected"] \in Turns
        BY <1>4, <1>a, <1>b, TurnAdvanced DEF Inject, At, TurnStands
  <2>2. turns' \in Seq(Turns) /\ turns' # <<>>
        BY <1>4, <2>1, HeldTurns DEF Inject
  <2> QED BY <1>4, <2>2 DEF Inject, OnlyTurns, TurnUnchanged, TurnStands
<1>5. CASE Think
  <2>1. turns # <<>>
        BY <1>5 DEF Think, At, TurnStands
  <2>2. PICK turn \in Turns : /\ turns' = Held(turn)
                              /\ saving' = [turns |-> turns', pending |-> inbox]
                              /\ step' \in {"answer", "failing"}
    <3>1. CASE \E n \in 0..MaxCalls :
                 HoldAndWrite([Last(turns) EXCEPT !.phase = "thought", !.calls = n], "answer")
          BY <1>a, <1>b, <2>1, <3>1, TurnAdvanced DEF HoldAndWrite, Persist
    <3>2. CASE HoldAndWrite(Noted(Last(turns), "agent"), "failing")
          BY <1>a, <2>1, <3>2 DEF HoldAndWrite, Persist
    <3> QED BY <1>5, <3>1, <3>2 DEF Think
  <2>3. turns' \in Seq(Turns) /\ turns' # <<>> /\ saving' \in Snapshots
        BY <2>1, <2>2, HoldType
  <2>4. troubles' \in 0..MaxTroubles /\ mishaps' \subseteq {"crash", "badWrite", "abandon"}
        BY <1>5, TroubleType DEF Think
  <2>5. UNCHANGED <<kind, inbox, deltas, death, paused, suspending, paced, pauseCancel, wake,
                    loop, cancelling, file, abandoned, delivered, cleared, ran, reran,
                    unarchived>>
        BY <1>5 DEF Think, OnlyTurns, TurnUnchanged
  <2> QED BY <2>2, <2>3, <2>4, <2>5 DEF TurnStands

<1>6. CASE Act
  <2> DEFINE turn == Last(turns)
  <2>1. turns # <<>> /\ turn \in Turns
        BY <1>6, <1>a DEF Act, Wrote, At, TurnStands
  <2>2. UNCHANGED <<kind, inbox, deltas, paused, suspending, paced, pauseCancel, loop,
                    cancelling, file, abandoned, delivered, troubles, mishaps, cleared,
                    unarchived>>
        BY <1>6 DEF Act, TurnUnchanged
  <2>3. CASE Unreported(turn) /\ Starts(turn)
    <3>1. turn.results < turn.calls /\ turn.inbox \subseteq Messages
          /\ turn.results + 1 \in 1..MaxCalls
          BY <2>1, <2>3, LimitsAssumption DEF Unreported, Turns
    <3>2. ran' \subseteq Messages \X (1..MaxCalls)
          BY <2>3, <3>1 DEF Starts
    <3>3. reran' \in BOOLEAN
      <4>1. CASE reran'
            BY <4>1, <2>3, Zenon DEF Starts
      <4> QED BY <2>3, Zenon DEF Starts
    <3>4. CASE step' = "verb" /\ UNCHANGED <<turns, saving, death, wake>>
          BY <2>1, <2>2, <3>1, <3>2, <3>3, <3>4 DEF TurnStands
    <3>5. CASE /\ death' = (IF death = "none" THEN "finished" ELSE death)
               /\ wake' = TRUE
               /\ HoldAndWrite([turn EXCEPT !.results = @ + 1], "result")
      <4>1. [turn EXCEPT !.results = @ + 1] \in Turns
            BY <2>1, <3>1, TurnReported
      <4>2. /\ turns' = Held([turn EXCEPT !.results = @ + 1])
            /\ saving' = [turns |-> turns', pending |-> inbox] /\ step' = "result"
            BY <3>5 DEF HoldAndWrite, Persist
      <4>3. turns' \in Seq(Turns) /\ turns' # <<>> /\ saving' \in Snapshots
            BY <2>1, <4>1, <4>2, HoldType
      <4>4. wake' \in BOOLEAN /\ death' \in {"none", "killed", "failed", "finished"}
            BY <1>c, <3>5
      <4> QED BY <2>2, <3>2, <3>3, <4>2, <4>3, <4>4 DEF TurnStands
    <3> QED BY <1>6, <2>3, <3>4, <3>5 DEF Act
  <2>4. CASE ~Unreported(turn)
    <3>1. [turn EXCEPT !.phase = "acted"] \in Turns
          BY <1>b, <2>1, TurnAdvanced
    <3>2. /\ turns' = Held([turn EXCEPT !.phase = "acted"])
          /\ saving' = [turns |-> turns', pending |-> inbox] /\ step' = "acted"
          /\ UNCHANGED <<ran, reran, death, wake>>
          BY <1>6, <2>4 DEF Act, HoldAndWrite, Persist
    <3>3. turns' \in Seq(Turns) /\ turns' # <<>> /\ saving' \in Snapshots
          BY <2>1, <3>1, <3>2, HoldType
    <3> QED BY <2>2, <3>2, <3>3 DEF TurnStands
  <2> QED BY <1>6, <2>3, <2>4 DEF Act
<1>7. CASE VerbReturns
  <2>1. turns # <<>> /\ Last(turns) \in Turns /\ Last(turns).results < Last(turns).calls
        BY <1>7, <1>a DEF VerbReturns, At, TurnStands
  <2>2. /\ turns' = Held([Last(turns) EXCEPT !.results = @ + 1])
        /\ saving' = [turns |-> turns', pending |-> inbox] /\ step' = "result"
        BY <1>7 DEF VerbReturns, HoldAndWrite, Persist
  <2>3. [Last(turns) EXCEPT !.results = @ + 1] \in Turns
        BY <2>1, TurnReported
  <2>4. turns' \in Seq(Turns) /\ turns' # <<>> /\ saving' \in Snapshots
        BY <2>1, <2>2, <2>3, HoldType
  <2> QED BY <1>7, <2>2, <2>4 DEF VerbReturns, OnlyTurns, TurnUnchanged, TurnStands
<1>8. CASE FinishActing
      BY <1>2, <1>8 DEF FinishActing, Wrote, At, TurnStands
<1>9. CASE Archive
      BY <1>9, <1>c DEF Archive, Wrote, At, OnlyTurns, TurnUnchanged, TurnStands
<1>10. CASE ArchiveReturns
      BY <1>10 DEF ArchiveReturns, At, OnlyTurns, TurnUnchanged, TurnStands
<1>11. CASE FailTurn
      BY <1>11, <1>c DEF FailTurn, Wrote, At, TurnUnchanged, TurnStands
<1>12. CASE Parked
      BY <1>12 DEF Parked, Wrote, At, OnlyTurns, TurnUnchanged, TurnStands
<1>13. CASE TurnCancelled
  <2>0. ~cancelling'
        BY <1>13 DEF TurnCancelled
  <2>1. /\ cancelling' \in BOOLEAN
        /\ UNCHANGED <<kind, inbox, death, paused, suspending, paced, pauseCancel, wake, loop,
                       file, delivered, cleared, ran, reran, unarchived>>
        BY <1>13, <1>c DEF TurnCancelled
  <2>2. /\ abandoned' \subseteq Snapshots /\ troubles' \in 0..MaxTroubles
        /\ mishaps' \subseteq {"crash", "badWrite", "abandon"}
        BY <1>13, TroubleType DEF TurnCancelled, AbandonSave, Saved
  <2>3. CASE Park /\ step \notin {"open", "resume", "failing", "park"}
    <3>1. turns' \in Seq(Turns) /\ deltas' \subseteq Lines
          BY <2>3, RecordType DEF Park
    <3>2. saving' \in Snapshots /\ step' = "park"
          BY <2>3, <3>1, SnapshotOf DEF Park, Persist
    <3>3. turns' # <<>>
      <4>1. CASE turns # <<>>
            BY <2>3, <4>1, RecordType DEF Park
      <4>2. CASE turns = <<>>
            BY <1>13, <2>3, <4>2 DEF TurnStands, TurnCancelled
      <4> QED BY <4>1, <4>2
    <3> QED BY <2>0, <2>1, <2>2, <3>1, <3>2, <3>3 DEF TurnStands
  <2>4. CASE step' = "cancelled" /\ saving' = NoSnapshot /\ UNCHANGED <<turns, deltas>>
        BY <2>0, <2>1, <2>2, <2>4 DEF TurnStands
  <2> QED BY <1>13, <2>3, <2>4 DEF TurnCancelled
<1> QED BY <1>0, <1>1, <1>3, <1>4, <1>5, <1>6, <1>7, <1>8, <1>9, <1>10, <1>11, <1>12, <1>13
        DEF TurnStep

\* The exits, the birth write and the disk.
LEMMA ExitType ==
  TypeInv /\ (ExitStep \/ SpawnReturns \/ Booted \/ Land \/ WriteFails \/ AbandonedEnds)
    => TypeInv'
<1> SUFFICES ASSUME TypeInv,
                    ExitStep \/ SpawnReturns \/ Booted \/ Land \/ WriteFails \/ AbandonedEnds
             PROVE  TypeInv'
    OBVIOUS
<1> USE DEF TypeInv, TypeOK, memory, history, disk, tasks
<1>1. CASE Dispose
      BY <1>1 DEF Dispose, TurnStands
<1>2. CASE Suspends
  <2>1. saving' \in Snapshots
        BY <1>2, SnapshotOf DEF Suspends, Persist
  <2> QED BY <1>2, <2>1 DEF Suspends, TurnStands
<1>3. CASE Suspended
      BY <1>3 DEF Suspended, TurnStands
<1>4. CASE SpawnReturns
  <2>1. /\ abandoned' \subseteq Snapshots /\ troubles' \in 0..MaxTroubles
        /\ mishaps' \subseteq {"crash", "badWrite", "abandon"}
        BY <1>4, TroubleType DEF SpawnReturns, AbandonSave, Saved
  <2> QED BY <1>4, <2>1 DEF SpawnReturns, TurnStands
<1>5. CASE Booted
      BY <1>5 DEF Booted, TurnStands
<1>6. CASE Land
      BY <1>6 DEF Land, DiskStep, TurnStands
<1>7. CASE WriteFails
  <2>1. troubles' \in 0..MaxTroubles /\ mishaps' \subseteq {"crash", "badWrite", "abandon"}
        BY <1>7, TroubleType DEF WriteFails
  <2> QED BY <1>7, <2>1 DEF WriteFails, DiskStep, TurnStands
<1>8. CASE AbandonedEnds
      BY <1>8 DEF AbandonedEnds, DiskStep, TurnStands
<1> QED BY <1>1, <1>2, <1>3, <1>4, <1>5, <1>6, <1>7, <1>8 DEF ExitStep

\* What others do to the agent.
LEMMA WorldType == TypeInv /\ World => TypeInv'
<1> SUFFICES ASSUME TypeInv, World PROVE TypeInv'
    OBVIOUS
<1> USE DEF TypeInv, TypeOK, disk, WorldUnchanged
<1>a. TRUE \in BOOLEAN /\ FALSE \in BOOLEAN /\ (loop = "turn") \in BOOLEAN
      BY Zenon
<1>b. CancelTurn => /\ cancelling' \in BOOLEAN
                    /\ cancelling' => \/ cancelling
                                      \/ loop = "turn" /\ step \notin {"done", "cancelled"}
      BY Zenon DEF CancelTurn
<1>c. loop = "turn" => step # "none"
      BY DEF TurnStands
<1>1. CASE Deliver
  <2>1. delivered + 1 \in Messages /\ delivered + 1 \in 0..MaxMessages
        BY <1>1, LimitsAssumption DEF Deliver, Messages
  <2> QED BY <1>1, <1>a, <2>1 DEF Deliver, TurnStands
<1>2. CASE NoteChild
      BY <1>2, TroubleType DEF NoteChild, TurnStands, Lines
<1>3. CASE Pause
      BY <1>3, <1>a, <1>b, <1>c, TroubleType DEF Pause, TurnStands
<1>4. CASE Resume
  <2>1. /\ paused' \in BOOLEAN /\ wake' \in BOOLEAN
        /\ UNCHANGED <<turns, inbox, deltas, death, suspending, pauseCancel, cancelling,
                       delivered, troubles, mishaps>>
        BY <1>4, <1>a DEF Resume
  <2>2. UNCHANGED <<kind, paced, loop, step, file, saving, abandoned, cleared, ran, reran,
                    unarchived>>
        BY <1>4 DEF Resume
  <2> QED BY <2>1, <2>2 DEF TurnStands
<1>5. CASE Kill
      BY <1>5, <1>a, <1>b, <1>c DEF Kill, TurnStands
<1>6. CASE Suspend
      BY <1>6, <1>a, <1>b, <1>c, TroubleType DEF Suspend, TurnStands
<1>7. CASE Crash
  <2>1. <<>> \in Seq(Turns)
        OBVIOUS
  <2> QED BY <1>7, <1>a, <2>1, TroubleType DEF Crash, TurnStands
<1> QED BY <1>1, <1>2, <1>3, <1>4, <1>5, <1>6, <1>7 DEF World

LEMMA BootType == TypeInv /\ BootStep => TypeInv'
<1> SUFFICES ASSUME TypeInv, BootStep PROVE TypeInv'
    OBVIOUS
<1> USE DEF TypeInv, TypeOK, history
<1>a. TRUE \in BOOLEAN /\ FALSE \in BOOLEAN
      BY Zenon
<1>1. ASSUME Fresh
      PROVE  /\ deltas' = {} /\ death' = "none" /\ step' = "none" /\ ~cancelling'
             /\ paused' \in BOOLEAN /\ suspending' \in BOOLEAN /\ paced' \in BOOLEAN
             /\ pauseCancel' \in BOOLEAN /\ cancelling' \in BOOLEAN /\ wake' \in BOOLEAN
  <2>1. wake' \in BOOLEAN
        BY <1>1, Zenon DEF Fresh
  <2> QED BY <1>1, <1>a, <2>1 DEF Fresh
<1>2. CASE BootDiscards
  <2>1. <<>> \in Seq(Turns)
        OBVIOUS
  <2>2. /\ turns' = <<>> /\ inbox' = {} /\ file' = NoSnapshot /\ loop' \in {"new", "gone"}
        /\ UNCHANGED <<kind, saving, abandoned, history>> /\ Fresh
        BY <1>2 DEF BootDiscards
  <2> QED BY <1>1, <2>1, <2>2 DEF TurnStands
<1>3. CASE BootRestores
  <2>1. file \in Snapshots
        BY <1>3 DEF BootRestores
  <2>2. file.turns \in Seq(Turns) /\ file.pending \in SUBSET Messages
        BY <2>1, SnapshotParts
  <2>3. Unobserved(file.turns) =>
          Front(file.turns) \in Seq(Turns) /\ Last(file.turns).inbox \subseteq Messages
    <3>1. ASSUME Unobserved(file.turns)
          PROVE  Front(file.turns) \in Seq(Turns) /\ Last(file.turns) \in Turns
          BY <2>2, <3>1, LastTurn DEF Unobserved, IsOpen
    <3> QED BY <3>1 DEF Turns
  <2>4. turns' \in Seq(Turns)
        BY <1>3, <2>2, <2>3 DEF BootRestores
  <2>5. inbox' \subseteq Messages
        BY <1>3, <2>2, <2>3 DEF BootRestores, Redelivered
  <2>6. saving' \in Snapshots
        BY <1>3, <2>4, <2>5, SnapshotOf DEF BootRestores, Persist
  <2>7. loop' = "boot" /\ UNCHANGED <<kind, file, abandoned, history>> /\ Fresh
        BY <1>3 DEF BootRestores
  <2> QED BY <1>1, <2>4, <2>5, <2>6, <2>7 DEF TurnStands
<1>4. CASE Booted
      BY <1>4, ExitType
<1> QED BY <1>2, <1>3, <1>4 DEF BootStep

LEMMA TypeNext == TypeInv /\ [Next]_vars => TypeInv'
<1> SUFFICES ASSUME TypeInv, [Next]_vars PROVE TypeInv'
    OBVIOUS
<1>1. CASE UNCHANGED vars
      BY <1>1 DEF vars, memory, tasks, disk, history, TypeInv, TypeOK, TurnStands
<1>2. CASE Next
      BY <1>2, LoopType, TurnType, ExitType, BootType, WorldType DEF Next
<1> QED BY <1>1, <1>2

\* Type correctness: every state an agent reaches, by any sequence of turns,
\* pauses, exits, failed writes, crashes and restores, is well formed.
THEOREM AgentTypeCorrect == Spec => []TypeOK
<1>1. TypeInv => TypeOK
      BY DEF TypeInv
<1> QED BY TypeInit, TypeNext, <1>1, PTL DEF Spec

------------------------------------------------------------------------------
(* Only an exit ends the loop.  What makes it hold: a turn is cancelled    *)
(* only by a pause, whose latch stands until the loop has seen the         *)
(* cancellation, or by an exit, which is never taken back.                 *)

CancelMeant ==
  \/ cancelling
  \/ loop = "turn" /\ step \in {"cancelled", "park"}
  => pauseCancel \/ Exiting

ExitInv == OnlyExitEndsLoop /\ CancelMeant

\* The fold stops only for an exit.
LEMMA StopIsExit ==
  ASSUME NEW status, NEW interval, Transition(status, interval) = "stop"
  PROVE  status.death \/ status.suspend
BY DEF Transition

LEMMA ExitLoop == TypeInv /\ ExitInv /\ LoopStep => ExitInv'
<1> SUFFICES ASSUME TypeInv, ExitInv, LoopStep PROVE ExitInv'
    OBVIOUS
<1> USE DEF ExitInv, OnlyExitEndsLoop, CancelMeant, Exiting
<1>0. UNCHANGED <<death, suspending>>
      BY DEF LoopStep, LoopStarts, LoopWakes, LoopPaced, LoopReaps, LoopUnchanged
<1>1. ~cancelling'
      BY DEF LoopStep, LoopStarts, LoopWakes, LoopPaced, LoopReaps, TypeInv
<1>2. step' \in {"none", "open", "resume"}
      BY DEF LoopStep, LoopStarts, LoopWakes, LoopPaced, LoopReaps, Fold, Leave, Transition
<1>3. ASSUME Leave, Exiting
      PROVE  (loop' = "dispose" /\ death # "none") \/ (loop' = "suspend" /\ suspending)
      BY <1>3 DEF Leave
<1>4. ASSUME NEW status, status.death = (death # "none"), status.suspend = suspending, Fold(status)
      PROVE  \/ loop' \in {"wait", "pace", "turn"}
             \/ loop' = "dispose" /\ death # "none"
             \/ loop' = "suspend" /\ suspending
  <2>1. CASE Transition(status, kind.interval) = "stop"
    <3>1. Exiting
          BY <1>4, <2>1, StopIsExit
    <3> QED BY <1>3, <1>4, <2>1, <3>1 DEF Fold
  <2>2. CASE Transition(status, kind.interval) # "stop"
        BY <1>4, <2>2 DEF Fold
  <2> QED BY <2>1, <2>2
<1>5. Status.death = (death # "none") /\ Status.suspend = suspending
      BY DEF Status
<1>6. /\ [Status EXCEPT !.paced = TRUE].death = (death # "none")
      /\ [Status EXCEPT !.paced = TRUE].suspend = suspending
      BY Zenon DEF Status
<1>7. CASE LoopReaps
  <2>1. CASE step = "cancelled" /\ (Exiting \/ ~pauseCancel)
    <3>1. Exiting
          BY <1>7, <2>1 DEF LoopReaps
    <3> QED BY <1>0, <1>1, <1>2, <1>3, <1>7, <2>1, <3>1 DEF LoopReaps
  <2>2. CASE Fold(Status)
        BY <1>0, <1>1, <1>2, <1>4, <1>5, <2>2
  <2> QED BY <1>7, <2>1, <2>2 DEF LoopReaps
<1>8. CASE LoopStarts \/ LoopWakes
      BY <1>0, <1>1, <1>2, <1>4, <1>5, <1>8 DEF LoopStarts, LoopWakes
<1>9. CASE LoopPaced
      BY <1>0, <1>1, <1>2, <1>4, <1>6, <1>9 DEF LoopPaced
<1> QED BY <1>7, <1>8, <1>9 DEF LoopStep

LEMMA ExitTurn == TypeInv /\ ExitInv /\ TurnStep => ExitInv'
<1> SUFFICES ASSUME TypeInv, ExitInv, TurnStep PROVE ExitInv'
    OBVIOUS
<1> USE DEF ExitInv, OnlyExitEndsLoop, CancelMeant, Exiting
<1>1. CASE TurnCancelled
  <2>1. /\ cancelling /\ loop = "turn"
        /\ UNCHANGED <<loop, death, suspending, pauseCancel>>
        BY <1>1 DEF TurnCancelled
  <2>2. pauseCancel' \/ death' # "none" \/ suspending'
    <3>0. pauseCancel \/ death # "none" \/ suspending
          BY <2>1
    <3>1. CASE pauseCancel
          BY <2>1, <3>1, Zenon
    <3>2. CASE death # "none"
          BY <2>1, <3>2
    <3>3. CASE suspending
          BY <2>1, <3>3, Zenon
    <3> QED BY <3>0, <3>1, <3>2, <3>3
  <2> QED BY <2>1, <2>2
<1>2. CASE Parked
      BY <1>2 DEF Parked, Wrote, At, OnlyTurns, TurnUnchanged
<1>3. CASE FailTurn
      BY <1>3 DEF FailTurn, Wrote, At, TurnUnchanged
<1>4. CASE OpenTurn \/ ResumeTurn \/ Think
  <2>1. /\ loop = "turn" /\ ~cancelling /\ step' \in {"intent", "answer", "failing"}
        /\ UNCHANGED <<loop, cancelling, death, suspending>>
        BY <1>4 DEF OpenTurn, ResumeTurn, Think, HoldAndWrite, At, OnlyTurns, TurnUnchanged
  <2> QED BY <2>1
<1>5. CASE Continue \/ FinishActing
      BY <1>5 DEF Continue, FinishActing, Commit, HoldAndWrite, Wrote, At, OnlyTurns, TurnUnchanged
<1>6. CASE Act
      BY <1>6 DEF Act, HoldAndWrite, Wrote, At, TurnUnchanged
<1>7. CASE Inject \/ VerbReturns \/ Archive \/ ArchiveReturns
      BY <1>7 DEF Inject, VerbReturns, Archive, ArchiveReturns, HoldAndWrite, Wrote, At,
         OnlyTurns, TurnUnchanged
<1> QED BY <1>1, <1>2, <1>3, <1>4, <1>5, <1>6, <1>7 DEF TurnStep

LEMMA ExitRest ==
  TypeInv /\ ExitInv
  /\ (ExitStep \/ BootStep \/ SpawnReturns \/ Land \/ WriteFails \/ AbandonedEnds \/ World)
    => ExitInv'
<1> SUFFICES ASSUME TypeInv, ExitInv,
                    \/ ExitStep \/ BootStep \/ SpawnReturns \/ Land \/ WriteFails
                    \/ AbandonedEnds \/ World
             PROVE  ExitInv'
    OBVIOUS
<1> USE DEF ExitInv, OnlyExitEndsLoop, CancelMeant, Exiting, memory
<1>1. CASE ExitStep
      BY <1>1 DEF ExitStep, Dispose, Suspends, Suspended, TypeInv
<1>2. CASE BootStep
      BY <1>2 DEF BootStep, BootDiscards, BootRestores, Booted, Fresh, TypeInv
<1>3. CASE SpawnReturns
      BY <1>3 DEF SpawnReturns, TypeInv
<1>4. CASE Land \/ WriteFails \/ AbandonedEnds
      BY <1>4 DEF Land, WriteFails, AbandonedEnds, DiskStep, tasks
<1>5. CASE Deliver \/ NoteChild \/ Resume
      BY <1>5 DEF Deliver, NoteChild, Resume, WorldUnchanged
<1>6. CASE Pause \/ Kill \/ Suspend
      BY <1>6 DEF Pause, Kill, Suspend, CancelTurn, Running, WorldUnchanged, TypeInv
<1>7. CASE Crash
      BY <1>7 DEF Crash
<1> QED BY <1>1, <1>2, <1>3, <1>4, <1>5, <1>6, <1>7 DEF World

\* Only an exit ends the loop: a pause, however it falls together with
\* resumes, failures, shutdown and the delivery of the cancellation, never
\* ends it (the _pause_cancel latch of core.py:366 and 518).
THEOREM LoopEndsOnlyByExit == Spec => []OnlyExitEndsLoop
<1>1. Init => TypeInv /\ ExitInv
  <2>1. Init => ExitInv
        BY DEF Init, ExitInv, OnlyExitEndsLoop, CancelMeant
  <2> QED BY <2>1, TypeInit
<1>2. TypeInv /\ ExitInv /\ [Next]_vars => (TypeInv /\ ExitInv)'
  <2>1. ASSUME ExitInv, UNCHANGED vars
        PROVE  ExitInv'
        BY <2>1 DEF vars, memory, tasks, ExitInv, OnlyExitEndsLoop, CancelMeant, Exiting
  <2> QED BY <2>1, TypeNext, ExitLoop, ExitTurn, ExitRest DEF Next
<1>3. ExitInv => OnlyExitEndsLoop
      BY DEF ExitInv
<1> QED BY <1>1, <1>2, <1>3, PTL DEF Spec

------------------------------------------------------------------------------
(* No wakeup is lost.  The fold and the wait are one step, and whatever    *)
(* changes the status of a waiting agent sets its event.                   *)

LEMMA WakeLoop == NoLostWakeup /\ LoopStep => NoLostWakeup'
<1> SUFFICES ASSUME NoLostWakeup, LoopStep PROVE NoLostWakeup'
    OBVIOUS
<1>1. /\ UNCHANGED <<kind, turns, inbox, death, paused, suspending>>
      /\ \/ Leave
         \/ Fold(Status)
         \/ Fold([Status EXCEPT !.paced = TRUE])
      BY DEF LoopStep, LoopStarts, LoopWakes, LoopPaced, LoopReaps, LoopUnchanged
<1>2. [Status EXCEPT !.paced = paced'] = Status'
      BY <1>1 DEF Status
<1>3. [Status EXCEPT !.paced = Status.paced] = Status /\ Status.paced = paced
      BY DEF Status
<1>4. ASSUME NEW status, Fold(status), loop' = "wait"
      PROVE  Transition(status, kind.interval) = "wait" /\ paced' = status.paced
      BY <1>4 DEF Fold, Leave
<1>5. CASE Leave
      BY <1>5 DEF Leave, NoLostWakeup
<1>6. CASE Fold(Status)
  <2> SUFFICES ASSUME loop' = "wait" PROVE Transition(Status', kind'.interval) = "wait"
      BY DEF NoLostWakeup
  <2>1. Transition(Status, kind.interval) = "wait" /\ paced' = paced
        BY <1>3, <1>4, <1>6
  <2>2. Status' = Status
        BY <1>2, <1>3, <2>1
  <2> QED BY <1>1, <2>1, <2>2
<1>7. CASE Fold([Status EXCEPT !.paced = TRUE])
  <2> SUFFICES ASSUME loop' = "wait" PROVE Transition(Status', kind'.interval) = "wait"
      BY DEF NoLostWakeup
  <2>1. /\ Transition([Status EXCEPT !.paced = TRUE], kind.interval) = "wait"
        /\ paced' = [Status EXCEPT !.paced = TRUE].paced
        BY <1>4, <1>7
  <2>2. paced' = TRUE
        BY <2>1, Zenon DEF Status
  <2> QED BY <1>1, <1>2, <2>1, <2>2
<1> QED BY <1>1, <1>5, <1>6, <1>7

LEMMA WakeRest ==
  /\ TypeInv /\ NoLostWakeup
  /\ \/ TurnStep \/ ExitStep \/ BootStep \/ SpawnReturns \/ Land \/ WriteFails
     \/ AbandonedEnds \/ World
  => NoLostWakeup'
<1> SUFFICES ASSUME TypeInv, NoLostWakeup,
                    \/ TurnStep \/ ExitStep \/ BootStep \/ SpawnReturns \/ Land
                    \/ WriteFails \/ AbandonedEnds \/ World
             PROVE  NoLostWakeup'
    OBVIOUS
<1>1. ASSUME UNCHANGED <<kind, turns, inbox, death, paused, suspending, paced, loop, wake>>
      PROVE  NoLostWakeup'
      BY <1>1 DEF NoLostWakeup, Status
<1>2. ASSUME loop' # "wait" \/ wake'
      PROVE  NoLostWakeup'
      BY <1>2 DEF NoLostWakeup
<1>3. CASE TurnStep
  <2>1. loop' = "turn"
        BY <1>3 DEF TurnStep, OpenTurn, ResumeTurn, Continue, Inject, Think, Act, VerbReturns,
           FinishActing, Archive, ArchiveReturns, FailTurn, Parked, TurnCancelled, Wrote, At,
           OnlyTurns, TurnUnchanged
  <2> QED BY <1>2, <2>1
<1>4. CASE ExitStep \/ BootStep \/ SpawnReturns
      BY <1>2, <1>4 DEF ExitStep, Dispose, Suspends, Suspended, BootStep, BootDiscards,
         BootRestores, Booted, SpawnReturns
<1>5. CASE Land \/ WriteFails \/ AbandonedEnds
      BY <1>1, <1>5 DEF Land, WriteFails, AbandonedEnds, DiskStep, memory, tasks
<1>6. CASE Deliver \/ Pause \/ Resume \/ Kill \/ Suspend
      BY <1>2, <1>6 DEF Deliver, Pause, Resume, Kill, Suspend
<1>7. CASE NoteChild
      BY <1>1, <1>7 DEF NoteChild, WorldUnchanged
<1>8. CASE Crash
      BY <1>2, <1>8 DEF Crash
<1> QED BY <1>3, <1>4, <1>5, <1>6, <1>7, <1>8 DEF World

\* No lost wakeup: between the fold that finds nothing to do and the wait,
\* nothing slips in, and nothing that gives the agent something to do leaves
\* it asleep (core.py:486, the comment on the wake event).
THEOREM AgentNeverOversleeps == Spec => []NoLostWakeup
<1>1. Init => NoLostWakeup
      BY DEF Init, NoLostWakeup
<1>2. TypeInv /\ NoLostWakeup /\ [Next]_vars => NoLostWakeup'
  <2>1. ASSUME NoLostWakeup, UNCHANGED vars
        PROVE  NoLostWakeup'
        BY <2>1 DEF vars, memory, tasks, NoLostWakeup, Status
  <2> QED BY <2>1, WakeLoop, WakeRest DEF Next
<1> QED BY <1>1, <1>2, TypeInit, TypeNext, PTL DEF Spec

------------------------------------------------------------------------------
(* The agent uses its file as SnapshotFile allows.  It awaits a write only *)
(* where it stands at one, so it never begins a second or removes the file *)
(* under the first, and at most one abandoned write is in flight.          *)

DiskInv ==
  /\ saving # NoSnapshot =>
       \/ loop \in {"born", "boot", "saving"}
       \/ /\ loop = "turn"
          /\ step \in {"intent", "answer", "result", "acted", "commit", "failing", "park"}
  /\ \A s, t \in abandoned : s = t

\* What a step may do to the file.
FileStep == File!Next \/ UNCHANGED File!vars

LEMMA FileKept == UNCHANGED disk => FileStep
BY DEF disk, FileStep, File!vars

LEMMA FileBegun ==
  ASSUME saving = NoSnapshot, TypeInv', UNCHANGED <<file, abandoned>>,
         saving' = [turns |-> turns', pending |-> inbox']
  PROVE  FileStep
<1>1. saving' \in Snapshots
      BY SnapshotOf DEF TypeInv, TypeOK
<1> QED BY <1>1 DEF FileStep, File!Next, File!Begin

LEMMA FileAbandoned ==
  ASSUME AbandonSave, TypeInv, TypeInv', UNCHANGED file,
         saving' = NoSnapshot \/ saving' = [turns |-> turns', pending |-> inbox']
  PROVE  FileStep /\ ((\A s, t \in abandoned : s = t) => \A s, t \in abandoned' : s = t)
<1>1. CASE Saved /\ saving' = NoSnapshot
      BY <1>1, FileKept DEF AbandonSave, Saved, disk
<1>2. CASE Saved /\ saving' # NoSnapshot
      BY <1>2, FileBegun DEF AbandonSave, Saved
<1>3. CASE ~Saved
  <2>1. saving # NoSnapshot /\ abandoned' = abandoned \cup {saving} /\ abandoned' = {saving}
        BY <1>3 DEF AbandonSave, Saved
  <2>2. saving' \in Snapshots \cup {NoSnapshot}
        BY DEF TypeInv, TypeOK
  <2> QED BY <2>1, <2>2 DEF FileStep, File!Next, File!Abandon, File!Maybe
<1> QED BY <1>1, <1>2, <1>3

LEMMA FileTurn == TypeInv /\ TypeInv' /\ DiskInv /\ TurnStep => DiskInv' /\ FileStep
<1> SUFFICES ASSUME TypeInv, TypeInv', DiskInv, TurnStep PROVE DiskInv' /\ FileStep
    OBVIOUS
<1>1. ASSUME saving = NoSnapshot, UNCHANGED <<file, abandoned, loop>>, loop = "turn",
             saving' = [turns |-> turns', pending |-> inbox'],
             step' \in {"intent", "answer", "result", "acted", "commit", "failing"}
      PROVE  DiskInv' /\ FileStep
      BY <1>1, FileBegun DEF DiskInv
<1>2. ASSUME saving = NoSnapshot, UNCHANGED disk
      PROVE  DiskInv' /\ FileStep
      BY <1>2, FileKept DEF DiskInv, disk
<1>3. CASE OpenTurn
      BY <1>1, <1>3 DEF OpenTurn, At, Persist, TurnUnchanged, DiskInv
<1>4. CASE ResumeTurn
      BY <1>1, <1>4 DEF ResumeTurn, HoldAndWrite, At, Persist, OnlyTurns, TurnUnchanged, DiskInv
<1>5. CASE Continue
  <2>1. CASE Commit(Last(turns))
        BY <1>1, <1>5, <2>1 DEF Continue, Commit, HoldAndWrite, Wrote, At, Saved, Persist,
           OnlyTurns, TurnUnchanged
  <2>2. CASE UNCHANGED saving
        BY <1>2, <1>5, <2>2 DEF Continue, Wrote, Saved, OnlyTurns, TurnUnchanged, disk
  <2> QED BY <1>5, <2>1, <2>2 DEF Continue
<1>6. CASE Inject
      BY <1>2, <1>6 DEF Inject, At, OnlyTurns, TurnUnchanged, disk, DiskInv
<1>7. CASE Think
      BY <1>1, <1>7 DEF Think, HoldAndWrite, At, Persist, OnlyTurns, TurnUnchanged, DiskInv
<1>8. CASE Act
  <2>0. saving = NoSnapshot /\ loop = "turn" /\ UNCHANGED <<file, abandoned, loop, inbox>>
        BY <1>8 DEF Act, Wrote, At, Saved, TurnUnchanged
  <2>1. CASE UNCHANGED saving
        BY <1>2, <2>0, <2>1 DEF disk
  <2>2. CASE /\ saving' = [turns |-> turns', pending |-> inbox]
             /\ step' \in {"result", "acted"}
        BY <1>1, <2>0, <2>2
  <2> QED BY <1>8, <2>1, <2>2 DEF Act, HoldAndWrite, Persist
<1>9. CASE VerbReturns
      BY <1>1, <1>9 DEF VerbReturns, HoldAndWrite, At, Persist, OnlyTurns, TurnUnchanged, DiskInv
<1>10. CASE FinishActing
       BY <1>1, <1>10 DEF FinishActing, Commit, HoldAndWrite, Wrote, At, Saved, Persist,
          OnlyTurns, TurnUnchanged
<1>11. CASE Archive \/ ArchiveReturns \/ Parked
       BY <1>2, <1>11 DEF Archive, ArchiveReturns, Parked, Wrote, At, Saved, OnlyTurns,
          TurnUnchanged, disk, DiskInv
<1>12. CASE FailTurn
       BY <1>2, <1>12 DEF FailTurn, Wrote, Saved, TurnUnchanged, disk
<1>13. CASE TurnCancelled
  <2>1. /\ AbandonSave /\ loop = "turn" /\ UNCHANGED <<file, inbox, loop>>
        /\ \/ saving' = NoSnapshot
           \/ saving' = [turns |-> turns', pending |-> inbox'] /\ step' = "park"
        BY <1>13 DEF TurnCancelled, Park, Persist
  <2>2. FileStep /\ \A s, t \in abandoned' : s = t
        BY <2>1, FileAbandoned DEF DiskInv
  <2> QED BY <2>1, <2>2 DEF DiskInv
<1> QED BY <1>3, <1>4, <1>5, <1>6, <1>7, <1>8, <1>9, <1>10, <1>11, <1>12, <1>13 DEF TurnStep

LEMMA FileRest ==
  /\ TypeInv /\ TypeInv' /\ DiskInv
  /\ \/ LoopStep \/ ExitStep \/ BootStep \/ SpawnReturns \/ Land \/ WriteFails
     \/ AbandonedEnds \/ World
  => DiskInv' /\ FileStep
<1> SUFFICES ASSUME TypeInv, TypeInv', DiskInv,
                    \/ LoopStep \/ ExitStep \/ BootStep \/ SpawnReturns \/ Land
                    \/ WriteFails \/ AbandonedEnds \/ World
             PROVE  DiskInv' /\ FileStep
    OBVIOUS
<1>1. ASSUME saving = NoSnapshot, UNCHANGED disk
      PROVE  DiskInv' /\ FileStep
      BY <1>1, FileKept DEF DiskInv, disk
<1>2. CASE LoopStep
  <2>1. saving = NoSnapshot /\ UNCHANGED disk
        BY <1>2 DEF LoopStep, LoopStarts, LoopWakes, LoopPaced, LoopReaps, LoopUnchanged, DiskInv
  <2> QED BY <1>1, <2>1
<1>3. CASE Dispose
      BY <1>3 DEF Dispose, DiskInv, FileStep, File!Next, File!Remove
<1>4. CASE Suspends
      BY <1>4, FileBegun DEF Suspends, Persist, memory, DiskInv
<1>5. CASE Suspended \/ Booted
      BY <1>1, <1>5 DEF Suspended, Booted, Saved
<1>6. CASE BootDiscards
      BY <1>6 DEF BootDiscards, Booting, DiskInv, FileStep, File!Next, File!Remove
<1>7. CASE BootRestores
      BY <1>7, FileBegun DEF BootRestores, Booting, Persist, DiskInv
<1>8. CASE SpawnReturns
  <2>1. AbandonSave /\ saving' = NoSnapshot /\ UNCHANGED file
        BY <1>8 DEF SpawnReturns
  <2> QED BY <2>1, FileAbandoned DEF DiskInv
<1>9. CASE Land
  <2>1. saving \in Snapshots
        BY <1>9 DEF Land, TypeInv, TypeOK
  <2> QED BY <1>9, <2>1 DEF Land, DiskInv, FileStep, File!Next, File!Land
<1>10. CASE WriteFails
       BY <1>10 DEF WriteFails, DiskInv, FileStep, File!Next, File!Fail
<1>11. CASE AbandonedEnds
  <2>1. PICK s \in abandoned : file' \in {s, file}
        BY <1>11 DEF AbandonedEnds
  <2>2. abandoned' = abandoned \ {s} /\ abandoned' = {} /\ UNCHANGED <<saving, loop, step>>
        BY <1>11, <2>1 DEF AbandonedEnds, DiskInv, DiskStep, tasks
  <2>3. DiskInv'
        BY <2>2 DEF DiskInv
  <2> QED BY <2>1, <2>2, <2>3 DEF FileStep, File!Next, File!LandAbandoned, File!FailAbandoned
<1>12. CASE Crash
       BY <1>12 DEF Crash, DiskInv, FileStep, File!Next, File!Crash
<1>13. CASE Deliver \/ NoteChild \/ Pause \/ Resume \/ Kill \/ Suspend
  <2>1. UNCHANGED <<file, saving, abandoned, loop, step>>
        BY <1>13 DEF Deliver, NoteChild, Pause, Resume, Kill, Suspend, WorldUnchanged, disk
  <2> QED BY <2>1, FileKept DEF DiskInv, disk
<1> QED BY <1>2, <1>3, <1>4, <1>5, <1>6, <1>7, <1>8, <1>9, <1>10, <1>11, <1>12, <1>13
        DEF ExitStep, BootStep, World

\* The agent implements the abstract file: it awaits one write at a time,
\* rewrites the file before it runs again after a boot, and removes it only
\* when it awaits no write.
THEOREM AgentImplementsFile == Spec => ImplementsFile
<1>1. Init => DiskInv /\ File!Init
  <2>1. Init => DiskInv
        BY DEF Init, DiskInv
  <2>2. Init => File!Init
        BY TypeInit DEF Init, TypeInv, TypeOK, File!Init, File!Maybe
  <2> QED BY <2>1, <2>2
<1>2. /\ TypeInv /\ TypeInv' /\ DiskInv /\ [Next]_vars
      => DiskInv' /\ [File!Next]_(File!vars)
  <2>1. ASSUME UNCHANGED vars, DiskInv
        PROVE  DiskInv' /\ UNCHANGED File!vars
        BY <2>1 DEF vars, tasks, disk, DiskInv, File!vars
  <2> QED BY <2>1, FileTurn, FileRest DEF Next, FileStep
<1>3. Spec => [][File!Next]_(File!vars)
      BY <1>1, <1>2, TypeInit, TypeNext, PTL DEF Spec
<1> QED BY <1>1, <1>3, PTL DEF Spec, ImplementsFile, File!Spec

------------------------------------------------------------------------------
(* A frozen agent stands still: the turn of a frozen agent has ended, is   *)
(* parking, or is to be cancelled, so none of its steps can run.           *)

PausedInv == paused /\ loop = "turn" /\ ~cancelling => step \in {"park", "done", "cancelled"}

StandsStill == paused /\ paused' => step' \in {step, "park", "cancelled", "none"}

LEMMA PausedLoop == LoopStep => PausedInv' /\ StandsStill
<1> SUFFICES ASSUME LoopStep PROVE PausedInv' /\ StandsStill
    OBVIOUS
<1>1. CASE ~paused
  <2>1. paused' = paused
        BY DEF LoopStep, LoopStarts, LoopWakes, LoopPaced, LoopReaps, LoopUnchanged
  <2> QED BY <1>1, <2>1 DEF PausedInv, StandsStill
<1>2. CASE paused
  <2>1. Status.paused = paused /\ [Status EXCEPT !.paced = TRUE].paused = paused
        BY Zenon DEF Status
  <2>2. ASSUME NEW status, status.paused
        PROVE  Transition(status, kind.interval) \in {"stop", "wait"}
        BY <2>2 DEF Transition
  <2>3. ASSUME NEW status, status.paused, Fold(status)
        PROVE  loop' # "turn" /\ step' = "none"
        BY <2>2, <2>3 DEF Fold, Leave
  <2>4. \/ Leave
        \/ Fold(Status)
        \/ Fold([Status EXCEPT !.paced = TRUE])
        BY DEF LoopStep, LoopStarts, LoopWakes, LoopPaced, LoopReaps
  <2>5. Leave => loop' # "turn" /\ step' = "none"
        BY DEF Leave
  <2>6. Status.paused /\ [Status EXCEPT !.paced = TRUE].paused
        BY <1>2, <2>1, Zenon
  <2>7. loop' # "turn" /\ step' = "none"
        BY <2>3, <2>4, <2>5, <2>6
  <2> QED BY <2>7 DEF PausedInv, StandsStill
<1> QED BY <1>1, <1>2

LEMMA PausedTurn == PausedInv /\ TurnStep => PausedInv' /\ StandsStill
<1> SUFFICES ASSUME PausedInv, TurnStep PROVE PausedInv' /\ StandsStill
    OBVIOUS
<1>1. CASE TurnCancelled
      BY <1>1 DEF TurnCancelled, Park, PausedInv, StandsStill
<1>2. CASE Parked
      BY <1>2 DEF Parked, PausedInv, StandsStill
<1>3. CASE FailTurn
      BY <1>3 DEF FailTurn, Wrote, At, PausedInv, StandsStill
<1>4. ASSUME ~paused, paused' = paused
      PROVE  PausedInv' /\ StandsStill
      BY <1>4 DEF PausedInv, StandsStill
<1>5. CASE OpenTurn \/ ResumeTurn \/ Inject \/ Think \/ VerbReturns \/ ArchiveReturns
  <2>1. ~paused
        BY <1>5 DEF OpenTurn, ResumeTurn, Inject, Think, VerbReturns, ArchiveReturns, At, PausedInv
  <2>2. paused' = paused
        BY <1>5 DEF OpenTurn, ResumeTurn, Inject, Think, VerbReturns, ArchiveReturns, OnlyTurns
  <2> QED BY <1>4, <2>1, <2>2
<1>6. CASE Continue \/ Act \/ FinishActing \/ Archive
  <2>1. ~paused
        BY <1>6 DEF Continue, Act, FinishActing, Archive, Wrote, At, PausedInv
  <2>2. paused' = paused
        BY <1>6 DEF Continue, Act, FinishActing, Archive, OnlyTurns
  <2> QED BY <1>4, <2>1, <2>2
<1> QED BY <1>1, <1>2, <1>3, <1>5, <1>6 DEF TurnStep

LEMMA PausedRest ==
  /\ TypeInv /\ PausedInv
  /\ \/ ExitStep \/ BootStep \/ SpawnReturns \/ Land \/ WriteFails \/ AbandonedEnds \/ World
  => PausedInv' /\ StandsStill
<1> SUFFICES ASSUME TypeInv, PausedInv,
                    \/ ExitStep \/ BootStep \/ SpawnReturns \/ Land \/ WriteFails
                    \/ AbandonedEnds \/ World
             PROVE  PausedInv' /\ StandsStill
    OBVIOUS
<1> USE DEF PausedInv, StandsStill
<1>1. CASE ExitStep \/ SpawnReturns \/ Booted
      BY <1>1 DEF ExitStep, Dispose, Suspends, Suspended, SpawnReturns, Booted
<1>2. CASE BootDiscards \/ BootRestores
      BY <1>2 DEF BootDiscards, BootRestores, Fresh
<1>3. CASE Land \/ WriteFails \/ AbandonedEnds
      BY <1>3 DEF Land, WriteFails, AbandonedEnds, DiskStep, memory, tasks
<1>4. CASE Deliver \/ NoteChild \/ Resume
      BY <1>4 DEF Deliver, NoteChild, Resume, WorldUnchanged
<1>5. CASE Pause \/ Kill \/ Suspend
  <2>1. /\ UNCHANGED <<loop, step>>
        /\ (\/ cancelling
            \/ loop = "turn" /\ step \notin {"done", "cancelled"}) <=> cancelling'
        BY <1>5 DEF Pause, Kill, Suspend, WorldUnchanged, CancelTurn
  <2> QED BY <2>1 DEF TypeInv
<1>6. CASE Crash
      BY <1>6 DEF Crash
<1> QED BY <1>1, <1>2, <1>3, <1>4, <1>5, <1>6 DEF BootStep, World

\* A pause stands: from a pause to its resume no turn, model call or verb
\* begins (core.py:353-379); the running turn can only park or end.
THEOREM PausedAgentStandsStill == Spec => PausedStandsStill
<1>1. Init => PausedInv
      BY DEF Init, PausedInv
<1>2. TypeInv /\ PausedInv /\ [Next]_vars => PausedInv' /\ [StandsStill]_vars
  <2>1. ASSUME PausedInv, UNCHANGED vars
        PROVE  PausedInv'
        BY <2>1 DEF vars, memory, tasks, PausedInv
  <2> QED BY <2>1, PausedLoop, PausedTurn, PausedRest DEF Next
<1>3. Spec => [][StandsStill]_vars
      BY <1>1, <1>2, TypeInit, TypeNext, PTL DEF Spec
<1> QED BY <1>3 DEF PausedStandsStill, StandsStill

=============================================================================
