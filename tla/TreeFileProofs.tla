--------------------------- MODULE TreeFileProofs ---------------------------
(***************************************************************************)
(* What the snapshots and the parents know of the tree is so, for any      *)
(* number of agents and any depth: claims, reports and deaths, and what a  *)
(* graceful stop leaves for the next boot.                                 *)
(***************************************************************************)
EXTENDS TreeProofs

Gone(a) == Stage(a) = "gone"

DeathIsOnFile == \A a \in Agents : file[a].death => file[a].exists

\* NoFalseChild, and the same of the claims in memory; nobody claims the root.
ClaimsHold ==
  \A p, c \in Agents : c \in agent[p].claims \cup file[p].claims =>
    c # Root /\ ("badWrite" \notin mishaps => file[c].exists \/ Gone(c))

\* A birth write that ended well left a file.
BirthsWritten ==
  "badWrite" \notin mishaps =>
    \A c \in Agents : Stage(c) = "birth" /\ c \notin births => file[c].exists

\* A birth write is of a child that its parent still awaits.
BirthsAwaited == "abandon" \notin mishaps => \A c \in births : Stage(c) = "birth"

\* Who is gone has no file, and no one else was announced or reported.
GoneForGood ==
  "abandon" \notin mishaps =>
    /\ \A a \in Agents : Gone(a) => ~file[a].exists
    /\ \A a \in Agents : told[a] = 0 \/ (told[a] = 1 /\ Gone(a))
    /\ \A p, c \in Agents : c \in agent[p].reports \cup file[p].reports => Gone(c)

RecordInv ==
  /\ told \in [Agents -> Nat]
  /\ DeathIsOnFile /\ ClaimsHold /\ BirthsWritten /\ BirthsAwaited /\ GoneForGood

------------------------------------------------------------------------------
(* Steps that add to no record.                                            *)

\* A step nobody is born, is announced or is gone by; a snapshot it writes holds
\* what the agent knows, and but for a claim made good nobody learns anything.
NoNews ==
  /\ told' = told /\ mishaps \subseteq mishaps'
  /\ \A d \in Agents :
       /\ Gone(d)' <=> Gone(d)
       /\ \A c \in agent'[d].claims :
            \/ c \in agent[d].claims
            \/ c # Root /\ ("badWrite" \notin mishaps => file[c].exists)
       /\ agent'[d].reports \subseteq agent[d].reports
       /\ \/ file'[d] = file[d]
          \/ /\ file'[d].exists
             /\ file'[d].claims \subseteq agent'[d].claims
             /\ file'[d].reports \subseteq agent'[d].reports
             /\ Gone(d) => "abandon" \in mishaps

LEMMA NoNewsStep ==
  ASSUME TreeInv, RecordInv, NoNews, BirthsWritten', BirthsAwaited' PROVE RecordInv'
<1>1. told' \in [Agents -> Nat]
  BY DEF RecordInv, NoNews
<1>2. DeathIsOnFile'
  BY DEF RecordInv, NoNews, DeathIsOnFile
<1>3. \A d \in Agents : file[d].exists => file'[d].exists
  BY DEF NoNews
<1>4. ClaimsHold'
  <2> SUFFICES ASSUME NEW q \in Agents, NEW c \in Agents, c \in agent'[q].claims \cup file'[q].claims
               PROVE  c # Root /\ ("badWrite" \notin mishaps' => file'[c].exists \/ Gone(c)')
    BY DEF ClaimsHold
  <2>1. \/ c \in agent[q].claims \cup file[q].claims
        \/ c # Root /\ ("badWrite" \notin mishaps => file[c].exists)
    BY DEF NoNews
  <2>2. c # Root /\ ("badWrite" \notin mishaps => file[c].exists \/ Gone(c))
    BY <2>1 DEF RecordInv, ClaimsHold
  <2> QED
    BY <1>3, <2>2 DEF NoNews
<1>5. GoneForGood'
  <2> SUFFICES ASSUME "abandon" \notin mishaps'
               PROVE  /\ \A a \in Agents : Gone(a)' => ~file'[a].exists
                      /\ \A a \in Agents : told'[a] = 0 \/ (told'[a] = 1 /\ Gone(a)')
                      /\ \A q, c \in Agents :
                           c \in agent'[q].reports \cup file'[q].reports => Gone(c)'
    BY DEF GoneForGood
  <2>1. "abandon" \notin mishaps
    BY DEF NoNews
  <2>2. /\ \A a \in Agents : Gone(a)' <=> Gone(a)
        /\ \A a \in Agents : Gone(a) => file'[a] = file[a]
        /\ \A q \in Agents : agent'[q].reports \cup file'[q].reports
                            \subseteq agent[q].reports \cup file[q].reports
        /\ told' = told
    BY <2>1 DEF NoNews
  <2> QED
    BY <2>1, <2>2 DEF RecordInv, GoneForGood
<1> QED
  BY <1>1, <1>2, <1>4, <1>5 DEF RecordInv

\* Most steps are quieter still.
Unchanging ==
  /\ told' = told /\ births' = births /\ mishaps \subseteq mishaps'
  /\ \A d \in Agents :
       /\ Gone(d)' <=> Gone(d)
       /\ Stage(d)' = "birth" <=> Stage(d) = "birth"
       /\ agent'[d].claims = agent[d].claims /\ agent'[d].reports = agent[d].reports
       /\ \/ file'[d] = file[d]
          \/ /\ file'[d].exists /\ ~Gone(d)
             /\ file'[d].claims = agent[d].claims /\ file'[d].reports = agent[d].reports

LEMMA UnchangingStep ==
  ASSUME TreeInv, RecordInv, Unchanging PROVE RecordInv'
<1>1. NoNews
  BY DEF Unchanging, NoNews
<1>2. BirthsWritten'
  BY DEF Unchanging, RecordInv, BirthsWritten
<1>3. BirthsAwaited'
  BY DEF Unchanging, RecordInv, BirthsAwaited, TreeInv, TreeTypeOK
<1> QED
  BY <1>1, <1>2, <1>3, NoNewsStep

\* One agent that is there changes, and is saved or not.
LEMMA OneChanges ==
  ASSUME TreeInv, RecordInv, NEW a \in Agents, ~Gone(a), Stage(a) # "birth",
         NEW n, n.stage \notin {"gone", "birth"},
         n.claims = agent[a].claims, n.reports = agent[a].reports,
         agent' = [agent EXCEPT ![a] = n],
         NEW dead \in BOOLEAN,
         \A d \in Agents : file'[d] = file[d] \/ (d = a /\ file'[d] = Snapshot(n, dead)),
         births' = births, told' = told, mishaps \subseteq mishaps'
  PROVE  RecordInv'
<1>1. agent'[a] = n /\ \A d \in Agents \ {a} : agent'[d] = agent[d]
  BY DEF TreeInv, TreeTypeOK
<1>2. PICK f : f = Snapshot(n, dead)
  OBVIOUS
<1>a. /\ f.exists /\ f.claims = n.claims /\ f.reports = n.reports
      /\ \A d \in Agents : file'[d] = file[d] \/ (d = a /\ file'[d] = f)
  BY <1>2 DEF Snapshot
<1>3. Unchanging
  BY <1>1, <1>a DEF Unchanging, Gone, Stage
<1> QED
  BY <1>3, UnchangingStep

LEMMA SavedRecord ==
  ASSUME TreeInv, RecordInv, NEW a \in Agents, ~Gone(a), Stage(a) # "birth",
         NEW n, n.stage \notin {"gone", "birth"},
         n.claims = agent[a].claims, n.reports = agent[a].reports, Saves(a, n),
         births' = births, told' = told, mishaps \subseteq mishaps'
  PROVE  RecordInv'
<1>1. \A d \in Agents : file'[d] = IF d = a THEN Snapshot(n, FALSE) ELSE file[d]
  BY DEF Saves, TreeInv, TreeTypeOK
<1>2. agent' = [agent EXCEPT ![a] = n]
  BY DEF Saves
<1>3. \A d \in Agents : file'[d] = file[d] \/ (d = a /\ file'[d] = Snapshot(n, FALSE))
  BY <1>1
<1> QED
  BY <1>2, <1>3, OneChanges

LEMMA TurnRecord ==
  ASSUME TreeInv, RecordInv, NEW a \in Agents, TurnStarts(a) \/ Answered(a) \/ Finish(a)
  PROVE  RecordInv'
<1>1. agent[a] \in Memory /\ ~Gone(a) /\ Stage(a) # "birth"
  BY DEF TreeInv, TreeTypeOK, TurnStarts, Answered, Finish, InVerbs, Gone
<1>2. births' = births /\ told' = told /\ mishaps \subseteq mishaps'
  BY DEF TurnStarts, Answered, Finish, History
<1>3. CASE TurnStarts(a)
  <2> DEFINE n == [agent[a] EXCEPT !.stage = "think"]
  <2>1. n.stage = "think" /\ n.claims = agent[a].claims /\ n.reports = agent[a].reports
    BY <1>1 DEF Memory
  <2>2. Saves(a, n)
    BY <1>3 DEF TurnStarts
  <2> HIDE DEF n
  <2> QED
    BY <1>1, <1>2, <2>1, <2>2, SavedRecord
<1>4. CASE Answered(a)
  <2> DEFINE n == [agent[a] EXCEPT !.stage = "turn"]
  <2>1. n.stage = "turn" /\ n.claims = agent[a].claims /\ n.reports = agent[a].reports
    BY <1>1 DEF Memory
  <2>2. Saves(a, n)
    BY <1>4 DEF Answered
  <2> HIDE DEF n
  <2> QED
    BY <1>1, <1>2, <2>1, <2>2, SavedRecord
<1>5. CASE Finish(a)
  <2> DEFINE n == [agent[a] EXCEPT !.death = "finished"]
  <2>1. n.stage = "turn" /\ n.claims = agent[a].claims /\ n.reports = agent[a].reports
    BY <1>1, <1>5 DEF Memory, Finish, InVerbs, Stage
  <2>2. Saves(a, n)
    BY <1>5 DEF Finish
  <2> HIDE DEF n
  <2> QED
    BY <1>1, <1>2, <2>1, <2>2, SavedRecord
<1> QED
  BY <1>3, <1>4, <1>5

LEMMA EndRecord ==
  ASSUME TreeInv, RecordInv, NEW a \in Agents, TurnEnds(a) \/ TurnCancelled(a)
  PROVE  RecordInv'
<1>1. agent[a] \in Memory /\ ~Gone(a) /\ Stage(a) # "birth" /\ file \in [Agents -> Snapshots]
  BY DEF TreeInv, TreeTypeOK, TurnEnds, TurnCancelled, InVerbs, Gone
<1>2. births' = births /\ told' = told /\ mishaps \subseteq mishaps'
  BY DEF TurnEnds, TurnCancelled, History
<1>3. CASE TurnEnds(a)
  <2> DEFINE n == [agent[a] EXCEPT !.stage = "idle"]
  <2>1. n.stage = "idle" /\ n.claims = agent[a].claims /\ n.reports = agent[a].reports
        /\ n.chain = agent[a].chain
    BY <1>1 DEF Memory
  <2>2. /\ agent' = [agent EXCEPT ![a] = n]
        /\ file' = [file EXCEPT ![a] = Snapshot(agent[a], agent[a].death # "none")]
    BY <1>3 DEF TurnEnds
  <2> HIDE DEF n
  <2>3. Snapshot(agent[a], agent[a].death # "none") = Snapshot(n, agent[a].death # "none")
    BY <2>1 DEF Snapshot
  <2>4. PICK dead \in BOOLEAN : dead = (agent[a].death # "none")
    OBVIOUS
  <2>5. \A d \in Agents : file'[d] = file[d] \/ (d = a /\ file'[d] = Snapshot(n, dead))
    BY <1>1, <2>2, <2>3, <2>4
  <2> QED
    BY <1>1, <1>2, <2>1, <2>2, <2>5, OneChanges
<1>4. CASE TurnCancelled(a)
  <2>1. /\ Cut(a).stage = "idle" /\ Cut(a).claims = agent[a].claims
        /\ Cut(a).reports = agent[a].reports
    BY <1>1, CutMemory
  <2>2. agent' = [agent EXCEPT ![a] = Cut(a)] /\ Parks(a)
    BY <1>4 DEF TurnCancelled
  <2>3. \A d \in Agents : file'[d] = file[d] \/ (d = a /\ file'[d] = Snapshot(Cut(a), FALSE))
    BY <1>1, <2>2 DEF Parks
  <2> QED
    BY <1>1, <1>2, <2>1, <2>2, <2>3, OneChanges
<1> QED
  BY <1>3, <1>4

LEMMA FailRecord == ASSUME TreeInv, RecordInv, NEW a \in Agents, FailTurn(a) PROVE RecordInv'
<1>1. agent[a] \in Memory /\ ~Gone(a) /\ Stage(a) # "birth"
  BY DEF TreeInv, TreeTypeOK, FailTurn, Gone
<1>2. births' = births /\ told' = told /\ mishaps \subseteq mishaps'
  BY DEF FailTurn, Mishap
<1>3. CASE a = Root
  <2> DEFINE n == [agent[a] EXCEPT !.stage = "idle", !.paused = TRUE]
  <2>1. n.stage = "idle" /\ n.claims = agent[a].claims /\ n.reports = agent[a].reports
    BY <1>1 DEF Memory
  <2>2. Saves(a, n)
    BY <1>3 DEF FailTurn
  <2> HIDE DEF n
  <2> QED
    BY <1>1, <1>2, <2>1, <2>2, SavedRecord
<1>4. CASE a # Root
  <2> DEFINE death == IF agent[a].death = "none" THEN "failed" ELSE agent[a].death
             n == [agent[a] EXCEPT !.stage = "idle", !.death = death]
  <2>1. n.stage = "idle" /\ n.claims = agent[a].claims /\ n.reports = agent[a].reports
    BY <1>1 DEF Memory
  <2>2. Saves(a, n)
    BY <1>4 DEF FailTurn
  <2> HIDE DEF n
  <2> QED
    BY <1>1, <1>2, <2>1, <2>2, SavedRecord
<1> QED
  BY <1>3, <1>4

LEMMA SuspendRecord == ASSUME TreeInv, RecordInv, NEW a \in Agents, SuspendSaves(a) PROVE RecordInv'
<1> DEFINE n == [agent[a] EXCEPT !.stage = "down"]
<1>1. agent[a] \in Memory /\ ~Gone(a) /\ Stage(a) # "birth"
  BY DEF TreeInv, TreeTypeOK, SuspendSaves, Gone
<1>2. n.stage = "down" /\ n.claims = agent[a].claims /\ n.reports = agent[a].reports
  BY <1>1 DEF Memory
<1>3. Saves(a, n) /\ births' = births /\ told' = told /\ mishaps \subseteq mishaps'
  BY DEF SuspendSaves, History
<1> HIDE DEF n
<1> QED
  BY <1>1, <1>2, <1>3, SavedRecord

\* Latches are no record.
LEMMA LatchRecord ==
  ASSUME TreeInv, RecordInv, file' = file, births' = births, told' = told, mishaps' = mishaps,
         \A d \in Agents :
           /\ Gone(d)' <=> Gone(d)
           /\ Stage(d)' = "birth" <=> Stage(d) = "birth"
           /\ agent'[d].claims = agent[d].claims /\ agent'[d].reports = agent[d].reports
  PROVE  RecordInv'
<1>1. Unchanging
  BY DEF Unchanging
<1> QED
  BY <1>1, UnchangingStep

LEMMA KillRecord ==
  ASSUME TreeInv, RecordInv, NEW a \in Agents, NEW c \in Agents, Kill(a, c) PROVE RecordInv'
<1>1. /\ agent \in [Agents -> Memory] /\ agent[c] \in Memory /\ ~Gone(a)
      /\ file \in [Agents -> Snapshots]
  BY DEF TreeInv, TreeTypeOK, Kill, InVerbs, Gone
<1>2. PICK n : n = Killed(agent[c])
  OBVIOUS
<1>3. n.stage = agent[c].stage /\ n.claims = agent[c].claims /\ n.reports = agent[c].reports
  BY <1>1, <1>2, StoppedMemory
<1>4. PICK f : f = Snapshot(agent[a], FALSE)
  OBVIOUS
<1>5. f.exists /\ f.claims = agent[a].claims /\ f.reports = agent[a].reports
  BY <1>4 DEF Snapshot
<1>6. /\ agent' = [agent EXCEPT ![c] = n] /\ file' = [file EXCEPT ![a] = f]
      /\ births' = births /\ told' = told /\ mishaps' = mishaps
  BY <1>1, <1>2, <1>4 DEF Kill, History
<1>7. Unchanging
  BY <1>1, <1>3, <1>5, <1>6 DEF Unchanging, Gone, Stage
<1> QED
  BY <1>7, UnchangingStep

LEMMA LoopEndsRecord == ASSUME TreeInv, RecordInv, NEW a \in Agents, LoopEnds(a) PROVE RecordInv'
<1> DEFINE stage == IF agent[a].death # "none" THEN "dispose" ELSE "suspend"
           n == [agent[a] EXCEPT !.stage = stage]
<1>1. (\A d \in Agents : agent[d] \in Memory) /\ agent[a].stage = "idle"
  BY DEF TreeInv, TreeTypeOK, LoopEnds, Stage
<1>2. /\ n.stage \in {"dispose", "suspend"}
      /\ n.claims = agent[a].claims /\ n.reports = agent[a].reports
  BY <1>1 DEF Memory
<1>3. /\ agent' = [d \in Agents |->
           IF d = a THEN n
           ELSE IF d \in Children(a) THEN StopChild(a, agent[d]) ELSE agent[d]]
      /\ births' = births /\ told' = told /\ mishaps' = mishaps /\ file' = file
  BY DEF LoopEnds, History
<1> HIDE DEF n
<1>4. ASSUME NEW d \in Agents
      PROVE  /\ Gone(d)' <=> Gone(d)
             /\ Stage(d)' = "birth" <=> Stage(d) = "birth"
             /\ agent'[d].claims = agent[d].claims /\ agent'[d].reports = agent[d].reports
  <2>1. CASE d = a
    BY <1>1, <1>2, <1>3, <2>1 DEF Gone, Stage
  <2>2. CASE d # a
    <3>1. agent'[d] \in {agent[d], Killed(agent[d]), Suspended(agent[d])}
      BY <1>3, <2>2 DEF StopChild
    <3>2. /\ agent'[d].stage = agent[d].stage
          /\ agent'[d].claims = agent[d].claims /\ agent'[d].reports = agent[d].reports
      BY <1>1, <3>1, StoppedMemory
    <3> QED
      BY <3>2 DEF Gone, Stage
  <2> QED
    BY <2>1, <2>2
<1> QED
  BY <1>3, <1>4, LatchRecord

LEMMA UserRecord == ASSUME TreeInv, RecordInv, Pause \/ Resume \/ Shutdown PROVE RecordInv'
<1>1. agent \in [Agents -> Memory] /\ \A d \in Agents : agent[d] \in Memory
  BY DEF TreeInv, TreeTypeOK
<1>2. file' = file /\ births' = births /\ told' = told /\ mishaps' = mishaps
  BY DEF Pause, Resume, Shutdown, History
<1>3. ASSUME NEW d \in Agents
      PROVE  /\ agent'[d].stage = agent[d].stage
             /\ agent'[d].claims = agent[d].claims /\ agent'[d].reports = agent[d].reports
  <2>0. agent[d] \in Memory
    BY <1>1
  <2>1. CASE Pause
    <3>1. agent'[d] \in {agent[d], Frozen(agent[d])}
      BY <2>1 DEF Pause
    <3> QED
      BY <2>0, <3>1, FrozenMemory
  <2>2. CASE Resume
    <3>1. agent'[d] \in {agent[d], [agent[d] EXCEPT !.paused = FALSE]}
      BY <2>2 DEF Resume
    <3> QED
      BY <2>0, <3>1 DEF Memory
  <2>3. CASE Shutdown
    <3>1. agent'[d] \in {agent[d], Suspended(agent[d])}
      BY <1>1, <2>3 DEF Shutdown
    <3> QED
      BY <2>0, <3>1, StoppedMemory
  <2> QED
    BY <2>1, <2>2, <2>3
<1>4. \A d \in Agents : (Gone(d)' <=> Gone(d)) /\ (Stage(d)' = "birth" <=> Stage(d) = "birth")
  BY <1>3 DEF Gone, Stage
<1> QED
  BY <1>2, <1>3, <1>4, LatchRecord

------------------------------------------------------------------------------
(* Births.                                                                 *)

LEMMA SpawnRecord ==
  ASSUME TreeInv, RecordInv, NEW a \in Agents, NEW c \in Agents, Spawn(a, c) PROVE RecordInv'
<1> DEFINE m == [agent[a] EXCEPT !.stage = "spawn", !.baby = c]
           n == Fresh("birth", Append(agent[a].chain, c), {}, {})
<1>1. /\ agent \in [Agents -> Memory] /\ agent[a] \in Memory
      /\ Stage(a) = "turn" /\ Stage(c) = "unborn" /\ a # c
  BY DEF TreeInv, TreeTypeOK, Spawn, InVerbs, Stage
<1>2. m.stage = "spawn" /\ m.claims = agent[a].claims /\ m.reports = agent[a].reports
  BY <1>1 DEF Memory
<1>3. n.stage = "birth" /\ n.claims = {} /\ n.reports = {}
  BY DEF Fresh
<1>4. /\ agent' = [agent EXCEPT ![a] = m, ![c] = n]
      /\ births' = births \cup {c} /\ file' = file /\ told' = told /\ mishaps' = mishaps
  BY <1>1 DEF Spawn, History
<1> HIDE DEF m, n
<1>5. agent'[a] = m /\ agent'[c] = n /\ \A d \in Agents \ {a, c} : agent'[d] = agent[d]
  BY <1>1, <1>4
<1>6. NoNews
  BY <1>1, <1>2, <1>3, <1>4, <1>5 DEF NoNews, Gone, Stage
<1>7. \A d \in Agents : Stage(d)' = "birth" <=> Stage(d) = "birth" \/ d = c
  BY <1>1, <1>2, <1>3, <1>5 DEF Stage
<1>8. BirthsWritten' /\ BirthsAwaited'
  BY <1>4, <1>7 DEF RecordInv, BirthsWritten, BirthsAwaited, TreeInv, TreeTypeOK
<1> QED
  BY <1>6, <1>8, NoNewsStep

\* However a's spawn of c ends, c starts, and a claims it only once it is written.
SpawnOver(a, c) ==
  /\ Stage(a) = "spawn" /\ c = agent[a].baby
  /\ agent'[a].stage \in {"turn", "idle"} /\ agent'[a].reports = agent[a].reports
  /\ \A e \in agent'[a].claims : e \in agent[a].claims \/ (e = c /\ c \notin births)
  /\ agent'[c] = Started(a, c)
  /\ \A d \in Agents \ {a, c} : agent'[d] = agent[d]
  /\ \A d \in Agents : file'[d] = file[d] \/ (d = a /\ file'[d] = Snapshot(agent'[a], FALSE))
  /\ births' = births /\ told' = told /\ mishaps \subseteq mishaps'
  /\ c \in births => "abandon" \in mishaps'

LEMMA SpawnEndsRecord ==
  ASSUME TreeInv, RecordInv, NEW a \in Agents, NEW c, SpawnOver(a, c) PROVE RecordInv'
<1> USE DEF SpawnOver
<1>1. InBirth(c, a) /\ c \in Agents /\ Stage(c) = "birth" /\ c # a /\ c # Root
  BY ChildChain DEF TreeInv, Babies, InBirth
<1>2. PICK q : q = Started(a, c)
  OBVIOUS
<1>3. /\ agent'[c] = q /\ q.stage = "idle"
      /\ q.claims = agent[c].claims /\ q.reports = agent[c].reports
  BY <1>1, <1>2, StartedMemory DEF TreeInv, TreeTypeOK
<1>4. PICK f : f = Snapshot(agent'[a], FALSE)
  OBVIOUS
<1>5. f.exists /\ f.claims = agent'[a].claims /\ f.reports = agent'[a].reports
  BY <1>4 DEF Snapshot
<1>6. \A d \in Agents : file'[d] = file[d] \/ (d = a /\ file'[d] = f)
  BY <1>4
<1>7. "badWrite" \notin mishaps /\ c \notin births => file[c].exists
  BY <1>1 DEF RecordInv, BirthsWritten
<1>8. NoNews
  <2>1. \A d \in Agents : Gone(d)' <=> Gone(d)
    BY <1>1, <1>3 DEF Gone, Stage
  <2>2. \A d \in Agents : agent'[d].reports \subseteq agent[d].reports
    BY <1>1, <1>3
  <2>3. ASSUME NEW d \in Agents, NEW e \in agent'[d].claims
        PROVE  \/ e \in agent[d].claims
               \/ e # Root /\ ("badWrite" \notin mishaps => file[e].exists)
    <3>1. CASE d = a
      BY <1>1, <1>7, <2>3, <3>1
    <3>2. CASE d # a
      BY <1>3, <2>3, <3>2
    <3> QED
      BY <3>1, <3>2
  <2>4. ASSUME NEW d \in Agents
        PROVE  \/ file'[d] = file[d]
               \/ /\ file'[d].exists
                  /\ file'[d].claims \subseteq agent'[d].claims
                  /\ file'[d].reports \subseteq agent'[d].reports
                  /\ Gone(d) => "abandon" \in mishaps
    BY <1>5, <1>6 DEF Gone
  <2> QED
    BY <2>1, <2>2, <2>3, <2>4 DEF NoNews
<1>9. \A d \in Agents : Stage(d)' = "birth" <=> Stage(d) = "birth" /\ d # c
  BY <1>1, <1>3 DEF Stage
<1>10. BirthsWritten'
  BY <1>5, <1>6, <1>9 DEF RecordInv, BirthsWritten
<1>11. BirthsAwaited'
  BY <1>9 DEF RecordInv, BirthsAwaited, TreeInv, TreeTypeOK
<1> QED
  BY <1>8, <1>10, <1>11, NoNewsStep

LEMMA SpawnReturnsRecord ==
  ASSUME TreeInv, RecordInv, NEW a \in Agents, SpawnReturns(a) PROVE RecordInv'
<1> DEFINE b == agent[a].baby
           m == [agent[a] EXCEPT !.stage = "turn", !.baby = NoAgent, !.claims = @ \cup {b}]
<1>1. /\ agent \in [Agents -> Memory] /\ agent[a] \in Memory /\ file \in [Agents -> Snapshots]
      /\ Stage(a) = "spawn" /\ b \notin births
  BY DEF TreeInv, TreeTypeOK, SpawnReturns, Written
<1>2. b \in Agents /\ b # a
  BY <1>1 DEF TreeInv, Babies, InBirth, Stage
<1>3. /\ m.stage = "turn" /\ m.reports = agent[a].reports
      /\ m.claims = agent[a].claims \cup {b}
  BY <1>1 DEF Memory
<1>4. /\ agent' = [agent EXCEPT ![a] = m, ![b] = Started(a, b)]
      /\ file' = [file EXCEPT ![a] = Snapshot(m, FALSE)]
      /\ births' = births /\ told' = told /\ mishaps \subseteq mishaps'
  BY DEF SpawnReturns, History
<1>5. PICK c : c = b
  OBVIOUS
<1>6. PICK n : n = m
  OBVIOUS
<1> HIDE DEF b, m
<1>7. /\ agent'[a] = n /\ agent'[c] = Started(a, c)
      /\ \A d \in Agents \ {a, c} : agent'[d] = agent[d]
      /\ \A d \in Agents : file'[d] = file[d] \/ (d = a /\ file'[d] = Snapshot(n, FALSE))
  BY <1>1, <1>2, <1>4, <1>5, <1>6
<1>8. /\ n.stage \in {"turn", "idle"} /\ n.reports = agent[a].reports /\ c \notin births
      /\ \A e \in n.claims : e \in agent[a].claims \/ (e = c /\ c \notin births)
      /\ c \in births => "abandon" \in mishaps'
  BY <1>1, <1>3, <1>5, <1>6
<1>9. c = agent[a].baby
  BY <1>5 DEF b
<1>10. /\ agent'[a].stage \in {"turn", "idle"} /\ agent'[a].reports = agent[a].reports
       /\ \A e \in agent'[a].claims : e \in agent[a].claims \/ (e = c /\ c \notin births)
       /\ \A d \in Agents : file'[d] = file[d] \/ (d = a /\ file'[d] = Snapshot(agent'[a], FALSE))
  BY <1>7, <1>8
<1>11. c \in births => "abandon" \in mishaps'
  BY <1>8
<1>12. SpawnOver(a, c)
  BY <1>1, <1>4, <1>7, <1>9, <1>10, <1>11 DEF SpawnOver
<1> QED
  BY <1>12, SpawnEndsRecord

LEMMA SpawnCancelledRecord ==
  ASSUME TreeInv, RecordInv, NEW a \in Agents, SpawnCancelled(a) PROVE RecordInv'
<1>1. PICK c : c = agent[a].baby
  OBVIOUS
<1>2. /\ agent \in [Agents -> Memory] /\ agent[a] \in Memory /\ file \in [Agents -> Snapshots]
      /\ Stage(a) = "spawn"
  BY DEF TreeInv, TreeTypeOK, SpawnCancelled
<1>3. c \in Agents /\ c # a
  BY <1>1, <1>2 DEF TreeInv, Babies, InBirth, Stage
<1>4. PICK n : n = Cut(a)
  OBVIOUS
<1>5. n.stage = "idle" /\ n.claims = agent[a].claims /\ n.reports = agent[a].reports
  BY <1>2, <1>4, CutMemory
<1>6. /\ agent' = [agent EXCEPT ![a] = n, ![c] = Started(a, c)] /\ Parks(a)
      /\ births' = births /\ told' = told /\ mishaps \subseteq mishaps'
      /\ c \in births => "abandon" \in mishaps'
  BY <1>1, <1>4 DEF SpawnCancelled, Mishap
<1>7. \A d \in Agents : file'[d] = file[d] \/ (d = a /\ file'[d] = Snapshot(n, FALSE))
  BY <1>2, <1>4, <1>6 DEF Parks
<1>8. /\ agent'[a] = n /\ agent'[c] = Started(a, c)
      /\ \A d \in Agents \ {a, c} : agent'[d] = agent[d]
  BY <1>2, <1>3, <1>6
<1>9. /\ agent'[a].stage \in {"turn", "idle"} /\ agent'[a].reports = agent[a].reports
      /\ \A e \in agent'[a].claims : e \in agent[a].claims \/ (e = c /\ c \notin births)
      /\ \A d \in Agents : file'[d] = file[d] \/ (d = a /\ file'[d] = Snapshot(agent'[a], FALSE))
  BY <1>5, <1>7, <1>8
<1>10. SpawnOver(a, c)
  BY <1>1, <1>2, <1>6, <1>7, <1>8, <1>9 DEF SpawnOver
<1> QED
  BY <1>10, SpawnEndsRecord

LEMMA BirthRecord ==
  ASSUME TreeInv, RecordInv, NEW c \in Agents, BirthLands(c) \/ BirthFails(c) PROVE RecordInv'
<1>1. /\ c \in births /\ births' = births \ {c} /\ agent' = agent /\ told' = told
      /\ mishaps \subseteq mishaps' /\ file \in [Agents -> Snapshots]
  BY DEF BirthLands, BirthFails, Mishap, History, TreeInv, TreeTypeOK
<1>2. BirthsAwaited'
  BY <1>1 DEF RecordInv, BirthsAwaited, Stage
<1>3. CASE BirthLands(c)
  <2> DEFINE m == Fresh("birth", agent[c].chain, {}, {})
  <2>1. m.claims = {} /\ m.reports = {}
    BY DEF Fresh
  <2>2. file' = [file EXCEPT ![c] = Snapshot(m, FALSE)]
    BY <1>3 DEF BirthLands
  <2> HIDE DEF m
  <2>3. /\ file'[c].exists /\ file'[c].claims = {} /\ file'[c].reports = {}
        /\ \A d \in Agents \ {c} : file'[d] = file[d]
    BY <1>1, <2>1, <2>2 DEF Snapshot
  <2>4. Gone(c) => "abandon" \in mishaps
    BY <1>1 DEF RecordInv, BirthsAwaited, Gone
  <2>5. NoNews
    BY <1>1, <2>3, <2>4 DEF NoNews, Gone, Stage
  <2>6. BirthsWritten'
    BY <1>1, <2>3 DEF RecordInv, BirthsWritten, Stage
  <2> QED
    BY <1>2, <2>5, <2>6, NoNewsStep
<1>4. CASE BirthFails(c)
  <2>1. file' = file /\ "badWrite" \in mishaps'
    BY <1>4 DEF BirthFails, Mishap
  <2>2. NoNews
    BY <1>1, <2>1 DEF NoNews, Gone, Stage
  <2>3. BirthsWritten'
    BY <2>1 DEF BirthsWritten
  <2> QED
    BY <1>2, <2>2, <2>3, NoNewsStep
<1> QED
  BY <1>3, <1>4

------------------------------------------------------------------------------
(* Exits, crashes and boots.                                               *)

LEMMA DisposeRecord == ASSUME TreeInv, RecordInv, NEW a \in Agents, Dispose(a) PROVE RecordInv'
<1>1. /\ agent'[a].stage = "gone" /\ \A d \in Agents \ {a} : agent'[d].stage = agent[d].stage
      /\ \A d \in Agents :
           /\ agent'[d].claims = agent[d].claims
           /\ agent'[d].reports \subseteq agent[d].reports \cup {a}
  BY DisposeShape DEF OnlyStage
<1>2. /\ file' = [file EXCEPT ![a] = NoFile] /\ births' = births /\ mishaps' = mishaps
      /\ told' = [told EXCEPT ![a] = @ + 1] /\ Stage(a) = "dispose"
      /\ file \in [Agents -> Snapshots] /\ births \subseteq Agents
  BY DEF Dispose, Leaves, TreeInv, TreeTypeOK
<1>3. /\ Gone(a)' /\ \A d \in Agents : Gone(d) => Gone(d)'
      /\ \A d \in Agents \ {a} : Gone(d)' => Gone(d)
      /\ \A d \in Agents : Stage(d)' = "birth" <=> Stage(d) = "birth"
  BY <1>1, <1>2 DEF Gone, Stage
<1>4. /\ ~file'[a].exists /\ ~file'[a].death /\ file'[a].claims = {} /\ file'[a].reports = {}
      /\ \A d \in Agents \ {a} : file'[d] = file[d]
  BY <1>2 DEF NoFile
<1>5. told' \in [Agents -> Nat] /\ told'[a] = told[a] + 1 /\ \A d \in Agents \ {a} : told'[d] = told[d]
  BY <1>2 DEF RecordInv
<1>6. DeathIsOnFile'
  BY <1>4 DEF RecordInv, DeathIsOnFile
<1>7. ClaimsHold'
  BY <1>1, <1>2, <1>3, <1>4 DEF RecordInv, ClaimsHold
<1>8. BirthsWritten' /\ BirthsAwaited'
  BY <1>2, <1>3, <1>4 DEF RecordInv, BirthsWritten, BirthsAwaited, Stage
<1>9. GoneForGood'
  <2> SUFFICES ASSUME "abandon" \notin mishaps
               PROVE  /\ \A d \in Agents : Gone(d)' => ~file'[d].exists
                      /\ \A d \in Agents : told'[d] = 0 \/ (told'[d] = 1 /\ Gone(d)')
                      /\ \A q, c \in Agents :
                           c \in agent'[q].reports \cup file'[q].reports => Gone(c)'
    BY <1>2 DEF GoneForGood
  <2>1. told[a] = 0
    BY <1>2 DEF RecordInv, GoneForGood, Gone
  <2>2. ASSUME NEW d \in Agents
        PROVE  /\ Gone(d)' => ~file'[d].exists
               /\ told'[d] = 0 \/ (told'[d] = 1 /\ Gone(d)')
    BY <1>3, <1>4, <1>5, <2>1 DEF RecordInv, GoneForGood
  <2>3. ASSUME NEW q \in Agents, NEW c \in Agents, c \in agent'[q].reports \cup file'[q].reports
        PROVE  Gone(c)'
    <3>1. c = a \/ c \in agent[q].reports \cup file[q].reports
      BY <1>1, <1>4, <2>3
    <3> QED
      BY <1>3, <3>1 DEF RecordInv, GoneForGood
  <2> QED
    BY <2>2, <2>3
<1> QED
  BY <1>5, <1>6, <1>7, <1>8, <1>9 DEF RecordInv

LEMMA CrashRecord == ASSUME TreeInv, RecordInv, Crash PROVE RecordInv'
<1>1. /\ agent \in [Agents -> Memory]
      /\ agent' = [a \in Agents |->
           IF Stage(a) \in {"unborn", "gone"} THEN agent[a]
           ELSE Fresh("down", agent[a].chain, {}, {})]
      /\ births' = {} /\ file' = file /\ mishaps' = mishaps /\ told' = told
  BY DEF Crash, TreeInv, TreeTypeOK
<1>2. ASSUME NEW d \in Agents
      PROVE  /\ Gone(d)' <=> Gone(d)
             /\ Stage(d)' # "birth"
             /\ agent'[d].claims \subseteq agent[d].claims
             /\ agent'[d].reports \subseteq agent[d].reports
  <2>1. PICK n : n = Fresh("down", agent[d].chain, {}, {})
    OBVIOUS
  <2>2. n.stage = "down" /\ n.claims = {} /\ n.reports = {}
    BY <2>1 DEF Fresh
  <2>3. agent'[d] = IF Stage(d) \in {"unborn", "gone"} THEN agent[d] ELSE n
    BY <1>1, <2>1
  <2> QED
    BY <2>2, <2>3 DEF Gone, Stage
<1>3. NoNews
  BY <1>1, <1>2 DEF NoNews
<1>4. BirthsWritten' /\ BirthsAwaited'
  BY <1>1, <1>2 DEF BirthsWritten, BirthsAwaited
<1> QED
  BY <1>3, <1>4, NoNewsStep

LEMMA BootRecord == ASSUME TreeInv, RecordInv, Boot PROVE RecordInv'
<1>1. /\ file' = [a \in Agents |-> IF a \in Restorable THEN file[a] ELSE NoFile]
      /\ births = {} /\ births' = {} /\ mishaps' = mishaps /\ told' = told /\ Stage(Root) = "down"
  BY DEF Boot, History
<1>2. ASSUME NEW d \in Agents
      PROVE  /\ d \in Restorable =>
                  /\ agent'[d].stage = "idle"
                  /\ agent'[d].claims = file[d].claims /\ agent'[d].reports = file[d].reports
             /\ d \notin Restorable /\ d # Root =>
                  /\ Born(d) => Gone(d)'
                  /\ ~Born(d) => Stage(d)' = "unborn"
                  /\ agent'[d].claims \subseteq agent[d].claims
                  /\ agent'[d].reports \subseteq agent[d].reports
             /\ d \notin Restorable /\ d = Root =>
                  agent'[d].stage = "idle" /\ agent'[d].claims = {} /\ agent'[d].reports = {}
  <2>1. PICK kept : kept = Fresh("idle", file[d].chain, file[d].claims, file[d].reports)
    OBVIOUS
  <2>2. PICK lost : lost = Fresh("gone", agent[d].chain, {}, {})
    OBVIOUS
  <2>3. PICK first : first = Fresh("idle", <<Root>>, {}, {})
    OBVIOUS
  <2>4. /\ kept.stage = "idle" /\ kept.claims = file[d].claims /\ kept.reports = file[d].reports
        /\ lost.stage = "gone" /\ lost.claims = {} /\ lost.reports = {}
        /\ first.stage = "idle" /\ first.claims = {} /\ first.reports = {}
    BY <2>1, <2>2, <2>3 DEF Fresh
  <2>5. agent'[d] = IF d \in Restorable THEN kept
                    ELSE IF d = Root THEN first
                    ELSE IF Stage(d) = "unborn" THEN agent[d]
                    ELSE lost
    BY <2>1, <2>2, <2>3 DEF Boot
  <2>6. CASE d \in Restorable
    BY <2>4, <2>5, <2>6
  <2>7. CASE d \notin Restorable /\ d = Root
    BY <2>4, <2>5, <2>7
  <2>8. CASE d \notin Restorable /\ d # Root
    BY <2>4, <2>5, <2>8 DEF Gone, Born, Stage
  <2> QED
    BY <2>6, <2>7, <2>8
<1>3. ASSUME NEW d \in Agents
      PROVE  /\ d \in Restorable => file'[d] = file[d] /\ file[d].exists
             /\ d \notin Restorable =>
                  /\ ~file'[d].exists /\ ~file'[d].death
                  /\ file'[d].claims = {} /\ file'[d].reports = {}
  BY <1>1 DEF NoFile, Restorable, Present
<1>4. DeathIsOnFile'
  BY <1>3 DEF RecordInv, DeathIsOnFile
<1>5. \A q, c \in Agents :
        /\ c \in agent'[q].claims \cup file'[q].claims => c \in agent[q].claims \cup file[q].claims
        /\ c \in agent'[q].reports \cup file'[q].reports => c \in agent[q].reports \cup file[q].reports
  BY <1>2, <1>3
<1>6. \A c \in Agents \ {Root} : file[c].exists \/ Gone(c) => file'[c].exists \/ Gone(c)'
  BY <1>2, <1>3 DEF TreeInv, Files, Gone, Born
<1>7. ClaimsHold'
  BY <1>1, <1>5, <1>6 DEF RecordInv, ClaimsHold
<1>8. BirthsWritten' /\ BirthsAwaited'
  <2>1. \A d \in Agents : Stage(d)' # "birth"
    BY <1>2 DEF Gone, Stage
  <2> QED
    BY <1>1, <2>1 DEF BirthsWritten, BirthsAwaited
<1>9. GoneForGood'
  <2> SUFFICES ASSUME "abandon" \notin mishaps
               PROVE  /\ \A d \in Agents : Gone(d)' => ~file'[d].exists
                      /\ \A d \in Agents : told'[d] = 0 \/ (told'[d] = 1 /\ Gone(d)')
                      /\ \A q, c \in Agents :
                           c \in agent'[q].reports \cup file'[q].reports => Gone(c)'
    BY <1>1 DEF GoneForGood
  <2>1. \A d \in Agents : Gone(d) => Gone(d)'
    <3> SUFFICES ASSUME NEW d \in Agents, Gone(d) PROVE Gone(d)'
      OBVIOUS
    <3>1. ~file[d].exists /\ d # Root /\ Born(d)
      BY <1>1 DEF RecordInv, GoneForGood, Gone, Born
    <3> QED
      BY <1>2, <1>3, <3>1
  <2>2. \A d \in Agents : Gone(d)' => ~file'[d].exists
    BY <1>2, <1>3 DEF Gone, Stage
  <2> QED
    BY <1>1, <1>5, <2>1, <2>2 DEF RecordInv, GoneForGood
<1> QED
  BY <1>1, <1>4, <1>7, <1>8, <1>9 DEF RecordInv

------------------------------------------------------------------------------
(* The invariant holds, and what follows.                                  *)

LEMMA RecordInit == Init => RecordInv
<1> SUFFICES ASSUME Init PROVE RecordInv
  OBVIOUS
<1>1. \A a \in Agents :
        Stage(a) \in {"idle", "unborn"} /\ agent[a].claims = {} /\ agent[a].reports = {}
  BY DEF Init, Fresh, Stage
<1>2. \A a \in Agents : ~file[a].death /\ file[a].claims = {} /\ file[a].reports = {}
  BY DEF Init, NoFile
<1>3. births = {} /\ told \in [Agents -> Nat] /\ \A a \in Agents : told[a] = 0
  BY DEF Init
<1> QED
  BY <1>1, <1>2, <1>3
     DEF RecordInv, DeathIsOnFile, ClaimsHold, BirthsWritten, BirthsAwaited, GoneForGood, Gone

LEMMA RecordStep == TreeInv /\ RecordInv /\ [Next]_vars => RecordInv'
<1> SUFFICES ASSUME TreeInv, RecordInv, [Next]_vars PROVE RecordInv'
  OBVIOUS
<1>1. ASSUME NEW a \in Agents, Turn(a) PROVE RecordInv'
  BY <1>1, TurnRecord, FailRecord, SpawnRecord, KillRecord DEF Turn
<1>2. ASSUME NEW a \in Agents, Progress(a) PROVE RecordInv'
  BY <1>2, TurnRecord, EndRecord, SpawnReturnsRecord, SpawnCancelledRecord, BirthRecord,
     LoopEndsRecord, DisposeRecord, SuspendRecord DEF Progress
<1>3. ASSUME NEW a \in Agents, BirthFails(a) PROVE RecordInv'
  BY <1>3, BirthRecord
<1>4. CASE UNCHANGED vars
  <2>1. /\ agent' = agent /\ file' = file /\ births' = births /\ told' = told
        /\ mishaps' = mishaps
    BY <1>4 DEF vars, History
  <2>2. \A d \in Agents : (Gone(d)' <=> Gone(d)) /\ (Stage(d)' = "birth" <=> Stage(d) = "birth")
    BY <2>1 DEF Gone, Stage
  <2> QED
    BY <2>1, <2>2, LatchRecord
<1> QED
  BY <1>1, <1>2, <1>3, <1>4, UserRecord, CrashRecord, BootRecord DEF Next

\* A spawn that a parent has on file is of a child that is on file, or has died
\* ("A claim can only be committed after the child's write"), but for a birth
\* write that failed.
THEOREM ClaimsAreOfChildren == Spec => []NoFalseChild
<1>1. RecordInv => NoFalseChild
  BY DEF RecordInv, ClaimsHold, NoFalseChild, Gone
<1> QED
  BY <1>1, TreeInit, TreeStep, RecordInit, RecordStep, PTL DEF Spec

\* An exit is announced at most once, and of an agent that does not run; a report,
\* in memory or on file, is of a child that is gone with its snapshot, but for a
\* birth write that outlived its spawn.
THEOREM ReportsHold == Spec => []ReportsAreTrue
<1>1. RecordInv => ReportsAreTrue
  <2> SUFFICES ASSUME RecordInv, "abandon" \notin mishaps PROVE
        /\ \A a \in Agents : told[a] <= 1 /\ (told[a] = 1 => ~Live(a))
        /\ \A p, c \in Agents : c \in agent[p].reports \cup file[p].reports =>
             Stage(c) = "gone" /\ ~file[c].exists
    BY DEF ReportsAreTrue
  <2>1. \A a \in Agents : told[a] <= 1 /\ (told[a] = 1 => ~Live(a))
    BY DEF RecordInv, GoneForGood, Gone, Live
  <2>2. \A p, c \in Agents : c \in agent[p].reports \cup file[p].reports =>
           Stage(c) = "gone" /\ ~file[c].exists
    BY DEF RecordInv, GoneForGood, Gone
  <2> QED
    BY <2>1, <2>2
<1> QED
  BY <1>1, TreeInit, TreeStep, RecordInit, RecordStep, PTL DEF Spec

------------------------------------------------------------------------------
(* Who comes to life.                                                      *)

\* Only a spawn and a boot bring anyone to life.
LEMMA OnlySpawnAndBoot ==
  ASSUME TreeInv, [Next]_vars, ~Boot, NEW d \in Agents, ~Live(d), \A a \in Agents : ~Spawn(a, d)
  PROVE  ~Live(d)'
<1>1. agent \in [Agents -> Memory] /\ \A a \in Agents : agent[a] \in Memory
  BY DEF TreeInv, TreeTypeOK
<1>2. ASSUME NEW a \in Agents,
             \/ TurnStarts(a) \/ Answered(a) \/ Finish(a) \/ FailTurn(a) \/ TurnEnds(a)
             \/ TurnCancelled(a) \/ SuspendSaves(a)
      PROVE  ~Live(d)'
  <2>1. Live(a)
    BY <1>2 DEF TurnStarts, Answered, Finish, FailTurn, TurnEnds, TurnCancelled, SuspendSaves,
                InVerbs, Live
  <2>2. agent'[d] = agent[d]
    BY <1>1, <1>2, <2>1 DEF TurnStarts, Answered, Finish, FailTurn, TurnEnds, TurnCancelled,
                            SuspendSaves, Saves
  <2> QED
    BY <2>2 DEF Live, Stage
<1>3. ASSUME NEW a \in Agents, NEW c \in Agents, Spawn(a, c) PROVE ~Live(d)'
  <2>1. d # a /\ d # c
    BY <1>3 DEF Spawn, InVerbs, Live
  <2>2. agent'[d] = agent[d]
    BY <1>1, <1>3, <2>1 DEF Spawn
  <2> QED
    BY <2>2 DEF Live, Stage
<1>4. ASSUME NEW a \in Agents, NEW c \in Agents, Kill(a, c) PROVE ~Live(d)'
  <2>1. agent'[d] \in {agent[d], Killed(agent[d])}
    BY <1>1, <1>4 DEF Kill
  <2>2. agent'[d].stage = agent[d].stage
    BY <1>1, <2>1, StoppedMemory
  <2> QED
    BY <2>2 DEF Live, Stage
<1>5. ASSUME NEW a \in Agents, SpawnReturns(a) \/ SpawnCancelled(a) PROVE ~Live(d)'
  <2>1. PICK c : c = agent[a].baby
    OBVIOUS
  <2>2. Stage(a) = "spawn" /\ Stage(c) = "birth"
    BY <1>5, <2>1 DEF SpawnReturns, SpawnCancelled, TreeInv, Babies, InBirth
  <2>3. d # a /\ d # c
    BY <2>2 DEF Live
  <2>4. agent'[d] = agent[d]
    BY <1>1, <1>5, <2>1, <2>3 DEF SpawnReturns, SpawnCancelled
  <2> QED
    BY <2>4 DEF Live, Stage
<1>6. ASSUME NEW a \in Agents, BirthLands(a) \/ BirthFails(a) PROVE ~Live(d)'
  BY <1>6 DEF BirthLands, BirthFails, Live, Stage
<1>7. ASSUME NEW a \in Agents, LoopEnds(a) PROVE ~Live(d)'
  <2>1. d # a
    BY <1>7 DEF LoopEnds, Live
  <2>2. agent'[d] \in {agent[d], Killed(agent[d]), Suspended(agent[d])}
    BY <1>7, <2>1 DEF LoopEnds, StopChild
  <2>3. agent'[d].stage = agent[d].stage
    BY <1>1, <2>2, StoppedMemory
  <2> QED
    BY <2>3 DEF Live, Stage
<1>8. ASSUME NEW a \in Agents, Dispose(a) PROVE ~Live(d)'
  <2>1. agent'[d].stage = agent[d].stage \/ agent'[d].stage = "gone"
    BY <1>8, DisposeShape DEF OnlyStage
  <2> QED
    BY <2>1 DEF Live, Stage
<1>9. CASE Pause \/ Resume \/ Shutdown
  <2>1. agent[d] \in Memory
    BY <1>1
  <2>2. \/ agent'[d] \in {agent[d], Frozen(agent[d]), Suspended(agent[d])}
        \/ agent'[d] = [agent[d] EXCEPT !.paused = FALSE]
    BY <1>1, <1>9 DEF Pause, Resume, Shutdown
  <2>3. agent'[d].stage = agent[d].stage
    BY <2>1, <2>2, FrozenMemory, StoppedMemory DEF Memory
  <2> QED
    BY <2>3 DEF Live, Stage
<1>10. CASE Crash
  <2>1. PICK n : n = Fresh("down", agent[d].chain, {}, {})
    OBVIOUS
  <2>2. n.stage = "down" /\ agent'[d] \in {agent[d], n}
    BY <1>10, <2>1 DEF Crash, Fresh
  <2> QED
    BY <2>2 DEF Live, Stage
<1>11. CASE UNCHANGED vars
  BY <1>11 DEF vars, Live, Stage
<1> QED
  BY <1>2, <1>3, <1>4, <1>5, <1>6, <1>7, <1>8, <1>9, <1>10, <1>11 DEF Next, Turn, Progress

\* Who is gone, or stopped with its exit on file, is not restored and never runs
\* again (boot.py), but for a birth write that outlived its spawn.
THEOREM TheDeadStayDead == Spec => DeadStayDead
<1> DEFINE StaysDead(a) == "abandon" \notin mishaps /\ ~Live(a) /\ (Stage(a) = "gone" \/ file[a].death)
                         => ~Live(a)'
           AllStay == \A a \in Agents \ {Root} : StaysDead(a)
<1>1. TreeInv /\ RecordInv /\ [Next]_vars => AllStay
  <2> SUFFICES ASSUME TreeInv, RecordInv, [Next]_vars, NEW d \in Agents \ {Root},
                      "abandon" \notin mishaps, ~Live(d), Gone(d) \/ file[d].death
               PROVE  ~Live(d)'
    BY DEF Gone
  <2>1. Born(d)
    BY DEF RecordInv, DeathIsOnFile, TreeInv, Files, Gone, Born
  <2>2. d \notin Restorable
    BY DEF RecordInv, GoneForGood, Restorable, Present
  <2>3. CASE Boot
    <3>1. PICK lost : lost = Fresh("gone", agent[d].chain, {}, {})
      OBVIOUS
    <3>2. agent'[d] = lost /\ lost.stage = "gone"
      BY <2>1, <2>2, <2>3, <3>1 DEF Boot, Born, Fresh
    <3> QED
      BY <3>2 DEF Live, Stage
  <2>4. \A a \in Agents : ~Spawn(a, d)
    BY <2>1 DEF Spawn, Born
  <2> QED
    BY <2>3, <2>4, OnlySpawnAndBoot
<1>2. Spec => [][AllStay]_vars
  BY <1>1, TreeInit, TreeStep, RecordInit, RecordStep, PTL DEF Spec
<1> QED
  BY <1>2 DEF DeadStayDead

------------------------------------------------------------------------------
(* A graceful stop.                                                        *)

Asked(a) == agent[a].suspending

\* Who is asked to stop does not die and starts nothing; only they suspend, and
\* whoever else is down went down with the process.
StopsMeant ==
  /\ \A d \in Agents : Asked(d) =>
       /\ agent[d].death = "none" /\ Stage(d) \notin {"unborn", "gone", "dispose"}
       /\ InTurn(agent[d]) => agent[d].cancelling
  /\ \A d \in Agents : Stage(d) = "suspend" => Asked(d)
  /\ \A d \in Agents : Stage(d) = "dispose" => agent[d].death # "none"
  /\ \A d \in Agents : Stage(d) = "down" /\ ~Asked(d) => ~Live(Root)

\* A stop reaches an agent when all above it wait for it, or crashed under it.
StopsFromAbove ==
  \A d \in Agents : Asked(d) =>
    \A b \in ToSet(agent[d].chain) \ {d} : Asked(b) /\ Stage(b) \in {"suspend", "down"}

\* Who has stopped is on file, with every report it had.
StopsOnFile ==
  "abandon" \notin mishaps =>
    \A d \in Agents : Asked(d) /\ Stage(d) = "down" =>
      file[d].exists /\ ~file[d].death /\ file[d].reports = agent[d].reports

StopInv == StopsMeant /\ StopsFromAbove /\ StopsOnFile

\* What most steps leave as it is: whether d is asked to stop, and, if so, its place,
\* how far its stop has come, and what it left on file.
CalmAt(d) ==
  /\ Asked(d)' <=> Asked(d)
  /\ Stage(d)' \in {"suspend", "down"} => Stage(d)' = Stage(d)
  /\ Stage(d)' = "dispose" => agent'[d].death # "none"
  /\ Asked(d) =>
       /\ agent'[d].chain = agent[d].chain /\ agent'[d].death = agent[d].death
       /\ \/ Stage(d)' = Stage(d) /\ (agent[d].cancelling => agent'[d].cancelling)
          \/ Stage(d) \notin {"suspend", "down"} /\ Stage(d)' = "idle"
       /\ Stage(d) = "down" /\ "abandon" \notin mishaps =>
            agent'[d].reports = agent[d].reports /\ file'[d] = file[d]

Calm == mishaps \subseteq mishaps' /\ \A d \in Agents : CalmAt(d)

LEMMA CalmStep ==
  ASSUME TreeInv, StopInv, Calm, Live(Root)' => Live(Root) PROVE StopInv'
<1>1. ASSUME NEW d \in Agents, Asked(d)'
      PROVE  /\ agent'[d].death = "none" /\ Stage(d)' \notin {"unborn", "gone", "dispose"}
             /\ InTurn(agent[d])' => agent'[d].cancelling
  BY <1>1 DEF Calm, CalmAt, StopInv, StopsMeant, InTurn, Stage
<1>2. StopsMeant'
  BY <1>1 DEF Calm, CalmAt, StopInv, StopsMeant
<1>3. StopsFromAbove'
  <2> SUFFICES ASSUME NEW d \in Agents, Asked(d)', NEW b \in ToSet(agent'[d].chain) \ {d}
               PROVE  Asked(b)' /\ Stage(b)' \in {"suspend", "down"}
    BY DEF StopsFromAbove
  <2>1. Asked(d) /\ agent'[d].chain = agent[d].chain
    BY DEF Calm, CalmAt
  <2>2. Born(d)
    BY <2>1 DEF StopInv, StopsMeant, Born
  <2>3. b \in Agents
    BY <2>1, <2>2, OnTheChain DEF TreeInv
  <2>4. Asked(b) /\ Stage(b) \in {"suspend", "down"}
    BY <2>1 DEF StopInv, StopsFromAbove
  <2> QED
    BY <2>3, <2>4 DEF Calm, CalmAt
<1>4. StopsOnFile'
  BY DEF Calm, CalmAt, StopInv, StopsOnFile
<1> QED
  BY <1>2, <1>3, <1>4 DEF StopInv

\* Whoever is left alone, with its file if it has stopped.
LEMMA LeftAlone ==
  ASSUME StopInv, NEW d \in Agents, agent'[d] = agent[d], file'[d] = file[d] \/ Stage(d) # "down"
  PROVE  CalmAt(d)
  BY DEF StopInv, StopsMeant, CalmAt, Asked, Stage

\* A turn that is not being cancelled is of an agent nobody asked to stop.
LEMMA RunsOn ==
  ASSUME StopInv, NEW a \in Agents, InTurn(agent[a]), ~agent[a].cancelling PROVE ~Asked(a)
  BY DEF StopInv, StopsMeant

LEMMA OneActs ==
  ASSUME StopInv, NEW a \in Agents, Stage(a) \notin {"suspend", "down"},
         Asked(a)' <=> Asked(a), Stage(a)' \notin {"suspend", "down", "dispose"},
         Asked(a) => /\ agent'[a].chain = agent[a].chain /\ agent'[a].death = agent[a].death
                     /\ Stage(a)' = "idle",
         \A d \in Agents \ {a} : agent'[d] = agent[d] /\ file'[d] = file[d],
         mishaps \subseteq mishaps'
  PROVE  Calm
<1>1. CalmAt(a)
  BY DEF CalmAt
<1> QED
  BY <1>1, LeftAlone DEF Calm

LEMMA TurnCalm ==
  ASSUME TreeInv, StopInv, NEW a \in Agents,
         TurnStarts(a) \/ Answered(a) \/ Finish(a) \/ TurnEnds(a) \/ FailTurn(a)
  PROVE  Calm
<1>1. /\ agent \in [Agents -> Memory] /\ file \in [Agents -> Snapshots] /\ agent[a] \in Memory
      /\ Stage(a) \in {"idle", "think", "turn"}
  BY DEF TreeInv, TreeTypeOK, TurnStarts, Answered, Finish, TurnEnds, FailTurn, InVerbs
<1>2. ~Asked(a)
  <2>1. CASE TurnStarts(a)
    BY <2>1 DEF TurnStarts, Exiting, Asked
  <2>2. CASE ~TurnStarts(a)
    BY <2>2, RunsOn DEF Answered, Finish, TurnEnds, FailTurn, InVerbs, InTurn, Stage
  <2> QED
    BY <2>1, <2>2
<1>3. mishaps \subseteq mishaps'
  BY DEF TurnStarts, Answered, Finish, TurnEnds, FailTurn, History, Mishap
<1>4. \A d \in Agents \ {a} : agent'[d] = agent[d] /\ file'[d] = file[d]
  BY <1>1 DEF TurnStarts, Answered, Finish, TurnEnds, FailTurn, Saves
<1>5. agent'[a].suspending = agent[a].suspending /\ agent'[a].stage \in {"idle", "think", "turn"}
  <2>1. CASE TurnStarts(a)
    BY <1>1, <2>1 DEF TurnStarts, Saves, Memory
  <2>2. CASE Answered(a)
    BY <1>1, <2>2 DEF Answered, Saves, Memory
  <2>3. CASE Finish(a)
    BY <1>1, <2>3 DEF Finish, Saves, Memory, Stage
  <2>4. CASE TurnEnds(a)
    BY <1>1, <2>4 DEF TurnEnds, Memory
  <2>5. CASE FailTurn(a) /\ a = Root
    <3> DEFINE n == [agent[a] EXCEPT !.stage = "idle", !.paused = TRUE]
    <3>1. n.suspending = agent[a].suspending /\ n.stage = "idle"
      BY <1>1 DEF Memory
    <3>2. Saves(a, n)
      BY <2>5 DEF FailTurn
    <3> HIDE DEF n
    <3> QED
      BY <1>1, <3>1, <3>2 DEF Saves
  <2>6. CASE FailTurn(a) /\ a # Root
    <3> DEFINE death == IF agent[a].death = "none" THEN "failed" ELSE agent[a].death
               n == [agent[a] EXCEPT !.stage = "idle", !.death = death]
    <3>1. n.suspending = agent[a].suspending /\ n.stage = "idle"
      BY <1>1 DEF Memory
    <3>2. Saves(a, n)
      BY <2>6 DEF FailTurn
    <3> HIDE DEF n
    <3> QED
      BY <1>1, <3>1, <3>2 DEF Saves
  <2> QED
    BY <2>1, <2>2, <2>3, <2>4, <2>5, <2>6
<1> QED
  BY <1>1, <1>2, <1>3, <1>4, <1>5, OneActs DEF Asked, Stage

LEMMA TurnCancelledCalm ==
  ASSUME TreeInv, StopInv, NEW a \in Agents, TurnCancelled(a) PROVE Calm
<1>1. /\ agent \in [Agents -> Memory] /\ file \in [Agents -> Snapshots] /\ agent[a] \in Memory
      /\ Stage(a) \in {"think", "turn"}
  BY DEF TreeInv, TreeTypeOK, TurnCancelled
<1>2. PICK n : n = Cut(a)
  OBVIOUS
<1>3. /\ n.stage = "idle" /\ n.chain = agent[a].chain /\ n.death = agent[a].death
      /\ n.suspending = agent[a].suspending
  BY <1>1, <1>2, CutMemory
<1>4. agent' = [agent EXCEPT ![a] = n] /\ Parks(a) /\ mishaps' = mishaps
  BY <1>2 DEF TurnCancelled, History
<1>5. \A d \in Agents \ {a} : agent'[d] = agent[d] /\ file'[d] = file[d]
  BY <1>1, <1>4 DEF Parks
<1> QED
  BY <1>1, <1>3, <1>4, <1>5, OneActs DEF Asked, Stage

LEMMA SpawnCalm ==
  ASSUME TreeInv, StopInv, NEW a \in Agents, NEW c \in Agents, Spawn(a, c) PROVE Calm
<1> DEFINE m == [agent[a] EXCEPT !.stage = "spawn", !.baby = c]
           n == Fresh("birth", Append(agent[a].chain, c), {}, {})
<1>1. /\ agent \in [Agents -> Memory] /\ agent[a] \in Memory
      /\ Stage(a) = "turn" /\ ~agent[a].cancelling /\ Stage(c) = "unborn" /\ a # c
  BY DEF TreeInv, TreeTypeOK, Spawn, InVerbs, Stage
<1>2. m.stage = "spawn" /\ m.suspending = agent[a].suspending
  BY <1>1 DEF Memory
<1>3. n.stage = "birth" /\ n.suspending = FALSE
  BY DEF Fresh
<1>4. agent' = [agent EXCEPT ![a] = m, ![c] = n] /\ file' = file /\ mishaps' = mishaps
  BY <1>1 DEF Spawn, History
<1> HIDE DEF m, n
<1>5. agent'[a] = m /\ agent'[c] = n /\ \A d \in Agents \ {a, c} : agent'[d] = agent[d]
  BY <1>1, <1>4
<1>6. ~Asked(a) /\ ~Asked(c)
  BY <1>1, RunsOn DEF InTurn, Stage, StopInv, StopsMeant
<1>7. CalmAt(a) /\ CalmAt(c)
  BY <1>2, <1>3, <1>5, <1>6 DEF CalmAt, Asked, Stage
<1> QED
  BY <1>4, <1>5, <1>7, LeftAlone DEF Calm

\* However a spawn of a ends: the child starts, and a goes on or is cut.
LEMMA SpawnEndsCalm ==
  ASSUME TreeInv, StopInv, NEW a \in Agents, Stage(a) = "spawn", NEW c, c = agent[a].baby,
         Asked(a)' <=> Asked(a), Stage(a)' \in {"turn", "idle"},
         Asked(a) => /\ agent'[a].chain = agent[a].chain /\ agent'[a].death = agent[a].death
                     /\ Stage(a)' = "idle",
         agent'[c] = Started(a, c),
         \A d \in Agents \ {a, c} : agent'[d] = agent[d],
         \A d \in Agents \ {a} : file'[d] = file[d],
         mishaps \subseteq mishaps'
  PROVE  Calm
<1>1. c \in Agents /\ Stage(c) = "birth" /\ c # a
  BY DEF TreeInv, Babies, InBirth
<1>2. PICK q : q = Started(a, c)
  OBVIOUS
<1>3. /\ agent'[c] = q /\ q.stage = "idle" /\ q.chain = agent[c].chain
      /\ q.death = agent[c].death /\ q.suspending = agent[c].suspending
  BY <1>1, <1>2, StartedMemory DEF TreeInv, TreeTypeOK
<1>4. CalmAt(a) /\ CalmAt(c)
  BY <1>1, <1>3 DEF CalmAt, Asked, Stage
<1> QED
  BY <1>4, LeftAlone DEF Calm

LEMMA SpawnReturnsCalm ==
  ASSUME TreeInv, StopInv, NEW a \in Agents, SpawnReturns(a) PROVE Calm
<1> DEFINE b == agent[a].baby
           m == [agent[a] EXCEPT !.stage = "turn", !.baby = NoAgent, !.claims = @ \cup {b}]
<1>1. /\ agent \in [Agents -> Memory] /\ agent[a] \in Memory /\ file \in [Agents -> Snapshots]
      /\ Stage(a) = "spawn" /\ ~agent[a].cancelling
  BY DEF TreeInv, TreeTypeOK, SpawnReturns
<1>2. b \in Agents /\ b # a
  BY <1>1 DEF TreeInv, Babies, InBirth, Stage
<1>3. m.stage = "turn" /\ m.suspending = agent[a].suspending
  BY <1>1 DEF Memory
<1>4. /\ agent' = [agent EXCEPT ![a] = m, ![b] = Started(a, b)]
      /\ file' = [file EXCEPT ![a] = Snapshot(m, FALSE)] /\ mishaps' = mishaps
  BY DEF SpawnReturns, History
<1>5. PICK c : c = b
  OBVIOUS
<1>6. c = agent[a].baby
  BY <1>5
<1> HIDE DEF b, m
<1>7. /\ agent'[a] = m /\ agent'[c] = Started(a, c)
      /\ \A d \in Agents \ {a, c} : agent'[d] = agent[d]
      /\ \A d \in Agents \ {a} : file'[d] = file[d]
  BY <1>1, <1>2, <1>4, <1>5
<1>8. ~Asked(a) /\ ~Asked(a)' /\ Stage(a)' = "turn"
  BY <1>1, <1>3, <1>7, RunsOn DEF InTurn, Asked, Stage
<1> QED
  BY <1>1, <1>4, <1>6, <1>7, <1>8, SpawnEndsCalm

LEMMA SpawnCancelledCalm ==
  ASSUME TreeInv, StopInv, NEW a \in Agents, SpawnCancelled(a) PROVE Calm
<1>1. PICK c : c = agent[a].baby
  OBVIOUS
<1>2. /\ agent \in [Agents -> Memory] /\ agent[a] \in Memory /\ file \in [Agents -> Snapshots]
      /\ Stage(a) = "spawn"
  BY DEF TreeInv, TreeTypeOK, SpawnCancelled
<1>3. c \in Agents /\ c # a
  BY <1>1, <1>2 DEF TreeInv, Babies, InBirth, Stage
<1>4. PICK n : n = Cut(a)
  OBVIOUS
<1>5. /\ n.stage = "idle" /\ n.chain = agent[a].chain /\ n.death = agent[a].death
      /\ n.suspending = agent[a].suspending
  BY <1>2, <1>4, CutMemory
<1>6. /\ agent' = [agent EXCEPT ![a] = n, ![c] = Started(a, c)] /\ Parks(a)
      /\ mishaps \subseteq mishaps'
  BY <1>1, <1>4 DEF SpawnCancelled, Mishap
<1>7. /\ agent'[a] = n /\ agent'[c] = Started(a, c)
      /\ \A d \in Agents \ {a, c} : agent'[d] = agent[d]
      /\ \A d \in Agents \ {a} : file'[d] = file[d]
  BY <1>2, <1>3, <1>6 DEF Parks
<1>8. /\ Asked(a)' <=> Asked(a)
      /\ Stage(a)' = "idle" /\ agent'[a].chain = agent[a].chain /\ agent'[a].death = agent[a].death
  BY <1>5, <1>7 DEF Asked, Stage
<1> QED
  BY <1>1, <1>2, <1>6, <1>7, <1>8, SpawnEndsCalm

LEMMA BirthCalm ==
  ASSUME TreeInv, RecordInv, StopInv, NEW c \in Agents, BirthLands(c) \/ BirthFails(c)
  PROVE  Calm
<1>1. /\ agent' = agent /\ mishaps \subseteq mishaps' /\ c \in births
      /\ \A d \in Agents \ {c} : file'[d] = file[d]
  BY DEF BirthLands, BirthFails, Mishap, History, TreeInv, TreeTypeOK
<1>2. CalmAt(c)
  <2>1. "abandon" \notin mishaps => Stage(c) # "down"
    BY <1>1 DEF RecordInv, BirthsAwaited
  <2> QED
    BY <1>1, <2>1 DEF CalmAt, Asked, Stage, StopInv, StopsMeant
<1> QED
  BY <1>1, <1>2, LeftAlone DEF Calm

\* A child's chain is its parent's, and the child.
LEMMA ChildsChain ==
  ASSUME TreeInv, NEW a \in Agents, NEW c \in Children(a)
  PROVE  /\ c \in Agents \ {Root} /\ Born(c) /\ a # c /\ a \in ToSet(agent[c].chain)
         /\ ToSet(agent[c].chain) \subseteq ToSet(agent[a].chain) \cup {c}
<1> DEFINE s == agent[c].chain
<1>1. c \in Agents \ {Root} /\ Born(c) /\ Parent(c) = a /\ TreeTypeOK /\ Lineages
  BY DEF Children, Born, TreeInv
<1>2. /\ s \in Seq(Agents) /\ Lineage(c, s) /\ Len(s) > 1 /\ s[Len(s) - 1] = a
      /\ agent[a].chain \in Seq(Agents)
  BY <1>1, ParentOnChain DEF Lineages, TreeTypeOK, Memory, Parent
<1>3. Len(s) - 1 \in 1..Len(s) /\ s[Len(s)] = c
  BY <1>2 DEF Lineage
<1>4. /\ Len(agent[a].chain) = Len(s) - 1
      /\ \A j \in 1..Len(s) - 1 : agent[a].chain[j] = s[j]
  BY <1>2, <1>3 DEF Lineage
<1>5. ASSUME NEW i \in 1..Len(s) PROVE s[i] \in ToSet(agent[a].chain) \cup {c}
  <2>1. CASE i = Len(s)
    BY <1>3, <2>1
  <2>2. CASE i \in 1..Len(s) - 1
    <3>1. i \in 1..Len(agent[a].chain) /\ agent[a].chain[i] = s[i]
      BY <1>2, <1>4, <2>2
    <3>2. agent[a].chain[i] \in ToSet(agent[a].chain)
      BY <1>2, <3>1 DEF ToSet
    <3> QED
      BY <3>1, <3>2
  <2> QED
    BY <1>2, <2>1, <2>2
<1>6. ToSet(s) = {s[i] : i \in 1..Len(s)}
  BY <1>2 DEF ToSet
<1>7. a # c
  BY <1>2, <1>4
<1> QED
  BY <1>1, <1>5, <1>6, <1>7, ParentOnChain

\* Who still acts stops none of its children.
LEMMA NotStopped ==
  ASSUME TreeInv, StopInv, NEW a \in Agents, Stage(a) \notin {"suspend", "down"},
         NEW c \in Children(a)
  PROVE  ~Asked(c)
  BY ChildsChain DEF StopInv, StopsFromAbove

LEMMA KillCalm ==
  ASSUME TreeInv, StopInv, NEW a \in Agents, NEW c \in Agents, Kill(a, c) PROVE Calm
<1>1. /\ agent \in [Agents -> Memory] /\ agent[c] \in Memory /\ file \in [Agents -> Snapshots]
      /\ c \in Children(a) /\ Stage(a) = "turn"
  BY DEF TreeInv, TreeTypeOK, Kill, InVerbs
<1>3. ~Asked(c)
  BY <1>1, NotStopped
<1>4. PICK n : n = Killed(agent[c])
  OBVIOUS
<1>5. n.stage = agent[c].stage /\ n.death # "none" /\ n.suspending = agent[c].suspending
  BY <1>1, <1>4 DEF Killed, Memory
<1>6. /\ agent' = [agent EXCEPT ![c] = n] /\ mishaps' = mishaps
      /\ \A d \in Agents \ {a} : file'[d] = file[d]
  BY <1>1, <1>4 DEF Kill, History
<1>7. CalmAt(c)
  BY <1>1, <1>3, <1>5, <1>6 DEF CalmAt, Asked, Stage
<1>8. \A d \in Agents \ {c} : agent'[d] = agent[d] /\ (file'[d] = file[d] \/ Stage(d) # "down")
  BY <1>1, <1>6
<1> QED
  BY <1>6, <1>7, <1>8, LeftAlone DEF Calm

LEMMA DisposeCalm ==
  ASSUME TreeInv, StopInv, NEW a \in Agents, Dispose(a) PROVE Calm
<1>1. /\ Stage(a) = "dispose" /\ mishaps' = mishaps /\ file' = [file EXCEPT ![a] = NoFile]
      /\ file \in [Agents -> Snapshots] /\ ChildrenEnded(a)
  BY DEF Dispose, Leaves, TreeInv, TreeTypeOK
<1>2. OnlyStage(a) /\ Stage(a)' = "gone" /\ ~Asked(a)
  BY <1>1, DisposeShape DEF Stage, StopInv, StopsMeant
<1>3. ASSUME NEW d \in Agents \ {a}, Stage(d) = "down"
      PROVE  agent'[d] = agent[d] /\ file'[d] = file[d]
  <2>1. d # Parent(a)
    <3>1. CASE a = Root
      BY <3>1, RootAssumption DEF Parent
    <3>2. CASE a # Root
      <4>1. Born(a) /\ Live(a)
        BY <1>1 DEF Born, Live
      <4>2. Live(Parent(a))
        BY <3>2, <4>1, ParentOnChain DEF TreeInv, AncestorsLive
      <4> QED
        BY <1>3, <4>2 DEF Live
    <3> QED
      BY <3>1, <3>2
  <2> DEFINE g == [agent EXCEPT ![a].stage = "gone"]
             p == Parent(a)
             heard == IF agent[a].death = "finished" THEN g[p].reports \cup {a} ELSE g[p].reports
  <2>2. agent' = [g EXCEPT ![p].reports = heard]
    BY DEF Dispose, Leaves
  <2>3. agent \in [Agents -> Memory]
    BY DEF TreeInv, TreeTypeOK
  <2>4. DOMAIN g = Agents /\ g[d] = agent[d] /\ d # p
    BY <2>1, <2>3
  <2> HIDE DEF g, p, heard
  <2>5. agent'[d] = agent[d]
    BY <2>2, <2>4
  <2> QED
    BY <1>1, <2>5
<1>4. ASSUME NEW d \in Agents PROVE CalmAt(d)
  <2>1. CASE d = a
    BY <1>1, <1>2, <2>1 DEF CalmAt, OnlyStage, Asked
  <2>2. CASE Stage(d) = "down"
    BY <1>1, <1>3, <2>2, LeftAlone
  <2>3. CASE d # a /\ Stage(d) # "down"
    BY <1>2, <2>3 DEF CalmAt, OnlyStage, Asked, Stage, StopInv, StopsMeant
  <2> QED
    BY <2>1, <2>2, <2>3
<1> QED
  BY <1>1, <1>4 DEF Calm

LEMMA UserCalm == ASSUME TreeInv, StopInv, Pause \/ Resume PROVE Calm
<1>1. /\ agent \in [Agents -> Memory] /\ \A d \in Agents : agent[d] \in Memory
      /\ file' = file /\ mishaps' = mishaps
  BY DEF TreeInv, TreeTypeOK, Pause, Resume, History
<1>2. ASSUME NEW d \in Agents
      PROVE  /\ agent'[d].stage = agent[d].stage /\ agent'[d].chain = agent[d].chain
             /\ agent'[d].death = agent[d].death /\ agent'[d].suspending = agent[d].suspending
             /\ agent'[d].reports = agent[d].reports
             /\ agent[d].cancelling => agent'[d].cancelling
  <2>0. agent[d] \in Memory
    BY <1>1
  <2>1. CASE Pause
    <3>1. agent'[d] \in {agent[d], Frozen(agent[d])}
      BY <2>1 DEF Pause
    <3>2. agent[d].cancelling => Frozen(agent[d]).cancelling
      BY <2>0 DEF Frozen, Memory
    <3> QED
      BY <2>0, <3>1, <3>2, FrozenMemory
  <2>2. CASE Resume
    <3>1. agent'[d] \in {agent[d], [agent[d] EXCEPT !.paused = FALSE]}
      BY <2>2 DEF Resume
    <3> QED
      BY <2>0, <3>1 DEF Memory
  <2> QED
    BY <2>1, <2>2
<1>3. \A d \in Agents : CalmAt(d)
  BY <1>1, <1>2 DEF CalmAt, Asked, Stage, StopInv, StopsMeant
<1> QED
  BY <1>1, <1>3 DEF Calm

------------------------------------------------------------------------------
(* The steps of the stop itself, and the ends of a process.                *)

LEMMA LoopEndsStop ==
  ASSUME TreeInv, StopInv, NEW a \in Agents, LoopEnds(a), Live(Root)' => Live(Root) PROVE StopInv'
<1> DEFINE stage == IF agent[a].death # "none" THEN "dispose" ELSE "suspend"
           n == [agent[a] EXCEPT !.stage = stage]
<1>1. /\ \A d \in Agents : agent[d] \in Memory
      /\ Stage(a) = "idle" /\ Live(a) /\ Exiting(a)
      /\ file' = file /\ mishaps' = mishaps
  BY DEF TreeInv, TreeTypeOK, LoopEnds, History, Live
<1>2. /\ n.stage = stage /\ n.chain = agent[a].chain /\ n.death = agent[a].death
      /\ n.suspending = agent[a].suspending
  BY <1>1 DEF Memory
<1>3. agent' = [d \in Agents |->
           IF d = a THEN n
           ELSE IF d \in Children(a) THEN StopChild(a, agent[d]) ELSE agent[d]]
  BY DEF LoopEnds
<1>4. PICK m : m = n
  OBVIOUS
<1>5. /\ agent'[a] = m /\ m.chain = agent[a].chain /\ m.death = agent[a].death
      /\ m.suspending = agent[a].suspending
      /\ m.stage = IF agent[a].death # "none" THEN "dispose" ELSE "suspend"
  BY <1>2, <1>3, <1>4
<1> HIDE DEF n, stage
<1>6. ASSUME NEW d \in Agents \ {a}
      PROVE  \/ agent'[d] = agent[d]
             \/ d \in Children(a) /\ agent'[d] = StopChild(a, agent[d])
  BY <1>3
<1>7. ASSUME NEW d \in Agents, NEW k, k \in {Killed(agent[d]), Suspended(agent[d])}
      PROVE  /\ k.stage = agent[d].stage /\ k.chain = agent[d].chain
             /\ k.reports = agent[d].reports
             /\ agent[d].suspending => k.suspending
             /\ agent[d].death # "none" => k.death # "none"
  BY <1>1, <1>7, StoppedMemory
<1>8. \A c \in Children(a) : ~Asked(c)
  BY <1>1, NotStopped
\* A death: the children are killed.
<1>9. CASE agent[a].death # "none"
  <2>1. ~Asked(a)
    BY <1>9 DEF StopInv, StopsMeant
  <2>2. CalmAt(a)
    BY <1>5, <1>9, <2>1 DEF CalmAt, Asked, Stage
  <2>3. ASSUME NEW d \in Agents \ {a} PROVE CalmAt(d)
    <3>1. CASE agent'[d] = agent[d]
      BY <1>1, <3>1, LeftAlone
    <3>2. CASE d \in Children(a) /\ agent'[d] = StopChild(a, agent[d])
      <4>1. PICK k : k = Killed(agent[d])
        OBVIOUS
      <4>2. /\ agent'[d] = k /\ k.stage = agent[d].stage /\ k.death # "none"
            /\ k.suspending = agent[d].suspending
        BY <1>1, <1>9, <3>2, <4>1 DEF StopChild, Killed, Memory
      <4>3. ~Asked(d)
        BY <1>8, <3>2
      <4> QED
        BY <4>2, <4>3 DEF CalmAt, Asked, Stage
    <3> QED
      BY <1>6, <3>1, <3>2
  <2>4. Calm
    BY <1>1, <2>2, <2>3 DEF Calm
  <2> QED
    BY <2>4, CalmStep
\* A stop: the children are asked to stop.
<1>10. CASE agent[a].death = "none"
  <2>1. Asked(a) /\ Asked(a)' /\ Stage(a)' = "suspend" /\ agent'[a].death = "none"
        /\ agent'[a].chain = agent[a].chain
    BY <1>1, <1>5, <1>10 DEF Exiting, Asked, Stage
  <2>2. ASSUME NEW d \in Agents \ {a}
        PROVE  \/ agent'[d] = agent[d]
               \/ d \in Children(a) /\ agent'[d] = Suspended(agent[d])
    BY <1>6, <1>10 DEF StopChild
  <2>3. ASSUME NEW d \in Agents
        PROVE  /\ agent'[d].chain = agent[d].chain
               /\ agent'[d].reports = agent[d].reports \/ d = a
               /\ d # a => Stage(d)' = Stage(d)
               /\ Asked(d) => Asked(d)'
               /\ Asked(d)' => Asked(d) \/ d \in Children(a)
    BY <1>7, <2>1, <2>2 DEF Asked, Stage
  <2>4. ASSUME NEW d \in Children(a), ~Asked(d), Asked(d)'
        PROVE  agent'[d].death = "none" /\ (InTurn(agent'[d]) => agent'[d].cancelling)
    <3>1. d \in Agents \ {a} /\ agent[d] \in Memory
      BY <1>1, ChildsChain DEF Children
    <3>2. agent[d].death = "none"
      BY <2>2, <2>4, <3>1 DEF Asked, Suspended
    <3>3. PICK ending : ending = (agent[d].cancelling \/ InTurn(agent[d]))
      OBVIOUS
    <3>4. agent'[d] = [agent[d] EXCEPT !.suspending = TRUE, !.cancelling = ending]
      BY <2>2, <2>4, <3>1, <3>2, <3>3 DEF Asked, Suspended
    <3>5. /\ agent'[d].death = agent[d].death /\ agent'[d].cancelling = ending
          /\ agent'[d].stage = agent[d].stage
      BY <3>1, <3>4 DEF Memory
    <3> QED
      BY <3>2, <3>3, <3>5 DEF InTurn
  <2>5. StopsMeant'
    <3>1. ASSUME NEW d \in Agents, Asked(d)'
          PROVE  /\ agent'[d].death = "none" /\ Stage(d)' \notin {"unborn", "gone", "dispose"}
                 /\ InTurn(agent[d])' => agent'[d].cancelling
      <4>1. CASE d = a
        BY <2>1, <4>1 DEF InTurn, Stage
      <4>2. CASE d # a /\ agent'[d] = agent[d]
        BY <3>1, <4>2 DEF StopInv, StopsMeant, Asked, Stage
      <4>3. CASE d # a /\ d \in Children(a) /\ ~Asked(d)
        <5>1. agent[d].death = "none"
          BY <2>2, <3>1, <4>3 DEF Asked, Suspended
        <5>2. Stage(d)' \notin {"unborn", "gone", "dispose"}
          BY <2>3, <4>3, <5>1 DEF StopInv, StopsMeant, Children
        <5> QED
          BY <2>4, <3>1, <4>3, <5>2 DEF InTurn
      <4> QED
        BY <1>8, <2>2, <4>1, <4>2, <4>3
    <3>2. \A d \in Agents : Stage(d)' = "suspend" => Asked(d)'
      BY <2>1, <2>3 DEF StopInv, StopsMeant
    <3>3. \A d \in Agents : Stage(d)' = "dispose" => agent'[d].death # "none"
      <4> SUFFICES ASSUME NEW d \in Agents, Stage(d)' = "dispose" PROVE agent'[d].death # "none"
        OBVIOUS
      <4>1. d # a /\ Stage(d) = "dispose"
        BY <2>1, <2>3
      <4>2. agent[d].death # "none"
        BY <4>1 DEF StopInv, StopsMeant
      <4> QED
        BY <1>7, <2>2, <4>1, <4>2
    <3>4. \A d \in Agents : Stage(d)' = "down" /\ ~Asked(d)' => ~Live(Root)'
      BY <2>1, <2>3 DEF StopInv, StopsMeant
    <3> QED
      BY <3>1, <3>2, <3>3, <3>4 DEF StopsMeant
  <2>6. StopsFromAbove'
    <3> SUFFICES ASSUME NEW d \in Agents, Asked(d)', NEW b \in ToSet(agent'[d].chain) \ {d}
                 PROVE  Asked(b)' /\ Stage(b)' \in {"suspend", "down"}
      BY DEF StopsFromAbove
    <3>1. b \in ToSet(agent[d].chain) /\ Born(d)
      BY <2>3 DEF StopInv, StopsMeant, Born, Children
    <3>2. b \in Agents
      BY <3>1, OnTheChain DEF TreeInv
    <3>3. CASE b = a
      BY <2>1, <3>3
    <3>4. CASE b # a /\ Asked(d)
      <4>1. Asked(b) /\ Stage(b) \in {"suspend", "down"}
        BY <3>1, <3>4 DEF StopInv, StopsFromAbove
      <4> QED
        BY <2>3, <3>2, <3>4, <4>1
    <3>5. CASE b # a /\ d \in Children(a)
      <4>1. b \in ToSet(agent[a].chain)
        BY <3>1, <3>5, ChildsChain
      <4>2. Asked(b) /\ Stage(b) \in {"suspend", "down"}
        BY <2>1, <3>5, <4>1 DEF StopInv, StopsFromAbove
      <4> QED
        BY <2>3, <3>2, <3>5, <4>2
    <3> QED
      BY <2>3, <3>3, <3>4, <3>5
  <2>7. StopsOnFile'
    <3> SUFFICES ASSUME "abandon" \notin mishaps, NEW d \in Agents, Asked(d)', Stage(d)' = "down"
                 PROVE  file[d].exists /\ ~file[d].death /\ file[d].reports = agent'[d].reports
      BY <1>1 DEF StopsOnFile
    <3>1. d # a /\ Stage(d) = "down"
      BY <2>1, <2>3
    <3>2. Live(Root)
      BY <1>1, OnTheChain DEF TreeInv, AncestorsLive, Live, Born
    <3>3. Asked(d)
      BY <3>1, <3>2 DEF StopInv, StopsMeant
    <3> QED
      BY <2>3, <3>1, <3>3 DEF StopInv, StopsOnFile
  <2> QED
    BY <2>5, <2>6, <2>7 DEF StopInv
<1> QED
  BY <1>9, <1>10

LEMMA SuspendSavesStop ==
  ASSUME TreeInv, StopInv, NEW a \in Agents, SuspendSaves(a), Live(Root)' => Live(Root)
  PROVE  StopInv'
<1> DEFINE n == [agent[a] EXCEPT !.stage = "down"]
           f == Snapshot(n, FALSE)
<1>1. /\ agent \in [Agents -> Memory] /\ agent[a] \in Memory /\ file \in [Agents -> Snapshots]
      /\ Stage(a) = "suspend" /\ Asked(a) /\ mishaps' = mishaps
  BY DEF TreeInv, TreeTypeOK, SuspendSaves, History, StopInv, StopsMeant
<1>2. /\ n.stage = "down" /\ n.chain = agent[a].chain /\ n.death = agent[a].death
      /\ n.suspending = agent[a].suspending /\ n.reports = agent[a].reports
  BY <1>1 DEF Memory
<1>3. f.exists /\ ~f.death /\ f.reports = n.reports
  BY DEF Snapshot
<1>4. agent' = [agent EXCEPT ![a] = n] /\ file' = [file EXCEPT ![a] = f]
  BY DEF SuspendSaves, Saves
<1> HIDE DEF n, f
<1>5. /\ agent'[a] = n /\ file'[a] = f
      /\ \A d \in Agents \ {a} : agent'[d] = agent[d] /\ file'[d] = file[d]
  BY <1>1, <1>4
<1>6. /\ Stage(a)' = "down" /\ Asked(a)'
      /\ \A d \in Agents : /\ agent'[d].chain = agent[d].chain /\ agent'[d].death = agent[d].death
                           /\ Asked(d)' <=> Asked(d)
                           /\ d # a => Stage(d)' = Stage(d) /\ agent'[d] = agent[d]
  BY <1>1, <1>2, <1>5 DEF Asked, Stage
<1>7. StopsMeant'
  <2>1. ASSUME NEW d \in Agents, Asked(d)'
        PROVE  /\ agent'[d].death = "none" /\ Stage(d)' \notin {"unborn", "gone", "dispose"}
               /\ InTurn(agent[d])' => agent'[d].cancelling
    <3>1. CASE d = a
      BY <1>1, <1>6, <3>1 DEF InTurn, Stage, StopInv, StopsMeant
    <3>2. CASE d # a
      BY <1>6, <2>1, <3>2 DEF StopInv, StopsMeant
    <3> QED
      BY <3>1, <3>2
  <2>2. /\ \A d \in Agents : Stage(d)' = "suspend" => Asked(d)'
        /\ \A d \in Agents : Stage(d)' = "dispose" => agent'[d].death # "none"
        /\ \A d \in Agents : Stage(d)' = "down" /\ ~Asked(d)' => ~Live(Root)'
    BY <1>6 DEF StopInv, StopsMeant
  <2> QED
    BY <2>1, <2>2 DEF StopsMeant
<1>8. StopsFromAbove'
  <2> SUFFICES ASSUME NEW d \in Agents, Asked(d)', NEW b \in ToSet(agent'[d].chain) \ {d}
               PROVE  Asked(b)' /\ Stage(b)' \in {"suspend", "down"}
    BY DEF StopsFromAbove
  <2>1. Asked(d) /\ b \in ToSet(agent[d].chain) /\ Born(d)
    BY <1>6 DEF StopInv, StopsMeant, Born
  <2>2. b \in Agents
    BY <2>1, OnTheChain DEF TreeInv
  <2>3. Asked(b) /\ Stage(b) \in {"suspend", "down"}
    BY <2>1 DEF StopInv, StopsFromAbove
  <2> QED
    BY <1>6, <2>2, <2>3
<1>9. StopsOnFile'
  <2> SUFFICES ASSUME "abandon" \notin mishaps, NEW d \in Agents, Asked(d)', Stage(d)' = "down"
               PROVE  file'[d].exists /\ ~file'[d].death /\ file'[d].reports = agent'[d].reports
    BY <1>1 DEF StopsOnFile
  <2>1. CASE d = a
    BY <1>3, <1>5, <2>1
  <2>2. CASE d # a
    BY <1>5, <1>6, <2>2 DEF StopInv, StopsOnFile
  <2> QED
    BY <2>1, <2>2
<1> QED
  BY <1>7, <1>8, <1>9 DEF StopInv

LEMMA ShutdownStop == ASSUME TreeInv, StopInv, Shutdown PROVE StopInv'
<1>1. /\ agent \in [Agents -> Memory] /\ agent[Root] \in Memory /\ Root \in Agents
      /\ Live(Root) /\ agent[Root].death = "none" /\ ~Asked(Root)
      /\ file' = file /\ mishaps' = mishaps
  BY RootAssumption DEF TreeInv, TreeTypeOK, Shutdown, Exiting, Asked
<1>2. PICK ending : ending = (agent[Root].cancelling \/ InTurn(agent[Root]))
  OBVIOUS
<1>3. PICK n : n = [agent[Root] EXCEPT !.suspending = TRUE, !.cancelling = ending]
  OBVIOUS
<1>4. /\ n.suspending = TRUE /\ n.cancelling = ending /\ n.death = "none"
      /\ n.stage = agent[Root].stage /\ n.chain = agent[Root].chain
  BY <1>1, <1>3 DEF Memory
<1>5. agent' = [agent EXCEPT ![Root] = n]
  BY <1>1, <1>2, <1>3 DEF Shutdown, Suspended, Asked
<1>6. agent'[Root] = n /\ \A d \in Agents \ {Root} : agent'[d] = agent[d]
  BY <1>1, <1>5
<1>7. /\ Live(Root)' /\ Stage(Root) \notin {"suspend", "down", "dispose", "unborn", "gone"}
      /\ \A d \in Agents : /\ Stage(d)' = Stage(d) /\ agent'[d].chain = agent[d].chain
                           /\ agent'[d].death = agent[d].death
                           /\ d # Root => (Asked(d)' <=> Asked(d))
  BY <1>1, <1>4, <1>6 DEF Live, Stage, Asked, StopInv, StopsMeant
<1>8. StopsMeant'
  <2>1. ASSUME NEW d \in Agents, Asked(d)'
        PROVE  /\ agent'[d].death = "none" /\ Stage(d)' \notin {"unborn", "gone", "dispose"}
               /\ InTurn(agent[d])' => agent'[d].cancelling
    <3>1. CASE d = Root
      BY <1>1, <1>2, <1>4, <1>6, <1>7, <3>1 DEF InTurn
    <3>2. CASE d # Root
      BY <1>6, <1>7, <2>1, <3>2 DEF StopInv, StopsMeant
    <3> QED
      BY <3>1, <3>2
  <2>2. /\ \A d \in Agents : Stage(d)' = "suspend" => Asked(d)'
        /\ \A d \in Agents : Stage(d)' = "dispose" => agent'[d].death # "none"
        /\ \A d \in Agents : Stage(d)' = "down" /\ ~Asked(d)' => ~Live(Root)'
    BY <1>1, <1>7 DEF StopInv, StopsMeant
  <2> QED
    BY <2>1, <2>2 DEF StopsMeant
<1>9. StopsFromAbove'
  <2> SUFFICES ASSUME NEW d \in Agents, Asked(d)', NEW b \in ToSet(agent'[d].chain) \ {d}
               PROVE  Asked(b)' /\ Stage(b)' \in {"suspend", "down"}
    BY DEF StopsFromAbove
  <2>1. b \in ToSet(agent[d].chain)
    BY <1>7
  <2>2. d # Root
    <3> SUFFICES ASSUME d = Root PROVE FALSE
      OBVIOUS
    <3>1. PICK s : s = <<Root>>
      OBVIOUS
    <3>2. agent[d].chain = s
      BY <3>1, RootChain DEF TreeInv
    <3>3. ToSet(s) = {Root}
      BY <3>1 DEF ToSet
    <3> QED
      BY <2>1, <3>2, <3>3
  <2>3. Asked(d) /\ Born(d)
    BY <1>7, <2>2 DEF StopInv, StopsMeant, Born
  <2>4. b \in Agents /\ Asked(b) /\ Stage(b) \in {"suspend", "down"}
    BY <2>1, <2>3, OnTheChain DEF TreeInv, StopInv, StopsFromAbove
  <2> QED
    BY <1>7, <2>4
<1>10. StopsOnFile'
  BY <1>1, <1>6, <1>7 DEF StopInv, StopsOnFile
<1> QED
  BY <1>8, <1>9, <1>10 DEF StopInv

\* A process that died, and one that starts, holds nobody that was asked to stop.
LEMMA NobodyAsked ==
  ASSUME TreeTypeOK', \A d \in Agents : ~Asked(d)' /\ Stage(d)' \notin {"suspend", "dispose"},
         Live(Root)' => \A d \in Agents : Stage(d)' # "down"
  PROVE  StopInv'
  BY DEF StopInv, StopsMeant, StopsFromAbove, StopsOnFile

LEMMA CrashStop == ASSUME TreeInv, StopInv, TreeInv', Crash PROVE StopInv'
<1>1. ASSUME NEW d \in Agents
      PROVE  ~Asked(d)' /\ Stage(d)' \in {"unborn", "gone", "down"}
  <2>1. PICK n : n = Fresh("down", agent[d].chain, {}, {})
    OBVIOUS
  <2>2. n.stage = "down" /\ n.suspending = FALSE
    BY <2>1 DEF Fresh
  <2>3. agent'[d] = IF Stage(d) \in {"unborn", "gone"} THEN agent[d] ELSE n
    BY <2>1 DEF Crash
  <2> QED
    BY <2>2, <2>3 DEF Asked, Stage, StopInv, StopsMeant
<1>2. ~Live(Root)'
  BY <1>1, RootAssumption DEF Live
<1> QED
  BY <1>1, <1>2, NobodyAsked DEF TreeInv

LEMMA BootStop == ASSUME TreeInv, StopInv, TreeInv', Boot PROVE StopInv'
<1>1. ASSUME NEW d \in Agents
      PROVE  ~Asked(d)' /\ Stage(d)' \in {"unborn", "gone", "idle"}
  <2>1. PICK kept : kept = Fresh("idle", file[d].chain, file[d].claims, file[d].reports)
    OBVIOUS
  <2>2. PICK lost : lost = Fresh("gone", agent[d].chain, {}, {})
    OBVIOUS
  <2>3. PICK first : first = Fresh("idle", <<Root>>, {}, {})
    OBVIOUS
  <2>4. /\ kept.stage = "idle" /\ kept.suspending = FALSE
        /\ lost.stage = "gone" /\ lost.suspending = FALSE
        /\ first.stage = "idle" /\ first.suspending = FALSE
    BY <2>1, <2>2, <2>3 DEF Fresh
  <2>5. agent'[d] = IF d \in Restorable THEN kept
                    ELSE IF d = Root THEN first
                    ELSE IF Stage(d) = "unborn" THEN agent[d]
                    ELSE lost
    BY <2>1, <2>2, <2>3 DEF Boot
  <2> QED
    BY <2>4, <2>5 DEF Asked, Stage, StopInv, StopsMeant
<1> QED
  BY <1>1, NobodyAsked DEF TreeInv

------------------------------------------------------------------------------
(* The invariant holds, and what follows.                                  *)

StayDown == \A d \in Agents : Asked(d) /\ Stage(d) = "down" => Stage(d)' = "down"

LEMMA StopInit == Init => StopInv
<1> SUFFICES ASSUME Init PROVE StopInv
  OBVIOUS
<1>1. \A d \in Agents : agent[d].suspending = FALSE /\ Stage(d) \in {"idle", "unborn"}
  BY DEF Init, Fresh, Stage
<1> QED
  BY <1>1 DEF StopInv, StopsMeant, StopsFromAbove, StopsOnFile, Asked

\* Nothing but a boot takes anyone back from a stop.
LEMMA StopNext ==
  ASSUME TreeInv, RecordInv, StopInv, TreeInv', [Next]_vars, ~Boot PROVE StopInv' /\ StayDown
<1>1. Live(Root)' => Live(Root)
  <2>1. \A a \in Agents : ~Spawn(a, Root)
    BY DEF TreeInv, Lineages, Spawn, Born
  <2> QED
    BY <2>1, OnlySpawnAndBoot, RootAssumption
<1>2. Calm => StopInv' /\ StayDown
  <2>1. Calm => StayDown
    BY DEF Calm, CalmAt, StayDown
  <2> QED
    BY <1>1, <2>1, CalmStep
<1>3. \A d \in Agents : agent[d] \in Memory
  BY DEF TreeInv, TreeTypeOK
<1>4. ASSUME NEW a \in Agents, LoopEnds(a) PROVE StopInv' /\ StayDown
  <2>1. ASSUME NEW d \in Agents, Stage(d) = "down" PROVE Stage(d)' = "down"
    <3>1. d # a
      BY <1>4, <2>1 DEF LoopEnds
    <3>2. agent'[d] \in {agent[d], Killed(agent[d]), Suspended(agent[d])}
      BY <1>4, <3>1 DEF LoopEnds, StopChild
    <3>3. agent'[d].stage = agent[d].stage
      BY <1>3, <3>2, StoppedMemory
    <3> QED
      BY <2>1, <3>3 DEF Stage
  <2> QED
    BY <1>1, <1>4, <2>1, LoopEndsStop DEF StayDown
<1>5. ASSUME NEW a \in Agents, SuspendSaves(a) PROVE StopInv' /\ StayDown
  <2>1. ASSUME NEW d \in Agents, Stage(d) = "down" PROVE Stage(d)' = "down"
    <3>1. d # a
      BY <1>5, <2>1 DEF SuspendSaves
    <3>2. agent'[d] = agent[d]
      BY <1>5, <3>1 DEF SuspendSaves, Saves, TreeInv, TreeTypeOK
    <3> QED
      BY <2>1, <3>2 DEF Stage
  <2> QED
    BY <1>1, <1>5, <2>1, SuspendSavesStop DEF StayDown
<1>6. CASE Shutdown
  <2>1. ASSUME NEW d \in Agents, Stage(d) = "down" PROVE Stage(d)' = "down"
    <3>1. agent'[d] = agent[d]
      <4>1. d # Root
        BY <1>6, <2>1 DEF Shutdown, Live
      <4> QED
        BY <1>6, <4>1 DEF Shutdown, TreeInv, TreeTypeOK
    <3> QED
      BY <2>1, <3>1 DEF Stage
  <2> QED
    BY <1>6, <2>1, ShutdownStop DEF StayDown
<1>7. CASE Crash
  <2>1. ASSUME NEW d \in Agents, Stage(d) = "down" PROVE Stage(d)' = "down"
    <3>1. PICK n : n = Fresh("down", agent[d].chain, {}, {})
      OBVIOUS
    <3>2. agent'[d] = n /\ n.stage = "down"
      BY <1>7, <2>1, <3>1 DEF Crash, Fresh
    <3> QED
      BY <3>2 DEF Stage
  <2> QED
    BY <1>7, <2>1, CrashStop DEF StayDown
<1>8. ASSUME NEW a \in Agents, Turn(a) PROVE Calm
  BY <1>8, TurnCalm, SpawnCalm, KillCalm DEF Turn
<1>9. ASSUME NEW a \in Agents, Progress(a), ~LoopEnds(a), ~SuspendSaves(a) PROVE Calm
  BY <1>9, TurnCalm, TurnCancelledCalm, SpawnReturnsCalm, SpawnCancelledCalm, BirthCalm,
     DisposeCalm DEF Progress
<1>10. ASSUME NEW a \in Agents, BirthFails(a) PROVE Calm
  BY <1>10, BirthCalm
<1>11. CASE UNCHANGED vars
  <2>1. agent' = agent /\ file' = file /\ mishaps' = mishaps
    BY <1>11 DEF vars, History
  <2>2. Calm
    BY <2>1, LeftAlone DEF Calm
  <2> QED
    BY <1>2, <2>2
<1> QED
  BY <1>2, <1>4, <1>5, <1>6, <1>7, <1>8, <1>9, <1>10, <1>11, UserCalm DEF Next

LEMMA StopStep == TreeInv /\ RecordInv /\ StopInv /\ TreeInv' /\ [Next]_vars => StopInv'
  BY StopNext, BootStop

\* A boot finds whoever has stopped on file, and everyone above it.
LEMMA StoppedAreRestored ==
  ASSUME TreeInv, StopInv, Boot, "abandon" \notin mishaps,
         NEW d \in Agents, Asked(d), Stage(d) = "down"
  PROVE  d \in Restorable /\ file[d].chain = agent[d].chain
<1>1. Born(d) /\ d \in ToSet(agent[d].chain) /\ ToSet(agent[d].chain) \subseteq Agents
  BY OnTheChain DEF TreeInv, Born
<1>2. ASSUME NEW b \in ToSet(agent[d].chain) PROVE b \in Present
  <2>1. b \in Agents /\ Asked(b) /\ Stage(b) \in {"suspend", "down"} /\ Born(b)
    BY <1>1 DEF StopInv, StopsFromAbove, Born
  <2>2. ~Live(b)
    <3>1. ~Live(Root)
      BY DEF Boot, Live
    <3>2. Root \in ToSet(agent[b].chain)
      BY <2>1, OnTheChain DEF TreeInv
    <3> QED
      BY <2>1, <3>1, <3>2 DEF TreeInv, AncestorsLive
  <2>3. Stage(b) = "down"
    BY <2>1, <2>2 DEF Live
  <2> QED
    BY <2>1, <2>3 DEF StopInv, StopsOnFile, Present
<1>3. file[d].chain = agent[d].chain
  BY <1>1, <1>2 DEF TreeInv, Files, Present
<1> QED
  BY <1>1, <1>2, <1>3 DEF Restorable

\* A graceful stop loses no agent and no report (_suspend, boot.py): whoever was asked
\* to stop, and has, runs again after the boot in its place in the tree, with every
\* report it had; but for a birth write that outlived its spawn.
THEOREM GracefulStopsKeepTheTree == Spec => GracefulStopKeepsTree
<1> DEFINE Returns(a) ==
             agent[a].suspending /\ Stage(a) = "down" /\ Stage(a)' # "down" =>
               "abandon" \in mishaps
               \/ /\ Stage(a)' = "idle"
                  /\ agent'[a].chain = agent[a].chain /\ agent'[a].reports = agent[a].reports
           AllReturn == \A a \in Agents : Returns(a)
<1>1. TreeInv /\ RecordInv /\ StopInv /\ TreeInv' /\ [Next]_vars => AllReturn
  <2> SUFFICES ASSUME TreeInv, RecordInv, StopInv, TreeInv', [Next]_vars, NEW d \in Agents,
                      Asked(d), Stage(d) = "down", Stage(d)' # "down", "abandon" \notin mishaps
               PROVE  /\ Stage(d)' = "idle"
                      /\ agent'[d].chain = agent[d].chain /\ agent'[d].reports = agent[d].reports
    BY DEF Asked
  <2>1. Boot
    BY StopNext DEF StayDown
  <2>2. d \in Restorable /\ file[d].chain = agent[d].chain /\ file[d].reports = agent[d].reports
    BY <2>1, StoppedAreRestored DEF StopInv, StopsOnFile
  <2>3. PICK kept : kept = Fresh("idle", file[d].chain, file[d].claims, file[d].reports)
    OBVIOUS
  <2>4. kept.stage = "idle" /\ kept.chain = file[d].chain /\ kept.reports = file[d].reports
    BY <2>3 DEF Fresh
  <2>5. agent'[d] = kept
    BY <2>1, <2>2, <2>3 DEF Boot
  <2> QED
    BY <2>2, <2>4, <2>5 DEF Stage
<1>2. Spec => [][AllReturn]_vars
  BY <1>1, TreeInit, TreeStep, RecordInit, RecordStep, StopInit, StopStep, PTL DEF Spec
<1> QED
  BY <1>2 DEF GracefulStopKeepsTree
=============================================================================
