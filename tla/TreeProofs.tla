----------------------------- MODULE TreeProofs -----------------------------
(***************************************************************************)
(* The spawn tree stays whole and freezes whole, for any number of agents  *)
(* and any depth.                                                          *)
(***************************************************************************)
EXTENDS AgentTree, TLAPS

Memory ==
  [stage : {"unborn", "birth", "idle", "think", "turn", "spawn", "dispose", "suspend", "down", "gone"},
   chain : Seq(Agents), death : {"none", "killed", "finished", "failed"},
   paused : BOOLEAN, suspending : BOOLEAN, cancelling : BOOLEAN,
   baby : Agents \cup {NoAgent}, claims : SUBSET Agents, reports : SUBSET Agents]

Snapshots ==
  [exists : BOOLEAN, chain : Seq(Agents), claims : SUBSET Agents, reports : SUBSET Agents,
   death : BOOLEAN]

TreeTypeOK ==
  /\ agent \in [Agents -> Memory]
  /\ file \in [Agents -> Snapshots]
  /\ births \subseteq Agents
  /\ frozen \in BOOLEAN

Born(a) == Stage(a) # "unborn"

\* s leads from the root to a, and each agent on it was born with the part of s
\* that leads to it.
Lineage(a, s) ==
  /\ Len(s) > 0 /\ s[1] = Root /\ s[Len(s)] = a
  /\ \A i \in 1..Len(s) :
       /\ Born(s[i]) /\ Len(agent[s[i]].chain) = i
       /\ \A j \in 1..i : agent[s[i]].chain[j] = s[j]

Lineages == Born(Root) /\ \A a \in Agents : Born(a) => Lineage(a, agent[a].chain)

\* A snapshot, and a birth write, is of an agent there was, in its place.
Files ==
  /\ \A a \in Agents : file[a].exists => Born(a) /\ file[a].chain = agent[a].chain
  /\ \A c \in births : Born(c)

\* A spawn awaits the birth of a child of its own.
InBirth(c, a) ==
  /\ c \in Agents /\ Stage(c) = "birth"
  /\ Len(agent[c].chain) > 1 /\ agent[c].chain[Len(agent[c].chain) - 1] = a

Babies == \A a \in Agents : Stage(a) = "spawn" => InBirth(agent[a].baby, a)

\* NoOrphans all the way up.
AncestorsLive == \A a \in Agents : Live(a) => \A b \in ToSet(agent[a].chain) : Live(b)

\* NobodyStaysFrozen all the way up, exiting agents included.
AncestorsPaused ==
  \A a \in Agents : Live(a) /\ agent[a].paused =>
    \A b \in ToSet(agent[a].chain) : agent[b].paused

\* A frozen agent's turn is being cancelled.
PausedTurnsEnd ==
  \A a \in Agents : InTurn(agent[a]) /\ agent[a].paused => agent[a].cancelling

\* The root is frozen by the user, unless it parked itself.
OnlyUserFreezes ==
  Live(Root) /\ ~frozen /\ "park" \notin mishaps => ~agent[Root].paused

TreeInv ==
  /\ TreeTypeOK /\ Lineages /\ Files /\ Babies /\ AncestorsLive /\ AncestorsPaused
  /\ PausedTurnsEnd /\ OnlyUserFreezes /\ FrozenTree

------------------------------------------------------------------------------
(* What the helpers return.                                                *)

LEMMA FreshIsMemory ==
  ASSUME NEW stage \in {"idle", "unborn", "birth", "down", "gone"}, NEW chain \in Seq(Agents),
         NEW claims \in SUBSET Agents, NEW reports \in SUBSET Agents
  PROVE  Fresh(stage, chain, claims, reports) \in Memory
  BY DEF Fresh, Memory

LEMMA SnapshotIsOne ==
  ASSUME NEW m \in Memory, NEW dead \in BOOLEAN
  PROVE  Snapshot(m, dead) \in Snapshots
  BY DEF Snapshot, Snapshots, Memory

LEMMA NoFileIsOne == NoFile \in Snapshots
<1>1. <<>> \in Seq(Agents)
  OBVIOUS
<1> QED
  BY <1>1 DEF NoFile, Snapshots

\* Killed and Suspended leave the agent its place and its stage, latch an exit,
\* and cancel a turn at most.
LEMMA StoppedMemory ==
  ASSUME NEW m \in Memory, NEW n \in {Killed(m), Suspended(m)}
  PROVE  /\ n \in Memory
         /\ n.stage = m.stage /\ n.chain = m.chain /\ n.paused = m.paused /\ n.baby = m.baby
         /\ n.claims = m.claims /\ n.reports = m.reports
         /\ n.death # "none" \/ n.suspending
         /\ m.suspending => n.suspending
         /\ m.death # "none" => n.death # "none"
         /\ m.cancelling => n.cancelling
<1> DEFINE ending == m.cancelling \/ InTurn(m)
<1>1. ending \in BOOLEAN /\ (m.cancelling => ending)
  OBVIOUS
<1>2. CASE n = Killed(m)
  <2>1. Killed(m) = IF m.death # "none" THEN m
                    ELSE [m EXCEPT !.death = "killed", !.cancelling = ending]
    BY DEF Killed
  <2> HIDE DEF ending
  <2> QED
    BY <1>1, <1>2, <2>1 DEF Memory
<1>3. CASE n = Suspended(m)
  <2>1. Suspended(m) = IF m.death # "none" \/ m.suspending THEN m
                       ELSE [m EXCEPT !.suspending = TRUE, !.cancelling = ending]
    BY DEF Suspended
  <2> HIDE DEF ending
  <2> QED
    BY <1>1, <1>3, <2>1 DEF Memory
<1> QED
  BY <1>2, <1>3

LEMMA FrozenMemory ==
  ASSUME NEW m \in Memory
  PROVE  /\ Frozen(m) \in Memory
         /\ Frozen(m).stage = m.stage /\ Frozen(m).chain = m.chain /\ Frozen(m).baby = m.baby
         /\ Frozen(m).death = m.death /\ Frozen(m).suspending = m.suspending
         /\ Frozen(m).claims = m.claims /\ Frozen(m).reports = m.reports
         /\ Frozen(m).paused /\ (InTurn(m) => Frozen(m).cancelling)
<1> DEFINE ending == m.cancelling \/ InTurn(m)
<1>1. ending \in BOOLEAN
  OBVIOUS
<1>2. Frozen(m) = [m EXCEPT !.paused = TRUE, !.cancelling = ending]
  BY DEF Frozen
<1>3. InTurn(m) => ending
  OBVIOUS
<1> HIDE DEF ending
<1> QED
  BY <1>1, <1>2, <1>3 DEF Memory

LEMMA CutMemory ==
  ASSUME NEW a \in Agents, NEW m \in Memory, m = agent[a]
  PROVE  /\ Cut(a) \in Memory
         /\ Cut(a).stage = "idle" /\ Cut(a).chain = m.chain /\ Cut(a).paused = m.paused
         /\ Cut(a).death = m.death /\ Cut(a).suspending = m.suspending
         /\ Cut(a).claims = m.claims /\ Cut(a).reports = m.reports
  BY DEF Cut, Memory

LEMMA StartedMemory ==
  ASSUME NEW a \in Agents, NEW c \in Agents, NEW m \in Memory, m = agent[c]
  PROVE  /\ Started(a, c) \in Memory
         /\ Started(a, c).stage = "idle" /\ Started(a, c).chain = m.chain
         /\ Started(a, c).death = m.death /\ Started(a, c).suspending = m.suspending
         /\ Started(a, c).claims = m.claims /\ Started(a, c).reports = m.reports
         /\ m.paused => Started(a, c).paused
         /\ Started(a, c).paused => agent[a].paused \/ m.paused
<1> DEFINE freeze == m.paused \/ (agent[a].paused /\ ~Exiting(c))
<1>1. freeze \in BOOLEAN
  OBVIOUS
<1>2. Started(a, c) = [m EXCEPT !.stage = "idle", !.paused = freeze]
  BY DEF Started
<1>3. (m.paused => freeze) /\ (freeze => agent[a].paused \/ m.paused)
  OBVIOUS
<1> HIDE DEF freeze
<1> QED
  BY <1>1, <1>2, <1>3 DEF Memory

LEMMA SavesType ==
  ASSUME TreeTypeOK, NEW a \in Agents, NEW m \in Memory, Saves(a, m)
  PROVE  /\ agent' \in [Agents -> Memory] /\ file' \in [Agents -> Snapshots]
         /\ \A d \in Agents : agent'[d] = IF d = a THEN m ELSE agent[d]
         /\ \A d \in Agents : file'[d] = IF d = a THEN Snapshot(m, FALSE) ELSE file[d]
<1>1. Snapshot(m, FALSE) \in Snapshots
  BY SnapshotIsOne
<1> QED
  BY <1>1 DEF TreeTypeOK, Saves

------------------------------------------------------------------------------
(* Chains.                                                                 *)

LEMMA OnTheChain ==
  ASSUME TreeTypeOK, Lineages, NEW a \in Agents, Born(a)
  PROVE  /\ a \in ToSet(agent[a].chain) /\ Root \in ToSet(agent[a].chain)
         /\ ToSet(agent[a].chain) \subseteq Agents
         /\ \A b \in ToSet(agent[a].chain) :
              Born(b) /\ ToSet(agent[b].chain) \subseteq ToSet(agent[a].chain)
<1> DEFINE s == agent[a].chain
<1>1. s \in Seq(Agents) /\ Lineage(a, s)
  BY DEF TreeTypeOK, Lineages, Memory
<1>2. ToSet(s) = {s[i] : i \in 1..Len(s)}
  BY <1>1 DEF ToSet
<1>3. a \in ToSet(s) /\ Root \in ToSet(s) /\ ToSet(s) \subseteq Agents
  <2>1. 1 \in 1..Len(s) /\ Len(s) \in 1..Len(s)
    BY <1>1 DEF Lineage
  <2> QED
    BY <1>1, <1>2, <2>1 DEF Lineage
<1>4. ASSUME NEW b \in ToSet(s)
      PROVE  Born(b) /\ ToSet(agent[b].chain) \subseteq ToSet(s)
  <2>1. PICK i \in 1..Len(s) : b = s[i]
    BY <1>2
  <2>2. Born(b) /\ Len(agent[b].chain) = i /\ \A j \in 1..i : agent[b].chain[j] = s[j]
    BY <1>1, <2>1 DEF Lineage
  <2>3. agent[b].chain \in Seq(Agents)
    BY <1>3 DEF TreeTypeOK, Memory
  <2>4. ToSet(agent[b].chain) = {agent[b].chain[j] : j \in 1..i}
    BY <2>2, <2>3 DEF ToSet
  <2>5. \A j \in 1..i : j \in 1..Len(s)
    BY <1>1
  <2> QED
    BY <1>2, <2>2, <2>4, <2>5
<1> QED
  BY <1>3, <1>4

LEMMA RootChain ==
  ASSUME TreeTypeOK, Lineages
  PROVE  agent[Root].chain = <<Root>> /\ Len(agent[Root].chain) = 1
<1> DEFINE s == agent[Root].chain
<1>1. s \in Seq(Agents) /\ Lineage(Root, s)
  BY RootAssumption DEF TreeTypeOK, Lineages, Memory
<1>2. Len(s) = 1 /\ s[1] = Root
  <2>1. 1 \in 1..Len(s) /\ s[1] = Root
    BY <1>1 DEF Lineage
  <2>2. Len(agent[s[1]].chain) = 1
    BY <1>1, <2>1 DEF Lineage
  <2> QED
    BY <2>1, <2>2
<1> QED
  BY <1>1, <1>2

LEMMA ParentOnChain ==
  ASSUME TreeTypeOK, Lineages, NEW a \in Agents \ {Root}, Born(a)
  PROVE  Parent(a) \in Agents /\ Parent(a) \in ToSet(agent[a].chain) /\ Len(agent[a].chain) > 1
<1> DEFINE s == agent[a].chain
<1>1. s \in Seq(Agents) /\ Lineage(a, s)
  BY DEF TreeTypeOK, Lineages, Memory
<1>2. Len(s) > 1
  BY <1>1 DEF Lineage
<1>3. Parent(a) = s[Len(s) - 1] /\ Len(s) - 1 \in 1..Len(s)
  BY <1>1, <1>2 DEF Parent
<1>4. Parent(a) \in ToSet(s)
  BY <1>1, <1>3 DEF ToSet
<1> QED
  BY <1>2, <1>4, OnTheChain

\* Whoever is beneath a is beneath, or is, a child of a.
LEMMA ThroughAChild ==
  ASSUME TreeTypeOK, Lineages, NEW d \in Agents, Born(d),
         NEW a \in ToSet(agent[d].chain), a # d
  PROVE  \E c \in ToSet(agent[d].chain) : c \in Agents \ {Root} /\ Parent(c) = a
<1> DEFINE s == agent[d].chain
<1>1. s \in Seq(Agents) /\ Lineage(d, s)
  BY DEF TreeTypeOK, Lineages, Memory
<1>2. PICK i \in 1..Len(s) : a = s[i]
  BY <1>1 DEF ToSet
<1>3. i + 1 \in 1..Len(s) /\ i \in 1..i + 1
  BY <1>1, <1>2 DEF Lineage
<1> DEFINE c == s[i + 1]
<1>4. c \in ToSet(s) /\ c \in Agents
  BY <1>1, <1>3 DEF ToSet
<1>5. Len(agent[c].chain) = i + 1 /\ agent[c].chain[i] = a
  BY <1>1, <1>2, <1>3 DEF Lineage
<1>6. c # Root
  <2>1. Len(agent[Root].chain) = 1 /\ i + 1 # 1
    BY RootChain
  <2> QED
    BY <1>5, <2>1
<1>7. Parent(c) = a
  BY <1>5, <1>6 DEF Parent
<1> QED
  BY <1>4, <1>6, <1>7

------------------------------------------------------------------------------
(* What most steps leave alone.                                            *)

SamePlaces ==
  \A d \in Agents : agent'[d].chain = agent[d].chain /\ (Born(d)' <=> Born(d))

LEMMA PlacesKept ==
  ASSUME TreeTypeOK, Lineages, SamePlaces PROVE Lineages'
<1>1. Born(Root)'
  BY RootAssumption DEF Lineages, SamePlaces
<1>2. ASSUME NEW a \in Agents, Born(a)' PROVE Lineage(a, agent[a].chain)'
  <2> DEFINE s == agent[a].chain
  <2>1. Born(a) /\ agent'[a].chain = s
    BY <1>2 DEF SamePlaces
  <2>2. s \in Seq(Agents) /\ Lineage(a, s)
    BY <2>1 DEF TreeTypeOK, Lineages, Memory
  <2>3. \A i \in 1..Len(s) : s[i] \in Agents
    BY <2>2
  <2>4. \A i \in 1..Len(s) : Born(s[i])' /\ agent'[s[i]].chain = agent[s[i]].chain
    BY <2>2, <2>3 DEF Lineage, SamePlaces
  <2> QED
    BY <2>1, <2>2, <2>4 DEF Lineage
<1> QED
  BY <1>1, <1>2 DEF Lineages

\* Files go, or come with the place the agent has.
SameFiles ==
  /\ \A d \in Agents : file'[d].exists =>
       \/ file[d].exists /\ file'[d].chain = file[d].chain
       \/ Born(d) /\ file'[d].chain = agent[d].chain
  /\ births' \subseteq births

LEMMA FilesKept ==
  ASSUME TreeTypeOK, Files, SamePlaces, SameFiles PROVE Files'
  BY DEF TreeTypeOK, Files, SamePlaces, SameFiles

SameBabies ==
  \A d \in Agents :
    /\ Stage(d)' = "spawn" => Stage(d) = "spawn" /\ agent'[d].baby = agent[d].baby
    /\ Stage(d) = "birth" => Stage(d)' = "birth"

LEMMA BabiesKept ==
  ASSUME Babies, SamePlaces, SameBabies PROVE Babies'
<1> SUFFICES ASSUME NEW a \in Agents, Stage(a)' = "spawn" PROVE InBirth(agent[a].baby, a)'
  BY DEF Babies
<1>1. Stage(a) = "spawn" /\ agent'[a].baby = agent[a].baby
  BY DEF SameBabies
<1>2. InBirth(agent[a].baby, a)
  BY <1>1 DEF Babies
<1> QED
  BY <1>1, <1>2 DEF InBirth, SamePlaces, SameBabies

\* Nobody comes to life, and a latch that is set stays set.
Thins ==
  /\ \A d \in Agents : /\ Live(d)' => Live(d)
                       /\ Exiting(d) => Exiting(d)'
                       /\ agent[d].paused => agent'[d].paused
  /\ frozen' = frozen /\ mishaps \subseteq mishaps'

LEMMA FrozenKept ==
  ASSUME TreeTypeOK, Lineages, FrozenTree, SamePlaces, Thins PROVE FrozenTree'
<1> SUFFICES ASSUME frozen, "park" \notin mishaps, NEW a \in Agents, Live(a)'
             PROVE  agent'[a].paused \/ Leaving(a)'
  BY DEF FrozenTree, Thins
<1>1. Live(a) /\ Born(a)
  BY DEF Thins, Live, Born
<1>2. CASE agent[a].paused
  BY <1>2 DEF Thins
<1>3. CASE Leaving(a)
  <2>1. PICK b \in ToSet(agent[a].chain) : Exiting(b)
    BY <1>3 DEF Leaving
  <2>2. b \in Agents
    BY <1>1, OnTheChain
  <2>3. Exiting(b)' /\ agent'[a].chain = agent[a].chain
    BY <2>1, <2>2 DEF Thins, SamePlaces
  <2> QED
    BY <2>3 DEF Leaving
<1> QED
  BY <1>1, <1>2, <1>3 DEF FrozenTree

\* Nobody comes, goes, freezes or thaws.
Stays ==
  /\ \A d \in Agents : /\ Live(d)' <=> Live(d)
                       /\ Exiting(d) => Exiting(d)'
                       /\ agent'[d].paused = agent[d].paused
  /\ frozen' = frozen /\ mishaps \subseteq mishaps'

LEMMA LatchesKept ==
  ASSUME TreeInv, SamePlaces, Stays
  PROVE  AncestorsLive' /\ AncestorsPaused' /\ OnlyUserFreezes' /\ FrozenTree'
<1>1. \A a \in Agents : Live(a) => ToSet(agent[a].chain) \subseteq Agents
  BY OnTheChain DEF TreeInv, Live, Born
<1>2. AncestorsLive'
  BY <1>1 DEF TreeInv, AncestorsLive, SamePlaces, Stays
<1>3. AncestorsPaused'
  BY <1>1 DEF TreeInv, AncestorsPaused, SamePlaces, Stays
<1>4. OnlyUserFreezes'
  BY RootAssumption DEF TreeInv, OnlyUserFreezes, Stays
<1>5. FrozenTree'
  <2>1. Thins
    BY DEF Stays, Thins
  <2> QED
    BY <2>1, FrozenKept DEF TreeInv
<1> QED
  BY <1>2, <1>3, <1>4, <1>5

------------------------------------------------------------------------------
(* Steps that keep the tree as it is.                                      *)

\* An agent with memory m may go on with n: it keeps its place, and neither
\* comes to life, ends, freezes, thaws nor begins to await a birth.
Quiet(m, n) ==
  /\ n.chain = m.chain
  /\ n.stage = "unborn" <=> m.stage = "unborn"
  /\ n.stage \in {"unborn", "down", "gone"} <=> m.stage \in {"unborn", "down", "gone"}
  /\ m.death # "none" => n.death # "none"
  /\ m.suspending => n.suspending
  /\ n.paused = m.paused
  /\ InTurn(n) /\ n.paused => n.cancelling
  /\ n.stage = "spawn" => m.stage = "spawn" /\ n.baby = m.baby
  /\ m.stage = "birth" => n.stage = "birth"

LEMMA QuietSelf ==
  ASSUME PausedTurnsEnd PROVE \A d \in Agents : Quiet(agent[d], agent[d])
  BY DEF PausedTurnsEnd, Quiet

LEMMA QuietStep ==
  ASSUME TreeInv, agent' \in [Agents -> Memory], file' \in [Agents -> Snapshots],
         SameFiles, frozen' = frozen, mishaps \subseteq mishaps',
         \A d \in Agents : Quiet(agent[d], agent'[d])
  PROVE  TreeInv'
<1>1. TreeTypeOK'
  BY DEF TreeInv, TreeTypeOK, SameFiles
<1>2. SamePlaces
  BY DEF Quiet, SamePlaces, Born, Stage
<1>3. SameBabies
  BY DEF Quiet, SameBabies, Stage
<1>4. Stays
  BY DEF Quiet, Stays, Live, Stage, Exiting
<1>5. PausedTurnsEnd'
  BY DEF Quiet, PausedTurnsEnd
<1> QED
  BY <1>1, <1>2, <1>3, <1>4, <1>5, PlacesKept, FilesKept, BabiesKept, LatchesKept DEF TreeInv

\* One agent changes and is saved.
LEMMA QuietSave ==
  ASSUME TreeInv, NEW a \in Agents, Born(a), NEW m \in Memory, Quiet(agent[a], m), Saves(a, m),
         births' = births, frozen' = frozen, mishaps \subseteq mishaps'
  PROVE  TreeInv'
<1>1. /\ agent' \in [Agents -> Memory] /\ file' \in [Agents -> Snapshots]
      /\ \A d \in Agents : agent'[d] = IF d = a THEN m ELSE agent[d]
      /\ \A d \in Agents : file'[d] = IF d = a THEN Snapshot(m, FALSE) ELSE file[d]
  BY SavesType DEF TreeInv
<1>2. SameFiles
  BY <1>1 DEF SameFiles, Snapshot, Quiet
<1>3. \A d \in Agents : Quiet(agent[d], agent'[d])
  BY <1>1, QuietSelf DEF TreeInv
<1> QED
  BY <1>1, <1>2, <1>3, QuietStep

LEMMA TurnStartsInv == ASSUME TreeInv, NEW a \in Agents, TurnStarts(a) PROVE TreeInv'
<1> DEFINE m == agent[a]
           n == [m EXCEPT !.stage = "think"]
<1>1. m \in Memory /\ m.stage = "idle" /\ ~m.paused /\ Born(a)
  BY DEF TreeInv, TreeTypeOK, TurnStarts, Stage, Born
<1>2. n \in Memory /\ Quiet(m, n)
  BY <1>1 DEF Memory, Quiet
<1>3. Saves(a, n) /\ births' = births /\ frozen' = frozen /\ mishaps' = mishaps
  BY DEF TurnStarts, History
<1> QED
  BY <1>1, <1>2, <1>3, QuietSave

LEMMA AnsweredInv == ASSUME TreeInv, NEW a \in Agents, Answered(a) PROVE TreeInv'
<1> DEFINE m == agent[a]
           n == [m EXCEPT !.stage = "turn"]
<1>1. m \in Memory /\ m.stage = "think" /\ ~m.cancelling /\ Born(a)
  BY DEF TreeInv, TreeTypeOK, Answered, Stage, Born
<1>2. ~m.paused
  BY <1>1 DEF TreeInv, PausedTurnsEnd, InTurn
<1>3. n \in Memory /\ Quiet(m, n)
  BY <1>1, <1>2 DEF Memory, Quiet
<1>4. Saves(a, n) /\ births' = births /\ frozen' = frozen /\ mishaps' = mishaps
  BY DEF Answered, History
<1> QED
  BY <1>1, <1>3, <1>4, QuietSave

LEMMA FinishInv == ASSUME TreeInv, NEW a \in Agents, Finish(a) PROVE TreeInv'
<1> DEFINE m == agent[a]
           n == [m EXCEPT !.death = "finished"]
<1>1. m \in Memory /\ m.stage = "turn" /\ ~m.cancelling /\ Born(a)
  BY DEF TreeInv, TreeTypeOK, Finish, InVerbs, Stage, Born
<1>2. ~m.paused
  BY <1>1 DEF TreeInv, PausedTurnsEnd, InTurn
<1>3. n \in Memory /\ Quiet(m, n)
  BY <1>1, <1>2 DEF Memory, Quiet
<1>4. Saves(a, n) /\ births' = births /\ frozen' = frozen /\ mishaps' = mishaps
  BY DEF Finish, History
<1> QED
  BY <1>1, <1>3, <1>4, QuietSave

LEMMA TurnEndsInv == ASSUME TreeInv, NEW a \in Agents, TurnEnds(a) PROVE TreeInv'
<1> DEFINE m == agent[a]
           n == [m EXCEPT !.stage = "idle"]
           f == Snapshot(m, m.death # "none")
<1>1. m \in Memory /\ m.stage = "turn" /\ Born(a) /\ file \in [Agents -> Snapshots]
      /\ agent \in [Agents -> Memory]
  BY DEF TreeInv, TreeTypeOK, TurnEnds, InVerbs, Stage, Born
<1>2. n \in Memory /\ Quiet(m, n)
  BY <1>1 DEF Memory, Quiet, InTurn
<1>3. f \in Snapshots
  <2>1. (m.death # "none") \in BOOLEAN
    OBVIOUS
  <2> QED
    BY <1>1, <2>1, SnapshotIsOne
<1>4. agent' = [agent EXCEPT ![a] = n] /\ file' = [file EXCEPT ![a] = f]
      /\ births' = births /\ frozen' = frozen /\ mishaps' = mishaps
  BY DEF TurnEnds, History
<1>5. f.chain = m.chain
  BY DEF Snapshot
<1> HIDE DEF m, n, f
<1>6. agent' \in [Agents -> Memory] /\ file' \in [Agents -> Snapshots]
  BY <1>1, <1>2, <1>3, <1>4
<1>7. \A d \in Agents : Quiet(agent[d], agent'[d])
  BY <1>1, <1>2, <1>4, QuietSelf DEF TreeInv, m
<1>8. SameFiles
  BY <1>1, <1>4, <1>5 DEF SameFiles, m
<1> QED
  BY <1>4, <1>6, <1>7, <1>8, QuietStep

\* Parks writes the agent in the place it has, or nothing.
LEMMA ParksFiles ==
  ASSUME TreeInv, NEW a \in Agents, Born(a), Parks(a)
  PROVE  /\ file' \in [Agents -> Snapshots]
         /\ \A d \in Agents : file'[d] = file[d] \/ (d = a /\ file'[d].chain = agent[a].chain)
<1>1. agent[a] \in Memory /\ file \in [Agents -> Snapshots]
  BY DEF TreeInv, TreeTypeOK
<1>2. Cut(a) \in Memory /\ Cut(a).chain = agent[a].chain
  BY <1>1, CutMemory
<1>3. Snapshot(Cut(a), FALSE) \in Snapshots /\ Snapshot(Cut(a), FALSE).chain = agent[a].chain
  BY <1>2, SnapshotIsOne DEF Snapshot
<1> QED
  BY <1>1, <1>3 DEF Parks

LEMMA TurnCancelledInv == ASSUME TreeInv, NEW a \in Agents, TurnCancelled(a) PROVE TreeInv'
<1>1. /\ agent \in [Agents -> Memory] /\ agent[a] \in Memory
      /\ agent[a].stage \in {"think", "turn"} /\ Born(a)
  BY DEF TreeInv, TreeTypeOK, TurnCancelled, Stage, Born
<1>2. Cut(a) \in Memory /\ Quiet(agent[a], Cut(a))
  BY <1>1, CutMemory DEF Quiet, InTurn
<1>3. agent' = [agent EXCEPT ![a] = Cut(a)] /\ Parks(a)
      /\ births' = births /\ frozen' = frozen /\ mishaps' = mishaps
  BY DEF TurnCancelled, History
<1>4. SameFiles /\ file' \in [Agents -> Snapshots]
  BY <1>1, <1>3, ParksFiles DEF SameFiles
<1>5. agent' \in [Agents -> Memory] /\ \A d \in Agents : Quiet(agent[d], agent'[d])
  BY <1>1, <1>2, <1>3, QuietSelf DEF TreeInv
<1> QED
  BY <1>3, <1>4, <1>5, QuietStep

LEMMA BirthLandsInv == ASSUME TreeInv, NEW c \in Agents, BirthLands(c) PROVE TreeInv'
<1> DEFINE m == Fresh("birth", agent[c].chain, {}, {})
<1>1. agent[c] \in Memory /\ file \in [Agents -> Snapshots] /\ Born(c)
  BY DEF TreeInv, TreeTypeOK, BirthLands, Files
<1>2. m \in Memory
  <2>1. agent[c].chain \in Seq(Agents)
    BY <1>1 DEF Memory
  <2> QED
    BY <2>1, FreshIsMemory
<1>3. m.chain = agent[c].chain
  BY DEF Fresh
<1>4. /\ births' = births \ {c} /\ file' = [file EXCEPT ![c] = Snapshot(m, FALSE)]
      /\ agent' = agent /\ frozen' = frozen /\ mishaps' = mishaps
  BY DEF BirthLands, History
<1> HIDE DEF m
<1>5. Snapshot(m, FALSE) \in Snapshots /\ Snapshot(m, FALSE).chain = m.chain
  BY <1>2, SnapshotIsOne DEF Snapshot
<1>6. SameFiles /\ file' \in [Agents -> Snapshots]
  BY <1>1, <1>3, <1>4, <1>5 DEF SameFiles
<1>7. agent' \in [Agents -> Memory] /\ \A d \in Agents : Quiet(agent[d], agent'[d])
  BY <1>4, QuietSelf DEF TreeInv, TreeTypeOK
<1> QED
  BY <1>4, <1>6, <1>7, QuietStep

LEMMA BirthFailsInv == ASSUME TreeInv, NEW c \in Agents, BirthFails(c) PROVE TreeInv'
<1>1. /\ births' = births \ {c} /\ file' = file /\ agent' = agent /\ frozen' = frozen
      /\ mishaps \subseteq mishaps'
  BY DEF BirthFails, Mishap
<1>2. SameFiles /\ file' \in [Agents -> Snapshots]
  BY <1>1 DEF SameFiles, TreeInv, TreeTypeOK
<1>3. agent' \in [Agents -> Memory] /\ \A d \in Agents : Quiet(agent[d], agent'[d])
  BY <1>1, QuietSelf DEF TreeInv, TreeTypeOK
<1> QED
  BY <1>1, <1>2, <1>3, QuietStep

\* A request to die or to suspend is quiet.
LEMMA StoppedQuiet ==
  ASSUME NEW m \in Memory, Quiet(m, m), NEW n \in {m, Killed(m), Suspended(m)}
  PROVE  n \in Memory /\ Quiet(m, n)
<1>1. CASE n = m
  BY <1>1
<1>2. CASE n \in {Killed(m), Suspended(m)}
  BY <1>2, StoppedMemory DEF Quiet, InTurn
<1> QED
  BY <1>1, <1>2

LEMMA KillInv == ASSUME TreeInv, NEW a \in Agents, NEW c \in Agents, Kill(a, c) PROVE TreeInv'
<1>1. /\ agent \in [Agents -> Memory] /\ file \in [Agents -> Snapshots] /\ Born(a)
      /\ agent[a] \in Memory /\ agent[c] \in Memory
  BY DEF TreeInv, TreeTypeOK, Kill, InVerbs, Stage, Born
<1>2. /\ agent' = [agent EXCEPT ![c] = Killed(agent[c])]
      /\ file' = [file EXCEPT ![a] = Snapshot(agent[a], FALSE)]
      /\ births' = births /\ frozen' = frozen /\ mishaps' = mishaps
  BY <1>1 DEF Kill, History
<1>3. \A d \in Agents : Quiet(agent[d], agent[d])
  BY QuietSelf DEF TreeInv
<1>4. Killed(agent[c]) \in Memory /\ Quiet(agent[c], Killed(agent[c]))
  BY <1>1, <1>3, StoppedQuiet
<1>5. Snapshot(agent[a], FALSE) \in Snapshots /\ Snapshot(agent[a], FALSE).chain = agent[a].chain
  BY <1>1, SnapshotIsOne DEF Snapshot
<1>6. SameFiles /\ file' \in [Agents -> Snapshots]
  BY <1>1, <1>2, <1>5 DEF SameFiles
<1>7. agent' \in [Agents -> Memory] /\ \A d \in Agents : Quiet(agent[d], agent'[d])
  BY <1>1, <1>2, <1>3, <1>4
<1> QED
  BY <1>2, <1>6, <1>7, QuietStep

LEMMA LoopEndsInv == ASSUME TreeInv, NEW a \in Agents, LoopEnds(a) PROVE TreeInv'
<1> DEFINE stage == IF agent[a].death # "none" THEN "dispose" ELSE "suspend"
           n == [agent[a] EXCEPT !.stage = stage]
<1>1. /\ agent \in [Agents -> Memory] /\ \A d \in Agents : agent[d] \in Memory
      /\ agent[a].stage = "idle"
  BY DEF TreeInv, TreeTypeOK, LoopEnds, Stage
<1>2. n \in Memory /\ Quiet(agent[a], n)
  BY <1>1 DEF Memory, Quiet, InTurn
<1>3. /\ agent' = [d \in Agents |->
           IF d = a THEN n
           ELSE IF d \in Children(a) THEN StopChild(a, agent[d]) ELSE agent[d]]
      /\ births' = births /\ frozen' = frozen /\ mishaps' = mishaps /\ file' = file
  BY DEF LoopEnds, History
<1>4. \A d \in Agents : Quiet(agent[d], agent[d])
  BY QuietSelf DEF TreeInv
<1> HIDE DEF n
<1>5. ASSUME NEW d \in Agents PROVE agent'[d] \in Memory /\ Quiet(agent[d], agent'[d])
  <2>1. d # a => agent'[d] \in {agent[d], Killed(agent[d]), Suspended(agent[d])}
    BY <1>3 DEF StopChild
  <2> QED
    BY <1>1, <1>2, <1>3, <1>4, <2>1, StoppedQuiet
<1>6. SameFiles /\ file' \in [Agents -> Snapshots]
  BY <1>3 DEF SameFiles, TreeInv, TreeTypeOK
<1>7. agent' \in [Agents -> Memory]
  BY <1>3, <1>5
<1> QED
  BY <1>3, <1>5, <1>6, <1>7, QuietStep

LEMMA ShutdownInv == ASSUME TreeInv, Shutdown PROVE TreeInv'
<1>1. /\ agent \in [Agents -> Memory] /\ agent[Root] \in Memory
      /\ \A d \in Agents : Quiet(agent[d], agent[d])
  BY RootAssumption, QuietSelf DEF TreeInv, TreeTypeOK
<1>2. /\ agent' = [agent EXCEPT ![Root] = Suspended(agent[Root])]
      /\ births' = births /\ frozen' = frozen /\ mishaps' = mishaps /\ file' = file
  BY <1>1, RootAssumption DEF Shutdown
<1>3. Suspended(agent[Root]) \in Memory /\ Quiet(agent[Root], Suspended(agent[Root]))
  BY <1>1, RootAssumption, StoppedQuiet
<1>4. SameFiles /\ file' \in [Agents -> Snapshots]
  BY <1>2 DEF SameFiles, TreeInv, TreeTypeOK
<1>5. agent' \in [Agents -> Memory] /\ \A d \in Agents : Quiet(agent[d], agent'[d])
  BY <1>1, <1>2, <1>3
<1> QED
  BY <1>2, <1>4, <1>5, QuietStep

------------------------------------------------------------------------------
(* A failed turn, a spawn and its end.                                     *)

LEMMA FailTurnInv == ASSUME TreeInv, NEW a \in Agents, FailTurn(a) PROVE TreeInv'
<1>1. /\ agent \in [Agents -> Memory] /\ agent[a] \in Memory
      /\ agent[a].stage = "think" /\ Born(a)
      /\ births' = births /\ frozen' = frozen
  BY DEF TreeInv, TreeTypeOK, FailTurn, Stage, Born
<1>2. CASE a # Root
  <2> DEFINE death == IF agent[a].death = "none" THEN "failed" ELSE agent[a].death
             n == [agent[a] EXCEPT !.stage = "idle", !.death = death]
  <2>1. n \in Memory /\ Quiet(agent[a], n)
    BY <1>1 DEF Memory, Quiet, InTurn
  <2>2. Saves(a, n) /\ mishaps' = mishaps
    BY <1>2 DEF FailTurn
  <2> QED
    BY <1>1, <2>1, <2>2, QuietSave
<1>3. CASE a = Root
  <2> DEFINE n == [agent[a] EXCEPT !.stage = "idle", !.paused = TRUE]
  <2>1. /\ n \in Memory /\ n.stage = "idle" /\ n.paused /\ n.chain = agent[a].chain
        /\ n.death = agent[a].death /\ n.suspending = agent[a].suspending
    BY <1>1 DEF Memory
  <2>2. Saves(a, n) /\ "park" \in mishaps'
    BY <1>3 DEF FailTurn, Mishap
  <2> HIDE DEF n
  <2>3. /\ agent' \in [Agents -> Memory] /\ file' \in [Agents -> Snapshots]
        /\ \A d \in Agents : agent'[d] = IF d = a THEN n ELSE agent[d]
        /\ \A d \in Agents : file'[d] = IF d = a THEN Snapshot(n, FALSE) ELSE file[d]
    BY <2>1, <2>2, SavesType DEF TreeInv
  <2>4. SamePlaces
    BY <1>1, <2>1, <2>3 DEF SamePlaces, Born, Stage
  <2>5. SameFiles
    BY <1>1, <2>1, <2>3 DEF SameFiles, Snapshot
  <2>6. SameBabies
    BY <1>1, <2>1, <2>3 DEF SameBabies, Stage
  <2>7. \A d \in Agents : (Live(d)' <=> Live(d)) /\ (agent[d].paused => agent'[d].paused)
    BY <1>1, <2>1, <2>3 DEF Live, Stage
  <2>8. \A d \in Agents : Live(d) => ToSet(agent[d].chain) \subseteq Agents
    BY OnTheChain DEF TreeInv, Live, Born
  <2>9. AncestorsLive'
    BY <2>4, <2>7, <2>8 DEF TreeInv, AncestorsLive, SamePlaces
  <2>10. AncestorsPaused'
    <3> SUFFICES ASSUME NEW d \in Agents, Live(d)', agent'[d].paused,
                        NEW b \in ToSet(agent'[d].chain)
                 PROVE  agent'[b].paused
      BY DEF AncestorsPaused
    <3>1. agent'[d].chain = agent[d].chain /\ Live(d) /\ b \in Agents
      BY <2>4, <2>7, <2>8 DEF SamePlaces
    <3>2. CASE d = Root
      <4>1. b = Root
        BY <3>1, <3>2, RootChain DEF TreeInv, ToSet
      <4> QED
        BY <3>2, <4>1
    <3>3. CASE d # Root
      BY <1>3, <2>3, <2>7, <3>1, <3>3 DEF TreeInv, AncestorsPaused
    <3> QED
      BY <3>2, <3>3
  <2>11. PausedTurnsEnd'
    BY <2>1, <2>3 DEF TreeInv, PausedTurnsEnd, InTurn
  <2>12. OnlyUserFreezes' /\ FrozenTree'
    BY <2>2 DEF OnlyUserFreezes, FrozenTree
  <2>13. TreeTypeOK'
    BY <1>1, <2>3 DEF TreeInv, TreeTypeOK
  <2> QED
    BY <2>4, <2>5, <2>6, <2>9, <2>10, <2>11, <2>12, <2>13, PlacesKept, FilesKept, BabiesKept
       DEF TreeInv
<1> QED
  BY <1>2, <1>3

LEMMA SpawnInv == ASSUME TreeInv, NEW a \in Agents, NEW c \in Agents, Spawn(a, c) PROVE TreeInv'
<1> DEFINE s == agent[a].chain
           m == [agent[a] EXCEPT !.stage = "spawn", !.baby = c]
           n == Fresh("birth", Append(s, c), {}, {})
<1>1. /\ agent \in [Agents -> Memory] /\ agent[a] \in Memory
      /\ agent[a].stage = "turn" /\ ~agent[a].cancelling /\ Born(a) /\ Live(a)
      /\ agent[c].stage = "unborn" /\ ~Born(c) /\ a # c
  BY DEF TreeInv, TreeTypeOK, Spawn, InVerbs, Stage, Born, Live
<1>2. s \in Seq(Agents) /\ Lineage(a, s) /\ Append(s, c) \in Seq(Agents)
  BY <1>1 DEF TreeInv, Lineages, Memory
<1>3. /\ m \in Memory /\ m.stage = "spawn" /\ m.baby = c /\ m.chain = s
      /\ m.paused = agent[a].paused /\ m.death = agent[a].death
      /\ m.suspending = agent[a].suspending
  BY <1>1 DEF Memory
<1>4. /\ n \in Memory /\ n.stage = "birth" /\ n.chain = Append(s, c) /\ ~n.paused
      /\ n.death = "none" /\ ~n.suspending
  BY <1>2, FreshIsMemory DEF Fresh
<1>5. /\ agent' = [agent EXCEPT ![a] = m, ![c] = n]
      /\ births' = births \cup {c} /\ file' = file /\ frozen' = frozen /\ mishaps' = mishaps
  BY <1>1 DEF Spawn, History
<1> HIDE DEF m, n
<1>6. agent'[a] = m /\ agent'[c] = n /\ \A d \in Agents \ {a, c} : agent'[d] = agent[d]
  BY <1>1, <1>5
<1>7. TreeTypeOK'
  BY <1>1, <1>3, <1>4, <1>5 DEF TreeInv, TreeTypeOK
<1>8. \A d \in Agents : Born(d)' <=> Born(d) \/ d = c
  BY <1>1, <1>3, <1>4, <1>6 DEF Born, Stage
<1>9. \A d \in Agents \ {c} :
        /\ agent'[d].chain = agent[d].chain /\ agent'[d].paused = agent[d].paused
        /\ Live(d)' <=> Live(d)
        /\ Exiting(d)' <=> Exiting(d)
  BY <1>1, <1>3, <1>6 DEF Live, Stage, Exiting
<1>10. ASSUME NEW d \in Agents, Born(d)
       PROVE  ToSet(agent[d].chain) \subseteq Agents \ {c}
  BY <1>1, <1>10, OnTheChain DEF TreeInv
<1>11. ToSet(Append(s, c)) = ToSet(s) \cup {c}
  <2> DEFINE t == Append(s, c)
  <2>1. /\ t \in Seq(Agents) /\ Len(t) = Len(s) + 1 /\ t[Len(t)] = c
        /\ \A i \in 1..Len(s) : t[i] = s[i]
    BY <1>2
  <2>2. ToSet(t) = {t[i] : i \in 1..Len(t)} /\ ToSet(s) = {s[i] : i \in 1..Len(s)}
    BY <1>2, <2>1 DEF ToSet
  <2>3. /\ \A i \in 1..Len(t) : i \in 1..Len(s) \/ i = Len(t)
        /\ \A i \in 1..Len(s) : i \in 1..Len(t)
        /\ Len(t) \in 1..Len(t)
    BY <1>2, <2>1
  <2> HIDE DEF t
  <2>4. ASSUME NEW x \in ToSet(t) PROVE x \in ToSet(s) \cup {c}
    BY <2>1, <2>2, <2>3
  <2>5. ASSUME NEW x \in ToSet(s) PROVE x \in ToSet(t)
    BY <2>1, <2>2, <2>3
  <2>6. c \in ToSet(t)
    BY <2>1, <2>2, <2>3
  <2> QED
    BY <2>4, <2>5, <2>6 DEF t
<1>12. Lineages'
  <2>1. ASSUME NEW d \in Agents, Born(d) PROVE Lineage(d, agent[d].chain)'
    <3> DEFINE t == agent[d].chain
    <3>1. t \in Seq(Agents) /\ Lineage(d, t) /\ d # c
      BY <1>1, <2>1 DEF TreeInv, Lineages, Memory
    <3>2. \A i \in 1..Len(t) : t[i] \in Agents \ {c}
      BY <1>1, <3>1 DEF Lineage
    <3>3. \A i \in 1..Len(t) : Born(t[i])' /\ agent'[t[i]].chain = agent[t[i]].chain
      BY <1>8, <1>9, <3>1, <3>2 DEF Lineage
    <3>4. agent'[d].chain = t
      BY <1>9, <3>1
    <3> QED
      BY <3>1, <3>3, <3>4 DEF Lineage
  <2>2. Lineage(c, agent[c].chain)'
    <3> DEFINE t == Append(s, c)
    <3>1. /\ Len(t) = Len(s) + 1 /\ t[Len(t)] = c /\ \A i \in 1..Len(s) : t[i] = s[i]
          /\ Len(s) \in Nat
      BY <1>2
    <3>2. agent'[c].chain = t
      BY <1>4, <1>6
    <3>3. ASSUME NEW i \in 1..Len(s), NEW b, b = t[i]
          PROVE  /\ Born(b)' /\ Len(agent'[b].chain) = i
                 /\ \A j \in 1..i : agent'[b].chain[j] = t[j]
      <4>1. b = s[i] /\ b \in Agents \ {c} /\ Born(b)
        BY <1>1, <1>2, <3>1, <3>3 DEF Lineage
      <4>2. Born(b)' /\ agent'[b].chain = agent[b].chain
        BY <1>8, <1>9, <4>1
      <4>3. Len(agent[b].chain) = i /\ \A j \in 1..i : agent[b].chain[j] = s[j]
        BY <1>2, <4>1 DEF Lineage
      <4>4. \A j \in 1..i : j \in 1..Len(s)
        BY <1>2
      <4> QED
        BY <3>1, <4>2, <4>3, <4>4
    <3>4. Born(c)' /\ Len(agent'[c].chain) = Len(t)
          /\ \A j \in 1..Len(t) : agent'[c].chain[j] = t[j]
      BY <1>8, <3>1, <3>2
    <3>5. t[1] = Root /\ Len(t) > 0
      BY <1>2, <3>1 DEF Lineage
    <3>6. \A i \in 1..Len(t) : i \in 1..Len(s) \/ i = Len(t)
      BY <3>1
    <3>7. PICK u : u = t
      OBVIOUS
    <3>8. Lineage(c, u)'
      <4>1. ASSUME NEW i \in 1..Len(u)
            PROVE  /\ Born(u[i])' /\ Len(agent'[u[i]].chain) = i
                   /\ \A j \in 1..i : agent'[u[i]].chain[j] = u[j]
        <5> HIDE DEF t
        <5>1. CASE i \in 1..Len(s)
          BY <3>3, <3>7, <5>1
        <5>2. CASE i = Len(t)
          BY <3>1, <3>4, <3>7, <5>2
        <5> QED
          BY <3>6, <3>7, <5>1, <5>2
      <4> QED
        BY <3>1, <3>5, <3>7, <4>1 DEF Lineage
    <3> QED
      BY <3>2, <3>7, <3>8 DEF Lineage
  <2>3. Born(Root)'
    BY <1>8, RootAssumption DEF TreeInv, Lineages
  <2> QED
    BY <1>8, <2>1, <2>2, <2>3 DEF Lineages
<1>13. Files'
  BY <1>1, <1>5, <1>8, <1>9 DEF TreeInv, Files, TreeTypeOK
<1>14. Babies'
  <2> SUFFICES ASSUME NEW d \in Agents, Stage(d)' = "spawn" PROVE InBirth(agent[d].baby, d)'
    BY DEF Babies
  <2>1. CASE d = a
    <3>1. /\ Len(Append(s, c)) = Len(s) + 1 /\ Append(s, c)[Len(s)] = s[Len(s)] /\ Len(s) > 0
          /\ s[Len(s)] = a
      BY <1>2 DEF Lineage
    <3>2. agent'[d].baby = c /\ Stage(c)' = "birth" /\ agent'[c].chain = Append(s, c)
      BY <1>3, <1>4, <1>6, <2>1 DEF Stage
    <3>3. Len(Append(s, c)) > 1 /\ Append(s, c)[Len(Append(s, c)) - 1] = a
      BY <1>2, <3>1
    <3> QED
      BY <2>1, <3>2, <3>3 DEF InBirth
  <2>2. CASE d # a
    <3>1. d # c /\ agent'[d] = agent[d] /\ Stage(d) = "spawn"
      BY <1>4, <1>6, <2>2 DEF Stage
    <3>2. InBirth(agent[d].baby, d)
      BY <3>1 DEF TreeInv, Babies
    <3>3. agent[d].baby \in Agents \ {a, c}
      BY <1>1, <3>2 DEF InBirth, Stage
    <3> QED
      BY <1>6, <3>1, <3>2, <3>3 DEF InBirth, Stage
  <2> QED
    BY <2>1, <2>2
<1>15. Live(c)' /\ ~agent'[c].paused /\ agent'[c].chain = Append(s, c)
  BY <1>4, <1>6 DEF Live, Stage
<1>16. ASSUME NEW d \in Agents \ {c}, Live(d)'
       PROVE  /\ Live(d) /\ agent'[d].chain = agent[d].chain
              /\ ToSet(agent[d].chain) \subseteq Agents \ {c}
  BY <1>9, <1>10, <1>16 DEF Live, Born
<1>17. AncestorsLive'
  <2>1. \A b \in ToSet(s) : Live(b)'
    BY <1>1, <1>9, <1>10 DEF TreeInv, AncestorsLive
  <2>2. ASSUME NEW d \in Agents \ {c}, Live(d)', NEW b \in ToSet(agent'[d].chain) PROVE Live(b)'
    BY <1>9, <1>16, <2>2 DEF TreeInv, AncestorsLive
  <2> QED
    BY <1>11, <1>15, <2>1, <2>2 DEF AncestorsLive
<1>18. AncestorsPaused'
  <2>1. ASSUME NEW d \in Agents, Live(d)', agent'[d].paused, NEW b \in ToSet(agent'[d].chain)
        PROVE  agent'[b].paused
    BY <1>9, <1>15, <1>16, <2>1 DEF TreeInv, AncestorsPaused
  <2> QED
    BY <2>1 DEF AncestorsPaused
<1>19. ~agent[a].paused
  BY <1>1 DEF TreeInv, PausedTurnsEnd, InTurn
<1>20. PausedTurnsEnd'
  BY <1>3, <1>4, <1>6, <1>19 DEF TreeInv, PausedTurnsEnd
<1>21. Root # c
  BY <1>1 DEF TreeInv, Lineages
<1>22. OnlyUserFreezes'
  BY <1>5, <1>9, <1>21, RootAssumption DEF TreeInv, OnlyUserFreezes
<1>23. FrozenTree'
  <2> SUFFICES ASSUME frozen, "park" \notin mishaps, NEW d \in Agents, Live(d)'
               PROVE  agent'[d].paused \/ Leaving(d)'
    BY <1>5 DEF FrozenTree
  <2>1. \A e \in Agents : Live(e) => agent[e].paused \/ Leaving(e)
    BY DEF TreeInv, FrozenTree
  <2>2. CASE d # c
    BY <1>9, <1>16, <2>1, <2>2 DEF Leaving
  <2>3. CASE d = c
    <3>1. PICK b \in ToSet(s) : Exiting(b)
      BY <1>1, <1>19, <2>1 DEF Leaving
    <3>2. Exiting(b)' /\ b \in ToSet(agent'[c].chain)
      BY <1>1, <1>9, <1>10, <1>11, <1>15, <3>1
    <3> QED
      BY <2>3, <3>2 DEF Leaving
  <2> QED
    BY <2>2, <2>3
<1> QED
  BY <1>7, <1>12, <1>13, <1>14, <1>17, <1>18, <1>20, <1>22, <1>23 DEF TreeInv

\* A child's chain is its parent's, and the child.
LEMMA ChildChain ==
  ASSUME TreeInv, NEW a \in Agents, NEW c \in Agents, InBirth(c, a)
  PROVE  /\ c # a /\ c # Root /\ Born(a) /\ Born(c)
         /\ ToSet(agent[c].chain) \subseteq ToSet(agent[a].chain) \cup {c}
<1> DEFINE s == agent[c].chain
<1>1. Born(c) /\ TreeTypeOK /\ Lineages
  BY DEF TreeInv, InBirth, Born
<1>2. /\ s \in Seq(Agents) /\ Lineage(c, s) /\ Len(s) > 1 /\ s[Len(s) - 1] = a
      /\ agent[a].chain \in Seq(Agents)
  BY <1>1 DEF Lineages, InBirth, TreeTypeOK, Memory
<1>3. Len(s) - 1 \in 1..Len(s) /\ s[Len(s)] = c
  BY <1>2 DEF Lineage
<1>4. /\ Born(a) /\ Len(agent[a].chain) = Len(s) - 1
      /\ \A j \in 1..Len(s) - 1 : agent[a].chain[j] = s[j]
  BY <1>2, <1>3 DEF Lineage
<1>5. ASSUME NEW i \in 1..Len(s) PROVE s[i] \in ToSet(agent[a].chain) \cup {c}
  <2>1. CASE i = Len(s)
    BY <1>3, <2>1
  <2>2. CASE i \in 1..Len(s) - 1
    BY <1>2, <1>4, <2>2 DEF ToSet
  <2> QED
    BY <1>2, <2>1, <2>2
<1>6. ToSet(s) = {s[i] : i \in 1..Len(s)}
  BY <1>2 DEF ToSet
<1>7. c # a
  BY <1>2, <1>4
<1>8. c # Root
  <2>1. Len(agent[Root].chain) = 1
    BY <1>1, RootChain
  <2>2. Len(agent[c].chain) > 1 /\ Len(agent[c].chain) \in Nat
    BY <1>2
  <2>3. \A x \in Nat : x > 1 => x # 1
    OBVIOUS
  <2> QED
    BY <2>1, <2>2, <2>3, Zenon
<1> QED
  BY <1>1, <1>4, <1>5, <1>6, <1>7, <1>8

\* However a spawn ends, its child starts.
LEMMA SpawnEnds ==
  ASSUME TreeInv, NEW a \in Agents, Stage(a) = "spawn", NEW c, c = agent[a].baby,
         NEW n \in Memory, n.chain = agent[a].chain, n.stage \in {"turn", "idle"},
         n.paused = agent[a].paused, n.death = agent[a].death,
         n.suspending = agent[a].suspending, n.stage = "turn" => ~agent[a].paused,
         agent' \in [Agents -> Memory], agent'[a] = n, agent'[c] = Started(a, c),
         \A d \in Agents \ {a, c} : agent'[d] = agent[d],
         file' \in [Agents -> Snapshots],
         \A d \in Agents : file'[d] = file[d] \/ (d = a /\ file'[d].chain = agent[a].chain),
         births' = births, frozen' = frozen, mishaps \subseteq mishaps'
  PROVE  TreeInv'
<1>1. InBirth(c, a) /\ c \in Agents /\ agent[c].stage = "birth"
  BY DEF TreeInv, Babies, InBirth, Stage
<1>2. /\ c # a /\ c # Root /\ Born(a) /\ Born(c)
      /\ ToSet(agent[c].chain) \subseteq ToSet(agent[a].chain) \cup {c}
  BY <1>1, ChildChain
<1>3. agent[a] \in Memory /\ agent[c] \in Memory
  BY <1>1 DEF TreeInv, TreeTypeOK
<1>4. PICK q : q = Started(a, c)
  OBVIOUS
<1>5. /\ agent'[c] = q /\ q.stage = "idle" /\ q.chain = agent[c].chain
      /\ q.death = agent[c].death /\ q.suspending = agent[c].suspending
      /\ agent[c].paused => q.paused
      /\ q.paused => agent[a].paused \/ agent[c].paused
  BY <1>1, <1>3, <1>4, StartedMemory
<1>9. TreeTypeOK'
  BY DEF TreeInv, TreeTypeOK
<1>10. agent[a].stage = "spawn"
  BY DEF Stage
<1>11. SamePlaces
  BY <1>1, <1>2, <1>5, <1>10 DEF SamePlaces, Born, Stage
<1>12. SameFiles
  BY <1>2 DEF SameFiles
<1>13. /\ Thins /\ \A d \in Agents : Live(d)' <=> Live(d)
       /\ \A d \in Agents \ {c} : agent'[d].paused = agent[d].paused
  BY <1>1, <1>2, <1>5, <1>10 DEF Thins, Live, Stage, Exiting
<1>14. \A d \in Agents : Live(d) => ToSet(agent[d].chain) \subseteq Agents
  BY OnTheChain DEF TreeInv, Live, Born
<1>15. AncestorsLive'
  BY <1>11, <1>13, <1>14 DEF TreeInv, AncestorsLive, SamePlaces
<1>16. AncestorsPaused'
  <2> SUFFICES ASSUME NEW d \in Agents, Live(d)', agent'[d].paused,
                      NEW b \in ToSet(agent'[d].chain)
               PROVE  agent'[b].paused
    BY DEF AncestorsPaused
  <2>1. /\ Live(d) /\ agent'[d].chain = agent[d].chain
        /\ b \in ToSet(agent[d].chain) /\ b \in Agents
    BY <1>11, <1>13, <1>14 DEF SamePlaces
  <2>2. CASE agent[d].paused
    BY <1>13, <2>1, <2>2 DEF TreeInv, AncestorsPaused, Thins
  <2>3. CASE ~agent[d].paused
    <3>1. d = c /\ agent[a].paused
      BY <1>1, <1>2, <1>5, <1>13, <2>3
    <3>2. CASE b = c
      BY <3>1, <3>2
    <3>3. CASE b \in ToSet(agent[a].chain)
      <4>1. Live(a)
        BY <1>10 DEF Live, Stage
      <4> QED
        BY <1>13, <2>1, <3>1, <3>3, <4>1 DEF TreeInv, AncestorsPaused, Thins
    <3> QED
      BY <1>1, <1>2, <1>5, <2>1, <3>1, <3>2, <3>3
  <2> QED
    BY <2>2, <2>3
<1>17. PausedTurnsEnd'
  BY <1>1, <1>2, <1>5 DEF TreeInv, PausedTurnsEnd, InTurn
<1>18. OnlyUserFreezes'
  BY <1>1, <1>2, <1>5, <1>13, RootAssumption DEF TreeInv, OnlyUserFreezes, Thins
<1>19. Babies'
  <2> SUFFICES ASSUME NEW d \in Agents, Stage(d)' = "spawn" PROVE InBirth(agent[d].baby, d)'
    BY DEF Babies
  <2>1. d # a /\ d # c /\ agent'[d] = agent[d] /\ Stage(d) = "spawn"
    BY <1>1, <1>2, <1>5 DEF Stage
  <2>2. InBirth(agent[d].baby, d)
    BY <2>1 DEF TreeInv, Babies
  <2>3. agent[d].baby \in Agents \ {a, c}
    BY <1>1, <1>2, <1>5, <1>10, <2>1, <2>2 DEF InBirth, Stage
  <2> QED
    BY <1>1, <1>2, <1>5, <2>1, <2>2, <2>3 DEF InBirth, Stage
<1> QED
  BY <1>9, <1>11, <1>12, <1>13, <1>15, <1>16, <1>17, <1>18, <1>19, PlacesKept, FilesKept, FrozenKept
     DEF TreeInv

LEMMA SpawnReturnsInv == ASSUME TreeInv, NEW a \in Agents, SpawnReturns(a) PROVE TreeInv'
<1> DEFINE c == agent[a].baby
           n == [agent[a] EXCEPT !.stage = "turn", !.baby = NoAgent, !.claims = @ \cup {c}]
<1>1. /\ agent[a] \in Memory /\ file \in [Agents -> Snapshots]
      /\ agent[a].stage = "spawn" /\ ~agent[a].cancelling
  BY DEF TreeInv, TreeTypeOK, SpawnReturns, Stage
<1>2. ~agent[a].paused
  BY <1>1 DEF TreeInv, PausedTurnsEnd, InTurn
<1>3. c \in Agents
  BY <1>1 DEF TreeInv, Babies, InBirth, Stage
<1>4. /\ n \in Memory /\ n.chain = agent[a].chain /\ n.stage = "turn"
      /\ n.paused = agent[a].paused /\ n.death = agent[a].death
      /\ n.suspending = agent[a].suspending
  BY <1>1, <1>3 DEF Memory
<1>5. /\ agent' = [agent EXCEPT ![a] = n, ![c] = Started(a, c)]
      /\ file' = [file EXCEPT ![a] = Snapshot(n, FALSE)]
      /\ births' = births /\ frozen' = frozen /\ mishaps' = mishaps
  BY DEF SpawnReturns, History
<1>6. Stage(a) = "spawn"
  BY <1>1 DEF Stage
<1> HIDE DEF n
<1>7. Snapshot(n, FALSE) \in Snapshots /\ Snapshot(n, FALSE).chain = n.chain
  BY <1>4, SnapshotIsOne DEF Snapshot
<1>8. /\ file' \in [Agents -> Snapshots]
      /\ \A d \in Agents : file'[d] = file[d] \/ (d = a /\ file'[d].chain = agent[a].chain)
  BY <1>1, <1>4, <1>5, <1>7
<1>9. c # a
  BY <1>1, <1>3, <1>6 DEF TreeInv, Babies, InBirth, Stage
<1>10. agent \in [Agents -> Memory] /\ Started(a, c) \in Memory
  BY <1>3, StartedMemory DEF TreeInv, TreeTypeOK
<1>11. /\ agent' \in [Agents -> Memory] /\ agent'[a] = n /\ agent'[c] = Started(a, c)
       /\ \A d \in Agents \ {a, c} : agent'[d] = agent[d]
  BY <1>3, <1>4, <1>5, <1>9, <1>10
<1>12. PICK k : k = c
  OBVIOUS
<1> HIDE DEF c
<1>13. /\ k = agent[a].baby /\ agent'[k] = Started(a, k)
       /\ \A d \in Agents \ {a, k} : agent'[d] = agent[d]
  BY <1>11, <1>12 DEF c
<1>14. /\ n \in Memory /\ n.chain = agent[a].chain /\ n.stage \in {"turn", "idle"}
       /\ n.paused = agent[a].paused /\ n.death = agent[a].death
       /\ n.suspending = agent[a].suspending /\ (n.stage = "turn" => ~agent[a].paused)
  BY <1>2, <1>4
<1>15. births' = births /\ frozen' = frozen /\ mishaps \subseteq mishaps'
  BY <1>5
<1> QED
  BY <1>6, <1>8, <1>11, <1>13, <1>14, <1>15, SpawnEnds

LEMMA SpawnCancelledInv == ASSUME TreeInv, NEW a \in Agents, SpawnCancelled(a) PROVE TreeInv'
<1>1. agent[a] \in Memory /\ Stage(a) = "spawn" /\ Born(a)
  BY DEF TreeInv, TreeTypeOK, SpawnCancelled, Born
<1>2. /\ Cut(a) \in Memory
      /\ Cut(a).stage = "idle" /\ Cut(a).chain = agent[a].chain /\ Cut(a).paused = agent[a].paused
      /\ Cut(a).death = agent[a].death /\ Cut(a).suspending = agent[a].suspending
  BY <1>1, CutMemory
<1>3. /\ agent' = [agent EXCEPT ![a] = Cut(a), ![agent[a].baby] = Started(a, agent[a].baby)]
      /\ Parks(a) /\ births' = births /\ frozen' = frozen
  BY DEF SpawnCancelled
<1>4. mishaps \subseteq mishaps'
  BY DEF SpawnCancelled, Mishap
<1>5. /\ file' \in [Agents -> Snapshots]
      /\ \A d \in Agents : file'[d] = file[d] \/ (d = a /\ file'[d].chain = agent[a].chain)
  BY <1>1, <1>3, ParksFiles
<1> DEFINE c == agent[a].baby
<1>6. c \in Agents /\ c # a
  BY <1>1 DEF TreeInv, Babies, InBirth, Stage
<1>7. agent \in [Agents -> Memory] /\ Started(a, c) \in Memory
  BY <1>6, StartedMemory DEF TreeInv, TreeTypeOK
<1>8. /\ agent' \in [Agents -> Memory] /\ agent'[a] = Cut(a) /\ agent'[c] = Started(a, c)
      /\ \A d \in Agents \ {a, c} : agent'[d] = agent[d]
  BY <1>2, <1>3, <1>6, <1>7
<1> QED
  BY <1>1, <1>2, <1>3, <1>4, <1>5, <1>8, SpawnEnds

------------------------------------------------------------------------------
(* Exits.                                                                  *)

\* Of what the invariant reads of the agents, a's stage may change and nothing else.
OnlyStage(a) ==
  \A d \in Agents :
    /\ agent'[d].chain = agent[d].chain /\ agent'[d].baby = agent[d].baby
    /\ agent'[d].paused = agent[d].paused /\ agent'[d].death = agent[d].death
    /\ agent'[d].suspending = agent[d].suspending
    /\ agent'[d].cancelling = agent[d].cancelling
    /\ d # a => agent'[d].stage = agent[d].stage

\* a's loop ends after its children's: nobody live is beneath it.
LEMMA Ended ==
  ASSUME TreeInv, NEW a \in Agents, Stage(a) \in {"dispose", "suspend"}, ChildrenEnded(a),
         agent' \in [Agents -> Memory], agent'[a].stage \in {"down", "gone"},
         OnlyStage(a),
         file' \in [Agents -> Snapshots], SameFiles, frozen' = frozen, mishaps' = mishaps
  PROVE  TreeInv'
<1>1. SamePlaces /\ SameBabies /\ Thins
  BY DEF OnlyStage, SamePlaces, SameBabies, Thins, Born, Live, Stage, Exiting
<1>2. TreeTypeOK'
  BY DEF TreeInv, TreeTypeOK, SameFiles
<1>3. ~Live(a)' /\ \A d \in Agents \ {a} : Live(d)' <=> Live(d)
  BY DEF OnlyStage, Live, Stage
<1>4. \A d \in Agents : Live(d) => Born(d) /\ ToSet(agent[d].chain) \subseteq Agents
  BY OnTheChain DEF TreeInv, Live, Born
<1>5. AncestorsLive'
  <2> SUFFICES ASSUME NEW d \in Agents, Live(d)', NEW b \in ToSet(agent'[d].chain) PROVE Live(b)'
    BY DEF AncestorsLive
  <2>1. d # a /\ Live(d) /\ b \in ToSet(agent[d].chain)
    BY <1>3 DEF OnlyStage
  <2>2. b \in Agents /\ Live(b)
    BY <1>4, <2>1 DEF TreeInv, AncestorsLive
  <2>3. b # a
    <3> SUFFICES ASSUME b = a PROVE FALSE
      OBVIOUS
    <3>1. PICK c \in ToSet(agent[d].chain) : c \in Agents \ {Root} /\ Parent(c) = a
      BY <1>4, <2>1, ThroughAChild DEF TreeInv
    <3>2. Live(c)
      BY <2>1, <3>1 DEF TreeInv, AncestorsLive
    <3> QED
      BY <3>1, <3>2 DEF ChildrenEnded, Children, Live
  <2> QED
    BY <1>3, <2>2, <2>3
<1>6. AncestorsPaused'
  BY <1>3, <1>4 DEF OnlyStage, TreeInv, AncestorsPaused
<1>7. PausedTurnsEnd'
  BY DEF OnlyStage, TreeInv, PausedTurnsEnd, InTurn
<1>8. OnlyUserFreezes'
  BY <1>3, RootAssumption DEF OnlyStage, TreeInv, OnlyUserFreezes
<1> QED
  BY <1>1, <1>2, <1>5, <1>6, <1>7, <1>8, PlacesKept, FilesKept, BabiesKept, FrozenKept DEF TreeInv

\* Dispose of a: a is gone, its parent may have heard, and nothing else changes.
LEMMA DisposeShape ==
  ASSUME TreeInv, NEW a \in Agents, Dispose(a)
  PROVE  /\ agent' \in [Agents -> Memory] /\ agent'[a].stage = "gone" /\ OnlyStage(a)
         /\ \A d \in Agents :
              /\ agent'[d].claims = agent[d].claims
              /\ agent'[d].reports \subseteq agent[d].reports \cup {a}
<1> DEFINE g == [agent EXCEPT ![a].stage = "gone"]
           p == Parent(a)
           heard(d) == IF agent[a].death = "finished" THEN g[d].reports \cup {a} ELSE g[d].reports
<1>1. agent \in [Agents -> Memory] /\ agent[a] \in Memory
  BY DEF TreeInv, TreeTypeOK
<1>2. /\ g \in [Agents -> Memory] /\ g[a] = [agent[a] EXCEPT !.stage = "gone"]
      /\ \A d \in Agents \ {a} : g[d] = agent[d]
  BY <1>1 DEF Memory
<1>3. /\ g[a].chain = agent[a].chain /\ g[a].baby = agent[a].baby
      /\ g[a].paused = agent[a].paused /\ g[a].death = agent[a].death
      /\ g[a].suspending = agent[a].suspending /\ g[a].cancelling = agent[a].cancelling
      /\ g[a].claims = agent[a].claims /\ g[a].reports = agent[a].reports
      /\ g[a].stage = "gone"
  BY <1>1, <1>2 DEF Memory
<1>4. agent' = [g EXCEPT ![p].reports = heard(p)]
  BY DEF Dispose, Leaves
<1> HIDE DEF g, p
<1>5. agent' = [d \in Agents |-> IF d = p THEN [g[d] EXCEPT !.reports = heard(d)] ELSE g[d]]
  <2> HIDE DEF heard
  <2> QED
    BY <1>2, <1>4
<1>6. ASSUME NEW d \in Agents
      PROVE  /\ agent'[d] \in Memory
             /\ agent'[d].chain = g[d].chain /\ agent'[d].baby = g[d].baby
             /\ agent'[d].paused = g[d].paused /\ agent'[d].death = g[d].death
             /\ agent'[d].suspending = g[d].suspending /\ agent'[d].cancelling = g[d].cancelling
             /\ agent'[d].stage = g[d].stage /\ agent'[d].claims = g[d].claims
             /\ agent'[d].reports \subseteq g[d].reports \cup {a}
  <2>1. /\ g[d] \in Memory /\ heard(d) \in SUBSET Agents
        /\ heard(d) \subseteq g[d].reports \cup {a}
    BY <1>2 DEF Memory
  <2> HIDE DEF heard
  <2>2. [g[d] EXCEPT !.reports = heard(d)] \in Memory
    BY <2>1 DEF Memory
  <2> QED
    BY <1>5, <2>1, <2>2 DEF Memory
<1>7. agent' \in [Agents -> Memory] /\ agent'[a].stage = "gone"
  BY <1>3, <1>5, <1>6
<1>8. ASSUME NEW d \in Agents
      PROVE  /\ agent'[d].chain = agent[d].chain /\ agent'[d].baby = agent[d].baby
             /\ agent'[d].paused = agent[d].paused /\ agent'[d].death = agent[d].death
             /\ agent'[d].suspending = agent[d].suspending
             /\ agent'[d].cancelling = agent[d].cancelling
             /\ d # a => agent'[d].stage = agent[d].stage
             /\ agent'[d].claims = agent[d].claims
             /\ agent'[d].reports \subseteq agent[d].reports \cup {a}
  <2>1. CASE d = a
    BY <1>3, <1>6, <2>1
  <2>2. CASE d # a
    BY <1>2, <1>6, <2>2
  <2> QED
    BY <2>1, <2>2
<1>9. OnlyStage(a)
  BY <1>8 DEF OnlyStage
<1> QED
  BY <1>7, <1>8, <1>9

LEMMA DisposeInv == ASSUME TreeInv, NEW a \in Agents, Dispose(a) PROVE TreeInv'
<1>1. file \in [Agents -> Snapshots]
  BY DEF TreeInv, TreeTypeOK
<1>2. agent' \in [Agents -> Memory] /\ OnlyStage(a) /\ agent'[a].stage \in {"down", "gone"}
  BY DisposeShape
<1>3. /\ file' = [file EXCEPT ![a] = NoFile] /\ births' = births /\ frozen' = frozen
      /\ mishaps' = mishaps /\ Stage(a) \in {"dispose", "suspend"} /\ ChildrenEnded(a)
  BY DEF Dispose, Leaves
<1>4. file' \in [Agents -> Snapshots] /\ SameFiles
  BY <1>1, <1>3, NoFileIsOne DEF SameFiles, NoFile
<1> QED
  BY <1>2, <1>3, <1>4, Ended

LEMMA SuspendSavesInv == ASSUME TreeInv, NEW a \in Agents, SuspendSaves(a) PROVE TreeInv'
<1> DEFINE n == [agent[a] EXCEPT !.stage = "down"]
<1>1. agent[a] \in Memory /\ Stage(a) = "suspend" /\ Born(a) /\ ChildrenEnded(a)
  BY DEF TreeInv, TreeTypeOK, SuspendSaves, Born
<1>2. /\ n \in Memory /\ n.chain = agent[a].chain /\ n.baby = agent[a].baby
      /\ n.paused = agent[a].paused /\ n.death = agent[a].death
      /\ n.suspending = agent[a].suspending /\ n.cancelling = agent[a].cancelling
      /\ n.stage = "down"
  BY <1>1 DEF Memory
<1>3. Saves(a, n) /\ births' = births /\ frozen' = frozen /\ mishaps' = mishaps
  BY DEF SuspendSaves, History
<1> HIDE DEF n
<1>4. /\ agent' \in [Agents -> Memory] /\ file' \in [Agents -> Snapshots]
      /\ \A d \in Agents : agent'[d] = IF d = a THEN n ELSE agent[d]
      /\ \A d \in Agents : file'[d] = IF d = a THEN Snapshot(n, FALSE) ELSE file[d]
  BY <1>2, <1>3, SavesType DEF TreeInv
<1>5. SameFiles
  BY <1>1, <1>2, <1>3, <1>4 DEF SameFiles, Snapshot
<1>6. OnlyStage(a)
  BY <1>2, <1>4 DEF OnlyStage
<1>7. agent'[a].stage \in {"down", "gone"}
  BY <1>2, <1>4
<1> QED
  BY <1>1, <1>3, <1>4, <1>5, <1>6, <1>7, Ended

------------------------------------------------------------------------------
(* Pause and resume.                                                       *)

LEMMA PauseInv == ASSUME TreeInv, Pause PROVE TreeInv'
<1> DEFINE S == {a \in Agents : ~agent[a].paused /\ ~Exiting(a)}
<1>1. agent \in [Agents -> Memory] /\ \A d \in Agents : agent[d] \in Memory
  BY DEF TreeInv, TreeTypeOK
<1>2. /\ agent' = [d \in Agents |-> IF d \in PauseReaches THEN Frozen(agent[d]) ELSE agent[d]]
      /\ file' = file /\ births' = births /\ mishaps' = mishaps
      /\ frozen' = TRUE /\ ~frozen /\ Live(Root)
  BY DEF Pause
<1>3. PauseReaches = {d \in Agents : Live(d) /\ ToSet(agent[d].chain) \subseteq S}
  BY DEF PauseReaches, Down
<1> HIDE DEF S
<1>4. \A d \in Agents :
        /\ agent'[d] \in Memory
        /\ agent'[d].stage = agent[d].stage /\ agent'[d].chain = agent[d].chain
        /\ agent'[d].baby = agent[d].baby
        /\ agent'[d].death = agent[d].death /\ agent'[d].suspending = agent[d].suspending
        /\ d \in PauseReaches => agent'[d].paused /\ (InTurn(agent[d]) => agent'[d].cancelling)
        /\ d \notin PauseReaches => agent'[d] = agent[d]
  BY <1>1, <1>2, FrozenMemory
<1>5. SamePlaces /\ SameBabies /\ SameFiles
  BY <1>2, <1>4 DEF SamePlaces, SameBabies, SameFiles, Born, Stage
<1>6. TreeTypeOK'
  BY <1>2, <1>4 DEF TreeInv, TreeTypeOK
<1>7. \A d \in Agents : (Live(d)' <=> Live(d)) /\ (Exiting(d)' <=> Exiting(d))
  BY <1>4 DEF Live, Stage, Exiting
<1>8. ASSUME NEW d \in Agents, Live(d), NEW b \in ToSet(agent[d].chain)
      PROVE  /\ b \in Agents /\ Live(b)
             /\ Root \in ToSet(agent[b].chain) /\ ToSet(agent[b].chain) \subseteq ToSet(agent[d].chain)
  <2>1. Born(d) /\ TreeTypeOK /\ Lineages
    BY <1>8 DEF TreeInv, Live, Born
  <2>2. b \in Agents /\ Born(b) /\ ToSet(agent[b].chain) \subseteq ToSet(agent[d].chain)
    BY <1>8, <2>1, OnTheChain
  <2> QED
    BY <1>8, <2>1, <2>2, OnTheChain DEF TreeInv, AncestorsLive
<1>9. AncestorsLive'
  BY <1>4, <1>7, <1>8 DEF TreeInv, AncestorsLive
<1>10. AncestorsPaused'
  <2> SUFFICES ASSUME NEW d \in Agents, Live(d), agent'[d].paused,
                      NEW b \in ToSet(agent[d].chain)
               PROVE  agent'[b].paused
    BY <1>4, <1>7 DEF AncestorsPaused
  <2>1. CASE d \in PauseReaches
    BY <1>3, <1>4, <1>8, <2>1
  <2>2. CASE d \notin PauseReaches
    <3>1. agent[b].paused
      BY <1>4, <2>2 DEF TreeInv, AncestorsPaused
    <3> QED
      BY <1>4, <1>8, <3>1
  <2> QED
    BY <2>1, <2>2
<1>11. PausedTurnsEnd'
  BY <1>4 DEF TreeInv, PausedTurnsEnd, InTurn
<1>12. OnlyUserFreezes'
  BY <1>2 DEF OnlyUserFreezes
<1>13. FrozenTree'
  <2> SUFFICES ASSUME "park" \notin mishaps, NEW d \in Agents, Live(d)
               PROVE  agent'[d].paused \/ Leaving(d)'
    BY <1>2, <1>7 DEF FrozenTree
  <2>1. CASE d \in PauseReaches
    BY <1>4, <2>1
  <2>2. CASE d \notin PauseReaches
    <3>1. PICK b \in ToSet(agent[d].chain) : b \notin S
      BY <1>3, <2>2
    <3>2. b \in Agents /\ Live(b) /\ Root \in ToSet(agent[b].chain)
      BY <1>8
    <3>3. ~agent[Root].paused
      BY <1>2 DEF TreeInv, OnlyUserFreezes
    <3>4. ~agent[b].paused
      BY <3>2, <3>3 DEF TreeInv, AncestorsPaused
    <3>5. Exiting(b)' /\ b \in ToSet(agent'[d].chain)
      BY <1>4, <1>7, <3>1, <3>2, <3>4 DEF S
    <3> QED
      BY <3>5 DEF Leaving
  <2> QED
    BY <2>1, <2>2
<1> QED
  BY <1>5, <1>6, <1>9, <1>10, <1>11, <1>12, <1>13, PlacesKept, FilesKept, BabiesKept DEF TreeInv

\* Nobody live is frozen after a step that keeps the tree and ends the pause.
LEMMA Thawed ==
  ASSUME TreeInv, TreeTypeOK', SamePlaces, Files', Babies', AncestorsLive', frozen' = FALSE,
         \A d \in Agents : Live(d)' => ~agent'[d].paused
  PROVE  TreeInv'
<1>1. AncestorsPaused' /\ OnlyUserFreezes' /\ FrozenTree'
  BY RootAssumption DEF AncestorsPaused, OnlyUserFreezes, FrozenTree
<1>2. PausedTurnsEnd'
  BY DEF PausedTurnsEnd, InTurn, Live, Stage
<1> QED
  BY <1>1, <1>2, PlacesKept DEF TreeInv

LEMMA ResumeInv == ASSUME TreeInv, Resume PROVE TreeInv'
<1> DEFINE thaw(d) == [agent[d] EXCEPT !.paused = FALSE]
<1>1. agent \in [Agents -> Memory] /\ \A d \in Agents : agent[d] \in Memory
  BY DEF TreeInv, TreeTypeOK
<1>2. /\ agent' = [d \in Agents |-> IF d \in ResumeReaches THEN thaw(d) ELSE agent[d]]
      /\ file' = file /\ births' = births /\ frozen' = FALSE
  BY DEF Resume
<1>3. ASSUME NEW d \in Agents
      PROVE  /\ thaw(d) \in Memory /\ thaw(d).stage = agent[d].stage
             /\ thaw(d).chain = agent[d].chain /\ thaw(d).baby = agent[d].baby /\ ~thaw(d).paused
  <2>1. agent[d] \in Memory
    BY <1>1
  <2> QED
    BY <2>1 DEF Memory
<1> HIDE DEF thaw
<1>4. \A d \in Agents :
        /\ agent'[d] \in Memory
        /\ agent'[d].stage = agent[d].stage /\ agent'[d].chain = agent[d].chain
        /\ agent'[d].baby = agent[d].baby
        /\ d \in ResumeReaches => ~agent'[d].paused
        /\ d \notin ResumeReaches => agent'[d].paused = agent[d].paused
  BY <1>1, <1>2, <1>3
<1>5. SamePlaces /\ SameBabies /\ SameFiles
  BY <1>2, <1>4 DEF SamePlaces, SameBabies, SameFiles, Born, Stage
<1>6. TreeTypeOK'
  BY <1>2, <1>4 DEF TreeInv, TreeTypeOK
<1>7. \A d \in Agents : Live(d)' <=> Live(d)
  BY <1>4 DEF Live, Stage
<1>8. \A d \in Agents : Live(d) => ToSet(agent[d].chain) \subseteq Agents
  BY OnTheChain DEF TreeInv, Live, Born
<1>9. AncestorsLive'
  BY <1>4, <1>7, <1>8 DEF TreeInv, AncestorsLive
<1>10. ASSUME NEW d \in Agents, Live(d)' PROVE ~agent'[d].paused
  <2>1. Live(d) /\ (agent[d].paused => d \in ResumeReaches)
    BY <1>7, <1>8, <1>10 DEF TreeInv, AncestorsPaused, ResumeReaches, Down
  <2> QED
    BY <1>4, <2>1
<1> QED
  BY <1>2, <1>5, <1>6, <1>9, <1>10, FilesKept, BabiesKept, Thawed DEF TreeInv

------------------------------------------------------------------------------
(* A crash and a boot.                                                     *)

LEMMA CrashInv == ASSUME TreeInv, Crash PROVE TreeInv'
<1> DEFINE n(d) == Fresh("down", agent[d].chain, {}, {})
<1>1. agent \in [Agents -> Memory] /\ \A d \in Agents : agent[d] \in Memory
  BY DEF TreeInv, TreeTypeOK
<1>2. /\ agent' = [d \in Agents |-> IF Stage(d) \in {"unborn", "gone"} THEN agent[d] ELSE n(d)]
      /\ file' = file /\ births' = {} /\ frozen' = FALSE
  BY DEF Crash
<1>3. ASSUME NEW d \in Agents
      PROVE  n(d) \in Memory /\ n(d).stage = "down" /\ n(d).chain = agent[d].chain
  <2>1. agent[d].chain \in Seq(Agents)
    BY <1>1 DEF Memory
  <2> QED
    BY <2>1, FreshIsMemory DEF Fresh
<1> HIDE DEF n
<1>4. \A d \in Agents :
        /\ agent'[d] \in Memory /\ agent'[d].chain = agent[d].chain
        /\ agent'[d].stage \in {"unborn", "gone", "down"}
        /\ agent'[d].stage = "unborn" <=> agent[d].stage = "unborn"
  BY <1>1, <1>2, <1>3 DEF Stage
<1>5. SamePlaces /\ SameFiles
  BY <1>2, <1>4 DEF SamePlaces, SameFiles, Born, Stage
<1>6. TreeTypeOK'
  BY <1>2, <1>4 DEF TreeInv, TreeTypeOK
<1>7. \A d \in Agents : ~Live(d)' /\ Stage(d)' # "spawn"
  BY <1>4 DEF Live, Stage
<1>8. Babies' /\ AncestorsLive'
  BY <1>7 DEF Babies, AncestorsLive
<1> QED
  BY <1>2, <1>5, <1>6, <1>7, <1>8, FilesKept, Thawed DEF TreeInv

\* Whoever the boot restores was born there, and its ancestors are restored too.
LEMMA RestorableChain ==
  ASSUME TreeInv, NEW a \in Restorable
  PROVE  /\ a \in Agents /\ Born(a) /\ file[a].chain = agent[a].chain
         /\ ToSet(agent[a].chain) \subseteq Restorable
<1>1. a \in Present /\ a \in Agents /\ ToSet(file[a].chain) \subseteq Present
  BY DEF Restorable, Present
<1>2. Born(a) /\ file[a].chain = agent[a].chain
  BY <1>1 DEF Present, TreeInv, Files
<1>3. ASSUME NEW b \in ToSet(agent[a].chain) PROVE b \in Restorable
  <2>1. b \in Present /\ ToSet(agent[b].chain) \subseteq Present
    BY <1>1, <1>2, OnTheChain DEF TreeInv
  <2>2. file[b].chain = agent[b].chain
    BY <2>1 DEF Present, TreeInv, Files
  <2> QED
    BY <2>1, <2>2 DEF Restorable
<1> QED
  BY <1>1, <1>2, <1>3

LEMMA BootInv == ASSUME TreeInv, Boot PROVE TreeInv'
<1> DEFINE kept(d) == Fresh("idle", file[d].chain, file[d].claims, file[d].reports)
           lost(d) == Fresh("gone", agent[d].chain, {}, {})
           first == Fresh("idle", <<Root>>, {}, {})
<1>1. /\ agent \in [Agents -> Memory] /\ \A d \in Agents : agent[d] \in Memory
      /\ file \in [Agents -> Snapshots] /\ \A d \in Agents : file[d] \in Snapshots
      /\ agent[Root].chain = <<Root>> /\ Born(Root) /\ Root \in Agents
  BY RootChain, RootAssumption DEF TreeInv, TreeTypeOK, Lineages
<1>2. /\ agent' = [d \in Agents |->
           IF d \in Restorable THEN kept(d)
           ELSE IF d = Root THEN first
           ELSE IF Stage(d) = "unborn" THEN agent[d]
           ELSE lost(d)]
      /\ file' = [d \in Agents |-> IF d \in Restorable THEN file[d] ELSE NoFile]
      /\ frozen' = FALSE /\ births' = births
  BY DEF Boot
<1>3. ASSUME NEW d \in Agents
      PROVE  /\ kept(d) \in Memory /\ kept(d).stage = "idle" /\ kept(d).chain = file[d].chain
             /\ ~kept(d).paused
             /\ lost(d) \in Memory /\ lost(d).stage = "gone" /\ lost(d).chain = agent[d].chain
  <2>1. /\ agent[d].chain \in Seq(Agents) /\ file[d].chain \in Seq(Agents)
        /\ file[d].claims \in SUBSET Agents /\ file[d].reports \in SUBSET Agents
    BY <1>1 DEF Memory, Snapshots
  <2> QED
    BY <2>1, FreshIsMemory DEF Fresh
<1>4. first \in Memory /\ first.stage = "idle" /\ first.chain = <<Root>> /\ ~first.paused
  <2>1. <<Root>> \in Seq(Agents)
    BY RootAssumption
  <2> QED
    BY <2>1, FreshIsMemory DEF Fresh
<1> HIDE DEF kept, lost, first
<1>5. ASSUME NEW d \in Agents
      PROVE  /\ agent'[d] \in Memory /\ agent'[d].chain = agent[d].chain
             /\ agent'[d].stage = "unborn" <=> agent[d].stage = "unborn"
             /\ agent'[d].stage = "idle" <=> d \in Restorable \cup {Root}
             /\ agent'[d].stage \in {"idle", "unborn", "gone"}
             /\ agent'[d].stage = "idle" => ~agent'[d].paused
  <2>1. CASE d \in Restorable
    <3>1. Born(d) /\ file[d].chain = agent[d].chain
      BY <2>1, RestorableChain
    <3> QED
      BY <1>2, <1>3, <2>1, <3>1 DEF Born, Stage
  <2>2. CASE d \notin Restorable /\ d = Root
    BY <1>1, <1>2, <1>4, <2>2 DEF Born, Stage
  <2>3. CASE d \notin Restorable /\ d # Root
    BY <1>1, <1>2, <1>3, <2>3 DEF Stage
  <2> QED
    BY <2>1, <2>2, <2>3
<1>6. SamePlaces
  BY <1>5 DEF SamePlaces, Born, Stage
<1>7. SameFiles /\ file' \in [Agents -> Snapshots]
  BY <1>1, <1>2, NoFileIsOne DEF SameFiles, NoFile
<1>8. TreeTypeOK'
  BY <1>2, <1>5, <1>7 DEF TreeInv, TreeTypeOK
<1>9. \A d \in Agents : Stage(d)' # "spawn" /\ (Live(d)' <=> d \in Restorable \cup {Root})
  BY <1>5 DEF Live, Stage
<1>10. AncestorsLive'
  <2> SUFFICES ASSUME NEW d \in Agents, Live(d)', NEW b \in ToSet(agent[d].chain) PROVE Live(b)'
    BY <1>5 DEF AncestorsLive
  <2>1. CASE d \in Restorable
    <3>1. b \in Restorable /\ b \in Agents
      BY <2>1, RestorableChain DEF Restorable, Present
    <3> QED
      BY <1>9, <3>1
  <2>2. CASE d = Root
    BY <1>1, <1>9, <2>2 DEF ToSet
  <2> QED
    BY <1>9, <2>1, <2>2
<1>11. Babies'
  BY <1>9 DEF Babies
<1>12. \A d \in Agents : Live(d)' => ~agent'[d].paused
  BY <1>5, <1>9
<1> QED
  BY <1>2, <1>6, <1>7, <1>8, <1>10, <1>11, <1>12, FilesKept, Thawed DEF TreeInv

------------------------------------------------------------------------------
(* The invariant holds, and what follows.                                  *)

LEMMA TreeInit == Init => TreeInv
<1> SUFFICES ASSUME Init PROVE TreeInv
  OBVIOUS
<1>1. <<>> \in Seq(Agents) /\ <<Root>> \in Seq(Agents)
  BY RootAssumption
<1>2. Fresh("idle", <<Root>>, {}, {}) \in Memory /\ Fresh("unborn", <<>>, {}, {}) \in Memory
  BY <1>1, FreshIsMemory
<1>3. TreeTypeOK
  BY <1>2, NoFileIsOne DEF Init, TreeTypeOK
<1>4. /\ agent[Root].stage = "idle" /\ agent[Root].chain = <<Root>> /\ ~agent[Root].paused
      /\ \A a \in Agents \ {Root} : agent[a].stage = "unborn"
  BY RootAssumption DEF Init, Fresh
<1>5. /\ Born(Root) /\ \A a \in Agents : Born(a) => a = Root
      /\ \A a \in Agents : Live(a) => a = Root
      /\ \A a \in Agents : Stage(a) # "spawn"
      /\ \A a \in Agents : ~InTurn(agent[a])
  BY <1>4 DEF Born, Live, Stage, InTurn
<1>6. Lineages
  <2>1. Lineage(Root, <<Root>>)
    <3>1. Len(<<Root>>) = 1 /\ <<Root>>[1] = Root
      OBVIOUS
    <3>2. PICK s : s = <<Root>>
      OBVIOUS
    <3>3. Len(s) = 1 /\ s[1] = Root /\ agent[Root].chain = s
      BY <1>4, <3>1, <3>2
    <3>4. Lineage(Root, s)
      BY <1>5, <3>3 DEF Lineage
    <3> QED
      BY <3>2, <3>4
  <2> QED
    BY <1>4, <1>5, <2>1 DEF Lineages
<1>7. Files
  BY DEF Init, Files, NoFile
<1>8. Babies /\ PausedTurnsEnd
  BY <1>5 DEF Babies, PausedTurnsEnd
<1>9. AncestorsLive
  <2>1. ToSet(<<Root>>) = {Root} /\ Live(Root)
    BY <1>4 DEF ToSet, Live, Stage
  <2> QED
    BY <1>4, <1>5, <2>1 DEF AncestorsLive
<1>10. AncestorsPaused /\ OnlyUserFreezes
  BY <1>4, <1>5 DEF AncestorsPaused, OnlyUserFreezes
<1>11. FrozenTree
  BY DEF Init, FrozenTree
<1> QED
  BY <1>3, <1>6, <1>7, <1>8, <1>9, <1>10, <1>11 DEF TreeInv

LEMMA TreeStep == TreeInv /\ [Next]_vars => TreeInv'
<1> SUFFICES ASSUME TreeInv, [Next]_vars PROVE TreeInv'
  OBVIOUS
<1>1. ASSUME NEW a \in Agents, Turn(a) PROVE TreeInv'
  BY <1>1, TurnStartsInv, FinishInv, FailTurnInv, SpawnInv, KillInv DEF Turn
<1>2. ASSUME NEW a \in Agents, Progress(a) PROVE TreeInv'
  BY <1>2, AnsweredInv, TurnEndsInv, SpawnReturnsInv, TurnCancelledInv, SpawnCancelledInv,
     BirthLandsInv, LoopEndsInv, DisposeInv, SuspendSavesInv DEF Progress
<1>3. ASSUME NEW a \in Agents, BirthFails(a) PROVE TreeInv'
  BY <1>3, BirthFailsInv
<1>4. CASE UNCHANGED vars
  <2>1. /\ agent' = agent /\ file' = file /\ births' = births /\ frozen' = frozen
        /\ mishaps' = mishaps
    BY <1>4 DEF vars
  <2>2. /\ SameFiles /\ file' \in [Agents -> Snapshots] /\ agent' \in [Agents -> Memory]
        /\ \A d \in Agents : Quiet(agent[d], agent'[d])
    BY <2>1, QuietSelf DEF SameFiles, TreeInv, TreeTypeOK
  <2> QED
    BY <2>1, <2>2, QuietStep
<1> QED
  BY <1>1, <1>2, <1>3, <1>4, PauseInv, ResumeInv, ShutdownInv, CrashInv, BootInv DEF Next

\* No agent outlives its parent, through kills, finishes, spawns cut short,
\* shutdowns, crashes and boots (core.py, _stop_children), for any number of
\* agents and any depth.
THEOREM NobodyOutlivesItsParent == Spec => []NoOrphans
<1>1. TreeInv => NoOrphans
  <2> SUFFICES ASSUME TreeInv, NEW a \in Agents \ {Root}, Live(a) PROVE Live(Parent(a))
    BY DEF NoOrphans
  <2>1. Born(a) /\ TreeTypeOK /\ Lineages
    BY DEF TreeInv, Live, Born
  <2> QED
    BY <2>1, ParentOnChain DEF TreeInv, AncestorsLive
<1> QED
  BY <1>1, TreeInit, TreeStep, PTL DEF Spec

\* The user's pause holds for the whole tree, children born meanwhile included,
\* but for what is beneath an agent on its way out (core.py, pause).
THEOREM ThePauseHolds == Spec => []FrozenTree
<1>1. TreeInv => FrozenTree
  BY DEF TreeInv
<1> QED
  BY <1>1, TreeInit, TreeStep, PTL DEF Spec

\* A resume leaves nobody frozen beneath an agent that runs (core.py, resume).
THEOREM TheResumeReaches == Spec => []NobodyStaysFrozen
<1>1. TreeInv => NobodyStaysFrozen
  <2> SUFFICES ASSUME TreeInv, NEW a \in Agents, Live(a), agent[a].paused PROVE agent[Root].paused
    BY DEF NobodyStaysFrozen
  <2>1. Root \in ToSet(agent[a].chain)
    BY OnTheChain DEF TreeInv, Live, Born
  <2> QED
    BY <2>1 DEF TreeInv, AncestorsPaused
<1> QED
  BY <1>1, TreeInit, TreeStep, PTL DEF Spec
=============================================================================
