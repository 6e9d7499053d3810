------------------------------ MODULE Surfaces ------------------------------
(***************************************************************************)
(* The panels of the desktop: the gateway's surface table (nan/gateway.py) *)
(* that services post to, the reaper that withdraws silent ones, the       *)
(* broadcasts to connected desktops, the replay of the table to a new      *)
(* connection, and the windows a desktop keeps (frontend Shell).           *)
(*                                                                         *)
(* Sends to one socket arrive in the order they were begun, so a broadcast *)
(* is one step; between two sends of the replay or of the reaper every     *)
(* other handler may run.  Time is counted in the reaper's interval, a     *)
(* third of surface_ttl.                                                   *)
(***************************************************************************)
EXTENDS Naturals, FiniteSets

CONSTANTS
  Owner,       \* services that show a panel
  PanelSpec,   \* specifications of a panel: url, title, icon
  BadSpec,     \* those of them that _validate_surface refuses
  Desktop,     \* desktops
  SurfaceTTL,  \* surface_ttl, in reaper intervals
  NoPanel      \* no entry, or no window, for this service

VARIABLES
  table,       \* _surfaces: the spec of each service that has an entry
  age,         \* the intervals since the last heartbeat of each
  reaping,     \* the expired ids the reaper still has to withdraw
  slept,       \* whether the reaper's sleep is over
  link,        \* a desktop's connection: off, being greeted, being told the table, or on
  left,        \* the ids its replay has still to visit
  size,        \* the table's size when that replay began
  panels,      \* the windows of each desktop
  stale        \* history: windows whose withdrawal the desktop was not there for

surfaceVars == <<table, age, reaping, slept, link, left, size, panels, stale>>

SurfaceInit ==
  /\ table = [s \in Owner |-> NoPanel] /\ age = [s \in Owner |-> 0]
  /\ reaping = {} /\ slept = FALSE
  /\ link = [d \in Desktop |-> "off"]
  /\ left = [d \in Desktop |-> {}]
  /\ size = [d \in Desktop |-> 0]
  /\ panels = [d \in Desktop |-> [s \in Owner |-> NoPanel]]
  /\ stale = [d \in Desktop |-> {}]

-----------------------------------------------------------------------------
Listed == {s \in Owner : table[s] # NoPanel}

\* A fault: a desktop hears broadcasts only after its replay.
ConnectedAfterReplay(d) == link[d] = "on"

\* _ws_handler adds the socket to _clients before it sends anything.
Connected(d) == link[d] # "off"

\* _broadcast: the window of s becomes p on every connected desktop.
Broadcast(s, p) ==
  /\ panels' = [d \in Desktop |-> IF Connected(d) THEN [panels[d] EXCEPT ![s] = p] ELSE panels[d]]
  /\ stale' = [d \in Desktop |->
       IF Connected(d) THEN stale[d] \ {s}
       ELSE IF p = NoPanel /\ panels[d][s] # NoPanel THEN stale[d] \cup {s}
       ELSE stale[d]]

\* POST /surfaces: a heartbeat that restates the spec.  A new entry comes last,
\* so a replay under way has it still to visit.
PostSurface(s, p) ==
  /\ p \notin BadSpec
  /\ table' = [table EXCEPT ![s] = p] /\ age' = [age EXCEPT ![s] = 0]
  /\ left' = [d \in Desktop |-> IF link[d] = "table" /\ s \notin Listed THEN left[d] \cup {s} ELSE left[d]]
  /\ IF table[s] = p THEN UNCHANGED <<panels, stale>> ELSE Broadcast(s, p)
  /\ UNCHANGED <<reaping, slept, link, size>>

\* An entry leaves the table, and with it the part of each replay not yet sent.
Withdraw(s) ==
  /\ table' = [table EXCEPT ![s] = NoPanel] /\ age' = [age EXCEPT ![s] = 0]
  /\ left' = [d \in Desktop |-> left[d] \ {s}]
  /\ Broadcast(s, NoPanel)

\* DELETE /surfaces/{id}
DeleteSurface(s) ==
  /\ s \in Listed
  /\ Withdraw(s)
  /\ UNCHANGED <<reaping, slept, link, size>>

\* The reaper wakes and lists what has expired.
ReapScan ==
  /\ slept /\ reaping = {}
  /\ slept' = FALSE
  /\ reaping' = {s \in Listed : age[s] > SurfaceTTL}
  /\ UNCHANGED <<table, age, link, left, size, panels, stale>>

\* It drops one and broadcasts, then the next: one that came back while an
\* earlier broadcast was awaited is dropped all the same (gateway.py:288).
ReapOne(s) ==
  /\ s \in reaping
  /\ Withdraw(s)
  /\ reaping' = reaping \ {s}
  /\ UNCHANGED <<slept, link, size>>

\* A desktop connects: it is a client before it is sent hello.
DesktopConnects(d) ==
  /\ link[d] = "off"
  /\ link' = [link EXCEPT ![d] = "hello"]
  /\ UNCHANGED <<table, age, reaping, slept, left, size, panels, stale>>

\* hello is sent, and the iteration over the table begins.
DesktopGreeted(d) ==
  /\ link[d] = "hello"
  /\ link' = [link EXCEPT ![d] = "table"]
  /\ left' = [left EXCEPT ![d] = Listed]
  /\ size' = [size EXCEPT ![d] = Cardinality(Listed)]
  /\ UNCHANGED <<table, age, reaping, slept, panels, stale>>

\* The iteration goes on only over a table of the size it began with.
SameSize(d) == size[d] = Cardinality(Listed)

\* The next entry of the table is sent.
TellSurface(d, s) ==
  /\ link[d] = "table" /\ SameSize(d) /\ s \in left[d]
  /\ panels' = [panels EXCEPT ![d][s] = table[s]]
  /\ left' = [left EXCEPT ![d] = @ \ {s}]
  /\ stale' = [stale EXCEPT ![d] = @ \ {s}]
  /\ UNCHANGED <<table, age, reaping, slept, link, size>>

TableTold(d) ==
  /\ link[d] = "table" /\ SameSize(d) /\ left[d] = {}
  /\ link' = [link EXCEPT ![d] = "on"]
  /\ UNCHANGED <<table, age, reaping, slept, left, size, panels, stale>>

\* The table changed its size under the iteration: the handler fails and the
\* connection ends.  So does any connection at any time.
DesktopGoes(d) ==
  /\ link[d] # "off"
  /\ link' = [link EXCEPT ![d] = "off"]
  /\ left' = [left EXCEPT ![d] = {}]
  /\ UNCHANGED <<table, age, reaping, slept, size, panels, stale>>

\* The page is loaded afresh: no window is left of the last one.
DesktopReloads(d) ==
  /\ link[d] = "off"
  /\ panels' = [panels EXCEPT ![d] = [s \in Owner |-> NoPanel]]
  /\ stale' = [stale EXCEPT ![d] = {}]
  /\ UNCHANGED <<table, age, reaping, slept, link, left, size>>

\* A third of surface_ttl passes.
SurfaceTick ==
  /\ ~slept /\ reaping = {}
  /\ slept' = TRUE
  /\ age' = [s \in Owner |-> IF s \in Listed /\ age[s] <= SurfaceTTL THEN age[s] + 1 ELSE age[s]]
  /\ UNCHANGED <<table, reaping, link, left, size, panels, stale>>

SurfaceNext ==
  \/ \E s \in Owner : DeleteSurface(s) \/ ReapOne(s) \/ \E p \in PanelSpec : PostSurface(s, p)
  \/ ReapScan \/ SurfaceTick
  \/ \E d \in Desktop : \/ DesktopConnects(d) \/ DesktopGreeted(d) \/ TableTold(d)
                        \/ \E s \in Owner : TellSurface(d, s)
                        \/ DesktopGoes(d) \/ DesktopReloads(d)

SurfaceSpec == SurfaceInit /\ [][SurfaceNext]_surfaceVars

-----------------------------------------------------------------------------
(* Properties.                                                             *)

\* A connected desktop shows the gateway's table: every panel in its current
\* form, and no other, whichever posts, withdrawals and reaper rounds crossed the
\* replay of the table.  Only a window withdrawn while the desktop was away
\* stays: a reconnect adds windows and removes none (Shell.tsx:88).
DesktopShowsTable ==
  \A d \in Desktop : link[d] = "on" =>
    \A s \in Owner : panels[d][s] = table[s] \/ (s \notin Listed /\ s \in stale[d])
=============================================================================
