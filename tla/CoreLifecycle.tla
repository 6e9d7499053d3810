--------------------------- MODULE CoreLifecycle ---------------------------
(***************************************************************************)
(* The core process (nan/app.py): what it starts, in which order it stops  *)
(* it, which stop requests it hears when, and the process groups of the    *)
(* boot scripts (nan/utils/autostart.py), which live in sessions of their  *)
(* own and so survive a core that does not stop them.                      *)
(*                                                                         *)
(* `at` is the await the main coroutine stands at.  The root agent appears *)
(* as what Core sees of it: a task that ends once it has written its       *)
(* snapshot, or is cut off before.                                         *)
(***************************************************************************)
EXTENDS FiniteSets

CONSTANTS
  Script   \* boot scripts that exist

VARIABLES
  at,          \* where run() stands
  core,        \* CoreState
  asked,       \* the stop event
  handlers,    \* the signal handlers are installed
  rootTask,    \* none, runs, suspends, saved or cut
  gateway,     \* none, serving or down
  hub,         \* none, up or down
  launch,      \* the launching task of each script: none, due, forked, known
  group,       \* the process group of each script: none, up, told (SIGTERM), gone
  late         \* history: time limits that ran out while the core stopped

coreVars == <<at, core, asked, handlers, rootTask, gateway, hub, launch, group, late>>

CoreInit ==
  /\ at = "initialize" /\ core = "init" /\ asked = FALSE /\ handlers = FALSE
  /\ rootTask = "none" /\ gateway = "none" /\ hub = "none"
  /\ launch = [s \in Script |-> "none"] /\ group = [s \in Script |-> "none"]
  /\ late = {}

-----------------------------------------------------------------------------
(* Starting.                                                               *)

\* _initialize: a restored root runs already, a fresh one does not.
Initialize ==
  /\ at = "initialize"
  /\ at' = "hub"
  /\ rootTask' \in {"none", "runs"}
  /\ UNCHANGED <<core, asked, handlers, gateway, hub, launch, group, late>>

\* The hub's socket is bound.  The rest of _serve has no await.
Serve ==
  /\ at = "hub"
  /\ at' = "wait" /\ core' = "running" /\ handlers' = TRUE
  /\ hub' = "up" /\ gateway' = "serving" /\ rootTask' = "runs"
  /\ launch' \in {[s \in Script |-> "due"], launch}
  /\ UNCHANGED <<asked, group, late>>

\* run's finally: state and suspend, before any await.
ShutDown ==
  /\ at' = "root" /\ core' = "stopping"
  /\ rootTask' = IF rootTask = "runs" THEN "suspends" ELSE rootTask

\* A failure of either, or a SIGINT while asyncio's own handler is in place.
BootFails ==
  /\ at \in {"initialize", "hub"}
  /\ ShutDown
  /\ UNCHANGED <<asked, handlers, gateway, hub, launch, group, late>>

\* Autostart._launch.
Fork(s) ==
  /\ launch[s] = "due"
  /\ launch' = [launch EXCEPT ![s] = "forked"]
  /\ group' = [group EXCEPT ![s] = "up"]
  /\ UNCHANGED <<at, core, asked, handlers, rootTask, gateway, hub, late>>

ForkFails(s) ==
  /\ launch[s] = "due"
  /\ launch' = [launch EXCEPT ![s] = "none"]
  /\ UNCHANGED <<at, core, asked, handlers, rootTask, gateway, hub, group, late>>

Launched(s) ==
  /\ launch[s] = "forked"
  /\ launch' = [launch EXCEPT ![s] = "known"]
  /\ UNCHANGED <<at, core, asked, handlers, rootTask, gateway, hub, group, late>>

GroupEnds(s) ==
  /\ group[s] \in {"up", "told"}
  /\ group' = [group EXCEPT ![s] = "gone"]
  /\ UNCHANGED <<at, core, asked, handlers, rootTask, gateway, hub, launch, late>>

-----------------------------------------------------------------------------
(* Serving.                                                                *)

\* _request_stop
Signal ==
  /\ handlers /\ ~asked /\ core = "running"
  /\ asked' = TRUE
  /\ UNCHANGED <<at, core, handlers, rootTask, gateway, hub, launch, group, late>>

GatewayExits ==
  /\ gateway = "serving"
  /\ gateway' = "down"
  /\ UNCHANGED <<at, core, asked, handlers, rootTask, hub, launch, group, late>>

\* The core goes on without its gateway.
GatewayMissed ==
  /\ at = "wait" /\ gateway = "down"
  /\ at' = "blind"
  /\ UNCHANGED <<core, asked, handlers, rootTask, gateway, hub, launch, group, late>>

StopHeard ==
  /\ at \in {"wait", "blind"} /\ asked
  /\ ShutDown
  /\ UNCHANGED <<asked, handlers, gateway, hub, launch, group, late>>

-----------------------------------------------------------------------------
(* Stopping.                                                               *)

RootSaves ==
  /\ rootTask = "suspends" /\ at # "dead"
  /\ rootTask' = "saved"
  /\ UNCHANGED <<at, core, asked, handlers, gateway, hub, launch, group, late>>

\* The root's task is over, or the core gives it up.
RootAwaited ==
  /\ at \in {"root", "cancelled"} /\ rootTask # "suspends"
  /\ at' = "launches"
  /\ UNCHANGED <<core, asked, handlers, rootTask, gateway, hub, launch, group, late>>

RootLimit ==
  /\ at \in {"root", "cancelled"} /\ rootTask = "suspends"
  /\ at' = IF at = "root" THEN "cancelled" ELSE "launches"
  /\ late' = late \cup {"root"}
  /\ UNCHANGED <<core, asked, handlers, rootTask, gateway, hub, launch, group>>

\* A cancelled root unwinds before its snapshot is written.
RootCut ==
  /\ rootTask = "suspends" /\ "root" \in late /\ at # "dead"
  /\ rootTask' = "cut"
  /\ UNCHANGED <<at, core, asked, handlers, gateway, hub, launch, group, late>>

\* A fault: only the groups whose launch was over when the stop began.
KnownUnlessPending == IF \E s \in Script : launch[s] \in {"due", "forked"} THEN {}
                      ELSE {s \in Script : launch[s] = "known"}

\* _pgids
KnownGroups == {s \in Script : launch[s] = "known"}

\* Autostart.stop waits for the launching tasks, or cancels those that do not
\* end: a shell forked already is then nobody's group.
LaunchesAwaited ==
  /\ at = "launches"
  /\ \/ /\ \A s \in Script : launch[s] \notin {"due", "forked"}
        /\ UNCHANGED <<launch, late>>
     \/ /\ \E s \in Script : launch[s] \in {"due", "forked"}
        /\ launch' = [s \in Script |-> IF launch[s] = "known" THEN "known" ELSE "none"]
        /\ late' = late \cup {s \in Script : launch[s] = "forked"}
  /\ IF KnownGroups = {} THEN at' = "gateway" /\ UNCHANGED group
     ELSE /\ at' = "told"
          /\ group' = [s \in Script |-> IF s \in KnownGroups /\ group[s] = "up" THEN "told" ELSE group[s]]
  /\ UNCHANGED <<core, asked, handlers, rootTask, gateway, hub>>

\* Five seconds, or less when all are gone; what is left is killed.
GroupsKilled ==
  /\ at = "told"
  /\ at' = "gateway"
  /\ group' = [s \in Script |-> IF s \in KnownGroups THEN "gone" ELSE group[s]]
  /\ UNCHANGED <<core, asked, handlers, rootTask, gateway, hub, launch, late>>

\* A failure of close is logged, and the task is cancelled all the same.
CloseGateway ==
  /\ at = "gateway"
  /\ at' = "hubStop"
  /\ gateway' = IF gateway = "none" THEN "none" ELSE "down"
  /\ UNCHANGED <<core, asked, handlers, rootTask, hub, launch, group, late>>

StopHub ==
  /\ at = "hubStop"
  /\ at' = "provider"
  /\ hub' = IF hub = "none" THEN "none" ELSE "down"
  /\ UNCHANGED <<core, asked, handlers, rootTask, gateway, launch, group, late>>

\* _close_llm, _remove_signals, STOPPED.
Ended ==
  /\ at = "provider"
  /\ at' = "ended" /\ core' = "stopped" /\ handlers' = FALSE
  /\ UNCHANGED <<asked, rootTask, gateway, hub, launch, group, late>>

\* The process dies at any time: SIGKILL, or SIGTERM and a second SIGINT while the
\* core's handlers are not in place.
CoreDies ==
  /\ at \notin {"ended", "dead"}
  /\ at' = "dead"
  /\ hub' = "none" /\ gateway' = "none" /\ handlers' = FALSE
  /\ launch' = [s \in Script |-> "none"]
  /\ UNCHANGED <<core, asked, rootTask, group, late>>

CoreNext ==
  \/ Initialize \/ Serve \/ BootFails \/ Signal \/ GatewayExits \/ GatewayMissed \/ StopHeard
  \/ \E s \in Script : Fork(s) \/ ForkFails(s) \/ Launched(s) \/ GroupEnds(s)
  \/ RootSaves \/ RootAwaited \/ RootLimit \/ RootCut
  \/ LaunchesAwaited \/ GroupsKilled \/ CloseGateway \/ StopHub \/ Ended \/ CoreDies

CoreSpec == CoreInit /\ [][CoreNext]_coreVars

-----------------------------------------------------------------------------
(* Properties.                                                             *)

CoreTypeOK ==
  /\ core \in {"init", "running", "stopping", "stopped"}
  /\ rootTask \in {"none", "runs", "suspends", "saved", "cut"}
  /\ gateway \in {"none", "serving", "down"} /\ hub \in {"none", "up", "down"}
  /\ launch \in [Script -> {"none", "due", "forked", "known"}]
  /\ group \in [Script -> {"none", "up", "told", "gone"}]
  /\ late \subseteq Script \cup {"root"}

\* A core that stops leaves no service behind, whenever the stop came while scripts
\* were being launched, and has saved its root, unless a time limit ran out; a
\* service that is told to end finds the hub it must unregister with, and no
\* service outlives that hub (app.py:222).
StopIsOrderly ==
  LET left == {s \in Script : group[s] \in {"up", "told"}} \ late
  IN  /\ hub = "down" => left = {}
      /\ (\E s \in Script : group[s] = "told") /\ at # "dead" => hub = "up"
      /\ core = "stopped" => /\ left = {}
                             /\ rootTask \in {"none", "saved"} \/ "root" \in late
                             /\ ~handlers /\ gateway # "serving"
=============================================================================
