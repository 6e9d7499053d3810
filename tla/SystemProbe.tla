---------------------------- MODULE SystemProbe ----------------------------
(***************************************************************************)
(* The system service (workspace/services/system/main.py): what its probe  *)
(* announces about processes that burn the CPU and about settings of the   *)
(* host that change (displays, lock, focus mode), from readings that may   *)
(* be missing and from processes that come and go.                         *)
(***************************************************************************)
EXTENDS Naturals, Sequences, SequencesExt

CONSTANTS
  Pid,             \* process ids; the host uses an id again
  Setting,         \* values of a setting of the host
  Missing,         \* no reading
  RunawaySamples,  \* runaway_samples
  MaxBurn          \* bound: samples counted for one process

VARIABLES
  listed,          \* the processes that the last sample listed
  runaway,         \* _runaway: hot samples counted for each pid
  known,           \* the last reading of the setting, or Missing
  actual,          \* history: the first reading, then each that differed, in order
  heard,           \* history: the changes announced, in order
  alarm,           \* the pids announced as runaways by the last sample
  streak,          \* history: hot samples of the present process of each pid
  shared           \* history: pids whose count began with a process that is gone

sysVars == <<listed, runaway, known, actual, heard, alarm, streak, shared>>

SysInit ==
  /\ listed = {} /\ runaway = [p \in Pid |-> 0]
  /\ known = Missing /\ actual = <<>> /\ heard = <<>>
  /\ alarm = {} /\ streak = [p \in Pid |-> 0] /\ shared = {}

-----------------------------------------------------------------------------
\* A fault: a cool process keeps its count.
KeepsCount(p, hot) == IF p \in hot THEN runaway[p] + 1 ELSE runaway[p]

\* _check_runaway, for a pid that is listed.
Counted(p, hot) == IF p \in hot THEN runaway[p] + 1 ELSE 0

\* The count of a pid that is not listed stays.
CheckRunaway(now, hot) ==
  /\ runaway' = [p \in Pid |-> IF p \in now THEN Counted(p, hot) ELSE runaway[p]]
  /\ alarm' = {p \in now \cap hot : runaway'[p] = RunawaySamples}
  /\ listed' = now
  /\ streak' = [p \in Pid |-> IF p \in now /\ p \in hot
                                THEN (IF p \in listed THEN streak[p] ELSE 0) + 1 ELSE 0]
  /\ shared' = {p \in Pid : runaway'[p] > 0 /\ (p \in shared \/ (p \in now /\ p \notin listed /\ runaway[p] > 0))}

\* A fault: a missing reading is taken for one.
ReadingOrMissing(value) == value

\* A missing reading leaves the last one in place.
Reading(value) == IF value = Missing THEN known ELSE value

\* _check_displays, _check_locked, _check_dnd, _check_focus.
CheckSetting(value) ==
  /\ known' = Reading(value)
  /\ heard' = IF value # Missing /\ known # Missing /\ value # known THEN Append(heard, value) ELSE heard
  /\ actual' = IF value # Missing /\ (actual = <<>> \/ Last(actual) # value) THEN Append(actual, value) ELSE actual

\* SystemProbe.sample
SysSample(now, hot, value) ==
  /\ \A p \in hot : runaway[p] < MaxBurn
  /\ Len(actual) < MaxBurn
  /\ CheckSetting(value)
  /\ CheckRunaway(now, hot)

SysNext ==
  \E now \in SUBSET Pid, value \in Setting \cup {Missing} :
    \E hot \in SUBSET now : SysSample(now, hot, value)

SysSpec == SysInit /\ [][SysNext]_sysVars

-----------------------------------------------------------------------------
(* Properties.                                                             *)

\* A runaway is announced only for a process that was over the limit in each of
\* the last samples, as many as are asked for, unless it took over the count of a
\* process that vanished under the same pid; and each change of a setting between
\* two readings is announced once, whatever readings were missing between.
AlarmsAreTrue ==
  /\ \A p \in alarm : streak[p] = RunawaySamples \/ p \in shared
  /\ actual # <<>> => heard = Tail(actual)
=============================================================================
