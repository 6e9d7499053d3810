------------------------------- MODULE Control -------------------------------
(***************************************************************************)
(* nan/agent/control.py: the agent loop as a fold over its own state.      *)
(* Every place that asks what an agent does next asks Transition.          *)
(***************************************************************************)

\* A fault: the resident turn is asked for before the freeze.
TransitionForgetsPause(status, interval) ==
  IF status.death \/ status.suspend THEN "stop"
  ELSE IF status.openTurn THEN "resume"
  ELSE IF status.paused THEN "wait"
  ELSE IF interval THEN (IF status.paced THEN "run" ELSE "pace")
  ELSE IF status.inputReady \/ status.owedStep THEN "run"
  ELSE "wait"

\* A fault: the freeze is asked for before the exits.
TransitionPauseFirst(status, interval) ==
  IF status.paused THEN "wait"
  ELSE IF status.death \/ status.suspend THEN "stop"
  ELSE IF status.openTurn THEN "resume"
  ELSE IF interval THEN (IF status.paced THEN "run" ELSE "pace")
  ELSE IF status.inputReady \/ status.owedStep THEN "run"
  ELSE "wait"

\* `status` is control.Status; `interval` is autonomous_interval > 0.
Transition(status, interval) ==
  IF status.death \/ status.suspend THEN "stop"
  ELSE IF status.paused THEN "wait"
  ELSE IF status.openTurn THEN "resume"
  ELSE IF interval THEN (IF status.paced THEN "run" ELSE "pace")
  ELSE IF status.inputReady \/ status.owedStep THEN "run"
  ELSE "wait"
==============================================================================
