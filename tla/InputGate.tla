----------------------------- MODULE InputGate -----------------------------
(***************************************************************************)
(* How a line of input reaches the root (nan/gateway.py, nan/app.py): the  *)
(* gateway drops a line whose mid it remembers, remembers a bounded number *)
(* of mids, and hands the line to the core, which takes it only while it   *)
(* runs.  The gateway serves from then on (app.py:139-145 do not await)    *)
(* and while the core stops.                                               *)
(*                                                                         *)
(* A desktop may send a line again under the same mid, on any connection.  *)
(***************************************************************************)
EXTENDS Naturals, Sequences, SequencesExt

CONSTANTS
  Mid,        \* correlation ids of lines
  DedupSize,  \* dedup_cache_size
  MaxLines    \* bound: lines let through

ASSUME GateAssumption == DedupSize \in Nat /\ MaxLines \in Nat

VARIABLES
  coreUp,     \* CoreState: running or stopping
  mids,       \* _seen_mids, in insertion order
  let,        \* history: the lines let through, in order
  reached     \* history: those of them that reached the root's inbox

gateVars == <<coreUp, mids, let, reached>>

GateInit == coreUp = "running" /\ mids = <<>> /\ let = <<>> /\ reached = {}

\* A fault: the whole memory is given up at the limit.
EvictedAll(q) == IF Len(q) > DedupSize THEN <<>> ELSE q

\* _accept_mid: past the limit the older half goes.
Evicted(q) ==
  LET half == IF DedupSize \div 2 > 1 THEN DedupSize \div 2 ELSE 1
  IN  IF Len(q) > DedupSize THEN SubSeq(q, half + 1, Len(q)) ELSE q

\* _accept_input, then Core._on_input.
Line(m) ==
  /\ ~Contains(mids, m) /\ Len(let) < MaxLines
  /\ mids' = Evicted(Append(mids, m))
  /\ let' = Append(let, m)
  /\ reached' = IF coreUp = "running" THEN reached \cup {Len(let) + 1} ELSE reached
  /\ UNCHANGED coreUp

\* A remembered mid: the line is dropped.
RepeatedLine(m) == Contains(mids, m) /\ UNCHANGED gateVars

CoreStops ==
  /\ coreUp = "running" /\ coreUp' = "stopping"
  /\ UNCHANGED <<mids, let, reached>>

GateNext == CoreStops \/ \E m \in Mid : Line(m) \/ RepeatedLine(m)

GateSpec == GateInit /\ [][GateNext]_gateVars

-----------------------------------------------------------------------------
(* Properties.                                                             *)

\* A line that is sent again reaches the root twice only if more than half of the
\* limit of other lines came between; and as long as the core runs, one that is
\* dropped as a duplicate has reached the root (it is remembered before it is
\* handed over, gateway.py:443).
LinesOnce ==
  /\ \A i, j \in reached : i < j /\ let[i] = let[j] => j - i > DedupSize - DedupSize \div 2
  /\ coreUp = "running" => \A m \in ToSet(mids) : \E i \in reached : let[i] = m
=============================================================================
