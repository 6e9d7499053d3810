---------------------------- MODULE RecordStore ----------------------------
(***************************************************************************)
(* The archive of turns (builtin/services/record/store.py and main.py):    *)
(* requests enqueue turns, one writer thread stores them in batches with   *)
(* the counters that describe them, retention deletes the oldest, readers  *)
(* page through the time order.  The writer's memory runs ahead of the     *)
(* disk: every counter is moved before the batch is written.  A write can  *)
(* fail, and the process can die between any two writes.                   *)
(*                                                                         *)
(* A turn weighs one unit, so one counter stands for `turns` and for       *)
(* `total_bytes`; one bucket width stands for hours, days and weeks.       *)
(***************************************************************************)
EXTENDS Naturals, Sequences, FiniteSets, FiniteSetsExt

CONSTANTS
  Author,       \* agents, as numbers: their ids are part of the time order
  Stamp,        \* start times of turns
  BucketSpan,   \* how many start times one rollup bucket covers
  QueueLimit,   \* queue size
  BatchSize,    \* turns of one batch
  MaxKept,      \* max_bytes, in turns
  PruneTo,      \* prune_to * max_bytes, in turns
  PageSize,     \* limit of one ledger page
  MaxTurns,     \* bound: turns handed in
  MaxFaults     \* bound: failed writes, crashes, stops

\* A limit of 0 keeps everything: there is nothing to prune then.
ASSUME RecordAssumption ==
  /\ Author \subseteq Nat /\ Stamp \subseteq Nat \ {0} /\ BucketSpan \in Nat \ {0}
  /\ QueueLimit \in Nat \ {0} /\ BatchSize \in Nat /\ PageSize \in Nat \ {0}
  /\ MaxKept \in Nat \ {0} /\ PruneTo \in 0..MaxKept
  /\ MaxTurns \in Nat /\ MaxFaults \in Nat

VARIABLES
  inbox,        \* the writer's queue
  mem,          \* the counters in memory
  disk,         \* the counters on disk
  rows,         \* the turns on disk, T and X together
  stage,        \* the store: open, locked between a batch and its prune, or closed
  stopping,     \* the writer's sentinel is in the queue
  handed,       \* turns handed in so far
  faults,       \* how often something went wrong
  reader,       \* a client paging the ledger: cursor, rows it holds, rows written behind it
  astray,       \* history: a write failed since the store was opened, or before
  overdue       \* history: a prune has not been done

recordVars == <<inbox, mem, disk, rows, stage, stopping, handed, faults, reader, astray, overdue>>

Start == [agent |-> 0, stamp |-> 0, seq |-> 0]
NewReader == [at |-> Start, seen |-> {}, behind |-> {}]

Bucket(t) == t \div BucketSpan
Buckets == {Bucket(t) : t \in Stamp}
NoRolls == [b \in Buckets |-> 0]

Nothing == [total |-> 0, first |-> 0, last |-> 0, mark |-> 0, rolls |-> NoRolls,
            next |-> [a \in Author |-> 0]]

\* The key order of X: start time, agent, sequence number.
Before(r, q) ==
  \/ r.stamp < q.stamp
  \/ r.stamp = q.stamp /\ r.agent < q.agent
  \/ r.stamp = q.stamp /\ r.agent = q.agent /\ r.seq < q.seq

\* The n first of R.
First(R, n) == {r \in R : Cardinality({q \in R : Before(q, r)}) < n}

\* Fewer, if R has not as many.
AtMost(n, R) == IF n < Cardinality(R) THEN n ELSE Cardinality(R)

\* An archive written before rollups and time bounds existed.
Old(a, t) == [Nothing EXCEPT !.total = 1, !.next[a] = 1]

RecordInit ==
  /\ inbox = <<>> /\ stage = "closed" /\ stopping = FALSE /\ mem = Nothing
  /\ \/ disk = Nothing /\ rows = {}
     \/ \E a \in Author, t \in Stamp : disk = Old(a, t) /\ rows = {[agent |-> a, stamp |-> t, seq |-> 0]}
  /\ handed = 0 /\ faults = 0 /\ reader = NewReader
  /\ astray = FALSE /\ overdue = FALSE

-----------------------------------------------------------------------------
(* Opening.                                                                *)

InBucket(R, b) == {r \in R : Bucket(r.stamp) = b}

\* _backfill_rollups: one walk of X.
Backfilled(c) ==
  [c EXCEPT !.rolls = [b \in Buckets |-> Cardinality(InBucket(rows, b))],
            !.first = Min({r.stamp : r \in rows}),
            !.last = Max({r.stamp : r \in rows})]

\* _load_state: the cursors go on from each agent's count.
Open ==
  /\ stage = "closed"
  /\ stage' = "open"
  /\ LET backfill == disk.total > 0 /\ disk.rolls = NoRolls /\ rows # {}
         loaded == IF backfill THEN Backfilled(disk) ELSE disk
     IN  mem' = loaded /\ disk' = loaded
  /\ inbox' = <<>>
  /\ UNCHANGED <<rows, stopping, handed, faults, reader, astray, overdue>>

-----------------------------------------------------------------------------
(* Writing.                                                                *)

\* TurnStore.ingest: a full queue refuses the arriving turn.
IngestTurn(a, t) ==
  /\ stage # "closed" /\ ~stopping /\ handed < MaxTurns
  /\ handed' = handed + 1
  /\ inbox' = IF Len(inbox) = QueueLimit THEN inbox ELSE Append(inbox, [agent |-> a, stamp |-> t])
  /\ UNCHANGED <<mem, disk, rows, stage, stopping, faults, reader, astray, overdue>>

\* The first n turns of the queue, and those of them that satisfy P.
Count(n, P(_)) == Cardinality({i \in 1..n : P(inbox[i])})

\* A fault: sequence numbers start from what is on file.
NumberFromDisk(i) ==
  LET a == inbox[i].agent
  IN  Cardinality({r \in rows : r.agent = a}) + Count(i - 1, LAMBDA p : p.agent = a)

\* The sequence number of the i-th: its agent's next, after those before it.
Number(i) ==
  LET a == inbox[i].agent IN mem.next[a] + Count(i - 1, LAMBDA p : p.agent = a)

NewRows(n) == {[agent |-> inbox[i].agent, stamp |-> inbox[i].stamp, seq |-> Number(i)] : i \in 1..n}

\* Every counter, moved by the n turns of a batch; a bound of 0 is none yet.
Tallied(n) ==
  LET stamps == {inbox[i].stamp : i \in 1..n}
  IN  [mem EXCEPT !.total = @ + n,
                  !.first = Min(stamps \cup ({@} \ {0})),
                  !.last = Max(stamps \cup {@}),
                  !.rolls = [b \in Buckets |-> @[b] + Count(n, LAMBDA p : Bucket(p.stamp) = b)],
                  !.next = [a \in Author |-> @[a] + Count(n, LAMBDA p : p.agent = a)]]

Taken(n) == n \in 1..Len(inbox) /\ n <= BatchSize

\* _write_batch up to its db.write, which is atomic; the lock is kept for the prune.
WriteBatch(n) ==
  /\ stage = "open" /\ Taken(n)
  /\ inbox' = SubSeq(inbox, n + 1, Len(inbox))
  /\ mem' = Tallied(n)
  /\ disk' = Tallied(n)
  /\ rows' = rows \cup NewRows(n)
  /\ reader' = [reader EXCEPT !.behind = @ \cup {r \in NewRows(n) : Before(r, reader.at)}]
  /\ stage' = IF Tallied(n).total > MaxKept THEN "locked" ELSE "open"
  /\ overdue' = (Tallied(n).total > MaxKept)
  /\ UNCHANGED <<stopping, handed, faults, astray>>

\* db.write raises: the batch is gone, memory keeps what it counted.
WriteFails(n) ==
  /\ stage = "open" /\ Taken(n) /\ faults < MaxFaults
  /\ inbox' = SubSeq(inbox, n + 1, Len(inbox))
  /\ mem' = Tallied(n)
  /\ faults' = faults + 1
  /\ astray' = TRUE
  /\ UNCHANGED <<disk, rows, stage, stopping, handed, reader, overdue>>

-----------------------------------------------------------------------------
(* Retention.                                                              *)

\* A fault: the walk starts above the watermark's own start time.
WalkAbove == {r \in rows : r.stamp > mem.mark}

\* _water_start: the walk begins at the watermark, turns of its start time included.
Walk == {r \in rows : r.stamp >= mem.mark}

\* How many turns go before the walk is at the target or at its end.
Excess == AtMost(mem.total - PruneTo, Walk)

Victims == First(Walk, Excess)

\* A fault: the rollups keep counting what was deleted.
PrunedKeepingRolls(c) ==
  LET mark == Max({r.stamp : r \in Victims})
  IN  [c EXCEPT !.total = @ - Excess, !.mark = mark, !.first = mark]

\* Every counter without the victims; the axis starts at the watermark.
Pruned(c) ==
  LET mark == Max({r.stamp : r \in Victims})
  IN  [c EXCEPT !.total = @ - Excess, !.mark = mark, !.first = mark,
                !.rolls = [b \in Buckets |->
                   LET gone == Cardinality(InBucket(Victims, b))
                   IN  IF @[b] > gone THEN @[b] - gone ELSE 0]]

\* _prune_locked, a write of its own; with nothing to walk it writes nothing.
Prune ==
  /\ stage = "locked"
  /\ stage' = "open" /\ overdue' = FALSE
  /\ IF Walk = {} THEN UNCHANGED <<mem, disk, rows>>
     ELSE mem' = Pruned(mem) /\ disk' = Pruned(mem) /\ rows' = rows \ Victims
  /\ UNCHANGED <<inbox, stopping, handed, faults, reader, astray>>

PruneFails ==
  /\ stage = "locked" /\ faults < MaxFaults /\ Walk # {}
  /\ stage' = "open"
  /\ mem' = Pruned(mem)
  /\ faults' = faults + 1 /\ astray' = TRUE
  /\ UNCHANGED <<inbox, disk, rows, stopping, handed, reader, overdue>>

-----------------------------------------------------------------------------
(* Ends, and the reader.                                                   *)

\* The process dies: memory and queue are gone.
Die ==
  /\ stage # "closed" /\ faults < MaxFaults
  /\ stage' = "closed" /\ stopping' = FALSE /\ inbox' = <<>> /\ mem' = Nothing
  /\ faults' = faults + 1
  /\ UNCHANGED <<disk, rows, handed, reader, astray, overdue>>

\* TurnStore.stop: a full queue gives up its oldest turn for the sentinel.
Stop ==
  /\ stage # "closed" /\ ~stopping /\ faults < MaxFaults
  /\ inbox' = IF Len(inbox) = QueueLimit THEN Tail(inbox) ELSE inbox
  /\ stopping' = TRUE /\ faults' = faults + 1
  /\ UNCHANGED <<mem, disk, rows, stage, handed, reader, astray, overdue>>

\* The writer has reached the sentinel: flush and close.
Close ==
  /\ stage = "open" /\ stopping /\ inbox = <<>>
  /\ stage' = "closed" /\ stopping' = FALSE /\ mem' = Nothing
  /\ UNCHANGED <<inbox, disk, rows, handed, faults, reader, astray, overdue>>

\* A fault: the cursor is a start time only.
AfterStamp == {r \in rows : r.stamp > reader.at.stamp}

AfterCursor == {r \in rows : Before(reader.at, r)}

\* Rows of the next ledger page.
Page == First(AfterCursor, PageSize)

LastOf(P) == CHOOSE p \in P : \A q \in P : q = p \/ Before(q, p)

\* TurnStore.ledger, under the lock: a full page moves the cursor, a short one
\* is taken for the end.
LedgerPage ==
  /\ stage = "open" /\ Cardinality(Page) = PageSize
  /\ reader' = [reader EXCEPT !.at = LastOf(Page), !.seen = @ \cup Page]
  /\ UNCHANGED <<inbox, mem, disk, rows, stage, stopping, handed, faults, astray, overdue>>

LedgerEnds ==
  /\ stage = "open" /\ Cardinality(Page) < PageSize /\ reader # NewReader
  /\ reader' = NewReader
  /\ UNCHANGED <<inbox, mem, disk, rows, stage, stopping, handed, faults, astray, overdue>>

RecordNext ==
  \/ Open
  \/ \E a \in Author, t \in Stamp : IngestTurn(a, t)
  \/ \E n \in 1..BatchSize : WriteBatch(n) \/ WriteFails(n)
  \/ Prune \/ PruneFails \/ Die \/ Stop \/ Close
  \/ LedgerPage \/ LedgerEnds

RecordSpec == RecordInit /\ [][RecordNext]_recordVars

-----------------------------------------------------------------------------
(* Properties.                                                             *)

\* The counters on disk describe the rows on disk, whatever crash, stop or late
\* turn came between a batch and its prune: the totals, each rollup, the bounds of
\* the time axis over all that retention still walks; and no sequence number is
\* given twice.  A failed write is excepted for the totals (memory stays ahead
\* and later batches persist it, store.py:615), never for the numbers.
CountersMatchRows ==
  /\ \A r, q \in rows : r.agent = q.agent /\ r.seq = q.seq => r = q
  /\ \A r \in rows : r.seq < disk.next[r.agent]
  /\ ~astray => disk.total = Cardinality(rows)
  /\ ~astray /\ stage # "closed" =>
       /\ \A b \in Buckets : disk.rolls[b] = Cardinality(InBucket(rows, b))
       /\ \A r \in rows : r.stamp <= disk.last /\ (r.stamp >= disk.mark => disk.first <= r.stamp)
       /\ mem = disk

\* Retention bounds what is stored once a batch is through, except by turns that
\* were handed in after the watermark had passed their start time, which no
\* walk reaches any more.
RetentionHolds ==
  stage = "open" /\ ~astray /\ ~overdue =>
    \/ Cardinality(rows) <= MaxKept
    \/ \A r \in rows : r.stamp < disk.mark

\* The archive describes itself truly and stays within its limit.
ArchiveIsSound == CountersMatchRows /\ RetentionHolds

\* A client that pages the ledger to its end gets no row twice and misses none
\* that is stored, but for those written behind its cursor while it paged.
LedgerReadsOnce ==
  [][(LedgerPage \/ LedgerEnds) =>
       /\ Page \cap reader.seen = {}
       /\ LedgerEnds => rows \subseteq reader.seen \cup Page \cup reader.behind]_recordVars
=============================================================================
