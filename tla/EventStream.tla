---------------------------- MODULE EventStream ----------------------------
(***************************************************************************)
(* The event stream from the core to one desktop: the sink (nan/events.py) *)
(* stamps events, keeps a bounded ring in which a stream's deltas are      *)
(* coalesced, and feeds one bounded queue per connection; the gateway      *)
(* (nan/gateway.py) replays the ring to a new connection and then forwards *)
(* its queue; the desktop (frontend kernel) drops what is not above its    *)
(* cursor and folds the rest into its view.  Connections break, a          *)
(* forwarder dies, the page reloads, the core restarts.                    *)
(*                                                                         *)
(* A delta's text is its own sequence number, so that a view shows which   *)
(* deltas it holds and how often.  Every other event is a mark.            *)
(***************************************************************************)
EXTENDS Naturals, Sequences, SequencesExt

CONSTANTS
  Stream,      \* ids of model streams
  RingSize,    \* HISTORY_LIMIT
  QueueSize,   \* SUB_QUEUE_SIZE
  MaxSeq,      \* bound: events per boot
  MaxBoots,    \* bound: starts of the core
  MaxCuts      \* bound: connections broken, forwarders dead, pages reloaded

ASSUME StreamAssumption ==
  /\ "mark" \notin Stream
  /\ RingSize \in Nat \ {0} /\ QueueSize \in Nat \ {0}

VARIABLES
  boot,        \* the core's boot id
  seq,         \* the sink's counter
  ring,        \* the sink's coalesced history
  conn,        \* where _ws_handler is with the desktop's connection
  queue,       \* the connection's subscriber queue
  todo,        \* what is left of the replay
  desk,        \* the desktop: boot, cursor, marks seen, text shown per stream
  cuts,        \* how often something broke the connection
  sent,        \* history: the marks and the deltas emitted since this boot
  lost,        \* history: what a full queue dropped, or left the ring
  torn         \* history: streams a replay's coalesced entry cut across

vars == <<boot, seq, ring, conn, queue, todo, desk, cuts, sent, lost, torn>>

NoText == [s \in Stream |-> <<>>]
NewDesk == [boot |-> 0, last |-> 0, seen |-> {}, text |-> NoText]

Init ==
  /\ boot = 1 /\ seq = 0 /\ ring = <<>>
  /\ conn = "none" /\ queue = <<>> /\ todo = <<>>
  /\ desk = NewDesk
  /\ cuts = 0
  /\ sent = [marks |-> {}, text |-> NoText]
  /\ lost = {} /\ torn = {}

-----------------------------------------------------------------------------
(* The sink.                                                               *)

\* Event n: a delta of stream s, or a mark when s is "mark".
Event(n, s) == [seq |-> n, of |-> s, text |-> IF s = "mark" THEN <<>> ELSE <<n>>]

\* A fault: a delta joins whatever delta came before it.
MergesAnyStream(e) == e.of # "mark" /\ ring # <<>> /\ Last(ring).of # "mark"

\* _merge_stream_delta: a delta joins the last entry when that is of its stream.
Merges(e) == e.of # "mark" /\ ring # <<>> /\ Last(ring).of = e.of

\* The merged entry is a copy of the tail with the longer text: it keeps the
\* tail's seq.
Joined(e) == [Last(ring) EXCEPT !.text = @ \o e.text]

Remembered(e) ==
  IF Merges(e) THEN Front(ring) \o <<Joined(e)>>
  ELSE IF Len(ring) = RingSize THEN Append(Tail(ring), e)
  ELSE Append(ring, e)

Forgotten(e) ==
  IF ~Merges(e) /\ Len(ring) = RingSize THEN {ring[1].seq} \cup Range(ring[1].text) ELSE {}

\* A fault: the queue is there only once the replay is done.
SubscribedLate == conn \in {"live", "stalled"}

Subscribed == conn # "none"

\* A fault: the event that arrives at a full queue is dropped.
QueuedIfRoom(e) == IF Len(queue) = QueueSize THEN queue ELSE Append(queue, e)

\* A full queue drops its oldest event.
Queued(e) == IF Len(queue) = QueueSize THEN Append(Tail(queue), e) ELSE Append(queue, e)

\* What the full queue drops is lost unless the replay is still to come.
Dropped ==
  IF conn \in {"replay", "live", "stalled"} /\ Len(queue) = QueueSize THEN {queue[1].seq} ELSE {}

\* Sink.emit
Emit(s) ==
  /\ seq < MaxSeq
  /\ seq' = seq + 1
  /\ LET e == Event(seq + 1, s)
     IN  /\ ring' = Remembered(e)
         /\ queue' = IF Subscribed THEN Queued(e) ELSE queue
         /\ lost' = lost \cup Forgotten(e) \cup Dropped
         /\ sent' = IF s = "mark" THEN [sent EXCEPT !.marks = @ \cup {e.seq}]
                                  ELSE [sent EXCEPT !.text[s] = Append(@, e.seq)]
  /\ UNCHANGED <<boot, conn, todo, desk, cuts, torn>>

-----------------------------------------------------------------------------
(* The desktop: Hub.ingest and Mapper.feed.                                *)

Ingest(d, e) ==
  IF e.seq <= d.last THEN d
  ELSE IF e.of = "mark" THEN [d EXCEPT !.last = e.seq, !.seen = @ \cup {e.seq}]
  ELSE [d EXCEPT !.last = e.seq, !.text[e.of] = @ \o e.text]

\* hello: another boot voids the view, the same boot keeps view and cursor.
Greeted(d) == IF d.boot = boot THEN d ELSE [NewDesk EXCEPT !.boot = boot]

-----------------------------------------------------------------------------
(* The gateway's connection.                                               *)

\* _ws_handler subscribes before its first await.
Connect ==
  /\ conn = "none"
  /\ conn' = "hello" /\ queue' = <<>>
  /\ UNCHANGED <<boot, seq, ring, todo, desk, cuts, sent, lost, torn>>

Pending == {queue[i].seq : i \in DOMAIN queue}

\* The replayed entry e and the desktop disagree on how far its text goes: the
\* desktop holds its beginning only, or the queue holds some of it again.
Straddles(e) ==
  \E n \in Range(e.text) :
    IF e.seq <= desk.last THEN n > desk.last
                          ELSE n > e.seq /\ n \in Pending

\* hello is sent: the desktop learns the boot before anything else.
Hello ==
  /\ conn = "hello"
  /\ conn' = "greeted"
  /\ desk' = Greeted(desk)
  /\ torn' = IF desk.boot = boot THEN torn ELSE {}
  /\ UNCHANGED <<boot, seq, ring, queue, todo, cuts, sent, lost>>

\* The surface table has been sent too, each send an await in which events go on
\* reaching ring and queue: history() is copied.
Snapshot ==
  /\ conn = "greeted"
  /\ conn' = "replay"
  /\ todo' = ring
  /\ torn' = torn \cup {s \in Stream : \E i \in DOMAIN ring : ring[i].of = s /\ Straddles(ring[i])}
  /\ UNCHANGED <<boot, seq, ring, queue, desk, cuts, sent, lost>>

Replay ==
  /\ conn = "replay"
  /\ IF todo = <<>>
       THEN conn' = "live" /\ UNCHANGED <<todo, desk>>
       ELSE desk' = Ingest(desk, Head(todo)) /\ todo' = Tail(todo) /\ UNCHANGED conn
  /\ UNCHANGED <<boot, seq, ring, queue, cuts, sent, lost, torn>>

\* _forward
Forward ==
  /\ conn = "live" /\ queue # <<>>
  /\ desk' = Ingest(desk, Head(queue))
  /\ queue' = Tail(queue)
  /\ UNCHANGED <<boot, seq, ring, conn, todo, cuts, sent, lost, torn>>

Hangup == conn' = "none" /\ queue' = <<>> /\ todo' = <<>>

\* The socket breaks, or the handler fails: the finally unsubscribes.  The
\* desktop keeps its view and dials again.
Disconnect ==
  /\ conn # "none" /\ cuts < MaxCuts
  /\ Hangup /\ cuts' = cuts + 1
  /\ UNCHANGED <<boot, seq, ring, desk, sent, lost, torn>>

\* A send fails inside _forward: the task ends, the reader goes on.
ForwarderDies ==
  /\ conn = "live" /\ cuts < MaxCuts
  /\ conn' = "stalled" /\ cuts' = cuts + 1
  /\ UNCHANGED <<boot, seq, ring, queue, todo, desk, sent, lost, torn>>

\* _monitor_forwarder finds it done and closes the connection.
MonitorCloses ==
  /\ conn = "stalled"
  /\ Hangup
  /\ UNCHANGED <<boot, seq, ring, desk, cuts, sent, lost, torn>>

\* The page is reloaded: an empty desktop dials.
Reload ==
  /\ cuts < MaxCuts
  /\ desk' = NewDesk /\ torn' = {}
  /\ Hangup /\ cuts' = cuts + 1
  /\ UNCHANGED <<boot, seq, ring, sent, lost>>

\* The core starts again: Sink.reset with another boot id.
CoreRestarts ==
  /\ boot < MaxBoots
  /\ boot' = boot + 1 /\ seq' = 0 /\ ring' = <<>>
  /\ sent' = [marks |-> {}, text |-> NoText] /\ lost' = {}
  /\ Hangup
  /\ UNCHANGED <<desk, cuts, torn>>

Next ==
  \/ \E s \in Stream \cup {"mark"} : Emit(s)
  \/ Connect \/ Hello \/ Snapshot \/ Replay \/ Forward
  \/ Disconnect \/ ForwarderDies \/ MonitorCloses \/ Reload \/ CoreRestarts

\* The desktop dials while it has no connection; the gateway's tasks run.
Fairness == WF_vars(Connect) /\ WF_vars(Hello) /\ WF_vars(Snapshot) /\ WF_vars(Replay)
              /\ WF_vars(Forward) /\ WF_vars(MonitorCloses)

Spec == Init /\ [][Next]_vars
FairSpec == Spec /\ Fairness

-----------------------------------------------------------------------------
(* Properties.                                                             *)

SameBoot == desk.boot = boot

\* The desktop's cursor never passes an event it has not applied, except one
\* that a full queue dropped (events.py:149) or that left the ring before it was
\* replayed: the overlap of replay and queue, and every broken connection, lose
\* nothing.  (Coalescing moves deltas only; the text is the next property's.)
CursorSkipsNothing ==
  SameBoot => \A n \in sent.marks : n <= desk.last => n \in desk.seen \cup lost

\* A stream's text on the desktop is what was emitted up to the cursor, no delta
\* twice and none missing, unless a replay's coalesced entry straddled the
\* desktop's cursor or its queue, or deltas were lost to a bound.
TextIsWhatWasSaid ==
  SameBoot /\ lost = {} =>
    \A s \in Stream \ torn :
      /\ IsPrefix(desk.text[s], sent.text[s])
      /\ \A n \in Range(sent.text[s]) : n <= desk.last => n \in Range(desk.text[s])

\* protocol.md:48: "A consumer drops events at or below its last applied seq",
\* and mapper.ts:5 calls feeding a sequence twice the precondition for replay:
\* with nothing lost, the text shown is the text emitted.
ReplayKeepsText ==
  SameBoot /\ lost = {} => \A s \in Stream : IsPrefix(desk.text[s], sent.text[s])

\* Once nothing breaks any more, the desktop holds everything the core said.
CatchesUp ==
  <>[](SameBoot /\ sent.marks \subseteq desk.seen \cup lost)
=============================================================================
