---------------------------- MODULE StreamProofs ----------------------------
(***************************************************************************)
(* Theorems about EventStream: what a desktop has not seen is still on its *)
(* way to it, and the text it shows is the text that was emitted, for any  *)
(* number of streams, events, cuts and starts.                             *)
(***************************************************************************)
EXTENDS EventStream, TLAPS

\* Where the handler has told the desktop the boot, and where it feeds it.
Told == conn \in {"greeted", "replay", "live", "stalled"}
Fed == conn \in {"replay", "live", "stalled"}

\* What the sink, the gateway and the desktop hold of one event or more.
Entry == [seq : Nat, of : Stream \cup {"mark"}, text : Seq(Nat)]
Numbers(e) == {e.seq} \cup Range(e.text)

StreamTypeOK ==
  /\ boot \in Nat \ {0} /\ seq \in Nat
  /\ conn \in {"none", "hello", "greeted", "replay", "live", "stalled"}
  /\ ring \in Seq(Entry) /\ queue \in Seq(Entry) /\ todo \in Seq(Entry)
  /\ desk \in [boot : Nat, last : Nat, seen : SUBSET Nat, text : [Stream -> Seq(Nat)]]
  /\ sent \in [marks : SUBSET Nat, text : [Stream -> Seq(Nat)]]
  /\ lost \subseteq Nat /\ torn \subseteq Stream

\* Events are numbered from 1 on in the order they were emitted.
SentInv ==
  /\ \A n \in sent.marks : 0 < n /\ n <= seq
  /\ \A s \in Stream : \A i \in DOMAIN sent.text[s] :
       /\ 0 < sent.text[s][i] /\ sent.text[s][i] <= seq /\ sent.text[s][i] \notin sent.marks
       /\ \A j \in DOMAIN sent.text[s] : i < j => sent.text[s][i] < sent.text[s][j]

\* An entry is a mark, or a piece of its stream that begins with its own number.
Piece(e) ==
  \E a \in Nat :
    /\ a + Len(e.text) <= Len(sent.text[e.of])
    /\ \A k \in 1..Len(e.text) : e.text[k] = sent.text[e.of][a + k]

Said(e) ==
  /\ e.of = "mark" => e.text = <<>> /\ e.seq \in sent.marks
  /\ e.of # "mark" => e.text # <<>> /\ e.text[1] = e.seq /\ Piece(e)

\* Entries follow each other.
Ordered(q) == \A i, j \in DOMAIN q : i < j => \A n \in Numbers(q[i]) : n < q[j].seq

RingInv ==
  /\ \A i \in DOMAIN ring : Said(ring[i])
  /\ Ordered(ring)
  /\ ring # <<>> => seq \in Numbers(Last(ring))
  /\ \A n \in sent.marks : n \in lost \/ \E i \in DOMAIN ring : ring[i].seq = n
  /\ \A s \in Stream : \A k \in DOMAIN sent.text[s] :
       \/ sent.text[s][k] \in lost
       \/ \E i \in DOMAIN ring : ring[i].of = s /\ sent.text[s][k] \in Range(ring[i].text)

\* The queue holds events as they were emitted.
QueueInv ==
  /\ \A i \in DOMAIN queue : Said(queue[i]) /\ Range(queue[i].text) \subseteq {queue[i].seq}
  /\ Ordered(queue)
  /\ conn = "none" => queue = <<>>

\* The replay is of entries the ring still has, if longer by now.
TodoInv ==
  /\ \A j \in DOMAIN todo : Said(todo[j])
  /\ Ordered(todo)
  /\ conn # "replay" => todo = <<>>
  /\ lost = {} => \A j \in DOMAIN todo : \E i \in DOMAIN ring :
       ring[i].seq = todo[j].seq /\ ring[i].of = todo[j].of /\ Range(todo[j].text) \subseteq Range(ring[i].text)

\* The desktop and the core.
BootInv ==
  /\ desk.boot <= boot
  /\ Told => SameBoot
  /\ SameBoot => desk.last <= seq

\* Event n waits in the queue behind the replay.
Behind(n) == \A j \in DOMAIN todo : \A m \in Numbers(todo[j]) : m < n

CursorInv ==
  SameBoot => \A n \in sent.marks :
    /\ n <= desk.last => n \in desk.seen \cup lost
    /\ desk.last < n /\ Fed =>
         \/ n \in lost
         \/ \E j \in DOMAIN todo : todo[j].seq = n
         \/ \E i \in DOMAIN queue : queue[i].seq = n /\ Behind(n)

\* How the text of stream s on the desktop relates to what was emitted, to the ring, ...
Kept(s) ==
  /\ Len(desk.text[s]) <= Len(sent.text[s])
  /\ \A k \in 1..Len(desk.text[s]) :
       /\ desk.text[s][k] = sent.text[s][k]
       /\ \/ sent.text[s][k] <= desk.last
          \/ \E i \in DOMAIN ring :
               ring[i].of = s /\ ring[i].seq <= desk.last /\ sent.text[s][k] \in Range(ring[i].text)
  /\ \A k \in DOMAIN sent.text[s] : sent.text[s][k] <= desk.last => k <= Len(desk.text[s])

\* ... and to what is on its way.
Coming(s) ==
  /\ \A k \in DOMAIN sent.text[s] : Len(desk.text[s]) < k =>
       \/ \E j \in DOMAIN todo : todo[j].of = s /\ sent.text[s][k] \in Range(todo[j].text)
       \/ \E i \in DOMAIN queue : queue[i].of = s /\ queue[i].seq = sent.text[s][k] /\ Behind(sent.text[s][k])
  /\ \A i \in DOMAIN queue :
       queue[i].of = s /\ desk.last < queue[i].seq => queue[i].seq \notin Range(desk.text[s])
  /\ \A j \in DOMAIN todo : todo[j].of = s => \A n \in Range(todo[j].text) :
       /\ todo[j].seq <= desk.last => n <= desk.last
       /\ desk.last < todo[j].seq => n \notin Range(desk.text[s])
       /\ desk.last < todo[j].seq /\ todo[j].seq < n => \A i \in DOMAIN queue : queue[i].seq # n

TextInv ==
  SameBoot /\ lost = {} => \A s \in Stream \ torn : Kept(s) /\ (Fed => Coming(s))

StreamInv ==
  /\ StreamTypeOK /\ SentInv /\ RingInv /\ QueueInv /\ TodoInv /\ BootInv
  /\ CursorInv /\ TextInv

LEMMA StreamInitHolds == Init => StreamInv
<1> SUFFICES ASSUME Init PROVE StreamInv
  OBVIOUS
<1> USE DEF Init, NoText, NewDesk
<1>0. \A S : <<>> \in Seq(S) /\ Len(<<>>) = 0 /\ DOMAIN <<>> = {}
  OBVIOUS
<1>1. StreamTypeOK
  <2>1. [s \in Stream |-> <<>>] \in [Stream -> Seq(Nat)]
    BY <1>0
  <2>2. ring \in Seq(Entry) /\ queue \in Seq(Entry) /\ todo \in Seq(Entry)
    BY <1>0
  <2> QED
    BY <2>1, <2>2 DEF StreamTypeOK
<1>2. \A s \in Stream : sent.text[s] = <<>> /\ desk.text[s] = <<>>
  OBVIOUS
<1>3. SentInv /\ RingInv
  BY <1>0, <1>2 DEF SentInv, RingInv, Ordered
<1>4. QueueInv /\ TodoInv /\ BootInv
  BY <1>0 DEF QueueInv, TodoInv, BootInv, Ordered, Told, SameBoot
<1>5. CursorInv /\ TextInv
  BY DEF CursorInv, TextInv, SameBoot
<1> QED
  BY <1>1, <1>3, <1>4, <1>5 DEF StreamInv

------------------------------------------------------------------------------
(* Entries and sequences of them.                                          *)

\* The numbers of an entry, in the terms of its sequence.
LEMMA NumbersOf ==
  ASSUME NEW e \in Entry
  PROVE  /\ e.seq \in Nat /\ e.of \in Stream \cup {"mark"} /\ e.text \in Seq(Nat)
         /\ Range(e.text) = {e.text[k] : k \in 1..Len(e.text)}
         /\ Numbers(e) \subseteq Nat
BY DEF Entry, Numbers, Range

\* What follows for an entry that is a piece of what was emitted.
LEMMA SaidParts ==
  ASSUME StreamTypeOK, SentInv, NEW e \in Entry, Said(e)
  PROVE  /\ 0 < e.seq /\ e.seq <= seq
         /\ e.of = "mark" => Numbers(e) = {e.seq} /\ e.seq \in sent.marks
         /\ e.of # "mark" => e.seq \notin sent.marks /\ e.seq \in Range(e.text)
         /\ \A n \in Numbers(e) : e.seq <= n /\ n <= seq
         /\ \A n \in Range(e.text) : n \notin sent.marks /\ \E k \in DOMAIN sent.text[e.of] : n = sent.text[e.of][k]
<1>0. /\ e.seq \in Nat /\ e.of \in Stream \cup {"mark"} /\ e.text \in Seq(Nat)
      /\ Range(e.text) = {e.text[k] : k \in 1..Len(e.text)}
  BY NumbersOf
<1>1. CASE e.of = "mark"
  <2>1. e.text = <<>> /\ e.seq \in sent.marks
    BY <1>1 DEF Said
  <2>2. Range(e.text) = {}
    BY <1>0, <2>1
  <2> QED
    BY <1>0, <1>1, <2>1, <2>2 DEF SentInv, Numbers
<1>2. CASE e.of # "mark"
  <2>0. e.of \in Stream /\ sent.text[e.of] \in Seq(Nat)
    BY <1>0, <1>2 DEF StreamTypeOK
  <2>1. PICK a \in Nat : /\ a + Len(e.text) <= Len(sent.text[e.of])
                         /\ \A k \in 1..Len(e.text) : e.text[k] = sent.text[e.of][a + k]
    BY <1>2 DEF Said, Piece
  <2>2. e.text # <<>> /\ e.text[1] = e.seq
    BY <1>2 DEF Said
  <2>3. Len(e.text) >= 1 /\ Len(e.text) \in Nat /\ Len(sent.text[e.of]) \in Nat
    BY <1>0, <2>0, <2>2
  <2>4. PICK t : t = sent.text[e.of]
    OBVIOUS
  <2>5. /\ t \in Seq(Nat) /\ \A i \in DOMAIN t : t[i] \in Nat /\ 0 < t[i] /\ t[i] <= seq /\ t[i] \notin sent.marks
        /\ \A i, j \in DOMAIN t : i < j => t[i] < t[j]
        /\ \A k \in 1..Len(e.text) : a + k \in DOMAIN t /\ e.text[k] = t[a + k]
    BY <2>0, <2>1, <2>4 DEF SentInv
  <2>6. 1 \in 1..Len(e.text)
    BY <2>3
  <2>7. \A k \in 1..Len(e.text) :
          /\ e.seq <= e.text[k] /\ 0 < e.text[k] /\ e.text[k] <= seq /\ e.text[k] \notin sent.marks
          /\ \E i \in DOMAIN t : e.text[k] = t[i]
    <3> SUFFICES ASSUME NEW k \in 1..Len(e.text)
                 PROVE  /\ e.seq <= e.text[k] /\ 0 < e.text[k] /\ e.text[k] <= seq /\ e.text[k] \notin sent.marks
                        /\ \E i \in DOMAIN t : e.text[k] = t[i]
      OBVIOUS
    <3>1. k = 1 \/ a + 1 < a + k
      BY <2>1
    <3>2. PICK i \in DOMAIN t, j \in DOMAIN t : i = a + 1 /\ j = a + k
      BY <2>5, <2>6
    <3>3. t[i] <= t[j] /\ e.text[1] = t[i] /\ e.text[k] = t[j]
      BY <2>5, <2>6, <3>1, <3>2, SMTT(30)
    <3> QED
      BY <2>2, <2>5, <2>6, <3>3
  <2>8. e.seq \in Range(e.text)
    BY <1>0, <2>2, <2>6
  <2>9. 0 < e.seq /\ e.seq <= seq /\ e.seq \notin sent.marks
    BY <2>2, <2>6, <2>7
  <2>10. \A n \in Range(e.text) :
           /\ e.seq <= n /\ n <= seq /\ n \notin sent.marks
           /\ \E i \in DOMAIN t : n = t[i]
    BY <1>0, <2>7
  <2>11. \A n \in Numbers(e) : e.seq <= n /\ n <= seq
    BY <1>0, <2>9, <2>10 DEF Numbers
  <2> QED
    BY <1>2, <2>4, <2>8, <2>9, <2>10, <2>11
<1> QED
  BY <1>1, <1>2

LEMMA TailParts ==
  ASSUME NEW q \in Seq(Entry), q # <<>>
  PROVE  /\ Tail(q) \in Seq(Entry) /\ Len(Tail(q)) = Len(q) - 1 /\ Head(q) = q[1] /\ q[1] \in Entry
         /\ 1 \in DOMAIN q
         /\ \A i \in DOMAIN Tail(q) : i + 1 \in DOMAIN q /\ Tail(q)[i] = q[i + 1]
         /\ \A i \in DOMAIN q : i = 1 \/ (i - 1 \in DOMAIN Tail(q) /\ q[i] = Tail(q)[i - 1])
         /\ Ordered(q) => Ordered(Tail(q)) /\ \A i \in DOMAIN Tail(q) : \A n \in Numbers(q[1]) : n < Tail(q)[i].seq
<1>1. /\ Tail(q) \in Seq(Entry) /\ Len(Tail(q)) = Len(q) - 1 /\ Head(q) = q[1] /\ q[1] \in Entry
      /\ 1 \in DOMAIN q
      /\ \A i \in DOMAIN Tail(q) : i \in Nat /\ i + 1 \in DOMAIN q /\ 1 < i + 1 /\ Tail(q)[i] = q[i + 1]
      /\ \A i \in DOMAIN q : i = 1 \/ (i - 1 \in DOMAIN Tail(q) /\ q[i] = Tail(q)[i - 1])
  OBVIOUS
<1>2. ASSUME Ordered(q)
      PROVE  Ordered(Tail(q)) /\ \A i \in DOMAIN Tail(q) : \A n \in Numbers(q[1]) : n < Tail(q)[i].seq
  <2>1. \A i, j \in DOMAIN Tail(q) : i < j => i + 1 < j + 1
    BY <1>1
  <2> QED
    BY <1>1, <1>2, <2>1 DEF Ordered
<1> QED
  BY <1>1, <1>2

LEMMA AppendParts ==
  ASSUME NEW q \in Seq(Entry), NEW e \in Entry
  PROVE  /\ Append(q, e) \in Seq(Entry) /\ DOMAIN Append(q, e) = DOMAIN q \cup {Len(q) + 1}
         /\ Len(q) \in Nat /\ DOMAIN q = 1..Len(q) /\ Len(q) + 1 \notin DOMAIN q
         /\ Append(q, e)[Len(q) + 1] = e /\ Last(Append(q, e)) = e
         /\ \A i \in DOMAIN q : Append(q, e)[i] = q[i]
         /\ Ordered(q) /\ (\A i \in DOMAIN q : \A n \in Numbers(q[i]) : n < e.seq) => Ordered(Append(q, e))
<1>1. /\ Append(q, e) \in Seq(Entry) /\ DOMAIN Append(q, e) = DOMAIN q \cup {Len(q) + 1}
      /\ Len(q) \in Nat /\ DOMAIN q = 1..Len(q) /\ Len(q) + 1 \notin DOMAIN q
      /\ Append(q, e)[Len(q) + 1] = e /\ Len(Append(q, e)) = Len(q) + 1
      /\ \A i \in DOMAIN q : Append(q, e)[i] = q[i]
  OBVIOUS
<1>2. ASSUME Ordered(q), \A i \in DOMAIN q : \A n \in Numbers(q[i]) : n < e.seq
      PROVE  Ordered(Append(q, e))
  <2> DEFINE r == Append(q, e)
  <2> SUFFICES ASSUME NEW i \in DOMAIN r, NEW j \in DOMAIN r, i < j, NEW n \in Numbers(r[i])
               PROVE  n < r[j].seq
    BY DEF Ordered
  <2>1. i \in DOMAIN q /\ r[i] = q[i]
    BY <1>1
  <2> QED
    BY <1>1, <1>2, <2>1 DEF Ordered
<1> QED
  BY <1>1, <1>2 DEF Last

------------------------------------------------------------------------------
(* Steps that emit nothing.                                                *)

LEMMA SinkStands ==
  ASSUME SentInv, RingInv, UNCHANGED <<seq, ring, sent, lost>>
  PROVE  SentInv' /\ RingInv' /\ (\A e : Said(e) <=> Said(e)') /\ (\A s \in Stream : Kept(s) /\ UNCHANGED desk => Kept(s)')
BY DEF SentInv, RingInv, Said, Piece, Kept

LEMMA NoEntries ==
  /\ \A S : <<>> \in Seq(S)
  /\ Len(<<>>) = 0 /\ DOMAIN <<>> = {} /\ Ordered(<<>>)
BY DEF Ordered

\* The connection ends, or begins: nothing is queued, nothing is replayed.
LEMMA CutStep ==
  ASSUME StreamInv, queue' = <<>>, todo' = <<>>, conn' \in {"none", "hello"},
         UNCHANGED <<boot, seq, ring, desk, sent, lost, torn>>
  PROVE  StreamInv'
<1>1. StreamTypeOK'
  BY NoEntries DEF StreamInv, StreamTypeOK
<1>2. SentInv' /\ RingInv' /\ \A s \in Stream : Kept(s) => Kept(s)'
  BY SinkStands DEF StreamInv
<1>3. QueueInv' /\ TodoInv' /\ BootInv'
  BY NoEntries DEF StreamInv, QueueInv, TodoInv, BootInv, Told, SameBoot
<1>4. CursorInv' /\ TextInv'
  BY <1>2 DEF StreamInv, CursorInv, TextInv, Fed, SameBoot
<1> QED
  BY <1>1, <1>2, <1>3, <1>4 DEF StreamInv

LEMMA ForwarderStep == ASSUME StreamInv, ForwarderDies PROVE StreamInv'
<1> USE DEF ForwarderDies
<1>1. StreamTypeOK'
  BY DEF StreamInv, StreamTypeOK
<1>2. SentInv' /\ RingInv' /\ (\A e : Said(e) <=> Said(e)') /\ \A s \in Stream : Kept(s) => Kept(s)'
  BY SinkStands DEF StreamInv
<1>3. QueueInv' /\ TodoInv' /\ BootInv'
  BY <1>2 DEF StreamInv, QueueInv, TodoInv, BootInv, Told, SameBoot
<1>4. CursorInv'
  BY DEF StreamInv, CursorInv, Fed, SameBoot, Behind
<1>5. TextInv'
  BY <1>2 DEF StreamInv, TextInv, Fed, SameBoot, Coming, Behind
<1> QED
  BY <1>1, <1>2, <1>3, <1>4, <1>5 DEF StreamInv

\* A desktop that knows another boot, or none, is promised nothing.
LEMMA StrangerStep ==
  ASSUME StreamInv, Reload \/ CoreRestarts PROVE StreamInv'
<1>1. /\ queue' = <<>> /\ todo' = <<>> /\ conn' = "none"
      /\ boot' \in Nat \ {0} /\ desk'.boot < boot'
  BY DEF Reload, CoreRestarts, Hangup, NewDesk, StreamInv, BootInv, StreamTypeOK
<1>2. StreamTypeOK' /\ SentInv' /\ RingInv'
  <2>1. CASE Reload
    <3>1. desk' \in [boot : Nat, last : Nat, seen : SUBSET Nat, text : [Stream -> Seq(Nat)]]
      BY <2>1, NoEntries DEF Reload, NewDesk, NoText
    <3> QED
      BY <1>1, <2>1, <3>1, NoEntries, SinkStands DEF Reload, StreamInv, StreamTypeOK
  <2>2. CASE CoreRestarts
    <3>1. /\ sent' \in [marks : SUBSET Nat, text : [Stream -> Seq(Nat)]]
          /\ sent'.marks = {} /\ \A s \in Stream : sent'.text[s] = <<>>
      BY <2>2, NoEntries DEF CoreRestarts, NoText
    <3> QED
      BY <1>1, <2>2, <3>1, NoEntries DEF CoreRestarts, StreamInv, StreamTypeOK, SentInv, RingInv
  <2> QED
    BY <2>1, <2>2
<1>3. QueueInv' /\ TodoInv' /\ BootInv'
  BY <1>1, <1>2, NoEntries DEF QueueInv, TodoInv, BootInv, Told, SameBoot, StreamTypeOK
<1>4. CursorInv' /\ TextInv'
  <2>1. ~SameBoot'
    BY <1>1, <1>2 DEF SameBoot, StreamTypeOK
  <2> QED
    BY <2>1 DEF CursorInv, TextInv
<1> QED
  BY <1>2, <1>3, <1>4 DEF StreamInv

LEMMA HelloStep == ASSUME StreamInv, Hello PROVE StreamInv'
<1> USE DEF Hello
<1>1. SentInv' /\ RingInv' /\ (\A e : Said(e) <=> Said(e)') /\ \A s \in Stream : UNCHANGED desk /\ Kept(s) => Kept(s)'
  BY SinkStands DEF StreamInv
<1>2. QueueInv' /\ TodoInv'
  BY <1>1 DEF StreamInv, QueueInv, TodoInv
<1>3. conn' = "greeted" /\ ~Fed'
  BY DEF Fed
<1>4. CASE SameBoot
  <2>1. UNCHANGED <<desk, torn>>
    BY <1>4 DEF Greeted, SameBoot
  <2> QED
    BY <1>1, <1>2, <1>3, <1>4, <2>1 DEF StreamInv, StreamTypeOK, BootInv, CursorInv, TextInv, SameBoot
<1>5. CASE ~SameBoot
  <2>1. /\ desk' \in [boot : Nat, last : Nat, seen : SUBSET Nat, text : [Stream -> Seq(Nat)]]
        /\ desk'.boot = boot /\ desk'.last = 0 /\ \A s \in Stream : desk'.text[s] = <<>>
    <3>1. NoText \in [Stream -> Seq(Nat)] /\ \A s \in Stream : NoText[s] = <<>>
      BY NoEntries DEF NoText
    <3>2. desk' = [NewDesk EXCEPT !.boot = boot] /\ boot \in Nat
      BY <1>5 DEF Greeted, SameBoot, StreamInv, StreamTypeOK
    <3> QED
      BY <3>1, <3>2 DEF NewDesk
  <2>2. StreamTypeOK' /\ BootInv'
    BY <2>1 DEF StreamInv, StreamTypeOK, BootInv, Told, SameBoot
  <2>3. CursorInv'
    BY <1>3, <2>1 DEF StreamInv, SentInv, StreamTypeOK, CursorInv
  <2>4. \A s \in Stream : Kept(s)'
    <3> SUFFICES ASSUME NEW s \in Stream PROVE Kept(s)'
      OBVIOUS
    <3>1. /\ sent' = sent /\ sent.text[s] \in Seq(Nat) /\ Len(desk'.text[s]) = 0
          /\ \A k \in DOMAIN sent.text[s] : 0 < sent.text[s][k] /\ sent.text[s][k] \in Nat
      BY <2>1, NoEntries, SMTT(30) DEF StreamInv, SentInv, StreamTypeOK
    <3> QED
      BY <2>1, <3>1 DEF Kept
  <2> QED
    BY <1>1, <1>2, <1>3, <2>2, <2>3, <2>4 DEF StreamInv, TextInv
<1> QED
  BY <1>4, <1>5

LEMMA Shapes ==
  ASSUME StreamTypeOK
  PROVE  /\ seq \in Nat /\ desk.last \in Nat
         /\ \A i \in DOMAIN ring : i \in Nat /\ ring[i] \in Entry
         /\ \A i \in DOMAIN queue : i \in Nat /\ queue[i] \in Entry
         /\ \A i \in DOMAIN todo : i \in Nat /\ todo[i] \in Entry
         /\ \A s \in Stream : desk.text[s] \in Seq(Nat) /\ sent.text[s] \in Seq(Nat)
BY DEF StreamTypeOK

LEMMA RangeOf ==
  ASSUME NEW q \in Seq(Nat)
  PROVE  /\ DOMAIN q = 1..Len(q) /\ Len(q) \in Nat /\ \A k \in 1..Len(q) : q[k] \in Nat
         /\ \A n \in Range(q) : n \in Nat /\ \E k \in 1..Len(q) : n = q[k]
         /\ \A k \in 1..Len(q) : q[k] \in Range(q)
BY DEF Range

------------------------------------------------------------------------------
(* Sequences that grow at their end.                                       *)

LEMMA LongerBy ==
  ASSUME NEW S, NEW t \in Seq(S), NEW n \in S
  PROVE  /\ t \o <<n>> \in Seq(S) /\ Len(t) \in Nat /\ Len(t \o <<n>>) = Len(t) + 1
         /\ (t \o <<n>>)[Len(t) + 1] = n /\ \A k \in 1..Len(t) : (t \o <<n>>)[k] = t[k]
OBVIOUS

\* A text grows by a number.
LEMMA LongerText ==
  ASSUME NEW t \in Seq(Nat), NEW n \in Nat
  PROVE  LET u == t \o <<n>>
         IN  /\ u \in Seq(Nat) /\ Len(t) \in Nat /\ Len(u) = Len(t) + 1 /\ u[Len(t) + 1] = n
             /\ \A k \in 1..Len(t) : u[k] = t[k]
             /\ Range(t) \subseteq Range(u) /\ n \in Range(u) /\ Range(u) \subseteq Range(t) \cup {n}
<1>0. PICK u : u = t \o <<n>>
  OBVIOUS
<1>1. /\ u \in Seq(Nat) /\ Len(t) \in Nat /\ Len(u) = Len(t) + 1 /\ u[Len(t) + 1] = n
      /\ \A k \in 1..Len(t) : u[k] = t[k]
  BY <1>0, LongerBy
<1>2. \A k \in 1..Len(u) : k \in 1..Len(t) \/ k = Len(t) + 1
  BY <1>1
<1>3. Len(t) + 1 \in 1..Len(u) /\ \A k \in 1..Len(t) : k \in 1..Len(u)
  BY <1>1
<1>4. n \in Range(u)
  BY <1>1, <1>3, RangeOf
<1>5. Range(t) \subseteq Range(u)
  <2> SUFFICES ASSUME NEW m \in Range(t) PROVE m \in Range(u)
    OBVIOUS
  <2>1. PICK k \in 1..Len(t) : m = t[k]
    BY RangeOf
  <2>2. k \in 1..Len(u) /\ m = u[k]
    BY <1>1, <1>3, <2>1
  <2> QED
    BY <1>1, <2>2, RangeOf
<1>6. Range(u) \subseteq Range(t) \cup {n}
  <2> SUFFICES ASSUME NEW m \in Range(u), m # n PROVE m \in Range(t)
    OBVIOUS
  <2>1. PICK k \in 1..Len(u) : m = u[k]
    BY <1>1, RangeOf
  <2>2. k \in 1..Len(t) /\ m = t[k]
    BY <1>1, <1>2, <2>1
  <2> QED
    BY <2>2, RangeOf
<1> QED
  BY <1>0, <1>1, <1>4, <1>5, <1>6

\* The last entry is replaced.
LEMMA LastReplaced ==
  ASSUME NEW q \in Seq(Entry), q # <<>>, NEW x \in Entry
  PROVE  LET r == Front(q) \o <<x>>
         IN  /\ r \in Seq(Entry) /\ Len(r) = Len(q) /\ Len(q) \in DOMAIN q /\ DOMAIN r = DOMAIN q
             /\ r[Len(q)] = x /\ r # <<>> /\ Last(r) = x
             /\ \A i \in DOMAIN q : i # Len(q) => r[i] = q[i] /\ i < Len(q)
<1>r. PICK r : r = Front(q) \o <<x>>
  OBVIOUS
<1>0. PICK n \in Nat : n = Len(q) /\ n >= 1 /\ DOMAIN q = 1..n /\ n \in DOMAIN q
  OBVIOUS
<1>1. PICK m \in Nat : m = n - 1
  BY <1>0
<1>2. PICK f : f = SubSeq(q, 1, m)
  OBVIOUS
<1>3. \A i \in 1..m : q[i] \in Entry
  BY <1>0, <1>1
<1>4. f \in Seq(Entry) /\ Len(f) = m /\ \A i \in 1..m : f[i] = q[i]
  BY <1>2, <1>3
<1>5. r = f \o <<x>>
  BY <1>0, <1>1, <1>2, <1>r DEF Front
<1>6. r \in Seq(Entry) /\ Len(r) = m + 1 /\ r[m + 1] = x /\ \A i \in 1..m : r[i] = q[i]
  <2>1. /\ r \in Seq(Entry) /\ Len(r) = Len(f) + 1 /\ r[Len(f) + 1] = x
        /\ \A i \in 1..Len(f) : r[i] = f[i]
    <3>1. \A g \in Seq(Entry) :
            /\ g \o <<x>> \in Seq(Entry) /\ Len(g \o <<x>>) = Len(g) + 1
            /\ (g \o <<x>>)[Len(g) + 1] = x /\ \A i \in 1..Len(g) : (g \o <<x>>)[i] = g[i]
      BY LongerBy
    <3> QED
      BY <1>4, <1>5, <3>1
  <2> QED
    BY <1>4, <2>1
<1>7. m + 1 = n /\ \A i \in 1..n : i # n => i \in 1..m /\ i < n
  BY <1>0, <1>1
<1>8. Len(r) = n /\ r[n] = x /\ DOMAIN r = 1..n
  BY <1>6, <1>7
<1>9. \A i \in 1..n : i # n => r[i] = q[i] /\ i < n
  BY <1>6, <1>7
<1>10. r # <<>> /\ Last(r) = x
  BY <1>0, <1>8 DEF Last
<1> QED
  BY <1>0, <1>6, <1>8, <1>9, <1>10, <1>r

\* A piece that holds the greatest number of a text goes to its end.
LEMMA PieceEnds ==
  ASSUME NEW F \in Seq(Nat), NEW t \in Seq(Nat), NEW a \in Nat, NEW k \in 1..Len(t),
         a + Len(t) <= Len(F), \A h \in 1..Len(t) : t[h] = F[a + h],
         \A i, j \in DOMAIN F : i < j => F[i] < F[j], \A i \in DOMAIN F : F[i] <= t[k]
  PROVE  a + Len(t) = Len(F)
<1>1. PICK m \in Nat, c \in Nat : m = Len(F) /\ c = Len(t) /\ DOMAIN F = 1..m
  OBVIOUS
<1>2. k \in Nat /\ 1 <= k /\ k <= c /\ a + c <= m
  BY <1>1
<1>3. PICK h \in Nat : h = a + k
  BY <1>2
<1>4. h \in DOMAIN F /\ m \in DOMAIN F /\ h <= a + c
  BY <1>1, <1>2, <1>3
<1>5. \A i \in DOMAIN F : F[i] \in Nat
  OBVIOUS
<1>6. F[h] < F[m] => FALSE
  <2> SUFFICES ASSUME F[h] < F[m] PROVE FALSE
    OBVIOUS
  <2>1. PICK v \in Nat, w \in Nat : v = F[h] /\ w = F[m]
    BY <1>4, <1>5
  <2>2. v = t[k]
    BY <1>3, <2>1
  <2>3. w <= v
    BY <1>4, <2>1, <2>2
  <2>4. v < w
    BY <2>1
  <2> QED
    BY <2>3, <2>4
<1>7. ~(h < m)
  BY <1>4, <1>6
<1> QED
  BY <1>1, <1>2, <1>4, <1>7

\* A piece at the end of a text grows as the text does.
LEMMA PieceGrows ==
  ASSUME NEW F \in Seq(Nat), NEW t \in Seq(Nat), NEW a \in Nat, NEW n \in Nat,
         a + Len(t) = Len(F), \A h \in 1..Len(t) : t[h] = F[a + h]
  PROVE  LET G == Append(F, n)
             u == t \o <<n>>
         IN  a + Len(u) <= Len(G) /\ \A j \in 1..Len(u) : u[j] = G[a + j]
<1>0. PICK G, u : G = Append(F, n) /\ u = t \o <<n>>
  OBVIOUS
<1>a. PICK m \in Nat : m = Len(F)
  OBVIOUS
<1>b. PICK c \in Nat : c = Len(t)
  OBVIOUS
<1>1. m = Len(F) /\ c = Len(t) /\ a + c = m
  BY <1>a, <1>b
<1>2. Len(u) = c + 1 /\ u[c + 1] = n /\ \A j \in 1..c : u[j] = t[j]
  BY <1>0, <1>1, LongerText
<1>3. Len(G) = m + 1 /\ G[m + 1] = n /\ \A j \in 1..m : G[j] = F[j]
  BY <1>0, <1>1
<1>4. ASSUME NEW j \in 1..Len(u) PROVE u[j] = G[a + j]
  <2>1. CASE j \in 1..c
    <3>1. a + j \in 1..m
      BY <1>1, <2>1
    <3>2. G[a + j] = F[a + j]
      BY <1>3, <3>1
    <3> QED
      BY <1>1, <1>2, <2>1, <3>2
  <2>2. CASE j = c + 1
    <3>0. a + c = m
      BY <1>1
    <3>1. a + j = m + 1
      BY <2>2, <3>0
    <3> QED
      BY <1>2, <1>3, <2>2, <3>1
  <2>3. j \in 1..c \/ j = c + 1
    BY <1>1, <1>2
  <2> QED
    BY <2>1, <2>2, <2>3
<1>5. a + Len(u) <= Len(G)
  BY <1>1, <1>2, <1>3
<1> QED
  BY <1>0, <1>4, <1>5

\* The ring as it is when the history is copied.
LEMMA SnapshotStep == ASSUME StreamInv, Snapshot PROVE StreamInv'
<1> USE DEF Snapshot
<1>1. /\ SentInv' /\ RingInv' /\ (\A e : Said(e) <=> Said(e)')
      /\ \A s \in Stream : Kept(s) => Kept(s)'
  BY SinkStands DEF StreamInv
<1>2. StreamTypeOK'
  BY DEF StreamInv, StreamTypeOK
<1>3. QueueInv' /\ TodoInv'
  BY <1>1 DEF StreamInv, QueueInv, TodoInv, RingInv, Ordered
<1>4. SameBoot /\ BootInv'
  BY DEF StreamInv, BootInv, Told, SameBoot
<1>5. CursorInv'
  BY DEF StreamInv, CursorInv, RingInv, SameBoot
<1>6. ASSUME lost = {}, NEW s \in Stream \ torn, \A i \in DOMAIN ring : ring[i].of = s => ~Straddles(ring[i])
      PROVE  Kept(s) /\ Coming(s)'
  <2>1. Kept(s)
    BY <1>4, <1>6 DEF StreamInv, TextInv
  <2>2. /\ \A i \in DOMAIN ring : ring[i] \in Entry /\ Said(ring[i]) /\ Numbers(ring[i]) \subseteq Nat /\ ring[i].seq \in Nat
        /\ \A i \in DOMAIN queue : queue[i].seq \in Nat
        /\ desk.last \in Nat /\ desk.text[s] \in Seq(Nat) /\ sent.text[s] \in Seq(Nat)
    <3>1. StreamTypeOK /\ \A i \in DOMAIN ring : Said(ring[i])
      BY DEF StreamInv, RingInv
    <3> QED
      BY <1>6, <3>1, Shapes, NumbersOf
  <2>3. ASSUME NEW n \in Range(desk.text[s]), desk.last < n
        PROVE  \E i \in DOMAIN ring : ring[i].of = s /\ ring[i].seq <= desk.last /\ n \in Range(ring[i].text)
    <3>1. PICK k \in 1..Len(desk.text[s]) : n = desk.text[s][k]
      BY <2>2, RangeOf
    <3>2. n \in Nat /\ n = sent.text[s][k]
      <4>1. n \in Nat
        BY <2>2, RangeOf
      <4>2. n = sent.text[s][k]
        BY <2>1, <3>1 DEF Kept
      <4> QED
        BY <4>1, <4>2
    <3>3. ~(sent.text[s][k] <= desk.last)
      BY <2>2, <2>3, <3>2
    <3> QED
      BY <2>1, <3>2, <3>3 DEF Kept
  <2>4. \A k \in DOMAIN sent.text[s] :
          \E j \in DOMAIN ring : ring[j].of = s /\ sent.text[s][k] \in Range(ring[j].text)
    BY <1>6 DEF StreamInv, RingInv
  <2>5. ASSUME NEW i \in DOMAIN queue, desk.last < queue[i].seq PROVE queue[i].seq \notin Range(desk.text[s])
    <3> SUFFICES ASSUME queue[i].seq \in Range(desk.text[s]) PROVE FALSE
      OBVIOUS
    <3>1. PICK j \in DOMAIN ring : ring[j].of = s /\ ring[j].seq <= desk.last /\ queue[i].seq \in Range(ring[j].text)
      BY <2>3, <2>5
    <3>2. Straddles(ring[j])
      BY <2>2, <2>5, <3>1 DEF Straddles
    <3> QED
      BY <1>6, <3>1, <3>2
  <2>6. ASSUME NEW j \in DOMAIN ring, ring[j].of = s, NEW n \in Range(ring[j].text)
        PROVE  /\ ring[j].seq <= desk.last => n <= desk.last
               /\ desk.last < ring[j].seq => n \notin Range(desk.text[s])
               /\ desk.last < ring[j].seq /\ ring[j].seq < n => \A i \in DOMAIN queue : queue[i].seq # n
    <3>0. ~Straddles(ring[j])
      BY <1>6, <2>6
    <3>1. n \in Nat /\ n \in Numbers(ring[j]) /\ ring[j].seq <= n
      BY <2>2, <2>6, SaidParts DEF Numbers, StreamInv
    <3>2. ring[j].seq <= desk.last => n <= desk.last
      BY <2>2, <2>6, <3>0, <3>1 DEF Straddles
    <3>3. ASSUME desk.last < ring[j].seq, ring[j].seq < n, NEW i \in DOMAIN queue PROVE queue[i].seq # n
      <4>1. ~(ring[j].seq <= desk.last)
        BY <2>2, <3>3
      <4> QED
        BY <2>6, <3>0, <3>3, <4>1 DEF Straddles, Pending
    <3>4. ASSUME desk.last < ring[j].seq, n \in Range(desk.text[s]) PROVE FALSE
      <4>1. desk.last < n
        BY <2>2, <3>1, <3>4
      <4>2. PICK i \in DOMAIN ring : ring[i].of = s /\ ring[i].seq <= desk.last /\ n \in Range(ring[i].text)
        BY <2>3, <3>4, <4>1
      <4>3. n \in Numbers(ring[i]) /\ i # j
        BY <2>2, <3>4, <4>2 DEF Numbers
      <4>4. /\ i < j => n < ring[j].seq
            /\ j < i => n < ring[i].seq
        BY <3>1, <4>3 DEF StreamInv, RingInv, Ordered
      <4>5. i \in Nat /\ j \in Nat
        BY DEF StreamInv, StreamTypeOK
      <4> QED
        BY <2>2, <3>1, <4>1, <4>2, <4>3, <4>4, <4>5
    <3> QED
      BY <3>2, <3>3, <3>4
  <2> QED
    BY <2>1, <2>4, <2>5, <2>6 DEF Coming
<1>7. TextInv'
  <2> SUFFICES ASSUME lost = {}, NEW s \in Stream \ torn' PROVE Kept(s)' /\ Coming(s)'
    BY <1>4 DEF TextInv, SameBoot
  <2>1. s \in Stream \ torn /\ \A i \in DOMAIN ring : ring[i].of = s => ~Straddles(ring[i])
    OBVIOUS
  <2> QED
    BY <1>1, <1>6, <2>1
<1> QED
  BY <1>1, <1>2, <1>3, <1>4, <1>5, <1>7 DEF StreamInv

------------------------------------------------------------------------------
(* The desktop takes an entry: no other that it has still to take comes    *)
(* before it.                                                              *)

LEMMA IngestParts ==
  ASSUME StreamTypeOK, NEW e \in Entry, desk' = Ingest(desk, e)
  PROVE  /\ desk' \in [boot : Nat, last : Nat, seen : SUBSET Nat, text : [Stream -> Seq(Nat)]]
         /\ desk'.boot = desk.boot
         /\ e.seq <= desk.last => desk' = desk
         /\ desk.last < e.seq =>
              /\ desk'.last = e.seq
              /\ desk'.seen = IF e.of = "mark" THEN desk.seen \cup {e.seq} ELSE desk.seen
              /\ \A s \in Stream : desk'.text[s] = IF e.of = s THEN desk.text[s] \o e.text ELSE desk.text[s]
<1>1. /\ e.seq \in Nat /\ e.of \in Stream \cup {"mark"} /\ e.text \in Seq(Nat)
      /\ desk \in [boot : Nat, last : Nat, seen : SUBSET Nat, text : [Stream -> Seq(Nat)]]
  BY NumbersOf DEF StreamTypeOK
<1>2. CASE e.seq <= desk.last
  BY <1>1, <1>2 DEF Ingest
<1>3. CASE ~(e.seq <= desk.last)
  <2>1. PICK d : d = Ingest(desk, e)
    OBVIOUS
  <2>2. CASE e.of = "mark"
    <3>1. d = [desk EXCEPT !.last = e.seq, !.seen = @ \cup {e.seq}]
      BY <1>3, <2>1, <2>2 DEF Ingest
    <3>2. /\ d \in [boot : Nat, last : Nat, seen : SUBSET Nat, text : [Stream -> Seq(Nat)]]
          /\ d.boot = desk.boot /\ d.last = e.seq /\ d.seen = desk.seen \cup {e.seq} /\ d.text = desk.text
      BY <1>1, <3>1
    <3> QED
      BY <1>1, <1>3, <2>1, <2>2, <3>2, StreamAssumption
  <2>3. CASE e.of # "mark"
    <3>1. d = [desk EXCEPT !.last = e.seq, !.text[e.of] = @ \o e.text]
      BY <1>3, <2>1, <2>3 DEF Ingest
    <3>2. PICK x : x = [desk.text EXCEPT ![e.of] = desk.text[e.of] \o e.text]
      OBVIOUS
    <3>3. /\ x \in [Stream -> Seq(Nat)]
          /\ \A s \in Stream : x[s] = IF e.of = s THEN desk.text[s] \o e.text ELSE desk.text[s]
      <4>1. \A s \in Stream : desk.text[s] \o e.text \in Seq(Nat)
        BY <1>1
      <4> QED
        BY <1>1, <2>3, <3>2, <4>1
    <3>4. /\ d \in [boot : Nat, last : Nat, seen : SUBSET Nat, text : [Stream -> Seq(Nat)]]
          /\ d.boot = desk.boot /\ d.last = e.seq /\ d.seen = desk.seen /\ d.text = x
      BY <1>1, <3>1, <3>2, <3>3
    <3> QED
      BY <1>1, <1>3, <2>1, <2>3, <3>3, <3>4
  <2> QED
    BY <2>2, <2>3
<1> QED
  BY <1>1, <1>2, <1>3

LEMMA FeedParts ==
  ASSUME StreamInv, SameBoot, NEW e \in Entry, Said(e), desk' = Ingest(desk, e),
         UNCHANGED <<boot, seq, ring, sent, lost, torn>>,
         \A n \in sent.marks : desk.last < n /\ n < e.seq => n \in lost,
         lost = {} => \A s \in Stream \ torn :
           /\ \A k \in DOMAIN sent.text[s] : Len(desk.text[s]) < k =>
                e.seq <= sent.text[s][k] /\ (e.of # s => e.seq < sent.text[s][k])
           /\ e.of = s /\ desk.last < e.seq => \A n \in Range(e.text) :
                /\ n \notin Range(desk.text[s])
                /\ n <= e.seq \/ \E i \in DOMAIN ring :
                     ring[i].of = s /\ ring[i].seq = e.seq /\ n \in Range(ring[i].text)
  PROVE  /\ desk' \in [boot : Nat, last : Nat, seen : SUBSET Nat, text : [Stream -> Seq(Nat)]]
         /\ BootInv'
         /\ desk.last <= desk'.last /\ e.seq <= desk'.last
         /\ desk'.last = desk.last \/ (desk'.last = e.seq /\ desk.last < e.seq)
         /\ \A n \in sent.marks : n <= desk'.last => n \in desk'.seen \cup lost
         /\ lost = {} => \A s \in Stream \ torn :
              /\ Kept(s)' /\ Len(desk.text[s]) <= Len(desk'.text[s])
              /\ \A n \in Range(desk'.text[s]) :
                   n \in Range(desk.text[s]) \/ (e.of = s /\ desk.last < e.seq /\ n \in Range(e.text))
              /\ e.of = s /\ (desk.last < e.seq \/ \A n \in Range(e.text) : n <= desk.last) =>
                   \A k \in DOMAIN sent.text[s] : Len(desk'.text[s]) < k => sent.text[s][k] \notin Range(e.text)
<1>0. /\ StreamTypeOK /\ SentInv /\ seq \in Nat /\ desk.last \in Nat /\ e.seq \in Nat /\ e.of \in Stream \cup {"mark"}
      /\ e.text \in Seq(Nat) /\ 0 < e.seq /\ e.seq <= seq /\ desk.last <= seq
  BY Shapes, NumbersOf, SaidParts DEF StreamInv, BootInv
<1>1. /\ desk' \in [boot : Nat, last : Nat, seen : SUBSET Nat, text : [Stream -> Seq(Nat)]]
      /\ desk'.boot = desk.boot
      /\ e.seq <= desk.last => desk' = desk
      /\ desk.last < e.seq =>
           /\ desk'.last = e.seq
           /\ desk'.seen = IF e.of = "mark" THEN desk.seen \cup {e.seq} ELSE desk.seen
           /\ \A s \in Stream : desk'.text[s] = IF e.of = s THEN desk.text[s] \o e.text ELSE desk.text[s]
  BY <1>0, IngestParts
<1>2. /\ desk.last <= desk'.last /\ e.seq <= desk'.last /\ desk'.last <= seq /\ desk'.last \in Nat
      /\ desk'.last = desk.last \/ (desk'.last = e.seq /\ desk.last < e.seq)
  BY <1>0, <1>1
<1>3. BootInv'
  BY <1>1, <1>2 DEF StreamInv, BootInv, SameBoot
<1>4. ASSUME NEW n \in sent.marks, n <= desk'.last PROVE n \in desk'.seen \cup lost
  <2>0. n \in Nat /\ (n <= desk.last => n \in desk.seen \cup lost)
    BY DEF StreamInv, CursorInv, StreamTypeOK
  <2>1. CASE e.seq <= desk.last
    BY <1>1, <1>4, <2>0, <2>1
  <2>2. CASE desk.last < e.seq
    <3>1. n = e.seq => e.of = "mark"
      BY <1>0, SaidParts
    <3>2. n <= desk.last \/ (desk.last < n /\ n < e.seq) \/ n = e.seq
      BY <1>0, <1>1, <1>4, <2>0, <2>2
    <3> QED
      BY <1>1, <2>0, <2>2, <3>1, <3>2
  <2> QED
    BY <1>0, <2>1, <2>2
<1>5. ASSUME lost = {}, NEW s \in Stream \ torn
      PROVE  /\ Kept(s)' /\ Len(desk.text[s]) <= Len(desk'.text[s])
             /\ \A n \in Range(desk'.text[s]) :
                  n \in Range(desk.text[s]) \/ (e.of = s /\ desk.last < e.seq /\ n \in Range(e.text))
             /\ e.of = s /\ (desk.last < e.seq \/ \A n \in Range(e.text) : n <= desk.last) =>
                  \A k \in DOMAIN sent.text[s] : Len(desk'.text[s]) < k => sent.text[s][k] \notin Range(e.text)
  <2>0. PICK D : D = desk.text[s]
    OBVIOUS
  <2>1. PICK F : F = sent.text[s]
    OBVIOUS
  <2>2. PICK E : E = desk'.text[s]
    OBVIOUS
  <2>3. /\ D \in Seq(Nat) /\ F \in Seq(Nat) /\ Len(D) \in Nat /\ Len(F) \in Nat /\ DOMAIN F = 1..Len(F)
        /\ \A k \in 1..Len(F) : F[k] \in Nat
        /\ \A j, k \in 1..Len(F) : j < k => F[j] < F[k]
    <3>1. D \in Seq(Nat) /\ F \in Seq(Nat)
      BY <1>0, <2>0, <2>1, Shapes
    <3>2. \A k \in DOMAIN F : \A j \in DOMAIN F : k < j => F[k] < F[j]
      BY <1>0, <2>1 DEF SentInv
    <3>3. DOMAIN F = 1..Len(F) /\ Len(F) \in Nat /\ Len(D) \in Nat /\ \A k \in 1..Len(F) : F[k] \in Nat
      BY <3>1
    <3> QED
      BY <3>1, <3>2, <3>3
  <2>4. /\ Len(D) <= Len(F)
        /\ \A k \in 1..Len(D) :
             /\ D[k] = F[k]
             /\ F[k] <= desk.last \/ \E i \in DOMAIN ring :
                  ring[i].of = s /\ ring[i].seq <= desk.last /\ F[k] \in Range(ring[i].text)
        /\ \A k \in 1..Len(F) : F[k] <= desk.last => k <= Len(D)
    <3>1. Kept(s)
      BY <1>5 DEF StreamInv, TextInv
    <3> QED
      BY <2>0, <2>1, <2>3, <3>1 DEF Kept
  <2>5. /\ \A k \in 1..Len(F) : Len(D) < k => e.seq <= F[k] /\ (e.of # s => e.seq < F[k])
        /\ e.of = s /\ desk.last < e.seq => \A n \in Range(e.text) :
             /\ n \notin Range(D)
             /\ n <= e.seq \/ \E i \in DOMAIN ring :
                  ring[i].of = s /\ ring[i].seq = e.seq /\ n \in Range(ring[i].text)
    BY <1>5, <2>0, <2>1, <2>3
  <2>6. SUFFICES
          /\ Len(E) <= Len(F)
          /\ \A k \in 1..Len(E) :
               /\ E[k] = F[k]
               /\ F[k] <= desk'.last \/ \E i \in DOMAIN ring :
                    ring[i].of = s /\ ring[i].seq <= desk'.last /\ F[k] \in Range(ring[i].text)
          /\ \A k \in 1..Len(F) : F[k] <= desk'.last => k <= Len(E)
          /\ Len(D) <= Len(E)
          /\ \A n \in Range(E) : n \in Range(D) \/ (e.of = s /\ desk.last < e.seq /\ n \in Range(e.text))
          /\ e.of = s /\ (desk.last < e.seq \/ \A n \in Range(e.text) : n <= desk.last) =>
               \A k \in 1..Len(F) : Len(E) < k => F[k] \notin Range(e.text)
    BY <2>0, <2>1, <2>2, <2>3 DEF Kept
  <2>7. CASE e.seq <= desk.last
    <3>1. E = D /\ desk'.last = desk.last
      BY <1>1, <2>0, <2>2, <2>7
    <3>2. ~(desk.last < e.seq)
      BY <1>0, <2>7
    <3>3. ASSUME \A n \in Range(e.text) : n <= desk.last, NEW k \in 1..Len(F), Len(D) < k
          PROVE  F[k] \notin Range(e.text)
      <4>1. ~(k <= Len(D))
        BY <2>3, <3>3
      <4> QED
        BY <2>4, <3>3, <4>1
    <3> QED
      BY <2>3, <2>4, <3>1, <3>2, <3>3
  <2>8. CASE desk.last < e.seq /\ e.of # s
    <3>1. E = D /\ desk'.last = e.seq
      BY <1>1, <1>5, <2>0, <2>2, <2>8
    <3>2. ASSUME NEW k \in 1..Len(F), F[k] <= e.seq PROVE k <= Len(D)
      <4> SUFFICES ASSUME Len(D) < k PROVE FALSE
        BY <2>3
      <4>1. e.seq < F[k] /\ F[k] \in Nat
        BY <2>3, <2>5, <2>8
      <4> QED
        BY <1>0, <3>2, <4>1
    <3>3. ASSUME NEW k \in 1..Len(D)
          PROVE  F[k] <= e.seq \/ \E i \in DOMAIN ring :
                   ring[i].of = s /\ ring[i].seq <= e.seq /\ F[k] \in Range(ring[i].text)
      <4>1. CASE F[k] <= desk.last
        <5>1. F[k] \in Nat
          BY <2>3, <2>4
        <5> QED
          BY <1>0, <2>8, <4>1, <5>1
      <4>2. ASSUME NEW i \in DOMAIN ring, ring[i].of = s, ring[i].seq <= desk.last, F[k] \in Range(ring[i].text)
            PROVE  ring[i].of = s /\ ring[i].seq <= e.seq /\ F[k] \in Range(ring[i].text)
        <5>1. ring[i].seq \in Nat
          BY <1>0, Shapes, NumbersOf
        <5> QED
          BY <1>0, <2>8, <4>2, <5>1
      <4> QED
        BY <2>4, <4>1, <4>2
    <3> QED
      BY <2>3, <2>4, <2>8, <3>1, <3>2, <3>3
  <2>9. CASE desk.last < e.seq /\ e.of = s
    <3>0. PICK t : t = e.text
      OBVIOUS
    <3>1. PICK a \in Nat : a + Len(t) <= Len(F) /\ \A k \in 1..Len(t) : t[k] = F[a + k]
      BY <1>5, <2>1, <2>9, <3>0, StreamAssumption DEF Said, Piece
    <3>2. t \in Seq(Nat) /\ t # <<>> /\ t[1] = e.seq /\ Len(t) \in Nat /\ Len(t) >= 1
      <4>1. t \in Seq(Nat) /\ t # <<>> /\ t[1] = e.seq
        BY <1>0, <1>5, <2>9, <3>0, StreamAssumption DEF Said
      <4> QED
        BY <4>1
    <3>3. F[a + 1] = e.seq /\ a + 1 \in 1..Len(F) /\ e.seq \in Range(t)
      <4>1. 1 \in 1..Len(t) /\ a + 1 \in 1..Len(F)
        BY <2>3, <3>1, <3>2
      <4> QED
        BY <3>1, <3>2, <4>1, RangeOf
    <3>4. a = Len(D)
      <4>1. ~(a + 1 <= Len(D))
        <5> SUFFICES ASSUME a + 1 <= Len(D) PROVE FALSE
          OBVIOUS
        <5>1. a + 1 \in 1..Len(D) /\ D[a + 1] = e.seq
          BY <2>4, <3>3
        <5>2. e.seq \in Range(D)
          BY <2>3, <5>1, RangeOf
        <5> QED
          BY <2>5, <2>9, <3>0, <3>3, <5>2
      <4>2. ~(Len(D) + 1 < a + 1)
        <5> SUFFICES ASSUME Len(D) + 1 < a + 1 PROVE FALSE
          OBVIOUS
        <5>1. PICK k \in 1..Len(F) : k = Len(D) + 1 /\ k < a + 1
          BY <2>3, <3>3
        <5>2. e.seq <= F[k] /\ F[k] < e.seq
          BY <2>3, <2>5, <3>3, <5>1
        <5> QED
          BY <1>0, <2>3, <5>2
      <4> QED
        BY <2>3, <4>1, <4>2
    <3>5. E = D \o t /\ desk'.last = e.seq
      BY <1>1, <1>5, <2>0, <2>2, <2>9, <3>0
    <3>6. /\ E \in Seq(Nat) /\ Len(E) = Len(D) + Len(t)
          /\ \A k \in 1..Len(E) : E[k] = IF k <= Len(D) THEN D[k] ELSE t[k - Len(D)]
      BY <2>3, <3>2, <3>5
    <3>7. \A k \in 1..Len(E) : IF k <= Len(D) THEN k \in 1..Len(D) ELSE k - Len(D) \in 1..Len(t) /\ a + (k - Len(D)) = k
      BY <2>3, <3>2, <3>4, <3>6
    <3>8. \A k \in 1..Len(E) : E[k] = F[k]
      <4> SUFFICES ASSUME NEW k \in 1..Len(E) PROVE E[k] = F[k]
        OBVIOUS
      <4>1. CASE k <= Len(D)
        BY <2>4, <3>6, <3>7, <4>1
      <4>2. CASE ~(k <= Len(D))
        <5>1. k - Len(D) \in 1..Len(t) /\ a + (k - Len(D)) = k /\ E[k] = t[k - Len(D)]
          BY <3>6, <3>7, <4>2
        <5>2. t[k - Len(D)] = F[a + (k - Len(D))]
          BY <3>1, <5>1
        <5> QED
          BY <5>1, <5>2
      <4> QED
        BY <4>1, <4>2
    <3>9. \A k \in 1..Len(E) : k \in 1..Len(D) \/ F[k] \in Range(t)
      <4> SUFFICES ASSUME NEW k \in 1..Len(E), ~(k <= Len(D)) PROVE F[k] \in Range(t)
        BY <3>7
      <4>1. F[k] = t[k - Len(D)] /\ k - Len(D) \in 1..Len(t)
        BY <3>6, <3>7, <3>8
      <4> QED
        BY <3>2, <4>1, RangeOf
    <3>10. ASSUME NEW k \in 1..Len(E)
           PROVE  F[k] <= e.seq \/ \E i \in DOMAIN ring :
                    ring[i].of = s /\ ring[i].seq <= e.seq /\ F[k] \in Range(ring[i].text)
      <4>1. CASE F[k] \in Range(t)
        <5>1. F[k] <= e.seq \/ \E i \in DOMAIN ring :
                ring[i].of = s /\ ring[i].seq = e.seq /\ F[k] \in Range(ring[i].text)
          BY <2>5, <2>9, <3>0, <4>1
        <5>2. e.seq <= e.seq
          BY <1>0
        <5> QED
          BY <5>1, <5>2
      <4>2. CASE k \in 1..Len(D) /\ F[k] <= desk.last
        <5>1. F[k] \in Nat
          BY <2>3, <2>4, <4>2
        <5> QED
          BY <1>0, <2>9, <4>2, <5>1
      <4>3. ASSUME NEW i \in DOMAIN ring, ring[i].of = s, ring[i].seq <= desk.last, F[k] \in Range(ring[i].text)
            PROVE  ring[i].of = s /\ ring[i].seq <= e.seq /\ F[k] \in Range(ring[i].text)
        <5>1. ring[i].seq \in Nat
          BY <1>0, Shapes, NumbersOf
        <5> QED
          BY <1>0, <2>9, <4>3, <5>1
      <4> QED
        BY <2>4, <3>9, <4>1, <4>2, <4>3
    <3>11. ASSUME NEW k \in 1..Len(F), F[k] <= e.seq PROVE k <= Len(E)
      <4> SUFFICES ASSUME Len(E) < k PROVE FALSE
        BY <2>3, <3>6
      <4>1. Len(D) < k /\ a + 1 < k
        BY <2>3, <3>2, <3>4, <3>6, SMTT(30)
      <4>2. F[a + 1] < F[k]
        BY <2>3, <3>3, <4>1
      <4> QED
        BY <1>0, <2>3, <3>3, <3>11, <4>2
    <3>12. ASSUME NEW n \in Range(E) PROVE n \in Range(D) \/ n \in Range(t)
      <4>1. PICK k \in 1..Len(E) : n = E[k]
        BY <3>6, RangeOf
      <4>2. k \in 1..Len(D) => n = D[k]
        BY <2>4, <3>8, <4>1
      <4> QED
        BY <2>3, <3>8, <3>9, <4>1, <4>2, RangeOf
    <3>13. ASSUME NEW k \in 1..Len(F), Len(E) < k PROVE F[k] \notin Range(t)
      <4> SUFFICES ASSUME F[k] \in Range(t) PROVE FALSE
        OBVIOUS
      <4>1. PICK j \in 1..Len(t) : F[k] = F[a + j]
        BY <3>1, <3>2, RangeOf, SMTT(30)
      <4>2. a + j \in 1..Len(F) /\ a + j < k
        <5>1. Len(E) = a + Len(t) /\ Len(t) \in Nat /\ Len(F) \in Nat
          BY <2>3, <3>2, <3>4, <3>6
        <5>2. a + j \in Nat /\ a + j <= a + Len(t) /\ 1 <= a + j
          BY <5>1
        <5> QED
          BY <3>1, <3>13, <5>1, <5>2
      <4> QED
        BY <2>3, <4>1, <4>2
    <3>14. Len(E) <= Len(F) /\ Len(D) <= Len(E)
      BY <2>3, <3>1, <3>2, <3>4, <3>6
    <3> QED
      BY <2>9, <3>0, <3>5, <3>8, <3>10, <3>11, <3>12, <3>13, <3>14
  <2> QED
    BY <1>0, <2>7, <2>8, <2>9
<1> QED
  BY <1>1, <1>2, <1>3, <1>4, <1>5

LEMMA ReplayStep == ASSUME StreamInv, Replay PROVE StreamInv'
<1>0. /\ StreamTypeOK /\ SentInv /\ RingInv /\ TodoInv /\ QueueInv /\ SameBoot /\ Fed
      /\ conn = "replay" /\ UNCHANGED <<boot, seq, ring, queue, sent, lost, torn>>
  BY DEF Replay, StreamInv, BootInv, Told, Fed
<1>1. SentInv' /\ RingInv' /\ (\A e : Said(e) <=> Said(e)') /\ \A s \in Stream : UNCHANGED desk /\ Kept(s) => Kept(s)'
  BY <1>0, SinkStands
<1>2. CASE todo = <<>> /\ conn' = "live" /\ UNCHANGED <<todo, desk>>
  <2>1. StreamTypeOK' /\ QueueInv' /\ TodoInv' /\ BootInv'
    BY <1>0, <1>1, <1>2 DEF StreamInv, StreamTypeOK, QueueInv, TodoInv, BootInv, Told, SameBoot
  <2>2. CursorInv'
    BY <1>0, <1>2 DEF StreamInv, CursorInv, Fed, SameBoot, Behind
  <2>3. TextInv'
    BY <1>0, <1>1, <1>2 DEF StreamInv, TextInv, Fed, SameBoot, Coming, Behind
  <2> QED
    BY <1>1, <2>1, <2>2, <2>3 DEF StreamInv
<1>3. CASE todo # <<>> /\ desk' = Ingest(desk, Head(todo)) /\ todo' = Tail(todo) /\ UNCHANGED conn
  <2>1. PICK e \in Entry : e = todo[1] /\ e = Head(todo)
    BY <1>0, <1>3, TailParts DEF StreamTypeOK
  <2>2. /\ todo' \in Seq(Entry) /\ 1 \in DOMAIN todo
        /\ \A j \in DOMAIN todo' : j + 1 \in DOMAIN todo /\ todo'[j] = todo[j + 1]
        /\ \A j \in DOMAIN todo : j = 1 \/ (j - 1 \in DOMAIN todo' /\ todo[j] = todo'[j - 1])
        /\ Ordered(todo') /\ \A j \in DOMAIN todo' : \A n \in Numbers(e) : n < todo'[j].seq
    BY <1>0, <1>3, <2>1, TailParts DEF StreamTypeOK, TodoInv
  <2>3. /\ Said(e) /\ e.seq \in Nat /\ e.seq \in Numbers(e) /\ desk.last \in Nat
        /\ Range(e.text) \subseteq Numbers(e) /\ Numbers(e) \subseteq Nat
        /\ \A n \in Numbers(e) : e.seq <= n
        /\ \A j \in DOMAIN todo' : /\ todo'[j].seq \in Nat /\ e.seq < todo'[j].seq
                                   /\ \A n \in Numbers(todo'[j]) : n \in Nat /\ todo'[j].seq <= n
    <3>1. Said(e)
      BY <1>0, <2>1, <2>2 DEF TodoInv
    <3>2. /\ e.seq \in Nat /\ e.seq \in Numbers(e) /\ desk.last \in Nat
          /\ Range(e.text) \subseteq Numbers(e) /\ Numbers(e) \subseteq Nat
          /\ \A n \in Numbers(e) : e.seq <= n
      BY <1>0, <3>1, Shapes, NumbersOf, SaidParts DEF Numbers
    <3>3. ASSUME NEW j \in DOMAIN todo'
          PROVE  /\ todo'[j].seq \in Nat /\ e.seq < todo'[j].seq
                 /\ \A n \in Numbers(todo'[j]) : n \in Nat /\ todo'[j].seq <= n
      <4>1. PICK x \in Entry : x = todo'[j] /\ Said(x)
        BY <1>0, <2>2 DEF TodoInv, StreamTypeOK
      <4>2. x.seq \in Nat /\ \A n \in Numbers(x) : n \in Nat /\ x.seq <= n
        BY <1>0, <4>1, NumbersOf, SaidParts
      <4> QED
        BY <2>2, <3>2, <4>1, <4>2
    <3> QED
      BY <3>1, <3>2, <3>3
  <2>4. ASSUME NEW n \in sent.marks, desk.last < n, n <= e.seq
        PROVE  n \in lost \/ n = e.seq
    <3>0. n \in Nat
      BY <1>0 DEF StreamTypeOK
    <3>1. \/ n \in lost
          \/ \E j \in DOMAIN todo : todo[j].seq = n
          \/ Behind(n)
      BY <1>0, <2>4 DEF StreamInv, CursorInv
    <3>2. ASSUME NEW j \in DOMAIN todo, todo[j].seq = n PROVE n = e.seq
      BY <2>1, <2>2, <2>3, <2>4, <3>0, <3>2
    <3>3. ~Behind(n)
      BY <2>1, <2>2, <2>3, <2>4, <3>0 DEF Behind
    <3> QED
      BY <3>1, <3>2, <3>3
  <2>5. ASSUME lost = {}, NEW s \in Stream \ torn
        PROVE  /\ \A k \in DOMAIN sent.text[s] : Len(desk.text[s]) < k =>
                    e.seq <= sent.text[s][k] /\ (e.of # s => e.seq < sent.text[s][k])
               /\ e.of = s /\ desk.last < e.seq => \A n \in Range(e.text) :
                    /\ n \notin Range(desk.text[s])
                    /\ n <= e.seq \/ \E i \in DOMAIN ring :
                         ring[i].of = s /\ ring[i].seq = e.seq /\ n \in Range(ring[i].text)
    <3>1. Coming(s)
      BY <1>0, <2>5 DEF StreamInv, TextInv
    <3>2. ASSUME NEW k \in DOMAIN sent.text[s], Len(desk.text[s]) < k
          PROVE  e.seq <= sent.text[s][k] /\ (e.of # s => e.seq < sent.text[s][k])
      <4>0. PICK n : n = sent.text[s][k]
        OBVIOUS
      <4>1. \/ \E j \in DOMAIN todo : todo[j].of = s /\ n \in Range(todo[j].text)
            \/ Behind(n)
        BY <3>1, <3>2, <4>0 DEF Coming
      <4>2. n \in Nat
        BY <1>0, <4>0, Shapes, RangeOf
      <4>3. ASSUME NEW j \in DOMAIN todo, todo[j].of = s, n \in Range(todo[j].text)
            PROVE  e.seq <= n /\ (e.of # s => e.seq < n)
        <5>1. n \in Numbers(todo[j])
          BY <4>3 DEF Numbers
        <5>2. CASE j = 1
          BY <2>1, <2>3, <4>3, <5>1, <5>2
        <5>3. CASE j # 1
          <6>1. PICK i \in DOMAIN todo' : todo'[i] = todo[j]
            BY <2>2, <5>3
          <6>2. e.seq < todo'[i].seq /\ todo'[i].seq <= n /\ todo'[i].seq \in Nat
            BY <2>3, <5>1, <6>1
          <6> QED
            BY <2>3, <4>2, <6>2
        <5> QED
          BY <5>2, <5>3
      <4>4. Behind(n) => e.seq < n
        BY <2>1, <2>2, <2>3 DEF Behind
      <4> QED
        BY <2>3, <4>0, <4>1, <4>2, <4>3, <4>4
    <3>3. ASSUME e.of = s, desk.last < e.seq, NEW n \in Range(e.text)
          PROVE  /\ n \notin Range(desk.text[s])
                 /\ n <= e.seq \/ \E i \in DOMAIN ring :
                      ring[i].of = s /\ ring[i].seq = e.seq /\ n \in Range(ring[i].text)
      <4>1. n \notin Range(desk.text[s])
        BY <2>1, <2>2, <3>1, <3>3 DEF Coming
      <4>2. \E i \in DOMAIN ring : ring[i].of = s /\ ring[i].seq = e.seq /\ n \in Range(ring[i].text)
        <5>1. todo[1] = e /\ 1 \in DOMAIN todo
          BY <2>1, <2>2
        <5>2. PICK i \in DOMAIN ring :
                ring[i].seq = e.seq /\ ring[i].of = e.of /\ Range(e.text) \subseteq Range(ring[i].text)
          BY <1>0, <2>5, <5>1 DEF TodoInv
        <5> QED
          BY <3>3, <5>2
      <4> QED
        BY <4>1, <4>2
    <3> QED
      BY <3>2, <3>3
  <2>6. /\ desk' \in [boot : Nat, last : Nat, seen : SUBSET Nat, text : [Stream -> Seq(Nat)]]
        /\ BootInv'
        /\ desk.last <= desk'.last /\ e.seq <= desk'.last
        /\ desk'.last = desk.last \/ (desk'.last = e.seq /\ desk.last < e.seq)
        /\ \A n \in sent.marks : n <= desk'.last => n \in desk'.seen \cup lost
        /\ lost = {} => \A s \in Stream \ torn :
             /\ Kept(s)' /\ Len(desk.text[s]) <= Len(desk'.text[s])
             /\ \A n \in Range(desk'.text[s]) :
                  n \in Range(desk.text[s]) \/ (e.of = s /\ desk.last < e.seq /\ n \in Range(e.text))
             /\ e.of = s /\ (desk.last < e.seq \/ \A n \in Range(e.text) : n <= desk.last) =>
                  \A k \in DOMAIN sent.text[s] : Len(desk'.text[s]) < k => sent.text[s][k] \notin Range(e.text)
    <3>1. \A n \in sent.marks : desk.last < n /\ n < e.seq => n \in lost
      <4> SUFFICES ASSUME NEW n \in sent.marks, desk.last < n, n < e.seq PROVE n \in lost
        OBVIOUS
      <4>1. n \in Nat
        BY <1>0 DEF StreamTypeOK
      <4>2. n <= e.seq /\ n # e.seq
        BY <2>3, <4>1
      <4> QED
        BY <2>4, <4>2
    <3>2. desk' = Ingest(desk, e) /\ SameBoot /\ Said(e) /\ UNCHANGED <<boot, seq, ring, sent, lost, torn>>
      BY <1>0, <1>3, <2>1, <2>3
    <3> QED
      BY <2>5, <3>1, <3>2, FeedParts
  <2>7. StreamTypeOK' /\ QueueInv'
    BY <1>0, <1>1, <1>3, <2>2, <2>6 DEF StreamTypeOK, QueueInv
  <2>8. TodoInv'
    <3>1. ASSUME NEW j \in DOMAIN todo'
          PROVE  /\ Said(todo'[j])
                 /\ lost = {} => \E i \in DOMAIN ring :
                      ring[i].seq = todo'[j].seq /\ ring[i].of = todo'[j].of /\ Range(todo'[j].text) \subseteq Range(ring[i].text)
      <4>1. PICK h \in DOMAIN todo : todo[h] = todo'[j]
        BY <2>2
      <4>2. TodoInv
        BY <1>0
      <4> QED
        BY <4>1, <4>2 DEF TodoInv
    <3>2. (\A j \in DOMAIN todo : Said(todo[j]))'
      BY <1>1, <3>1
    <3>3. Ordered(todo)' /\ conn' = "replay" /\ lost' = lost /\ ring' = ring
      BY <1>0, <1>3, <2>2 DEF Ordered
    <3> QED
      BY <3>1, <3>2, <3>3 DEF TodoInv
  <2>9. /\ desk'.last \in Nat /\ \A n \in Nat : desk'.last < n => desk.last < n /\ e.seq < n
        /\ \A n : Behind(n) => Behind(n)'
    <3>1. desk'.last \in Nat
      BY <2>6
    <3> QED
      BY <2>2, <2>3, <2>6, <3>1 DEF Behind
  <2>10. CursorInv'
    <3> SUFFICES ASSUME NEW n \in sent.marks
                 PROVE  /\ n <= desk'.last => n \in desk'.seen \cup lost
                        /\ desk'.last < n =>
                             \/ n \in lost
                             \/ \E j \in DOMAIN todo' : todo'[j].seq = n
                             \/ \E i \in DOMAIN queue : queue[i].seq = n /\ Behind(n)'
      BY <1>0 DEF CursorInv
    <3>1. ASSUME desk'.last < n
          PROVE  \/ n \in lost
                 \/ \E j \in DOMAIN todo' : todo'[j].seq = n
                 \/ \E i \in DOMAIN queue : queue[i].seq = n /\ Behind(n)'
      <4>1. n \in Nat
        BY <1>0 DEF StreamTypeOK
      <4>2. \/ n \in lost
            \/ \E j \in DOMAIN todo : todo[j].seq = n
            \/ \E i \in DOMAIN queue : queue[i].seq = n /\ Behind(n)
        BY <1>0, <2>9, <3>1, <4>1 DEF StreamInv, CursorInv
      <4>3. ASSUME NEW j \in DOMAIN todo, todo[j].seq = n PROVE \E i \in DOMAIN todo' : todo'[i].seq = n
        <5>1. j # 1
          BY <2>1, <2>3, <2>9, <3>1, <4>1, <4>3
        <5> QED
          BY <2>2, <4>3, <5>1
      <4> QED
        BY <2>9, <4>2, <4>3
    <3> QED
      BY <2>6, <3>1
  <2>11. ASSUME lost = {}, NEW s \in Stream \ torn PROVE Coming(s)'
    <3>1. Coming(s) /\ Kept(s)
      BY <1>0, <2>11 DEF StreamInv, TextInv
    <3>2. /\ Len(desk.text[s]) <= Len(desk'.text[s]) /\ Len(desk.text[s]) \in Nat /\ Len(desk'.text[s]) \in Nat
          /\ \A n \in Range(desk'.text[s]) :
               n \in Range(desk.text[s]) \/ (e.of = s /\ desk.last < e.seq /\ n \in Range(e.text))
          /\ e.of = s /\ (desk.last < e.seq \/ \A n \in Range(e.text) : n <= desk.last) =>
               \A k \in DOMAIN sent.text[s] : Len(desk'.text[s]) < k => sent.text[s][k] \notin Range(e.text)
      <4>1. desk.text[s] \in Seq(Nat) /\ desk'.text[s] \in Seq(Nat)
        BY <1>0, <2>6, Shapes
      <4>2. Len(desk.text[s]) \in Nat /\ Len(desk'.text[s]) \in Nat
        BY <4>1
      <4> QED
        BY <2>6, <2>11, <4>2
    <3>3. ASSUME NEW k \in DOMAIN sent.text[s], NEW n, n = sent.text[s][k], Len(desk'.text[s]) < k
          PROVE  \/ \E j \in DOMAIN todo' : todo'[j].of = s /\ n \in Range(todo'[j].text)
                 \/ \E i \in DOMAIN queue : queue[i].of = s /\ queue[i].seq = n /\ Behind(n)'
      <4>0. k \in Nat
        BY <1>0 DEF StreamTypeOK
      <4>1. \/ \E j \in DOMAIN todo : todo[j].of = s /\ n \in Range(todo[j].text)
            \/ \E i \in DOMAIN queue : queue[i].of = s /\ queue[i].seq = n /\ Behind(n)
        <5>1. Len(desk.text[s]) < k
          BY <3>2, <3>3, <4>0
        <5> QED
          BY <3>1, <3>3, <5>1 DEF Coming
      <4>2. ASSUME NEW j \in DOMAIN todo, todo[j].of = s, n \in Range(todo[j].text)
            PROVE  \E i \in DOMAIN todo' : todo'[i].of = s /\ n \in Range(todo'[i].text)
        <5>1. j # 1
          <6> SUFFICES ASSUME j = 1 PROVE FALSE
            OBVIOUS
          <6>1. e.of = s /\ n \in Range(e.text)
            BY <2>1, <4>2
          <6>2. ~(desk.last < e.seq \/ \A m \in Range(e.text) : m <= desk.last)
            BY <3>2, <3>3, <6>1
          <6>3. e.seq <= desk.last
            BY <2>3, <6>2
          <6>4. \A m \in Range(e.text) : m <= desk.last
            BY <2>1, <2>2, <3>1, <6>1, <6>3 DEF Coming
          <6> QED
            BY <6>2, <6>4
        <5> QED
          BY <2>2, <4>2, <5>1
      <4> QED
        BY <2>9, <4>1, <4>2
    <3>4. ASSUME NEW i \in DOMAIN queue, queue[i].of = s, desk'.last < queue[i].seq
          PROVE  queue[i].seq \notin Range(desk'.text[s])
      <4>0. queue[i].seq \in Nat
        BY <1>0, Shapes, NumbersOf
      <4>1. queue[i].seq \notin Range(desk.text[s]) /\ e.seq < queue[i].seq
        BY <2>9, <3>1, <3>4, <4>0 DEF Coming
      <4>2. e.of = s /\ desk.last < e.seq => queue[i].seq \notin Range(e.text)
        <5> SUFFICES ASSUME e.of = s, desk.last < e.seq, NEW n \in Range(e.text), n = queue[i].seq PROVE FALSE
          OBVIOUS
        <5>1. e.seq < n /\ todo[1] = e /\ 1 \in DOMAIN todo
          BY <2>1, <2>2, <4>1
        <5> QED
          BY <3>1, <5>1 DEF Coming
      <4> QED
        BY <3>2, <4>1, <4>2
    <3>5. ASSUME NEW j \in DOMAIN todo', todo'[j].of = s, NEW n \in Range(todo'[j].text)
          PROVE  /\ todo'[j].seq <= desk'.last => n <= desk'.last
                 /\ desk'.last < todo'[j].seq => n \notin Range(desk'.text[s])
                 /\ desk'.last < todo'[j].seq /\ todo'[j].seq < n => \A i \in DOMAIN queue : queue[i].seq # n
      <4>0. PICK h \in DOMAIN todo : todo[h] = todo'[j]
        BY <2>2
      <4>1. /\ todo'[j].seq <= desk.last => n <= desk.last
            /\ desk.last < todo'[j].seq => n \notin Range(desk.text[s])
            /\ desk.last < todo'[j].seq /\ todo'[j].seq < n => \A i \in DOMAIN queue : queue[i].seq # n
        BY <3>1, <3>5, <4>0 DEF Coming
      <4>2. /\ e.seq < todo'[j].seq /\ todo'[j].seq \in Nat /\ n \in Nat /\ n \notin Numbers(e)
            /\ desk'.last < todo'[j].seq => desk.last < todo'[j].seq
        <5>1. n \in Numbers(todo'[j])
          BY <3>5 DEF Numbers
        <5>2. /\ e.seq < todo'[j].seq /\ todo'[j].seq \in Nat /\ n \in Nat /\ todo'[j].seq <= n
          BY <2>3, <5>1
        <5>3. n \notin Numbers(e)
          <6> SUFFICES ASSUME n \in Numbers(e) PROVE FALSE
            OBVIOUS
          <6>1. n < todo'[j].seq
            BY <2>2
          <6> QED
            BY <5>2, <6>1
        <5> QED
          BY <2>9, <5>2, <5>3
      <4>3. desk'.last < todo'[j].seq => n \notin Range(desk'.text[s])
        BY <2>3, <3>2, <4>1, <4>2
      <4>4. todo'[j].seq <= desk'.last => n <= desk'.last
        <5>1. CASE desk'.last = desk.last
          BY <4>1, <5>1
        <5>2. CASE desk'.last = e.seq
          BY <2>3, <4>2, <5>2
        <5> QED
          BY <2>6, <5>1, <5>2
      <4> QED
        BY <4>1, <4>2, <4>3, <4>4
    <3>6. sent' = sent /\ queue' = queue
      BY <1>0
    <3> QED
      BY <3>3, <3>4, <3>5, <3>6 DEF Coming
  <2>12. TextInv'
    BY <1>0, <2>6, <2>11 DEF TextInv
  <2> QED
    BY <1>1, <2>6, <2>7, <2>8, <2>10, <2>12 DEF StreamInv
<1> QED
  BY <1>2, <1>3 DEF Replay

LEMMA ForwardStep == ASSUME StreamInv, Forward PROVE StreamInv'
<1>0. /\ StreamTypeOK /\ SentInv /\ RingInv /\ TodoInv /\ QueueInv /\ SameBoot /\ Fed
      /\ conn = "live" /\ UNCHANGED <<boot, seq, ring, conn, todo, sent, lost, torn>>
      /\ queue # <<>> /\ desk' = Ingest(desk, Head(queue)) /\ queue' = Tail(queue)
  BY DEF Forward, StreamInv, BootInv, Told, Fed
<1>1. SentInv' /\ RingInv' /\ (\A e : Said(e) <=> Said(e)')
  BY <1>0, SinkStands
<1>2. todo = <<>> /\ DOMAIN todo = {}
  <2>1. todo = <<>>
    BY <1>0 DEF TodoInv
  <2> QED
    BY <2>1, NoEntries
<1>3. PICK e \in Entry : e = queue[1] /\ e = Head(queue)
  BY <1>0, TailParts DEF StreamTypeOK
<1>4. /\ queue' \in Seq(Entry) /\ 1 \in DOMAIN queue
      /\ \A i \in DOMAIN queue' : i + 1 \in DOMAIN queue /\ queue'[i] = queue[i + 1]
      /\ \A i \in DOMAIN queue : i = 1 \/ (i - 1 \in DOMAIN queue' /\ queue[i] = queue'[i - 1])
      /\ Ordered(queue') /\ \A i \in DOMAIN queue' : \A n \in Numbers(e) : n < queue'[i].seq
  BY <1>0, <1>3, TailParts DEF StreamTypeOK, QueueInv
<1>5. /\ Said(e) /\ e.seq \in Nat /\ desk.last \in Nat /\ Range(e.text) \subseteq {e.seq}
      /\ \A i \in DOMAIN queue' : e.seq < queue'[i].seq /\ queue'[i].seq \in Nat
  <2>1. Said(e) /\ Range(e.text) \subseteq {e.seq}
    BY <1>0, <1>3, <1>4 DEF QueueInv
  <2>2. e.seq \in Nat /\ desk.last \in Nat /\ e.seq \in Numbers(e)
    BY <1>0, Shapes, NumbersOf DEF Numbers
  <2>3. ASSUME NEW i \in DOMAIN queue' PROVE e.seq < queue'[i].seq /\ queue'[i].seq \in Nat
    <3>1. queue'[i] \in Entry
      BY <1>4
    <3> QED
      BY <1>4, <2>2, <3>1, NumbersOf
  <2> QED
    BY <2>1, <2>2, <2>3
<1>6. ASSUME NEW n \in sent.marks, desk.last < n, n <= e.seq PROVE n \in lost \/ n = e.seq
  <2>0. n \in Nat
    BY <1>0 DEF StreamTypeOK
  <2>1. n \in lost \/ \E i \in DOMAIN queue : queue[i].seq = n
    BY <1>0, <1>2, <1>6 DEF StreamInv, CursorInv
  <2>2. ASSUME NEW i \in DOMAIN queue, queue[i].seq = n PROVE n = e.seq
    BY <1>3, <1>4, <1>5, <1>6, <2>0, <2>2
  <2> QED
    BY <2>1, <2>2
<1>7. ASSUME lost = {}, NEW s \in Stream \ torn
      PROVE  /\ \A k \in DOMAIN sent.text[s] : Len(desk.text[s]) < k =>
                  e.seq <= sent.text[s][k] /\ (e.of # s => e.seq < sent.text[s][k])
             /\ e.of = s /\ desk.last < e.seq => \A n \in Range(e.text) :
                  /\ n \notin Range(desk.text[s])
                  /\ n <= e.seq \/ \E i \in DOMAIN ring :
                       ring[i].of = s /\ ring[i].seq = e.seq /\ n \in Range(ring[i].text)
  <2>1. Coming(s)
    BY <1>0, <1>7 DEF StreamInv, TextInv
  <2>2. ASSUME NEW k \in DOMAIN sent.text[s], NEW n, n = sent.text[s][k], Len(desk.text[s]) < k
        PROVE  e.seq <= n /\ (e.of # s => e.seq < n)
    <3>1. PICK i \in DOMAIN queue : queue[i].of = s /\ queue[i].seq = n
      BY <1>2, <2>1, <2>2 DEF Coming
    <3>2. CASE i = 1
      BY <1>3, <1>5, <3>1, <3>2
    <3>3. CASE i # 1
      <4>1. e.seq < queue[i].seq /\ queue[i].seq \in Nat
        BY <1>4, <1>5, <3>3
      <4> QED
        BY <1>5, <3>1, <4>1
    <3> QED
      BY <3>2, <3>3
  <2>3. ASSUME e.of = s, desk.last < e.seq, NEW n \in Range(e.text)
        PROVE  n \notin Range(desk.text[s]) /\ n <= e.seq
    <3>1. n = e.seq
      BY <1>5
    <3> QED
      BY <1>3, <1>4, <1>5, <2>1, <2>3, <3>1 DEF Coming
  <2> QED
    BY <2>2, <2>3
<1>8. /\ desk' \in [boot : Nat, last : Nat, seen : SUBSET Nat, text : [Stream -> Seq(Nat)]]
      /\ BootInv'
      /\ desk.last <= desk'.last /\ e.seq <= desk'.last
      /\ desk'.last = desk.last \/ (desk'.last = e.seq /\ desk.last < e.seq)
      /\ \A n \in sent.marks : n <= desk'.last => n \in desk'.seen \cup lost
      /\ lost = {} => \A s \in Stream \ torn :
           /\ Kept(s)' /\ Len(desk.text[s]) <= Len(desk'.text[s])
           /\ \A n \in Range(desk'.text[s]) :
                n \in Range(desk.text[s]) \/ (e.of = s /\ desk.last < e.seq /\ n \in Range(e.text))
           /\ e.of = s /\ (desk.last < e.seq \/ \A n \in Range(e.text) : n <= desk.last) =>
                \A k \in DOMAIN sent.text[s] : Len(desk'.text[s]) < k => sent.text[s][k] \notin Range(e.text)
  <2>1. \A n \in sent.marks : desk.last < n /\ n < e.seq => n \in lost
    <3> SUFFICES ASSUME NEW n \in sent.marks, desk.last < n, n < e.seq PROVE n \in lost
      OBVIOUS
    <3>1. n \in Nat
      BY <1>0 DEF StreamTypeOK
    <3>2. n <= e.seq /\ n # e.seq
      BY <1>5, <3>1
    <3> QED
      BY <1>6, <3>2
  <2>2. desk' = Ingest(desk, e) /\ SameBoot /\ Said(e) /\ UNCHANGED <<boot, seq, ring, sent, lost, torn>>
    BY <1>0, <1>3, <1>5
  <2> QED
    BY <1>7, <2>1, <2>2, FeedParts
<1>9. desk'.last \in Nat /\ \A n \in Nat : desk'.last < n => desk.last < n /\ e.seq < n
  <2>1. desk'.last \in Nat
    BY <1>8
  <2> QED
    BY <1>5, <1>8, <2>1
<1>10. \A n : Behind(n)'
  BY <1>0, <1>2 DEF Behind
<1>11. StreamTypeOK' /\ TodoInv'
  BY <1>0, <1>1, <1>4, <1>8 DEF StreamTypeOK, TodoInv
<1>12. QueueInv'
  <2>1. ASSUME NEW i \in DOMAIN queue' PROVE Said(queue'[i]) /\ Range(queue'[i].text) \subseteq {queue'[i].seq}
    <3>1. PICK h \in DOMAIN queue : queue[h] = queue'[i]
      BY <1>4
    <3>2. QueueInv
      BY <1>0
    <3> QED
      BY <3>1, <3>2 DEF QueueInv
  <2>2. (\A i \in DOMAIN queue : Said(queue[i]) /\ Range(queue[i].text) \subseteq {queue[i].seq})'
    BY <1>1, <2>1
  <2>3. Ordered(queue)' /\ conn' # "none"
    BY <1>0, <1>4 DEF Ordered
  <2> QED
    BY <2>2, <2>3 DEF QueueInv
<1>13. CursorInv'
  <2> SUFFICES ASSUME NEW n \in sent.marks
               PROVE  /\ n <= desk'.last => n \in desk'.seen \cup lost
                      /\ desk'.last < n => n \in lost \/ \E i \in DOMAIN queue' : queue'[i].seq = n
    BY <1>0, <1>10 DEF CursorInv
  <2>1. ASSUME desk'.last < n PROVE n \in lost \/ \E i \in DOMAIN queue' : queue'[i].seq = n
    <3>1. n \in Nat
      BY <1>0 DEF StreamTypeOK
    <3>2. n \in lost \/ \E i \in DOMAIN queue : queue[i].seq = n
      BY <1>0, <1>2, <1>9, <2>1, <3>1 DEF StreamInv, CursorInv
    <3>3. ASSUME NEW i \in DOMAIN queue, queue[i].seq = n PROVE \E j \in DOMAIN queue' : queue'[j].seq = n
      <4>1. i # 1
        BY <1>3, <1>5, <1>9, <2>1, <3>1, <3>3
      <4> QED
        BY <1>4, <3>3, <4>1
    <3> QED
      BY <3>2, <3>3
  <2> QED
    BY <1>8, <2>1
<1>14. ASSUME lost = {}, NEW s \in Stream \ torn PROVE Coming(s)'
  <2>1. Coming(s) /\ Kept(s)
    BY <1>0, <1>14 DEF StreamInv, TextInv
  <2>2. /\ Len(desk.text[s]) <= Len(desk'.text[s]) /\ Len(desk.text[s]) \in Nat /\ Len(desk'.text[s]) \in Nat
        /\ \A n \in Range(desk'.text[s]) :
             n \in Range(desk.text[s]) \/ (e.of = s /\ desk.last < e.seq /\ n \in Range(e.text))
        /\ e.of = s /\ (desk.last < e.seq \/ \A n \in Range(e.text) : n <= desk.last) =>
             \A k \in DOMAIN sent.text[s] : Len(desk'.text[s]) < k => sent.text[s][k] \notin Range(e.text)
    <3>1. desk.text[s] \in Seq(Nat) /\ desk'.text[s] \in Seq(Nat)
      BY <1>0, <1>8, Shapes
    <3>2. Len(desk.text[s]) \in Nat /\ Len(desk'.text[s]) \in Nat
      BY <3>1
    <3> QED
      BY <1>8, <1>14, <3>2
  <2>3. ASSUME NEW k \in DOMAIN sent.text[s], NEW n, n = sent.text[s][k], Len(desk'.text[s]) < k
        PROVE  \E i \in DOMAIN queue' : queue'[i].of = s /\ queue'[i].seq = n
    <3>0. k \in Nat
      BY <1>0 DEF StreamTypeOK
    <3>1. Len(desk.text[s]) < k
      BY <2>2, <2>3, <3>0
    <3>2. PICK i \in DOMAIN queue : queue[i].of = s /\ queue[i].seq = n
      BY <1>2, <2>1, <2>3, <3>1 DEF Coming
    <3>3. i # 1
      <4> SUFFICES ASSUME i = 1 PROVE FALSE
        OBVIOUS
      <4>1. e.of = s /\ e.seq = n
        BY <1>3, <3>2
      <4>2. n \in Range(e.text)
        BY <1>0, <1>5, <1>14, <4>1, SaidParts, StreamAssumption
      <4>3. ~(desk.last < e.seq \/ \A m \in Range(e.text) : m <= desk.last)
        BY <2>2, <2>3, <4>1, <4>2
      <4> QED
        BY <1>5, <4>3
    <3> QED
      BY <1>4, <3>2, <3>3
  <2>4. ASSUME NEW i \in DOMAIN queue', queue'[i].of = s, desk'.last < queue'[i].seq
        PROVE  queue'[i].seq \notin Range(desk'.text[s])
    <3>1. PICK h \in DOMAIN queue : queue[h] = queue'[i]
      BY <1>4
    <3>2. queue'[i].seq \notin Range(desk.text[s]) /\ e.seq < queue'[i].seq /\ queue'[i].seq \in Nat
      BY <1>5, <1>9, <2>1, <2>4, <3>1 DEF Coming
    <3>3. queue'[i].seq \notin Range(e.text)
      BY <1>5, <3>2
    <3> QED
      BY <2>2, <3>2, <3>3
  <2>5. sent' = sent /\ DOMAIN todo' = {}
    BY <1>0, <1>2
  <2> QED
    BY <1>10, <2>3, <2>4, <2>5 DEF Coming
<1>15. TextInv'
  BY <1>0, <1>8, <1>14 DEF TextInv
<1> QED
  BY <1>1, <1>8, <1>11, <1>12, <1>13, <1>15 DEF StreamInv

------------------------------------------------------------------------------
(* An event is emitted.                                                    *)

LEMMA EmitSent ==
  ASSUME StreamTypeOK, SentInv, NEW s \in Stream \cup {"mark"}, Emit(s)
  PROVE  /\ Event(seq + 1, s) \in Entry /\ SentInv'
         /\ sent' \in [marks : SUBSET Nat, text : [Stream -> Seq(Nat)]]
         /\ sent'.marks = IF s = "mark" THEN sent.marks \cup {seq + 1} ELSE sent.marks
         /\ \A r \in Stream :
              /\ r = s => sent'.text[r] = Append(sent.text[r], seq + 1)
              /\ r # s => sent'.text[r] = sent.text[r]
              /\ Len(sent.text[r]) \in Nat /\ Len(sent'.text[r]) \in Nat /\ Len(sent.text[r]) <= Len(sent'.text[r])
              /\ \A k \in DOMAIN sent.text[r] : k \in DOMAIN sent'.text[r] /\ sent'.text[r][k] = sent.text[r][k]
              /\ \A k \in DOMAIN sent'.text[r] :
                   k \in DOMAIN sent.text[r] \/ (r = s /\ k = Len(sent.text[r]) + 1 /\ sent'.text[r][k] = seq + 1)
<1>0. /\ seq \in Nat /\ seq' = seq + 1 /\ sent \in [marks : SUBSET Nat, text : [Stream -> Seq(Nat)]]
  BY DEF Emit, StreamTypeOK
<1>1. Event(seq + 1, s) \in Entry
  BY <1>0 DEF Event, Entry
<1>2. /\ sent' \in [marks : SUBSET Nat, text : [Stream -> Seq(Nat)]]
      /\ sent'.marks = IF s = "mark" THEN sent.marks \cup {seq + 1} ELSE sent.marks
      /\ \A r \in Stream :
           /\ r = s => sent'.text[r] = Append(sent.text[r], seq + 1)
           /\ r # s => sent'.text[r] = sent.text[r]
  <2>1. CASE s = "mark"
    <3>1. sent' = [sent EXCEPT !.marks = @ \cup {seq + 1}]
      BY <2>1 DEF Emit, Event
    <3>a. PICK x : x = sent.marks \cup {seq + 1}
      OBVIOUS
    <3>b. x \in SUBSET Nat
      BY <1>0, <3>a
    <3>2. sent' \in [marks : SUBSET Nat, text : [Stream -> Seq(Nat)]] /\ sent'.marks = sent.marks \cup {seq + 1} /\ sent'.text = sent.text
      BY <1>0, <3>1, <3>a, <3>b
    <3> QED
      BY <2>1, <3>2, StreamAssumption
  <2>2. CASE s # "mark"
    <3>1. sent' = [sent EXCEPT !.text[s] = Append(@, seq + 1)]
      BY <2>2 DEF Emit, Event
    <3>2. PICK x : x = [sent.text EXCEPT ![s] = Append(@, seq + 1)]
      OBVIOUS
    <3>3. /\ x \in [Stream -> Seq(Nat)]
          /\ \A r \in Stream : /\ r = s => x[r] = Append(sent.text[r], seq + 1)
                               /\ r # s => x[r] = sent.text[r]
      <4>1. \A r \in Stream : Append(sent.text[r], seq + 1) \in Seq(Nat)
        BY <1>0
      <4> QED
        BY <1>0, <2>2, <3>2, <4>1
    <3>4. sent' \in [marks : SUBSET Nat, text : [Stream -> Seq(Nat)]] /\ sent'.marks = sent.marks /\ sent'.text = x
      BY <1>0, <3>1, <3>2, <3>3
    <3> QED
      BY <2>2, <3>3, <3>4
  <2> QED
    BY <2>1, <2>2
<1>3. ASSUME NEW r \in Stream
      PROVE  /\ Len(sent.text[r]) \in Nat /\ Len(sent'.text[r]) \in Nat /\ Len(sent.text[r]) <= Len(sent'.text[r])
             /\ \A k \in DOMAIN sent.text[r] : k \in DOMAIN sent'.text[r] /\ sent'.text[r][k] = sent.text[r][k]
             /\ \A k \in DOMAIN sent'.text[r] :
                  k \in DOMAIN sent.text[r] \/ (r = s /\ k = Len(sent.text[r]) + 1 /\ sent'.text[r][k] = seq + 1)
  <2>1. PICK t \in Seq(Nat) : t = sent.text[r]
    BY <1>0
  <2>2. PICK u : u = sent'.text[r]
    OBVIOUS
  <2>3. (r = s => u = Append(t, seq + 1)) /\ (r # s => u = t)
    BY <1>2, <2>1, <2>2
  <2>4. /\ Len(t) \in Nat /\ Len(u) \in Nat /\ Len(t) <= Len(u)
        /\ \A k \in DOMAIN t : k \in DOMAIN u /\ u[k] = t[k]
        /\ \A k \in DOMAIN u : k \in DOMAIN t \/ (r = s /\ k = Len(t) + 1 /\ u[k] = seq + 1)
    <3>1. CASE r = s
      <4>1. PICK n \in Nat : n = seq + 1 /\ u = Append(t, n)
        BY <1>0, <2>3, <3>1
      <4>2. /\ Len(t) \in Nat /\ Len(u) = Len(t) + 1 /\ DOMAIN t = 1..Len(t) /\ DOMAIN u = 1..Len(t) + 1
            /\ u[Len(t) + 1] = n /\ \A k \in 1..Len(t) : u[k] = t[k]
        BY <4>1
      <4> QED
        BY <3>1, <4>1, <4>2
    <3>2. CASE r # s
      BY <2>3, <3>2
    <3> QED
      BY <3>1, <3>2
  <2> QED
    BY <2>1, <2>2, <2>4
<1>4. SentInv'
  <2>1. ASSUME NEW m \in sent'.marks PROVE 0 < m /\ m <= seq'
    <3>1. m \in sent.marks \/ m = seq + 1
      BY <1>2
    <3>2. m \in sent.marks => m \in Nat /\ 0 < m /\ m <= seq
      BY <1>0 DEF SentInv
    <3> QED
      BY <1>0, <3>1, <3>2
  <2>2. ASSUME NEW r \in Stream, NEW i \in DOMAIN sent'.text[r]
        PROVE  /\ 0 < sent'.text[r][i] /\ sent'.text[r][i] <= seq' /\ sent'.text[r][i] \notin sent'.marks
               /\ \A j \in DOMAIN sent'.text[r] : i < j => sent'.text[r][i] < sent'.text[r][j]
    <3>0. PICK t \in Seq(Nat), u \in Seq(Nat) : t = sent.text[r] /\ u = sent'.text[r]
      BY <1>0, <1>2
    <3>1. /\ Len(t) \in Nat /\ DOMAIN t = 1..Len(t)
          /\ \A k \in DOMAIN t : k \in DOMAIN u /\ u[k] = t[k] /\ t[k] \in Nat
          /\ \A k \in DOMAIN u : k \in DOMAIN t \/ (r = s /\ k = Len(t) + 1 /\ u[k] = seq + 1)
      BY <1>3, <3>0
    <3>2. /\ \A k \in DOMAIN t : 0 < t[k] /\ t[k] <= seq /\ t[k] \notin sent.marks
          /\ \A k \in DOMAIN t : \A j \in DOMAIN t : k < j => t[k] < t[j]
      BY <3>0 DEF SentInv
    <3>3. CASE i \in DOMAIN t
      <4>1. u[i] \in Nat /\ u[i] = t[i] /\ 0 < t[i] /\ t[i] <= seq /\ t[i] \notin sent.marks
        BY <3>1, <3>2, <3>3
      <4>2. t[i] \notin sent'.marks
        BY <1>0, <1>2, <4>1, SMTT(30)
      <4>3. ASSUME NEW j \in DOMAIN u, i < j PROVE u[i] < u[j]
        <5>1. CASE j \in DOMAIN t
          BY <3>1, <3>2, <3>3, <4>3, <5>1
        <5>2. CASE u[j] = seq + 1
          <6>1. PICK m \in Nat : m = t[i] /\ m <= seq
            BY <4>1
          <6> QED
            BY <1>0, <4>1, <5>2, <6>1
        <5> QED
          BY <3>1, <5>1, <5>2
      <4> QED
        BY <1>0, <3>0, <4>1, <4>2, <4>3
    <3>4. CASE r = s /\ i = Len(t) + 1 /\ u[i] = seq + 1
      <4>1. sent'.marks = sent.marks
        BY <1>2, <3>4, StreamAssumption
      <4>2. seq + 1 \notin sent.marks
        <5>1. \A m \in sent.marks : m \in Nat /\ m <= seq
          BY <1>0 DEF SentInv
        <5> QED
          BY <1>0, <5>1
      <4>3. \A j \in DOMAIN u : ~(i < j)
        BY <3>1, <3>4, SMTT(30)
      <4> QED
        BY <1>0, <3>0, <3>4, <4>1, <4>2, <4>3
    <3> QED
      BY <2>2, <3>0, <3>1, <3>3, <3>4
  <2> QED
    BY <2>1, <2>2 DEF SentInv
<1> QED
  BY <1>1, <1>2, <1>3, <1>4

\* What was said stays said, and the new event is.
LEMMA EmitSaid ==
  ASSUME StreamTypeOK, SentInv, NEW s \in Stream \cup {"mark"}, Emit(s)
  PROVE  /\ \A x \in Entry : Said(x) => Said(x)'
         /\ \A e : e = Event(seq + 1, s) => Said(e)'
<1>0. seq \in Nat
  BY DEF StreamTypeOK
<1>1. ASSUME NEW x \in Entry, Said(x) PROVE Said(x)'
  <2>1. CASE x.of = "mark"
    BY <1>1, <2>1, EmitSent DEF Said
  <2>2. CASE x.of # "mark"
    <3>1. PICK a \in Nat : /\ a + Len(x.text) <= Len(sent.text[x.of])
                           /\ \A k \in 1..Len(x.text) : x.text[k] = sent.text[x.of][a + k]
      BY <1>1, <2>2 DEF Said, Piece
    <3>2. /\ x.of \in Stream /\ Len(x.text) \in Nat
          /\ Len(sent.text[x.of]) \in Nat /\ Len(sent'.text[x.of]) \in Nat /\ Len(sent.text[x.of]) <= Len(sent'.text[x.of])
          /\ \A k \in DOMAIN sent.text[x.of] : sent'.text[x.of][k] = sent.text[x.of][k]
          /\ DOMAIN sent.text[x.of] = 1..Len(sent.text[x.of])
      <4>1. x.of \in Stream /\ x.text \in Seq(Nat)
        BY <1>1, <2>2, NumbersOf
      <4>2. DOMAIN sent.text[x.of] = 1..Len(sent.text[x.of]) /\ Len(x.text) \in Nat
        BY <4>1, Shapes, RangeOf
      <4> QED
        BY <4>1, <4>2, EmitSent
    <3>3. \A k \in 1..Len(x.text) : a + k \in DOMAIN sent.text[x.of] /\ x.text[k] = sent'.text[x.of][a + k]
      BY <3>1, <3>2
    <3>4. a + Len(x.text) <= Len(sent'.text[x.of])
      <4>1. \A k, m, n \in Nat : a + k <= m /\ m <= n => a + k <= n
        OBVIOUS
      <4>2. a + Len(x.text) <= Len(sent.text[x.of])
        BY <3>1
      <4>3. /\ Len(x.text) \in Nat /\ Len(sent.text[x.of]) \in Nat
            /\ Len(sent'.text[x.of]) \in Nat /\ Len(sent.text[x.of]) <= Len(sent'.text[x.of])
        BY <3>2
      <4> QED
        BY <4>1, <4>2, <4>3
    <3>5. Piece(x)'
      BY <3>3, <3>4 DEF Piece
    <3> QED
      BY <1>1, <2>2, <3>5 DEF Said
  <2> QED
    BY <2>1, <2>2
<1>2. ASSUME NEW e, e = Event(seq + 1, s) PROVE Said(e)'
  <2>1. /\ e.seq = seq + 1 /\ e.of = s
        /\ s = "mark" => e.text = <<>>
        /\ s # "mark" => e.text = <<seq + 1>>
    BY <1>2 DEF Event
  <2>2. CASE s = "mark"
    BY <1>0, <2>1, <2>2, EmitSent DEF Said
  <2>3. CASE s # "mark"
    <3>0. \A n : <<n>> # <<>> /\ Len(<<n>>) = 1 /\ <<n>>[1] = n
      OBVIOUS
    <3>1. s \in Stream /\ e.text # <<>> /\ Len(e.text) = 1 /\ e.text[1] = seq + 1
      BY <2>1, <2>3, <3>0
    <3>2. PICK t \in Seq(Nat) : t = sent.text[s]
      BY <3>1, Shapes
    <3>3. /\ sent'.text[s] = Append(t, seq + 1) /\ Len(t) \in Nat /\ Len(sent'.text[s]) = Len(t) + 1
          /\ sent'.text[s][Len(t) + 1] = seq + 1
      <4>1. sent'.text[s] = Append(t, seq + 1)
        BY <3>1, <3>2, EmitSent
      <4>2. PICK n \in Nat : n = seq + 1
        BY <1>0
      <4>3. Len(t) \in Nat /\ Len(Append(t, n)) = Len(t) + 1 /\ Append(t, n)[Len(t) + 1] = n
        OBVIOUS
      <4> QED
        BY <4>1, <4>2, <4>3
    <3>4. Piece(e)'
      <4>1. Len(t) + Len(e.text) <= Len(sent'.text[e.of])
        BY <2>1, <3>1, <3>3
      <4>2. \A k \in 1..Len(e.text) : e.text[k] = sent'.text[e.of][Len(t) + k]
        BY <2>1, <3>1, <3>3
      <4> QED
        BY <3>3, <4>1, <4>2 DEF Piece
    <3> QED
      BY <2>1, <2>3, <3>1, <3>4 DEF Said
  <2> QED
    BY <2>2, <2>3
<1> QED
  BY <1>1, <1>2

\* The ring keeps every entry, or what it forgets is counted as lost.
LEMMA EmitRing ==
  ASSUME StreamTypeOK, SentInv, RingInv, NEW s \in Stream \cup {"mark"}, Emit(s)
  PROVE  /\ ring' \in Seq(Entry) /\ RingInv'
         /\ lost' = {} => \A i \in DOMAIN ring : \E j \in DOMAIN ring' :
              ring'[j].seq = ring[i].seq /\ ring'[j].of = ring[i].of /\ Range(ring[i].text) \subseteq Range(ring'[j].text)
<1>0. PICK n \in Nat : n = seq + 1
  BY DEF StreamTypeOK
<1>1. PICK e \in Entry : e = Event(n, s)
  BY <1>0, EmitSent
<1>2. /\ seq \in Nat /\ n \in Nat /\ seq' = n /\ ring \in Seq(Entry) /\ Len(ring) \in Nat /\ DOMAIN ring = 1..Len(ring)
      /\ ring' = Remembered(e) /\ lost' = lost \cup Forgotten(e) \cup Dropped
  BY <1>0, <1>1 DEF Emit, StreamTypeOK
<1>3. /\ e.seq = n /\ e.of = s /\ e.seq \in Numbers(e) /\ (s # "mark" => n \in Range(e.text))
      /\ (s = "mark" => e.text = <<>>) /\ (s # "mark" => e.text = <<n>>)
  <2>1. e.seq = n /\ e.of = s /\ (s = "mark" => e.text = <<>>) /\ (s # "mark" => e.text = <<n>>)
    BY <1>1 DEF Event
  <2>2. n \in Range(<<n>>)
    BY DEF Range
  <2> QED
    BY <2>1, <2>2 DEF Numbers
<1>4. /\ \A x \in Entry : Said(x) => Said(x)'
      /\ Said(e)'
  BY <1>0, <1>1, EmitSaid
<1>5. /\ \A m \in sent'.marks : m \in sent.marks \/ (m = n /\ s = "mark")
      /\ \A r \in Stream : \A k \in DOMAIN sent'.text[r] :
           \/ k \in DOMAIN sent.text[r] /\ sent'.text[r][k] = sent.text[r][k]
           \/ r = s /\ sent'.text[r][k] = n
  BY <1>0, EmitSent
<1>6. \A i \in DOMAIN ring :
        /\ ring[i] \in Entry /\ Said(ring[i]) /\ ring[i].seq \in Nat /\ ring[i].seq < n
        /\ \A m \in Numbers(ring[i]) : m \in Nat /\ m < n
  <2> SUFFICES ASSUME NEW i \in DOMAIN ring
               PROVE  /\ ring[i] \in Entry /\ Said(ring[i]) /\ ring[i].seq \in Nat /\ ring[i].seq < n
                      /\ \A m \in Numbers(ring[i]) : m \in Nat /\ m < n
    OBVIOUS
  <2>1. PICK x : x = ring[i]
    OBVIOUS
  <2>2. x \in Entry /\ Said(x)
    BY <2>1, Shapes DEF RingInv
  <2>3. x.seq \in Nat /\ x.seq <= seq /\ Numbers(x) \subseteq Nat /\ \A m \in Numbers(x) : m <= seq
    BY <2>2, NumbersOf, SaidParts
  <2>4. \A m \in Nat : m <= seq => m < n
    BY <1>0, <1>2
  <2> QED
    BY <2>1, <2>2, <2>3, <2>4
\* What is left to show once it is known where the ring's entries went.
<1>7. ASSUME NEW q, ring' = q, q \in Seq(Entry), \A j \in DOMAIN q : Said(q[j])', Ordered(q), q # <<>>, n \in Numbers(Last(q)),
             \A i \in DOMAIN ring : Numbers(ring[i]) \subseteq lost' \/ \E j \in DOMAIN q :
               q[j].seq = ring[i].seq /\ q[j].of = ring[i].of /\ Range(ring[i].text) \subseteq Range(q[j].text),
             s = "mark" => \E j \in DOMAIN q : q[j].seq = n,
             s # "mark" => \E j \in DOMAIN q : q[j].of = s /\ n \in Range(q[j].text)
      PROVE  /\ ring' \in Seq(Entry) /\ RingInv'
             /\ lost' = {} => \A i \in DOMAIN ring : \E j \in DOMAIN ring' :
                  ring'[j].seq = ring[i].seq /\ ring'[j].of = ring[i].of /\ Range(ring[i].text) \subseteq Range(ring'[j].text)
  <2>1. lost \subseteq lost'
    BY <1>2
  <2>2. ASSUME NEW m \in sent'.marks PROVE m \in lost' \/ \E j \in DOMAIN q : q[j].seq = m
    <3>1. CASE m \in sent.marks
      <4>1. m \in lost \/ \E i \in DOMAIN ring : ring[i].seq = m
        BY <3>1 DEF RingInv
      <4> QED
        BY <1>7, <2>1, <4>1 DEF Numbers
    <3> QED
      BY <1>5, <1>7, <3>1
  <2>3. ASSUME NEW r \in Stream, NEW k \in DOMAIN sent'.text[r]
        PROVE  sent'.text[r][k] \in lost' \/ \E j \in DOMAIN q : q[j].of = r /\ sent'.text[r][k] \in Range(q[j].text)
    <3>0. PICK m : m = sent'.text[r][k]
      OBVIOUS
    <3>1. CASE k \in DOMAIN sent.text[r] /\ m = sent.text[r][k]
      <4>1. m \in lost \/ \E i \in DOMAIN ring : ring[i].of = r /\ m \in Range(ring[i].text)
        BY <3>1 DEF RingInv
      <4> QED
        BY <1>7, <2>1, <3>0, <4>1 DEF Numbers
    <3>2. CASE r = s /\ m = n
      BY <1>7, <3>0, <3>2, StreamAssumption
    <3> QED
      BY <1>5, <3>0, <3>1, <3>2
  <2>4. (\A i \in DOMAIN ring : Said(ring[i]))' /\ Ordered(ring)' /\ seq' \in Numbers(Last(ring'))
    BY <1>2, <1>7 DEF Ordered, Numbers
  <2>5. \A i \in DOMAIN ring : Numbers(ring[i]) # {}
    BY DEF Numbers
  <2>6. RingInv'
    BY <1>7, <2>2, <2>3, <2>4 DEF RingInv, Numbers
  <2> QED
    BY <1>7, <2>5, <2>6
<1>8. CASE Merges(e)
  <2>1. PICK l \in Entry : l = ring[Len(ring)] /\ l.of = s /\ s # "mark"
    BY <1>2, <1>3, <1>6, <1>8 DEF Merges, Last
  <2>2. Len(ring) >= 1 /\ Len(ring) \in DOMAIN ring
    BY <1>2, <1>8 DEF Merges
  <2>3. PICK t \in Seq(Nat) : t = l.text /\ Len(t) \in Nat
    BY <2>1, NumbersOf
  <2>4. PICK u : u = t \o <<n>>
    OBVIOUS
  <2>5. /\ u \in Seq(Nat) /\ Len(u) = Len(t) + 1 /\ u[Len(t) + 1] = n
        /\ \A k \in 1..Len(t) : u[k] = t[k]
        /\ Range(t) \subseteq Range(u) /\ n \in Range(u) /\ Range(u) \subseteq Range(t) \cup {n}
    BY <2>3, <2>4, LongerText
  <2>6. PICK x : x = [l EXCEPT !.text = u]
    OBVIOUS
  <2>7. x \in Entry /\ x.seq = l.seq /\ x.of = s /\ x.text = u
    <3>1. l \in [seq : Nat, of : Stream \cup {"mark"}, text : Seq(Nat)]
      BY DEF Entry
    <3> QED
      BY <2>1, <2>5, <2>6, <3>1 DEF Entry
  <2>8. PICK q : q = Front(ring) \o <<x>>
    OBVIOUS
  <2>9. ring # <<>>
    BY <1>8 DEF Merges
  <2>11. /\ q \in Seq(Entry) /\ Len(q) = Len(ring) /\ DOMAIN q = DOMAIN ring /\ q[Len(ring)] = x /\ q # <<>> /\ Last(q) = x
         /\ \A i \in DOMAIN ring : i # Len(ring) => q[i] = ring[i] /\ i < Len(ring)
    BY <1>2, <2>7, <2>8, <2>9, LastReplaced
  <2>12. ring' = q
    <3>1. Joined(e) = x
      BY <1>3, <2>1, <2>3, <2>4, <2>6 DEF Joined, Last
    <3> QED
      BY <1>2, <1>8, <2>8, <3>1 DEF Remembered
  <2>14. Said(x)'
    <3>0. s \in Stream
      BY <2>1
    <3>1. PICK F \in Seq(Nat) : F = sent.text[s]
      BY <3>0, Shapes
    <3>2. PICK G \in Seq(Nat) : G = sent'.text[s] /\ G = Append(F, n)
      BY <1>0, <3>0, <3>1, EmitSent
    <3>3. /\ Len(F) \in Nat /\ DOMAIN F = 1..Len(F) /\ Len(G) = Len(F) + 1 /\ G[Len(F) + 1] = n
          /\ \A k \in 1..Len(F) : G[k] = F[k]
      BY <3>2
    <3>4. /\ \A k \in DOMAIN F : F[k] \in Nat /\ F[k] <= seq
          /\ \A j \in DOMAIN F : \A k \in DOMAIN F : j < k => F[j] < F[k]
      BY <3>0, <3>1 DEF SentInv
    <3>5. PICK a \in Nat : a + Len(t) <= Len(F) /\ \A k \in 1..Len(t) : t[k] = F[a + k]
      BY <1>6, <2>1, <2>2, <2>3, <3>1 DEF Said, Piece
    <3>6. t # <<>> /\ t[1] = l.seq /\ l.seq \in Range(t)
      BY <1>6, <2>1, <2>2, <2>3, SaidParts DEF Said
    <3>7. seq \in Range(t)
      <4>1. seq \in Numbers(l)
        BY <1>8, <2>1 DEF RingInv, Merges, Last
      <4> QED
        BY <2>3, <3>6, <4>1 DEF Numbers
    <3>8. PICK k \in 1..Len(t) : seq = t[k]
      BY <2>3, <3>7, RangeOf
    <3>9. \A i \in DOMAIN F : F[i] <= t[k]
      BY <3>4, <3>8
    <3>10. a + Len(t) = Len(F)
      BY <2>3, <3>4, <3>5, <3>9, PieceEnds
    <3>11. a + Len(u) <= Len(G) /\ \A j \in 1..Len(u) : u[j] = G[a + j]
      <4>1. /\ a + Len(t \o <<n>>) <= Len(Append(F, n))
            /\ \A j \in 1..Len(t \o <<n>>) : (t \o <<n>>)[j] = Append(F, n)[a + j]
        <5>1. \A h \in 1..Len(t) : t[h] = F[a + h]
          BY <3>5
        <5> QED
          BY <3>10, <5>1, PieceGrows
      <4> QED
        BY <2>4, <3>2, <4>1
    <3>14. Piece(x)'
      BY <2>7, <3>2, <3>11 DEF Piece
    <3>15. u # <<>> /\ u[1] = x.seq
      <4>1. Len(t) >= 1
        BY <2>3, <3>6
      <4> QED
        BY <2>3, <2>5, <2>7, <3>6, <4>1
    <3> QED
      BY <2>1, <2>7, <3>14, <3>15 DEF Said
  <2>15. \A j \in DOMAIN q : Said(q[j])'
    BY <1>4, <1>6, <2>11, <2>14
  <2>16. Ordered(q)
    <3> SUFFICES ASSUME NEW i \in DOMAIN q, NEW j \in DOMAIN q, i < j, NEW m \in Numbers(q[i]) PROVE m < q[j].seq
      BY DEF Ordered
    <3>1. q[i] = ring[i] /\ q[j].seq = ring[j].seq
      <4>1. i # Len(ring)
        BY <1>2, <2>11
      <4>2. q[j] = ring[j] \/ (q[j] = x /\ ring[j] = l)
        BY <2>1, <2>11
      <4> QED
        BY <2>7, <2>11, <4>1, <4>2
    <3> QED
      BY <2>11, <3>1 DEF RingInv, Ordered
  <2>17. \A i \in DOMAIN ring : \E j \in DOMAIN q :
           q[j].seq = ring[i].seq /\ q[j].of = ring[i].of /\ Range(ring[i].text) \subseteq Range(q[j].text)
    <3> SUFFICES ASSUME NEW i \in DOMAIN ring
                 PROVE  q[i].seq = ring[i].seq /\ q[i].of = ring[i].of /\ Range(ring[i].text) \subseteq Range(q[i].text)
      BY <2>11
    <3>1. CASE i = Len(ring)
      BY <2>1, <2>3, <2>7, <2>11, <2>5, <3>1
    <3>2. CASE i # Len(ring)
      BY <2>11, <3>2
    <3> QED
      BY <3>1, <3>2
  <2>18. n \in Numbers(Last(q)) /\ \E j \in DOMAIN q : q[j].of = s /\ n \in Range(q[j].text)
    BY <2>2, <2>7, <2>11, <2>5 DEF Numbers
  <2> QED
    BY <1>7, <2>1, <2>11, <2>12, <2>15, <2>16, <2>17, <2>18
<1>9. ASSUME NEW p \in Seq(Entry), ring' = Append(p, e), Ordered(p),
             \A j \in DOMAIN p : \E i \in DOMAIN ring : p[j] = ring[i],
             \A i \in DOMAIN ring : Numbers(ring[i]) \subseteq lost' \/ \E j \in DOMAIN p : p[j] = ring[i]
      PROVE  /\ ring' \in Seq(Entry) /\ RingInv'
             /\ lost' = {} => \A i \in DOMAIN ring : \E j \in DOMAIN ring' :
                  ring'[j].seq = ring[i].seq /\ ring'[j].of = ring[i].of /\ Range(ring[i].text) \subseteq Range(ring'[j].text)
  <2>1. PICK q : q = Append(p, e)
    OBVIOUS
  <2>2. \A j \in DOMAIN p : p[j] \in Entry /\ Said(p[j]) /\ \A m \in Numbers(p[j]) : m < n
    BY <1>6, <1>9
  <2>3. /\ q \in Seq(Entry) /\ DOMAIN q = DOMAIN p \cup {Len(p) + 1}
        /\ q[Len(p) + 1] = e /\ Last(q) = e /\ \A j \in DOMAIN p : q[j] = p[j]
        /\ Ordered(q)
    BY <1>3, <1>9, <2>1, <2>2, AppendParts
  <2>4. q # <<>> /\ n \in Numbers(Last(q))
    <3>1. n \in Numbers(Last(q))
      BY <1>3, <2>3
    <3>2. Len(p) + 1 \in DOMAIN q /\ DOMAIN <<>> = {}
      BY <2>3
    <3> QED
      BY <3>1, <3>2
  <2>5. \A j \in DOMAIN q : Said(q[j])'
    BY <1>4, <2>2, <2>3
  <2>6. \A i \in DOMAIN ring : Numbers(ring[i]) \subseteq lost' \/ \E j \in DOMAIN q :
          q[j].seq = ring[i].seq /\ q[j].of = ring[i].of /\ Range(ring[i].text) \subseteq Range(q[j].text)
    <3> SUFFICES ASSUME NEW i \in DOMAIN ring, NEW j \in DOMAIN p, p[j] = ring[i]
                 PROVE  \E h \in DOMAIN q : q[h] = ring[i]
      BY <1>9
    <3> QED
      BY <2>3
  <2>7. \E j \in DOMAIN q : q[j] = e
    BY <2>3
  <2> QED
    <3>1. s = "mark" => \E j \in DOMAIN q : q[j].seq = n
      BY <1>3, <2>7
    <3>2. s # "mark" => \E j \in DOMAIN q : q[j].of = s /\ n \in Range(q[j].text)
      BY <1>3, <2>7
    <3>3. ring' = q
      BY <1>9, <2>1
    <3> QED
      BY <1>7, <2>3, <2>4, <2>5, <2>6, <3>1, <3>2, <3>3
<1>10. CASE ~Merges(e) /\ Len(ring) = RingSize
  <2>1. ring # <<>> /\ ring' = Append(Tail(ring), e) /\ Numbers(ring[1]) \subseteq lost'
    BY <1>2, <1>10, StreamAssumption DEF Remembered, Forgotten, Numbers
  <2>2. PICK p \in Seq(Entry) : p = Tail(ring)
    BY <1>2, <2>1, TailParts
  <2>3. /\ \A j \in DOMAIN p : j + 1 \in DOMAIN ring /\ p[j] = ring[j + 1]
        /\ \A i \in DOMAIN ring : i = 1 \/ (i - 1 \in DOMAIN p /\ ring[i] = p[i - 1])
        /\ Ordered(p)
    BY <1>2, <2>1, <2>2, TailParts DEF RingInv
  <2>4. \A i \in DOMAIN ring : Numbers(ring[i]) \subseteq lost' \/ \E j \in DOMAIN p : p[j] = ring[i]
    BY <2>1, <2>3
  <2>5. \A j \in DOMAIN p : \E i \in DOMAIN ring : p[j] = ring[i]
    BY <2>3
  <2> QED
    BY <1>9, <2>1, <2>2, <2>3, <2>4, <2>5
<1>11. CASE ~Merges(e) /\ Len(ring) # RingSize
  <2>1. ring' = Append(ring, e)
    BY <1>2, <1>11 DEF Remembered
  <2> QED
    BY <1>2, <1>9, <2>1 DEF RingInv
<1> QED
  BY <1>8, <1>10, <1>11

\* The queue takes the event, and what it drops for it is counted as lost.
LEMMA EmitQueue ==
  ASSUME StreamTypeOK, SentInv, QueueInv, NEW s \in Stream \cup {"mark"}, Emit(s),
         NEW e, e = Event(seq + 1, s)
  PROVE  /\ queue' \in Seq(Entry) /\ QueueInv'
         /\ \A i \in DOMAIN queue' : queue'[i] = e \/ \E h \in DOMAIN queue : queue'[i] = queue[h]
         /\ Subscribed => \E i \in DOMAIN queue' : queue'[i] = e
         /\ Fed => \A h \in DOMAIN queue : queue[h].seq \in lost' \/ \E i \in DOMAIN queue' : queue'[i] = queue[h]
<1>0. PICK n \in Nat : n = seq + 1
  BY DEF StreamTypeOK
<1>1. e \in Entry /\ e.seq = n /\ e.of = s /\ Range(e.text) \subseteq {e.seq}
  <2>1. e \in Entry
    BY EmitSent
  <2>2. e.seq = n /\ e.of = s /\ (e.text = <<>> \/ e.text = <<n>>)
    BY <1>0 DEF Event
  <2>3. Range(<<>>) = {} /\ Range(<<n>>) = {n}
    BY DEF Range
  <2> QED
    BY <2>1, <2>2, <2>3
<1>2. /\ queue \in Seq(Entry) /\ Len(queue) \in Nat /\ DOMAIN queue = 1..Len(queue) /\ conn' = conn
      /\ queue' = IF Subscribed THEN Queued(e) ELSE queue
      /\ Dropped \subseteq lost'
  BY DEF Emit, StreamTypeOK
<1>3. (\A x \in Entry : Said(x) => Said(x)') /\ Said(e)'
  BY EmitSaid
<1>4. \A i \in DOMAIN queue :
        /\ queue[i] \in Entry /\ Said(queue[i]) /\ Range(queue[i].text) \subseteq {queue[i].seq}
        /\ \A m \in Numbers(queue[i]) : m < n
  <2> SUFFICES ASSUME NEW i \in DOMAIN queue
               PROVE  /\ queue[i] \in Entry /\ Said(queue[i]) /\ Range(queue[i].text) \subseteq {queue[i].seq}
                      /\ \A m \in Numbers(queue[i]) : m < n
    OBVIOUS
  <2>1. PICK x : x = queue[i]
    OBVIOUS
  <2>2. x \in Entry /\ Said(x) /\ Range(x.text) \subseteq {x.seq}
    BY <2>1, Shapes DEF QueueInv
  <2>3. Numbers(x) \subseteq Nat /\ \A m \in Numbers(x) : m <= seq
    BY <2>2, NumbersOf, SaidParts
  <2>4. \A m \in Nat : m <= seq => m < n
    BY <1>0 DEF StreamTypeOK
  <2> QED
    BY <2>1, <2>2, <2>3, <2>4
<1>5. CASE ~Subscribed
  <2>1. queue' = queue /\ queue = <<>> /\ ~Fed /\ conn' = "none"
    BY <1>2, <1>5 DEF Subscribed, QueueInv, Fed
  <2> QED
    BY <1>2, <1>5, <2>1, NoEntries DEF QueueInv, Ordered
<1>6. ASSUME Subscribed, NEW p \in Seq(Entry), queue' = Append(p, e), Ordered(p),
             \A j \in DOMAIN p : \E i \in DOMAIN queue : p[j] = queue[i],
             Fed => \A i \in DOMAIN queue : queue[i].seq \in lost' \/ \E j \in DOMAIN p : p[j] = queue[i]
      PROVE  /\ queue' \in Seq(Entry) /\ QueueInv'
             /\ \A i \in DOMAIN queue' : queue'[i] = e \/ \E h \in DOMAIN queue : queue'[i] = queue[h]
             /\ Subscribed => \E i \in DOMAIN queue' : queue'[i] = e
             /\ Fed => \A h \in DOMAIN queue : queue[h].seq \in lost' \/ \E i \in DOMAIN queue' : queue'[i] = queue[h]
  <2>1. PICK q : q = Append(p, e) /\ queue' = q
    BY <1>6
  <2>2. \A j \in DOMAIN p : p[j] \in Entry /\ Said(p[j]) /\ Range(p[j].text) \subseteq {p[j].seq} /\ \A m \in Numbers(p[j]) : m < n
    BY <1>4, <1>6
  <2>3. /\ q \in Seq(Entry) /\ DOMAIN q = DOMAIN p \cup {Len(p) + 1}
        /\ q[Len(p) + 1] = e /\ \A j \in DOMAIN p : q[j] = p[j]
        /\ Ordered(q)
    BY <1>1, <1>6, <2>1, <2>2, AppendParts
  <2>4. \A j \in DOMAIN q : Said(q[j])' /\ Range(q[j].text) \subseteq {q[j].seq}
    BY <1>1, <1>3, <2>2, <2>3
  <2>5. QueueInv'
    <3>1. conn' # "none"
      BY <1>2, <1>6 DEF Subscribed
    <3> QED
      <4>1. Ordered(queue)'
        BY <2>1, <2>3 DEF Ordered, Numbers
      <4>2. (\A i \in DOMAIN queue : Said(queue[i]) /\ Range(queue[i].text) \subseteq {queue[i].seq})'
        BY <2>1, <2>4
      <4> QED
        BY <3>1, <4>1, <4>2 DEF QueueInv
  <2>6. \A i \in DOMAIN q : q[i] = e \/ \E h \in DOMAIN queue : q[i] = queue[h]
    BY <1>6, <2>3
  <2>7. \E i \in DOMAIN q : q[i] = e
    BY <2>3
  <2>8. ASSUME Fed, NEW h \in DOMAIN queue PROVE queue[h].seq \in lost' \/ \E i \in DOMAIN q : q[i] = queue[h]
    BY <1>6, <2>3, <2>8
  <2> QED
    BY <2>1, <2>3, <2>5, <2>6, <2>7, <2>8
<1>7. CASE Subscribed /\ Len(queue) = QueueSize
  <2>1. queue # <<>> /\ queue' = Append(Tail(queue), e) /\ (Fed => queue[1].seq \in lost')
    BY <1>2, <1>7, StreamAssumption DEF Queued, Dropped, Fed
  <2>2. PICK p \in Seq(Entry) : p = Tail(queue)
    BY <1>2, <2>1, TailParts
  <2>3. /\ \A j \in DOMAIN p : j + 1 \in DOMAIN queue /\ p[j] = queue[j + 1]
        /\ \A i \in DOMAIN queue : i = 1 \/ (i - 1 \in DOMAIN p /\ queue[i] = p[i - 1])
        /\ Ordered(p)
    BY <1>2, <2>1, <2>2, TailParts DEF QueueInv
  <2>4. Fed => \A i \in DOMAIN queue : queue[i].seq \in lost' \/ \E j \in DOMAIN p : p[j] = queue[i]
    BY <2>1, <2>3
  <2>5. \A j \in DOMAIN p : \E i \in DOMAIN queue : p[j] = queue[i]
    BY <2>3
  <2> QED
    BY <1>6, <1>7, <2>1, <2>2, <2>3, <2>4, <2>5
<1>8. CASE Subscribed /\ Len(queue) # QueueSize
  <2>1. queue' = Append(queue, e)
    BY <1>2, <1>8 DEF Queued
  <2>2. Ordered(queue)
    BY DEF QueueInv
  <2> QED
    BY <1>2, <1>6, <1>8, <2>1, <2>2
<1> QED
  BY <1>5, <1>7, <1>8

LEMMA EmitStep ==
  ASSUME StreamInv, NEW s \in Stream \cup {"mark"}, Emit(s) PROVE StreamInv'
<1> USE DEF StreamInv
<1>0. PICK n \in Nat, e \in Entry : n = seq + 1 /\ e = Event(seq + 1, s)
  BY EmitSent DEF StreamTypeOK
<1>1. /\ seq' = n /\ lost \subseteq lost' /\ e.seq = n /\ e.of = s
      /\ UNCHANGED <<boot, conn, todo, desk, torn>>
  BY <1>0 DEF Emit, Event
<1>2. \A m \in Nat : m <= seq => m <= n /\ m < n /\ ~(n <= m) /\ m # n
  BY <1>0 DEF StreamTypeOK
<1>3. /\ SentInv' /\ RingInv' /\ QueueInv'
      /\ ring' \in Seq(Entry) /\ queue' \in Seq(Entry)
      /\ sent' \in [marks : SUBSET Nat, text : [Stream -> Seq(Nat)]]
  BY <1>0, EmitSent, EmitRing, EmitQueue
<1>4. lost' = {} => \A i \in DOMAIN ring : \E j \in DOMAIN ring' :
        ring'[j].seq = ring[i].seq /\ ring'[j].of = ring[i].of /\ Range(ring[i].text) \subseteq Range(ring'[j].text)
  BY EmitRing
<1>5. /\ \A i \in DOMAIN queue' : queue'[i] = e \/ \E h \in DOMAIN queue : queue'[i] = queue[h]
      /\ Fed => \E i \in DOMAIN queue' : queue'[i] = e
      /\ Fed => \A h \in DOMAIN queue : queue[h].seq \in lost' \/ \E i \in DOMAIN queue' : queue'[i] = queue[h]
  BY <1>0, EmitQueue DEF Fed, Subscribed
<1>6. /\ \A m \in sent'.marks : m \in sent.marks \/ m = n
      /\ \A r \in Stream :
           /\ Len(sent.text[r]) \in Nat /\ Len(sent'.text[r]) \in Nat /\ Len(sent.text[r]) <= Len(sent'.text[r])
           /\ \A k \in DOMAIN sent.text[r] : sent'.text[r][k] = sent.text[r][k]
           /\ \A k \in DOMAIN sent'.text[r] :
                k \in DOMAIN sent.text[r] \/ (r = s /\ k = Len(sent.text[r]) + 1 /\ sent'.text[r][k] = n)
  BY <1>0, EmitSent
<1>7. \A j \in DOMAIN todo : todo[j] \in Entry /\ Said(todo[j]) /\ \A m \in Numbers(todo[j]) : m \in Nat /\ m <= seq
  <2> SUFFICES ASSUME NEW j \in DOMAIN todo
               PROVE  todo[j] \in Entry /\ Said(todo[j]) /\ \A m \in Numbers(todo[j]) : m \in Nat /\ m <= seq
    OBVIOUS
  <2>1. PICK x : x = todo[j]
    OBVIOUS
  <2>2. x \in Entry /\ Said(x)
    BY <2>1, Shapes DEF TodoInv
  <2> QED
    BY <2>1, <2>2, NumbersOf, SaidParts
<1>8. \A m : Behind(m) => Behind(m)'
  <2> SUFFICES ASSUME NEW m, Behind(m) PROVE Behind(m)'
    OBVIOUS
  <2> QED
    BY <1>1 DEF Behind, Numbers
<1>9. Behind(n)'
  BY <1>1, <1>2, <1>7 DEF Behind, Numbers
<1>10. StreamTypeOK'
  <2>1. Forgotten(e) \subseteq Nat
    <3>1. CASE ~Merges(e) /\ Len(ring) = RingSize
      <4>1. 1 \in DOMAIN ring
        BY <3>1, StreamAssumption DEF StreamTypeOK
      <4>2. ring[1] \in Entry /\ Forgotten(e) = Numbers(ring[1])
        BY <3>1, <4>1, Shapes DEF Forgotten, Numbers
      <4> QED
        BY <4>2, NumbersOf
    <3>2. CASE ~(~Merges(e) /\ Len(ring) = RingSize)
      BY <3>2 DEF Forgotten
    <3> QED
      BY <3>1, <3>2
  <2>2. Dropped \subseteq Nat
    <3>1. CASE Len(queue) = QueueSize
      <4>1. 1 \in DOMAIN queue
        BY <3>1, StreamAssumption DEF StreamTypeOK
      <4>2. queue[1].seq \in Nat
        BY <4>1, Shapes, NumbersOf
      <4> QED
        BY <4>2 DEF Dropped
    <3>2. CASE Len(queue) # QueueSize
      BY <3>2 DEF Dropped
    <3> QED
      BY <3>1, <3>2
  <2>3. lost' \subseteq Nat
    BY <1>0, <2>1, <2>2 DEF Emit, StreamTypeOK
  <2> QED
    BY <1>1, <1>3, <2>3 DEF StreamTypeOK
<1>11. TodoInv'
  <2>1. \A j \in DOMAIN todo : Said(todo[j])'
    <3> SUFFICES ASSUME NEW j \in DOMAIN todo PROVE Said(todo[j])'
      OBVIOUS
    <3>1. PICK x \in Entry : x = todo[j] /\ Said(x)
      BY <1>7
    <3>2. Said(x)'
      BY <3>1, EmitSaid
    <3> QED
      BY <1>1, <3>1, <3>2 DEF Said, Piece
  <2>2. ASSUME lost' = {}, NEW j \in DOMAIN todo
        PROVE  \E i \in DOMAIN ring' : ring'[i].seq = todo[j].seq /\ ring'[i].of = todo[j].of
                                       /\ Range(todo[j].text) \subseteq Range(ring'[i].text)
    <3>1. lost = {}
      BY <1>1, <2>2
    <3>2. PICK h \in DOMAIN ring : ring[h].seq = todo[j].seq /\ ring[h].of = todo[j].of
                                     /\ Range(todo[j].text) \subseteq Range(ring[h].text)
      BY <3>1 DEF TodoInv
    <3>3. PICK i \in DOMAIN ring' : ring'[i].seq = ring[h].seq /\ ring'[i].of = ring[h].of
                                     /\ Range(ring[h].text) \subseteq Range(ring'[i].text)
      BY <1>4, <2>2
    <3> QED
      BY <3>2, <3>3
  <2>3. Ordered(todo)' /\ (conn' # "replay" => todo' = <<>>)
    BY <1>1 DEF TodoInv, Ordered, Numbers
  <2> QED
    BY <1>1, <2>1, <2>2, <2>3 DEF TodoInv
<1>12. BootInv'
  BY <1>1, <1>2, Shapes DEF BootInv, Told, SameBoot
<1>13. CursorInv'
  <2> SUFFICES ASSUME SameBoot, NEW m \in sent'.marks
               PROVE  /\ m <= desk.last => m \in desk.seen \cup lost'
                      /\ desk.last < m /\ Fed =>
                           \/ m \in lost'
                           \/ \E j \in DOMAIN todo : todo[j].seq = m
                           \/ \E i \in DOMAIN queue' : queue'[i].seq = m /\ Behind(m)'
    BY <1>1 DEF CursorInv, SameBoot, Fed, Behind
  <2>1. CASE m \in sent.marks
    <3>1. m <= desk.last => m \in desk.seen \cup lost'
      BY <1>1, <2>1 DEF CursorInv
    <3>2. ASSUME desk.last < m, Fed
          PROVE  \/ m \in lost'
                 \/ \E j \in DOMAIN todo : todo[j].seq = m
                 \/ \E i \in DOMAIN queue' : queue'[i].seq = m /\ Behind(m)'
      <4>1. \/ m \in lost
            \/ \E j \in DOMAIN todo : todo[j].seq = m
            \/ \E i \in DOMAIN queue : queue[i].seq = m /\ Behind(m)
        BY <2>1, <3>2 DEF CursorInv
      <4>2. ASSUME NEW h \in DOMAIN queue, queue[h].seq = m, Behind(m)
            PROVE  m \in lost' \/ \E i \in DOMAIN queue' : queue'[i].seq = m /\ Behind(m)'
        BY <1>5, <1>8, <3>2, <4>2
      <4> QED
        BY <1>1, <4>1, <4>2
    <3> QED
      BY <3>1, <3>2
  <2>2. CASE m = n
    <3>1. ~(m <= desk.last)
      BY <1>2, <2>2, Shapes DEF BootInv
    <3>2. Fed => \E i \in DOMAIN queue' : queue'[i].seq = m /\ Behind(m)'
      BY <1>1, <1>5, <1>9, <2>2
    <3> QED
      BY <3>1, <3>2
  <2> QED
    BY <1>6, <2>1, <2>2
<1>14. ASSUME SameBoot, lost' = {}, NEW r \in Stream \ torn PROVE Kept(r)' /\ (Fed => Coming(r)')
  <2>1. Kept(r) /\ (Fed => Coming(r))
    BY <1>1, <1>14 DEF TextInv
  <2>2. PICK d \in Seq(Nat), t \in Seq(Nat), u \in Seq(Nat) :
          d = desk.text[r] /\ t = sent.text[r] /\ u = sent'.text[r] /\ desk'.text[r] = d
    BY <1>1, <1>3, Shapes
  <2>3. /\ Len(t) \in Nat /\ Len(u) \in Nat /\ Len(d) \in Nat /\ Len(t) <= Len(u)
        /\ DOMAIN t = 1..Len(t) /\ DOMAIN u = 1..Len(u) /\ DOMAIN d = 1..Len(d)
        /\ \A k \in DOMAIN t : u[k] = t[k] /\ t[k] \in Nat /\ t[k] <= seq
        /\ \A k \in DOMAIN u : k \in DOMAIN t \/ (r = s /\ k = Len(t) + 1 /\ u[k] = n)
    BY <1>6, <2>2, SMTT(30) DEF SentInv
  <2>4. /\ Len(d) <= Len(t)
        /\ \A k \in 1..Len(d) :
             /\ d[k] = t[k]
             /\ \/ t[k] <= desk.last
                \/ \E i \in DOMAIN ring :
                     ring[i].of = r /\ ring[i].seq <= desk.last /\ t[k] \in Range(ring[i].text)
        /\ \A k \in DOMAIN t : t[k] <= desk.last => k <= Len(d)
    BY <2>1, <2>2 DEF Kept
  <2>5. \A k \in 1..Len(d) : k \in DOMAIN t
    BY <2>3, <2>4
  <2>6. \A m \in Range(d) : m \in Nat /\ m <= seq
    <3> SUFFICES ASSUME NEW m \in Range(d) PROVE m \in Nat /\ m <= seq
      OBVIOUS
    <3>1. PICK k \in 1..Len(d) : m = d[k]
      BY RangeOf
    <3> QED
      BY <2>3, <2>4, <2>5, <3>1
  <2>7. Kept(r)'
    <3>1. Len(d) <= Len(u)
      BY <2>3, <2>4
    <3>2. ASSUME NEW k \in 1..Len(d)
          PROVE  /\ d[k] = u[k]
                 /\ \/ u[k] <= desk.last
                    \/ \E i \in DOMAIN ring' :
                         ring'[i].of = r /\ ring'[i].seq <= desk.last /\ u[k] \in Range(ring'[i].text)
      <4>1. d[k] = t[k] /\ u[k] = t[k]
        BY <2>3, <2>4, <2>5
      <4>2. ASSUME NEW h \in DOMAIN ring, ring[h].of = r, ring[h].seq <= desk.last, t[k] \in Range(ring[h].text)
            PROVE  \E i \in DOMAIN ring' :
                     ring'[i].of = r /\ ring'[i].seq <= desk.last /\ t[k] \in Range(ring'[i].text)
        BY <1>4, <1>14, <4>2
      <4> QED
        BY <2>4, <4>1, <4>2
    <3>3. ASSUME NEW k \in DOMAIN u, u[k] <= desk.last PROVE k <= Len(d)
      <4>1. desk.last \in Nat /\ desk.last <= seq
        BY <1>14, Shapes DEF BootInv
      <4>2. u[k] # n
        BY <1>2, <3>3, <4>1
      <4>3. k \in DOMAIN t /\ t[k] <= desk.last
        BY <2>3, <3>3, <4>2
      <4> QED
        BY <2>4, <4>3
    <3> QED
      BY <1>1, <2>2, <3>1, <3>2, <3>3 DEF Kept
  <2>8. ASSUME Fed PROVE Coming(r)'
    <3>0. Coming(r)
      BY <2>1, <2>8
    <3>1. ASSUME NEW k \in DOMAIN u, Len(d) < k
          PROVE  \/ \E j \in DOMAIN todo : todo[j].of = r /\ u[k] \in Range(todo[j].text)
                 \/ \E i \in DOMAIN queue' : queue'[i].of = r /\ queue'[i].seq = u[k] /\ Behind(u[k])'
      <4>1. CASE k \in DOMAIN t
        <5>0. PICK m : m = t[k] /\ m = u[k]
          BY <2>3, <4>1
        <5>1. \/ \E j \in DOMAIN todo : todo[j].of = r /\ m \in Range(todo[j].text)
              \/ \E i \in DOMAIN queue : queue[i].of = r /\ queue[i].seq = m /\ Behind(m)
          BY <2>2, <3>0, <3>1, <4>1, <5>0 DEF Coming
        <5>2. ASSUME NEW h \in DOMAIN queue, queue[h].of = r, queue[h].seq = m, Behind(m)
              PROVE  \E i \in DOMAIN queue' : queue'[i].of = r /\ queue'[i].seq = m /\ Behind(m)'
          BY <1>5, <1>8, <1>14, <2>8, <5>2
        <5> QED
          BY <5>0, <5>1, <5>2
      <4>2. CASE r = s /\ u[k] = n
        BY <1>1, <1>5, <1>9, <2>8, <4>2
      <4> QED
        BY <2>3, <4>1, <4>2
    <3>2. ASSUME NEW i \in DOMAIN queue', queue'[i].of = r, desk.last < queue'[i].seq
          PROVE  queue'[i].seq \notin Range(d)
      <4>1. CASE queue'[i] = e
        BY <1>1, <1>2, <2>6, <4>1
      <4>2. ASSUME NEW h \in DOMAIN queue, queue'[i] = queue[h] PROVE queue'[i].seq \notin Range(d)
        BY <2>2, <3>0, <3>2, <4>2 DEF Coming
      <4> QED
        BY <1>5, <4>1, <4>2
    <3>3. ASSUME NEW j \in DOMAIN todo, todo[j].of = r, NEW m \in Range(todo[j].text)
          PROVE  /\ todo[j].seq <= desk.last => m <= desk.last
                 /\ desk.last < todo[j].seq => m \notin Range(d)
                 /\ desk.last < todo[j].seq /\ todo[j].seq < m => \A i \in DOMAIN queue' : queue'[i].seq # m
      <4>1. /\ todo[j].seq <= desk.last => m <= desk.last
            /\ desk.last < todo[j].seq => m \notin Range(d)
            /\ desk.last < todo[j].seq /\ todo[j].seq < m => \A i \in DOMAIN queue : queue[i].seq # m
        BY <2>2, <3>0, <3>3 DEF Coming
      <4>2. m # n
        BY <1>2, <1>7, <3>3 DEF Numbers
      <4>3. \A i \in DOMAIN queue' : queue'[i].seq = n \/ \E h \in DOMAIN queue : queue'[i] = queue[h]
        BY <1>1, <1>5
      <4> QED
        BY <4>1, <4>2, <4>3
    <3> QED
      BY <1>1, <2>2, <3>1, <3>2, <3>3 DEF Coming, Behind
  <2> QED
    BY <2>7, <2>8
<1>15. TextInv'
  BY <1>1, <1>14 DEF TextInv, SameBoot, Fed
<1> QED
  BY <1>3, <1>10, <1>11, <1>12, <1>13, <1>15

------------------------------------------------------------------------------
(* The theorems.                                                           *)

LEMMA StreamStepHolds == ASSUME StreamInv, [Next]_vars PROVE StreamInv'
<1>1. ASSUME NEW s \in Stream \cup {"mark"}, Emit(s) PROVE StreamInv'
  BY <1>1, EmitStep
<1>2. CASE Connect
  <2>1. queue' = <<>> /\ todo' = todo /\ todo = <<>>
    BY <1>2 DEF Connect, StreamInv, TodoInv
  <2> QED
    BY <1>2, <2>1, CutStep DEF Connect
<1>3. CASE Hello
  BY <1>3, HelloStep
<1>4. CASE Snapshot
  BY <1>4, SnapshotStep
<1>5. CASE Replay
  BY <1>5, ReplayStep
<1>6. CASE Forward
  BY <1>6, ForwardStep
<1>7. CASE Disconnect
  BY <1>7, CutStep DEF Disconnect, Hangup
<1>8. CASE ForwarderDies
  BY <1>8, ForwarderStep
<1>9. CASE MonitorCloses
  BY <1>9, CutStep DEF MonitorCloses, Hangup
<1>10. CASE Reload \/ CoreRestarts
  BY <1>10, StrangerStep
<1>11. CASE UNCHANGED vars
  <2>1. UNCHANGED <<boot, seq, ring, conn, queue, todo, desk, sent, lost, torn>>
    BY <1>11 DEF vars
  <2>2. SentInv' /\ RingInv' /\ (\A x : Said(x) <=> Said(x)') /\ \A s \in Stream : Kept(s) => Kept(s)'
    BY <2>1, SinkStands DEF StreamInv
  <2>3. StreamTypeOK' /\ QueueInv' /\ TodoInv' /\ BootInv'
    BY <2>1, <2>2 DEF StreamInv, StreamTypeOK, QueueInv, TodoInv, BootInv, Told, SameBoot
  <2>4. CursorInv'
    BY <2>1 DEF StreamInv, CursorInv, Fed, SameBoot, Behind
  <2>5. TextInv'
    BY <2>1, <2>2 DEF StreamInv, TextInv, Fed, SameBoot, Coming, Behind
  <2> QED
    BY <2>2, <2>3, <2>4, <2>5 DEF StreamInv
<1> QED
  BY <1>1, <1>2, <1>3, <1>4, <1>5, <1>6, <1>7, <1>8, <1>9, <1>10, <1>11 DEF Next

LEMMA StreamInvHolds == Spec => []StreamInv
<1>1. Init => StreamInv
  BY StreamInitHolds
<1>2. StreamInv /\ [Next]_vars => StreamInv'
  BY StreamStepHolds
<1> QED
  BY <1>1, <1>2, PTL DEF Spec

\* Of the events since the core's last start, a desktop that knows that start has
\* applied every mark up to its cursor, except what the full queue or the full ring
\* dropped: what waits in replay and queue is in order and beyond the cursor.
THEOREM NothingIsSkipped == Spec => []CursorSkipsNothing
<1>1. StreamInv => CursorSkipsNothing
  BY DEF StreamInv, CursorInv, CursorSkipsNothing
<1> QED
  BY <1>1, StreamInvHolds, PTL

\* The text a desktop shows of a stream no replay cut across is what the core
\* emitted of it, in order, once each, and all of it up to the cursor, as long as
\* neither queue nor ring had to drop anything.
THEOREM TextIsTrue == Spec => []TextIsWhatWasSaid
<1>1. ASSUME StreamInv PROVE TextIsWhatWasSaid
  <2> SUFFICES ASSUME SameBoot, lost = {}, NEW s \in Stream \ torn
               PROVE  /\ IsPrefix(desk.text[s], sent.text[s])
                      /\ \A n \in Range(sent.text[s]) : n <= desk.last => n \in Range(desk.text[s])
    BY DEF TextIsWhatWasSaid
  <2>1. PICK d \in Seq(Nat), t \in Seq(Nat) : d = desk.text[s] /\ t = sent.text[s]
    BY <1>1, Shapes DEF StreamInv
  <2>2. /\ Len(d) <= Len(t) /\ \A k \in 1..Len(d) : d[k] = t[k]
        /\ \A k \in DOMAIN t : t[k] <= desk.last => k <= Len(d)
    BY <1>1, <2>1 DEF StreamInv, TextInv, Kept
  <2>3. IsPrefix(d, t)
    <3>1. PICK m \in Nat : m = Len(d) /\ m <= Len(t)
      BY <2>2
    <3>2. \A k \in 1..m : d[k] = t[k] /\ k \in DOMAIN t /\ d[k] \in Nat
      BY <2>2, <3>1
    <3>3. SubSeq(d, 1, m) = SubSeq(t, 1, m)
      BY <3>1, <3>2
    <3> QED
      BY <3>1, <3>3 DEF IsPrefix
  <2>4. ASSUME NEW n \in Range(t), n <= desk.last PROVE n \in Range(d)
    <3>1. PICK k \in 1..Len(t) : n = t[k]
      BY RangeOf
    <3>2. k \in 1..Len(d)
      BY <2>2, <2>4, <3>1
    <3> QED
      BY <2>2, <3>1, <3>2, RangeOf
  <2> QED
    BY <2>1, <2>3, <2>4
<1> QED
  BY <1>1, StreamInvHolds, PTL
==============================================================================
