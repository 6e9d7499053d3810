----------------------------- MODULE HubProofs -----------------------------
(***************************************************************************)
(* What an agent was told of the services follows what the hub counts as   *)
(* reported, for any number of services, agents and configurations.        *)
(***************************************************************************)
EXTENDS InjectionHub, TLAPS

Told(a) == (view[a] \cup turn[a].online) \ turn[a].offline

TurnType == [stage : {"idle", "inject", "think"}, online : SUBSET Service,
             offline : SUBSET Service, asked : SUBSET Service]

AgentTypeOK ==
  /\ reported \in [Agent -> (SUBSET Service) \cup {None}]
  /\ turn \in [Agent -> TurnType]
  /\ view \in [Agent -> SUBSET Service]
  /\ doubt \in [Agent -> {"none", "restart", "cut"}]

\* An agent that asks nobody has no delta in hand: what it was told is its view.
NothingInHand ==
  \A a \in Agent : turn[a].stage = "idle" => turn[a].online = {} /\ turn[a].offline = {}

ViewInv == AgentTypeOK /\ NothingInHand /\ ViewFollowsReports

LEMMA IdleIsATurn == Idle \in TurnType
  BY DEF Idle, TurnType

LEMMA ViewInitHolds == Init => ViewInv
<1> SUFFICES ASSUME Init PROVE ViewInv
  OBVIOUS
<1> USE DEF Init
<1>1. AgentTypeOK
  BY IdleIsATurn DEF AgentTypeOK
<1>2. NothingInHand
  BY DEF NothingInHand, Idle
<1>3. ViewFollowsReports
  BY DEF ViewFollowsReports, Known, Idle
<1> QED
  BY <1>1, <1>2, <1>3 DEF ViewInv

LEMMA LiveServices == Live \in SUBSET Service /\ Live # None
  BY NoneAssumption DEF Live

LEMMA LinkKeepsAgents ==
  ASSUME NEW s \in Service, LinkNext(s) PROVE UNCHANGED <<reported, turn, view, doubt>>
  BY DEF LinkNext, Start, Handle, Answered, PostFails, Wake, Stop, Die, HandleLate, LoseLate,
         hubVars, linkVars, agentVars

LEMMA ViewTypeStep == AgentTypeOK /\ [Next]_vars => AgentTypeOK'
<1> SUFFICES ASSUME AgentTypeOK, [Next]_vars PROVE AgentTypeOK'
  OBVIOUS
<1> USE DEF AgentTypeOK
<1>1. CASE UNCHANGED <<reported, turn, view, doubt>>
  BY <1>1
<1>2. ASSUME NEW a \in Agent, Inject(a) PROVE AgentTypeOK'
  <2>1. Known(a) \in SUBSET Service
    BY DEF Known
  <2>2. Delta(a).online \in SUBSET Service /\ Delta(a).offline \in SUBSET Service
    BY <2>1, LiveServices DEF Delta
  <2>3. InMode("inject") \in SUBSET Service
    BY DEF InMode, Live
  <2>4. turn' \in [Agent -> TurnType]
    BY <1>2, <2>2, <2>3 DEF Inject, TurnType
  <2> QED
    BY <1>2, <2>4, LiveServices DEF Inject
<1>3. ASSUME NEW a \in Agent, InjectReturns(a) PROVE AgentTypeOK'
  <2>1. turn' = [turn EXCEPT ![a] = [turn[a] EXCEPT !.stage = "think", !.asked = {}]]
    BY <1>3 DEF InjectReturns
  <2>2. [turn[a] EXCEPT !.stage = "think", !.asked = {}] \in TurnType
    BY DEF TurnType
  <2> QED
    BY <1>3, <2>1, <2>2 DEF InjectReturns, hubVars
<1>4. ASSUME NEW a \in Agent, InjectCut(a) PROVE AgentTypeOK'
  BY <1>4, IdleIsATurn DEF InjectCut, hubVars
<1>5. ASSUME NEW a \in Agent, Archive(a) PROVE AgentTypeOK'
  <2>1. (view[a] \cup turn[a].online) \ turn[a].offline \in SUBSET Service
    BY DEF TurnType
  <2> QED
    BY <1>5, <2>1, IdleIsATurn DEF Archive
<1>6. ASSUME NEW a \in Agent, Forget(a) PROVE AgentTypeOK'
  BY <1>6, IdleIsATurn DEF Forget
<1>7. CASE Restart
  BY <1>7, IdleIsATurn DEF Restart
<1>8. CASE Tick
  BY <1>8, <1>1 DEF Tick, agentVars
<1> QED
  BY <1>1, <1>2, <1>3, <1>4, <1>5, <1>6, <1>7, <1>8, LinkKeepsAgents
     DEF Next, AgentNext, vars, hubVars, agentVars

LEMMA ViewStep == ViewInv /\ [Next]_vars => ViewInv'
<1> SUFFICES ASSUME ViewInv, [Next]_vars, AgentTypeOK' PROVE NothingInHand' /\ ViewFollowsReports'
  BY ViewTypeStep DEF ViewInv
<1> DEFINE Follows(a) == /\ doubt[a] = "none" => Told(a) = Known(a)
                         /\ doubt[a] = "restart" => Known(a) \subseteq Told(a)
<1> DEFINE Empty(a) == turn[a].stage = "idle" => turn[a].online = {} /\ turn[a].offline = {}
<1>a. \A a \in Agent : Follows(a) /\ Empty(a)
  BY DEF ViewInv, ViewFollowsReports, NothingInHand, Told
<1> SUFFICES ASSUME NEW a \in Agent PROVE Follows(a)' /\ Empty(a)'
  BY DEF ViewFollowsReports, NothingInHand, Told
<1>b. AgentTypeOK
  BY DEF ViewInv
<1> USE DEF AgentTypeOK, TurnType, Told, Known
<1>1. CASE UNCHANGED <<reported, turn, view, doubt>>
  BY <1>1, <1>a
<1>2. ASSUME NEW b \in Agent, Inject(b) PROVE Follows(a)' /\ Empty(a)'
  <2>1. CASE a # b
    BY <1>2, <1>a, <1>b, <2>1 DEF Inject
  <2>2. CASE a = b
    <3>1. /\ turn'[a].stage = "inject"
          /\ turn'[a].online = Live \ Known(a) /\ turn'[a].offline = Known(a) \ Live
          /\ reported'[a] = Live /\ view'[a] = view[a] /\ doubt'[a] = doubt[a]
      BY <1>2, <1>b, <2>2 DEF Inject, Delta
    <3>2. turn[a].online = {} /\ turn[a].offline = {}
      BY <1>2, <1>a, <2>2 DEF Inject
    <3>3. Known(a)' = Live /\ Told(a)' = (view[a] \cup (Live \ Known(a))) \ (Known(a) \ Live)
      BY <3>1, LiveServices
    <3>4. Told(a) = view[a]
      BY <3>2, <1>b
    <3> QED
      BY <1>a, <3>1, <3>3, <3>4
  <2> QED
    BY <2>1, <2>2
<1>3. ASSUME NEW b \in Agent, InjectReturns(b) PROVE Follows(a)' /\ Empty(a)'
  BY <1>3, <1>a, <1>b DEF InjectReturns, hubVars
<1>4. ASSUME NEW b \in Agent, InjectCut(b) PROVE Follows(a)' /\ Empty(a)'
  BY <1>4, <1>a, <1>b DEF InjectCut, Idle, hubVars
<1>5. ASSUME NEW b \in Agent, Archive(b) PROVE Follows(a)' /\ Empty(a)'
  BY <1>5, <1>a, <1>b DEF Archive, Idle
<1>6. ASSUME NEW b \in Agent, Forget(b) PROVE Follows(a)' /\ Empty(a)'
  BY <1>6, <1>a, <1>b DEF Forget, Idle
<1>7. CASE Restart
  BY <1>7, <1>a, <1>b DEF Restart, Idle
<1>8. CASE Tick
  BY <1>8, <1>1 DEF Tick, agentVars
<1> QED
  BY <1>1, <1>2, <1>3, <1>4, <1>5, <1>6, <1>7, <1>8, LinkKeepsAgents
     DEF Next, AgentNext, vars, hubVars, agentVars

\* An agent's written and open turns say of the services what the hub counts as
\* reported to it, whatever services, posts, cancellations and restarts cross.
THEOREM ViewsFollow == Spec => []ViewFollowsReports
<1>1. ViewInv => ViewFollowsReports
  BY DEF ViewInv
<1> QED
  BY ViewInitHolds, ViewStep, <1>1, PTL DEF Spec

-----------------------------------------------------------------------------
(* A service whose posts are answered in time is never dropped.            *)

LinkTypeOK ==
  /\ registry \in [Service -> Entry \cup {None}]
  /\ proc \in [Service -> {"off", "register", "beat", "again", "panel", "sleep", "unregister"}]
  /\ config \in [Service -> Config]
  /\ post \in [Service -> Post \cup {None}]
  /\ late \in [Service -> SUBSET [kind : {"register", "heartbeat", "unregister"}, config : Config]]
  /\ timer \in [Service -> Nat]
  /\ missed \in [Service -> BOOLEAN]

\* Each place of the link awaits a post of its own kind, and no longer than it may.
Awaits(s) ==
  /\ proc[s] \in {"off", "sleep"} <=> post[s] = None
  /\ proc[s] \in {"register", "again"} => post[s].kind = "register"
  /\ proc[s] = "beat" => post[s].kind = "heartbeat"
  /\ proc[s] = "panel" => post[s].kind = "surface"
  /\ proc[s] = "unregister" => post[s].kind = "unregister"
  /\ post[s] # None => post[s].age <= PostLimit
  /\ proc[s] = "sleep" => timer[s] <= Every
  /\ Up(s) /\ proc[s] # "off" => \A r \in late[s] : r.kind # "unregister"

\* A post the hub said ok to found or made an entry that is no older than the post.
Confirmed(s) ==
  post[s] # None /\ proc[s] \in {"register", "again", "beat"} /\ post[s].reply = "ok" =>
    registry[s] # None /\ registry[s].age <= post[s].age

\* How old the entry of a service with no trouble can be: the last answered
\* beat's own wait, then the panel's or the sleep's, then this beat's.
Oldest(s) ==
  PostLimit + (IF proc[s] = "sleep" THEN timer[s]
               ELSE IF proc[s] = "panel" THEN post[s].age
               ELSE Every + post[s].age)

Steady(s) ==
  Up(s) /\ ~missed[s] =>
    /\ proc[s] \in {"beat", "panel", "sleep"}
    /\ registry[s] # None /\ registry[s].age <= Oldest(s)

LinkInv == LinkTypeOK /\ \A s \in Service : Awaits(s) /\ Confirmed(s) /\ Steady(s)

LEMMA LinkInitHolds == Init => LinkInv
<1> SUFFICES ASSUME Init PROVE LinkInv
  OBVIOUS
<1> USE TimingAssumption DEF Init
<1>1. LinkTypeOK
  BY DEF LinkTypeOK
<1>2. ASSUME NEW s \in Service PROVE Awaits(s) /\ Confirmed(s) /\ Steady(s)
  BY DEF Awaits, Confirmed, Steady, Up
<1> QED
  BY <1>1, <1>2 DEF LinkInv

\* What a request makes of an entry is an entry, or none.
LEMMA EntryType ==
  ASSUME LinkTypeOK, NEW s \in Service, NEW k, NEW c \in Config
  PROVE  /\ EntryAfter(s, k, c) \in Entry \cup {None}
         /\ k # "unregister" /\ registry[s] # None => EntryAfter(s, k, c) # None
         /\ k # "unregister" /\ registry[s] # None =>
              EntryAfter(s, k, c).age = 0 \/ EntryAfter(s, k, c) = registry[s]
         /\ k \in {"register", "heartbeat"} /\ ReplyTo(s, k, c) = "ok" =>
              EntryAfter(s, k, c) # None /\ EntryAfter(s, k, c).age = 0
<1>1. Accepted(Body(c)) => [age |-> 0, mode |-> c.mode] \in Entry
  BY ConfigAssumption DEF Accepted, Body, Entry
<1>2. registry[s] # None => [registry[s] EXCEPT !.age = 0] \in Entry /\ [registry[s] EXCEPT !.age = 0].age = 0
  BY DEF LinkTypeOK, Entry
<1>3. registry[s] \in Entry \cup {None} /\ None \notin Entry
  BY NoneAssumption DEF LinkTypeOK
<1>4. CASE k = "register"
  BY <1>1, <1>3, <1>4 DEF EntryAfter, ReplyTo
<1>5. CASE k = "heartbeat"
  BY <1>2, <1>3, <1>5 DEF EntryAfter, ReplyTo
<1>6. CASE k = "unregister"
  BY <1>3, <1>6 DEF EntryAfter, ReplyTo
<1>7. CASE k \notin {"register", "heartbeat", "unregister"}
  BY <1>3, <1>7 DEF EntryAfter, ReplyTo
<1> QED
  BY <1>4, <1>5, <1>6, <1>7

\* Where a link goes from its post, and what it then awaits.
LEMMA ContinueType ==
  ASSUME LinkTypeOK, NEW s \in Service, NEW answer, Continue(s, answer)
  PROVE  /\ proc' \in [Service -> {"off", "register", "beat", "again", "panel", "sleep", "unregister"}]
         /\ post' \in [Service -> Post \cup {None}]
         /\ timer' \in [Service -> Nat] /\ timer'[s] = 0
         /\ \A u \in Service : u # s => proc'[u] = proc[u] /\ post'[u] = post[u] /\ timer'[u] = timer[u]
         /\ \/ proc'[s] \in {"sleep", "off"} /\ post'[s] = None
            \/ proc'[s] = "beat" /\ post'[s] = Asking("heartbeat")
            \/ proc'[s] = "again" /\ post'[s] = Asking("register")
            \/ proc'[s] = "panel" /\ post'[s] = Asking("surface")
         /\ proc'[s] = "panel" => proc[s] # "panel"
         /\ proc'[s] = "again" => answer = "unknown" /\ proc[s] = "beat"
         /\ proc'[s] = "off" <=> proc[s] = "unregister"
<1>1. PICK next : /\ next \in {After(s, answer)}
                               \cup IF s \in Panel /\ After(s, answer) = "sleep" /\ proc[s] # "panel"
                                      THEN {"panel"} ELSE {}
                  /\ proc' = [proc EXCEPT ![s] = next]
                  /\ post' = [post EXCEPT ![s] = IF next \in {"sleep", "off"} THEN None ELSE Asking(KindAt(next))]
                  /\ timer' = [timer EXCEPT ![s] = 0]
  BY DEF Continue
<1>2. /\ next \in {"beat", "again", "off", "sleep", "panel"}
      /\ next = "panel" => proc[s] # "panel" /\ After(s, answer) = "sleep"
      /\ next = "again" => answer = "unknown" /\ proc[s] = "beat"
      /\ next = "off" <=> proc[s] = "unregister"
  BY <1>1 DEF After
<1>3. \A k \in {"heartbeat", "register", "surface"} : Asking(k) \in Post
  BY DEF Asking, Post
<1>4. /\ next = "beat" => KindAt(next) = "heartbeat"
      /\ next = "again" => KindAt(next) = "register"
      /\ next = "panel" => KindAt(next) = "surface"
  BY DEF KindAt
<1>5. (IF next \in {"sleep", "off"} THEN None ELSE Asking(KindAt(next))) \in Post \cup {None}
  BY <1>2, <1>3, <1>4
<1>6. proc \in [Service -> {"off", "register", "beat", "again", "panel", "sleep", "unregister"}]
      /\ post \in [Service -> Post \cup {None}] /\ timer \in [Service -> Nat]
  BY DEF LinkTypeOK
<1>7. proc'[s] = next /\ post'[s] = IF next \in {"sleep", "off"} THEN None ELSE Asking(KindAt(next))
  BY <1>1, <1>6
<1>8. \/ proc'[s] \in {"sleep", "off"} /\ post'[s] = None
      \/ proc'[s] = "beat" /\ post'[s] = Asking("heartbeat")
      \/ proc'[s] = "again" /\ post'[s] = Asking("register")
      \/ proc'[s] = "panel" /\ post'[s] = Asking("surface")
  BY <1>2, <1>4, <1>7
<1>9. proc' \in [Service -> {"off", "register", "beat", "again", "panel", "sleep", "unregister"}]
      /\ post' \in [Service -> Post \cup {None}] /\ timer' \in [Service -> Nat] /\ timer'[s] = 0
  BY <1>1, <1>2, <1>5, <1>6
<1>10. \A u \in Service : u # s => proc'[u] = proc[u] /\ post'[u] = post[u] /\ timer'[u] = timer[u]
  BY <1>1, <1>6
<1> QED
  BY <1>2, <1>7, <1>8, <1>9, <1>10

LEMMA AbandonedType ==
  ASSUME LinkTypeOK, NEW s \in Service
  PROVE  /\ Abandoned(s) \in SUBSET [kind : {"register", "heartbeat", "unregister"}, config : Config]
         /\ \A r \in Abandoned(s) : r \in late[s] \/ (post[s] # None /\ r.kind = post[s].kind)
<1>1. post[s] # None /\ post[s].kind # "surface" =>
        [kind |-> post[s].kind, config |-> config[s]] \in [kind : {"register", "heartbeat", "unregister"}, config : Config]
  BY DEF LinkTypeOK, Post
<1> QED
  BY <1>1 DEF Abandoned, LinkTypeOK

LEMMA LinkTypeStep == LinkTypeOK /\ [Next]_vars => LinkTypeOK'
<1> SUFFICES ASSUME LinkTypeOK, [Next]_vars PROVE LinkTypeOK'
  OBVIOUS
<1>a. /\ registry \in [Service -> Entry \cup {None}]
      /\ proc \in [Service -> {"off", "register", "beat", "again", "panel", "sleep", "unregister"}]
      /\ config \in [Service -> Config]
      /\ post \in [Service -> Post \cup {None}]
      /\ late \in [Service -> SUBSET [kind : {"register", "heartbeat", "unregister"}, config : Config]]
      /\ timer \in [Service -> Nat]
      /\ missed \in [Service -> BOOLEAN]
  BY DEF LinkTypeOK
<1>b. \A k \in {"heartbeat", "register", "unregister"} : Asking(k) \in Post
  BY DEF Asking, Post
<1>1. CASE UNCHANGED <<registry, proc, config, post, late, timer, missed>>
  BY <1>1 DEF LinkTypeOK
<1>2. ASSUME NEW s \in Service, LinkNext(s) PROVE LinkTypeOK'
  <2>1. ASSUME NEW c \in Config, Start(s, c) PROVE LinkTypeOK'
    BY <1>a, <1>b, <2>1 DEF Start, LinkTypeOK, hubVars
  <2>2. CASE Handle(s)
    <3>1. EntryAfter(s, post[s].kind, config[s]) \in Entry \cup {None}
      BY <1>a, EntryType
    <3>2. post[s] \in Post /\ ReplyTo(s, post[s].kind, config[s]) \in {"ok", "unknown", "rejected"}
      BY <1>a, <2>2 DEF Handle, ReplyTo
    <3>3. [post[s] EXCEPT !.reply = ReplyTo(s, post[s].kind, config[s])] \in Post
      BY <3>2 DEF Post
    <3> QED
      BY <1>a, <2>2, <3>1, <3>3 DEF Handle, LinkTypeOK
  <2>3. ASSUME NEW r \in late[s], HandleLate(s, r) \/ LoseLate(s, r) PROVE LinkTypeOK'
    <3>1. EntryAfter(s, r.kind, r.config) \in Entry \cup {None}
      BY <1>a, EntryType
    <3> QED
      BY <1>a, <2>3, <3>1 DEF HandleLate, LoseLate, LinkTypeOK, hubVars
  <2>4. CASE Answered(s)
    <3>1. missed' \in [Service -> BOOLEAN]
      BY <1>a, <2>4 DEF Answered
    <3> QED
      BY <1>a, <2>4, <3>1, ContinueType DEF Answered, LinkTypeOK, hubVars
  <2>5. CASE PostFails(s)
    BY <1>a, <2>5, ContinueType, AbandonedType DEF PostFails, LinkTypeOK, hubVars
  <2>6. CASE Wake(s)
    BY <1>a, <1>b, <2>6 DEF Wake, LinkTypeOK, hubVars
  <2>7. CASE Stop(s)
    BY <1>a, <1>b, <2>7, AbandonedType DEF Stop, LinkTypeOK, hubVars
  <2>8. CASE Die(s)
    BY <1>a, <2>8, AbandonedType DEF Die, LinkTypeOK, hubVars
  <2> QED
    BY <1>2, <2>1, <2>2, <2>3, <2>4, <2>5, <2>6, <2>7, <2>8 DEF LinkNext
<1>3. ASSUME NEW a \in Agent, AgentNext(a) PROVE LinkTypeOK'
  <2>1. CASE Evict /\ UNCHANGED linkVars
    BY <1>a, <2>1 DEF Evict, LinkTypeOK, linkVars
  <2>2. CASE UNCHANGED <<registry, linkVars>>
    BY <1>1, <2>2 DEF linkVars
  <2> QED
    BY <1>3, <2>1, <2>2 DEF AgentNext, Inject, InjectReturns, InjectCut, Archive, Forget, hubVars
<1>4. CASE Restart
  <2>1. \A s \in Service : post[s] # None => [post[s] EXCEPT !.reply = "reset"] \in Post
    BY <1>a DEF Post
  <2> QED
    BY <1>a, <1>4, <2>1 DEF Restart, LinkTypeOK
<1>5. CASE Tick
  <2>1. \A s \in Service : post[s] # None => [post[s] EXCEPT !.age = @ + 1] \in Post
    BY <1>a DEF Post
  <2>2. \A s \in Service : registry[s] # None => [registry[s] EXCEPT !.age = @ + 1] \in Entry
    BY <1>a DEF Entry
  <2> QED
    BY <1>a, <1>5, <2>1, <2>2 DEF Tick, LinkTypeOK, agentVars
<1> QED
  BY <1>1, <1>2, <1>3, <1>4, <1>5 DEF Next, vars, hubVars, linkVars

\* A service whose link does not move keeps what holds of it.
LEMMA FrameStep ==
  ASSUME LinkTypeOK, NEW s \in Service, Awaits(s), Confirmed(s), Steady(s),
         UNCHANGED <<proc[s], post[s], timer[s], missed[s], registry[s]>>, late'[s] \subseteq late[s]
  PROVE  Awaits(s)' /\ Confirmed(s)' /\ Steady(s)'
  BY DEF Awaits, Confirmed, Steady, Oldest, Up

\* What an eviction drops is not the entry of a link in order.
LEMMA EvictStep ==
  ASSUME LinkTypeOK, NEW s \in Service, Awaits(s), Confirmed(s), Steady(s), Evict, UNCHANGED linkVars
  PROVE  Awaits(s)' /\ Confirmed(s)' /\ Steady(s)'
<1>1. registry'[s] = IF Fresh(s) THEN registry[s] ELSE None
  BY DEF Evict, Live
<1>2. UNCHANGED <<proc[s], post[s], timer[s], missed[s], late[s]>>
  BY DEF linkVars
<1>3. Awaits(s)'
  BY <1>2 DEF Awaits, Up
<1>4. /\ timer[s] \in Nat /\ (post[s] # None => post[s].age \in Nat)
      /\ (registry[s] # None => registry[s].age \in Nat)
  BY DEF LinkTypeOK, Post, Entry
<1>5. Confirmed(s)'
  BY <1>1, <1>2, <1>4, TimingAssumption DEF Confirmed, Awaits, Fresh
<1>6. Up(s) /\ ~missed[s] => Oldest(s) <= TTL
  BY <1>4, TimingAssumption DEF Steady, Awaits, Oldest
<1>7. Up(s) /\ ~missed[s] => Fresh(s) /\ Oldest(s) \in Nat
  BY <1>4, <1>6, TimingAssumption DEF Steady, Oldest, Awaits, Fresh
<1>8. Oldest(s)' = Oldest(s)
  BY <1>2 DEF Oldest
<1>9. Steady(s)'
  BY <1>1, <1>2, <1>7, <1>8 DEF Steady, Up
<1> QED
  BY <1>3, <1>5, <1>9

LEMMA ReadStep ==
  ASSUME LinkTypeOK, LinkTypeOK', NEW s \in Service, Awaits(s), Confirmed(s), Steady(s),
         Handle(s) \/ \E r \in late[s] : HandleLate(s, r) \/ LoseLate(s, r)
  PROVE  Awaits(s)' /\ Confirmed(s)' /\ Steady(s)'
<1>0. /\ timer[s] \in Nat /\ (post[s] # None => post[s].age \in Nat)
      /\ (registry[s] # None => registry[s].age \in Nat)
  BY DEF LinkTypeOK, Post, Entry
<1>1. CASE Handle(s)
  <2> DEFINE e == EntryAfter(s, post[s].kind, config[s])
  <2>1. /\ registry'[s] = e /\ post[s] # None
        /\ post'[s] = [post[s] EXCEPT !.reply = ReplyTo(s, post[s].kind, config[s])]
        /\ UNCHANGED <<proc[s], timer[s], missed[s], late[s]>>
    BY <1>1 DEF Handle, LinkTypeOK
  <2>2. /\ post'[s].age = post[s].age /\ post'[s].kind = post[s].kind /\ post'[s] # None
        /\ post'[s].reply = ReplyTo(s, post[s].kind, config[s])
    <3>1. post[s] \in Post
      BY <2>1 DEF LinkTypeOK
    <3>2. post'[s] \in Post
      BY <2>1, <3>1 DEF Post, ReplyTo
    <3> QED
      BY <2>1, <3>1, <3>2, NoneAssumption DEF Post
  <2>3. Awaits(s)'
    BY <2>1, <2>2 DEF Awaits, Up
  <2>4. config[s] \in Config
    BY DEF LinkTypeOK
  <2>5. post[s].kind \in {"register", "heartbeat"} /\ post'[s].reply = "ok" => e # None /\ e.age = 0
    BY <2>2, <2>4, EntryType
  <2>6. Confirmed(s)'
    BY <1>0, <2>1, <2>2, <2>5 DEF Confirmed, Awaits
  <2>7. post[s].kind # "unregister" /\ registry[s] # None => e # None /\ (e.age = 0 \/ e = registry[s])
    BY <2>4, EntryType
  <2>8. Oldest(s)' = Oldest(s)
    BY <2>1, <2>2 DEF Oldest
  <2>9. Up(s) /\ ~missed[s] => Oldest(s) \in Nat
    BY <1>0, TimingAssumption DEF Oldest, Awaits, Steady
  <2>10. Steady(s)'
    BY <2>1, <2>7, <2>8, <2>9 DEF Steady, Up, Awaits
  <2> QED
    BY <2>3, <2>6, <2>10
<1>2. ASSUME NEW r \in late[s], HandleLate(s, r) \/ LoseLate(s, r)
      PROVE  Awaits(s)' /\ Confirmed(s)' /\ Steady(s)'
  <2>1. CASE LoseLate(s, r)
    BY <2>1, FrameStep DEF LoseLate, hubVars, LinkTypeOK
  <2>2. CASE HandleLate(s, r)
    <3> DEFINE e == EntryAfter(s, r.kind, r.config)
    <3>1. /\ registry'[s] = e /\ late'[s] \subseteq late[s] /\ r.config \in Config
          /\ UNCHANGED <<proc[s], post[s], timer[s], missed[s]>>
      BY <2>2 DEF HandleLate, LinkTypeOK
    <3>2. CASE proc[s] \in {"off", "unregister"}
      BY <3>1, <3>2 DEF Awaits, Confirmed, Steady, Up
    <3>3. CASE proc[s] \notin {"off", "unregister"}
      <4>1. r.kind # "unregister"
        BY <3>3 DEF Awaits, Up
      <4>2. registry[s] # None => e # None /\ (e.age = 0 \/ e = registry[s])
        BY <3>1, <4>1, EntryType
      <4>3. Up(s) /\ ~missed[s] => Oldest(s) \in Nat
        BY <1>0, TimingAssumption DEF Oldest, Awaits, Steady
      <4>4. Oldest(s)' = Oldest(s)
        BY <3>1 DEF Oldest
      <4> QED
        BY <1>0, <3>1, <4>2, <4>3, <4>4 DEF Awaits, Confirmed, Steady, Up
    <3> QED
      BY <3>2, <3>3
  <2> QED
    BY <1>2, <2>1, <2>2
<1> QED
  BY <1>1, <1>2

LEMMA PostStep ==
  ASSUME LinkTypeOK, NEW s \in Service, Awaits(s), Confirmed(s), Steady(s),
         Answered(s) \/ PostFails(s)
  PROVE  Awaits(s)' /\ Confirmed(s)' /\ Steady(s)'
<1>0. /\ timer[s] \in Nat /\ (post[s] # None => post[s].age \in Nat)
      /\ (registry[s] # None => registry[s].age \in Nat) /\ missed \in [Service -> BOOLEAN]
  BY DEF LinkTypeOK, Post, Entry
<1>1. PICK answer : /\ Continue(s, answer) /\ post[s] # None /\ UNCHANGED registry
                    /\ \/ PostFails(s)
                       \/ Answered(s) /\ answer = post[s].reply
  <2>1. CASE Answered(s)
    BY <2>1 DEF Answered, hubVars
  <2>2. CASE PostFails(s)
    BY <2>2 DEF PostFails, hubVars
  <2> QED
    BY <2>1, <2>2
<1>2. /\ timer'[s] = 0
      /\ \/ proc'[s] \in {"sleep", "off"} /\ post'[s] = None
         \/ proc'[s] = "beat" /\ post'[s] = Asking("heartbeat")
         \/ proc'[s] = "again" /\ post'[s] = Asking("register")
         \/ proc'[s] = "panel" /\ post'[s] = Asking("surface")
      /\ proc'[s] = "panel" => proc[s] # "panel"
      /\ proc'[s] = "again" => answer = "unknown" /\ proc[s] = "beat"
      /\ proc'[s] = "off" <=> proc[s] = "unregister"
  BY <1>1, ContinueType
<1>3. \A k \in {"register", "heartbeat", "surface"} :
        Asking(k).kind = k /\ Asking(k).age = 0 /\ Asking(k).reply = None /\ Asking(k) # None
  <2>1. \A k \in {"register", "heartbeat", "surface"} : Asking(k) \in Post
    BY DEF Asking, Post
  <2> QED
    BY <2>1, NoneAssumption DEF Asking
<1>4. late'[s] = late[s] \/ late'[s] = Abandoned(s)
  BY DEF Answered, PostFails, LinkTypeOK
<1>5. Awaits(s)'
  <2>1. Up(s)' /\ proc'[s] # "off" => \A r \in late'[s] : r.kind # "unregister"
    <3>1. proc'[s] # "off" => proc[s] \in {"register", "again", "beat", "panel"}
      BY <1>1, <1>2 DEF Awaits, LinkTypeOK
    <3>2. proc'[s] # "off" => post[s].kind # "unregister" /\ \A r \in late[s] : r.kind # "unregister"
      BY <3>1 DEF Awaits, Up
    <3> QED
      BY <1>4, <3>2, AbandonedType
  <2> QED
    BY <1>2, <1>3, <2>1, TimingAssumption DEF Awaits
<1>6. Confirmed(s)'
  BY <1>2, <1>3, NoneAssumption DEF Confirmed
<1>7. Steady(s)'
  <2> SUFFICES ASSUME Up(s)', ~missed'[s]
               PROVE  /\ proc'[s] \in {"beat", "panel", "sleep"}
                      /\ registry'[s] # None /\ registry'[s].age <= Oldest(s)'
    BY DEF Steady
  <2>1. Answered(s) /\ answer = post[s].reply
    BY <1>0, <1>1 DEF PostFails
  <2>a. missed'[s] = IF post[s].kind = "surface" THEN missed[s] \/ post[s].age > 0 ELSE post[s].reply # "ok"
    BY <1>0, <2>1 DEF Answered
  <2>2. /\ post[s].kind = "surface" => ~missed[s] /\ ~(post[s].age > 0)
        /\ post[s].kind # "surface" => post[s].reply = "ok"
    BY <2>a
  <2>3. proc[s] \in {"register", "again", "beat", "panel"}
    BY <1>1, <1>2 DEF Awaits, LinkTypeOK, Up
  <2>4. registry[s] # None /\ registry[s].age <= PostLimit
    <3>1. CASE proc[s] = "panel"
      <4>1. post[s].kind = "surface" /\ ~missed[s] /\ post[s].age = 0 /\ Up(s)
        BY <1>0, <1>1, <2>2, <3>1 DEF Awaits, Up
      <4> QED
        BY <3>1, <4>1, TimingAssumption DEF Steady, Oldest
    <3>2. CASE proc[s] # "panel"
      <4>1. post[s].kind # "surface" /\ post[s].reply = "ok" /\ post[s].age <= PostLimit
        BY <1>1, <2>2, <2>3, <3>2 DEF Awaits
      <4> QED
        BY <1>0, <1>1, <2>3, <3>2, <4>1, TimingAssumption DEF Confirmed
    <3> QED
      BY <3>1, <3>2
  <2>5. proc'[s] \in {"beat", "panel", "sleep"}
    <3>1. proc'[s] # "again"
      BY <1>2, <2>1, <2>2 DEF Awaits
    <3> QED
      BY <1>2, <3>1 DEF Up
  <2>6. Oldest(s)' \in Nat /\ PostLimit <= Oldest(s)'
    BY <1>2, <1>3, <2>5, TimingAssumption DEF Oldest
  <2> QED
    BY <1>0, <1>1, <2>4, <2>5, <2>6, TimingAssumption
<1> QED
  BY <1>5, <1>6, <1>7

LEMMA OwnStep ==
  ASSUME LinkTypeOK, NEW s \in Service, Awaits(s), Confirmed(s), Steady(s),
         (\E c \in Config : Start(s, c)) \/ Wake(s) \/ Stop(s) \/ Die(s)
  PROVE  Awaits(s)' /\ Confirmed(s)' /\ Steady(s)'
<1>0. /\ timer[s] \in Nat /\ (registry[s] # None => registry[s].age \in Nat)
      /\ proc \in [Service -> {"off", "register", "beat", "again", "panel", "sleep", "unregister"}]
      /\ post \in [Service -> Post \cup {None}] /\ missed \in [Service -> BOOLEAN]
      /\ late \in [Service -> SUBSET [kind : {"register", "heartbeat", "unregister"}, config : Config]]
      /\ timer \in [Service -> Nat]
  BY DEF LinkTypeOK, Entry
<1>1. \A k \in {"register", "heartbeat", "unregister"} :
        Asking(k).kind = k /\ Asking(k).age = 0 /\ Asking(k).reply = None /\ Asking(k) # None
  <2>1. \A k \in {"register", "heartbeat", "unregister"} : Asking(k) \in Post
    BY DEF Asking, Post
  <2> QED
    BY <2>1, NoneAssumption DEF Asking
<1>2. ASSUME NEW c \in Config, Start(s, c) PROVE Awaits(s)' /\ Confirmed(s)' /\ Steady(s)'
  <2>1. proc'[s] = "register" /\ post'[s] = Asking("register") /\ missed'[s] /\ late'[s] = {}
    BY <1>0, <1>2 DEF Start
  <2> QED
    BY <1>1, <2>1, NoneAssumption, TimingAssumption DEF Awaits, Confirmed, Steady
<1>3. CASE Wake(s)
  <2>1. /\ proc[s] = "sleep" /\ timer[s] = Every
        /\ proc'[s] = "beat" /\ post'[s] = Asking("heartbeat")
        /\ UNCHANGED <<registry[s], missed[s], late[s]>>
    BY <1>0, <1>3 DEF Wake, hubVars
  <2>2. Awaits(s)' /\ Confirmed(s)'
    BY <1>1, <2>1, NoneAssumption, TimingAssumption DEF Awaits, Confirmed, Up
  <2>3. Oldest(s) = PostLimit + Every /\ Oldest(s)' = PostLimit + Every
    BY <1>1, <2>1, TimingAssumption DEF Oldest
  <2> QED
    BY <2>1, <2>2, <2>3 DEF Steady, Up
<1>4. CASE Stop(s)
  <2>1. proc'[s] = "unregister" /\ post'[s] = Asking("unregister")
    BY <1>0, <1>4 DEF Stop
  <2> QED
    BY <1>1, <2>1, TimingAssumption DEF Awaits, Confirmed, Steady, Up
<1>5. CASE Die(s)
  <2>1. proc'[s] = "off" /\ post'[s] = None
    BY <1>0, <1>5 DEF Die
  <2> QED
    BY <2>1 DEF Awaits, Confirmed, Steady, Up
<1> QED
  BY <1>2, <1>3, <1>4, <1>5

LEMMA TimeStep ==
  ASSUME LinkTypeOK, NEW s \in Service, Awaits(s), Confirmed(s), Steady(s), Restart \/ Tick
  PROVE  Awaits(s)' /\ Confirmed(s)' /\ Steady(s)'
<1>0. /\ timer[s] \in Nat /\ (registry[s] # None => registry[s].age \in Nat /\ registry[s] \in Entry)
      /\ (post[s] # None => post[s] \in Post /\ post[s].age \in Nat)
  BY DEF LinkTypeOK, Entry, Post
<1>1. CASE Restart
  <2>1. /\ missed'[s] /\ late'[s] = {} /\ proc'[s] = proc[s] /\ timer'[s] = timer[s]
        /\ post'[s] = IF post[s] = None THEN None ELSE [post[s] EXCEPT !.reply = "reset"]
    BY <1>1 DEF Restart
  <2>2. post[s] # None => /\ post'[s].kind = post[s].kind /\ post'[s].age = post[s].age
                          /\ post'[s].reply = "reset" /\ post'[s] \in Post
    BY <1>0, <2>1 DEF Post
  <2> QED
    BY <2>1, <2>2, NoneAssumption DEF Awaits, Confirmed, Steady
<1>2. CASE Tick
  <2>1. /\ late'[s] = {} /\ proc'[s] = proc[s] /\ missed'[s] = missed[s]
        /\ proc[s] = "sleep" => timer[s] < Every
        /\ post[s] # None => post[s].age < PostLimit
        /\ timer'[s] = IF proc[s] = "sleep" THEN timer[s] + 1 ELSE timer[s]
        /\ post'[s] = IF post[s] = None THEN None ELSE [post[s] EXCEPT !.age = @ + 1]
        /\ registry'[s] = IF registry[s] = None \/ registry[s].age > TTL THEN registry[s]
                          ELSE [registry[s] EXCEPT !.age = @ + 1]
    BY <1>2 DEF Tick, agentVars
  <2>2. post[s] # None => /\ post'[s].kind = post[s].kind /\ post'[s].age = post[s].age + 1
                          /\ post'[s].reply = post[s].reply /\ post'[s] \in Post
    BY <1>0, <2>1 DEF Post
  <2>3. registry[s] # None => registry'[s] # None /\ (registry'[s].age = registry[s].age + 1 \/ (registry[s].age > TTL /\ registry'[s] = registry[s]))
    BY <1>0, <2>1, NoneAssumption DEF Entry
  <2>4. Awaits(s)'
    BY <1>0, <2>1, <2>2, NoneAssumption, TimingAssumption DEF Awaits
  <2>5. Confirmed(s)'
    BY <1>0, <2>1, <2>2, <2>3, TimingAssumption DEF Confirmed, Awaits
  <2>6. Steady(s)'
    <3> SUFFICES ASSUME Up(s), ~missed[s]
                 PROVE  /\ proc[s] \in {"beat", "panel", "sleep"}
                        /\ registry'[s] # None /\ registry'[s].age <= Oldest(s)'
      BY <2>1 DEF Steady, Up
    <3>1. /\ proc[s] \in {"beat", "panel", "sleep"} /\ registry[s] # None /\ registry[s].age <= Oldest(s)
      BY DEF Steady
    <3>2. Oldest(s) \in Nat /\ Oldest(s)' = Oldest(s) + 1
      BY <1>0, <2>1, <2>2, <3>1, TimingAssumption DEF Oldest, Awaits
    <3> QED
      BY <1>0, <2>3, <3>1, <3>2
  <2> QED
    BY <2>4, <2>5, <2>6
<1> QED
  BY <1>1, <1>2

LEMMA LinkStep == LinkInv /\ [Next]_vars => LinkInv'
<1> SUFFICES ASSUME LinkInv, [Next]_vars, LinkTypeOK', NEW s \in Service
             PROVE  Awaits(s)' /\ Confirmed(s)' /\ Steady(s)'
  BY LinkTypeStep DEF LinkInv
<1>0. LinkTypeOK /\ Awaits(s) /\ Confirmed(s) /\ Steady(s)
  BY DEF LinkInv
<1>1. CASE UNCHANGED <<registry, linkVars>>
  BY <1>0, <1>1, FrameStep DEF linkVars
<1>2. ASSUME NEW u \in Service, LinkNext(u) PROVE Awaits(s)' /\ Confirmed(s)' /\ Steady(s)'
  <2>1. CASE u = s
    BY <1>0, <1>2, <2>1, ReadStep, PostStep, OwnStep DEF LinkNext
  <2>2. CASE u # s
    <3>1. UNCHANGED <<proc[s], post[s], timer[s], missed[s], registry[s], late[s]>>
      <4>1. CASE Answered(u) \/ PostFails(u)
        <5>1. proc'[s] = proc[s] /\ post'[s] = post[s] /\ timer'[s] = timer[s]
          BY <1>0, <2>2, <4>1, ContinueType DEF Answered, PostFails
        <5> QED
          BY <1>0, <2>2, <4>1, <5>1 DEF Answered, PostFails, LinkTypeOK, hubVars
      <4>2. CASE ~(Answered(u) \/ PostFails(u))
        BY <1>0, <1>2, <2>2, <4>2
           DEF LinkNext, Start, Handle, Wake, Stop, Die, HandleLate, LoseLate, LinkTypeOK, hubVars
      <4> QED
        BY <4>1, <4>2
    <3> QED
      BY <1>0, <3>1, FrameStep
  <2> QED
    BY <2>1, <2>2
<1>3. ASSUME NEW a \in Agent, AgentNext(a) PROVE Awaits(s)' /\ Confirmed(s)' /\ Steady(s)'
  <2>1. (Evict /\ UNCHANGED linkVars) \/ UNCHANGED <<registry, linkVars>>
    BY <1>3 DEF AgentNext, Inject, InjectReturns, InjectCut, Archive, Forget, hubVars
  <2> QED
    BY <1>0, <1>1, <2>1, EvictStep
<1> QED
  BY <1>0, <1>1, <1>2, <1>3, TimeStep DEF Next, vars, hubVars

\* A service that goes without a missed post is never dropped, however many there
\* are and whatever the periods, as long as the time to live covers a period
\* and two of the client's time limits.
THEOREM HealthyStayLive == Spec => []HealthyStaysLive
<1>1. ASSUME LinkInv, NEW s \in Service, Up(s), ~missed[s] PROVE Fresh(s)
  <2>0. Awaits(s) /\ Steady(s)
    BY <1>1 DEF LinkInv
  <2>1. /\ timer[s] \in Nat /\ (post[s] # None => post[s].age \in Nat)
        /\ (registry[s] # None => registry[s].age \in Nat)
    BY <1>1 DEF LinkInv, LinkTypeOK, Post, Entry
  <2>2. Oldest(s) \in Nat /\ Oldest(s) <= TTL
    BY <1>1, <2>0, <2>1, TimingAssumption DEF Steady, Awaits, Oldest
  <2> QED
    BY <1>1, <2>0, <2>1, <2>2, TimingAssumption DEF Steady, Fresh
<1>2. LinkInv => HealthyStaysLive
  BY <1>1 DEF HealthyStaysLive
<1> QED
  BY LinkInitHolds, LinkStep, <1>2, PTL DEF Spec

-----------------------------------------------------------------------------
(* The dead are not asked.                                                 *)

\* An entry ages with its service's absence: what a process left behind is read or
\* lost before time passes.
Ages(s) ==
  /\ gone[s] > 0 => proc[s] = "off" /\ late[s] = {}
  /\ proc[s] = "off" => post[s] = None
  /\ registry[s] # None => gone[s] <= registry[s].age

AgesInv == gone \in [Service -> Nat] /\ \A s \in Service : Ages(s)

LEMMA AgesInitHolds == Init => AgesInv
<1> SUFFICES ASSUME Init PROVE AgesInv
  OBVIOUS
<1>1. gone \in [Service -> Nat]
  BY DEF Init
<1>2. ASSUME NEW s \in Service PROVE Ages(s)
  BY DEF Init, Ages
<1> QED
  BY <1>1, <1>2 DEF AgesInv

LEMMA AgesStep == LinkInv /\ AgesInv /\ [Next]_vars => AgesInv'
<1> SUFFICES ASSUME LinkTypeOK, \A u \in Service : Awaits(u), AgesInv, [Next]_vars PROVE AgesInv'
  BY DEF LinkInv
<1>a. /\ registry \in [Service -> Entry \cup {None}] /\ gone \in [Service -> Nat]
      /\ proc \in [Service -> {"off", "register", "beat", "again", "panel", "sleep", "unregister"}]
      /\ post \in [Service -> Post \cup {None}]
      /\ late \in [Service -> SUBSET [kind : {"register", "heartbeat", "unregister"}, config : Config]]
  BY DEF LinkTypeOK, AgesInv
<1>b. \A u \in Service : registry[u] # None => registry[u] \in Entry /\ registry[u].age \in Nat
  BY <1>a DEF Entry
<1>1. gone' \in [Service -> Nat]
  <2>1. CASE Tick
    BY <1>a, <2>1 DEF Tick
  <2>2. ASSUME NEW u \in Service, LinkNext(u) PROVE gone' \in [Service -> Nat]
    BY <1>a, <2>2 DEF LinkNext, Start, Handle, Answered, PostFails, Wake, Stop, Die, HandleLate, LoseLate
  <2>3. CASE Restart \/ (\E a \in Agent : AgentNext(a)) \/ UNCHANGED vars
    BY <1>a, <2>3 DEF Restart, AgentNext, Inject, InjectReturns, InjectCut, Archive, Forget, vars, linkVars
  <2> QED
    BY <2>1, <2>2, <2>3 DEF Next
<1>2. ASSUME NEW s \in Service PROVE Ages(s)'
  <2>0. Ages(s) /\ Awaits(s)
    BY DEF AgesInv
  <2>1. CASE UNCHANGED <<proc[s], post[s], gone[s]>> /\ late'[s] \subseteq late[s] /\ registry'[s] \in {registry[s], None}
    BY <2>0, <2>1 DEF Ages
  <2>2. ASSUME NEW u \in Service, LinkNext(u) PROVE Ages(s)'
    <3>1. CASE u # s
      <4>1. CASE Answered(u) \/ PostFails(u)
        <5>1. proc'[s] = proc[s] /\ post'[s] = post[s]
          BY <3>1, <4>1, ContinueType DEF Answered, PostFails
        <5> QED
          BY <1>a, <2>1, <3>1, <4>1, <5>1 DEF Answered, PostFails, hubVars
      <4>2. CASE ~(Answered(u) \/ PostFails(u))
        BY <1>a, <2>1, <2>2, <3>1, <4>2
           DEF LinkNext, Start, Handle, Wake, Stop, Die, HandleLate, LoseLate, hubVars
      <4> QED
        BY <4>1, <4>2
    <3>2. CASE u = s
      <4>1. ASSUME NEW c \in Config, Start(s, c) PROVE Ages(s)'
        BY <1>a, <1>b, <4>1 DEF Start, Ages, hubVars
      <4>2. CASE Handle(s)
        <5>1. proc[s] # "off" /\ gone[s] = 0
          BY <1>a, <2>0, <4>2 DEF Handle, Ages
        <5>2. registry'[s] \in Entry \cup {None}
          BY <1>a, <4>2, EntryType DEF Handle, LinkTypeOK
        <5> QED
          BY <1>a, <4>2, <5>1, <5>2 DEF Handle, Ages, Entry
      <4>3. ASSUME NEW r \in late[s], HandleLate(s, r) PROVE Ages(s)'
        <5>1. gone[s] = 0
          BY <1>a, <2>0 DEF Ages
        <5>2. registry'[s] \in Entry \cup {None}
          BY <1>a, <4>3, EntryType DEF HandleLate, LinkTypeOK
        <5> QED
          BY <1>a, <2>0, <4>3, <5>1, <5>2 DEF HandleLate, Ages, Entry
      <4>4. ASSUME NEW r \in late[s], LoseLate(s, r) PROVE Ages(s)'
        BY <1>a, <2>0, <4>4 DEF LoseLate, Ages, hubVars
      <4>5. CASE Answered(s) \/ PostFails(s)
        <5>1. proc'[s] = "off" => post'[s] = None
          <6>1. \E answer : Continue(s, answer)
            BY <4>5 DEF Answered, PostFails
          <6> QED
            BY <6>1, ContinueType
        <5>2. proc[s] # "off" /\ gone[s] = 0
          BY <1>a, <2>0, <4>5 DEF Answered, PostFails, Ages
        <5>3. UNCHANGED <<registry, gone>>
          BY <4>5 DEF Answered, PostFails, hubVars
        <5> QED
          BY <2>0, <5>1, <5>2, <5>3 DEF Ages
      <4>6. CASE Wake(s) \/ Stop(s) \/ Die(s)
        <5>1. proc[s] # "off" /\ gone[s] = 0
          BY <1>a, <2>0, <4>6 DEF Wake, Stop, Die, Ages
        <5>2. proc'[s] = "off" => post'[s] = None
          BY <1>a, <4>6 DEF Wake, Stop, Die
        <5>3. UNCHANGED <<registry, gone>>
          BY <4>6 DEF Wake, Stop, Die, hubVars
        <5> QED
          BY <2>0, <5>1, <5>2, <5>3 DEF Ages
      <4> QED
        BY <2>2, <3>2, <4>1, <4>2, <4>3, <4>4, <4>5, <4>6 DEF LinkNext
    <3> QED
      BY <3>1, <3>2
  <2>3. ASSUME NEW a \in Agent, AgentNext(a) PROVE Ages(s)'
    <3>1. Evict => registry'[s] \in {registry[s], None}
      BY DEF Evict
    <3> QED
      BY <2>1, <2>3, <3>1 DEF AgentNext, Inject, InjectReturns, InjectCut, Archive, Forget, linkVars, hubVars
  <2>4. CASE Restart
    BY <1>a, <2>0, <2>4 DEF Restart, Ages
  <2>5. CASE Tick
    <3>1. /\ late'[s] = late[s] /\ late[s] = {} /\ proc'[s] = proc[s] /\ (post[s] = None => post'[s] = None)
          /\ gone'[s] = IF proc[s] = "off" /\ gone[s] <= TTL THEN gone[s] + 1 ELSE gone[s]
          /\ registry'[s] = IF registry[s] = None \/ registry[s].age > TTL THEN registry[s]
                            ELSE [registry[s] EXCEPT !.age = @ + 1]
      BY <2>5 DEF Tick, agentVars
    <3>2. registry[s] # None => registry'[s].age = IF registry[s].age > TTL THEN registry[s].age ELSE registry[s].age + 1
      BY <1>b, <3>1 DEF Entry
    <3>3. registry'[s] # None => registry[s] # None
      BY <3>1
    <3> QED
      BY <1>a, <1>b, <2>0, <3>1, <3>2, <3>3, TimingAssumption DEF Ages
  <2>6. CASE UNCHANGED vars
    BY <2>1, <2>6 DEF vars, linkVars, hubVars
  <2> QED
    BY <2>2, <2>3, <2>4, <2>5, <2>6 DEF Next
<1> QED
  BY <1>1, <1>2 DEF AgesInv

\* No turn is handed to a service that has been down for longer than the time to
\* live, for any number of services and whatever they left on the wire.
THEOREM DeadAreNotAsked == Spec => DeadNotAsked
<1> DEFINE AskedRuns == \A a \in Agent : Inject(a) =>
                          \A s \in turn'[a].asked : proc[s] # "off" \/ gone[s] <= TTL
<1>1. AgentTypeOK /\ LinkTypeOK /\ AgesInv /\ [Next]_vars => [AskedRuns]_vars
  <2> SUFFICES ASSUME AgentTypeOK, LinkTypeOK, AgesInv, NEW a \in Agent, Inject(a),
                      NEW s \in turn'[a].asked
               PROVE  gone[s] <= TTL
    OBVIOUS
  <2>1. s \in InMode("inject")
    BY DEF Inject, AgentTypeOK
  <2>2. s \in Service /\ registry[s] # None /\ registry[s].age <= TTL
    BY <2>1 DEF InMode, Live, Fresh
  <2>3. gone[s] \in Nat /\ registry[s].age \in Nat /\ gone[s] <= registry[s].age
    BY <2>2 DEF AgesInv, Ages, LinkTypeOK, Entry
  <2> QED
    BY <2>2, <2>3, TimingAssumption
<1>2. LinkInv => LinkTypeOK
  BY DEF LinkInv
<1>3. Init => AgentTypeOK
  BY ViewInitHolds DEF ViewInv
<1> QED
  BY <1>1, <1>2, <1>3, ViewTypeStep, LinkInitHolds, LinkStep, AgesInitHolds, AgesStep, PTL
     DEF Spec, DeadNotAsked
=============================================================================
