---------------------------- MODULE InjectionHub ----------------------------
(***************************************************************************)
(* The injection hub (nan/injection/hub.py), the client that asks services *)
(* (client.py) and the service's side of the link (nan_service_kit         *)
(* lifecycle.py).  A service registers, beats, and is dropped when its     *)
(* beats stop; every inject of an agent reads the live services once,      *)
(* diffs them against what it last reported to that agent, and asks them.  *)
(* Both ends talk over HTTP: a post can fail before or after the hub       *)
(* handled it, and one the client gave up on can still be handled.         *)
(*                                                                         *)
(* Time is counted in units of 5 s, the largest divisor of the heartbeat   *)
(* period, the client's timeout and the hub's heartbeat_ttl.               *)
(***************************************************************************)
EXTENDS Naturals, FiniteSets

CONSTANTS
  Service,    \* service ids
  Agent,      \* agent ids
  Config,     \* configurations a service process may start with
  Panel,      \* the services that show a panel on the gateway
  TTL,        \* heartbeat_ttl: 15 s
  Every,      \* HEARTBEAT_EVERY: 5 s
  PostLimit,  \* the client's timeout: 5 s
  None        \* no entry, no post, nothing reported yet

Entry == [age : Nat, mode : {"inject", "archive"}]
Post == [kind : {"register", "heartbeat", "unregister", "surface"}, age : Nat,
         reply : {None, "ok", "unknown", "rejected", "reset"}]

ASSUME NoneAssumption ==
  /\ \A S \in SUBSET Service : S # None
  /\ None \notin Entry /\ None \notin Post /\ None \notin {"ok", "unknown", "rejected", "reset"}

ASSUME ConfigAssumption == Config \subseteq [mode : STRING, timeout : STRING, loopback : BOOLEAN]

\* What the defaults satisfy: 15 s, 5 s and 5 s.
ASSUME TimingAssumption == /\ TTL \in Nat /\ Every \in Nat /\ PostLimit \in Nat
                           /\ Every + 2 * PostLimit <= TTL

VARIABLES
  registry,   \* the hub's _services: None, or how long ago it was seen and its mode
  reported,   \* the hub's _last_reported per agent: None or a set of services
  proc,       \* the service's process: where its link is
  config,     \* the configuration that process runs with
  post,       \* the post it awaits: kind, age, and the hub's answer
  late,       \* requests given up on by the client, still to be read by the hub
  timer,      \* how long the beat has slept
  turn,       \* the agent's turn: its stage, the delta it was handed, whom it asks
  view,       \* the services the agent's written turns say are online
  missed,     \* history: a post failed or dragged since the last answered one
  gone,       \* history: how long the service's process has not run
  doubt       \* history: a cancelled inject, or a restart, since the agent began

hubVars == <<registry, reported>>
linkVars == <<proc, config, post, late, timer, missed, gone>>
agentVars == <<turn, view, doubt>>
vars == <<hubVars, linkVars, agentVars>>

Idle == [stage |-> "idle", online |-> {}, offline |-> {}, asked |-> {}]

Up(s) == proc[s] \notin {"off", "unregister"}

-----------------------------------------------------------------------------
(* The hub's handlers: what one request does to the registry.              *)

\* The body HubLink.register sends: a timeout goes with inject only.
Body(c) == IF c.mode = "inject" THEN c ELSE [c EXCEPT !.timeout = "none"]

\* The validation of POST /register.
Accepted(b) ==
  /\ b.mode \in {"inject", "archive"}
  /\ b.loopback
  /\ b.timeout \in {"none", "in range"}
  /\ b.mode = "archive" => b.timeout = "none"

\* A fault: a heartbeat is answered and its entry left as it was.
EntryNotRefreshed(s, k, c) ==
  CASE k = "register" /\ Accepted(Body(c)) -> [age |-> 0, mode |-> c.mode]
    [] k = "unregister" -> None
    [] OTHER -> registry[s]

\* The entry of s after the hub handled a request of kind k.
EntryAfter(s, k, c) ==
  CASE k = "register" /\ Accepted(Body(c)) -> [age |-> 0, mode |-> c.mode]
    [] k = "heartbeat" /\ registry[s] # None -> [registry[s] EXCEPT !.age = 0]
    [] k = "unregister" -> None
    [] OTHER -> registry[s]

ReplyTo(s, k, c) ==
  CASE k = "heartbeat" /\ registry[s] = None -> "unknown"
    [] k = "register" /\ ~Accepted(Body(c)) -> "rejected"
    [] OTHER -> "ok"

Asking(k) == [kind |-> k, age |-> 0, reply |-> None]

-----------------------------------------------------------------------------
(* The service's link.                                                     *)

Init ==
  /\ registry = [s \in Service |-> None]
  /\ reported = [a \in Agent |-> None]
  /\ proc = [s \in Service |-> "off"]
  /\ config \in [Service -> Config]
  /\ post = [s \in Service |-> None]
  /\ late = [s \in Service |-> {}]
  /\ timer = [s \in Service |-> 0]
  /\ turn = [a \in Agent |-> Idle]
  /\ view = [a \in Agent |-> {}]
  /\ missed = [s \in Service |-> TRUE]
  /\ gone = [s \in Service |-> 0]
  /\ doubt = [a \in Agent |-> "none"]

\* HubLink.__aenter__ of a process started with configuration c.  A process
\* takes longer to start than the hub to read what the last one left behind.
Start(s, c) ==
  /\ proc[s] = "off" /\ late[s] = {}
  /\ proc' = [proc EXCEPT ![s] = "register"]
  /\ config' = [config EXCEPT ![s] = c]
  /\ post' = [post EXCEPT ![s] = Asking("register")]
  /\ timer' = [timer EXCEPT ![s] = 0]
  /\ missed' = [missed EXCEPT ![s] = TRUE]
  /\ gone' = [gone EXCEPT ![s] = 0]
  /\ UNCHANGED <<hubVars, late, agentVars>>

\* The hub handles the request that s awaits; a surface post is the gateway's.
Handle(s) ==
  /\ post[s] # None /\ post[s].reply = None
  /\ registry' = [registry EXCEPT ![s] = EntryAfter(s, post[s].kind, config[s])]
  /\ post' = [post EXCEPT ![s].reply = ReplyTo(s, post[s].kind, config[s])]
  /\ UNCHANGED <<reported, proc, config, late, timer, missed, gone, agentVars>>

\* The hub reads a request whose sender has given up.
HandleLate(s, r) ==
  /\ r \in late[s]
  /\ late' = [late EXCEPT ![s] = @ \ {r}]
  /\ registry' = [registry EXCEPT ![s] = EntryAfter(s, r.kind, r.config)]
  /\ UNCHANGED <<reported, proc, config, post, timer, missed, gone, agentVars>>

\* Or never does: the connection was closed first.
LoseLate(s, r) ==
  /\ r \in late[s]
  /\ late' = [late EXCEPT ![s] = @ \ {r}]
  /\ UNCHANGED <<hubVars, proc, config, post, timer, missed, gone, agentVars>>

\* A fault: the beat ignores that the hub does not know it.
AfterIgnoringUnknown(s, answer) ==
  CASE proc[s] = "register" -> "beat"
    [] proc[s] = "unregister" -> "off"
    [] OTHER -> "sleep"

\* Where a post of s leads once it ended with an answer, or None for a failure.
After(s, answer) ==
  CASE proc[s] = "register" -> "beat"
    [] proc[s] = "beat" /\ answer = "unknown" -> "again"
    [] proc[s] = "unregister" -> "off"
    [] OTHER -> "sleep"

KindAt(p) ==
  CASE p = "beat" -> "heartbeat" [] p = "again" -> "register" [] p = "panel" -> "surface"

\* The link leaves a post for its next step: beat() reposts the panel when it
\* is due, after the heartbeat and what the heartbeat's answer asked for.
Continue(s, answer) ==
  \E next \in {After(s, answer)}
                \cup IF s \in Panel /\ After(s, answer) = "sleep" /\ proc[s] # "panel"
                       THEN {"panel"} ELSE {} :
    /\ proc' = [proc EXCEPT ![s] = next]
    /\ post' = [post EXCEPT ![s] = IF next \in {"sleep", "off"} THEN None ELSE Asking(KindAt(next))]
    /\ timer' = [timer EXCEPT ![s] = 0]

\* The answer arrives.
Answered(s) ==
  /\ post[s] # None /\ post[s].reply \notin {None, "reset"}
  /\ Continue(s, post[s].reply)
  /\ missed' = [missed EXCEPT ![s] =
                  IF post[s].kind = "surface" THEN @ \/ post[s].age > 0 ELSE post[s].reply # "ok"]
  /\ UNCHANGED <<hubVars, config, late, gone, agentVars>>

\* What the hub may still read of a post nobody waits for any more.
Abandoned(s) ==
  IF post[s] # None /\ post[s].reply = None /\ post[s].kind # "surface"
    THEN late[s] \cup {[kind |-> post[s].kind, config |-> config[s]]}
    ELSE late[s]

\* The post fails: refused, reset, or timed out, handled or not.
PostFails(s) ==
  /\ post[s] # None
  /\ Continue(s, None)
  /\ late' = [late EXCEPT ![s] = Abandoned(s)]
  /\ missed' = [missed EXCEPT ![s] = TRUE]
  /\ UNCHANGED <<hubVars, config, gone, agentVars>>

\* _beat wakes after HEARTBEAT_EVERY.
Wake(s) ==
  /\ proc[s] = "sleep" /\ timer[s] = Every
  /\ proc' = [proc EXCEPT ![s] = "beat"]
  /\ post' = [post EXCEPT ![s] = Asking("heartbeat")]
  /\ UNCHANGED <<hubVars, config, late, timer, missed, gone, agentVars>>

\* HubLink.stop: the beat is cancelled wherever it is, then unregister is posted.
Stop(s) ==
  /\ proc[s] \in {"beat", "again", "panel", "sleep"}
  /\ proc' = [proc EXCEPT ![s] = "unregister"]
  /\ post' = [post EXCEPT ![s] = Asking("unregister")]
  /\ late' = [late EXCEPT ![s] = Abandoned(s)]
  /\ UNCHANGED <<hubVars, config, timer, missed, gone, agentVars>>

\* The service's process dies without a word.
Die(s) ==
  /\ proc[s] # "off"
  /\ proc' = [proc EXCEPT ![s] = "off"]
  /\ post' = [post EXCEPT ![s] = None]
  /\ late' = [late EXCEPT ![s] = Abandoned(s)]
  /\ UNCHANGED <<hubVars, config, timer, missed, gone, agentVars>>

-----------------------------------------------------------------------------
(* The hub's collections, called from an agent's turn.                     *)

\* A fault: nothing expires.
FreshForever(s) == registry[s] # None

\* _evict_stale_services, then _live_services.
Fresh(s) == registry[s] # None /\ registry[s].age <= TTL
Live == {s \in Service : Fresh(s)}
Evict == registry' = [s \in Service |-> IF s \in Live THEN registry[s] ELSE None]

InMode(mode) == {s \in Live : registry[s].mode = mode}

\* _service_delta: what this agent has not been told yet.
Known(a) == IF reported[a] = None THEN {} ELSE reported[a]

\* A fault: only arrivals are told.
DeltaOfArrivals(a) == [online |-> Live \ Known(a), offline |-> {}]

Delta(a) == [online |-> Live \ Known(a), offline |-> Known(a) \ Live]

\* InjectionHub.inject up to its await: one snapshot of the live services gives
\* the delta, what counts as reported from now on, and whom the client asks.
Inject(a) ==
  /\ turn[a].stage = "idle"
  /\ Evict
  /\ reported' = [reported EXCEPT ![a] = Live]
  /\ turn' = [turn EXCEPT ![a] = [stage |-> "inject", online |-> Delta(a).online,
                                  offline |-> Delta(a).offline, asked |-> InMode("inject")]]
  /\ UNCHANGED <<linkVars, view, doubt>>

\* gather returns: every service answered, failed or timed out.  The engine
\* appends the delta to the turn only here.
InjectReturns(a) ==
  /\ turn[a].stage = "inject"
  /\ turn' = [turn EXCEPT ![a].stage = "think", ![a].asked = {}]
  /\ UNCHANGED <<hubVars, linkVars, view, doubt>>

\* A pause or an exit cancels the turn inside the await; the turn that runs
\* again later asks the hub again.
InjectCut(a) ==
  /\ turn[a].stage = "inject"
  /\ turn' = [turn EXCEPT ![a] = Idle]
  /\ doubt' = [doubt EXCEPT ![a] = "cut"]
  /\ UNCHANGED <<hubVars, linkVars, view>>

\* The turn is written and its archive delivered: InjectionHub.archive evicts too.
Archive(a) ==
  /\ turn[a].stage = "think"
  /\ turn' = [turn EXCEPT ![a] = Idle]
  /\ view' = [view EXCEPT ![a] = (@ \cup turn[a].online) \ turn[a].offline]
  /\ Evict
  /\ UNCHANGED <<reported, linkVars, doubt>>

\* forget_agent: the agent exited; its id stands for a new agent from here on.
Forget(a) ==
  /\ reported' = [reported EXCEPT ![a] = None]
  /\ turn' = [turn EXCEPT ![a] = Idle]
  /\ view' = [view EXCEPT ![a] = {}]
  /\ doubt' = [doubt EXCEPT ![a] = "none"]
  /\ UNCHANGED <<registry, linkVars>>

\* The agents' process dies and starts again: the hub begins empty, the
\* agents come back with the turns they had written, every connection is reset.
Restart ==
  /\ registry' = [s \in Service |-> None]
  /\ reported' = [a \in Agent |-> None]
  /\ turn' = [a \in Agent |-> Idle]
  /\ post' = [s \in Service |-> IF post[s] = None THEN None ELSE [post[s] EXCEPT !.reply = "reset"]]
  /\ late' = [s \in Service |-> {}]
  /\ missed' = [s \in Service |-> TRUE]
  /\ doubt' = [a \in Agent |-> IF doubt[a] = "cut" THEN "cut" ELSE "restart"]
  /\ UNCHANGED <<proc, config, timer, gone, view>>

\* Five seconds pass.  Sleeps and time limits end on time; a request in the
\* hub's socket is read or lost before.
Tick ==
  /\ \A s \in Service : /\ late[s] = {}
                        /\ proc[s] = "sleep" => timer[s] < Every
                        /\ post[s] # None => post[s].age < PostLimit
  /\ registry' = [s \in Service |->
       IF registry[s] = None \/ registry[s].age > TTL THEN registry[s]
       ELSE [registry[s] EXCEPT !.age = @ + 1]]
  /\ timer' = [s \in Service |-> IF proc[s] = "sleep" THEN timer[s] + 1 ELSE timer[s]]
  /\ post' = [s \in Service |-> IF post[s] = None THEN None ELSE [post[s] EXCEPT !.age = @ + 1]]
  /\ gone' = [s \in Service |-> IF proc[s] = "off" /\ gone[s] <= TTL THEN gone[s] + 1 ELSE gone[s]]
  /\ UNCHANGED <<reported, proc, config, late, missed, agentVars>>

LinkNext(s) ==
  \/ \E c \in Config : Start(s, c)
  \/ Handle(s) \/ Answered(s) \/ PostFails(s) \/ Wake(s) \/ Stop(s) \/ Die(s)
  \/ \E r \in late[s] : HandleLate(s, r) \/ LoseLate(s, r)

AgentNext(a) == Inject(a) \/ InjectReturns(a) \/ InjectCut(a) \/ Archive(a) \/ Forget(a)

Next ==
  \/ \E s \in Service : LinkNext(s)
  \/ \E a \in Agent : AgentNext(a)
  \/ Restart
  \/ Tick

\* Both event loops run, time passes, and a post tried again and again is
\* answered in the end.
Fairness ==
  /\ WF_vars(Tick)
  /\ \A s \in Service :
       /\ WF_vars(Wake(s))
       /\ WF_vars(PostFails(s) \/ Answered(s))
       /\ SF_vars(Handle(s) /\ post[s].kind = "heartbeat")
       /\ SF_vars(Handle(s) /\ post[s].kind = "register")
       /\ SF_vars(Answered(s) /\ post[s].reply = "unknown")
       /\ \A r \in [kind : {"register", "heartbeat", "unregister"}, config : Config] :
            WF_vars(HandleLate(s, r) \/ LoseLate(s, r))

Spec == Init /\ [][Next]_vars
FairSpec == Spec /\ Fairness

-----------------------------------------------------------------------------
(* Properties.                                                             *)

\* What an agent's turns say of the services, the open turn's delta included, is
\* what the hub counts as reported to that agent, however services come and go.
\* A cancelled inject is excepted: its delta counts as reported and is lost with
\* the await (hub.py:289).  After a restart the agent may believe in services
\* that never came back, and misses none that is there.
ViewFollowsReports ==
  \A a \in Agent :
    LET told == (view[a] \cup turn[a].online) \ turn[a].offline
    IN  /\ doubt[a] = "none" => told = Known(a)
        /\ doubt[a] = "restart" => Known(a) \subseteq told

\* No turn is handed to a service whose process has been down for longer than
\* the heartbeat's time to live, however its last posts, its stop and the
\* hub's late reads interleaved.
DeadNotAsked ==
  [][\A a \in Agent : Inject(a) => \A s \in turn'[a].asked : proc[s] # "off" \/ gone[s] <= TTL]_vars

\* A service whose posts are answered in time is never dropped: the slowest
\* answered beat still lands within the time to live.
HealthyStaysLive ==
  \A s \in Service : Up(s) /\ ~missed[s] => Fresh(s)

\* A service that keeps running ends up registered, whatever the hub lost: its
\* own restart, an expiry, or the first register.
ComesBack ==
  \A s \in Service : (Up(s) /\ Accepted(Body(config[s])))
                       ~> (registry[s] # None \/ ~Up(s))
=============================================================================
