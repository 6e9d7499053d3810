---------------------------- MODULE NetworkProbe ----------------------------
(***************************************************************************)
(* The network service (workspace/services/network/main.py): what its      *)
(* probe announces about outages and new outbound connections, and the     *)
(* text it contributes, from samples that can fail half way.               *)
(*                                                                         *)
(* Time is counted in samples.  Whether a check's own interval is over is  *)
(* a choice of each sample.                                                *)
(***************************************************************************)
EXTENDS Naturals, Sequences, FiniteSets

CONSTANTS
  Remote,        \* outbound connections: process, address, port
  OfflineAfter,  \* offline_after
  OutboundMax,   \* outbound_max
  OutboundTTL,   \* outbound_ttl, in samples
  MaxSamples     \* bound: samples

ASSUME NetAssumption ==
  /\ Remote \cap {"offline", "online"} = {}
  /\ OfflineAfter \in Nat /\ OutboundMax \in Nat /\ OutboundTTL \in Nat /\ MaxSamples \in Nat

VARIABLES
  sampled,       \* samples begun
  sampling,      \* a sample is at its connections
  fails,         \* _fail_count, no higher than OfflineAfter
  down,          \* _offline_since is set
  outbound,      \* _seen_outbound: when each remembered connection was first seen
  news,          \* history: all that was announced, and in which sample
  facts          \* the last complete sample: its verdict, and the news up to it

netVars == <<sampled, sampling, fails, down, outbound, news, facts>>

NetInit ==
  /\ sampled = 0 /\ sampling = FALSE /\ fails = 0 /\ down = FALSE
  /\ outbound = [r \in Remote |-> 0]
  /\ news = <<>>
  /\ facts = [online |-> TRUE, news |-> <<>>]

-----------------------------------------------------------------------------
Told(what) == [at |-> sampled', what |-> what]

\* _check_online
Unanswered ==
  /\ fails' = IF fails = OfflineAfter THEN fails ELSE fails + 1
  /\ down' = (down \/ fails' >= OfflineAfter)

Answered == fails' = 0 /\ down' = FALSE

OnlineChecked ==
  \/ UNCHANGED <<fails, down>>
  \/ Unanswered
  \/ Answered

\* A fault: every failed probe past the threshold is announced.
OutageNewsEachTime ==
  IF down' /\ fails' >= OfflineAfter THEN <<Told("offline")>>
  ELSE IF down /\ ~down' THEN <<Told("online")>> ELSE <<>>

OutageNews ==
  IF down' /\ ~down THEN <<Told("offline")>>
  ELSE IF down /\ ~down' THEN <<Told("online")>> ELSE <<>>

SampleBegins ==
  /\ ~sampling /\ sampled < MaxSamples
  /\ sampling' = TRUE /\ sampled' = sampled + 1
  /\ OnlineChecked
  /\ news' = news \o OutageNews
  /\ UNCHANGED <<outbound, facts>>

\* A fault: past the limit all are forgotten.
ForgetsAll(seen) ==
  IF Cardinality({r \in Remote : seen[r] # 0}) > OutboundMax
    THEN [r \in Remote |-> 0] ELSE seen

\* Past the limit those remembered for longer than the TTL go, the others stay
\* for all that.
Trimmed(seen) ==
  IF Cardinality({r \in Remote : seen[r] # 0}) > OutboundMax
    THEN [r \in Remote |-> IF seen[r] + OutboundTTL > sampled THEN seen[r] ELSE 0]
    ELSE seen

\* _check_connections, at one established connection that is not remembered; of
\* one that is, nothing changes.
Connection(r) ==
  /\ sampling /\ outbound[r] = 0
  /\ outbound' = Trimmed([outbound EXCEPT ![r] = sampled])
  /\ news' = Append(news, [at |-> sampled, what |-> r])
  /\ UNCHANGED <<sampled, sampling, fails, down, facts>>

\* The rest of the sample; if something fails the facts stay what they were.
SampleEnds(complete) ==
  /\ sampling /\ sampling' = FALSE
  /\ facts' = IF complete THEN [online |-> ~down, news |-> news] ELSE facts
  /\ UNCHANGED <<sampled, fails, down, outbound, news>>

NetNext ==
  \/ SampleBegins
  \/ \E r \in Remote : Connection(r)
  \/ \E complete \in BOOLEAN : SampleEnds(complete)

NetSpec == NetInit /\ [][NetNext]_netVars

-----------------------------------------------------------------------------
(* Properties.                                                             *)

\* The first n news leave an outage open.
OfflineBy(log, n) ==
  \E i \in 1..n : log[i].what = "offline" /\ \A j \in (i + 1)..n : log[j].what # "online"

OfflineIn(log) == OfflineBy(log, Len(log))

\* What is announced is new: outages begin and end in turn, whichever samples
\* failed, and the verdict a prompt gets agrees with the news beside it; no
\* connection is called new twice within the time it is remembered for.
NewsIsNew ==
  /\ \A i \in DOMAIN news :
       /\ news[i].what = "offline" => ~OfflineBy(news, i - 1)
       /\ news[i].what = "online" => OfflineBy(news, i - 1)
  /\ down <=> OfflineIn(news)
  /\ facts.online <=> ~OfflineIn(facts.news)
  /\ \A i, j \in DOMAIN news :
       i < j /\ news[i].what = news[j].what /\ news[i].what \in Remote =>
         news[j].at - news[i].at >= OutboundTTL
=============================================================================
