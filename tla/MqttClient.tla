----------------------------- MODULE MqttClient -----------------------------
(***************************************************************************)
(* mqttclient.cpp: one client used by three threads.                       *)
(*                                                                         *)
(*   - main connects, subscribes to its topics and starts run();           *)
(*   - run() polls connected_ and, when it is false, disconnects, connects *)
(*     and subscribes to the recorded topics again;                        *)
(*   - libmosquitto's loop thread calls on_connect, on_disconnect and      *)
(*     on_message, and reconnects by itself after a lost connection.       *)
(*                                                                         *)
(* libmosquitto and the broker are external: what they do is what the      *)
(* calls and the headers in include/mosquitto say.  The session is clean   *)
(* (mqttclient.cpp:11), so it ends with its connection.  The flags are     *)
(* plain volatile bools; a read or a write of one is atomic here.          *)
(***************************************************************************)
EXTENDS Naturals, Sequences, FiniteSets, SequencesExt

CONSTANTS Topics,
          FirstConnectWorks, \* is the broker there when main connects?
          SlowAnswers,       \* may a connection take more than the 5 s waited?
          AppStops,          \* does main call stop() and disconnect()?
          MaxCalls,          \* bound: subscribe() and unsubscribe() calls
          MaxFaults          \* bound: lost connections, refusals, outages

ASSUME ClientAssumption ==
  /\ IsFiniteSet(Topics)
  /\ {FirstConnectWorks, SlowAnswers, AppStops} \subseteq BOOLEAN
  /\ MaxCalls \in Nat /\ MaxFaults \in Nat

VARIABLES
  main, runner,  \* where main and run() are
  subscriptions, \* subscriptions_
  connected,     \* connected_
  running,       \* running_
  todo,          \* resubscribe(): the next entry
  \* libmosquitto
  loop,          \* the loop thread: "none", "running", "busy" (in on_message),
                 \* "closed" (before on_disconnect), "retry", "ended"
  link,          \* "none", "sent" (CONNECT sent), "up", "broken" (unnoticed)
  asked,         \* was mosquitto_disconnect() called since the last connect?
  \* the broker
  session,       \* the topics of the client's session
  brokerUp,
  calls, faults, \* for the bounds
  \* What happened so far; Stop is called once, nothing else reads these.
  stopped,       \* has main called stop()?
  overtaken      \* has the library reconnected while nobody waited for it?

client == <<main, runner, subscriptions, connected, running, todo>>
library == <<loop, link, asked, session>>
outside == <<brokerUp, calls, faults, stopped, overtaken>>
vars == <<client, library, outside>>

Init ==
  /\ main = "connect" /\ runner = "off"
  /\ subscriptions = <<>>
  /\ connected = FALSE /\ running = FALSE
  /\ todo = 1
  /\ loop = "none" /\ link = "none" /\ asked = FALSE
  /\ session = {}
  /\ brokerUp \in IF FirstConnectWorks THEN {TRUE} ELSE BOOLEAN
  /\ calls = 0 /\ faults = 0
  /\ stopped = FALSE /\ overtaken = FALSE
-----------------------------------------------------------------------------
(* The library's calls. *)
MosqConnect ==
  /\ asked' = FALSE
  /\ link' = IF brokerUp THEN "sent" ELSE "none"
  /\ session' = {}

MosqDisconnect ==
  /\ asked' = TRUE
  /\ link' = IF link = "none" THEN "none" ELSE "broken"
  /\ session' = {}

\* SUBSCRIBE goes out on any connection that is not known to be closed.
Delivered(topics) == IF link \in {"sent", "up"} THEN topics ELSE session
-----------------------------------------------------------------------------
(* main. *)

(* connect(): without a first connection the loop thread is not started. *)
Connect ==
  /\ main = "connect"
  /\ MosqConnect
  /\ main' = IF brokerUp THEN "start" ELSE "subscribe"
  /\ UNCHANGED <<runner, subscriptions, connected, running, todo, loop, outside>>

\* mosquitto_loop_start() fails only in a library without threads.
LoopStart ==
  /\ main = "start"
  /\ loop' = "running" /\ main' = "await"
  /\ UNCHANGED <<runner, subscriptions, connected, running, todo,
                 link, asked, session, outside>>

LoopGone == loop \in {"none", "ended"}

(* The wait for connected_ in connect() and reconnect() gives up after 5 s.  *)
(* Without slow answers that is when the broker is away, or nobody reads     *)
(* what it says: the answer to a CONNECT and the library's own retry, 1 s    *)
(* after a failure, both fall into the wait.                                 *)
WaitExpires ==
  ~connected /\ (SlowAnswers \/ LoopGone \/ ~(link = "sent" \/ (brokerUp /\ ~asked)))

ConnectReturns ==
  /\ main = "await"
  /\ connected \/ WaitExpires
  /\ main' = "subscribe"
  /\ UNCHANGED <<runner, subscriptions, connected, running, todo, library, outside>>

(* The topic is recorded, and taken out again when SUBSCRIBE cannot be sent. *)
Subscribe(t) ==
  /\ main = "subscribe"
  /\ calls < MaxCalls /\ calls' = calls + 1
  /\ IF connected /\ link = "none"
     THEN UNCHANGED <<subscriptions, session>>
     ELSE /\ subscriptions' = Append(subscriptions, t)
          /\ session' = IF connected THEN Delivered(session \cup {t}) ELSE session
  /\ UNCHANGED <<main, runner, connected, running, todo, loop, link, asked,
                 brokerUp, faults, stopped, overtaken>>

UnsubscribeRecord(t) == session
UnsubscribeSent(t) == IF connected THEN Delivered(session \ {t}) ELSE session

Unsubscribe(t) ==
  /\ main = "subscribe"
  /\ calls < MaxCalls /\ calls' = calls + 1
  /\ \/ ~Contains(subscriptions, t) /\ UNCHANGED subscriptions
     \/ \E i \in DOMAIN subscriptions :
          subscriptions[i] = t /\ subscriptions' = RemoveAt(subscriptions, i)
  /\ session' = UnsubscribeSent(t)
  /\ UNCHANGED <<main, runner, connected, running, todo, loop, link, asked,
                 brokerUp, faults, stopped, overtaken>>

StartThread ==
  /\ main = "subscribe"
  /\ main' = "done" /\ runner' = "start"
  /\ UNCHANGED <<subscriptions, connected, running, todo, library, outside>>

Stop ==
  /\ AppStops /\ main = "done" /\ ~stopped
  /\ running' = FALSE /\ stopped' = TRUE
  /\ UNCHANGED <<main, runner, subscriptions, connected, todo, library,
                 brokerUp, calls, faults, overtaken>>

(* disconnect(), whatever the loop thread is doing; then its                *)
(* mosquitto_loop_stop(force), which refuses when there is no loop thread.  *)
Disconnect ==
  /\ AppStops /\ main = "done"
  /\ MosqDisconnect
  /\ main' = "loop_stop"
  /\ UNCHANGED <<runner, subscriptions, connected, running, todo, loop, outside>>

LoopStop ==
  /\ main = "loop_stop"
  /\ loop' = IF loop = "none" THEN "none" ELSE "ended"
  /\ connected' = FALSE
  /\ main' = "done"
  /\ UNCHANGED <<runner, subscriptions, running, todo, link, asked, session, outside>>
-----------------------------------------------------------------------------
(* run(). *)
RunBegins ==
  /\ runner = "start"
  /\ running' = TRUE
  /\ runner' = "poll"
  /\ UNCHANGED <<main, subscriptions, connected, todo, library, outside>>

PollUntilConnected ==
  /\ runner = "poll"
  /\ \/ connected /\ ~running /\ runner' = "ended"
     \/ ~connected /\ runner' = "disconnect"
  /\ UNCHANGED <<main, subscriptions, connected, running, todo, library, outside>>

(* The tests of running_ and connected_; the pauses between them are only time. *)
Poll ==
  /\ runner = "poll"
  /\ \/ ~running /\ runner' = "ended"
     \/ running /\ ~connected /\ runner' = "disconnect"
  /\ UNCHANGED <<main, subscriptions, connected, running, todo, library, outside>>

ReconnectDisconnects ==
  /\ runner = "disconnect"
  /\ MosqDisconnect
  /\ runner' = "connect"
  /\ UNCHANGED <<main, subscriptions, connected, running, todo, loop, outside>>

ReconnectConnects ==
  /\ runner = "connect"
  /\ MosqConnect
  /\ runner' = IF brokerUp THEN "await" ELSE "poll"
  /\ UNCHANGED <<main, subscriptions, connected, running, todo, loop, outside>>

NoResubscribe == "poll"
AfterReconnect == IF connected THEN "resubscribe" ELSE "poll"

ReconnectReturns ==
  /\ runner = "await"
  /\ connected \/ WaitExpires
  /\ runner' = AfterReconnect
  /\ todo' = 1
  /\ UNCHANGED <<main, subscriptions, connected, running, library, outside>>

ResubscribeDoneEarly == todo >= Len(subscriptions)
ResubscribeDone == todo > Len(subscriptions)

ResubscribeRecords ==
  /\ runner = "resubscribe"
  /\ IF ResubscribeDone
     THEN runner' = "poll" /\ UNCHANGED <<todo, session, subscriptions>>
     ELSE /\ session' = Delivered(session \cup {subscriptions[todo]})
          /\ subscriptions' = Append(subscriptions, subscriptions[todo])
          /\ todo' = todo + 1
          /\ UNCHANGED runner
  /\ UNCHANGED <<main, connected, running, loop, link, asked, outside>>

(* resubscribe() only logs a SUBSCRIBE that cannot be sent. *)
Resubscribe ==
  /\ runner = "resubscribe"
  /\ IF ResubscribeDone
     THEN runner' = "poll" /\ UNCHANGED <<todo, session>>
     ELSE /\ session' = Delivered(session \cup {subscriptions[todo]})
          /\ todo' = todo + 1
          /\ UNCHANGED runner
  /\ UNCHANGED <<main, subscriptions, connected, running, loop, link, asked, outside>>
-----------------------------------------------------------------------------
(* The loop thread.  While it is in a callback it serves nothing else: the  *)
(* message callback may wait for the reader (main.cpp:203) until the broker *)
(* has given the connection up.                                             *)
RcMeansConnected(rc) == rc # 0
SetConnected(rc) == rc = 0

OnConnect ==
  /\ loop = "running" /\ link = "sent" /\ brokerUp
  /\ connected' = SetConnected(0)
  /\ link' = "up"
  /\ UNCHANGED <<main, runner, subscriptions, running, todo, loop, asked, session, outside>>

OnRefused ==
  /\ loop = "running" /\ link = "sent" /\ brokerUp
  /\ faults < MaxFaults /\ faults' = faults + 1
  /\ connected' = SetConnected(5)
  /\ link' = "broken" /\ session' = {}
  /\ UNCHANGED <<main, runner, subscriptions, running, todo, loop, asked,
                 brokerUp, calls, stopped, overtaken>>

OnMessage ==
  /\ loop = "running" /\ link = "up" /\ session # {}
  /\ loop' = "busy"
  /\ UNCHANGED <<client, link, asked, session, outside>>

OnMessageReturns ==
  /\ loop = "busy"
  /\ loop' = "running"
  /\ UNCHANGED <<client, link, asked, session, outside>>

NoticeLoss ==
  /\ loop = "running" /\ link \in {"broken", "none"}
  /\ loop' = IF link = "broken" THEN "closed" ELSE "retry"
  /\ link' = "none"
  /\ UNCHANGED <<client, asked, session, outside>>

OnDisconnect ==
  /\ loop = "closed"
  /\ connected' = FALSE
  /\ loop' = "retry"
  /\ UNCHANGED <<main, runner, subscriptions, running, todo, link, asked, session, outside>>

(* The library waits 1 s, about as long as run() takes between two polls.   *)
LibraryReconnects ==
  /\ loop = "retry" /\ ~asked /\ brokerUp
  /\ loop' = "running" /\ link' = "sent" /\ session' = {}
  /\ overtaken' = (overtaken \/ (runner # "await" /\ main # "await"))
  /\ UNCHANGED <<client, asked, brokerUp, calls, faults, stopped>>

(* The loop returns when it finds that a disconnect was asked for. *)
LoopEnds ==
  /\ loop = "retry" /\ asked
  /\ loop' = "ended"
  /\ UNCHANGED <<client, link, asked, session, outside>>
-----------------------------------------------------------------------------
(* The connection, or the broker, goes away. *)
Fault ==
  /\ faults < MaxFaults /\ faults' = faults + 1
  /\ brokerUp /\ (FirstConnectWorks => main # "connect")
  /\ brokerUp' \in BOOLEAN
  /\ link' = IF link = "none" THEN "none" ELSE "broken"
  /\ session' = {}
  /\ UNCHANGED <<client, loop, asked, calls, stopped, overtaken>>

BrokerReturns ==
  /\ ~brokerUp /\ brokerUp' = TRUE
  /\ UNCHANGED <<client, library, calls, faults, stopped, overtaken>>

(* What main does with subscribe(): no topic that is on record is asked for *)
(* again (main.cpp:254-256).                                                *)
SubscribeOnce(t) == ~Contains(subscriptions, t) /\ Subscribe(t)

MainStep == Connect \/ LoopStart \/ ConnectReturns \/ StartThread \/ LoopStop
RunStep ==
  \/ RunBegins \/ Poll \/ ReconnectDisconnects \/ ReconnectConnects
  \/ ReconnectReturns \/ Resubscribe
LoopStep ==
  \/ OnConnect \/ OnMessageReturns \/ NoticeLoss \/ OnDisconnect
  \/ LibraryReconnects \/ LoopEnds

Next ==
  \/ MainStep \/ RunStep \/ LoopStep
  \/ \E t \in Topics : SubscribeOnce(t) \/ Unsubscribe(t)
  \/ Stop \/ Disconnect
  \/ OnRefused \/ OnMessage
  \/ Fault \/ BrokerReturns

Spec == Init /\ [][Next]_vars

(* The three threads keep running, a message callback returns, a broker     *)
(* that is away comes back.  With the bound on faults: in the end the       *)
(* broker can be reached for good.  The last conjunct: on_connect does not   *)
(* for ever fall between run()'s test of connected_ and its                 *)
(* mosquitto_disconnect(), which are a few instructions apart.              *)
FairSpec ==
  /\ Spec
  /\ WF_vars(MainStep) /\ WF_vars(RunStep) /\ WF_vars(LoopStep)
  /\ WF_vars(BrokerReturns)
  /\ SF_vars(~connected /\ ReconnectDisconnects)
-----------------------------------------------------------------------------
Recorded == ToSet(subscriptions)

(* Types; no topic is recorded twice; resubscribe() stays within the list. *)
TypeOK ==
  /\ main \in {"connect", "start", "await", "subscribe", "done", "loop_stop"}
  /\ runner \in {"off", "start", "poll", "disconnect", "connect", "await",
                 "resubscribe", "ended"}
  /\ subscriptions \in Seq(Topics) /\ IsInjective(subscriptions)
  /\ connected \in BOOLEAN /\ running \in BOOLEAN /\ asked \in BOOLEAN
  /\ todo \in 1 .. Len(subscriptions) + 1
  /\ loop \in {"none", "running", "busy", "closed", "retry", "ended"}
  /\ link \in {"none", "sent", "up", "broken"}
  /\ session \subseteq Topics
  /\ brokerUp \in BOOLEAN /\ stopped \in BOOLEAN /\ overtaken \in BOOLEAN
  /\ calls \in 0 .. MaxCalls /\ faults \in 0 .. MaxFaults

(* The broker sends no topic that the client has not on record, whatever    *)
(* connections, disconnections and the two ways to subscribe were mixed.    *)
SessionIsRecorded == session \subseteq Recorded

(* run() rests only on a connection that carries every recorded topic,      *)
(* as long as it polls before the library reconnects, and answers are in    *)
(* time; without either it is false.                                        *)
RestsSubscribed ==
  ~overtaken /\ runner = "poll" /\ connected /\ link = "up" =>
     Recorded \subseteq session

(* Once the broker can be reached for good, the client gets and keeps a     *)
(* connection, unless its loop thread is gone.                              *)
ConnectsAgain == <>[](connected /\ link = "up") \/ <>[]LoopGone

(* Under the assumptions of RestsSubscribed it is subscribed for good, too, *)
(* unless stop() ended run().                                               *)
SubscribesAgain ==
  <>[](Recorded \subseteq session) \/ <>[]LoopGone \/ <>(overtaken \/ stopped)

(* Once run() has begun, stop() ends it, also out of a reconnect.           *)
StopEndsRun ==
  stopped /\ ~running /\ runner \notin {"off", "start"} ~> runner = "ended"

(* mqttclient.h:34, run() "reconnects automatically when disconnected", and *)
(* main.cpp:253, "will retry in run loop": the loop's end is no excuse.     *)
EventuallyConnected == <>[]connected

(* mqttclient.cpp:85: the subscriptions are kept "so that they can be made  *)
(* again after a reconnect".                                                *)
EventuallySubscribed == <>[](connected => Recorded \subseteq session)
=============================================================================
