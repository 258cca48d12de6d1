-------------------------- MODULE MqttClientProofs --------------------------
(***************************************************************************)
(* The session of the broker, the client's record of it and what run()     *)
(* rests on, for any set of topics, any number of calls and faults, and    *)
(* every interleaving of main, run() and the loop thread.                  *)
(***************************************************************************)
EXTENDS MqttClient, SequenceTheorems, TLAPS

USE ClientAssumption

(* What RemoveAt leaves. *)
LEMMA RemoveAtShape ==
  ASSUME NEW s \in Seq(Topics), NEW i \in 1 .. Len(s)
  PROVE  /\ RemoveAt(s, i) \in Seq(Topics)
         /\ Len(RemoveAt(s, i)) = Len(s) - 1
         /\ \A j \in 1 .. Len(s) - 1 :
              RemoveAt(s, i)[j] = IF j < i THEN s[j] ELSE s[j + 1]
<1> DEFINE front == SubSeq(s, 1, i - 1)
           back == SubSeq(s, i + 1, Len(s))
<1>0. Len(s) \in Nat /\ i \in Nat /\ 1 <= i /\ i <= Len(s)
  BY LenProperties
<1>1. /\ front \in Seq(Topics) /\ Len(front) = i - 1
      /\ \A j \in 1 .. i - 1 : front[j] = s[j]
  BY <1>0, SubSeqProperties
<1>2. /\ back \in Seq(Topics) /\ Len(back) = Len(s) - i
      /\ \A j \in 1 .. Len(s) - i : back[j] = s[i + j]
  BY <1>0, SubSeqProperties
<1>3. /\ front \o back \in Seq(Topics)
      /\ Len(front \o back) = Len(front) + Len(back)
      /\ \A j \in 1 .. Len(front) + Len(back) :
           (front \o back)[j] = IF j <= Len(front) THEN front[j] ELSE back[j - Len(front)]
  BY <1>1, <1>2, ConcatProperties
<1>4. RemoveAt(s, i) = front \o back
  BY DEF RemoveAt
<1> HIDE DEF front, back
<1>5. ASSUME NEW j \in 1 .. Len(s) - 1
      PROVE  (front \o back)[j] = IF j < i THEN s[j] ELSE s[j + 1]
  <2>1. CASE j < i
    BY <1>0, <1>1, <1>2, <1>3, <2>1
  <2>2. CASE ~(j < i)
    <3>1. (front \o back)[j] = back[j - (i - 1)]
      BY <1>0, <1>1, <1>2, <1>3, <2>2
    <3>2. j - (i - 1) \in 1 .. Len(s) - i /\ i + (j - (i - 1)) = j + 1
      BY <1>0, <2>2
    <3>3. back[j - (i - 1)] = s[i + (j - (i - 1))]
      BY <1>2, <3>2
    <3> QED  BY <2>2, <3>1, <3>2, <3>3
  <2> QED  BY <2>1, <2>2
<1>6. Len(front \o back) = Len(s) - 1
  BY <1>0, <1>1, <1>2, <1>3
<1> QED  BY <1>3, <1>4, <1>5, <1>6

(* Without repetitions, RemoveAt takes out its element and no other. *)
LEMMA RemoveAtSet ==
  ASSUME NEW s \in Seq(Topics), IsInjective(s), NEW i \in 1 .. Len(s)
  PROVE  IsInjective(RemoveAt(s, i)) /\ ToSet(RemoveAt(s, i)) = ToSet(s) \ {s[i]}
<1> DEFINE r == RemoveAt(s, i)
<1>1. /\ r \in Seq(Topics) /\ Len(r) = Len(s) - 1
      /\ \A j \in 1 .. Len(s) - 1 : r[j] = IF j < i THEN s[j] ELSE s[j + 1]
  BY RemoveAtShape
<1>2. Len(s) \in Nat /\ DOMAIN s = 1 .. Len(s) /\ DOMAIN r = 1 .. Len(s) - 1
  BY <1>1, LenProperties
<1> HIDE DEF r
<1>3. \A a, b \in 1 .. Len(s) : s[a] = s[b] => a = b
  BY <1>2 DEF IsInjective
<1>4. ASSUME NEW a \in 1 .. Len(s) - 1, NEW b \in 1 .. Len(s) - 1, r[a] = r[b]
      PROVE  a = b
  BY <1>1, <1>2, <1>3, <1>4
<1>5. ASSUME NEW a \in 1 .. Len(s) - 1
      PROVE  \E b \in 1 .. Len(s) : r[a] = s[b] /\ s[b] # s[i]
  <2>1. CASE a < i
    BY <1>1, <1>2, <1>3, <2>1
  <2>2. CASE ~(a < i)
    <3>1. a + 1 \in 1 .. Len(s) /\ r[a] = s[a + 1] /\ a + 1 # i
      BY <1>1, <1>2, <2>2
    <3> QED  BY <1>3, <3>1
  <2> QED  BY <2>1, <2>2
<1>6. ASSUME NEW b \in 1 .. Len(s), s[b] # s[i]
      PROVE  \E a \in 1 .. Len(s) - 1 : r[a] = s[b]
  <2>1. CASE b < i
    BY <1>1, <1>2, <2>1
  <2>2. CASE b > i
    <3>1. b - 1 \in 1 .. Len(s) - 1 /\ ~(b - 1 < i) /\ (b - 1) + 1 = b
      BY <1>2, <2>2
    <3>2. r[b - 1] = s[b]
      BY <1>1, <3>1
    <3> QED  BY <3>1, <3>2
  <2> QED  BY <1>2, <1>6, <2>1, <2>2
<1>7. IsInjective(r)
  BY <1>2, <1>4 DEF IsInjective
<1>8. ToSet(r) = ToSet(s) \ {s[i]}
  <2>1. \A x \in ToSet(r) : x \in ToSet(s) /\ x # s[i]
    BY <1>2, <1>5 DEF ToSet
  <2>2. \A x \in ToSet(s) : x # s[i] => x \in ToSet(r)
    BY <1>2, <1>6 DEF ToSet
  <2> QED  BY <2>1, <2>2
<1> QED  BY <1>7, <1>8 DEF r
-----------------------------------------------------------------------------
(***************************************************************************)
(* Types.  resubscribe() walks through a list that main no longer changes: *)
(* main unsubscribes only before run() is started, with todo still at 1.   *)
(***************************************************************************)
MainFirst ==
  /\ main \in {"connect", "start", "await", "subscribe"} => runner = "off"
  /\ runner = "off" => todo = 1 /\ main \notin {"done", "loop_stop"}

TypeInv == TypeOK /\ MainFirst

LEMMA ClientNumbers == MaxCalls \in Nat /\ MaxFaults \in Nat
  OBVIOUS

LEMMA ListLen == ASSUME TypeOK PROVE Len(subscriptions) \in Nat /\ DOMAIN subscriptions = 1 .. Len(subscriptions)
  BY LenProperties DEF TypeOK

LEMMA Appended ==
  ASSUME NEW s \in Seq(Topics), IsInjective(s), NEW t \in Topics, ~Contains(s, t)
  PROVE  /\ Append(s, t) \in Seq(Topics) /\ IsInjective(Append(s, t))
         /\ Len(Append(s, t)) = Len(s) + 1
         /\ ToSet(Append(s, t)) = ToSet(s) \cup {t}
<1> DEFINE r == Append(s, t)
<1>1. /\ r \in Seq(Topics) /\ Len(r) = Len(s) + 1
      /\ \A i \in 1 .. Len(s) : r[i] = s[i]
      /\ r[Len(s) + 1] = t
  BY AppendProperties
<1>2. Len(s) \in Nat /\ DOMAIN s = 1 .. Len(s) /\ DOMAIN r = 1 .. Len(s) + 1
  BY <1>1, LenProperties
<1> HIDE DEF r
<1>3. \A i \in 1 .. Len(s) : s[i] # t
  BY DEF Contains
<1>4. \A a, b \in 1 .. Len(s) : s[a] = s[b] => a = b
  BY <1>2 DEF IsInjective
<1>5. ASSUME NEW a \in 1 .. Len(s) + 1, NEW b \in 1 .. Len(s) + 1, r[a] = r[b]
      PROVE  a = b
  <2>1. (a \in 1 .. Len(s) \/ a = Len(s) + 1) /\ (b \in 1 .. Len(s) \/ b = Len(s) + 1)
    BY <1>2
  <2> QED  BY <1>1, <1>3, <1>4, <1>5, <2>1
<1>6. IsInjective(r)
  BY <1>2, <1>5 DEF IsInjective
<1>7. ToSet(r) = ToSet(s) \cup {t}
  <2>1. 1 .. Len(s) + 1 = (1 .. Len(s)) \cup {Len(s) + 1}
    BY <1>2
  <2>2. \A x \in ToSet(r) : x \in ToSet(s) \cup {t}
    BY <1>1, <1>2, <2>1 DEF ToSet
  <2>3. \A x \in ToSet(s) \cup {t} : x \in ToSet(r)
    BY <1>1, <1>2, <2>1 DEF ToSet
  <2> QED  BY <2>2, <2>3
<1> QED  BY <1>1, <1>6, <1>7 DEF r

LEMMA InitType == Init => TypeInv
<1> SUFFICES ASSUME Init PROVE TypeInv
  OBVIOUS
<1>1. subscriptions \in Seq(Topics) /\ Len(subscriptions) = 0
  BY EmptySeq DEF Init
<1>2. IsInjective(subscriptions)
  BY <1>1 DEF Init, IsInjective
<1>3. brokerUp \in BOOLEAN
  BY DEF Init
<1>4. /\ main = "connect" /\ runner = "off" /\ todo = 1
      /\ connected = FALSE /\ running = FALSE /\ asked = FALSE
      /\ stopped = FALSE /\ overtaken = FALSE
      /\ loop = "none" /\ link = "none" /\ session = {} /\ calls = 0 /\ faults = 0
  BY DEF Init
<1>5. todo \in 1 .. Len(subscriptions) + 1 /\ calls \in 0 .. MaxCalls /\ faults \in 0 .. MaxFaults
  BY <1>1, <1>4, ClientNumbers
<1>6. TypeOK
  BY <1>1, <1>2, <1>3, <1>4, <1>5 DEF TypeOK
<1> QED  BY <1>4, <1>6 DEF TypeInv, MainFirst

LEMMA MosqTyped ==
  ASSUME TypeOK, MosqConnect \/ MosqDisconnect
  PROVE  asked' \in BOOLEAN /\ link' \in {"none", "sent", "broken"} /\ session' = {}
  BY DEF MosqConnect, MosqDisconnect

LEMMA DeliveredTyped ==
  ASSUME TypeOK, NEW S \in SUBSET Topics PROVE Delivered(S) \subseteq Topics
  BY DEF TypeOK, Delivered

LEMMA NextType == TypeInv /\ [Next]_vars => TypeInv'
<1> SUFFICES ASSUME TypeInv, [Next]_vars PROVE TypeInv'
  OBVIOUS
<1>0. TypeOK /\ MainFirst
  BY DEF TypeInv
<1> USE DEF library, outside
<1>1. CASE Connect
  BY <1>0, <1>1, MosqTyped DEF Connect, TypeInv, TypeOK, MainFirst
<1>2. CASE LoopStart
  BY <1>0, <1>2 DEF LoopStart, TypeInv, TypeOK, MainFirst
<1>3. CASE ConnectReturns
  BY <1>0, <1>3 DEF ConnectReturns, TypeInv, TypeOK, MainFirst
<1>4. CASE StartThread
  BY <1>0, <1>4 DEF StartThread, TypeInv, TypeOK, MainFirst
<1>5. CASE LoopStop
  <2>1. loop' \in {"none", "running", "busy", "closed", "retry", "ended"}
    BY <1>5 DEF LoopStop
  <2>2. connected' \in BOOLEAN /\ main' = "done" /\ main = "loop_stop"
    BY <1>5 DEF LoopStop
  <2>3. /\ UNCHANGED <<runner, subscriptions, running, todo>>
        /\ UNCHANGED <<link, asked, session, brokerUp, calls, faults, stopped, overtaken>>
    BY <1>5 DEF LoopStop
  <2> QED  BY <1>0, <2>1, <2>2, <2>3 DEF TypeInv, TypeOK, MainFirst
<1>6. CASE RunBegins
  BY <1>0, <1>6 DEF RunBegins, TypeInv, TypeOK, MainFirst
<1>7. CASE Poll
  BY <1>0, <1>7 DEF Poll, TypeInv, TypeOK, MainFirst
<1>8. CASE ReconnectDisconnects
  BY <1>0, <1>8, MosqTyped DEF ReconnectDisconnects, TypeInv, TypeOK, MainFirst
<1>9. CASE ReconnectConnects
  BY <1>0, <1>9, MosqTyped DEF ReconnectConnects, TypeInv, TypeOK, MainFirst
<1>10. CASE ReconnectReturns
  <2>1. todo' \in 1 .. Len(subscriptions) + 1
    BY <1>0, <1>10, ListLen DEF ReconnectReturns
  <2> QED  BY <1>0, <1>10, <2>1 DEF ReconnectReturns, AfterReconnect, TypeInv, TypeOK, MainFirst
<1>11. CASE Resubscribe
  <2>1. CASE ResubscribeDone
    BY <1>0, <1>11, <2>1 DEF Resubscribe, TypeInv, TypeOK, MainFirst
  <2>2. CASE ~ResubscribeDone
    <3>1. todo \in 1 .. Len(subscriptions) /\ todo' \in 1 .. Len(subscriptions) + 1
      BY <1>0, <1>11, <2>2, ListLen DEF Resubscribe, ResubscribeDone, TypeOK
    <3>2. session \cup {subscriptions[todo]} \in SUBSET Topics
      BY <1>0, <3>1, ElementOfSeq DEF TypeOK
    <3>3. session' \subseteq Topics
      BY <1>0, <1>11, <2>2, <3>2, DeliveredTyped DEF Resubscribe
    <3>4. UNCHANGED <<main, runner, subscriptions, connected, running, loop, link, asked,
                      brokerUp, calls, faults, stopped, overtaken>>
      BY <1>11, <2>2 DEF Resubscribe
    <3>5. TypeOK'
      BY <1>0, <3>1, <3>3, <3>4, <1>11, <2>2 DEF TypeOK
    <3>6. MainFirst'
      BY <1>0, <1>11, <3>4 DEF Resubscribe, MainFirst
    <3> QED  BY <3>5, <3>6 DEF TypeInv
  <2> QED  BY <2>1, <2>2
<1>12. CASE OnConnect
  BY <1>0, <1>12 DEF OnConnect, SetConnected, TypeInv, TypeOK, MainFirst
<1>13. CASE OnMessageReturns
  BY <1>0, <1>13 DEF OnMessageReturns, client, TypeInv, TypeOK, MainFirst
<1>14. CASE NoticeLoss
  BY <1>0, <1>14 DEF NoticeLoss, client, TypeInv, TypeOK, MainFirst
<1>15. CASE OnDisconnect
  <2>1. TypeOK'
    <3>1. /\ connected' = FALSE /\ loop' = "retry"
          /\ UNCHANGED <<main, runner, subscriptions, running, todo, link, asked, session,
                         brokerUp, calls, faults, stopped, overtaken>>
      BY <1>15 DEF OnDisconnect
    <3>2. /\ connected' \in BOOLEAN /\ running' \in BOOLEAN /\ asked' \in BOOLEAN
          /\ brokerUp' \in BOOLEAN /\ stopped' \in BOOLEAN /\ overtaken' \in BOOLEAN
      BY <1>0, <3>1 DEF TypeOK
    <3>3. /\ subscriptions' \in Seq(Topics) /\ IsInjective(subscriptions')
          /\ todo' \in 1 .. Len(subscriptions') + 1 /\ session' \subseteq Topics
      BY <1>0, <3>1 DEF TypeOK
    <3> QED  BY <1>0, <3>1, <3>2, <3>3 DEF TypeOK
  <2>2. MainFirst'
    BY <1>0, <1>15 DEF OnDisconnect, MainFirst
  <2> QED  BY <2>1, <2>2 DEF TypeInv
<1>16. CASE LibraryReconnects
  <2>1. overtaken' \in BOOLEAN
    BY <1>16 DEF LibraryReconnects
  <2>2. /\ loop' = "running" /\ link' = "sent" /\ session' = {} /\ loop # "none"
        /\ UNCHANGED <<main, runner, subscriptions, connected, running, todo, asked,
                       brokerUp, calls, faults, stopped>>
    BY <1>16 DEF LibraryReconnects, client
  <2> QED  BY <1>0, <2>1, <2>2 DEF TypeInv, TypeOK, MainFirst
<1>17. CASE LoopEnds
  BY <1>0, <1>17 DEF LoopEnds, client, TypeInv, TypeOK, MainFirst
<1>18. ASSUME NEW t \in Topics, SubscribeOnce(t) PROVE TypeInv'
  <2>1. calls' \in 0 .. MaxCalls
    BY <1>0, <1>18, ClientNumbers DEF SubscribeOnce, Subscribe, TypeOK
  <2>2. CASE UNCHANGED <<subscriptions, session>>
    BY <1>0, <1>18, <2>1, <2>2 DEF SubscribeOnce, Subscribe, TypeInv, TypeOK, MainFirst
  <2>3. CASE /\ subscriptions' = Append(subscriptions, t)
             /\ session' = IF connected THEN Delivered(session \cup {t}) ELSE session
    <3>1. /\ subscriptions' \in Seq(Topics) /\ IsInjective(subscriptions')
          /\ Len(subscriptions') = Len(subscriptions) + 1
      BY <1>0, <1>18, <2>3, Appended DEF SubscribeOnce, Subscribe, TypeOK
    <3>2. todo' \in 1 .. Len(subscriptions') + 1
      BY <1>0, <1>18, <3>1, ListLen DEF SubscribeOnce, Subscribe, TypeOK
    <3>3. session' \subseteq Topics
      BY <1>0, <2>3, DeliveredTyped DEF TypeOK
    <3> QED  BY <1>0, <1>18, <2>1, <3>1, <3>2, <3>3 DEF SubscribeOnce, Subscribe, TypeInv, TypeOK, MainFirst
  <2> QED  BY <1>18, <2>2, <2>3 DEF SubscribeOnce, Subscribe
<1>19. ASSUME NEW t \in Topics, Unsubscribe(t) PROVE TypeInv'
  <2>1. calls' \in 0 .. MaxCalls
    BY <1>0, <1>19, ClientNumbers DEF Unsubscribe, TypeOK
  <2>2. session' \subseteq Topics
    <3>1. session \in SUBSET Topics /\ session \ {t} \in SUBSET Topics
      BY <1>0 DEF TypeOK
    <3> QED  BY <1>0, <1>19, <3>1, DeliveredTyped DEF Unsubscribe, UnsubscribeSent
  <2>3. /\ subscriptions' \in Seq(Topics) /\ IsInjective(subscriptions')
        /\ Len(subscriptions') \in Nat
    <3>1. CASE UNCHANGED subscriptions
      BY <1>0, <3>1, ListLen DEF TypeOK
    <3>2. ASSUME NEW i \in DOMAIN subscriptions, subscriptions' = RemoveAt(subscriptions, i)
          PROVE  subscriptions' \in Seq(Topics) /\ IsInjective(subscriptions')
      <4>1. i \in 1 .. Len(subscriptions)
        BY <1>0, <3>2, ListLen
      <4> QED  BY <1>0, <3>2, <4>1, RemoveAtShape, RemoveAtSet DEF TypeOK
    <3>3. subscriptions' \in Seq(Topics) /\ IsInjective(subscriptions')
      BY <1>0, <1>19, <3>1, <3>2 DEF Unsubscribe, TypeOK
    <3> QED  BY <3>3, LenProperties
  <2>4. todo' \in 1 .. Len(subscriptions') + 1 /\ runner = "off" /\ todo' = 1
    BY <1>0, <1>19, <2>3 DEF Unsubscribe, MainFirst
  <2> QED  BY <1>0, <1>19, <2>1, <2>2, <2>3, <2>4 DEF Unsubscribe, TypeInv, TypeOK, MainFirst
<1>20. CASE Stop
  <2>1. TypeOK'
    BY <1>0, <1>20 DEF Stop, TypeOK
  <2>2. MainFirst'
    BY <1>0, <1>20 DEF Stop, MainFirst
  <2> QED  BY <2>1, <2>2 DEF TypeInv
<1>21. CASE Disconnect
  BY <1>0, <1>21, MosqTyped DEF Disconnect, TypeInv, TypeOK, MainFirst
<1>22. CASE OnRefused
  BY <1>0, <1>22, ClientNumbers DEF OnRefused, SetConnected, TypeInv, TypeOK, MainFirst
<1>23. CASE OnMessage
  BY <1>0, <1>23 DEF OnMessage, client, TypeInv, TypeOK, MainFirst
<1>24. CASE Fault
  BY <1>0, <1>24, ClientNumbers DEF Fault, client, TypeInv, TypeOK, MainFirst
<1>25. CASE BrokerReturns
  BY <1>0, <1>25 DEF BrokerReturns, client, TypeInv, TypeOK, MainFirst
<1>26. CASE UNCHANGED vars
  BY <1>0, <1>26 DEF vars, client, TypeInv, TypeOK, MainFirst
<1> QED  BY <1>1, <1>2, <1>3, <1>4, <1>5, <1>6, <1>7, <1>8, <1>9, <1>10, <1>11,
            <1>12, <1>13, <1>14, <1>15, <1>16, <1>17, <1>18, <1>19, <1>20, <1>21,
            <1>22, <1>23, <1>24, <1>25, <1>26
         DEF Next, MainStep, RunStep, LoopStep

(* Types, no topic recorded twice, resubscribe() within its list. *)
THEOREM ClientTypeCorrect == Spec => []TypeOK
<1>1. TypeInv => TypeOK
  BY DEF TypeInv
<1> QED  BY <1>1, InitType, NextType, PTL DEF Spec
-----------------------------------------------------------------------------
(***************************************************************************)
(* The session.  The dangerous call is an unsubscribe() while connected_   *)
(* is FALSE, which tells the broker nothing: before run() is started, a    *)
(* client that is not connected_ has no session, because on_disconnect     *)
(* comes after the loss, and the library's CONNECT after on_disconnect.    *)
(***************************************************************************)
NoLinkNoSession == link \in {"none", "broken"} => session = {}

BeforeRun ==
  runner = "off" =>
    /\ session # {} => connected
    /\ loop \in {"closed", "retry"} => link = "none"
    /\ main \in {"connect", "start"} => loop = "none"

SessionInv == TypeInv /\ SessionIsRecorded /\ NoLinkNoSession /\ BeforeRun

LEMMA InitSession == Init => SessionInv
<1> SUFFICES ASSUME Init PROVE SessionInv
  OBVIOUS
<1> QED  BY InitType DEF Init, SessionInv, SessionIsRecorded, NoLinkNoSession, BeforeRun

(* A step that empties the session, and whatever else it does, keeps the   *)
(* first two parts; one that changes neither list nor session, too.        *)
LEMMA EmptySession ==
  ASSUME session' = {} PROVE SessionIsRecorded' /\ NoLinkNoSession'
  BY DEF SessionIsRecorded, NoLinkNoSession

LEMMA SameSession ==
  ASSUME SessionInv, UNCHANGED <<session, subscriptions>>,
         link' \in {"none", "broken"} => link' = link \/ link = "broken"
  PROVE  SessionIsRecorded' /\ NoLinkNoSession'
  BY DEF SessionInv, SessionIsRecorded, Recorded, NoLinkNoSession

LEMMA Emptied ==
  ASSUME MosqConnect \/ MosqDisconnect PROVE session' = {}
  BY DEF MosqConnect, MosqDisconnect

LEMMA NextSession == SessionInv /\ [Next]_vars => SessionInv'
<1> SUFFICES ASSUME SessionInv, [Next]_vars PROVE SessionInv'
  OBVIOUS
<1>0. TypeInv /\ TypeInv' /\ TypeOK /\ MainFirst
  BY NextType DEF SessionInv, TypeInv
<1>s. SUFFICES SessionIsRecorded' /\ NoLinkNoSession' /\ BeforeRun'
  BY <1>0 DEF SessionInv
<1> USE DEF library, outside, client
<1>b. BeforeRun
  BY DEF SessionInv
<1>1. CASE Connect
  <2>1. session' = {} /\ loop' = loop /\ main = "connect" /\ main' \in {"start", "subscribe"}
        /\ runner' = runner
    BY <1>1, Emptied DEF Connect
  <2> QED  BY <1>0, <1>b, <2>1, EmptySession DEF BeforeRun, MainFirst
<1>2. CASE LoopStart
  BY <1>b, <1>2, SameSession DEF LoopStart, BeforeRun
<1>3. CASE ConnectReturns
  BY <1>b, <1>3, SameSession DEF ConnectReturns, BeforeRun
<1>4. CASE StartThread
  BY <1>4, SameSession DEF StartThread, BeforeRun
<1>5. CASE LoopStop
  BY <1>0, <1>5, SameSession DEF LoopStop, BeforeRun, MainFirst
<1>6. CASE RunBegins
  BY <1>6, SameSession DEF RunBegins, BeforeRun
<1>7. CASE Poll
  BY <1>7, SameSession DEF Poll, BeforeRun
<1>8. CASE ReconnectDisconnects
  BY <1>8, Emptied, EmptySession DEF ReconnectDisconnects, BeforeRun
<1>9. CASE ReconnectConnects
  BY <1>9, Emptied, EmptySession DEF ReconnectConnects, BeforeRun
<1>10. CASE ReconnectReturns
  BY <1>10, SameSession DEF ReconnectReturns, AfterReconnect, BeforeRun
<1>11. CASE Resubscribe
  <2>1. UNCHANGED <<subscriptions, link>> /\ runner' # "off"
    BY <1>11 DEF Resubscribe
  <2>2. CASE ResubscribeDone
    BY <1>11, <2>1, <2>2, SameSession DEF Resubscribe, BeforeRun
  <2>3. CASE ~ResubscribeDone
    <3>1. todo \in DOMAIN subscriptions
      BY <1>0, <2>3, ListLen DEF ResubscribeDone, TypeOK
    <3>2. subscriptions[todo] \in Recorded
      BY <3>1 DEF Recorded, ToSet
    <3>3. session' = Delivered(session \cup {subscriptions[todo]})
      BY <1>11, <2>3 DEF Resubscribe
    <3>4. session \subseteq Recorded /\ Recorded' = Recorded
      BY <2>1 DEF SessionInv, SessionIsRecorded, Recorded
    <3>5. session' \subseteq Recorded
      BY <3>2, <3>3, <3>4 DEF Delivered
    <3>6. link' \in {"none", "broken"} => session' = {}
      BY <2>1, <3>3 DEF Delivered, SessionInv, NoLinkNoSession
    <3> QED  BY <2>1, <3>4, <3>5, <3>6 DEF SessionIsRecorded, NoLinkNoSession, BeforeRun
  <2> QED  BY <2>2, <2>3
<1>12. CASE OnConnect
  <2>1. connected' = TRUE /\ link' = "up" /\ loop' = "running" /\ main' = main
        /\ runner' = runner /\ UNCHANGED <<session, subscriptions>> /\ loop = "running"
    BY <1>12 DEF OnConnect, SetConnected
  <2> QED  BY <1>b, <2>1, SameSession DEF BeforeRun
<1>13. CASE OnMessageReturns
  BY <1>b, <1>13, SameSession DEF OnMessageReturns, BeforeRun
<1>14. CASE NoticeLoss
  <2>1. session = {}
    BY <1>14 DEF NoticeLoss, SessionInv, NoLinkNoSession
  <2> QED  BY <1>b, <1>14, <2>1, EmptySession DEF NoticeLoss, BeforeRun
<1>15. CASE OnDisconnect
  <2>1. runner = "off" => session = {}
    BY <1>b, <1>15 DEF OnDisconnect, BeforeRun, SessionInv, NoLinkNoSession
  <2> QED  BY <1>b, <1>15, <2>1, SameSession DEF OnDisconnect, BeforeRun
<1>16. CASE LibraryReconnects
  BY <1>b, <1>16, EmptySession DEF LibraryReconnects, BeforeRun
<1>17. CASE LoopEnds
  BY <1>b, <1>17, SameSession DEF LoopEnds, BeforeRun
<1>18. ASSUME NEW t \in Topics, SubscribeOnce(t)
       PROVE  SessionIsRecorded' /\ NoLinkNoSession' /\ BeforeRun'
  <2>1. UNCHANGED <<main, runner, connected, loop, link>>
    BY <1>18 DEF SubscribeOnce, Subscribe
  <2>2. CASE UNCHANGED <<subscriptions, session>>
    BY <1>b, <2>1, <2>2, SameSession DEF BeforeRun
  <2>3. CASE /\ subscriptions' = Append(subscriptions, t)
             /\ session' = IF connected THEN Delivered(session \cup {t}) ELSE session
    <3>1. Recorded' = Recorded \cup {t}
      BY <1>0, <1>18, <2>3, Appended DEF SubscribeOnce, Subscribe, TypeOK, Recorded
    <3>2. session' \subseteq session \cup {t} /\ (session' # session => connected)
      BY <2>3 DEF Delivered
    <3>3. SessionIsRecorded'
      BY <3>1, <3>2 DEF SessionInv, SessionIsRecorded
    <3>4. NoLinkNoSession'
      BY <2>1, <2>3 DEF SessionInv, NoLinkNoSession, Delivered
    <3>5. BeforeRun'
      BY <1>b, <2>1, <3>2 DEF BeforeRun
    <3> QED  BY <3>3, <3>4, <3>5
  <2> QED  BY <1>18, <2>2, <2>3 DEF SubscribeOnce, Subscribe
<1>19. ASSUME NEW t \in Topics, Unsubscribe(t)
       PROVE  SessionIsRecorded' /\ NoLinkNoSession' /\ BeforeRun'
  <2>1. UNCHANGED <<main, runner, connected, loop, link>> /\ runner = "off"
    BY <1>0, <1>19 DEF Unsubscribe, MainFirst
  <2>2. session' = IF connected THEN Delivered(session \ {t}) ELSE session
    BY <1>19 DEF Unsubscribe, UnsubscribeSent
  <2>3. session' \subseteq session \ {t}
    <3>1. CASE ~connected
      BY <1>b, <2>1, <2>2, <3>1 DEF BeforeRun
    <3>2. CASE connected /\ link \in {"sent", "up"}
      BY <2>2, <3>2 DEF Delivered
    <3>3. CASE connected /\ link \in {"none", "broken"}
      BY <2>2, <3>3 DEF Delivered, SessionInv, NoLinkNoSession
    <3> QED  BY <1>0, <3>1, <3>2, <3>3 DEF TypeOK
  <2>4. Recorded \ {t} \subseteq Recorded'
    <3>1. CASE UNCHANGED subscriptions
      BY <3>1 DEF Recorded
    <3>2. ASSUME NEW i \in DOMAIN subscriptions, subscriptions[i] = t,
                 subscriptions' = RemoveAt(subscriptions, i)
          PROVE  Recorded' = Recorded \ {t}
      <4>1. i \in 1 .. Len(subscriptions)
        BY <1>0, <3>2, ListLen
      <4> QED  BY <1>0, <3>2, <4>1, RemoveAtSet DEF TypeOK, Recorded
    <3> QED  BY <1>19, <3>1, <3>2 DEF Unsubscribe
  <2>5. SessionIsRecorded'
    BY <2>3, <2>4 DEF SessionInv, SessionIsRecorded
  <2> QED  BY <1>b, <2>1, <2>3, <2>5 DEF SessionInv, NoLinkNoSession, BeforeRun
<1>20. CASE Stop
  BY <1>b, <1>20, SameSession DEF Stop, BeforeRun
<1>21. CASE Disconnect
  BY <1>0, <1>21, Emptied, EmptySession DEF Disconnect, BeforeRun, MainFirst
<1>22. CASE OnRefused
  BY <1>b, <1>22, EmptySession DEF OnRefused, BeforeRun
<1>23. CASE OnMessage
  BY <1>b, <1>23, SameSession DEF OnMessage, BeforeRun
<1>24. CASE Fault
  BY <1>b, <1>24, EmptySession DEF Fault, BeforeRun
<1>25. CASE BrokerReturns
  BY <1>b, <1>25, SameSession DEF BrokerReturns, BeforeRun
<1>26. CASE UNCHANGED vars
  BY <1>b, <1>26, SameSession DEF vars, BeforeRun
<1> QED  BY <1>1, <1>2, <1>3, <1>4, <1>5, <1>6, <1>7, <1>8, <1>9, <1>10, <1>11,
            <1>12, <1>13, <1>14, <1>15, <1>16, <1>17, <1>18, <1>19, <1>20, <1>21,
            <1>22, <1>23, <1>24, <1>25, <1>26
         DEF Next, MainStep, RunStep, LoopStep

(* The broker never sends a topic the client has not on record, whatever    *)
(* mixture of lost connections, reconnects and the two ways to subscribe.   *)
THEOREM NoUnrecordedSession == Spec => []SessionIsRecorded
<1>1. SessionInv => SessionIsRecorded
  BY DEF SessionInv
<1> QED  BY <1>1, InitSession, NextSession, PTL DEF Spec
-----------------------------------------------------------------------------
(***************************************************************************)
(* What run() rests on.  As long as answers come in time and run() polls   *)
(* before the library reconnects, a CONNECT is only out while somebody     *)
(* waits for its answer: no connection comes up behind run()'s back, and   *)
(* the one it waited for gets every recorded topic before the next poll.   *)
(***************************************************************************)
ClosedIsKnown == loop \in {"none", "retry", "ended"} => connected = FALSE
NoLinkIsKnown == link = "none" /\ loop \in {"running", "busy"} => connected = FALSE
SentIsNotConnected == link = "sent" => connected = FALSE
NotConnectedSincePoll == runner \in {"disconnect", "connect"} => connected = FALSE
AnswersAwaited ==
  runner \notin {"off", "await"} \/ main = "subscribe" => link # "sent" \/ LoopGone

Control == /\ ClosedIsKnown /\ NoLinkIsKnown /\ SentIsNotConnected
           /\ NotConnectedSincePoll /\ AnswersAwaited

NothingRecordedYet == main \in {"connect", "start", "await"} => Recorded = {}
SubscribedSoFar ==
  runner = "resubscribe" /\ link = "up" =>
    \A i \in 1 .. todo - 1 : subscriptions[i] \in session
SubscribedAtRest ==
  runner \in {"off", "start", "poll"} /\ connected /\ link = "up" =>
    Recorded \subseteq session

Subscribed == NothingRecordedYet /\ SubscribedSoFar /\ SubscribedAtRest

RestInv ==
  SessionInv /\ ~SlowAnswers /\ (~overtaken => Control /\ Subscribed)

LEMMA InitRest == ~SlowAnswers /\ Init => RestInv
<1> SUFFICES ASSUME ~SlowAnswers, Init PROVE RestInv
  OBVIOUS
<1>1. Recorded = {}
  BY DEF Init, Recorded, ToSet
<1> QED  BY <1>1, InitSession
         DEF Init, RestInv, Control, ClosedIsKnown, NoLinkIsKnown, SentIsNotConnected,
             NotConnectedSincePoll, AnswersAwaited, LoopGone, Subscribed,
             NothingRecordedYet, SubscribedSoFar, SubscribedAtRest

LEMMA NextControl ==
  ASSUME TypeInv, BeforeRun, ~SlowAnswers, Control, Next, ~overtaken'
  PROVE  Control'
<1> USE DEF library, outside, client
<1>m. MainFirst
  BY DEF TypeInv
<1> USE DEF Control, ClosedIsKnown, NoLinkIsKnown, SentIsNotConnected,
            NotConnectedSincePoll, AnswersAwaited, LoopGone
<1>1. CASE Connect
  <2>1. /\ main = "connect" /\ runner = "off" /\ runner' = "off" /\ loop = "none"
        /\ UNCHANGED <<connected, loop>>
    BY <1>1, <1>m DEF Connect, MainFirst, BeforeRun
  <2> QED  BY <2>1
<1>2. CASE LoopStart
  BY <1>2, <1>m DEF LoopStart, MainFirst, BeforeRun
<1>3. CASE ConnectReturns
  BY <1>3, <1>m DEF ConnectReturns, MainFirst, WaitExpires
<1>4. CASE StartThread
  BY <1>4 DEF StartThread
<1>5. CASE LoopStop
  BY <1>5 DEF LoopStop
<1>6. CASE RunBegins
  BY <1>6 DEF RunBegins
<1>7. CASE Poll
  BY <1>7 DEF Poll, TypeInv, TypeOK
<1>8. CASE ReconnectDisconnects
  BY <1>8 DEF ReconnectDisconnects, MosqDisconnect
<1>9. CASE ReconnectConnects
  BY <1>9, <1>m DEF ReconnectConnects, MosqConnect, MainFirst
<1>10. CASE ReconnectReturns
  BY <1>10 DEF ReconnectReturns, AfterReconnect, WaitExpires
<1>11. CASE Resubscribe
  BY <1>11 DEF Resubscribe
<1>12. CASE OnConnect
  <2>1. /\ loop = "running" /\ loop' = "running" /\ link = "sent" /\ link' = "up"
        /\ UNCHANGED <<main, runner>>
    BY <1>12 DEF OnConnect
  <2> QED  BY <2>1
<1>13. CASE OnMessage \/ OnMessageReturns
  BY <1>13 DEF OnMessage, OnMessageReturns
<1>14. CASE NoticeLoss
  BY <1>14 DEF NoticeLoss
<1>15. CASE OnDisconnect
  BY <1>15 DEF OnDisconnect
<1>16. CASE LibraryReconnects
  <2>1. /\ loop = "retry" /\ loop' = "running" /\ link' = "sent"
        /\ UNCHANGED <<main, runner, connected>>
        /\ runner = "await" \/ main = "await"
    BY <1>16 DEF LibraryReconnects
  <2>2. main = "await" => runner = "off"
    BY <1>m DEF MainFirst
  <2>3. runner \notin {"disconnect", "connect"} /\ connected = FALSE
    BY <2>1, <2>2
  <2>4. runner \in {"off", "await"} /\ main # "subscribe"
    BY <2>1, <2>2, <1>m DEF MainFirst
  <2> QED  BY <2>1, <2>3, <2>4
<1>17. CASE LoopEnds
  BY <1>17 DEF LoopEnds
<1>18. CASE \E t \in Topics : SubscribeOnce(t) \/ Unsubscribe(t)
  BY <1>18 DEF SubscribeOnce, Subscribe, Unsubscribe
<1>19. CASE Stop \/ BrokerReturns
  BY <1>19 DEF Stop, BrokerReturns
<1>20. CASE Disconnect
  BY <1>20 DEF Disconnect, MosqDisconnect
<1>21. CASE OnRefused
  BY <1>21 DEF OnRefused, SetConnected
<1>22. CASE Fault
  BY <1>22 DEF Fault
<1> QED  BY <1>1, <1>2, <1>3, <1>4, <1>5, <1>6, <1>7, <1>8, <1>9, <1>10, <1>11,
            <1>12, <1>13, <1>14, <1>15, <1>16, <1>17, <1>18, <1>19, <1>20, <1>21,
            <1>22
         DEF Next, MainStep, RunStep, LoopStep

(* A step that brings no connection up, takes nothing from the session of   *)
(* one that is, and moves nobody to where the session matters.              *)
LEMMA SubscribedStays ==
  ASSUME Subscribed, UNCHANGED <<subscriptions, todo>>,
         main' \in {"connect", "start", "await"} => main \in {"connect", "start", "await"},
         link' = "up" => link = "up" /\ UNCHANGED session,
         connected' => connected,
         runner' = "resubscribe" => runner = "resubscribe",
         runner' \in {"off", "start", "poll"} =>
           runner \in {"off", "start", "poll"} \/ connected' = FALSE
  PROVE  Subscribed'
<1>1. Recorded' = Recorded
  BY DEF Recorded
<1> QED  BY <1>1 DEF Subscribed, NothingRecordedYet, SubscribedSoFar, SubscribedAtRest

LEMMA NextSubscribed ==
  ASSUME SessionInv, TypeInv', Control, Control', ~SlowAnswers, Subscribed,
         Next, ~overtaken'
  PROVE  Subscribed'
<1> USE DEF library, outside, client
<1>0. TypeOK /\ TypeOK' /\ MainFirst
  BY DEF SessionInv, TypeInv
<1>1. CASE Connect
  BY <1>1, SubscribedStays DEF Connect, MosqConnect
<1>2. CASE LoopStart \/ ConnectReturns \/ StartThread
  <2>1. UNCHANGED <<subscriptions, todo, link, session, connected>>
    BY <1>2 DEF LoopStart, ConnectReturns, StartThread
  <2>2. /\ runner = "off" /\ runner' \in {"off", "start"}
        /\ main \in {"start", "await", "subscribe"}
        /\ main' \in {"await", "subscribe", "done"}
        /\ main' = "await" => main = "start"
    BY <1>0, <1>2 DEF LoopStart, ConnectReturns, StartThread, MainFirst
  <2> QED  BY <2>1, <2>2, SubscribedStays
<1>3. CASE LoopStop
  BY <1>3, SubscribedStays DEF LoopStop
<1>4. CASE RunBegins
  BY <1>4, SubscribedStays DEF RunBegins
<1>5. CASE Poll
  BY <1>5, SubscribedStays DEF Poll
<1>6. CASE ReconnectDisconnects
  BY <1>6, SubscribedStays DEF ReconnectDisconnects, MosqDisconnect
<1>7. CASE ReconnectConnects
  <2>1. link' # "up" /\ UNCHANGED <<main, subscriptions, connected, todo>>
        /\ runner' \in {"await", "poll"} /\ runner = "connect"
    BY <1>7 DEF ReconnectConnects, MosqConnect
  <2>2. connected' = FALSE
    BY <2>1 DEF Control, NotConnectedSincePoll
  <2> QED  BY <2>1, <2>2, SubscribedStays
<1>8. CASE ReconnectReturns
  <2>1. UNCHANGED <<main, subscriptions, connected, session, link>> /\ todo' = 1
        /\ runner' = (IF connected THEN "resubscribe" ELSE "poll")
    BY <1>8 DEF ReconnectReturns, AfterReconnect
  <2>2. 1 .. todo' - 1 = {}
    BY <2>1
  <2>3. Recorded' = Recorded
    BY <2>1 DEF Recorded
  <2> QED  BY <2>1, <2>2, <2>3
           DEF Subscribed, NothingRecordedYet, SubscribedSoFar, SubscribedAtRest
<1>9. CASE Resubscribe
  <2>1. UNCHANGED <<main, subscriptions, connected, link>> /\ runner = "resubscribe"
        /\ Len(subscriptions) \in Nat /\ DOMAIN subscriptions = 1 .. Len(subscriptions)
        /\ todo \in 1 .. Len(subscriptions) + 1
    BY <1>9, <1>0, ListLen DEF Resubscribe, TypeOK
  <2>2. Recorded' = Recorded
    BY <2>1 DEF Recorded
  <2>3. link = "up" => \A i \in 1 .. todo - 1 : subscriptions[i] \in session
    BY <2>1 DEF Subscribed, SubscribedSoFar
  <2>4. CASE ResubscribeDone
    <3>1. runner' = "poll" /\ UNCHANGED <<todo, session>> /\ todo - 1 = Len(subscriptions)
      BY <1>9, <2>1, <2>4 DEF Resubscribe, ResubscribeDone
    <3>2. link = "up" => Recorded \subseteq session
      BY <2>1, <2>3, <3>1 DEF Recorded, ToSet
    <3> QED  BY <2>1, <2>2, <3>1, <3>2
             DEF Subscribed, NothingRecordedYet, SubscribedSoFar, SubscribedAtRest
  <2>5. CASE ~ResubscribeDone
    <3>1. /\ session' = Delivered(session \cup {subscriptions[todo]})
          /\ todo' = todo + 1 /\ runner' = "resubscribe"
      BY <1>9, <2>1, <2>5 DEF Resubscribe
    <3>2. ASSUME link' = "up", NEW i \in 1 .. todo' - 1 PROVE subscriptions'[i] \in session'
      <4>1. session' = session \cup {subscriptions[todo]} /\ link = "up"
        BY <2>1, <3>1, <3>2 DEF Delivered
      <4>2. i = todo \/ i \in 1 .. todo - 1
        BY <2>1, <3>1, <3>2
      <4> QED  BY <2>1, <2>3, <4>1, <4>2
    <3> QED  BY <2>1, <2>2, <3>1, <3>2
             DEF Subscribed, NothingRecordedYet, SubscribedSoFar, SubscribedAtRest
  <2> QED  BY <2>4, <2>5
(* Somebody waits for the answer: main, with nothing on record, or run().   *)
<1>10. CASE OnConnect
  <2>1. UNCHANGED <<main, runner, subscriptions, session, todo>>
        /\ loop = "running" /\ link = "sent"
    BY <1>10 DEF OnConnect
  <2>2. runner \in {"off", "await"} /\ main # "subscribe"
    BY <2>1 DEF Control, AnswersAwaited, LoopGone
  <2>3. Recorded' = Recorded
    BY <2>1 DEF Recorded
  <2>4. runner = "off" => main \in {"connect", "start", "await"}
    BY <1>0, <2>2 DEF TypeOK, MainFirst
  <2>5. runner = "off" => Recorded = {}
    BY <2>4 DEF Subscribed, NothingRecordedYet
  <2> QED  BY <2>1, <2>2, <2>3, <2>5
           DEF Subscribed, NothingRecordedYet, SubscribedSoFar, SubscribedAtRest
<1>11. CASE OnMessage \/ OnMessageReturns \/ LoopEnds
  <2>1. UNCHANGED <<main, runner, subscriptions, connected, todo, link, session>>
    BY <1>11 DEF OnMessage, OnMessageReturns, LoopEnds
  <2> QED  BY <2>1, SubscribedStays
<1>12. CASE NoticeLoss
  BY <1>12, SubscribedStays DEF NoticeLoss
<1>13. CASE OnDisconnect
  BY <1>13, SubscribedStays DEF OnDisconnect
<1>14. CASE LibraryReconnects
  BY <1>14, SubscribedStays DEF LibraryReconnects
<1>15. ASSUME NEW t \in Topics, SubscribeOnce(t) PROVE Subscribed'
  <2>1. UNCHANGED <<main, runner, connected, link>> /\ main = "subscribe" /\ runner = "off"
    BY <1>0, <1>15 DEF SubscribeOnce, Subscribe, MainFirst
  <2>2. ASSUME connected, link = "up", Recorded \subseteq session
        PROVE  Recorded' \subseteq session'
    <3>1. subscriptions' = Append(subscriptions, t) /\ session' = session \cup {t}
      BY <1>15, <2>2 DEF SubscribeOnce, Subscribe, Delivered
    <3>2. Recorded' = Recorded \cup {t}
      BY <1>0, <1>15, <3>1, Appended DEF SubscribeOnce, Subscribe, TypeOK, Recorded
    <3> QED  BY <2>2, <3>1, <3>2
  <2> QED  BY <2>1, <2>2 DEF Subscribed, NothingRecordedYet, SubscribedSoFar, SubscribedAtRest
<1>16. ASSUME NEW t \in Topics, Unsubscribe(t) PROVE Subscribed'
  <2>1. UNCHANGED <<main, runner, connected, link>> /\ main = "subscribe" /\ runner = "off"
    BY <1>0, <1>16 DEF Unsubscribe, MainFirst
  <2>2. ASSUME connected, link = "up", Recorded \subseteq session
        PROVE  Recorded' \subseteq session'
    <3>1. session' = session \ {t}
      BY <1>16, <2>2 DEF Unsubscribe, UnsubscribeSent, Delivered
    <3>2. CASE ~Contains(subscriptions, t) /\ UNCHANGED subscriptions
      BY <2>2, <3>1, <3>2 DEF Recorded, ToSet, Contains
    <3>3. ASSUME NEW i \in DOMAIN subscriptions, subscriptions[i] = t,
                 subscriptions' = RemoveAt(subscriptions, i)
          PROVE  Recorded' = Recorded \ {t}
      <4>1. i \in 1 .. Len(subscriptions)
        BY <1>0, <3>3, ListLen
      <4> QED  BY <1>0, <3>3, <4>1, RemoveAtSet DEF TypeOK, Recorded
    <3> QED  BY <1>16, <2>2, <3>1, <3>2, <3>3 DEF Unsubscribe
  <2> QED  BY <2>1, <2>2 DEF Subscribed, NothingRecordedYet, SubscribedSoFar, SubscribedAtRest
<1>17. CASE Stop \/ BrokerReturns
  <2>1. UNCHANGED <<main, runner, subscriptions, connected, todo, link, session>>
    BY <1>17 DEF Stop, BrokerReturns
  <2> QED  BY <2>1, SubscribedStays
<1>18. CASE Disconnect
  BY <1>18, SubscribedStays DEF Disconnect, MosqDisconnect
<1>19. CASE OnRefused
  <2>1. UNCHANGED <<main, runner, subscriptions, todo>> /\ link' = "broken"
    BY <1>19 DEF OnRefused
  <2>2. connected' = FALSE
    BY <1>19 DEF OnRefused, SetConnected
  <2> QED  BY <2>1, <2>2, SubscribedStays
<1>20. CASE Fault
  BY <1>20, SubscribedStays DEF Fault
<1> QED  BY <1>1, <1>2, <1>3, <1>4, <1>5, <1>6, <1>7, <1>8, <1>9, <1>10, <1>11,
            <1>12, <1>13, <1>14, <1>15, <1>16, <1>17, <1>18, <1>19, <1>20
         DEF Next, MainStep, RunStep, LoopStep

LEMMA NextRest == RestInv /\ [Next]_vars => RestInv'
<1> SUFFICES ASSUME RestInv, [Next]_vars PROVE RestInv'
  OBVIOUS
<1>1. SessionInv /\ SessionInv' /\ TypeInv /\ TypeInv' /\ BeforeRun
  BY NextSession DEF RestInv, SessionInv
<1>2. ASSUME ~overtaken' PROVE ~overtaken
  BY <1>2 DEF Next, MainStep, RunStep, LoopStep, Connect, LoopStart, ConnectReturns,
              StartThread, LoopStop, RunBegins, Poll, ReconnectDisconnects,
              ReconnectConnects, ReconnectReturns, Resubscribe, OnConnect,
              OnMessageReturns, NoticeLoss, OnDisconnect, LibraryReconnects, LoopEnds,
              SubscribeOnce, Subscribe, Unsubscribe, Stop, Disconnect, OnRefused, OnMessage, Fault,
              BrokerReturns, vars, outside
<1>3. ASSUME ~overtaken' PROVE Control' /\ Subscribed'
  <2>1. Control /\ Subscribed /\ ~SlowAnswers
    BY <1>2, <1>3 DEF RestInv
  <2>2. CASE Next
    BY <1>1, <1>3, <2>1, <2>2, NextControl, NextSubscribed
  <2>3. CASE UNCHANGED vars
    BY <2>1, <2>3 DEF vars, client, library, Control, ClosedIsKnown, NoLinkIsKnown,
       SentIsNotConnected, NotConnectedSincePoll, AnswersAwaited, LoopGone, Subscribed,
       NothingRecordedYet, SubscribedSoFar, SubscribedAtRest, Recorded
  <2> QED  BY <2>2, <2>3
<1> QED  BY <1>1, <1>3 DEF RestInv

(* run() rests only on a connection that carries every recorded topic, if   *)
(* the answers come within the 5 s waited and the library never reconnects  *)
(* before the poll; main may stop(), disconnect() or unsubscribe(), calls   *)
(* may fail, and connections be lost at any moment.                         *)
THEOREM RunRestsSubscribed == ~SlowAnswers /\ Spec => []RestsSubscribed
<1>1. RestInv => RestsSubscribed
  BY DEF RestInv, Subscribed, SubscribedAtRest, RestsSubscribed
<1> QED  BY <1>1, InitRest, NextRest, PTL DEF Spec
=============================================================================
