------------------------- MODULE DatabaseAppProofs -------------------------
(***************************************************************************)
(* Type correctness of the application and the guarantees of its reboot    *)
(* handshake, for every queue size and every bound.                        *)
(*                                                                         *)
(* The safety argument has three parts.  QueueHoldsNewest places every     *)
(* queued message, so the message in the reader's hands is older than all  *)
(* of them (HandInOrder) and what is stored older still (StoredInOrder).   *)
(* HandshakeInv follows one request: between the reader's empty read and   *)
(* the reply nothing can be queued, because the callback is the one that   *)
(* queues.  PromiseInv carries the reply across later steps: what is       *)
(* pending was accepted after the last promise.  Beside it, SleepInv shows *)
(* that no wake-up is lost.                                                *)
(***************************************************************************)
EXTENDS DatabaseApp, SequenceTheorems, TLAPS

(* A reader about to write holds a message that was accepted. *)
HandFull == reader = "store" => msg # 0

(* The message the reader holds is older than everything in the queue. *)
HandInOrder == reader = "store" => msg + Len(queue) <= accepted

(* A request that found the reader short of its last read is answered only  *)
(* after a later empty read.                                                *)
HandshakeInv ==
  /\ callback = "reply" => flushCompleted
  /\ callback # "idle" /\ ~late /\ reader = "finish" => queue = <<>>
  /\ callback # "idle" /\ ~late /\ flushCompleted => queue = <<>> /\ reader # "store"

(* Everything pending was accepted after "ready" was last said in time. *)
PromiseInv ==
  /\ promised + Len(queue) <= accepted
  /\ reader = "store" => promised < msg

(* Everything stored is older than what is queued or in the reader's hands. *)
StoreInv ==
  /\ \A i, j \in 1 .. Len(stored) : i < j => stored[i] < stored[j]
  /\ \A i \in 1 .. Len(stored) : stored[i] + Len(queue) <= accepted
  /\ reader = "store" => \A i \in 1 .. Len(stored) : stored[i] < msg
-----------------------------------------------------------------------------
LEMMA SeqWiden ==
  ASSUME NEW S, NEW T, S \subseteq T, NEW s \in Seq(S)
  PROVE  s \in Seq(T)
<1>1. Len(s) \in Nat /\ s \in [1 .. Len(s) -> S]
  BY LenProperties
<1>2. s \in [1 .. Len(s) -> T]
  BY <1>1
<1> QED
  BY <1>1, <1>2, SeqDef

(* The queue after a report, whether or not the oldest message gave way. *)
LEMMA Written ==
  ASSUME TypeOK, Fifo!Write(accepted + 1), accepted' = accepted + 1
  PROVE  /\ queue' \in Seq(1 .. accepted')
         /\ Len(queue') = IF Len(queue) = QueueSize THEN Len(queue) ELSE Len(queue) + 1
         /\ \A i \in 1 .. Len(queue') :
              queue'[i] = IF i = Len(queue') THEN accepted + 1
                          ELSE IF Len(queue) = QueueSize THEN queue[i + 1] ELSE queue[i]
         /\ msg' = msg /\ more' = more
<1> DEFINE S == 1 .. accepted + 1
<1>1. accepted \in Nat /\ queue \in Seq(1 .. accepted) /\ QueueSize \in Nat \ {0}
  BY AppAssumption DEF TypeOK
<1>2. queue \in Seq(S) /\ Len(queue) \in Nat /\ accepted + 1 \in S
  BY <1>1, SeqWiden, LenProperties
<1>3. queue' = Append(Fifo!Kept, accepted + 1) /\ msg' = msg /\ more' = more
  BY DEF Fifo!Write
<1>4. CASE Len(queue) = QueueSize
  <2>1. queue # <<>>
    BY <1>1, <1>4, EmptySeq
  <2>2. /\ Tail(queue) \in Seq(S)
        /\ Len(Tail(queue)) = Len(queue) - 1
        /\ \A i \in 1 .. Len(Tail(queue)) : Tail(queue)[i] = queue[i + 1]
    BY <1>2, <2>1, HeadTailProperties
  <2>3. queue' = Append(Tail(queue), accepted + 1)
    BY <1>3, <1>4 DEF Fifo!Kept
  <2>4. /\ queue' \in Seq(S)
        /\ Len(queue') = Len(Tail(queue)) + 1
        /\ \A i \in 1 .. Len(Tail(queue)) : queue'[i] = Tail(queue)[i]
        /\ queue'[Len(Tail(queue)) + 1] = accepted + 1
    BY <1>2, <2>2, <2>3, AppendProperties
  <2>5. Len(queue') = Len(queue) /\ Len(Tail(queue)) = Len(queue) - 1
    BY <1>2, <2>2, <2>4
  <2>6. \A i \in 1 .. Len(queue') :
          queue'[i] = IF i = Len(queue') THEN accepted + 1 ELSE queue[i + 1]
    <3> SUFFICES ASSUME NEW i \in 1 .. Len(queue')
                 PROVE  queue'[i] = IF i = Len(queue') THEN accepted + 1 ELSE queue[i + 1]
      OBVIOUS
    <3>1. CASE i = Len(queue')
      BY <1>2, <2>4, <2>5, <3>1
    <3>2. CASE i # Len(queue')
      <4>1. i \in 1 .. Len(Tail(queue))
        BY <1>2, <2>5, <3>2
      <4> QED
        BY <2>2, <2>4, <3>2, <4>1
    <3> QED
      BY <3>1, <3>2
  <2> QED
    BY <1>3, <1>4, <2>4, <2>5, <2>6
<1>5. CASE Len(queue) # QueueSize
  <2>1. queue' = Append(queue, accepted + 1)
    BY <1>3, <1>5 DEF Fifo!Kept
  <2>2. /\ queue' \in Seq(S)
        /\ Len(queue') = Len(queue) + 1
        /\ \A i \in 1 .. Len(queue) : queue'[i] = queue[i]
        /\ queue'[Len(queue) + 1] = accepted + 1
    BY <1>2, <2>1, AppendProperties
  <2> QED
    BY <1>1, <1>2, <1>3, <1>5, <2>2
<1> QED
  BY <1>4, <1>5

(* The queue and the reader's message after a read that found one. *)
LEMMA Taken ==
  ASSUME TypeOK, Fifo!Read, more'
  PROVE  /\ queue # <<>>
         /\ queue' \in Seq(1 .. accepted)
         /\ Len(queue') = Len(queue) - 1
         /\ \A i \in 1 .. Len(queue') : queue'[i] = queue[i + 1]
         /\ msg' = queue[1] /\ msg' \in 1 .. accepted
<1>1. queue # <<>> /\ msg' = Head(queue) /\ queue' = Tail(queue)
  BY DEF Fifo!Read
<1> QED
  BY <1>1, HeadTailProperties DEF TypeOK

(* A read of an empty queue changes nothing but its result. *)
LEMMA NotTaken ==
  ASSUME Fifo!Read, ~more'
  PROVE  queue = <<>> /\ queue' = queue /\ msg' = msg
BY DEF Fifo!Read
-----------------------------------------------------------------------------
(* What is in memory was accepted. *)
LEMMA PendingAccepted ==
  ASSUME TypeOK, HandFull
  PROVE  /\ Pending \subseteq 1 .. accepted
         /\ \A m \in Pending : \/ \E i \in 1 .. Len(queue) : m = queue[i]
                               \/ reader = "store" /\ m = msg
<1>1. /\ accepted \in Nat
      /\ DOMAIN queue = 1 .. Len(queue)
      /\ \A i \in 1 .. Len(queue) : queue[i] \in 1 .. accepted
  BY AppAssumption, LenProperties, ElementOfSeq DEF TypeOK
<1>2. Range(queue) = {queue[i] : i \in 1 .. Len(queue)}
  BY <1>1 DEF Range
<1>3. \A m \in Pending : \/ \E i \in 1 .. Len(queue) : m = queue[i]
                         \/ reader = "store" /\ m = msg
  BY <1>2 DEF Pending
<1>4. reader = "store" => msg \in 1 .. accepted
  BY <1>1 DEF TypeOK, HandFull
<1> QED
  BY <1>1, <1>3, <1>4

LEMMA InitTypeOK == Init => TypeOK /\ HandFull
<1> SUFFICES ASSUME Init PROVE TypeOK /\ HandFull
  OBVIOUS
<1>1. accepted = 0 /\ <<>> \in Seq(1 .. accepted) /\ Len(<<>>) = 0
  BY EmptySeq DEF Init
<1>2. /\ 0 \in 0 .. accepted /\ 0 \in 0 .. MaxReports
      /\ 0 \in 0 .. MaxReboots /\ 0 \in 0 .. MaxRestarts /\ 0 <= QueueSize
  BY <1>1, AppAssumption
<1> QED
  BY <1>1, <1>2 DEF Init, TypeOK, HandFull

LEMMA NextTypeOK == TypeOK /\ HandFull /\ [Next]_vars => (TypeOK /\ HandFull)'
<1> SUFFICES ASSUME TypeOK, HandFull, [Next]_vars PROVE (TypeOK /\ HandFull)'
  OBVIOUS
<1> USE AppAssumption DEF HandFull
<1>0. accepted \in Nat /\ Len(queue) \in Nat
  BY LenProperties DEF TypeOK
<1>1. CASE Report
  <2>1. /\ Fifo!Write(accepted + 1) /\ accepted' = accepted + 1 /\ accepted < MaxReports
    BY <1>1 DEF Report
  <2>2. /\ queue' \in Seq(1 .. accepted') /\ Len(queue') <= QueueSize
        /\ msg' = msg /\ more' = more
    BY <1>0, <2>1, Written DEF TypeOK
  <2>3. 1 .. accepted \subseteq 1 .. accepted' /\ 0 .. accepted \subseteq 0 .. accepted'
    BY <1>0, <2>1
  <2>4. stored' \in Seq(1 .. accepted')
    BY <1>1, <2>3, SeqWiden DEF Report, TypeOK
  <2>5. overwritten' \subseteq 1 .. accepted'
    <3>1. CASE Len(queue) = QueueSize
      <4>1. queue # <<>>
        BY <1>0, <3>1, EmptySeq
      <4>2. Head(queue) \in 1 .. accepted
        BY <4>1, HeadTailProperties DEF TypeOK
      <4> QED
        BY <1>1, <2>3, <4>2 DEF Report, TypeOK
    <3> QED
      BY <1>1, <2>3, <3>1 DEF Report, TypeOK
  <2> QED
    BY <1>0, <1>1, <2>1, <2>2, <2>3, <2>4, <2>5 DEF Report, TypeOK
<1>2. CASE RequestReboot
  <2>1. reboots' \in 0 .. MaxReboots
    BY <1>2 DEF RequestReboot, TypeOK
  <2>2. late' \in BOOLEAN
    BY <1>2 DEF RequestReboot
  <2> QED
    BY <1>2, <2>1, <2>2 DEF RequestReboot, TypeOK
<1>3. CASE NotifyReader
  BY <1>3 DEF NotifyReader, TypeOK, history
<1>4. CASE AwaitFlush
  BY <1>4 DEF AwaitFlush, TypeOK, history
<1>5. CASE Reply
  BY <1>0, <1>5 DEF Reply, TypeOK
<1>6. CASE ReaderAwait
  <2>1. CASE needFlush
    <3>1. reader' = "drain" /\ msg' = 0 /\ waiting' = waiting
      BY <1>6, <2>1 DEF ReaderAwait, StartRound
    <3>2. msg' \in 0 .. accepted
      BY <1>0, <3>1
    <3> QED
      BY <1>6, <3>1, <3>2 DEF ReaderAwait, TypeOK, history
  <2>2. CASE ~needFlush
    BY <1>6, <2>2 DEF ReaderAwait, TypeOK, history
  <2> QED
    BY <2>1, <2>2
<1>7. CASE ReaderRead
  <2>1. CASE more'
    BY <1>0, <1>7, <2>1, Taken DEF ReaderRead, TypeOK, history
  <2>2. CASE ~more'
    <3>1. more' = FALSE
      BY <1>7, <2>2 DEF ReaderRead, Fifo!Read
    <3> QED
      BY <1>7, <2>2, <3>1, NotTaken DEF ReaderRead, TypeOK, history
  <2> QED
    BY <2>1, <2>2
<1>8. CASE ReaderStore
  <2>1. msg \in 1 .. accepted
    BY <1>0, <1>8 DEF ReaderStore, TypeOK
  <2>2. stored \in Seq(1 .. accepted) /\ failed \subseteq 1 .. accepted
    BY DEF TypeOK
  <2>3. Append(stored, msg) \in Seq(1 .. accepted)
    BY <2>1, <2>2, AppendProperties
  <2>4. stored' \in {stored, Append(stored, msg)} /\ failed' \in {failed, failed \cup {msg}}
    BY <1>8 DEF ReaderStore
  <2>5. stored' \in Seq(1 .. accepted) /\ failed' \subseteq 1 .. accepted
    BY <2>1, <2>2, <2>3, <2>4
  <2> QED
    BY <1>8, <2>5 DEF ReaderStore, TypeOK
<1>9. CASE ReaderFinish
  BY <1>9 DEF ReaderFinish, TypeOK, history
<1>10. CASE ReaderNotifyAll
  BY <1>10 DEF ReaderNotifyAll, TypeOK, history
<1>11. CASE ReaderTimeout
  BY <1>0, <1>11 DEF ReaderTimeout, StartRound, TypeOK, history
<1>12. CASE SpuriousWakeup
  BY <1>12 DEF SpuriousWakeup, TypeOK, history
<1>13. CASE Restart
  <2>1. Pending \subseteq 1 .. accepted
    BY <1>0, PendingAccepted
  <2>2. /\ queue' \in Seq(1 .. accepted) /\ Len(queue') = 0
        /\ 0 \in 0 .. accepted /\ 0 <= QueueSize
    BY <1>0, <1>13, EmptySeq DEF Restart
  <2>3. restarts' \in 0 .. MaxRestarts
    BY <1>13 DEF Restart, TypeOK
  <2> QED
    BY <1>13, <2>1, <2>2, <2>3 DEF Restart, TypeOK
<1>14. CASE UNCHANGED vars
  BY <1>14 DEF vars, memory, history, TypeOK
<1> QED
  BY <1>1, <1>2, <1>3, <1>4, <1>5, <1>6, <1>7, <1>8, <1>9, <1>10, <1>11, <1>12,
     <1>13, <1>14 DEF Next, CallbackStep, ReaderStep

(* Every reachable state is well typed; the queue in particular never holds *)
(* more than its capacity (mq, main.cpp:142).                               *)
THEOREM TypeCorrect == Spec => []TypeOK
<1>1. Spec => [](TypeOK /\ HandFull)
  BY InitTypeOK, NextTypeOK, PTL DEF Spec
<1> QED
  BY <1>1, PTL
-----------------------------------------------------------------------------
(* The order of messages. *)
OrderInv == TypeOK /\ HandFull /\ QueueHoldsNewest /\ HandInOrder

LEMMA InitOrder == Init => OrderInv
<1> SUFFICES ASSUME Init PROVE OrderInv
  OBVIOUS
<1>1. Len(queue) = 0 /\ reader = "wait"
  BY EmptySeq DEF Init
<1> QED
  BY <1>1, InitTypeOK DEF OrderInv, QueueHoldsNewest, HandInOrder

LEMMA NextOrder == OrderInv /\ [Next]_vars => OrderInv'
<1> SUFFICES ASSUME OrderInv, [Next]_vars PROVE (QueueHoldsNewest /\ HandInOrder)'
  BY NextTypeOK DEF OrderInv
<1>0. /\ TypeOK /\ HandFull /\ QueueHoldsNewest /\ HandInOrder
      /\ accepted \in Nat /\ Len(queue) \in Nat /\ QueueSize \in Nat \ {0}
      /\ \A i \in 1 .. Len(queue) : queue[i] \in Nat
      /\ msg \in Nat
  BY AppAssumption, LenProperties, ElementOfSeq DEF OrderInv, TypeOK
<1>1. CASE Report
  <2>1. Fifo!Write(accepted + 1) /\ accepted' = accepted + 1 /\ reader' = reader
    BY <1>1 DEF Report
  <2>2. /\ Len(queue') = IF Len(queue) = QueueSize THEN Len(queue) ELSE Len(queue) + 1
        /\ \A i \in 1 .. Len(queue') :
             queue'[i] = IF i = Len(queue') THEN accepted + 1
                         ELSE IF Len(queue) = QueueSize THEN queue[i + 1] ELSE queue[i]
        /\ msg' = msg
    BY <1>0, <2>1, Written
  <2>3. QueueHoldsNewest'
    <3> SUFFICES ASSUME NEW i \in 1 .. Len(queue')
                 PROVE  queue'[i] + Len(queue') = accepted' + i
      BY DEF QueueHoldsNewest
    <3>1. CASE i = Len(queue')
      BY <1>0, <2>1, <2>2, <3>1
    <3>2. CASE i # Len(queue') /\ Len(queue) = QueueSize
      <4>1. i + 1 \in 1 .. Len(queue) /\ queue'[i] = queue[i + 1]
        BY <1>0, <2>2, <3>2
      <4>2. queue[i + 1] + Len(queue) = accepted + (i + 1)
        BY <1>0, <4>1 DEF QueueHoldsNewest
      <4> QED
        BY <1>0, <2>1, <2>2, <3>2, <4>1, <4>2
    <3>3. CASE i # Len(queue') /\ Len(queue) # QueueSize
      <4>1. i \in 1 .. Len(queue) /\ queue'[i] = queue[i]
        BY <1>0, <2>2, <3>3
      <4>2. queue[i] + Len(queue) = accepted + i
        BY <1>0, <4>1 DEF QueueHoldsNewest
      <4> QED
        BY <1>0, <2>1, <2>2, <3>3, <4>1, <4>2
    <3> QED
      BY <3>1, <3>2, <3>3
  <2>4. HandInOrder'
    BY <1>0, <2>1, <2>2 DEF HandInOrder
  <2> QED
    BY <2>3, <2>4
<1>2. CASE ReaderRead
  <2>1. accepted' = accepted
    BY <1>2 DEF ReaderRead
  <2>2. CASE more'
    <3>1. /\ Len(queue) > 0
          /\ Len(queue') = Len(queue) - 1
          /\ \A i \in 1 .. Len(queue') : queue'[i] = queue[i + 1]
          /\ msg' = queue[1]
      BY <1>0, <1>2, <2>2, Taken, EmptySeq DEF ReaderRead, TypeOK
    <3>2. QueueHoldsNewest'
      <4> SUFFICES ASSUME NEW i \in 1 .. Len(queue')
                   PROVE  queue'[i] + Len(queue') = accepted' + i
        BY DEF QueueHoldsNewest
      <4>1. i + 1 \in 1 .. Len(queue) /\ queue'[i] = queue[i + 1]
        BY <1>0, <3>1
      <4>2. queue[i + 1] + Len(queue) = accepted + (i + 1)
        BY <1>0, <4>1 DEF QueueHoldsNewest
      <4>3. i \in Nat /\ queue[i + 1] \in Nat /\ Len(queue') = Len(queue) - 1
        BY <1>0, <3>1, <4>1
      <4> QED
        BY <1>0, <2>1, <4>1, <4>2, <4>3
    <3>3. queue[1] + Len(queue) = accepted + 1
      BY <1>0, <3>1 DEF QueueHoldsNewest
    <3>4. HandInOrder'
      BY <1>0, <2>1, <3>1, <3>3 DEF HandInOrder
    <3> QED
      BY <3>2, <3>4
  <2>3. CASE ~more'
    <3>1. queue' = queue /\ reader' = "finish"
      BY <1>2, <2>3, NotTaken DEF ReaderRead
    <3> QED
      BY <1>0, <2>1, <3>1 DEF QueueHoldsNewest, HandInOrder
  <2> QED
    BY <2>2, <2>3
<1>3. CASE Restart
  <2>1. Len(queue') = 0 /\ reader' = "wait"
    BY <1>3, EmptySeq DEF Restart
  <2> QED
    BY <2>1 DEF QueueHoldsNewest, HandInOrder
<1>4. CASE /\ UNCHANGED <<queue, accepted>>
           /\ reader' = "store" => reader = "store" /\ msg' = msg
  BY <1>0, <1>4 DEF QueueHoldsNewest, HandInOrder
<1> QED
  BY <1>1, <1>2, <1>3, <1>4 DEF Next, CallbackStep, ReaderStep, RequestReboot,
     NotifyReader, AwaitFlush, Reply, ReaderAwait, StartRound, ReaderStore, ReaderFinish,
     ReaderNotifyAll, ReaderTimeout, SpuriousWakeup, vars, memory, history

(* The reader receives the newest messages without a gap, in order: a full  *)
(* queue gives up its oldest message only (write(), and main.cpp:235).      *)
THEOREM NewestAreQueued == Spec => []QueueHoldsNewest
<1>1. OrderInv => QueueHoldsNewest
  BY DEF OrderInv
<1> QED
  BY <1>1, InitOrder, NextOrder, PTL DEF Spec
-----------------------------------------------------------------------------
(* The reboot handshake. *)
ReplyInv == TypeOK /\ HandFull /\ HandshakeInv

LEMMA InitReply == Init => ReplyInv
<1> SUFFICES ASSUME Init PROVE ReplyInv
  OBVIOUS
<1> QED
  BY InitTypeOK DEF Init, ReplyInv, HandshakeInv

LEMMA NextReply == ReplyInv /\ [Next]_vars => ReplyInv'
<1> SUFFICES ASSUME ReplyInv, [Next]_vars PROVE HandshakeInv'
  BY NextTypeOK DEF ReplyInv
<1>0. TypeOK /\ HandFull /\ HandshakeInv
  BY DEF ReplyInv
<1>1. CASE Report
  BY <1>1 DEF Report, HandshakeInv
<1>2. CASE RequestReboot
  BY <1>2 DEF RequestReboot, HandshakeInv
<1>3. CASE NotifyReader
  BY <1>0, <1>3 DEF NotifyReader, HandshakeInv, history
<1>4. CASE AwaitFlush
  BY <1>0, <1>4 DEF AwaitFlush, HandshakeInv, history
<1>5. CASE Reply
  BY <1>5 DEF Reply, HandshakeInv
<1>6. CASE ReaderAwait
  BY <1>0, <1>6 DEF ReaderAwait, StartRound, HandshakeInv, history
<1>7. CASE ReaderRead
  <2>1. CASE more'
    BY <1>0, <1>7, <2>1, Taken DEF ReaderRead, HandshakeInv, history
  <2>2. CASE ~more'
    BY <1>0, <1>7, <2>2, NotTaken DEF ReaderRead, HandshakeInv, history
  <2> QED
    BY <2>1, <2>2
<1>8. CASE ReaderStore
  BY <1>0, <1>8 DEF ReaderStore, HandshakeInv
<1>9. CASE ReaderFinish
  BY <1>0, <1>9 DEF ReaderFinish, HandshakeInv, history
<1>10. CASE ReaderNotifyAll
  BY <1>0, <1>10 DEF ReaderNotifyAll, HandshakeInv, history
<1>11. CASE ReaderTimeout
  BY <1>0, <1>11 DEF ReaderTimeout, StartRound, HandshakeInv, history
<1>12. CASE SpuriousWakeup
  BY <1>0, <1>12 DEF SpuriousWakeup, HandshakeInv, history
<1>13. CASE Restart
  BY <1>13 DEF Restart, HandshakeInv
<1>14. CASE UNCHANGED vars
  BY <1>0, <1>14 DEF vars, memory, history, HandshakeInv
<1> QED
  BY <1>1, <1>2, <1>3, <1>4, <1>5, <1>6, <1>7, <1>8, <1>9, <1>10, <1>11, <1>12,
     <1>13, <1>14 DEF Next, CallbackStep, ReaderStep

LEMMA DrainedAtReply == ReplyInv => ReplyMeansDrained
<1> SUFFICES ASSUME ReplyInv, callback = "reply", ~late PROVE Pending = {}
  BY DEF ReplyMeansDrained
<1>1. TypeOK /\ HandFull /\ queue = <<>> /\ reader # "store"
  BY DEF ReplyInv, HandshakeInv
<1>2. Len(queue) = 0
  BY <1>1, EmptySeq
<1> QED
  BY <1>1, <1>2, PendingAccepted

(* "ready" is published only when nothing is pending, unless the request    *)
(* came between a round's last read and its flags (main.cpp:201-206).       *)
THEOREM RepliesAreDrained == Spec => []ReplyMeansDrained
BY InitReply, NextReply, DrainedAtReply, PTL DEF Spec
-----------------------------------------------------------------------------
(* What a step other than a write or a reply does to the counts that the    *)
(* remaining invariants are about: a report, a read, or nothing new.        *)
Reported ==
  /\ accepted' = accepted + 1
  /\ Len(queue') \in {Len(queue), Len(queue) + 1}
  /\ UNCHANGED <<reader, msg, stored, promised>>
Took ==
  /\ reader' = "store"
  /\ Len(queue') = Len(queue) - 1
  /\ msg' + Len(queue) = accepted + 1
  /\ msg' \in Nat
  /\ UNCHANGED <<accepted, stored, promised>>
NothingNew ==
  /\ Len(queue') <= Len(queue) /\ Len(queue') \in Nat
  /\ reader' = "store" => reader = "store" /\ msg' = msg
  /\ UNCHANGED <<accepted, stored, promised>>

LEMMA QueueStep ==
  ASSUME OrderInv, [Next]_vars
  PROVE  ReaderStore \/ Reply \/ Reported \/ Took \/ NothingNew
<1> USE DEF Reported, Took, NothingNew
<1>0. /\ TypeOK /\ QueueHoldsNewest
      /\ accepted \in Nat /\ Len(queue) \in Nat /\ QueueSize \in Nat \ {0}
      /\ \A i \in 1 .. Len(queue) : queue[i] \in Nat
  BY AppAssumption, LenProperties, ElementOfSeq DEF OrderInv, TypeOK
<1>1. CASE Report
  <2>1. Fifo!Write(accepted + 1) /\ accepted' = accepted + 1
    BY <1>1 DEF Report
  <2>2. Len(queue') \in {Len(queue), Len(queue) + 1} /\ msg' = msg
    BY <1>0, <2>1, Written
  <2> QED
    BY <1>1, <2>1, <2>2 DEF Report
<1>2. CASE ReaderRead
  <2>1. CASE more'
    <3>1. Len(queue) > 0 /\ Len(queue') = Len(queue) - 1 /\ msg' = queue[1]
      BY <1>0, <1>2, <2>1, Taken, EmptySeq DEF ReaderRead, TypeOK
    <3>2. queue[1] + Len(queue) = accepted + 1
      BY <1>0, <3>1 DEF QueueHoldsNewest
    <3> QED
      BY <1>0, <1>2, <2>1, <3>1, <3>2 DEF ReaderRead, history
  <2>2. CASE ~more'
    BY <1>0, <1>2, <2>2, NotTaken DEF ReaderRead, history
  <2> QED
    BY <2>1, <2>2
<1>3. CASE Restart
  <2>1. Len(queue') = 0
    BY <1>3, EmptySeq DEF Restart
  <2> QED
    BY <1>0, <1>3, <2>1 DEF Restart
<1>4. CASE ReaderStore \/ Reply
  BY <1>4
<1>5. CASE \/ RequestReboot \/ NotifyReader \/ AwaitFlush \/ ReaderAwait \/ ReaderFinish
           \/ ReaderNotifyAll \/ ReaderTimeout \/ SpuriousWakeup \/ UNCHANGED vars
  BY <1>0, <1>5 DEF RequestReboot, NotifyReader, AwaitFlush, ReaderAwait, StartRound, ReaderFinish,
     ReaderNotifyAll, ReaderTimeout, SpuriousWakeup, vars, memory, history
<1> QED
  BY <1>1, <1>2, <1>3, <1>4, <1>5 DEF Next, CallbackStep, ReaderStep

AppInv == OrderInv /\ ReplyInv /\ PromiseInv

LEMMA NextPromise == AppInv /\ [Next]_vars => PromiseInv'
<1> SUFFICES ASSUME AppInv, [Next]_vars PROVE PromiseInv'
  OBVIOUS
<1>0. /\ OrderInv /\ ReplyInv /\ PromiseInv /\ HandInOrder
      /\ accepted \in Nat /\ Len(queue) \in Nat /\ msg \in Nat /\ promised \in Nat
  BY AppAssumption, LenProperties DEF AppInv, OrderInv, TypeOK
<1>1. CASE ReaderStore
  BY <1>0, <1>1 DEF ReaderStore, PromiseInv
<1>2. CASE Reply
  <2>1. UNCHANGED <<queue, msg, reader, accepted>>
    BY <1>2 DEF Reply
  <2>2. CASE promised' = promised
    BY <1>0, <2>1, <2>2 DEF PromiseInv
  <2>3. CASE promised' # promised
    <3>1. promised' = accepted /\ ~late /\ callback = "reply"
      BY <1>2, <2>3 DEF Reply
    <3>2. queue = <<>> /\ reader # "store"
      BY <1>0, <3>1 DEF ReplyInv, HandshakeInv
    <3>3. Len(queue) = 0
      BY <3>2, EmptySeq
    <3> QED
      BY <1>0, <2>1, <3>1, <3>2, <3>3 DEF PromiseInv
  <2> QED
    BY <2>2, <2>3
<1>3. CASE Reported
  BY <1>0, <1>3 DEF Reported, PromiseInv
<1>4. CASE Took
  BY <1>0, <1>4 DEF Took, PromiseInv
<1>5. CASE NothingNew
  BY <1>0, <1>5 DEF NothingNew, PromiseInv
<1> QED
  BY <1>0, <1>1, <1>2, <1>3, <1>4, <1>5, QueueStep

LEMMA AppInvariant == Spec => []AppInv
<1>1. Init => AppInv
  <2> SUFFICES ASSUME Init PROVE PromiseInv
    BY InitOrder, InitReply DEF AppInv
  <2>1. Len(queue) = 0 /\ accepted = 0 /\ promised = 0 /\ reader = "wait"
    BY EmptySeq DEF Init
  <2> QED
    BY <2>1 DEF PromiseInv
<1>2. AppInv /\ [Next]_vars => AppInv'
  BY NextOrder, NextReply, NextPromise DEF AppInv
<1> QED
  BY <1>1, <1>2, PTL DEF Spec

(* A restart after "ready" was said in time loses only what was accepted    *)
(* since: nothing older was pending, whatever the size of the queue.        *)
THEOREM ReadyIsDurable == Spec => ReadySurvivesRestart
<1>1. AppInv /\ [Next]_vars => [\A m \in lost' \ lost : m > promised]_vars
  <2> SUFFICES ASSUME AppInv, Next, NEW m \in lost' \ lost PROVE m > promised
    BY DEF vars, memory, history
  <2>1. Restart
    BY DEF Next, CallbackStep, ReaderStep, Report, RequestReboot, NotifyReader, AwaitFlush,
       Reply, ReaderAwait, ReaderRead, ReaderStore, ReaderFinish, ReaderNotifyAll,
       ReaderTimeout, SpuriousWakeup, history
  <2>2. m \in Pending
    BY <2>1 DEF Restart
  <2>3. /\ TypeOK /\ HandFull /\ QueueHoldsNewest /\ PromiseInv
        /\ accepted \in Nat /\ Len(queue) \in Nat /\ promised \in Nat
        /\ \A i \in 1 .. Len(queue) : queue[i] \in Nat
    BY AppAssumption, LenProperties, ElementOfSeq DEF AppInv, OrderInv, TypeOK
  <2>4. CASE reader = "store" /\ m = msg
    BY <2>3, <2>4 DEF PromiseInv, TypeOK
  <2>5. CASE \E i \in 1 .. Len(queue) : m = queue[i]
    <3>1. PICK i \in 1 .. Len(queue) : m = queue[i]
      BY <2>5
    <3>2. queue[i] + Len(queue) = accepted + i
      BY <2>3 DEF QueueHoldsNewest
    <3> QED
      BY <2>3, <3>1, <3>2 DEF PromiseInv
  <2> QED
    BY <2>2, <2>3, <2>4, <2>5, PendingAccepted
<1> QED
  BY <1>1, AppInvariant, PTL DEF Spec, ReadySurvivesRestart
-----------------------------------------------------------------------------
(* The database. *)
LEMMA NextStore == OrderInv /\ StoreInv /\ [Next]_vars => StoreInv'
<1> SUFFICES ASSUME OrderInv, StoreInv, [Next]_vars PROVE StoreInv'
  OBVIOUS
<1>0. /\ HandInOrder /\ HandFull
      /\ accepted \in Nat /\ Len(queue) \in Nat /\ msg \in Nat /\ msg \in 0 .. accepted
      /\ stored \in Seq(1 .. accepted) /\ Len(stored) \in Nat
      /\ \A i \in 1 .. Len(stored) : stored[i] \in Nat /\ stored[i] <= accepted
  BY AppAssumption, LenProperties, ElementOfSeq DEF OrderInv, TypeOK
<1>1. CASE ReaderStore
  <2>1. reader = "store" /\ reader' # "store" /\ UNCHANGED <<queue, accepted>>
    BY <1>1 DEF ReaderStore
  <2>2. CASE stored' = stored
    BY <1>0, <2>1, <2>2 DEF StoreInv
  <2>3. CASE stored' = Append(stored, msg)
    <3>1. msg \in 1 .. accepted
      BY <1>0, <2>1 DEF HandFull
    <3>2. /\ Len(stored') = Len(stored) + 1
          /\ \A i \in 1 .. Len(stored) : stored'[i] = stored[i]
          /\ stored'[Len(stored) + 1] = msg
      BY <1>0, <2>3, <3>1, AppendProperties
    <3>3. msg + Len(queue) <= accepted
      BY <1>0, <2>1 DEF HandInOrder
    <3>4. \A i \in 1 .. Len(stored) :
            stored[i] \in Nat /\ stored[i] < msg /\ stored[i] + Len(queue) <= accepted
      BY <1>0, <2>1 DEF StoreInv
    <3>5. ASSUME NEW i \in 1 .. Len(stored')
          PROVE  stored'[i] + Len(queue') <= accepted'
      <4>1. UNCHANGED <<queue, accepted>>
        BY <2>1
      <4>2. CASE i = Len(stored) + 1
        BY <3>2, <3>3, <4>1, <4>2
      <4>3. CASE i \in 1 .. Len(stored)
        BY <3>2, <3>4, <4>1, <4>3
      <4> QED
        BY <1>0, <3>2, <4>2, <4>3
    <3>6. ASSUME NEW i \in 1 .. Len(stored'), NEW j \in 1 .. Len(stored'), i < j
          PROVE  stored'[i] < stored'[j]
      <4>1. i \in 1 .. Len(stored) /\ stored'[i] = stored[i]
        BY <1>0, <3>2, <3>6
      <4>2. CASE j = Len(stored) + 1
        BY <3>2, <3>4, <4>1, <4>2
      <4>3. CASE j \in 1 .. Len(stored)
        BY <1>0, <3>2, <3>6, <4>1, <4>3 DEF StoreInv
      <4> QED
        BY <1>0, <3>2, <4>2, <4>3
    <3> QED
      BY <2>1, <3>5, <3>6 DEF StoreInv
  <2> QED
    BY <1>1, <2>2, <2>3 DEF ReaderStore
<1>2. CASE Reply
  BY <1>2 DEF Reply, StoreInv
<1>3. CASE Reported
  BY <1>0, <1>3 DEF Reported, StoreInv
<1>4. CASE Took
  <2>1. \A i \in 1 .. Len(stored) :
          /\ stored[i] + Len(queue) <= accepted /\ stored[i] + Len(queue') <= accepted
          /\ stored[i] < msg'
    BY <1>0, <1>4 DEF Took, StoreInv
  <2> QED
    BY <1>4, <2>1 DEF Took, StoreInv
<1>5. CASE NothingNew
  <2>1. \A i \in 1 .. Len(stored) : stored[i] + Len(queue') <= accepted
    BY <1>0, <1>5 DEF NothingNew, StoreInv
  <2> QED
    BY <1>5, <2>1 DEF NothingNew, StoreInv
<1> QED
  BY <1>1, <1>2, <1>3, <1>4, <1>5, QueueStep

(* Messages reach the database in the order they were reported, none twice. *)
THEOREM WrittenInOrder == Spec => []StoredInOrder
<1>1. Init => StoreInv
  <2> SUFFICES ASSUME Init PROVE StoreInv
    OBVIOUS
  <2>1. Len(stored) = 0 /\ reader = "wait"
    BY EmptySeq DEF Init
  <2> QED
    BY <2>1 DEF StoreInv
<1>2. OrderInv /\ StoreInv => StoredInOrder
  <2> SUFFICES ASSUME OrderInv, StoreInv, NEW m \in Pending, NEW i \in 1 .. Len(stored)
               PROVE  stored[i] < m
    BY DEF StoredInOrder, StoreInv
  <2>1. /\ TypeOK /\ HandFull /\ QueueHoldsNewest
        /\ accepted \in Nat /\ Len(queue) \in Nat /\ stored[i] \in Nat
        /\ \A k \in 1 .. Len(queue) : queue[k] \in Nat
    BY AppAssumption, LenProperties, ElementOfSeq DEF OrderInv, TypeOK
  <2>2. CASE reader = "store" /\ m = msg
    BY <2>2 DEF StoreInv
  <2>3. CASE \E k \in 1 .. Len(queue) : m = queue[k]
    <3>1. PICK k \in 1 .. Len(queue) : m = queue[k]
      BY <2>3
    <3>2. queue[k] + Len(queue) = accepted + k /\ stored[i] + Len(queue) <= accepted
      BY <2>1 DEF QueueHoldsNewest, StoreInv
    <3> QED
      BY <2>1, <3>1, <3>2
  <2> QED
    BY <2>1, <2>2, <2>3, PendingAccepted
<1> QED
  BY <1>1, <1>2, InitOrder, NextOrder, NextStore, PTL DEF Spec
-----------------------------------------------------------------------------
(***************************************************************************)
(* The fate of every message.  The queue is the interval of the newest     *)
(* numbers, so every step moves at most one message, or all of memory,     *)
(* from one fate to another.                                               *)
(***************************************************************************)
Accounted(a, P, S, F, O, L) ==
  /\ P \cup S \cup F \cup O \cup L = 1 .. a
  /\ P \cap S = {} /\ P \cap F = {} /\ P \cap O = {} /\ P \cap L = {}
  /\ S \cap F = {} /\ S \cap O = {} /\ S \cap L = {}
  /\ F \cap O = {} /\ F \cap L = {} /\ O \cap L = {}

AccountInv == Accounted(accepted, Pending, Range(stored), failed, overwritten, lost)

LEMMA AccountMeans == AccountInv => EveryMessageAccounted
<1> SUFFICES ASSUME AccountInv PROVE EveryMessageAccounted
  OBVIOUS
<1>1. DOMAIN Fates = 1 .. 5
  BY DEF Fates
<1>2. /\ Fates[1] = Pending /\ Fates[2] = Range(stored) /\ Fates[3] = failed
      /\ Fates[4] = overwritten /\ Fates[5] = lost
  BY DEF Fates
<1> DEFINE f == Fates
<1> HIDE DEF f
<1>3. Range(f) = {f[1], f[2], f[3], f[4], f[5]}
  <2>1. DOMAIN f = {1, 2, 3, 4, 5}
    BY <1>1 DEF f
  <2> QED  BY <2>1 DEF Range
<1>4. UNION Range(f) = f[1] \cup f[2] \cup f[3] \cup f[4] \cup f[5]
  BY <1>3
<1>5. UNION Range(Fates) = 1 .. accepted
  BY <1>2, <1>4 DEF f, AccountInv, Accounted
<1>6. ASSUME NEW i \in 1 .. 5, NEW j \in 1 .. 5, i # j PROVE f[i] \cap f[j] = {}
  <2>1. /\ f[1] \cap f[2] = {} /\ f[1] \cap f[3] = {} /\ f[1] \cap f[4] = {}
        /\ f[1] \cap f[5] = {} /\ f[2] \cap f[3] = {} /\ f[2] \cap f[4] = {}
        /\ f[2] \cap f[5] = {} /\ f[3] \cap f[4] = {} /\ f[3] \cap f[5] = {}
        /\ f[4] \cap f[5] = {}
    BY <1>2 DEF f, AccountInv, Accounted
  <2>2. i \in {1, 2, 3, 4, 5} /\ j \in {1, 2, 3, 4, 5}
    OBVIOUS
  <2> QED  BY <1>6, <2>1, <2>2
<1> QED  BY <1>1, <1>5, <1>6 DEF f, EveryMessageAccounted

(* A queue without gaps is an interval that ends with the newest message. *)
LEMMA IntervalQueue ==
  ASSUME NEW a \in Nat, NEW q \in Seq(1 .. a),
         \A i \in 1 .. Len(q) : q[i] + Len(q) = a + i
  PROVE  Range(q) = (a - Len(q) + 1) .. a
<1>1. /\ Len(q) \in Nat /\ DOMAIN q = 1 .. Len(q)
      /\ \A i \in 1 .. Len(q) : q[i] \in Nat /\ q[i] + Len(q) = a + i
  BY LenProperties, ElementOfSeq
<1>2. \A m \in Range(q) : m \in (a - Len(q) + 1) .. a
  BY <1>1 DEF Range
<1>3. ASSUME NEW m \in (a - Len(q) + 1) .. a PROVE m \in Range(q)
  <2>1. PICK i \in 1 .. Len(q) : i + a = m + Len(q)
    <3>1. m + Len(q) - a \in 1 .. Len(q) /\ (m + Len(q) - a) + a = m + Len(q)
      BY <1>1
    <3> QED  BY <3>1
  <2>2. q[i] = m
    BY <1>1, <2>1
  <2> QED  BY <1>1, <2>1, <2>2 DEF Range
<1> QED  BY <1>2, <1>3

LEMMA IntervalGrows ==
  ASSUME NEW a \in Nat, NEW l \in Nat
  PROVE  ((a + 1) - (l + 1) + 1) .. (a + 1) = ((a - l + 1) .. a) \cup {a + 1}
  OBVIOUS

(* One message is new; one changes its fate; all of memory does. *)
LEMMA OneNew ==
  ASSUME NEW a \in Nat, NEW P, NEW S, NEW F, NEW O, NEW L, Accounted(a, P, S, F, O, L)
  PROVE  Accounted(a + 1, P \cup {a + 1}, S, F, O, L)
<1>1. a + 1 \notin 1 .. a /\ 1 .. a + 1 = (1 .. a) \cup {a + 1}
  OBVIOUS
<1>2. a + 1 \notin S /\ a + 1 \notin F /\ a + 1 \notin O /\ a + 1 \notin L
  BY <1>1 DEF Accounted
<1> QED  BY <1>1, <1>2 DEF Accounted

LEMMA OneMoved ==
  ASSUME NEW a, NEW P, NEW S, NEW F, NEW O, NEW L, Accounted(a, P, S, F, O, L),
         NEW m \in P
  PROVE  /\ Accounted(a, P \ {m}, S \cup {m}, F, O, L)
         /\ Accounted(a, P \ {m}, S, F \cup {m}, O, L)
         /\ Accounted(a, P \ {m}, S, F, O \cup {m}, L)
  BY DEF Accounted

LEMMA AllLost ==
  ASSUME NEW a, NEW P, NEW S, NEW F, NEW O, NEW L, Accounted(a, P, S, F, O, L)
  PROVE  Accounted(a, {}, S, F, O, L \cup P)
  BY DEF Accounted

LEMMA EmptyRange == Range(<<>>) = {}
  BY DEF Range

LEMMA InitAccount == Init => AccountInv
  BY EmptyRange DEF Init, AccountInv, Accounted, Pending

LEMMA NextAccount == OrderInv /\ AccountInv /\ [Next]_vars => AccountInv'
<1> SUFFICES ASSUME OrderInv, AccountInv, [Next]_vars PROVE AccountInv'
  OBVIOUS
<1>n. OrderInv'
  BY NextOrder
<1>0. /\ TypeOK
      /\ accepted \in Nat /\ Len(queue) \in Nat /\ QueueSize \in Nat \ {0} /\ msg \in Nat
  BY AppAssumption, LenProperties DEF OrderInv, TypeOK
<1>a. /\ Range(queue) = (accepted - Len(queue) + 1) .. accepted
      /\ Range(queue)' = (accepted' - Len(queue') + 1) .. accepted'
  <2>1. /\ accepted \in Nat /\ queue \in Seq(1 .. accepted)
        /\ \A i \in 1 .. Len(queue) : queue[i] + Len(queue) = accepted + i
    BY AppAssumption DEF OrderInv, TypeOK, QueueHoldsNewest
  <2>2. /\ accepted' \in Nat /\ queue' \in Seq(1 .. accepted')
        /\ \A i \in 1 .. Len(queue') : queue'[i] + Len(queue') = accepted' + i
    BY <1>n, AppAssumption DEF OrderInv, TypeOK, QueueHoldsNewest
  <2> QED  BY <2>1, <2>2, IntervalQueue
<1> DEFINE Kept == UNCHANGED <<accepted, Pending, stored, failed, overwritten, lost>>
<1>k. Kept => AccountInv'
  BY DEF AccountInv, Accounted
<1>m. UNCHANGED <<queue, msg, accepted, stored, failed, overwritten, lost>>
        /\ (reader' = "store" <=> reader = "store") => Kept
  BY DEF Pending
<1> HIDE DEF Kept
<1>1. CASE Report
  <2>1. /\ Fifo!Write(accepted + 1) /\ accepted' = accepted + 1
        /\ overwritten' = IF Len(queue) = QueueSize
                          THEN overwritten \cup {Head(queue)} ELSE overwritten
        /\ UNCHANGED <<reader, stored, failed, lost>>
    BY <1>1 DEF Report
  <2>2. /\ Len(queue') = IF Len(queue) = QueueSize THEN Len(queue) ELSE Len(queue) + 1
        /\ msg' = msg
    BY <1>0, <2>1, Written
  <2>3. CASE Len(queue) # QueueSize
    <3>1. Range(queue)' = Range(queue) \cup {accepted + 1}
      <4>1. accepted' = accepted + 1 /\ Len(queue') = Len(queue) + 1
        BY <2>1, <2>2, <2>3
      <4> QED  BY <1>0, <1>a, <4>1, IntervalGrows
    <3>2. Pending' = Pending \cup {accepted + 1}
      BY <2>1, <2>2, <3>1 DEF Pending
    <3> QED  BY <1>0, <2>1, <2>3, <3>2, OneNew DEF AccountInv
  <2>4. CASE Len(queue) = QueueSize
    <3> DEFINE h == accepted - Len(queue) + 1
    <3>1. Head(queue) = h /\ h \in Range(queue)
      <4>1. queue \in Seq(1 .. accepted) /\ queue # <<>>
        BY <1>0, <2>4, EmptySeq DEF TypeOK
      <4>2. Head(queue) = queue[1]
        BY <4>1, HeadTailProperties
      <4>3. queue[1] \in Nat /\ queue[1] + Len(queue) = accepted + 1
        BY <1>0, <2>4, <4>1, ElementOfSeq DEF OrderInv, QueueHoldsNewest
      <4> QED  BY <1>0, <1>a, <2>4, <4>2, <4>3
    <3>2. Range(queue)' = (Range(queue) \ {h}) \cup {accepted + 1}
      BY <1>0, <1>a, <2>1, <2>2, <2>4
    <3>3. reader = "store" => msg # h
      BY <1>0 DEF OrderInv, HandInOrder
    <3>4. h # accepted + 1 /\ h \in Pending
      BY <1>0, <2>4, <3>1 DEF Pending
    <3> HIDE DEF h
    <3>5. Pending' = (Pending \ {h}) \cup {accepted + 1}
      BY <2>1, <2>2, <3>2, <3>3 DEF Pending
    <3>6. Accounted(accepted, Pending \ {h}, Range(stored), failed, overwritten \cup {h}, lost)
      BY <3>4, OneMoved DEF AccountInv
    <3>7. Accounted(accepted + 1, (Pending \ {h}) \cup {accepted + 1}, Range(stored),
                    failed, overwritten \cup {h}, lost)
      BY <1>0, <3>6, OneNew
    <3> QED  BY <2>1, <2>4, <3>1, <3>5, <3>7 DEF AccountInv
  <2> QED  BY <2>3, <2>4
<1>2. CASE ReaderRead
  <2>1. /\ Fifo!Read /\ reader = "drain"
        /\ reader' = IF more' THEN "store" ELSE "finish"
        /\ UNCHANGED <<accepted, stored, failed, overwritten, lost>>
    BY <1>2 DEF ReaderRead, history
  <2>2. CASE more'
    <3>1. Len(queue') = Len(queue) - 1 /\ msg' = queue[1] /\ queue # <<>>
      BY <1>0, <2>1, <2>2, Taken
    <3>2. Len(queue) # 0 /\ queue[1] \in Nat
      BY <1>0, <3>1, EmptySeq, ElementOfSeq DEF TypeOK
    <3>3. queue[1] = accepted - Len(queue) + 1
      BY <1>0, <3>2 DEF OrderInv, QueueHoldsNewest
    <3>4. Range(queue) = Range(queue)' \cup {msg'}
      BY <1>0, <1>a, <2>1, <3>1, <3>2, <3>3
    <3>5. Pending' = Pending
      BY <2>1, <2>2, <3>4 DEF Pending
    <3> QED  BY <1>k, <2>1, <3>5 DEF Kept
  <2>3. CASE ~more'
    <3>1. queue' = queue
      BY <2>1, <2>3, NotTaken
    <3>2. Pending' = Pending
      BY <2>1, <2>3, <3>1 DEF Pending
    <3> QED  BY <1>k, <2>1, <3>2 DEF Kept
  <2> QED  BY <2>2, <2>3
<1>3. CASE ReaderStore
  <2>1. /\ reader = "store" /\ reader' = "drain"
        /\ UNCHANGED <<queue, msg, accepted, overwritten, lost>>
    BY <1>3 DEF ReaderStore
  <2>2. msg \notin Range(queue)
    BY <1>0, <1>a, <2>1 DEF OrderInv, HandInOrder
  <2>3. Pending' = Pending \ {msg} /\ msg \in Pending
    BY <2>1, <2>2 DEF Pending
  <2>4. CASE stored' = Append(stored, msg) /\ UNCHANGED failed
    <3>1. msg \in 1 .. accepted
      BY <1>0, <2>1 DEF OrderInv, HandFull, TypeOK
    <3>2. Range(stored') = Range(stored) \cup {msg}
      <4>1. /\ stored' \in Seq(1 .. accepted) /\ Len(stored') = Len(stored) + 1
            /\ \A k \in 1 .. Len(stored) : stored'[k] = stored[k]
            /\ stored'[Len(stored) + 1] = msg
        BY <1>0, <2>4, <3>1, AppendProperties DEF TypeOK
      <4>2. /\ Len(stored) \in Nat /\ DOMAIN stored = 1 .. Len(stored)
            /\ DOMAIN stored' = 1 .. Len(stored) + 1
        BY <1>0, <4>1, LenProperties DEF TypeOK
      <4>3. 1 .. Len(stored) + 1 = (1 .. Len(stored)) \cup {Len(stored) + 1}
        BY <4>2
      <4>4. \A x \in Range(stored') : x \in Range(stored) \cup {msg}
        BY <4>1, <4>2, <4>3 DEF Range
      <4>5. \A x \in Range(stored) \cup {msg} : x \in Range(stored')
        BY <4>1, <4>2, <4>3 DEF Range
      <4> QED  BY <4>4, <4>5
    <3>3. Accounted(accepted, Pending \ {msg}, Range(stored) \cup {msg}, failed,
                    overwritten, lost)
      BY <2>3, OneMoved DEF AccountInv
    <3> QED  BY <2>1, <2>3, <2>4, <3>2, <3>3 DEF AccountInv
  <2>5. CASE failed' = failed \cup {msg} /\ UNCHANGED stored
    BY <2>1, <2>3, <2>5, OneMoved DEF AccountInv
  <2> QED  BY <1>3, <2>4, <2>5 DEF ReaderStore
<1>4. CASE Restart
  <2>1. /\ Pending' = {}
        /\ lost' = lost \cup Pending
        /\ UNCHANGED <<stored, accepted, failed, overwritten>>
    BY <1>4, EmptyRange DEF Restart, Pending
  <2> QED  BY <2>1, AllLost DEF AccountInv
<1>5. CASE ReaderTimeout \/ ReaderAwait
  <2>1. /\ reader = "wait" /\ reader' # "store"
        /\ UNCHANGED <<queue, accepted, stored, failed, overwritten, lost>>
    BY <1>5 DEF ReaderTimeout, ReaderAwait, StartRound, history
  <2>2. Pending' = Pending
    BY <2>1 DEF Pending
  <2> QED  BY <1>k, <2>1, <2>2 DEF Kept
<1>6. CASE RequestReboot
  BY <1>6, <1>k, <1>m DEF RequestReboot
<1>7. CASE CallbackStep
  BY <1>7, <1>k, <1>m DEF CallbackStep, NotifyReader, AwaitFlush, Reply, history
<1>8. CASE ReaderFinish \/ ReaderNotifyAll
  BY <1>8, <1>k, <1>m DEF ReaderFinish, ReaderNotifyAll, history
<1>9. CASE SpuriousWakeup
  BY <1>9, <1>k, <1>m DEF SpuriousWakeup, history
<1>10. CASE UNCHANGED vars
  BY <1>10, <1>k, <1>m DEF vars, memory, history
<1> QED  BY <1>1, <1>2, <1>3, <1>4, <1>5, <1>6, <1>7, <1>8, <1>9, <1>10
         DEF Next, ReaderStep

(* No accepted report disappears without a trace, and none is in two        *)
(* places: each is pending, stored, failed, overwritten or lost.            *)
THEOREM MessagesAccountedFor == Spec => []EveryMessageAccounted
  BY InitOrder, NextOrder, InitAccount, NextAccount, AccountMeans, PTL DEF Spec
-----------------------------------------------------------------------------
(* A request is not forgotten before its reply, and only who waits sleeps. *)
SleepInv ==
  /\ TypeOK /\ HandFull /\ NoLostWakeup
  /\ callback \in {"notify", "await"} => needFlush \/ flushCompleted
  /\ "callback" \in waiting => callback = "await"
  /\ "reader" \in waiting => reader = "wait"

LEMMA InitSleep == Init => SleepInv
<1> SUFFICES ASSUME Init PROVE SleepInv
  OBVIOUS
<1> QED  BY InitTypeOK DEF Init, SleepInv, NoLostWakeup

LEMMA NextSleep == SleepInv /\ [Next]_vars => SleepInv'
<1> SUFFICES ASSUME SleepInv, [Next]_vars PROVE SleepInv'
  OBVIOUS
<1>0. (TypeOK /\ HandFull)'
  BY NextTypeOK DEF SleepInv
<1> USE DEF SleepInv, NoLostWakeup
<1>1. CASE Report
  BY <1>0, <1>1 DEF Report
<1>2. CASE RequestReboot
  BY <1>0, <1>2 DEF RequestReboot
<1>3. CASE NotifyReader
  BY <1>0, <1>3 DEF NotifyReader
<1>4. CASE AwaitFlush
  BY <1>0, <1>4 DEF AwaitFlush
<1>5. CASE Reply
  BY <1>0, <1>5 DEF Reply
<1>6. CASE ReaderAwait
  BY <1>0, <1>6 DEF ReaderAwait, StartRound
<1>7. CASE ReaderRead
  BY <1>0, <1>7 DEF ReaderRead
<1>8. CASE ReaderStore
  BY <1>0, <1>8 DEF ReaderStore
<1>9. CASE ReaderFinish
  BY <1>0, <1>9 DEF ReaderFinish
<1>10. CASE ReaderNotifyAll
  BY <1>0, <1>10 DEF ReaderNotifyAll
<1>11. CASE ReaderTimeout
  BY <1>0, <1>11 DEF ReaderTimeout, StartRound
<1>12. CASE SpuriousWakeup
  BY <1>0, <1>12 DEF SpuriousWakeup
<1>13. CASE Restart
  BY <1>0, <1>13 DEF Restart
<1>14. CASE UNCHANGED vars
  BY <1>0, <1>14 DEF vars, memory
<1> QED
  BY <1>1, <1>2, <1>3, <1>4, <1>5, <1>6, <1>7, <1>8, <1>9, <1>10, <1>11, <1>12,
     <1>13, <1>14 DEF Next, CallbackStep, ReaderStep

(* Callback and reader never sleep on each other, whatever the timer,       *)
(* spurious wake-ups and restarts do: the safety half of "every request is  *)
(* answered".                                                               *)
THEOREM WakeupsArrive == Spec => []NoLostWakeup
<1>1. SleepInv => NoLostWakeup
  BY DEF SleepInv
<1> QED  BY <1>1, InitSleep, NextSleep, PTL DEF Spec
=============================================================================
