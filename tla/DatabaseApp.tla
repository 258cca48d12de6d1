---------------------------- MODULE DatabaseApp ----------------------------
(***************************************************************************)
(* The two threads of main.cpp that share the message queue.               *)
(*                                                                         *)
(*   - The callback runs on libmosquitto's network thread, one message at  *)
(*     a time: a data report is put in the queue; a reboot request sets    *)
(*     g_need_flush, wakes the reader, waits for g_flush_completed without *)
(*     a time limit and only then publishes "ready".                       *)
(*   - The reader waits up to 60 s on g_cv, drains the queue into the      *)
(*     database, resets the flags and notifies.                            *)
(*                                                                         *)
(* A section under g_mutex or the queue's mutex is one action.  g_cv is    *)
(* the set of threads blocked on it; a woken thread evaluates its          *)
(* predicate again.  The process may die at any moment (power, or the init *)
(* script's stop) and come back with only the database.                    *)
(*                                                                         *)
(* A message is the number it was accepted under; 0 is the                 *)
(* default-constructed message.                                            *)
(***************************************************************************)
EXTENDS Naturals, Sequences, Functions

CONSTANTS QueueSize,     \* mq's capacity (100 in main)
          WritesMayFail, \* may writeMessage() return false?
          MaxReports,    \* bound: data reports accepted
          MaxReboots,    \* bound: reboot requests
          MaxRestarts    \* bound: process restarts

ASSUME AppAssumption ==
  /\ QueueSize \in Nat \ {0}
  /\ WritesMayFail \in BOOLEAN
  /\ MaxReports \in Nat
  /\ MaxReboots \in Nat
  /\ MaxRestarts \in Nat

VARIABLES
  queue,          \* mq, oldest message first
  msg,            \* the reader's local message
  more,           \* what its last mq.read() returned
  needFlush,      \* g_need_flush
  flushCompleted, \* g_flush_completed
  waiting,        \* the threads blocked on g_cv
  reader,         \* where the reader thread is
  callback,       \* where the callback is
  stored,         \* the database: messages in the order they were written
  \* What happened so far; no action reads these, except for the bounds.
  accepted,       \* how many reports were put in the queue
  failed,         \* messages whose write failed
  overwritten,    \* messages overwritten in a full queue
  lost,           \* messages that were in memory when the process died
  late,           \* did the last request find the reader past its last read?
  promised,       \* messages accepted when "ready" was last said in time
  reboots,
  restarts

memory == <<queue, msg, more, needFlush, flushCompleted, waiting, reader, callback>>
history == <<failed, overwritten, lost, late, promised, reboots, restarts>>
vars == <<memory, stored, accepted, history>>

Fifo == INSTANCE BoundedFifo
          WITH Msg <- Nat, NoMsg <- 0, Size <- QueueSize,
               items <- queue, got <- msg, ok <- more

Pending == Range(queue) \cup (IF reader = "store" THEN {msg} ELSE {})

Init ==
  /\ queue = <<>>
  /\ msg = 0
  /\ more = FALSE
  /\ needFlush = FALSE /\ flushCompleted = FALSE
  /\ waiting = {}
  /\ reader = "wait" /\ callback = "idle"
  /\ stored = <<>>
  /\ accepted = 0
  /\ failed = {} /\ overwritten = {} /\ lost = {}
  /\ late = FALSE
  /\ promised = 0
  /\ reboots = 0 /\ restarts = 0
-----------------------------------------------------------------------------
(* The callback.  Every other message it handles (keepAlive, a payload that *)
(* is rejected, another topic) leaves all of this state alone.              *)
ReportDropsNewest ==
  /\ callback = "idle"
  /\ accepted < MaxReports
  /\ accepted' = accepted + 1
  /\ IF Len(queue) = QueueSize
     THEN queue' = queue /\ overwritten' = overwritten \cup {accepted + 1}
     ELSE queue' = Append(queue, accepted + 1) /\ UNCHANGED overwritten
  /\ UNCHANGED <<msg, more, needFlush, flushCompleted, waiting, reader, callback,
                 stored, failed, lost, late, promised, reboots, restarts>>

ReportUnbounded ==
  /\ callback = "idle"
  /\ accepted < MaxReports
  /\ accepted' = accepted + 1
  /\ queue' = Append(queue, accepted + 1)
  /\ UNCHANGED <<msg, more, needFlush, flushCompleted, waiting, reader, callback,
                 stored, history>>

Report ==
  /\ callback = "idle"
  /\ accepted < MaxReports
  /\ accepted' = accepted + 1
  /\ Fifo!Write(accepted + 1)
  /\ overwritten' = IF Len(queue) = QueueSize
                    THEN overwritten \cup {Head(queue)} ELSE overwritten
  /\ UNCHANGED <<needFlush, flushCompleted, waiting, reader, callback,
                 stored, failed, lost, late, promised, reboots, restarts>>

RequestKeepsCompleted ==
  /\ callback = "idle"
  /\ reboots < MaxReboots
  /\ reboots' = reboots + 1
  /\ needFlush' = TRUE
  /\ late' = (reader = "finish")
  /\ callback' = "notify"
  /\ UNCHANGED <<queue, msg, more, flushCompleted, waiting, reader, stored,
                 accepted, failed, overwritten, lost, promised, restarts>>

(* A reboot request with a valid token: raise the flags under g_mutex. *)
RequestReboot ==
  /\ callback = "idle"
  /\ reboots < MaxReboots
  /\ reboots' = reboots + 1
  /\ needFlush' = TRUE
  /\ flushCompleted' = FALSE
  /\ late' = (reader = "finish")
  /\ callback' = "notify"
  /\ UNCHANGED <<queue, msg, more, waiting, reader, stored,
                 accepted, failed, overwritten, lost, promised, restarts>>

NotifyNobody ==
  /\ callback = "notify"
  /\ callback' = "await"
  /\ UNCHANGED <<queue, msg, more, needFlush, flushCompleted, waiting, reader,
                 stored, accepted, history>>

(* notify_one: the callback is not waiting, so it can only be the reader. *)
NotifyReader ==
  /\ callback = "notify"
  /\ waiting' = waiting \ {"reader"}
  /\ callback' = "await"
  /\ UNCHANGED <<queue, msg, more, needFlush, flushCompleted, reader,
                 stored, accepted, history>>

AwaitAnyWakeup ==
  /\ callback = "await"
  /\ callback' = "reply"
  /\ UNCHANGED <<queue, msg, more, needFlush, flushCompleted, waiting, reader,
                 stored, accepted, history>>

(* g_cv.wait: first evaluation of the predicate, and every later one. *)
AwaitFlush ==
  /\ callback = "await" /\ "callback" \notin waiting
  /\ \/ flushCompleted /\ callback' = "reply" /\ UNCHANGED waiting
     \/ ~flushCompleted /\ waiting' = waiting \cup {"callback"} /\ UNCHANGED callback
  /\ UNCHANGED <<queue, msg, more, needFlush, flushCompleted, reader,
                 stored, accepted, history>>

(* "ready" is published, or publish() fails and only the log says so; the   *)
(* callback returns either way.                                             *)
Reply ==
  /\ callback = "reply"
  /\ callback' = "idle"
  /\ promised' \in {promised, IF late THEN promised ELSE accepted}
  /\ UNCHANGED <<queue, msg, more, needFlush, flushCompleted, waiting, reader,
                 stored, accepted, failed, overwritten, lost, late, reboots, restarts>>
-----------------------------------------------------------------------------
(* The reader. *)

StartRound == reader' = "drain" /\ msg' = 0

(* The test before wait_for and its predicate, evaluated under g_mutex. *)
ReaderAwait ==
  /\ reader = "wait" /\ "reader" \notin waiting
  /\ \/ needFlush /\ StartRound /\ UNCHANGED waiting
     \/ ~needFlush /\ waiting' = waiting \cup {"reader"} /\ UNCHANGED <<reader, msg>>
  /\ UNCHANGED <<queue, more, needFlush, flushCompleted, callback,
                 stored, accepted, history>>

TimeoutWaitsAgain ==
  /\ reader = "wait" /\ "reader" \in waiting
  /\ waiting' = waiting \ {"reader"}
  /\ UNCHANGED <<queue, msg, more, needFlush, flushCompleted, reader, callback,
                 stored, accepted, history>>

(* 60 s have passed: the round starts whatever the predicate says. *)
ReaderTimeout ==
  /\ reader = "wait" /\ "reader" \in waiting
  /\ waiting' = waiting \ {"reader"}
  /\ StartRound
  /\ UNCHANGED <<queue, more, needFlush, flushCompleted, callback,
                 stored, accepted, history>>

ReaderRead ==
  /\ reader = "drain"
  /\ Fifo!Read
  /\ reader' = IF more' THEN "store" ELSE "finish"
  /\ UNCHANGED <<needFlush, flushCompleted, waiting, callback,
                 stored, accepted, history>>

StoreRequeues ==
  /\ reader = "store"
  /\ reader' = "drain"
  /\ \/ stored' = Append(stored, msg) /\ UNCHANGED queue
     \/ WritesMayFail /\ Len(queue) < QueueSize /\ queue' = Append(queue, msg)
        /\ UNCHANGED stored
  /\ UNCHANGED <<msg, more, needFlush, flushCompleted, waiting, callback,
                 accepted, history>>

(* writeMessage(): a failure is logged and the message is dropped. *)
ReaderStore ==
  /\ reader = "store"
  /\ reader' = "drain"
  /\ \/ stored' = Append(stored, msg) /\ UNCHANGED failed
     \/ WritesMayFail /\ failed' = failed \cup {msg} /\ UNCHANGED stored
  /\ UNCHANGED <<queue, msg, more, needFlush, flushCompleted, waiting, callback,
                 accepted, overwritten, lost, late, promised, reboots, restarts>>

FinishClears ==
  /\ reader = "finish"
  /\ queue' = <<>>
  /\ needFlush' = FALSE
  /\ flushCompleted' = TRUE
  /\ reader' = "notify"
  /\ UNCHANGED <<msg, more, waiting, callback, stored, accepted, history>>

(* The round is over: both flags, under g_mutex. *)
ReaderFinish ==
  /\ reader = "finish"
  /\ needFlush' = FALSE
  /\ flushCompleted' = TRUE
  /\ reader' = "notify"
  /\ UNCHANGED <<queue, msg, more, waiting, callback, stored, accepted, history>>

ReaderNotifyAll ==
  /\ reader = "notify"
  /\ waiting' = {}
  /\ reader' = "wait"
  /\ UNCHANGED <<queue, msg, more, needFlush, flushCompleted, callback,
                 stored, accepted, history>>
(* wait and wait_for may return without a notification. *)
SpuriousWakeup ==
  /\ \E t \in waiting : waiting' = waiting \ {t}
  /\ UNCHANGED <<queue, msg, more, needFlush, flushCompleted, reader, callback,
                 stored, accepted, history>>
-----------------------------------------------------------------------------
(* The process dies and starts again; the database survives. *)
Restart ==
  /\ restarts < MaxRestarts
  /\ restarts' = restarts + 1
  /\ lost' = lost \cup Pending
  /\ queue' = <<>>
  /\ msg' = 0
  /\ more' = FALSE
  /\ needFlush' = FALSE /\ flushCompleted' = FALSE
  /\ waiting' = {}
  /\ reader' = "wait" /\ callback' = "idle"
  /\ UNCHANGED <<stored, accepted, failed, overwritten, late, promised, reboots>>

CallbackStep == NotifyReader \/ AwaitFlush \/ Reply
ReaderStep ==
  ReaderAwait \/ ReaderRead \/ ReaderStore \/ ReaderFinish \/ ReaderNotifyAll

Next ==
  \/ Report
  \/ RequestReboot
  \/ CallbackStep
  \/ ReaderStep
  \/ ReaderTimeout
  \/ SpuriousWakeup
  \/ Restart

Spec == Init /\ [][Next]_vars

(* Both threads keep running.  wait_for keeps its deadline across wake-ups, *)
(* so a reader that waits again and again times out in the end: strong      *)
(* fairness.  Nothing makes reports, requests, spurious wake-ups or         *)
(* restarts happen.                                                         *)
FairSpec ==
  Spec /\ WF_vars(CallbackStep) /\ WF_vars(ReaderStep) /\ SF_vars(ReaderTimeout)
-----------------------------------------------------------------------------
(* Types, and the bound on the queue. *)
TypeOK ==
  /\ queue \in Seq(1 .. accepted) /\ Len(queue) <= QueueSize
  /\ msg \in 0 .. accepted
  /\ more \in BOOLEAN
  /\ needFlush \in BOOLEAN /\ flushCompleted \in BOOLEAN
  /\ waiting \subseteq {"reader", "callback"}
  /\ reader \in {"wait", "drain", "store", "finish", "notify"}
  /\ callback \in {"idle", "notify", "await", "reply"}
  /\ stored \in Seq(1 .. accepted)
  /\ accepted \in 0 .. MaxReports
  /\ failed \subseteq 1 .. accepted
  /\ overwritten \subseteq 1 .. accepted
  /\ lost \subseteq 1 .. accepted
  /\ late \in BOOLEAN
  /\ promised \in 0 .. accepted
  /\ reboots \in 0 .. MaxReboots
  /\ restarts \in 0 .. MaxRestarts

(* The queue holds exactly the newest messages accepted, without a gap:     *)
(* only the oldest give way to a write in a full queue or to the reader.    *)
QueueHoldsNewest ==
  \A i \in 1 .. Len(queue) : queue[i] + Len(queue) = accepted + i

(* The database receives messages in the order they were reported and none  *)
(* twice, and everything it has is older than what is still pending.        *)
StoredInOrder ==
  /\ \A i, j \in 1 .. Len(stored) : i < j => stored[i] < stored[j]
  /\ \A m \in Pending, i \in 1 .. Len(stored) : stored[i] < m

(* Every accepted message has exactly one fate: pending, stored, dropped    *)
(* after a failed write, overwritten, or lost with the process.             *)
Fates == <<Pending, Range(stored), failed, overwritten, lost>>
EveryMessageAccounted ==
  /\ UNION Range(Fates) = 1 .. accepted
  /\ \A i, j \in DOMAIN Fates : i # j => Fates[i] \cap Fates[j] = {}

(* "ready" is said only when nothing is pending, unless the request came    *)
(* after the reader's last, empty read of a round and before it set the     *)
(* flags (main.cpp:277 to 301).                                             *)
ReplyMeansDrained == callback = "reply" /\ ~late => Pending = {}

(* Once "ready" was said in time, a restart loses no message accepted       *)
(* before it: what httpserver relies on when it reboots the device.         *)
ReadySurvivesRestart == [][\A m \in lost' \ lost : m > promised]_vars

(* No wake-up is lost (main.cpp:198, 203, 268 and 306): the callback sleeps *)
(* only while a round is due that will notify it, or about to, and a reader *)
(* who sleeps through a request is still to be notified of it.  So the two  *)
(* never sleep on each other, and no request waits for the 60 s.            *)
NoLostWakeup ==
  /\ "callback" \in waiting => needFlush \/ reader = "notify"
  /\ "reader" \in waiting /\ needFlush => callback = "notify"

(* Every report leaves memory, if need be at the next timeout. *)
ReportsProcessed == \A m \in 1 .. MaxReports : m \in Pending ~> m \notin Pending

(* What main.cpp:200 says of the wait before the response: processing is    *)
(* complete, so nothing accepted earlier is still in the queue.             *)
ReadyMeansDrained == callback = "reply" => Pending = {}
=============================================================================
