--------------------------- MODULE DatabaseService ---------------------------
(***************************************************************************)
(* The whole way of a report: the two threads of main.cpp over the ring of *)
(* MessageQueue and the statements of DbManager, in place of the FIFO and  *)
(* the one-step writeMessage() of DatabaseApp.  Any statement may fail,    *)
(* and the process may die between any two of them.                        *)
(*                                                                         *)
(* The id of a message is the number it was accepted under.  Nobody else   *)
(* uses the databases, so DbManager's client stays idle.                   *)
(***************************************************************************)
EXTENDS Naturals, Sequences, FiniteSets

CONSTANTS QueueSize, MaxChannels, MaxTables, Dates, ListedDates,
          Bodies,      \* records: channel, date, regs of a report
          MaxReports,  \* bound: data reports accepted
          MaxReboots,  \* bound: reboot requests
          MaxRestarts, \* bound: process restarts
          MaxFaults    \* bound: failed statements and restarts

ASSUME ServiceAssumption ==
  /\ {QueueSize, MaxTables} \subseteq Nat \ {0}
  /\ Dates \subseteq Nat \ {0} /\ ListedDates \subseteq Dates /\ IsFiniteSet(Dates)
  /\ Bodies \subseteq [channel : Nat, date : Dates \cup {0}, regs : Nat]
  /\ {MaxChannels, MaxReports, MaxReboots, MaxRestarts, MaxFaults} \subseteq Nat

Message(n, b) == [id |-> n, channel |-> b.channel, date |-> b.date, regs |-> b.regs]
NoMsg == [id |-> 0, channel |-> 0, date |-> 0, regs |-> 0]
Messages == {Message(n, b) : n \in 1 .. MaxReports, b \in Bodies}

VARIABLES
  buffer, head, tail, count, \* mq
  msg, more,                 \* the reader's message, and mq.read()'s answer
  needFlush, flushCompleted, waiting, reader, callback, \* as in DatabaseApp
  handles, dates, rows, writer, log, doomed, reg, allSuccess, answered, faults, \* as in DbManager
  \* as in DatabaseApp; no action reads these, except for the bounds
  stored, accepted, failed, overwritten, lost, late, promised, reboots, restarts

ring == <<buffer, head, tail, count>>
reading == <<msg, more>>
flags == <<needFlush, flushCompleted>>
database == <<handles, dates, rows, writer, log, doomed, reg, allSuccess, answered, faults>>
history == <<stored, accepted, failed, overwritten, lost, late, promised, reboots, restarts>>
vars == <<ring, reading, flags, waiting, reader, callback, database, history>>

Ring == INSTANCE MessageQueue WITH Msg <- Messages, Capacity <- QueueSize, got <- msg, ok <- more
Db == INSTANCE DbManager
        WITH Inherited <- {}, MaxWrites <- MaxReports, MaxDrops <- 0, MaxSelects <- 0,
             client <- "idle", ask <- [channel |-> 0, id |-> 0],
             toScan <- {}, found <- {},
             owed <- {}, taken <- {}, drops <- 0, selects <- 0

Queued == [k \in 1 .. count |-> Ring!Contents[k].id]

Init ==
  /\ Ring!Init
  /\ needFlush = FALSE /\ flushCompleted = FALSE
  /\ waiting = {} /\ reader = "wait" /\ callback = "idle"
  /\ handles = {}
  /\ dates = [c \in Db!Channel |-> {}]
  /\ rows = [c \in Db!Channel |-> [d \in Dates |-> <<>>]]
  /\ writer = "idle" /\ log = <<>> /\ doomed = {} /\ reg = 0 /\ allSuccess = FALSE
  /\ answered = {} /\ faults = 0
  /\ stored = <<>> /\ accepted = 0 /\ failed = {} /\ overwritten = {} /\ lost = {}
  /\ late = FALSE /\ promised = 0 /\ reboots = 0 /\ restarts = 0
-----------------------------------------------------------------------------
(* The callback. *)
Report(b) ==
  /\ callback = "idle" /\ accepted < MaxReports
  /\ accepted' = accepted + 1
  /\ Ring!Write(Message(accepted + 1, b))
  /\ overwritten' = IF count = Ring!N THEN overwritten \cup {Queued[1]} ELSE overwritten
  /\ UNCHANGED <<flags, waiting, reader, callback, database,
                 stored, failed, lost, late, promised, reboots, restarts>>

RequestReboot ==
  /\ callback = "idle" /\ reboots < MaxReboots
  /\ reboots' = reboots + 1
  /\ needFlush' = TRUE /\ flushCompleted' = FALSE
  /\ late' = (reader = "finish")
  /\ callback' = "notify"
  /\ UNCHANGED <<ring, reading, waiting, reader, database,
                 stored, accepted, failed, overwritten, lost, promised, restarts>>

NotifyNobody ==
  /\ callback = "notify" /\ callback' = "await"
  /\ UNCHANGED <<ring, reading, flags, waiting, reader, database, history>>

NotifyReader ==
  /\ callback = "notify" /\ callback' = "await"
  /\ waiting' = waiting \ {"reader"}
  /\ UNCHANGED <<ring, reading, flags, reader, database, history>>

AwaitFlush ==
  /\ callback = "await" /\ "callback" \notin waiting
  /\ IF flushCompleted
     THEN callback' = "reply" /\ UNCHANGED waiting
     ELSE waiting' = waiting \cup {"callback"} /\ UNCHANGED callback
  /\ UNCHANGED <<ring, reading, flags, reader, database, history>>

Reply ==
  /\ callback = "reply" /\ callback' = "idle"
  /\ promised' \in {promised, IF late THEN promised ELSE accepted}
  /\ UNCHANGED <<ring, reading, flags, waiting, reader, database,
                 stored, accepted, failed, overwritten, lost, late, reboots, restarts>>
-----------------------------------------------------------------------------
(* The reader. *)
StartRound == reader' = "drain" /\ msg' = NoMsg

ReaderAwait ==
  /\ reader = "wait" /\ "reader" \notin waiting
  /\ IF needFlush
     THEN StartRound /\ UNCHANGED waiting
     ELSE waiting' = waiting \cup {"reader"} /\ UNCHANGED <<reader, msg>>
  /\ UNCHANGED <<ring, more, flags, callback, database, history>>

ReaderTimeout ==
  /\ reader = "wait" /\ "reader" \in waiting
  /\ waiting' = waiting \ {"reader"}
  /\ StartRound
  /\ UNCHANGED <<ring, more, flags, callback, database, history>>

ReaderRead ==
  /\ reader = "drain"
  /\ Ring!Read
  /\ reader' = IF more' THEN "store" ELSE "finish"
  /\ UNCHANGED <<flags, waiting, callback, database, history>>

(* writeMessage(), statement by statement. *)
WriteStep ==
  /\ reader = "store"
  /\ Db!BeginWrite(msg) \/ (writer # "return" /\ Db!WriterStep)
  /\ UNCHANGED <<ring, reading, flags, waiting, reader, callback, history>>

ReaderStored ==
  /\ reader = "store" /\ Db!EndWrite
  /\ \/ allSuccess /\ stored' = Append(stored, msg.id) /\ UNCHANGED failed
     \/ ~allSuccess /\ failed' = failed \cup {msg.id} /\ UNCHANGED stored
  /\ reader' = "drain"
  /\ UNCHANGED <<ring, reading, flags, waiting, callback,
                 accepted, overwritten, lost, late, promised, reboots, restarts>>

ReaderFinish ==
  /\ reader = "finish" /\ reader' = "notify"
  /\ needFlush' = FALSE /\ flushCompleted' = TRUE
  /\ UNCHANGED <<ring, reading, waiting, callback, database, history>>

ReaderNotifyAll ==
  /\ reader = "notify" /\ reader' = "wait"
  /\ waiting' = {}
  /\ UNCHANGED <<ring, reading, flags, callback, database, history>>

SpuriousWakeup ==
  /\ \E t \in waiting : waiting' = waiting \ {t}
  /\ UNCHANGED <<ring, reading, flags, reader, callback, database, history>>
-----------------------------------------------------------------------------
(* The process dies, inside a write too, and starts again. *)
InMemory == {Queued[k] : k \in 1 .. count} \cup (IF reader = "store" THEN {msg.id} ELSE {})

Restart ==
  /\ restarts < MaxRestarts /\ restarts' = restarts + 1
  /\ Db!Restart
  /\ lost' = lost \cup InMemory
  /\ buffer' = [i \in Ring!Slot |-> NoMsg] /\ head' = 0 /\ tail' = 0 /\ count' = 0
  /\ msg' = NoMsg /\ more' = FALSE
  /\ needFlush' = FALSE /\ flushCompleted' = FALSE
  /\ waiting' = {} /\ reader' = "wait" /\ callback' = "idle"
  /\ UNCHANGED <<stored, accepted, failed, overwritten, late, promised, reboots>>

CallbackStep == NotifyReader \/ AwaitFlush \/ Reply
ReaderStep ==
  \/ ReaderAwait \/ ReaderRead \/ WriteStep \/ ReaderStored
  \/ ReaderFinish \/ ReaderNotifyAll

Next ==
  \/ \E b \in Bodies : Report(b)
  \/ RequestReboot \/ CallbackStep
  \/ ReaderStep \/ ReaderTimeout \/ SpuriousWakeup
  \/ Restart

Spec == Init /\ [][Next]_vars
PromptSpec == Spec /\ WF_vars(CallbackStep) /\ WF_vars(ReaderStep)
-----------------------------------------------------------------------------
(* The whole implements DatabaseApp: the ring is its queue, and the         *)
(* messages writeMessage() answered true for are its database.              *)
App == INSTANCE DatabaseApp WITH WritesMayFail <- TRUE, queue <- Queued, msg <- msg.id
ImplementsApp == App!Spec

(* When "ready" is said in time, every message accepted until then has all  *)
(* its rows in the database, unless it was overwritten, lost with an        *)
(* earlier process or reported as failed, or its table is older than the    *)
(* MaxTables tables that are kept.                                          *)
ReadyMeansInDatabase ==
  callback = "reply" /\ ~late =>
     \A n \in 1 .. accepted \ (overwritten \cup lost \cup failed) :
        \E w \in DOMAIN log : log[w].id = n /\ (Db!StoredAll(w) \/ Db!Superseded(w))

(* Every reboot request is answered without the help of the timer, however  *)
(* many statements the drain takes and whichever of them fail.              *)
RebootAnswered == callback # "idle" ~> callback = "idle"
=============================================================================
