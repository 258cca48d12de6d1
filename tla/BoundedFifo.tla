---------------------------- MODULE BoundedFifo ----------------------------
(***************************************************************************)
(* What MessageQueue promises to its callers (modbus_message_queue.h): a   *)
(* FIFO of at most Size messages.  A write always succeeds and, when the   *)
(* queue is full, replaces the oldest message; a read removes the oldest   *)
(* message, or reports that there is none.  Every operation runs under the *)
(* queue's mutex, so each is one step.                                     *)
(***************************************************************************)
EXTENDS Naturals, Sequences

CONSTANTS Msg,   \* the messages that are written
          NoMsg, \* the default-constructed ModbusMasterMsg
          Size   \* how many messages fit

VARIABLES items, \* the messages held, oldest first
          got,   \* the out-parameter of the last successful read
          ok     \* the value returned by the last read

fifoVars == <<items, got, ok>>

Init ==
  /\ items = <<>>
  /\ got = NoMsg
  /\ ok = FALSE

Kept == IF Len(items) = Size THEN Tail(items) ELSE items

Write(m) ==
  /\ items' = Append(Kept, m)
  /\ UNCHANGED <<got, ok>>

Read ==
  \/ /\ items = <<>>
     /\ ok' = FALSE
     /\ UNCHANGED <<items, got>>
  \/ /\ items # <<>>
     /\ got' = Head(items)
     /\ items' = Tail(items)
     /\ ok' = TRUE

Clear ==
  /\ items' = <<>>
  /\ UNCHANGED <<got, ok>>

Next ==
  \/ \E m \in Msg : Write(m)
  \/ Read
  \/ Clear

Spec == Init /\ [][Next]_fifoVars
=============================================================================
