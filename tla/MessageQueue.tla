---------------------------- MODULE MessageQueue ----------------------------
(***************************************************************************)
(* The ring buffer of modbus_message_queue.cpp.  All members are guarded   *)
(* by mutex_, which every operation holds from its first to its last       *)
(* statement, so each operation is one action.  size() and freeSize() are  *)
(* queries and change nothing.                                             *)
(***************************************************************************)
EXTENDS Naturals, Sequences

CONSTANTS Msg,      \* the messages that are written
          NoMsg,    \* the default-constructed ModbusMasterMsg
          Capacity  \* the constructor's argument; 0 is accepted

ASSUME CapacityAssumption == Capacity \in Nat

VARIABLES buffer, \* buffer_
          head,   \* head_:  the oldest valid slot
          tail,   \* tail_:  the next slot to write
          count,  \* count_: how many slots are valid
          got,    \* the reader's msg, set by a successful read()
          ok      \* the value returned by the last read()

vars == <<buffer, head, tail, count, got, ok>>

N == IF Capacity = 0 THEN 1 ELSE Capacity    \* buffer_.size()
Slot == 0 .. N - 1
After(i) == (i + 1) % N

Init ==
  /\ buffer = [i \in Slot |-> NoMsg]
  /\ head = 0
  /\ tail = 0
  /\ count = 0
  /\ got = NoMsg
  /\ ok = FALSE
-----------------------------------------------------------------------------
(* Plausible slips in the operations below; each breaks the run that names  *)
(* it as a mutant.                                                          *)
WriteKeepsHead(m) ==
  /\ buffer' = [buffer EXCEPT ![tail] = m]
  /\ tail' = After(tail)
  /\ count' = IF count = N THEN count ELSE count + 1
  /\ UNCHANGED <<head, got, ok>>

WriteOneTooMany(m) ==
  /\ \/ /\ count = N + 1
        /\ buffer' = [buffer EXCEPT ![head] = m]
        /\ head' = After(head)
        /\ tail' = After(tail)
        /\ UNCHANGED count
     \/ /\ count # N + 1
        /\ buffer' = [buffer EXCEPT ![tail] = m]
        /\ tail' = After(tail)
        /\ count' = count + 1
        /\ UNCHANGED head
  /\ UNCHANGED <<got, ok>>

ClearKeepsCount ==
  /\ head' = 0
  /\ tail' = count % N
  /\ buffer' = [i \in Slot |-> NoMsg]
  /\ UNCHANGED <<count, got, ok>>
-----------------------------------------------------------------------------
Write(m) ==
  /\ \/ /\ count = N                              \* full: over the oldest
        /\ buffer' = [buffer EXCEPT ![head] = m]
        /\ head' = After(head)
        /\ tail' = After(tail)
        /\ UNCHANGED count
     \/ /\ count # N
        /\ buffer' = [buffer EXCEPT ![tail] = m]
        /\ tail' = After(tail)
        /\ count' = count + 1
        /\ UNCHANGED head
  /\ UNCHANGED <<got, ok>>

Read ==
  \/ /\ count = 0
     /\ ok' = FALSE
     /\ UNCHANGED <<buffer, head, tail, count, got>>
  \/ /\ count # 0
     /\ got' = buffer[head]
     /\ head' = After(head)
     /\ count' = count - 1
     /\ ok' = TRUE
     /\ UNCHANGED <<buffer, tail>>

Clear ==
  /\ head' = 0
  /\ tail' = 0
  /\ count' = 0
  /\ buffer' = [i \in Slot |-> NoMsg]
  /\ UNCHANGED <<got, ok>>

Next ==
  \/ \E m \in Msg : Write(m)
  \/ Read
  \/ Clear

Spec == Init /\ [][Next]_vars
-----------------------------------------------------------------------------
(* Every index stays inside the buffer and the count inside its size        *)
(* (the member types of MessageQueue).                                      *)
TypeOK ==
  /\ buffer \in [Slot -> Msg \cup {NoMsg}]
  /\ head \in Slot
  /\ tail \in Slot
  /\ count \in 0 .. N
  /\ got \in Msg \cup {NoMsg}
  /\ ok \in BOOLEAN

(* The valid slots, oldest first. *)
Contents == [k \in 1 .. count |-> buffer[(head + k - 1) % N]]

(* The three redundant cursors never come apart: the slot to write is the   *)
(* one just past the last valid slot, in the full branch of write() too.    *)
CursorsAgree == tail = (head + count) % N

(* read() never hands out the contents of a slot that no write() filled:    *)
(* every slot between the cursors holds a written message.                  *)
ValidSlotsWritten == \A k \in 1 .. count : Contents[k] \in Msg

(* The ring implements the queue the header documents: FIFO order, oldest   *)
(* overwritten when full and only then, nothing duplicated or skipped.      *)
Fifo == INSTANCE BoundedFifo WITH items <- Contents, Size <- N
ImplementsFifo == Fifo!Spec
=============================================================================
