------------------------- MODULE MessageQueueProofs -------------------------
(***************************************************************************)
(* The ring buffer is correct for every capacity and every set of          *)
(* messages: its cursors agree, its valid slots hold written messages, and *)
(* it implements BoundedFifo.  The argument rests on one fact about        *)
(* positions, IndexShift: the k-th valid slot seen from After(head) is the *)
(* (k+1)-th seen from head.                                                *)
(***************************************************************************)
EXTENDS MessageQueue, SequenceTheorems, TLAPS

(* A position less than one buffer past a slot wraps at most once. *)
LEMMA WrapOnce ==
  ASSUME NEW n \in Nat \ {0}, NEW h \in 0 .. n - 1, NEW k \in 0 .. n
  PROVE  (h + k) % n = IF h + k < n THEN h + k ELSE h + k - n
OBVIOUS

(* The buffer has at least one slot, as the constructor makes sure. *)
LEMMA SizePositive == N \in Nat \ {0}
BY CapacityAssumption DEF N

(* The k-th position from slot h, and the slot after h. *)
LEMMA Position ==
  ASSUME NEW h \in Slot, NEW k \in 0 .. N
  PROVE  /\ (h + k) % N = IF h + k < N THEN h + k ELSE h + k - N
         /\ (h + k) % N \in Slot
         /\ After(h) = IF h = N - 1 THEN 0 ELSE h + 1
         /\ After(h) \in Slot
<1>1. /\ N \in Nat \ {0}
      /\ h \in 0 .. N - 1
      /\ 1 \in 0 .. N
  BY SizePositive DEF Slot
<1>2. (h + k) % N = IF h + k < N THEN h + k ELSE h + k - N
  BY <1>1, WrapOnce
<1>3. After(h) = IF h + 1 < N THEN h + 1 ELSE h + 1 - N
  BY <1>1, WrapOnce DEF After
<1> QED
  BY <1>1, <1>2, <1>3 DEF Slot

(* Moving the head one slot renumbers the positions; a full turn comes back *)
(* to the slot itself, and no shorter one does.                             *)
LEMMA IndexShift ==
  ASSUME NEW h \in Slot
  PROVE  /\ \A k \in 0 .. N - 1 : (After(h) + k) % N = (h + k + 1) % N
         /\ (After(h) + (N - 1)) % N = h
         /\ (h + 0) % N = h
         /\ \A k \in 1 .. N - 1 : (h + k) % N # h
<1>1. /\ N \in Nat \ {0}
      /\ h \in 0 .. N - 1
  BY SizePositive DEF Slot
<1>2. /\ After(h) \in Slot
      /\ After(h) = IF h = N - 1 THEN 0 ELSE h + 1
  BY <1>1, Position
<1>3. ASSUME NEW k \in 0 .. N - 1
      PROVE  (After(h) + k) % N = (h + k + 1) % N
  <2>1. k \in 0 .. N /\ k + 1 \in 0 .. N
    BY <1>1
  <2>2. (h + (k + 1)) % N
           = IF h + (k + 1) < N THEN h + (k + 1) ELSE h + (k + 1) - N
    BY <2>1, Position
  <2>3. (After(h) + k) % N
           = IF After(h) + k < N THEN After(h) + k ELSE After(h) + k - N
    BY <1>2, <2>1, Position
  <2>4. h + (k + 1) = h + k + 1
    BY <1>1
  <2> QED
    BY <1>1, <1>2, <2>2, <2>3, <2>4
<1>4. (After(h) + (N - 1)) % N = h
  <2>1. N - 1 \in 0 .. N
    BY <1>1
  <2>2. (After(h) + (N - 1)) % N = IF After(h) + (N - 1) < N
             THEN After(h) + (N - 1) ELSE After(h) + (N - 1) - N
    BY <1>2, <2>1, Position
  <2> QED
    BY <1>1, <1>2, <2>2
<1>5. (h + 0) % N = h
  <2>1. 0 \in 0 .. N
    BY <1>1
  <2>2. (h + 0) % N = IF h + 0 < N THEN h + 0 ELSE h + 0 - N
    BY <2>1, Position
  <2> QED
    BY <1>1, <2>2
<1>6. ASSUME NEW k \in 1 .. N - 1
      PROVE  (h + k) % N # h
  <2>1. k \in 0 .. N
    BY <1>1
  <2>2. (h + k) % N = IF h + k < N THEN h + k ELSE h + k - N
    BY <2>1, Position
  <2> QED
    BY <1>1, <2>2
<1> QED
  BY <1>3, <1>4, <1>5, <1>6
-----------------------------------------------------------------------------
(* The inductive invariant.  CursorsAgree alone is not inductive without    *)
(* the ranges of TypeOK, and ValidSlotsWritten needs CursorsAgree: the slot *)
(* that a write fills is the one that becomes valid only if tail is just    *)
(* past the last valid slot.                                                *)
RingInv == TypeOK /\ CursorsAgree /\ ValidSlotsWritten

LEMMA InitRing == Init => RingInv
<1> SUFFICES ASSUME Init PROVE RingInv
  OBVIOUS
<1>1. N \in Nat \ {0} /\ 0 \in Slot /\ 0 \in 0 .. N
  BY SizePositive DEF Slot
<1>2. (0 + 0) % N = 0
  BY <1>1, IndexShift
<1>3. TypeOK
  BY <1>1 DEF Init, TypeOK
<1>4. CursorsAgree
  BY <1>2 DEF Init, CursorsAgree
<1>5. ValidSlotsWritten
  BY DEF Init, ValidSlotsWritten
<1> QED
  BY <1>3, <1>4, <1>5 DEF RingInv

(* A write into a queue that is not full extends the valid slots by one. *)
LEMMA WriteFree ==
  ASSUME RingInv, NEW m \in Msg, Write(m), count # N
  PROVE  RingInv'
<1>1. /\ N \in Nat \ {0}
      /\ head \in Slot
      /\ count \in 0 .. N - 1
      /\ tail = (head + count) % N
  BY SizePositive DEF RingInv, TypeOK, CursorsAgree
<1>2. /\ buffer' = [buffer EXCEPT ![tail] = m]
      /\ tail' = After(tail)
      /\ count' = count + 1
      /\ head' = head /\ got' = got /\ ok' = ok
  BY DEF Write
<1>3. TypeOK'
  <2>1. tail \in Slot /\ After(tail) \in Slot
    BY <1>1, Position DEF RingInv, TypeOK
  <2> QED
    BY <1>1, <1>2, <2>1 DEF RingInv, TypeOK
<1>4. CursorsAgree'
  <2>1. count \in 0 .. N /\ count + 1 \in 0 .. N
    BY <1>1
  <2>2. /\ (head + count) % N
              = IF head + count < N THEN head + count ELSE head + count - N
        /\ (head + (count + 1)) % N
              = IF head + (count + 1) < N THEN head + (count + 1)
                                          ELSE head + (count + 1) - N
    BY <1>1, <2>1, Position
  <2>3. tail \in Slot /\ After(tail) = IF tail = N - 1 THEN 0 ELSE tail + 1
    BY <2>1, Position DEF RingInv, TypeOK
  <2>4. After(tail) = (head + (count + 1)) % N
    BY <1>1, <2>2, <2>3 DEF Slot
  <2> QED
    BY <1>2, <2>4 DEF CursorsAgree
<1>5. ValidSlotsWritten'
  <2> SUFFICES ASSUME NEW k \in 1 .. count + 1
               PROVE  buffer'[(head + k - 1) % N] \in Msg
    BY <1>2 DEF ValidSlotsWritten, Contents
  <2>1. (head + (k - 1)) % N \in Slot /\ head + (k - 1) = head + k - 1
    BY <1>1, Position DEF Slot
  <2>2. CASE (head + k - 1) % N = tail
    BY <1>2, <2>1, <2>2 DEF RingInv, TypeOK
  <2>3. CASE (head + k - 1) % N # tail
    <3>1. k - 1 # count
      BY <1>1, <2>1, <2>3
    <3>2. k \in 1 .. count
      BY <1>1, <3>1
    <3>3. buffer[(head + k - 1) % N] \in Msg
      BY <3>2 DEF RingInv, ValidSlotsWritten, Contents
    <3> QED
      BY <1>2, <2>1, <2>3, <3>3 DEF RingInv, TypeOK
  <2> QED
    BY <2>2, <2>3
<1> QED
  BY <1>3, <1>4, <1>5 DEF RingInv

(* A write into a full queue replaces the oldest slot, which becomes the    *)
(* newest: head and tail, equal when full, move on together.                *)
LEMMA WriteFull ==
  ASSUME RingInv, NEW m \in Msg, Write(m), count = N
  PROVE  RingInv'
<1>1. /\ N \in Nat \ {0}
      /\ head \in Slot
      /\ N \in 0 .. N
      /\ tail = head
  <2>1. N \in Nat \ {0} /\ head \in Slot /\ N \in 0 .. N /\ tail = (head + N) % N
    BY SizePositive DEF RingInv, TypeOK, CursorsAgree
  <2>2. (head + N) % N = IF head + N < N THEN head + N ELSE head + N - N
    BY <2>1, Position
  <2> QED
    BY <2>1, <2>2 DEF Slot
<1>2. /\ buffer' = [buffer EXCEPT ![head] = m]
      /\ head' = After(head)
      /\ tail' = After(tail)
      /\ count' = N /\ got' = got /\ ok' = ok
  BY DEF Write
<1>3. TypeOK'
  BY <1>1, <1>2, Position DEF RingInv, TypeOK
<1>4. CursorsAgree'
  <2>1. /\ After(head) \in Slot
        /\ (After(head) + N) % N = IF After(head) + N < N THEN After(head) + N
                                   ELSE After(head) + N - N
    BY <1>1, Position
  <2> QED
    BY <1>1, <1>2, <2>1 DEF CursorsAgree, Slot
<1>5. ValidSlotsWritten'
  <2>1. \A i \in Slot : buffer[i] \in Msg
    <3> SUFFICES ASSUME NEW i \in Slot PROVE buffer[i] \in Msg
      OBVIOUS
    <3> DEFINE k == IF i >= head THEN i - head + 1 ELSE i - head + 1 + N
    <3>1. k \in 1 .. N /\ k - 1 \in 0 .. N /\ head + (k - 1) = head + k - 1
      BY <1>1 DEF Slot
    <3>2. (head + (k - 1)) % N = IF head + (k - 1) < N THEN head + (k - 1)
                                 ELSE head + (k - 1) - N
      BY <1>1, <3>1, Position
    <3>3. (head + k - 1) % N = i
      BY <1>1, <3>1, <3>2 DEF Slot
    <3> QED
      BY <3>1, <3>3 DEF RingInv, ValidSlotsWritten, Contents
  <2> SUFFICES ASSUME NEW k \in 1 .. N
               PROVE  buffer'[(After(head) + k - 1) % N] \in Msg
    BY <1>2 DEF ValidSlotsWritten, Contents
  <2>2. After(head) \in Slot /\ k - 1 \in 0 .. N
    BY <1>1, Position
  <2>3. (After(head) + (k - 1)) % N \in Slot
        /\ After(head) + (k - 1) = After(head) + k - 1
    BY <1>1, <2>2, Position DEF Slot
  <2> QED
    BY <1>2, <2>1, <2>3 DEF RingInv, TypeOK
<1> QED
  BY <1>3, <1>4, <1>5 DEF RingInv

(* A read gives up the oldest slot: the valid slots that remain are the old *)
(* ones after the first.                                                    *)
LEMMA ReadRing ==
  ASSUME RingInv, Read
  PROVE  RingInv'
<1>1. CASE count = 0
  BY <1>1 DEF Read, RingInv, TypeOK, CursorsAgree, ValidSlotsWritten, Contents
<1>2. CASE count # 0
  <2>1. /\ N \in Nat \ {0}
        /\ head \in Slot /\ head \in 0 .. N - 1
        /\ count \in 1 .. N
        /\ tail = (head + count) % N
    BY <1>2, SizePositive DEF RingInv, TypeOK, CursorsAgree, Slot
  <2>2. /\ got' = buffer[head] /\ ok' = TRUE
        /\ head' = After(head)
        /\ count' = count - 1
        /\ buffer' = buffer /\ tail' = tail
    BY <1>2 DEF Read
  <2>3. TypeOK'
    <3>1. After(head) \in Slot /\ count - 1 \in 0 .. N
      BY <2>1, Position
    <3> QED
      BY <2>1, <2>2, <3>1 DEF RingInv, TypeOK
  <2>4. CursorsAgree'
    <3>1. count - 1 \in 0 .. N - 1 /\ head + (count - 1) + 1 = head + count
      BY <2>1
    <3>2. (After(head) + (count - 1)) % N = (head + (count - 1) + 1) % N
      BY <2>1, <3>1, IndexShift
    <3> QED
      BY <2>1, <2>2, <3>1, <3>2 DEF CursorsAgree
  <2>5. ValidSlotsWritten'
    <3> SUFFICES ASSUME NEW k \in 1 .. count - 1
                 PROVE  buffer[(After(head) + k - 1) % N] \in Msg
      BY <2>2 DEF ValidSlotsWritten, Contents
    <3>1. /\ k - 1 \in 0 .. N - 1 /\ k + 1 \in 1 .. count
          /\ head + (k - 1) + 1 = head + (k + 1) - 1
      BY <2>1
    <3>2. (After(head) + (k - 1)) % N = (head + (k - 1) + 1) % N
      BY <2>1, <3>1, IndexShift
    <3>3. After(head) + (k - 1) = After(head) + k - 1
      BY <2>1, <3>1, Position DEF Slot
    <3>4. buffer[(head + (k + 1) - 1) % N] \in Msg
      BY <3>1 DEF RingInv, ValidSlotsWritten, Contents
    <3> QED
      BY <3>1, <3>2, <3>3, <3>4
  <2> QED
    BY <2>3, <2>4, <2>5 DEF RingInv
<1> QED
  BY <1>1, <1>2

LEMMA ClearRing ==
  ASSUME RingInv, Clear
  PROVE  RingInv'
<1>1. N \in Nat \ {0} /\ 0 \in Slot
  BY SizePositive DEF Slot
<1>2. (0 + 0) % N = 0
  BY <1>1, IndexShift
<1>3. TypeOK'
  BY <1>1 DEF Clear, RingInv, TypeOK
<1>4. CursorsAgree'
  BY <1>2 DEF Clear, CursorsAgree
<1>5. ValidSlotsWritten'
  BY DEF Clear, ValidSlotsWritten
<1> QED
  BY <1>3, <1>4, <1>5 DEF RingInv

LEMMA NextRing == RingInv /\ [Next]_vars => RingInv'
<1> SUFFICES ASSUME RingInv, [Next]_vars PROVE RingInv'
  OBVIOUS
<1>1. ASSUME NEW m \in Msg, Write(m) PROVE RingInv'
  BY <1>1, WriteFree, WriteFull
<1>2. ASSUME Read PROVE RingInv'
  BY <1>2, ReadRing
<1>3. ASSUME Clear PROVE RingInv'
  BY <1>3, ClearRing
<1>4. CASE UNCHANGED vars
  BY <1>4 DEF vars, RingInv, TypeOK, CursorsAgree, ValidSlotsWritten, Contents
<1> QED
  BY <1>1, <1>2, <1>3, <1>4 DEF Next

(* The cursors of MessageQueue agree, every index stays inside the buffer,  *)
(* and every valid slot holds a written message, for any capacity,          *)
(* including the 0 that the constructor rounds up to 1.                     *)
THEOREM RingInvariant == Spec => [](TypeOK /\ CursorsAgree /\ ValidSlotsWritten)
  BY InitRing, NextRing, PTL DEF Spec, RingInv
-----------------------------------------------------------------------------
(* Refinement of BoundedFifo: the valid slots, oldest first, are its items. *)
LEMMA FunctionIsSeq ==
  ASSUME NEW S, NEW c \in Nat, NEW f, f = [k \in 1 .. c |-> f[k]],
         \A k \in 1 .. c : f[k] \in S
  PROVE  f \in Seq(S) /\ Len(f) = c
<1>1. f \in [1 .. c -> S]
  OBVIOUS
<1>2. f \in Seq(S)
  BY <1>1, SeqDef
<1> QED
  BY <1>1, <1>2, LenProperties

(* The contents are a sequence of count messages, before and after a step. *)
LEMMA ContentsSeq ==
  ASSUME RingInv
  PROVE  /\ Contents \in Seq(Msg)
         /\ Len(Contents) = count
         /\ \A k \in 1 .. count : Contents[k] = buffer[(head + k - 1) % N]
<1>1. /\ count \in Nat
      /\ Contents = [k \in 1 .. count |-> Contents[k]]
      /\ \A k \in 1 .. count : Contents[k] \in Msg
  BY SizePositive DEF RingInv, TypeOK, ValidSlotsWritten, Contents
<1> QED
  BY <1>1, FunctionIsSeq DEF Contents

LEMMA ContentsSeqNext ==
  ASSUME RingInv'
  PROVE  /\ Contents' \in Seq(Msg)
         /\ Len(Contents') = count'
         /\ \A k \in 1 .. count' : Contents'[k] = buffer'[(head' + k - 1) % N]
<1>1. /\ count' \in Nat
      /\ Contents' = [k \in 1 .. count' |-> Contents'[k]]
      /\ \A k \in 1 .. count' : Contents'[k] \in Msg
  BY SizePositive DEF RingInv, TypeOK, ValidSlotsWritten, Contents
<1> QED
  BY <1>1, FunctionIsSeq DEF Contents

LEMMA InitRefines == Init => Fifo!Init
<1> SUFFICES ASSUME Init PROVE Fifo!Init
  OBVIOUS
<1>1. Contents \in Seq(Msg) /\ Len(Contents) = 0
  BY InitRing, ContentsSeq DEF Init
<1>2. Contents = <<>>
  BY <1>1, EmptySeq
<1> QED
  BY <1>2 DEF Init, Fifo!Init

LEMMA WriteRefines ==
  ASSUME RingInv, RingInv', NEW m \in Msg, Write(m)
  PROVE  Fifo!Write(m)
<1> DEFINE k0 == Fifo!Kept
<1>1. /\ N \in Nat \ {0}
      /\ head \in Slot /\ head \in 0 .. N - 1 /\ tail \in Slot
      /\ count \in 0 .. N
      /\ tail = (head + count) % N
      /\ buffer \in [Slot -> Msg \cup {NoMsg}]
  BY SizePositive DEF RingInv, TypeOK, CursorsAgree, Slot
<1>2. CASE count = N
  <2>1. /\ buffer' = [buffer EXCEPT ![head] = m]
        /\ head' = After(head)
        /\ count' = N
    BY <1>2 DEF Write
  <2>2. /\ Contents # <<>>
        /\ k0 = Tail(Contents)
    BY <1>1, <1>2, ContentsSeq DEF Fifo!Kept
  <2>3. /\ k0 \in Seq(Msg) /\ Len(k0) = N - 1
        /\ \A k \in 1 .. N - 1 : k0[k] = Contents[k + 1]
    BY <1>1, <1>2, <2>2, ContentsSeq, HeadTailProperties
  <2>4. /\ Append(k0, m) \in Seq(Msg) /\ Len(Append(k0, m)) = N
        /\ \A k \in 1 .. N - 1 : Append(k0, m)[k] = Contents[k + 1]
        /\ Append(k0, m)[N] = m
    BY <1>1, <2>3, AppendProperties
  <2>5. ASSUME NEW k \in 1 .. N
        PROVE  Contents'[k] = Append(k0, m)[k]
    <3>1. Contents'[k] = buffer'[(After(head) + k - 1) % N]
      BY <2>1, ContentsSeqNext
    <3>2. /\ k - 1 \in 0 .. N - 1
          /\ After(head) + k - 1 = After(head) + (k - 1)
          /\ head + (k - 1) + 1 = head + k
      BY <1>1, Position DEF Slot
    <3>3. CASE k = N
      <4>1. (After(head) + (N - 1)) % N = head
        BY <1>1, IndexShift
      <4> QED
        BY <1>1, <2>1, <2>4, <3>1, <3>2, <3>3, <4>1
    <3>4. CASE k # N
      <4>1. k \in 1 .. N - 1 /\ k \in 0 .. N /\ k + 1 \in 1 .. N
        BY <1>1, <3>4
      <4>2. (After(head) + (k - 1)) % N = (head + (k - 1) + 1) % N
        BY <1>1, <3>2, IndexShift
      <4>3. (head + k) % N # head
        BY <1>1, <4>1, IndexShift
      <4>4. (head + k) % N \in Slot
        BY <1>1, <4>1, Position
      <4>5. Contents'[k] = buffer[(head + k) % N]
        BY <1>1, <2>1, <3>1, <3>2, <4>2, <4>3, <4>4
      <4>6. Contents[k + 1] = buffer[(head + (k + 1) - 1) % N]
        BY <1>2, <4>1, ContentsSeq
      <4>7. head + (k + 1) - 1 = head + k
        BY <1>1
      <4> QED
        BY <2>4, <4>1, <4>5, <4>6, <4>7
    <3> QED
      BY <3>3, <3>4
  <2>6. Contents' = Append(k0, m)
    BY <1>1, <2>1, <2>4, <2>5, ContentsSeqNext, SeqEqual
  <2> QED
    BY <2>6 DEF Fifo!Write, Write
<1>3. CASE count # N
  <2>1. /\ buffer' = [buffer EXCEPT ![tail] = m]
        /\ head' = head
        /\ count' = count + 1
    BY <1>3 DEF Write
  <2>2. k0 = Contents
    BY <1>3, ContentsSeq DEF Fifo!Kept
  <2>3. /\ Append(k0, m) \in Seq(Msg) /\ Len(Append(k0, m)) = count + 1
        /\ \A k \in 1 .. count : Append(k0, m)[k] = Contents[k]
        /\ Append(k0, m)[count + 1] = m
    BY <2>2, ContentsSeq, AppendProperties
  <2>4. ASSUME NEW k \in 1 .. count + 1
        PROVE  Contents'[k] = Append(k0, m)[k]
    <3>1. Contents'[k] = buffer'[(head + k - 1) % N]
      BY <2>1, ContentsSeqNext
    <3>2. CASE k = count + 1
      <4>1. head + k - 1 = head + count
        BY <1>1, <3>2
      <4> QED
        BY <1>1, <2>1, <2>3, <3>1, <3>2, <4>1
    <3>3. CASE k # count + 1
      <4>1. /\ k \in 1 .. count /\ k - 1 \in 0 .. N /\ count \in 0 .. N - 1
            /\ head + (k - 1) = head + k - 1
        BY <1>1, <1>3, <3>3
      <4>2. /\ (head + (k - 1)) % N = IF head + (k - 1) < N THEN head + (k - 1)
                                       ELSE head + (k - 1) - N
            /\ (head + (k - 1)) % N \in Slot
            /\ (head + count) % N = IF head + count < N THEN head + count
                                     ELSE head + count - N
        BY <1>1, <4>1, Position
      <4>3. (head + (k - 1)) % N # tail
        BY <1>1, <4>1, <4>2
      <4>4. Contents'[k] = buffer[(head + k - 1) % N]
        BY <1>1, <2>1, <3>1, <4>1, <4>2, <4>3
      <4> QED
        BY <2>3, <4>1, <4>4, ContentsSeq
    <3> QED
      BY <3>2, <3>3
  <2>5. Contents' = Append(k0, m)
    BY <1>1, <2>1, <2>3, <2>4, ContentsSeqNext, SeqEqual
  <2> QED
    BY <2>5 DEF Fifo!Write, Write
<1> QED
  BY <1>2, <1>3

LEMMA ReadRefines ==
  ASSUME RingInv, RingInv', Read
  PROVE  Fifo!Read
<1>1. /\ N \in Nat \ {0}
      /\ head \in Slot /\ head \in 0 .. N - 1
      /\ count \in 0 .. N
  BY SizePositive DEF RingInv, TypeOK, Slot
<1>2. CASE count = 0
  <2>1. Contents = <<>>
    BY <1>2, ContentsSeq, EmptySeq
  <2>2. UNCHANGED <<Contents, got>> /\ ok' = FALSE
    BY <1>2 DEF Read, Contents
  <2> QED
    BY <2>1, <2>2 DEF Fifo!Read
<1>3. CASE count # 0
  <2>1. /\ got' = buffer[head] /\ ok' = TRUE
        /\ head' = After(head)
        /\ count' = count - 1
        /\ buffer' = buffer
    BY <1>3 DEF Read
  <2>2. /\ Contents # <<>>
        /\ Tail(Contents) \in Seq(Msg)
        /\ Len(Tail(Contents)) = count - 1
        /\ \A k \in 1 .. count - 1 : Tail(Contents)[k] = Contents[k + 1]
        /\ Head(Contents) = Contents[1]
    BY <1>1, <1>3, ContentsSeq, HeadTailProperties
  <2>3. got' = Head(Contents)
    <3>1. 1 \in 1 .. count /\ head + 1 - 1 = head + 0
      BY <1>1, <1>3
    <3>2. (head + 0) % N = head
      BY <1>1, IndexShift
    <3> QED
      BY <2>1, <2>2, <3>1, <3>2, ContentsSeq
  <2>4. ASSUME NEW k \in 1 .. count - 1
        PROVE  Contents'[k] = Tail(Contents)[k]
    <3>1. /\ k - 1 \in 0 .. N - 1 /\ k + 1 \in 1 .. count
          /\ head + (k - 1) + 1 = head + (k + 1) - 1
          /\ After(head) + (k - 1) = After(head) + k - 1
      BY <1>1, <1>3, Position DEF Slot
    <3>2. (After(head) + (k - 1)) % N = (head + (k - 1) + 1) % N
      BY <1>1, <3>1, IndexShift
    <3>3. Contents'[k] = buffer[(After(head) + k - 1) % N]
      BY <2>1, ContentsSeqNext
    <3>4. Contents[k + 1] = buffer[(head + (k + 1) - 1) % N]
      BY <3>1, ContentsSeq
    <3> QED
      BY <2>2, <3>1, <3>2, <3>3, <3>4
  <2>5. Contents' = Tail(Contents)
    BY <1>1, <1>3, <2>1, <2>2, <2>4, ContentsSeqNext, SeqEqual
  <2> QED
    BY <2>1, <2>2, <2>3, <2>5 DEF Fifo!Read
<1> QED
  BY <1>2, <1>3

LEMMA ClearRefines ==
  ASSUME RingInv', Clear
  PROVE  Fifo!Clear
<1>1. Contents' = <<>>
  BY ContentsSeqNext, EmptySeq DEF Clear
<1> QED
  BY <1>1 DEF Clear, Fifo!Clear

(* MessageQueue implements BoundedFifo for every capacity: whatever the     *)
(* interleaving of write, read and clear, callers see a FIFO that overwrites *)
(* its oldest message when, and only when, it is full.                      *)
THEOREM RingImplementsFifo == Spec => ImplementsFifo
<1>1. Init => Fifo!Init
  BY InitRefines
<1>2. RingInv /\ RingInv' /\ [Next]_vars => [Fifo!Next]_(Fifo!fifoVars)
  <2> SUFFICES ASSUME RingInv, RingInv', [Next]_vars
               PROVE  [Fifo!Next]_(Fifo!fifoVars)
    OBVIOUS
  <2>1. ASSUME NEW m \in Msg, Write(m) PROVE Fifo!Next
    BY <2>1, WriteRefines DEF Fifo!Next
  <2>2. ASSUME Read PROVE Fifo!Next
    BY <2>2, ReadRefines DEF Fifo!Next
  <2>3. ASSUME Clear PROVE Fifo!Next
    BY <2>3, ClearRefines DEF Fifo!Next
  <2>4. CASE UNCHANGED vars
    BY <2>4 DEF vars, Contents, Fifo!fifoVars
  <2> QED
    BY <2>1, <2>2, <2>3, <2>4 DEF Next
<1>3. Spec => []RingInv
  BY RingInvariant, PTL DEF RingInv
<1> QED
  BY <1>1, <1>2, <1>3, PTL DEF Spec, ImplementsFifo, Fifo!Spec
=============================================================================
