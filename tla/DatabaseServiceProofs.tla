----------------------- MODULE DatabaseServiceProofs -----------------------
(***************************************************************************)
(* The two threads over the ring and the database statements implement     *)
(* DatabaseApp, and "ready" means in the database.  Nothing about the ring *)
(* or the statements is proved again: the invariants of MessageQueueProofs *)
(* and DbRetentionProofs, and what DatabaseAppProofs shows of the threads, *)
(* are instantiated as DatabaseService instantiates the modules themselves.*)
(***************************************************************************)
EXTENDS DatabaseService, SequenceTheorems, FiniteSetTheorems, TLAPS

RingP == INSTANCE MessageQueueProofs
           WITH Msg <- Messages, Capacity <- QueueSize, got <- msg, ok <- more
DbP == INSTANCE DbRetentionProofs
         WITH Inherited <- {}, MaxWrites <- MaxReports, MaxDrops <- 0, MaxSelects <- 0,
              client <- "idle", ask <- [channel |-> 0, id |-> 0],
              toScan <- {}, found <- {},
              owed <- {}, taken <- {}, drops <- 0, selects <- 0
AppP == INSTANCE DatabaseAppProofs WITH WritesMayFail <- TRUE, queue <- Queued, msg <- msg.id
-----------------------------------------------------------------------------
(* The assumptions of the three components hold here. *)
LEMMA Numbers ==
  /\ QueueSize \in Nat \ {0} /\ MaxTables \in Nat \ {0}
  /\ MaxChannels \in Nat /\ MaxReports \in Nat /\ MaxReboots \in Nat
  /\ MaxRestarts \in Nat /\ MaxFaults \in Nat
  BY ServiceAssumption

LEMMA MessagesTyped ==
  Messages \subseteq [id : Nat, channel : Nat, date : Dates \cup {0}, regs : Nat]
<1> SUFFICES ASSUME NEW n \in 1 .. MaxReports, NEW b \in Bodies
             PROVE  Message(n, b) \in [id : Nat, channel : Nat, date : Dates \cup {0}, regs : Nat]
  BY DEF Messages
<1> QED  BY ServiceAssumption DEF Message

LEMMA DbAssumed ==
  /\ MaxChannels \in Nat /\ MaxTables \in Nat \ {0}
  /\ Dates \subseteq Nat \ {DbP!NoDate} /\ ListedDates \subseteq Dates /\ DbP!IsFiniteSet(Dates)
  /\ {} \subseteq ListedDates /\ DbP!Cardinality({}) <= MaxTables
  /\ Messages \subseteq [id : Nat, channel : Nat, date : Dates \cup {DbP!NoDate}, regs : Nat]
  /\ MaxReports \in Nat /\ 0 \in Nat /\ 0 \in Nat /\ MaxFaults \in Nat
<1>1. DbP!IsFiniteSet(Dates)
  BY ServiceAssumption DEF DbP!IsFiniteSet, IsFiniteSet
<1>2. DbP!Cardinality({}) = 0
  BY FS_EmptySet DEF DbP!Cardinality, Cardinality
<1> QED  BY <1>1, <1>2, Numbers, MessagesTyped, ServiceAssumption DEF DbP!NoDate

(* The components as DatabaseService names them and as their proofs do. *)
LEMMA SameSize == ASSUME NEW S PROVE Db!Cardinality(S) = DbP!Cardinality(S)
  BY DEF Db!Cardinality, DbP!Cardinality

LEMMA SameBegin == ASSUME NEW m PROVE Db!BeginWrite(m) <=> DbP!BeginWrite(m)
  BY DEF Db!BeginWrite, Db!NoHandle, Db!GetHandle, Db!Fails, Db!Works, Db!Return, Db!Channel,
         Db!NoDate, Db!database, Db!asking,
         DbP!BeginWrite, DbP!NoHandle, DbP!GetHandle, DbP!Fails, DbP!Works, DbP!Return,
         DbP!Channel, DbP!NoDate, DbP!database, DbP!asking

LEMMA SameList == Db!ListTables <=> DbP!ListTables
<1>1. \A c : Db!Listed(c) = DbP!Listed(c)
  BY DEF Db!Listed, DbP!Listed
<1>2. \A c, n : Db!TableNames(c, n) <=> DbP!TableNames(c, n)
  BY DEF Db!TableNames, Db!Listed, Db!Fails, Db!Works,
         DbP!TableNames, DbP!Listed, DbP!Fails, DbP!Works
<1>3. \A S, n : Db!OldestBeyond(n, S) = DbP!OldestBeyond(n, S)
  BY SameSize DEF Db!OldestBeyond, DbP!OldestBeyond
<1> QED  BY <1>1, <1>2, <1>3 DEF Db!ListTables, Db!msg, Db!database, Db!asking,
                                 DbP!ListTables, DbP!msg, DbP!database, DbP!asking

LEMMA SameWriter == Db!WriterStep <=> DbP!WriterStep
<1>1. Db!CheckTable <=> DbP!CheckTable
  BY DEF Db!CheckTable, Db!Fails, Db!Works, Db!Return, Db!msg, Db!database, Db!asking,
         DbP!CheckTable, DbP!Fails, DbP!Works, DbP!Return, DbP!msg, DbP!database, DbP!asking
<1>2. Db!CreateTable <=> DbP!CreateTable
  BY DEF Db!CreateTable, Db!Fails, Db!Works, Db!Return, Db!msg, Db!asking,
         DbP!CreateTable, DbP!Fails, DbP!Works, DbP!Return, DbP!msg, DbP!asking
<1>3. Db!DropOldest <=> DbP!DropOldest
  BY DEF Db!DropOldest, Db!IsOldest, Db!RemoveTable, Db!Fails, Db!Works, Db!msg, Db!database,
         Db!asking, DbP!DropOldest, DbP!IsOldest, DbP!RemoveTable, DbP!Fails, DbP!Works,
         DbP!msg, DbP!database, DbP!asking
<1>4. Db!InsertRow <=> DbP!InsertRow
  BY DEF Db!InsertRow, Db!Row, Db!Fails, Db!Works, Db!msg, Db!asking,
         DbP!InsertRow, DbP!Row, DbP!Fails, DbP!Works, DbP!msg, DbP!asking
<1>5. Db!InsertDone <=> DbP!InsertDone
  BY DEF Db!InsertDone, Db!Return, Db!msg, Db!database, Db!asking,
         DbP!InsertDone, DbP!Return, DbP!msg, DbP!database, DbP!asking
<1>6. Db!EndWrite <=> DbP!EndWrite
  BY DEF Db!EndWrite, Db!database, Db!asking, DbP!EndWrite, DbP!database, DbP!asking
<1> QED  BY <1>1, <1>2, <1>3, <1>4, <1>5, <1>6, SameList DEF Db!WriterStep, DbP!WriterStep

LEMMA SameDbRestart == Db!Restart <=> DbP!Restart
  BY DEF Db!Restart, Db!Fails, Db!database, DbP!Restart, DbP!Fails, DbP!database

LEMMA SameRing ==
  /\ Ring!Contents = RingP!Contents /\ Ring!N = RingP!N
  /\ Ring!Read <=> RingP!Read
  /\ \A m : Ring!Write(m) <=> RingP!Write(m)
  BY DEF Ring!Contents, Ring!N, Ring!Read, Ring!Write, Ring!After,
         RingP!Contents, RingP!N, RingP!Read, RingP!Write, RingP!After
-----------------------------------------------------------------------------
(***************************************************************************)
(* The inductive invariant: those of the ring and of the database, and     *)
(* what ties them together.  The writer is busy only while the reader      *)
(* stores, and then with the message the reader has taken from the ring;   *)
(* what counts as stored was answered true for.                            *)
(***************************************************************************)
Synced ==
  /\ reader = "store" => msg \in Messages
  /\ reader # "store" => writer = "idle"
  /\ writer # "idle" => DbP!msg = msg
StoredAnswered == \A i \in DOMAIN stored : \E w \in answered : log[w].id = stored[i]
SvcInv ==
  /\ RingP!RingInv /\ DbP!KeptInv
  /\ Synced /\ StoredAnswered
  /\ accepted \in Nat /\ stored \in Seq(Nat)

(* The two halves of the state and the steps that change them. *)
DbStays == UNCHANGED <<database, stored>>
RingStays == UNCHANGED <<ring, reading>>

LEMMA RingKept == RingP!RingInv /\ RingStays => RingP!RingInv'
<1> SUFFICES ASSUME RingP!RingInv, RingStays PROVE RingP!RingInv'
  OBVIOUS
<1>1. UNCHANGED <<buffer, head, tail, count, msg, more>>
  BY DEF RingStays, ring, reading
<1> QED  BY <1>1 DEF RingP!RingInv, RingP!TypeOK, RingP!CursorsAgree, RingP!ValidSlotsWritten,
                     RingP!Contents

(* The reader gives up its message for a new round. *)
LEMMA RingForgets ==
  ASSUME RingP!RingInv, UNCHANGED <<ring, more>>, msg' = NoMsg
  PROVE  RingP!RingInv'
<1>1. UNCHANGED <<buffer, head, tail, count, more>>
  BY DEF ring
<1> QED  BY <1>1 DEF RingP!RingInv, RingP!TypeOK, RingP!CursorsAgree, RingP!ValidSlotsWritten,
                     RingP!Contents

LEMMA RingStep ==
  RingP!RingInv /\ ((\E m \in Messages : Ring!Write(m)) \/ Ring!Read) => RingP!RingInv'
<1>1. QueueSize \in Nat
  BY Numbers
<1>2. ASSUME RingP!RingInv, NEW m \in Messages, Ring!Write(m) PROVE RingP!RingInv'
  BY <1>1, <1>2, SameRing, RingP!NextRing DEF RingP!Next
<1>3. ASSUME RingP!RingInv, Ring!Read PROVE RingP!RingInv'
  BY <1>1, <1>3, SameRing, RingP!NextRing DEF RingP!Next
<1> QED  BY <1>2, <1>3

LEMMA DbKept ==
  DbP!KeptInv /\ UNCHANGED database => DbP!KeptInv'
<1> SUFFICES ASSUME DbP!KeptInv, UNCHANGED database PROVE DbP!KeptInv'
  OBVIOUS
<1>1. UNCHANGED DbP!vars
  BY DEF database, DbP!vars, DbP!database, DbP!writing, DbP!asking
<1> QED  BY <1>1, DbAssumed, DbP!NextKept

LEMMA DbStep ==
  DbP!KeptInv /\ ((\E m \in Messages : Db!BeginWrite(m)) \/ Db!WriterStep \/ Db!Restart)
     => DbP!KeptInv'
<1> SUFFICES ASSUME DbP!KeptInv,
                    (\E m \in Messages : Db!BeginWrite(m)) \/ Db!WriterStep \/ Db!Restart
             PROVE  DbP!KeptInv'
  OBVIOUS
<1>1. DbP!Next
  BY SameBegin, SameWriter, SameDbRestart DEF DbP!Next
<1> QED  BY <1>1, DbAssumed, DbP!NextKept
-----------------------------------------------------------------------------
(***************************************************************************)
(* The ring as DatabaseApp sees it: the numbers of the messages, oldest    *)
(* first.                                                                  *)
(***************************************************************************)
Ids(s) == [k \in 1 .. Len(s) |-> s[k].id]

LEMMA IdTyped == ASSUME NEW m \in Messages PROVE m.id \in Nat
  BY MessagesTyped

LEMMA IdsOf ==
  ASSUME NEW s \in Seq(Messages)
  PROVE  /\ Ids(s) \in Seq(Nat) /\ Len(Ids(s)) = Len(s) /\ Len(s) \in Nat
         /\ \A k \in 1 .. Len(s) : Ids(s)[k] = s[k].id
<1>1. Len(s) \in Nat /\ \A k \in 1 .. Len(s) : s[k] \in Messages
  BY LenProperties, ElementOfSeq
<1>2. Ids(s) \in [1 .. Len(s) -> Nat]
  BY <1>1, IdTyped DEF Ids
<1>3. Ids(s) \in Seq(Nat)
  BY <1>1, <1>2, SeqDef
<1> QED  BY <1>1, <1>2, <1>3, LenProperties DEF Ids

LEMMA IdsAppend ==
  ASSUME NEW s \in Seq(Messages), NEW m \in Messages
  PROVE  Ids(Append(s, m)) = Append(Ids(s), m.id)
<1>1. /\ Append(s, m) \in Seq(Messages) /\ Len(Append(s, m)) = Len(s) + 1 /\ Len(s) \in Nat
      /\ \A k \in 1 .. Len(s) : Append(s, m)[k] = s[k]
      /\ Append(s, m)[Len(s) + 1] = m
  BY AppendProperties, IdsOf
<1>2. /\ Ids(s) \in Seq(Nat) /\ Len(Ids(s)) = Len(s)
      /\ \A k \in 1 .. Len(s) : Ids(s)[k] = s[k].id
  BY IdsOf
<1>3. /\ Ids(Append(s, m)) \in Seq(Nat) /\ Len(Ids(Append(s, m))) = Len(s) + 1
      /\ \A k \in 1 .. Len(s) + 1 : Ids(Append(s, m))[k] = Append(s, m)[k].id
  BY <1>1, IdsOf
<1>4. /\ Append(Ids(s), m.id) \in Seq(Nat) /\ Len(Append(Ids(s), m.id)) = Len(s) + 1
      /\ \A k \in 1 .. Len(s) : Append(Ids(s), m.id)[k] = Ids(s)[k]
      /\ Append(Ids(s), m.id)[Len(s) + 1] = m.id
  BY <1>2, IdTyped, AppendProperties
<1>5. \A k \in 1 .. Len(s) + 1 : Ids(Append(s, m))[k] = Append(Ids(s), m.id)[k]
  BY <1>1, <1>2, <1>3, <1>4
<1> QED  BY <1>1, <1>3, <1>4, <1>5, SeqEqual

LEMMA IdsTail ==
  ASSUME NEW s \in Seq(Messages), s # <<>>
  PROVE  /\ Ids(Tail(s)) = Tail(Ids(s)) /\ Tail(s) \in Seq(Messages)
         /\ Ids(s) # <<>> /\ Head(Ids(s)) = Head(s).id /\ Head(s) \in Messages
         /\ Ids(s)[1] = Head(Ids(s))
<1>1. /\ Head(s) \in Messages /\ Tail(s) \in Seq(Messages) /\ Len(Tail(s)) = Len(s) - 1
      /\ \A k \in 1 .. Len(Tail(s)) : Tail(s)[k] = s[k + 1]
      /\ Head(s) = s[1]
  BY HeadTailProperties
<1>2. Len(s) \in Nat /\ Len(s) # 0
  BY EmptySeq, IdsOf
<1>3. /\ Ids(s) \in Seq(Nat) /\ Len(Ids(s)) = Len(s) /\ Ids(s) # <<>>
      /\ \A k \in 1 .. Len(s) : Ids(s)[k] = s[k].id
  BY <1>2, IdsOf, EmptySeq
<1>4. /\ Tail(Ids(s)) \in Seq(Nat) /\ Len(Tail(Ids(s))) = Len(s) - 1
      /\ \A k \in 1 .. Len(s) - 1 : Tail(Ids(s))[k] = Ids(s)[k + 1]
      /\ Head(Ids(s)) = Ids(s)[1]
  BY <1>3, HeadTailProperties
<1>5. /\ Ids(Tail(s)) \in Seq(Nat) /\ Len(Ids(Tail(s))) = Len(s) - 1
      /\ \A k \in 1 .. Len(s) - 1 : Ids(Tail(s))[k] = Tail(s)[k].id
  BY <1>1, IdsOf
<1>6. \A k \in 1 .. Len(s) - 1 : k + 1 \in 1 .. Len(s)
  BY <1>2
<1>7. \A k \in 1 .. Len(s) - 1 : Ids(Tail(s))[k] = Tail(Ids(s))[k]
  BY <1>1, <1>3, <1>4, <1>5, <1>6
<1>8. Ids(Tail(s)) = Tail(Ids(s))
  BY <1>4, <1>5, <1>7, SeqEqual
<1>9. Head(Ids(s)) = Head(s).id
  <2>1. 1 \in 1 .. Len(s)
    BY <1>2
  <2> QED  BY <1>1, <1>3, <1>4, <2>1
<1> QED  BY <1>1, <1>3, <1>4, <1>8, <1>9

LEMMA QueuedIds ==
  RingP!RingInv => /\ RingP!Contents \in Seq(Messages) /\ Len(RingP!Contents) = count
                   /\ Queued = Ids(RingP!Contents)
<1>1. QueueSize \in Nat
  BY Numbers
<1> QED  BY <1>1, SameRing, RingP!ContentsSeq DEF Queued, Ids

LEMMA QueuedIdsNext ==
  RingP!RingInv' => /\ RingP!Contents' \in Seq(Messages) /\ Len(RingP!Contents') = count'
                    /\ Queued' = Ids(RingP!Contents')
<1>1. QueueSize \in Nat
  BY Numbers
<1>2. Ring!Contents' = RingP!Contents'
  BY SameRing DEF Ring!Contents, Ring!N, RingP!Contents, RingP!N
<1> QED  BY <1>1, <1>2, RingP!ContentsSeqNext DEF Queued, Ids

(* What write() and read() do to it. *)
LEMMA WriteAdds ==
  ASSUME RingP!RingInv, NEW m \in Messages, Ring!Write(m)
  PROVE  /\ Queued' = Append(IF Len(Queued) = QueueSize THEN Tail(Queued) ELSE Queued, m.id)
         /\ count = Ring!N <=> Len(Queued) = QueueSize
         /\ count = Ring!N => Queued[1] = Head(Queued)
         /\ UNCHANGED <<msg, more>>
<1>1. /\ QueueSize \in Nat \ {0} /\ QueueSize \in Nat
      /\ RingP!Write(m) /\ RingP!RingInv' /\ Ring!N = QueueSize /\ RingP!N = QueueSize
  BY Numbers, SameRing, RingStep DEF RingP!N
<1>2. /\ RingP!Contents \in Seq(Messages) /\ Len(RingP!Contents) = count
      /\ Queued = Ids(RingP!Contents) /\ Queued' = Ids(RingP!Contents')
      /\ Len(Queued) = count
  BY <1>1, QueuedIds, QueuedIdsNext, IdsOf
<1>3. RingP!Contents' = Append(IF Len(RingP!Contents) = QueueSize THEN Tail(RingP!Contents)
                               ELSE RingP!Contents, m)
  <2>1. RingP!Fifo!Write(m)
    BY <1>1, RingP!WriteRefines
  <2> QED  BY <1>1, <2>1 DEF RingP!Fifo!Write, RingP!Fifo!Kept
<1>4. CASE count = QueueSize
  <2>1. RingP!Contents # <<>>
    BY <1>1, <1>2, <1>4, EmptySeq
  <2>2. /\ Tail(RingP!Contents) \in Seq(Messages)
        /\ Ids(Tail(RingP!Contents)) = Tail(Queued) /\ Queued[1] = Head(Queued)
    BY <1>2, <2>1, IdsTail
  <2>3. RingP!Contents' = Append(Tail(RingP!Contents), m)
    BY <1>2, <1>3, <1>4
  <2>4. Queued' = Append(Tail(Queued), m.id)
    BY <1>2, <2>2, <2>3, IdsAppend
  <2> QED  BY <1>1, <1>2, <1>4, <2>2, <2>4 DEF RingP!Write
<1>5. CASE count # QueueSize
  <2>1. RingP!Contents' = Append(RingP!Contents, m)
    BY <1>2, <1>3, <1>5
  <2>2. Queued' = Append(Queued, m.id)
    BY <1>2, <2>1, IdsAppend
  <2> QED  BY <1>1, <1>2, <1>5, <2>2 DEF RingP!Write
<1> QED  BY <1>4, <1>5

LEMMA ReadTakes ==
  ASSUME RingP!RingInv, Ring!Read
  PROVE  \/ Queued = <<>> /\ more' = FALSE /\ Queued' = Queued /\ msg' = msg
         \/ /\ Queued # <<>> /\ more' = TRUE /\ Queued' = Tail(Queued)
            /\ msg' \in Messages /\ msg'.id = Head(Queued)
<1>1. QueueSize \in Nat /\ RingP!Read /\ RingP!RingInv'
  BY Numbers, SameRing, RingStep
<1>2. /\ RingP!Contents \in Seq(Messages)
      /\ Queued = Ids(RingP!Contents) /\ Queued' = Ids(RingP!Contents')
  BY <1>1, QueuedIds, QueuedIdsNext
<1>3. RingP!Fifo!Read
  BY <1>1, RingP!ReadRefines
<1>4. CASE RingP!Contents = <<>> /\ more' = FALSE /\ UNCHANGED <<RingP!Contents, msg>>
  <2>1. Queued = <<>>
    <3>1. Len(RingP!Contents) = 0 /\ Len(Queued) = 0 /\ Queued \in Seq(Nat)
      BY <1>2, <1>4, IdsOf, EmptySeq
    <3> QED  BY <3>1, EmptySeq
  <2> QED  BY <1>2, <1>4, <2>1
<1>5. CASE /\ RingP!Contents # <<>> /\ msg' = Head(RingP!Contents)
           /\ RingP!Contents' = Tail(RingP!Contents) /\ more' = TRUE
  BY <1>2, <1>5, IdsTail
<1> QED  BY <1>3, <1>4, <1>5 DEF RingP!Fifo!Read
-----------------------------------------------------------------------------
LEMMA DbTyped ==
  ASSUME DbP!KeptInv
  PROVE  log \in Seq(Messages) /\ answered \subseteq 1 .. Len(log) /\ Len(log) \in Nat
<1>1. log \in Seq(Messages) /\ answered \subseteq 1 .. Len(log)
  BY DEF DbP!KeptInv, DbP!CleanupInv, DbP!TypeInv, DbP!TypeOK
<1> QED  BY <1>1, LenProperties

LEMMA DbStaysInv ==
  ASSUME SvcInv, DbStays
  PROVE  DbP!KeptInv' /\ StoredAnswered' /\ stored' \in Seq(Nat)
         /\ writer' = writer /\ DbP!msg' = DbP!msg
<1>1. UNCHANGED <<stored, answered, log, writer, database>>
  BY DEF DbStays, database
<1> QED  BY <1>1, DbKept DEF SvcInv, StoredAnswered, DbP!msg

(* A statement of the write: the message being written, and nothing else,   *)
(* is added to the log.                                                     *)
LEMMA WriteInv == SvcInv /\ WriteStep => SvcInv'
<1> SUFFICES ASSUME SvcInv, WriteStep PROVE SvcInv'
  OBVIOUS
<1>1. /\ RingStays /\ UNCHANGED <<reader, accepted, stored, msg>> /\ reader = "store"
      /\ Db!BeginWrite(msg) \/ (writer # "return" /\ Db!WriterStep)
      /\ msg \in Messages
  BY DEF WriteStep, RingStays, history, reading, SvcInv, Synced
<1>2. RingP!RingInv' /\ DbP!KeptInv'
  BY <1>1, RingKept, DbStep DEF SvcInv
<1>3. /\ log \in Seq(Messages) /\ answered \subseteq 1 .. Len(log) /\ Len(log) \in Nat
  BY DbTyped DEF SvcInv
<1>4. /\ answered' = answered /\ \A w \in 1 .. Len(log) : log'[w] = log[w]
      /\ DbP!msg' = msg
  <2>1. CASE Db!BeginWrite(msg)
    <3>1. log' = Append(log, msg) /\ answered' = answered
      BY <2>1 DEF Db!BeginWrite
    <3> QED  BY <1>1, <1>3, <3>1, AppendProperties DEF DbP!msg
  <2>2. CASE writer # "return" /\ Db!WriterStep
    <3>1. log' = log /\ answered' = answered /\ writer # "idle"
      BY <2>2 DEF Db!WriterStep, Db!CheckTable, Db!CreateTable, Db!ListTables, Db!DropOldest,
                  Db!InsertRow, Db!InsertDone, Db!EndWrite
    <3> QED  BY <3>1 DEF SvcInv, Synced, DbP!msg
  <2> QED  BY <1>1, <2>1, <2>2
<1>5. StoredAnswered'
  BY <1>1, <1>3, <1>4 DEF SvcInv, StoredAnswered
<1> QED  BY <1>1, <1>2, <1>4, <1>5 DEF SvcInv, Synced

(* The message that was taken is the one that was answered for. *)
LEMMA StoredInv == SvcInv /\ ReaderStored => SvcInv'
<1> SUFFICES ASSUME SvcInv, ReaderStored PROVE SvcInv'
  OBVIOUS
<1>1. /\ RingStays /\ UNCHANGED <<accepted, log>> /\ reader' = "drain"
      /\ writer = "return" /\ writer' = "idle" /\ Db!WriterStep
      /\ answered' = IF allSuccess THEN answered \cup {Len(log)} ELSE answered
      /\ \/ allSuccess /\ stored' = Append(stored, msg.id)
         \/ ~allSuccess /\ stored' = stored
  BY DEF ReaderStored, RingStays, Db!EndWrite, Db!WriterStep
<1>2. RingP!RingInv' /\ DbP!KeptInv'
  BY <1>1, RingKept, DbStep DEF SvcInv
<1>3. log[Len(log)] = msg /\ msg \in Messages /\ msg.id \in Nat
  BY <1>1, IdTyped DEF SvcInv, Synced, DbP!msg, ReaderStored
<1>4. stored' \in Seq(Nat) /\ StoredAnswered'
  <2>1. CASE allSuccess /\ stored' = Append(stored, msg.id)
    <3>1. /\ stored' \in Seq(Nat) /\ Len(stored') = Len(stored) + 1
          /\ \A i \in 1 .. Len(stored) : stored'[i] = stored[i]
          /\ stored'[Len(stored) + 1] = msg.id
          /\ Len(stored) \in Nat /\ DOMAIN stored = 1 .. Len(stored)
      BY <1>3, <2>1, AppendProperties, LenProperties DEF SvcInv
    <3>2. DOMAIN stored' = 1 .. (Len(stored) + 1)
      BY <3>1, LenProperties
    <3>3. \A i \in DOMAIN stored' : i \in DOMAIN stored \/ i = Len(stored) + 1
      BY <3>1, <3>2
    <3>4. answered' = answered \cup {Len(log)}
      BY <1>1, <2>1
    <3>5. ASSUME NEW i \in DOMAIN stored' PROVE \E w \in answered' : log'[w].id = stored'[i]
      <4>1. CASE i \in DOMAIN stored
        BY <1>1, <3>1, <3>4, <4>1 DEF SvcInv, StoredAnswered
      <4>2. CASE i = Len(stored) + 1
        BY <1>1, <1>3, <3>1, <3>4, <4>2
      <4> QED  BY <3>3, <4>1, <4>2
    <3> QED  BY <3>1, <3>5 DEF StoredAnswered
  <2>2. CASE ~allSuccess /\ stored' = stored
    BY <1>1, <2>2 DEF SvcInv, StoredAnswered
  <2> QED  BY <1>1, <2>1, <2>2
<1> QED  BY <1>1, <1>2, <1>4 DEF SvcInv, Synced

LEMMA RingStarts == RingP!Init => RingP!RingInv
  BY Numbers, RingP!InitRing

LEMMA NextSvc == SvcInv /\ [Next]_vars => SvcInv'
<1> SUFFICES ASSUME SvcInv, [Next]_vars PROVE SvcInv'
  OBVIOUS
(* The steps of the threads alone. *)
<1>1. ASSUME RingStays, DbStays, UNCHANGED accepted,
             (reader' = "store") = (reader = "store") PROVE SvcInv'
  BY <1>1, RingKept, DbStaysInv DEF SvcInv, Synced, RingStays, reading
<1>2. CASE \E b \in Bodies : Report(b)
  <2>1. PICK b \in Bodies : Report(b)
    BY <1>2
  <2> DEFINE m == Message(accepted + 1, b)
  <2>2. /\ Ring!Write(m) /\ DbStays /\ reader' = reader /\ accepted' = accepted + 1
        /\ m \in Messages /\ accepted \in Nat
    <3>1. accepted \in Nat /\ accepted < MaxReports
      BY <2>1 DEF SvcInv, Report
    <3>2. accepted + 1 \in 1 .. MaxReports
      BY <3>1, Numbers
    <3> QED  BY <2>1, <3>1, <3>2 DEF Report, DbStays, Messages
  <2> HIDE DEF m
  <2>3. RingP!RingInv' /\ msg' = msg
    BY <2>2, RingStep, WriteAdds DEF SvcInv
  <2>4. Synced' /\ accepted' \in Nat
    BY <2>2, <2>3, DbStaysInv DEF SvcInv, Synced
  <2> QED  BY <2>2, <2>3, <2>4, DbStaysInv DEF SvcInv
<1>3. CASE RequestReboot \/ CallbackStep \/ SpuriousWakeup
  BY <1>1, <1>3 DEF RequestReboot, CallbackStep, NotifyReader, AwaitFlush, Reply,
                    SpuriousWakeup, RingStays, DbStays, history
<1>4. CASE ReaderAwait \/ ReaderTimeout
  <2>1. /\ UNCHANGED <<ring, more, accepted>> /\ DbStays /\ reader = "wait"
        /\ reader' \in {"wait", "drain"}
        /\ msg' = msg \/ msg' = NoMsg
    BY <1>4 DEF ReaderAwait, ReaderTimeout, StartRound, DbStays, history
  <2>2. RingP!RingInv'
    BY <2>1, RingKept, RingForgets DEF SvcInv, RingStays, reading
  <2> QED  BY <2>1, <2>2, DbStaysInv DEF SvcInv, Synced
<1>5. CASE ReaderRead
  <2>1. /\ Ring!Read /\ DbStays /\ UNCHANGED accepted /\ reader = "drain"
        /\ reader' = IF more' THEN "store" ELSE "finish"
    BY <1>5 DEF ReaderRead, DbStays, history
  <2>2. RingP!RingInv' /\ (reader' = "store" => msg' \in Messages)
    BY <2>1, RingStep, ReadTakes DEF SvcInv
  <2> QED  BY <2>1, <2>2, DbStaysInv DEF SvcInv, Synced
<1>6. CASE WriteStep
  BY <1>6, WriteInv
<1>7. CASE ReaderStored
  BY <1>7, StoredInv
<1>8. CASE ReaderFinish \/ ReaderNotifyAll
  BY <1>1, <1>8 DEF ReaderFinish, ReaderNotifyAll, RingStays, DbStays, history
<1>9. CASE Restart
  <2>1. /\ Db!Restart /\ UNCHANGED <<accepted, stored, log, answered>>
        /\ writer' = "idle" /\ reader' = "wait"
        /\ buffer' = [i \in Ring!Slot |-> NoMsg] /\ head' = 0 /\ tail' = 0 /\ count' = 0
        /\ msg' = NoMsg /\ more' = FALSE
    BY <1>9 DEF Restart, Db!Restart
  <2>2. RingP!RingInv'
    <3>1. RingP!Init'
      BY <2>1 DEF RingP!Init, Ring!Slot, RingP!Slot, Ring!N, RingP!N
    <3> QED  BY <3>1, RingStarts, PTL
  <2>3. DbP!KeptInv'
    BY <2>1, DbStep DEF SvcInv
  <2> QED  BY <2>1, <2>2, <2>3 DEF SvcInv, Synced, StoredAnswered
<1>10. CASE UNCHANGED vars
  BY <1>1, <1>10 DEF vars, RingStays, DbStays, history
<1> QED  BY <1>2, <1>3, <1>4, <1>5, <1>6, <1>7, <1>8, <1>9, <1>10 DEF Next, ReaderStep
-----------------------------------------------------------------------------
(***************************************************************************)
(* Refinement of DatabaseApp: what each step is there.                     *)
(***************************************************************************)
LEMMA ReportApp ==
  ASSUME SvcInv, NEW b \in Bodies, Report(b) PROVE App!Report
<1>1. accepted \in Nat /\ accepted < MaxReports
  BY DEF SvcInv, Report
<1>2. accepted + 1 \in 1 .. MaxReports
  BY <1>1, Numbers
<1> DEFINE m == Message(accepted + 1, b)
<1>3. m \in Messages /\ m.id = accepted + 1 /\ Ring!Write(m)
  BY <1>2 DEF Messages, Message, Report
<1> HIDE DEF m
<1>4. /\ Queued' = Append(IF Len(Queued) = QueueSize THEN Tail(Queued) ELSE Queued, accepted + 1)
      /\ count = Ring!N <=> Len(Queued) = QueueSize
      /\ count = Ring!N => Queued[1] = Head(Queued)
      /\ UNCHANGED <<msg, more>>
  BY <1>3, WriteAdds DEF SvcInv
<1>5. App!Fifo!Write(accepted + 1)
  BY <1>4 DEF App!Fifo!Write, App!Fifo!Kept
<1>6. overwritten' = IF Len(Queued) = QueueSize THEN overwritten \cup {Head(Queued)}
                     ELSE overwritten
  BY <1>4 DEF Report
<1> QED  BY <1>5, <1>6 DEF Report, App!Report, flags

LEMMA ReadApp ==
  ASSUME SvcInv, ReaderRead PROVE App!ReaderRead
<1>1. Ring!Read /\ reader = "drain" /\ reader' = IF more' THEN "store" ELSE "finish"
  BY DEF ReaderRead
<1>2. App!Fifo!Read
  BY <1>1, ReadTakes DEF SvcInv, App!Fifo!Read
<1> QED  BY <1>1, <1>2 DEF ReaderRead, App!ReaderRead, App!history, flags, history

LEMMA RestartApp ==
  ASSUME SvcInv, Restart PROVE App!Restart
<1>1. /\ Queued = Ids(RingP!Contents) /\ Len(Queued) = count /\ Queued \in Seq(Nat)
      /\ DOMAIN Queued = 1 .. count
  <2>1. RingP!Contents \in Seq(Messages) /\ Len(RingP!Contents) = count /\ Queued = Ids(RingP!Contents)
    BY QueuedIds DEF SvcInv
  <2>2. Queued \in Seq(Nat) /\ Len(Queued) = count
    BY <2>1, IdsOf
  <2> QED  BY <2>1, <2>2, LenProperties
<1>2. App!Pending = InMemory
  BY <1>1 DEF App!Pending, App!Range, InMemory
<1>3. Queued' = <<>>
  <2>1. count' = 0 /\ RingP!RingInv'
    BY NextSvc DEF Restart, SvcInv, Next
  <2>2. RingP!Contents' \in Seq(Messages) /\ Len(RingP!Contents') = 0
        /\ Queued' = Ids(RingP!Contents')
    BY <2>1, QueuedIdsNext
  <2>3. Queued' \in Seq(Nat) /\ Len(Queued') = 0
    BY <2>2, IdsOf
  <2> QED  BY <2>3, EmptySeq
<1> QED  BY <1>2, <1>3 DEF Restart, App!Restart, NoMsg

LEMMA QueuedStays == UNCHANGED ring => UNCHANGED Queued
  BY DEF ring, Queued, Ring!Contents, Ring!N

LEMMA StepApp == SvcInv /\ [Next]_vars => [App!Next]_(App!vars)
<1> SUFFICES ASSUME SvcInv, [Next]_vars PROVE [App!Next]_(App!vars)
  OBVIOUS
<1>1. CASE \E b \in Bodies : Report(b)
  BY <1>1, ReportApp DEF App!Next
<1>2. CASE RequestReboot
  BY <1>2, QueuedStays DEF RequestReboot, App!RequestReboot, App!Next, reading
<1>3. CASE NotifyReader
  BY <1>3, QueuedStays DEF NotifyReader, App!NotifyReader, App!CallbackStep, App!Next,
                           reading, flags, history, App!history
<1>4. CASE AwaitFlush
  BY <1>4, QueuedStays DEF AwaitFlush, App!AwaitFlush, App!CallbackStep, App!Next,
                           reading, flags, history, App!history
<1>5. CASE Reply
  BY <1>5, QueuedStays DEF Reply, App!Reply, App!CallbackStep, App!Next, reading, flags
<1>6. CASE ReaderAwait
  BY <1>6, QueuedStays DEF ReaderAwait, App!ReaderAwait, App!ReaderStep, App!Next, StartRound,
                           App!StartRound, NoMsg, flags, history, App!history
<1>7. CASE ReaderRead
  BY <1>7, ReadApp DEF App!ReaderStep, App!Next
<1>8. CASE WriteStep
  BY <1>8, QueuedStays DEF WriteStep, App!vars, App!memory, App!history, reading, flags, history
<1>9. CASE ReaderStored
  BY <1>9, QueuedStays DEF ReaderStored, App!ReaderStore, App!ReaderStep, App!Next, reading, flags
<1>10. CASE ReaderFinish
  BY <1>10, QueuedStays DEF ReaderFinish, App!ReaderFinish, App!ReaderStep, App!Next,
                            reading, history, App!history
<1>11. CASE ReaderNotifyAll
  BY <1>11, QueuedStays DEF ReaderNotifyAll, App!ReaderNotifyAll, App!ReaderStep, App!Next,
                            reading, flags, history, App!history
<1>12. CASE ReaderTimeout
  BY <1>12, QueuedStays DEF ReaderTimeout, App!ReaderTimeout, App!Next, StartRound,
                            App!StartRound, NoMsg, flags, history, App!history
<1>13. CASE SpuriousWakeup
  BY <1>13, QueuedStays DEF SpuriousWakeup, App!SpuriousWakeup, App!Next,
                            reading, flags, history, App!history
<1>14. CASE Restart
  BY <1>14, RestartApp DEF App!Next
<1>15. CASE UNCHANGED vars
  BY <1>15, QueuedStays DEF vars, App!vars, App!memory, App!history, reading, flags, history
<1> QED  BY <1>1, <1>2, <1>3, <1>4, <1>5, <1>6, <1>7, <1>8, <1>9, <1>10, <1>11, <1>12,
            <1>13, <1>14, <1>15 DEF Next, CallbackStep, ReaderStep

LEMMA InitSvc == Init => SvcInv /\ App!Init
<1> SUFFICES ASSUME Init PROVE SvcInv /\ App!Init
  OBVIOUS
<1>1. RingP!RingInv /\ count = 0
  <2>1. RingP!Init
    BY DEF Init, Ring!Init, Ring!Slot, Ring!N, RingP!Init, RingP!Slot, RingP!N
  <2> QED  BY <2>1, RingStarts DEF RingP!Init
<1>2. DbP!KeptInv
  <2>1. DbP!Init
    BY DEF Init, Db!Channel, DbP!Init, DbP!Channel
  <2> QED  BY <2>1, DbAssumed, DbP!InitKept
<1>3. stored = <<>> /\ stored \in Seq(Nat) /\ DOMAIN stored = {}
  <2>1. stored = <<>> /\ stored \in Seq(Nat) /\ Len(stored) = 0
    BY EmptySeq DEF Init
  <2> QED  BY <2>1, LenProperties
<1>4. Queued = <<>>
  <2>1. RingP!Contents \in Seq(Messages) /\ Len(RingP!Contents) = 0 /\ Queued = Ids(RingP!Contents)
    BY <1>1, QueuedIds
  <2>2. Queued \in Seq(Nat) /\ Len(Queued) = 0
    BY <2>1, IdsOf
  <2> QED  BY <2>2, EmptySeq
<1>5. SvcInv
  BY <1>1, <1>2, <1>3 DEF Init, SvcInv, Synced, StoredAnswered
<1> QED  BY <1>4, <1>5 DEF Init, Ring!Init, App!Init, NoMsg

LEMMA SvcInvariant == Spec => []SvcInv
  BY InitSvc, NextSvc, PTL DEF Spec

(* The threads over the real ring and the real statements implement         *)
(* DatabaseApp, whatever statement fails and wherever the process dies: a   *)
(* report goes through the ring as through its FIFO, and writeMessage() is  *)
(* one step, the one that answers.                                          *)
THEOREM ServiceImplementsApp == Spec => ImplementsApp
<1>1. Init => App!Init
  BY InitSvc
<1> QED  BY <1>1, StepApp, SvcInvariant, PTL DEF Spec, ImplementsApp, App!Spec

(* So what DatabaseAppProofs shows holds of the service. *)
LEMMA SameApp == App!Spec => AppP!Spec
<1>1. App!Init => AppP!Init
  BY DEF App!Init, AppP!Init
<1>2. App!vars = AppP!vars /\ App!vars' = AppP!vars'
  BY DEF App!vars, App!memory, App!history, AppP!vars, AppP!memory, AppP!history
<1>3. App!Pending = AppP!Pending
  BY DEF App!Pending, App!Range, AppP!Pending, AppP!Range
<1>4. App!Next => AppP!Next
  <2>1. App!Report => AppP!Report
    BY DEF App!Report, App!Fifo!Write, App!Fifo!Kept, AppP!Report, AppP!Fifo!Write, AppP!Fifo!Kept
  <2>2. App!RequestReboot => AppP!RequestReboot
    BY DEF App!RequestReboot, AppP!RequestReboot
  <2>3. App!CallbackStep => AppP!CallbackStep
    BY DEF App!CallbackStep, App!NotifyReader, App!AwaitFlush, App!Reply, App!history,
           AppP!CallbackStep, AppP!NotifyReader, AppP!AwaitFlush, AppP!Reply, AppP!history
  <2>4. App!ReaderAwait => AppP!ReaderAwait
    BY DEF App!ReaderAwait, App!StartRound, App!history,
           AppP!ReaderAwait, AppP!StartRound, AppP!history
  <2>5. App!ReaderRead => AppP!ReaderRead
    BY DEF App!ReaderRead, App!Fifo!Read, App!history, AppP!ReaderRead, AppP!Fifo!Read, AppP!history
  <2>6. App!ReaderStore => AppP!ReaderStore
    BY DEF App!ReaderStore, AppP!ReaderStore
  <2>7. App!ReaderFinish \/ App!ReaderNotifyAll => AppP!ReaderFinish \/ AppP!ReaderNotifyAll
    BY DEF App!ReaderFinish, App!ReaderNotifyAll, App!history,
           AppP!ReaderFinish, AppP!ReaderNotifyAll, AppP!history
  <2>8. App!ReaderTimeout \/ App!SpuriousWakeup => AppP!ReaderTimeout \/ AppP!SpuriousWakeup
    BY DEF App!ReaderTimeout, App!SpuriousWakeup, App!StartRound, App!history,
           AppP!ReaderTimeout, AppP!SpuriousWakeup, AppP!StartRound, AppP!history
  <2>9. App!Restart => AppP!Restart
    BY <1>3 DEF App!Restart, AppP!Restart
  <2> QED  BY <2>1, <2>2, <2>3, <2>4, <2>5, <2>6, <2>7, <2>8, <2>9
           DEF App!Next, App!ReaderStep, AppP!Next, AppP!ReaderStep
<1>5. [App!Next]_(App!vars) => [AppP!Next]_(AppP!vars)
  BY <1>2, <1>4
<1> QED  BY <1>1, <1>5, PTL DEF App!Spec, AppP!Spec

LEMMA AppAssumed ==
  /\ QueueSize \in Nat \ {0} /\ TRUE \in BOOLEAN
  /\ MaxReports \in Nat /\ MaxReboots \in Nat /\ MaxRestarts \in Nat
  BY Numbers

LEMMA ServiceInvariants ==
  Spec => [](SvcInv /\ AppP!ReplyMeansDrained /\ AppP!EveryMessageAccounted)
<1>1. AppP!Spec => []AppP!ReplyMeansDrained
  BY AppAssumed, AppP!RepliesAreDrained
<1>2. AppP!Spec => []AppP!EveryMessageAccounted
  BY AppAssumed, AppP!MessagesAccountedFor
<1> QED  BY <1>1, <1>2, SvcInvariant, ServiceImplementsApp, SameApp, PTL DEF ImplementsApp

(* What was stored is in its table, or older than the tables that are kept. *)
LEMMA StoredIsKept ==
  ASSUME SvcInv, NEW i \in DOMAIN stored
  PROVE  \E w \in DOMAIN log : log[w].id = stored[i] /\ (Db!StoredAll(w) \/ Db!Superseded(w))
<1>1. PICK w \in answered : log[w].id = stored[i]
  BY DEF SvcInv, StoredAnswered
<1>2. w \in DOMAIN log
  <2>1. log \in Seq(Messages) /\ answered \subseteq 1 .. Len(log)
    BY DbTyped DEF SvcInv
  <2> QED  BY <2>1, LenProperties
<1>3. DbP!StoredAll(w) \/ DbP!Superseded(w)
  BY DEF SvcInv, DbP!KeptInv, DbP!Kept
<1>4. DbP!StoredAll(w) => Db!StoredAll(w)
  BY DEF DbP!StoredAll, DbP!InTable, DbP!Row, DbP!Channel,
         Db!StoredAll, Db!InTable, Db!Row, Db!Channel
<1>5. DbP!Superseded(w) => Db!Superseded(w)
  BY SameSize DEF DbP!Superseded, DbP!Newer, DbP!Listed, Db!Superseded, Db!Newer, Db!Listed
<1> QED  BY <1>1, <1>2, <1>3, <1>4, <1>5

(* When "ready" is said to a request that came in time, every message       *)
(* accepted so far has all its rows in the database, unless it was          *)
(* overwritten, lost or reported as failed, or its table was outlived by    *)
(* MaxTables newer ones: through the ring, the reader and each statement.   *)
THEOREM ReadyIsInDatabase == Spec => []ReadyMeansInDatabase
<1>1. SvcInv /\ AppP!ReplyMeansDrained /\ AppP!EveryMessageAccounted => ReadyMeansInDatabase
  <2> SUFFICES ASSUME SvcInv, AppP!ReplyMeansDrained, AppP!EveryMessageAccounted,
                      callback = "reply", ~late,
                      NEW n \in 1 .. accepted \ (overwritten \cup lost \cup failed)
               PROVE  \E w \in DOMAIN log :
                         log[w].id = n /\ (Db!StoredAll(w) \/ Db!Superseded(w))
    BY DEF ReadyMeansInDatabase
  <2>1. AppP!Pending = {}
    BY DEF AppP!ReplyMeansDrained
  <2>2. \E i \in DOMAIN stored : stored[i] = n
    <3>1. n \in UNION AppP!Range(AppP!Fates)
      BY DEF AppP!EveryMessageAccounted
    <3>2. PICK i \in DOMAIN AppP!Fates : n \in AppP!Fates[i]
      BY <3>1 DEF AppP!Range
    <3>3. i \in 1 .. 5
      BY <3>2 DEF AppP!Fates
    <3>4. i \in {1, 2, 3, 4, 5}
      BY <3>3
    <3>5. /\ AppP!Fates[1] = AppP!Pending /\ AppP!Fates[2] = AppP!Range(stored)
          /\ AppP!Fates[3] = failed /\ AppP!Fates[4] = overwritten /\ AppP!Fates[5] = lost
      BY DEF AppP!Fates
    <3>6. n \in AppP!Range(stored)
      BY <2>1, <3>2, <3>4, <3>5
    <3> QED  BY <3>6 DEF AppP!Range
  <2> QED  BY <2>2, StoredIsKept
<1> QED  BY <1>1, ServiceInvariants, PTL

(* What was shown of the two threads holds with the ring and the statements *)
(* under them: a restart loses nothing that was accepted before a timely    *)
(* "ready", and no wake-up is lost on the way to one.                       *)
THEOREM ServiceKeepsPromises == Spec => App!ReadySurvivesRestart /\ []App!NoLostWakeup
<1>1. AppP!Spec => AppP!ReadySurvivesRestart
  BY AppAssumed, AppP!ReadyIsDurable
<1>2. AppP!Spec => []AppP!NoLostWakeup
  BY AppAssumed, AppP!WakeupsArrive
<1>3. AppP!NoLostWakeup => App!NoLostWakeup
  BY DEF App!NoLostWakeup, AppP!NoLostWakeup
<1>4. App!vars = AppP!vars /\ App!vars' = AppP!vars'
  BY DEF App!vars, App!memory, App!history, AppP!vars, AppP!memory, AppP!history
<1>5. [\A m \in lost' \ lost : m > promised]_(AppP!vars)
        => [\A m \in lost' \ lost : m > promised]_(App!vars)
  BY <1>4
<1> QED  BY <1>1, <1>2, <1>3, <1>5, ServiceImplementsApp, SameApp, PTL
         DEF ImplementsApp, App!ReadySurvivesRestart, AppP!ReadySurvivesRestart
=============================================================================
