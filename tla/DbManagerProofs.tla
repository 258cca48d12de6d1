-------------------------- MODULE DbManagerProofs --------------------------
(***************************************************************************)
(* Where the rows of a message are, and that writeMessage() answers with   *)
(* the truth about them: for any channels, dates and messages, with a      *)
(* restart or a failed statement anywhere and any client.                  *)
(***************************************************************************)
EXTENDS DbManager, SequenceTheorems, TLAPS

RowType == [write : 1 .. Len(log), reg : Nat]
RowsTyped == rows \in [Channel -> [Dates -> Seq(RowType)]]

(* While writeMessage() is under way it has a message. *)
HasMessage == writer # "idle" => Len(log) # 0

TypeInv == TypeOK /\ RowsTyped /\ HasMessage

LEMMA DbNumbers ==
  /\ MaxChannels \in Nat /\ MaxTables \in Nat \ {0} /\ MaxFaults \in Nat
  /\ Dates \subseteq Nat \ {NoDate} /\ ListedDates \subseteq Dates
  /\ Inherited \subseteq ListedDates
  /\ Messages \subseteq [id : Nat, channel : Nat, date : Dates \cup {NoDate}, regs : Nat]
  BY DbAssumption

LEMMA LogLen == ASSUME TypeOK PROVE Len(log) \in Nat /\ DOMAIN log = 1 .. Len(log)
  BY LenProperties DEF TypeOK

LEMMA MsgTyped ==
  ASSUME TypeInv, writer # "idle"
  PROVE  msg \in Messages /\ msg.regs \in Nat /\ Len(log) \in Nat /\ Len(log) \in 1 .. Len(log)
<1>1. Len(log) \in Nat /\ Len(log) # 0
  BY LogLen DEF TypeInv, HasMessage
<1>2. Len(log) \in 1 .. Len(log)
  BY <1>1
<1>3. msg \in Messages
  BY <1>2, ElementOfSeq DEF TypeInv, TypeOK, msg
<1> QED  BY <1>1, <1>2, <1>3, DbNumbers

LEMMA FaultTyped == ASSUME TypeOK, Works \/ Fails PROVE faults' \in 0 .. MaxFaults
  BY DbNumbers DEF TypeOK, Works, Fails

(* A table whose rows go, and a row that comes. *)
LEMMA Removed ==
  ASSUME TypeInv, NEW c \in Channel, NEW d \in Dates, RemoveTable(c, d), log' = log
  PROVE  dates' \in [Channel -> SUBSET Dates] /\ RowsTyped' /\ owed' \subseteq owed
<1>1. /\ dates \in [Channel -> SUBSET Dates]
      /\ rows \in [Channel -> [Dates -> Seq(RowType)]]
  BY DEF TypeInv, TypeOK, RowsTyped
<1>2. <<>> \in Seq(RowType) /\ RowType' = RowType
  BY EmptySeq DEF RowType
<1>3. /\ dates' = [dates EXCEPT ![c] = @ \ {d}]
      /\ rows' = [rows EXCEPT ![c][d] = <<>>]
      /\ owed' \subseteq owed
  BY DEF RemoveTable
<1>4. rows' \in [Channel -> [Dates -> Seq(RowType)]]
  BY <1>1, <1>2, <1>3
<1>5. dates' \in [Channel -> SUBSET Dates]
  BY <1>1, <1>3
<1> QED  BY <1>2, <1>3, <1>4, <1>5 DEF RowsTyped

Inserted ==
  rows' = [rows EXCEPT ![msg.channel][msg.date] = Append(@, Row(Len(log), reg + 1))]

LEMMA InsertedRows ==
  ASSUME TypeInv, writer = "insert", Inserted, log' = log
  PROVE  /\ RowsTyped'
         /\ \A e \in Channel, f \in Dates :
              rows'[e][f] = IF e = msg.channel /\ f = msg.date
                            THEN Append(rows[e][f], Row(Len(log), reg + 1)) ELSE rows[e][f]
<1>1. rows \in [Channel -> [Dates -> Seq(RowType)]]
  BY DEF TypeInv, RowsTyped
<1>2. msg.channel \in Channel /\ msg.date \in Dates /\ reg \in Nat
  BY DEF TypeInv, TypeOK
<1>3. Row(Len(log), reg + 1) \in RowType
  BY <1>2, MsgTyped DEF Row, RowType
<1> DEFINE c == msg.channel
           d == msg.date
           w == Row(Len(log), reg + 1)
<1>4. rows' = [rows EXCEPT ![c][d] = Append(rows[c][d], w)]
  BY <1>1, <1>2 DEF Inserted
<1>5. Append(rows[c][d], w) \in Seq(RowType)
  BY <1>1, <1>2, <1>3, AppendProperties
<1>6. rows' \in [Channel -> [Dates -> Seq(RowType)]]
  BY <1>1, <1>2, <1>4, <1>5
<1>7. \A e \in Channel, f \in Dates :
         rows'[e][f] = IF e = c /\ f = d THEN Append(rows[e][f], w) ELSE rows[e][f]
  BY <1>1, <1>2, <1>4
<1>8. RowType' = RowType
  BY DEF RowType
<1> QED  BY <1>6, <1>7, <1>8 DEF RowsTyped

(* The log grows by the message of a new call. *)
LEMMA Logged ==
  ASSUME TypeInv, NEW m \in Messages, log' = Append(log, m)
  PROVE  /\ log' \in Seq(Messages) /\ Len(log') = Len(log) + 1 /\ Len(log) \in Nat
         /\ \A w \in 1 .. Len(log) : log'[w] = log[w]
         /\ msg' = m /\ RowType \subseteq RowType'
<1>1. /\ log' \in Seq(Messages) /\ Len(log') = Len(log) + 1
      /\ \A w \in 1 .. Len(log) : log'[w] = log[w]
      /\ log'[Len(log) + 1] = m
  BY AppendProperties DEF TypeInv, TypeOK
<1>2. Len(log) \in Nat
  BY LogLen DEF TypeInv
<1>3. 1 .. Len(log) \subseteq 1 .. Len(log')
  BY <1>1, <1>2
<1>4. RowType \subseteq RowType'
  BY <1>3 DEF RowType
<1> QED  BY <1>1, <1>2, <1>4 DEF msg

LEMMA SeqWiden ==
  ASSUME NEW S, NEW T, S \subseteq T, NEW s \in Seq(S)
  PROVE  s \in Seq(T)
<1>1. Len(s) \in Nat /\ s \in [1 .. Len(s) -> S]
  BY LenProperties
<1>2. s \in [1 .. Len(s) -> T]
  BY <1>1
<1> QED  BY <1>1, <1>2, SeqDef

LEMMA SameRows ==
  ASSUME RowsTyped, rows' = rows, RowType \subseteq RowType' PROVE RowsTyped'
<1>1. \A c \in Channel, d \in Dates : rows[c][d] \in Seq(RowType')
  BY SeqWiden DEF RowsTyped
<1>2. rows \in [Channel -> [Dates -> Seq(RowType')]]
  BY <1>1 DEF RowsTyped
<1> QED  BY <1>2 DEF RowsTyped

LEMMA RowsOfType ==
  ASSUME RowsTyped, NEW c \in Channel, NEW d \in Dates
  PROVE  rows[c][d] \in Seq([write : 1 .. Len(log), reg : Nat])
  BY DEF RowsTyped, RowType

LEMMA InitType == Init => TypeInv
<1> SUFFICES ASSUME Init PROVE TypeInv
  OBVIOUS
<1>1. log \in Seq(Messages) /\ Len(log) = 0
  BY EmptySeq DEF Init
<1>2. <<>> \in Seq(RowType)
  BY EmptySeq
<1>3. RowsTyped
  BY <1>2 DEF Init, RowsTyped
<1>4. \A c \in Channel, d \in Dates :
         rows[c][d] \in Seq([write : 1 .. Len(log), reg : Nat])
  BY <1>3, RowsOfType
<1>5. /\ handles = {} /\ dates = [c \in Channel |-> Inherited]
      /\ writer = "idle" /\ doomed = {} /\ reg = 0 /\ allSuccess = FALSE
      /\ client = "idle" /\ toScan = {} /\ answered = {} /\ owed = {}
      /\ taken = {} /\ drops = 0 /\ faults = 0
  BY DEF Init
<1>6. dates \in [Channel -> SUBSET Dates] /\ 0 \in 0 .. MaxFaults
  BY <1>5, DbNumbers
<1>7. TypeOK
  BY <1>1, <1>4, <1>5, <1>6 DEF TypeOK
<1> QED  BY <1>3, <1>5, <1>7 DEF TypeInv, HasMessage

(* What the steps of writeMessage() after its first leave alone. *)
WriterKeeps ==
  /\ UNCHANGED <<handles, log, client, ask, toScan, drops, taken, answered>>
  /\ owed' \subseteq owed /\ (Works \/ Fails)

(* A step of the writer that keeps the types of what it changes. *)
LEMMA WriterTypes ==
  ASSUME TypeInv, WriterKeeps, RowsTyped', dates' \in [Channel -> SUBSET Dates],
         writer # "idle",
         writer' \in {"create", "list", "drop", "insert"} => writer \in {"check", "create", "list", "drop", "insert"},
         writer' \in {"create", "list", "drop", "insert", "return"},
         doomed' \subseteq ListedDates, reg' \in Nat, allSuccess' \in BOOLEAN
  PROVE  TypeInv'
<1>1. /\ TypeOK /\ HasMessage /\ log' = log /\ msg' = msg
  BY DEF TypeInv, WriterKeeps, msg
<1>2. faults' \in 0 .. MaxFaults
  BY <1>1, FaultTyped DEF WriterKeeps
<1>3. \A c \in Channel, d \in Dates :
         rows'[c][d] \in Seq([write : 1 .. Len(log'), reg : Nat])
  BY DEF RowsTyped, RowType
<1>4. writer' \notin {"idle", "return"} => msg'.channel \in handles' /\ msg'.date \in Dates
  BY <1>1 DEF WriterKeeps, TypeOK
<1>5. TypeOK'
  BY <1>1, <1>2, <1>3, <1>4 DEF TypeOK, WriterKeeps
<1> QED  BY <1>1, <1>5 DEF TypeInv, HasMessage, WriterKeeps

LEMMA RowTypeKept == ASSUME log' = log PROVE RowType' = RowType
  BY DEF RowType

(* CheckTable, ListTables, InsertDone and EndWrite touch no table. *)
LEMMA WriterType == TypeInv /\ WriterStep => TypeInv'
<1> SUFFICES ASSUME TypeInv, WriterStep PROVE TypeInv'
  OBVIOUS
<1>0. TypeOK /\ RowsTyped /\ HasMessage
  BY DEF TypeInv
<1> USE DEF database, asking
<1>s. log' = log /\ rows' = rows => RowsTyped'
  BY <1>0, RowTypeKept, SameRows
<1>1. CASE CheckTable
  <2>1. WriterKeeps
    BY <1>1 DEF CheckTable, WriterKeeps
  <2> QED  BY <1>0, <1>s, <1>1, <2>1, WriterTypes DEF CheckTable, Return, TypeOK, WriterKeeps
<1>2. CASE CreateTable
  <2>1. WriterKeeps
    BY <1>2 DEF CreateTable, WriterKeeps
  <2>2. dates' \in [Channel -> SUBSET Dates]
    <3>1. dates \in [Channel -> SUBSET Dates] /\ msg.date \in Dates
      BY <1>0, <1>2 DEF CreateTable, TypeOK
    <3> QED  BY <1>2, <3>1 DEF CreateTable
  <2> QED  BY <1>0, <1>s, <1>2, <2>1, <2>2, WriterTypes DEF CreateTable, Return, TypeOK, WriterKeeps
<1>3. CASE ListTables
  <2>1. WriterKeeps
    BY <1>3 DEF ListTables, WriterKeeps, TableNames
  <2>2. doomed' \subseteq ListedDates
    BY <1>3 DEF ListTables, OldestBeyond, Listed
  <2> QED  BY <1>0, <1>s, <1>3, <2>1, <2>2, WriterTypes DEF ListTables, TypeOK, WriterKeeps
<1>4. CASE DropOldest
  <2>1. /\ writer = "drop" /\ UNCHANGED <<handles, asking, log, reg, allSuccess, answered, taken, drops>>
        /\ writer' \in {"insert", "drop"}
    BY <1>4 DEF DropOldest
  <2>2. PICK d \in doomed :
          /\ \/ RemoveTable(msg.channel, d) /\ Works
             \/ Fails /\ UNCHANGED <<database, owed>>
          /\ doomed' = doomed \ {d}
    BY <1>4 DEF DropOldest
  <2>3. msg.channel \in Channel /\ d \in Dates
    BY <1>0, <2>1, <2>2, DbNumbers DEF TypeOK
  <2>4. RowsTyped' /\ dates' \in [Channel -> SUBSET Dates] /\ owed' \subseteq owed
    <3>1. CASE RemoveTable(msg.channel, d)
      BY <2>1, <2>3, <3>1, Removed
    <3>2. CASE UNCHANGED <<database, owed>>
      BY <1>0, <1>s, <2>1, <3>2 DEF TypeOK
    <3> QED  BY <2>2, <3>1, <3>2
  <2>5. WriterKeeps
    BY <2>1, <2>2, <2>4 DEF WriterKeeps
  <2> QED  BY <1>0, <2>1, <2>2, <2>4, <2>5, WriterTypes DEF TypeOK
<1>5. CASE InsertRow
  <2>1. WriterKeeps /\ writer = "insert" /\ log' = log
    BY <1>5 DEF InsertRow, WriterKeeps
  <2>2. RowsTyped'
    <3>1. CASE Inserted
      BY <2>1, <3>1, InsertedRows
    <3> QED  BY <1>s, <1>5, <2>1, <3>1 DEF InsertRow, Inserted
  <2>3. reg' \in Nat /\ allSuccess' \in BOOLEAN
    <3>1. reg \in Nat /\ allSuccess \in BOOLEAN
      BY <1>0 DEF TypeOK
    <3>2. reg' = reg + 1 /\ (allSuccess' = allSuccess \/ allSuccess' = FALSE)
      BY <1>5 DEF InsertRow
    <3>3. reg' \in Nat
      BY <3>1, <3>2
    <3>4. allSuccess' \in BOOLEAN
      BY <3>1, <3>2, Zenon
    <3> QED  BY <3>3, <3>4
  <2> QED  BY <1>0, <1>5, <2>1, <2>2, <2>3, WriterTypes DEF InsertRow, TypeOK, WriterKeeps
<1>6. CASE InsertDone
  <2>1. WriterKeeps
    BY <1>6 DEF InsertDone, WriterKeeps, Works
  <2> QED  BY <1>0, <1>s, <1>6, <2>1, WriterTypes DEF InsertDone, Return, TypeOK, WriterKeeps
<1>7. CASE EndWrite
  <2>1. /\ writer = "return" /\ writer' = "idle"
        /\ UNCHANGED <<handles, database, asking, log, doomed, reg, allSuccess, owed, taken, drops, faults>>
        /\ answered' \in {answered, answered \cup {Len(log)}}
    BY <1>7 DEF EndWrite
  <2>2. answered' \subseteq 1 .. Len(log') /\ owed' \subseteq answered'
    BY <1>0, <2>1, MsgTyped DEF TypeOK
  <2>3. RowsTyped'
    BY <1>s, <2>1
  <2>4. TypeOK'
    BY <1>0, <2>1, <2>2 DEF TypeOK
  <2> QED  BY <2>1, <2>3, <2>4 DEF TypeInv, HasMessage
<1> QED  BY <1>1, <1>2, <1>3, <1>4, <1>5, <1>6, <1>7 DEF WriterStep

(* An open handle is in the table of handles. *)
LEMMA HandleTyped ==
  ASSUME TypeOK, NEW c, GetHandle(c) \/ NoHandle(c)
  PROVE  /\ handles' \subseteq Channel /\ handles \subseteq handles' /\ (Works \/ Fails)
         /\ GetHandle(c) => c \in handles'
  BY DEF TypeOK, GetHandle, NoHandle

LEMMA BeginType == ASSUME TypeInv, NEW m \in Messages, BeginWrite(m) PROVE TypeInv'
<1>0. TypeOK /\ RowsTyped
  BY DEF TypeInv
<1>1. /\ log' = Append(log, m) /\ reg' = 0 /\ doomed' = {} /\ taken' = {}
      /\ UNCHANGED <<database, asking, answered, owed, drops>>
  BY DEF BeginWrite
<1>2. /\ log' \in Seq(Messages) /\ Len(log') = Len(log) + 1 /\ Len(log) \in Nat
      /\ msg' = m /\ RowType \subseteq RowType'
  BY <1>1, Logged
<1>3. RowsTyped'
  BY <1>0, <1>1, <1>2, SameRows DEF database
<1>4. \A c \in Channel, d \in Dates :
         rows'[c][d] \in Seq([write : 1 .. Len(log'), reg : Nat])
  BY <1>3 DEF RowsTyped, RowType
<1>5. handles' \subseteq Channel /\ handles \subseteq handles' /\ (Works \/ Fails)
  BY <1>0, HandleTyped DEF BeginWrite
<1>6. faults' \in 0 .. MaxFaults
  BY <1>0, <1>5, FaultTyped
<1>7. /\ writer' \in {"check", "return"} /\ allSuccess' \in BOOLEAN
      /\ writer' = "check" => GetHandle(m.channel) /\ m.date # NoDate
  BY DEF BeginWrite, Return
<1>8. writer' = "check" => msg'.channel \in handles' /\ msg'.date \in Dates
  BY <1>0, <1>2, <1>7, HandleTyped, DbNumbers
<1>9. answered' \subseteq 1 .. Len(log') /\ owed' \subseteq answered'
  BY <1>0, <1>1, <1>2 DEF TypeOK
<1>10. TypeOK'
  BY <1>0, <1>1, <1>2, <1>4, <1>5, <1>6, <1>7, <1>8, <1>9 DEF TypeOK, database, asking
<1>11. Len(log') # 0
  BY <1>2
<1> QED  BY <1>3, <1>10, <1>11 DEF TypeInv, HasMessage

(* What the steps of the client leave alone. *)
ClientKeeps ==
  /\ UNCHANGED writing
  /\ handles' \subseteq Channel /\ handles \subseteq handles' /\ (Works \/ Fails)

LEMMA ClientTypes ==
  ASSUME TypeInv, ClientKeeps, RowsTyped', dates' \in [Channel -> SUBSET Dates],
         client' \in {"idle", "scan", "done"},
         client' = "scan" => ask'.channel \in handles',
         toScan' \subseteq ListedDates, owed' \subseteq answered,
         drops' \in Nat, taken' \subseteq Dates
  PROVE  TypeInv'
<1>1. /\ TypeOK /\ HasMessage /\ log' = log /\ msg' = msg
      /\ UNCHANGED <<writer, log, doomed, reg, allSuccess, answered>>
  BY DEF TypeInv, ClientKeeps, writing, msg
<1>2. faults' \in 0 .. MaxFaults
  BY <1>1, FaultTyped DEF ClientKeeps
<1>3. \A c \in Channel, d \in Dates :
         rows'[c][d] \in Seq([write : 1 .. Len(log'), reg : Nat])
  BY DEF RowsTyped, RowType
<1>4. TypeOK'
  BY <1>1, <1>2, <1>3 DEF TypeOK, ClientKeeps
<1> QED  BY <1>1, <1>4 DEF TypeInv, HasMessage

LEMMA DropType ==
  ASSUME TypeInv, NEW c \in 0 .. MaxChannels, NEW d \in Dates, DropTable(c, d)
  PROVE  TypeInv'
<1>0. TypeOK /\ RowsTyped
  BY DEF TypeInv
<1>1. /\ UNCHANGED <<writing, asking>> /\ drops' = drops + 1
      /\ taken' \in {taken, taken \cup ({d} \cap dates[c])}
  BY DEF DropTable
<1>2. ClientKeeps
  <2>1. handles' \subseteq Channel /\ handles \subseteq handles' /\ (Works \/ Fails)
    BY <1>0, HandleTyped DEF DropTable, TypeOK
  <2> QED  BY <1>1, <2>1 DEF ClientKeeps
<1>3. log' = log
  BY <1>1 DEF writing
<1>4. RowsTyped' /\ dates' \in [Channel -> SUBSET Dates] /\ owed' \subseteq owed
  <2>1. CASE GetHandle(c) /\ RemoveTable(c, d)
    BY <1>3, <2>1, Removed DEF GetHandle
  <2>2. CASE UNCHANGED <<database, owed>>
    BY <1>0, <1>3, <2>2, RowTypeKept, SameRows DEF database, TypeOK
  <2> QED  BY <2>1, <2>2 DEF DropTable
<1>5. drops' \in Nat /\ taken' \subseteq Dates
  BY <1>0, <1>1 DEF TypeOK
<1>6. handles \subseteq handles'
  BY <1>2 DEF ClientKeeps
<1>7. /\ client' \in {"idle", "scan", "done"} /\ toScan' \subseteq ListedDates
      /\ client' = "scan" => ask'.channel \in handles'
      /\ owed' \subseteq answered
  BY <1>0, <1>1, <1>4, <1>6 DEF asking, TypeOK
<1> QED  BY <1>2, <1>4, <1>5, <1>7, ClientTypes

LEMMA SelectType ==
  ASSUME TypeInv, NEW c \in 0 .. MaxChannels, NEW id, BeginSelect(c, id)
  PROVE  TypeInv'
<1>0. TypeOK /\ RowsTyped
  BY DEF TypeInv
<1>1. /\ UNCHANGED <<database, writing, taken, drops>>
      /\ ask' = [channel |-> c, id |-> id]
      /\ client' = IF toScan' = {} THEN "done" ELSE "scan"
  BY DEF BeginSelect
<1>2. CASE NoHandle(c) /\ toScan' = {} /\ owed' = {}
  <2>1. ClientKeeps /\ client' = "done"
    BY <1>0, <1>1, <1>2, HandleTyped DEF ClientKeeps
  <2> QED  BY <1>0, <1>1, <1>2, <2>1, RowTypeKept, SameRows, ClientTypes
           DEF database, writing, TypeInv, TypeOK
<1>3. CASE /\ c \in Channel /\ handles' = handles \cup {c}
           /\ \E names \in SUBSET Listed(c) : TableNames(c, names) /\ toScan' = names
           /\ owed' = IF faults' # faults THEN {}
                      ELSE {w \in answered : /\ log[w].channel = c /\ log[w].id = id
                                             /\ log[w].date \in dates[c] /\ StoredAll(w)}
  <2>1. Works \/ Fails
    BY <1>3 DEF TableNames
  <2>2. ClientKeeps
    BY <1>0, <1>1, <1>3, <2>1 DEF ClientKeeps, TypeOK
  <2>3. toScan' \subseteq ListedDates /\ ask'.channel \in handles' /\ owed' \subseteq answered
    BY <1>1, <1>3 DEF Listed
  <2>4. client' \in {"idle", "scan", "done"}
    BY <1>1
  <2> QED  BY <1>0, <1>1, <2>2, <2>3, <2>4, RowTypeKept, SameRows, ClientTypes
           DEF database, writing, TypeInv, TypeOK
<1> QED  BY <1>2, <1>3 DEF BeginSelect

LEMMA ClientType == TypeInv /\ ClientStep => TypeInv'
<1> SUFFICES ASSUME TypeInv, ClientStep PROVE TypeInv'
  OBVIOUS
<1>0. TypeOK /\ RowsTyped
  BY DEF TypeInv
<1>1. CASE ScanTable
  <2>1. /\ UNCHANGED <<handles, database, writing, ask, selects, taken, drops>>
        /\ client = "scan"
        /\ client' = IF toScan' = {} THEN "done" ELSE "scan"
    BY <1>1 DEF ScanTable
  <2>4. owed' \subseteq owed /\ toScan' \subseteq toScan /\ (Works \/ Fails)
    <3>1. PICK d \in toScan :
            /\ (Works /\ UNCHANGED owed) \/ (Fails /\ owed' = {})
            /\ toScan' = IF found' = {} THEN toScan \ {d} ELSE {}
      BY <1>1 DEF ScanTable
    <3> QED  BY <3>1
  <2>2. ClientKeeps
    BY <1>0, <2>1, <2>4 DEF ClientKeeps, TypeOK
  <2>3. ask'.channel \in handles' /\ client' \in {"idle", "scan", "done"}
    <3>1. ask' = ask /\ handles' = handles /\ client' \in {"done", "scan"}
      BY <2>1
    <3>2. ask.channel \in handles
      BY <1>0, <2>1 DEF TypeOK
    <3> QED  BY <3>1, <3>2
  <2> QED  BY <1>0, <2>1, <2>2, <2>3, <2>4, RowTypeKept, SameRows, ClientTypes
           DEF database, writing, TypeInv, TypeOK
<1>2. CASE EndSelect
  <2>1. /\ UNCHANGED <<handles, database, writing, ask, toScan, taken, drops, faults>>
        /\ client' = "idle" /\ owed' = {}
    BY <1>2 DEF EndSelect
  <2>2. ClientKeeps
    BY <1>0, <2>1 DEF ClientKeeps, TypeOK, Works
  <2> QED  BY <1>0, <2>1, <2>2, RowTypeKept, SameRows, ClientTypes
           DEF database, writing, TypeInv, TypeOK
<1> QED  BY <1>1, <1>2, DropType, SelectType DEF ClientStep

LEMMA RestartType == TypeInv /\ Restart => TypeInv'
<1> SUFFICES ASSUME TypeInv, Restart PROVE TypeInv'
  OBVIOUS
<1>0. TypeOK /\ RowsTyped
  BY DEF TypeInv
<1>1. /\ Fails /\ handles' = {}
      /\ writer' = "idle" /\ doomed' = {} /\ reg' = 0 /\ allSuccess' = FALSE
      /\ client' = "idle" /\ toScan' = {} /\ owed' = {}
      /\ UNCHANGED <<dates, rows, log, answered, taken, drops>>
  BY DEF Restart, database
<1>2. RowsTyped'
  BY <1>0, <1>1, RowTypeKept, SameRows
<1>3. faults' \in 0 .. MaxFaults
  BY <1>0, <1>1, FaultTyped
<1>4. TypeOK'
  BY <1>0, <1>1, <1>3 DEF TypeOK
<1> QED  BY <1>1, <1>2, <1>4 DEF TypeInv, HasMessage

LEMMA NextType == TypeInv /\ [Next]_vars => TypeInv'
<1> SUFFICES ASSUME TypeInv, UNCHANGED vars PROVE TypeInv'
  BY BeginType, WriterType, ClientType, RestartType DEF Next
<1>1. /\ UNCHANGED <<handles, dates, rows, writer, log, doomed, reg, allSuccess, answered,
                    client, ask, toScan, owed, taken, drops, faults>>
  BY DEF vars, database, writing, asking
<1>2. RowsTyped'
  BY <1>1, RowTypeKept, SameRows DEF TypeInv
<1>3. msg' = msg
  BY <1>1 DEF msg
<1> QED  BY <1>1, <1>2, <1>3 DEF TypeInv, TypeOK, HasMessage

(* Types; writeMessage() is past its early returns only with an open        *)
(* database and a date.                                                     *)
THEOREM DbTypeCorrect == Spec => []TypeOK
<1>1. TypeInv => TypeOK
  BY DEF TypeInv
<1> QED  BY <1>1, InitType, NextType, PTL DEF Spec
-----------------------------------------------------------------------------
(***************************************************************************)
(* The rows.  While a message is being written no table holds a row of it  *)
(* beyond the registers insertRow() was called for.                        *)
(***************************************************************************)
InProgress == writer \in {"check", "create", "list", "drop", "insert"}

RowsBehind ==
  InProgress =>
    \A c \in Channel, d \in Dates : \A i \in DOMAIN rows[c][d] :
       rows[c][d][i].write = Len(log) => rows[c][d][i].reg <= reg

(* RowsInPlace, for one table t of channel c and date d. *)
NamedTable(c, d) == rows[c][d] # <<>> => d \in dates[c]
Belongs(c, d) ==
  \A i \in DOMAIN rows[c][d] :
     log[rows[c][d][i].write].channel = c /\ log[rows[c][d][i].write].date = d
Behind(a, b) == a.write < b.write \/ (a.write = b.write /\ a.reg < b.reg)
InOrder(c, d) ==
  \A i, j \in DOMAIN rows[c][d] : i < j => Behind(rows[c][d][i], rows[c][d][j])
InPlace(c, d) == NamedTable(c, d) /\ Belongs(c, d) /\ InOrder(c, d)

LEMMA PlaceMeans == RowsInPlace <=> \A c \in Channel, d \in Dates : InPlace(c, d)
  BY DEF RowsInPlace, InPlace, NamedTable, Belongs, InOrder, Behind

PlaceInv ==
  TypeInv /\ (\A c \in Channel, d \in Dates : InPlace(c, d)) /\ RowsBehind

LEMMA RowAt ==
  ASSUME TypeInv, NEW c \in Channel, NEW d \in Dates
  PROVE  /\ Len(rows[c][d]) \in Nat /\ DOMAIN rows[c][d] = 1 .. Len(rows[c][d])
         /\ rows[c][d] \in Seq(RowType)
         /\ \A i \in DOMAIN rows[c][d] :
              /\ rows[c][d][i].write \in 1 .. Len(log) /\ rows[c][d][i].reg \in Nat
              /\ rows[c][d][i] \in RowType
<1>1. rows[c][d] \in Seq(RowType)
  BY DEF TypeInv, RowsTyped
<1>2. Len(rows[c][d]) \in Nat /\ DOMAIN rows[c][d] = 1 .. Len(rows[c][d])
  BY <1>1, LenProperties
<1>3. \A i \in DOMAIN rows[c][d] : rows[c][d][i] \in RowType
  BY <1>1, <1>2, ElementOfSeq
<1> QED  BY <1>1, <1>2, <1>3 DEF RowType

(* A table that is left alone stays in place, one that is emptied, too. *)
LEMMA PlaceKept ==
  ASSUME NEW c, NEW d, InPlace(c, d), log' = log, rows'[c][d] = rows[c][d],
         d \in dates[c] => d \in dates'[c]
  PROVE  InPlace(c, d)'
  BY DEF InPlace, NamedTable, Belongs, InOrder

LEMMA PlaceEmpty ==
  ASSUME NEW c, NEW d, rows'[c][d] = <<>> PROVE InPlace(c, d)'
<1> DEFINE t == rows'[c][d]
<1>1. t \in Seq({}) /\ Len(t) = 0
  BY EmptySeq
<1>2. DOMAIN t = {}
  BY <1>1, LenProperties
<1>3. DOMAIN rows'[c][d] = {}
  BY <1>2
<1> QED  BY <1>3 DEF InPlace, NamedTable, Belongs, InOrder

LEMMA PlaceRemoved ==
  ASSUME PlaceInv, NEW c \in Channel, NEW d \in Dates, RemoveTable(c, d), log' = log
  PROVE  \A e \in Channel, f \in Dates :
           InPlace(e, f)' /\ (rows'[e][f] = rows[e][f] \/ rows'[e][f] = <<>>)
<1> SUFFICES ASSUME NEW e \in Channel, NEW f \in Dates
             PROVE  InPlace(e, f)' /\ (rows'[e][f] = rows[e][f] \/ rows'[e][f] = <<>>)
  OBVIOUS
<1>0. TypeInv
  BY DEF PlaceInv
<1>1. /\ dates'[e] = IF e = c THEN dates[c] \ {d} ELSE dates[e]
      /\ rows'[e][f] = IF e = c /\ f = d THEN <<>> ELSE rows[e][f]
  <2>1. /\ rows \in [Channel -> [Dates -> Seq(RowType)]]
        /\ dates \in [Channel -> SUBSET Dates]
    BY <1>0 DEF TypeInv, RowsTyped, TypeOK
  <2>2. /\ dates' = [dates EXCEPT ![c] = @ \ {d}]
        /\ rows' = [rows EXCEPT ![c][d] = <<>>]
    BY DEF RemoveTable
  <2>3. dates'[e] = IF e = c THEN dates[c] \ {d} ELSE dates[e]
    BY <2>1, <2>2
  <2> QED  BY <2>1, <2>2, <2>3
<1>2. CASE e = c /\ f = d
  BY <1>1, <1>2, PlaceEmpty
<1>3. CASE ~(e = c /\ f = d)
  <2>1. InPlace(e, f)
    BY DEF PlaceInv
  <2> QED  BY <1>1, <1>3, <2>1, PlaceKept
<1> QED  BY <1>2, <1>3

(* The row insertRow() adds is of the current message and comes last. *)
LEMMA PlaceInserted ==
  ASSUME PlaceInv, writer = "insert", Inserted, log' = log, dates' = dates,
         msg.date \in dates[msg.channel], reg' = reg + 1
  PROVE  /\ \A c \in Channel, d \in Dates : InPlace(c, d)'
         /\ \A c \in Channel, d \in Dates : \A i \in DOMAIN rows'[c][d] :
              rows'[c][d][i].write = Len(log) => rows'[c][d][i].reg <= reg'
<1>0. /\ TypeInv /\ reg \in Nat /\ Len(log) \in Nat /\ msg \in Messages
      /\ Row(Len(log), reg + 1) \in RowType
  <2>1. reg \in Nat
    BY DEF PlaceInv, TypeInv, TypeOK
  <2> QED  BY <2>1, MsgTyped DEF PlaceInv, Row, RowType
<1>1. \A e \in Channel, f \in Dates :
         rows'[e][f] = IF e = msg.channel /\ f = msg.date
                       THEN Append(rows[e][f], Row(Len(log), reg + 1)) ELSE rows[e][f]
  BY <1>0, InsertedRows
<1> SUFFICES ASSUME NEW c \in Channel, NEW d \in Dates
             PROVE  /\ InPlace(c, d)'
                    /\ \A i \in DOMAIN rows'[c][d] :
                         rows'[c][d][i].write = Len(log) => rows'[c][d][i].reg <= reg'
  OBVIOUS
<1>2. /\ InPlace(c, d)
      /\ \A i \in DOMAIN rows[c][d] :
           rows[c][d][i].write = Len(log) => rows[c][d][i].reg <= reg
  BY DEF PlaceInv, RowsBehind, InProgress
<1>3. CASE ~(c = msg.channel /\ d = msg.date)
  <2>1. rows'[c][d] = rows[c][d]
    BY <1>1, <1>3
  <2>2. InPlace(c, d)'
    BY <1>2, <2>1, PlaceKept
  <2>3. \A i \in DOMAIN rows[c][d] : rows[c][d][i].reg \in Nat
    BY <1>0, RowAt
  <2> QED  BY <1>0, <1>2, <2>1, <2>2, <2>3
<1>4. CASE c = msg.channel /\ d = msg.date
  <2> DEFINE t == rows[c][d]
             w == Row(Len(log), reg + 1)
             u == Append(t, w)
  <2>1. rows'[c][d] = u
    BY <1>1, <1>4
  <2>2. /\ t \in Seq(RowType) /\ Len(t) \in Nat /\ DOMAIN t = 1 .. Len(t)
        /\ \A i \in DOMAIN t : t[i].write \in 1 .. Len(log) /\ t[i].reg \in Nat
    BY <1>0, RowAt
  <2>3. /\ u \in Seq(RowType) /\ Len(u) = Len(t) + 1
        /\ \A i \in 1 .. Len(t) : u[i] = t[i]
        /\ u[Len(t) + 1] = w
    BY <1>0, <2>2, AppendProperties
  <2>4. DOMAIN u = 1 .. Len(t) + 1
    BY <2>3, LenProperties
  <2>5. w.write = Len(log) /\ w.reg = reg + 1
    BY DEF Row
  <2> HIDE DEF t, w, u
  <2>6. \A i \in DOMAIN u : (i \in DOMAIN t /\ u[i] = t[i]) \/ (i = Len(t) + 1 /\ u[i] = w)
    BY <2>2, <2>3, <2>4
  <2>7. \A i \in DOMAIN t : Behind(t[i], w)
    <3> SUFFICES ASSUME NEW i \in DOMAIN t PROVE Behind(t[i], w)
      OBVIOUS
    <3>1. t[i].write \in 1 .. Len(log) /\ t[i].reg \in Nat
      BY <2>2
    <3>2. t[i].write = Len(log) => t[i].reg <= reg
      BY <1>2 DEF t
    <3> QED  BY <1>0, <2>5, <3>1, <3>2 DEF Behind
  <2>8. InOrder(c, d)'
    <3> SUFFICES ASSUME NEW i \in DOMAIN u, NEW j \in DOMAIN u, i < j
                 PROVE  Behind(u[i], u[j])
      BY <2>1 DEF InOrder
    <3>1. i \in DOMAIN t /\ u[i] = t[i]
      BY <2>2, <2>4, <2>6
    <3>2. CASE j \in DOMAIN t /\ u[j] = t[j]
      BY <1>2, <3>1, <3>2 DEF InPlace, InOrder, t
    <3>3. CASE u[j] = w
      BY <2>7, <3>1, <3>3
    <3> QED  BY <2>6, <3>2, <3>3
  <2>9. Belongs(c, d)'
    <3> SUFFICES ASSUME NEW i \in DOMAIN u
                 PROVE  log[u[i].write].channel = c /\ log[u[i].write].date = d
      BY <2>1 DEF Belongs
    <3>1. CASE i \in DOMAIN t /\ u[i] = t[i]
      BY <1>2, <3>1 DEF InPlace, Belongs, t
    <3>2. CASE u[i] = w
      BY <1>4, <2>5, <3>2 DEF msg
    <3> QED  BY <2>6, <3>1, <3>2
  <2>10. NamedTable(c, d)'
    <3>1. d \in dates'[c]
      BY <1>4
    <3> QED  BY <3>1 DEF NamedTable
  <2>11. ASSUME NEW i \in DOMAIN u, u[i].write = Len(log) PROVE u[i].reg <= reg'
    <3>1. CASE i \in DOMAIN t /\ u[i] = t[i]
      <4>1. t[i].reg <= reg /\ t[i].reg \in Nat
        BY <1>2, <2>2, <2>11, <3>1 DEF t
      <4> QED  BY <1>0, <3>1, <4>1
    <3>2. CASE u[i] = w
      BY <1>0, <2>5, <3>2
    <3> QED  BY <2>6, <3>1, <3>2
  <2> QED  BY <2>1, <2>8, <2>9, <2>10, <2>11 DEF InPlace
<1> QED  BY <1>3, <1>4

LEMMA NextPlace == PlaceInv /\ [Next]_vars => PlaceInv'
<1> SUFFICES ASSUME PlaceInv, [Next]_vars PROVE PlaceInv'
  OBVIOUS
<1>0. /\ TypeInv /\ TypeInv' /\ RowsBehind
      /\ \A c \in Channel, d \in Dates : InPlace(c, d)
  BY NextType DEF PlaceInv
<1> SUFFICES (\A c \in Channel, d \in Dates : InPlace(c, d)') /\ RowsBehind'
  BY <1>0 DEF PlaceInv
(* Steps that leave the rows alone and may add tables. *)
<1>k. ASSUME log' = log, rows' = rows, \A c \in Channel : dates[c] \subseteq dates'[c],
             InProgress' => InProgress /\ reg' = reg
      PROVE  (\A c \in Channel, d \in Dates : InPlace(c, d)') /\ RowsBehind'
  <2>1. \A c \in Channel, d \in Dates : InPlace(c, d)'
    BY <1>0, <1>k, PlaceKept
  <2> QED  BY <1>0, <1>k, <2>1 DEF RowsBehind
<1>r. ASSUME NEW c \in Channel, NEW d \in Dates, RemoveTable(c, d), log' = log, reg' = reg,
             InProgress' => InProgress
      PROVE  (\A e \in Channel, f \in Dates : InPlace(e, f)') /\ RowsBehind'
  <2>1. \A e \in Channel, f \in Dates :
           InPlace(e, f)' /\ (rows'[e][f] = rows[e][f] \/ rows'[e][f] = <<>>)
    BY <1>r, PlaceRemoved
  <2>2. DOMAIN <<>> = {}
    BY EmptySeq, LenProperties
  <2>3. ASSUME InProgress', NEW e \in Channel, NEW f \in Dates, NEW i \in DOMAIN rows'[e][f],
               rows'[e][f][i].write = Len(log)
        PROVE  rows'[e][f][i].reg <= reg
    <3>1. rows'[e][f] = rows[e][f]
      BY <2>1, <2>2, <2>3
    <3> QED  BY <1>0, <1>r, <2>3, <3>1 DEF RowsBehind
  <2> QED  BY <1>r, <2>1, <2>3 DEF RowsBehind
<1>1. ASSUME NEW m \in Messages, BeginWrite(m)
      PROVE  (\A c \in Channel, d \in Dates : InPlace(c, d)') /\ RowsBehind'
  <2>1. /\ log' = Append(log, m) /\ reg' = 0 /\ dates' = dates /\ rows' = rows
    BY <1>1 DEF BeginWrite, database
  <2>2. /\ Len(log') = Len(log) + 1 /\ Len(log) \in Nat
        /\ \A w \in 1 .. Len(log) : log'[w] = log[w]
    BY <1>0, <2>1, Logged
  <2>3. \A c \in Channel, d \in Dates : \A i \in DOMAIN rows[c][d] :
           rows[c][d][i].write \in 1 .. Len(log)
    BY <1>0, RowAt
  <2>4. ASSUME NEW c \in Channel, NEW d \in Dates PROVE InPlace(c, d)'
    <3>1. InPlace(c, d)
      BY <1>0
    <3>2. Belongs(c, d)'
      BY <2>1, <2>2, <2>3, <3>1 DEF InPlace, Belongs
    <3> QED  BY <2>1, <3>1, <3>2 DEF InPlace, NamedTable, InOrder
  <2>5. \A w \in 1 .. Len(log) : w # Len(log')
    BY <2>2
  <2>6. RowsBehind'
    BY <2>1, <2>3, <2>5 DEF RowsBehind
  <2> QED  BY <2>4, <2>6
<1>2. ASSUME WriterStep
      PROVE  (\A c \in Channel, d \in Dates : InPlace(c, d)') /\ RowsBehind'
  <2>1. CASE CheckTable
    BY <1>k, <2>1 DEF CheckTable, database, InProgress
  <2>2. CASE CreateTable
    <3>1. dates \in [Channel -> SUBSET Dates]
      BY <1>0 DEF TypeInv, TypeOK
    <3>2. \A c \in Channel : dates[c] \subseteq dates'[c]
      BY <2>2, <3>1 DEF CreateTable
    <3> QED  BY <1>k, <2>2, <3>2 DEF CreateTable, InProgress
  <2>3. CASE ListTables
    BY <1>k, <2>3 DEF ListTables, database, InProgress
  <2>4. CASE DropOldest
    <3>1. /\ writer = "drop" /\ UNCHANGED <<log, reg>>
      BY <2>4 DEF DropOldest
    <3>2. PICK d \in doomed : RemoveTable(msg.channel, d) \/ UNCHANGED <<database, owed>>
      BY <2>4 DEF DropOldest
    <3>3. msg.channel \in Channel /\ d \in Dates
      BY <1>0, <3>1, <3>2, DbNumbers DEF TypeInv, TypeOK
    <3>4. InProgress
      BY <3>1 DEF InProgress
    <3>5. CASE RemoveTable(msg.channel, d)
      BY <1>r, <3>1, <3>3, <3>4, <3>5
    <3>6. CASE UNCHANGED <<database, owed>>
      BY <1>k, <3>1, <3>4, <3>6 DEF database
    <3> QED  BY <3>2, <3>5, <3>6
  <2>5. CASE InsertRow
    <3>1. /\ writer = "insert" /\ UNCHANGED <<log, dates, writer>> /\ reg' = reg + 1
          /\ \/ Inserted /\ msg.date \in dates[msg.channel]
             \/ rows' = rows
      BY <2>5 DEF InsertRow, Inserted
    <3>2. CASE Inserted /\ msg.date \in dates[msg.channel]
      <4>1. /\ \A c \in Channel, d \in Dates : InPlace(c, d)'
            /\ \A c \in Channel, d \in Dates : \A i \in DOMAIN rows'[c][d] :
                 rows'[c][d][i].write = Len(log) => rows'[c][d][i].reg <= reg'
        BY <3>1, <3>2, PlaceInserted
      <4> QED  BY <3>1, <4>1 DEF RowsBehind
    <3>3. CASE rows' = rows
      <4>1. \A c \in Channel, d \in Dates : InPlace(c, d)'
        BY <1>0, <3>1, <3>3, PlaceKept
      <4>2. \A c \in Channel, d \in Dates : \A i \in DOMAIN rows[c][d] :
               rows[c][d][i].reg \in Nat
        BY <1>0, RowAt
      <4>3. reg \in Nat /\ InProgress
        BY <1>0, <3>1 DEF TypeInv, TypeOK, InProgress
      <4>4. \A n \in Nat : n <= reg => n <= reg'
        BY <3>1, <4>3
      <4>5. RowsBehind'
        BY <1>0, <3>1, <3>3, <4>2, <4>3, <4>4 DEF RowsBehind
      <4> QED  BY <4>1, <4>5
    <3> QED  BY <3>1, <3>2, <3>3
  <2>6. CASE InsertDone
    BY <1>k, <2>6 DEF InsertDone, Return, database, InProgress
  <2>7. CASE EndWrite
    BY <1>k, <2>7 DEF EndWrite, database, InProgress
  <2> QED  BY <1>2, <2>1, <2>2, <2>3, <2>4, <2>5, <2>6, <2>7 DEF WriterStep
<1>3. ASSUME ClientStep
      PROVE  (\A c \in Channel, d \in Dates : InPlace(c, d)') /\ RowsBehind'
  <2>1. ASSUME NEW c \in 0 .. MaxChannels, NEW d \in Dates, DropTable(c, d)
        PROVE  (\A e \in Channel, f \in Dates : InPlace(e, f)') /\ RowsBehind'
    <3>1. UNCHANGED <<log, reg, writer>>
      BY <2>1 DEF DropTable, writing
    <3>2. (c \in Channel /\ RemoveTable(c, d)) \/ UNCHANGED database
      BY <2>1 DEF DropTable, GetHandle
    <3>3. InProgress' => InProgress
      BY <3>1 DEF InProgress
    <3>4. CASE c \in Channel /\ RemoveTable(c, d)
      BY <1>r, <3>1, <3>3, <3>4
    <3>5. CASE UNCHANGED database
      BY <1>k, <3>1, <3>3, <3>5 DEF database
    <3> QED  BY <3>2, <3>4, <3>5
  <2>2. CASE UNCHANGED <<database, writing>>
    BY <1>k, <2>2 DEF database, writing, InProgress
  <2>3. (\E c \in 0 .. MaxChannels, d \in Dates : DropTable(c, d))
        \/ UNCHANGED <<database, writing>>
    BY <1>3 DEF ClientStep, BeginSelect, ScanTable, EndSelect
  <2> QED  BY <2>1, <2>2, <2>3
<1>4. CASE Restart
  BY <1>k, <1>4 DEF Restart, database, InProgress
<1>5. CASE UNCHANGED vars
  BY <1>k, <1>5 DEF vars, database, writing, InProgress
<1> QED  BY <1>1, <1>2, <1>3, <1>4, <1>5 DEF Next

LEMMA InitPlace == Init => PlaceInv
<1> SUFFICES ASSUME Init PROVE PlaceInv
  OBVIOUS
<1>1. \A c \in Channel, d \in Dates : rows[c][d] = <<>>
  BY DEF Init
<1>2. DOMAIN <<>> = {}
  BY EmptySeq, LenProperties
<1>3. \A c \in Channel, d \in Dates : InPlace(c, d)
  BY <1>1, <1>2 DEF InPlace, NamedTable, Belongs, InOrder
<1>4. RowsBehind
  BY DEF Init, RowsBehind, InProgress
<1> QED  BY <1>3, <1>4, InitType DEF PlaceInv

(* Every row is in its message's database and table, in order and once,     *)
(* through failures, restarts, and drops by others.                         *)
THEOREM RowsStayInPlace == Spec => []RowsInPlace
<1>1. PlaceInv => RowsInPlace
  BY PlaceMeans DEF PlaceInv
<1> QED  BY <1>1, InitPlace, NextPlace, PTL DEF Spec
-----------------------------------------------------------------------------
(***************************************************************************)
(* The answer.  Before the first insertRow() nothing has failed; between   *)
(* two of them allSuccess tells whether the rows so far are all there.     *)
(***************************************************************************)
Has(r) == Row(Len(log), r) \in InTable(msg.channel, msg.date)

BeforeInsert == writer \in {"check", "create", "list", "drop"} => reg = 0 /\ allSuccess = TRUE
Inserting ==
  writer = "insert" /\ msg.date \notin taken =>
    (allSuccess = TRUE /\ \A r \in 1 .. reg : Has(r))
    \/ (allSuccess = FALSE /\ \E r \in 1 .. reg : ~Has(r))

Answers == BeforeInsert /\ Inserting /\ AnswerIsTrue
AnswerInv == PlaceInv /\ Answers

(* While the rows of its table stay, the answer stays right. *)
LEMMA AnswerKept ==
  ASSUME Answers, UNCHANGED <<writer, log, reg, allSuccess>>,
         taken \subseteq taken',
         msg.date \notin taken' /\ writer # "idle" /\ msg.channel \in Channel /\ msg.date \in Dates =>
            rows'[msg.channel][msg.date] = rows[msg.channel][msg.date],
         writer = "insert" => msg.channel \in Channel /\ msg.date \in Dates
  PROVE  Answers'
<1>1. msg' = msg
  BY DEF msg
<1>2. BeforeInsert'
  BY DEF Answers, BeforeInsert
<1>3. Inserting'
  <2> SUFFICES ASSUME writer' = "insert", msg.date \notin taken' PROVE Inserting'
    BY <1>1 DEF Inserting
  <2>1. \A r : Has(r)' <=> Has(r)
    BY <1>1 DEF Has, InTable, Row
  <2>2. (allSuccess = TRUE /\ \A r \in 1 .. reg : Has(r))
        \/ (allSuccess = FALSE /\ \E r \in 1 .. reg : ~Has(r))
    BY DEF Answers, Inserting
  <2> QED  BY <2>1, <2>2 DEF Inserting
<1>4. AnswerIsTrue'
  <2> SUFFICES ASSUME writer' = "return", msg.date \notin taken', msg.regs > 0
               PROVE  (allSuccess <=> StoredAll(Len(log)))'
    BY <1>1 DEF AnswerIsTrue
  <2>1. allSuccess <=> StoredAll(Len(log))
    BY <1>1 DEF Answers, AnswerIsTrue
  <2>2. StoredAll(Len(log))' <=> StoredAll(Len(log))
    <3>1. CASE msg.channel \notin Channel \/ msg.date \notin Dates
      BY <3>1 DEF StoredAll, msg
    <3>2. CASE msg.channel \in Channel /\ msg.date \in Dates
      <4>1. LET w == log[Len(log)] IN rows'[w.channel][w.date] = rows[w.channel][w.date]
        BY <3>2 DEF msg
      <4>2. log' = log
        OBVIOUS
      <4>3. LET w == log[Len(log)] IN InTable(w.channel, w.date)' = InTable(w.channel, w.date)
        BY <4>1, <4>2 DEF InTable
      <4> QED  BY <4>2, <4>3 DEF StoredAll, Row
    <3> QED  BY <3>1, <3>2
  <2> QED  BY <2>1, <2>2, Zenon
<1> QED  BY <1>2, <1>3, <1>4 DEF Answers

(* A write that has inserted nothing, and one that ends, answer truly. *)
LEMMA NothingStored ==
  ASSUME TypeInv, RowsBehind, InProgress, reg = 0, msg.regs > 0
  PROVE  ~StoredAll(Len(log))
<1>1. msg.regs \in Nat /\ msg = log[Len(log)]
  BY MsgTyped DEF InProgress, msg
<1>2. 1 \in 1 .. log[Len(log)].regs
  BY <1>1
<1> SUFFICES ASSUME StoredAll(Len(log)) PROVE FALSE
  OBVIOUS
<1>3. /\ msg.channel \in Channel /\ msg.date \in Dates
      /\ Row(Len(log), 1) \in InTable(msg.channel, msg.date)
  BY <1>1, <1>2 DEF StoredAll
<1>4. PICK i \in DOMAIN rows[msg.channel][msg.date] :
        rows[msg.channel][msg.date][i] = Row(Len(log), 1)
  BY <1>3 DEF InTable
<1>5. Row(Len(log), 1).write = Len(log) /\ Row(Len(log), 1).reg = 1
  BY DEF Row
<1> QED  BY <1>3, <1>4, <1>5 DEF RowsBehind

(* insertRow() may add the row of one register. *)
LEMMA InsertAnswers ==
  ASSUME PlaceInv, Inserting, InsertRow
  PROVE  Answers'
<1>1. /\ writer = "insert" /\ reg' = reg + 1
      /\ UNCHANGED <<writer, log, taken>>
      /\ \/ Inserted /\ allSuccess' = allSuccess
         \/ rows' = rows /\ allSuccess' = FALSE
  BY DEF InsertRow, Inserted
<1>2. /\ TypeInv /\ reg \in Nat /\ msg.channel \in Channel /\ msg.date \in Dates
      /\ msg' = msg
  BY <1>1 DEF PlaceInv, TypeInv, TypeOK, msg
<1> DEFINE t == rows[msg.channel][msg.date]
           w == Row(Len(log), reg + 1)
<1>3. t \in Seq(RowType) /\ Len(t) \in Nat /\ DOMAIN t = 1 .. Len(t)
  BY <1>2, RowAt
<1>4. ~Has(reg + 1)
  <2> SUFFICES ASSUME Has(reg + 1) PROVE FALSE
    OBVIOUS
  <2>1. PICK i \in DOMAIN t : t[i] = w
    BY DEF Has, InTable
  <2>2. w.write = Len(log) /\ w.reg = reg + 1
    BY DEF Row
  <2>3. t[i].write = Len(log) => t[i].reg <= reg
    BY <1>1, <1>2 DEF PlaceInv, RowsBehind, InProgress
  <2> QED  BY <1>2, <2>1, <2>2, <2>3
<1>5. msg.date \notin taken' =>
        (allSuccess' = TRUE /\ \A r \in 1 .. reg' : Has(r)')
        \/ (allSuccess' = FALSE /\ \E r \in 1 .. reg' : ~Has(r)')
  <2> SUFFICES ASSUME msg.date \notin taken'
               PROVE  (allSuccess' = TRUE /\ \A r \in 1 .. reg' : Has(r)')
                      \/ (allSuccess' = FALSE /\ \E r \in 1 .. reg' : ~Has(r)')
    OBVIOUS
  <2>1. (allSuccess = TRUE /\ \A r \in 1 .. reg : Has(r))
        \/ (allSuccess = FALSE /\ \E r \in 1 .. reg : ~Has(r))
    BY <1>1 DEF Inserting
  <2>2. \A r \in 1 .. reg' : r \in 1 .. reg \/ r = reg + 1
    BY <1>1, <1>2
  <2>3. reg + 1 \in 1 .. reg' /\ 1 .. reg \subseteq 1 .. reg' /\ reg + 1 \notin 1 .. reg
    BY <1>1, <1>2
  <2>4. CASE rows' = rows /\ allSuccess' = FALSE
    <3>1. \A r : Has(r)' <=> Has(r)
      BY <1>1, <1>2, <2>4 DEF Has, InTable, Row
    <3> QED  BY <1>4, <2>3, <2>4, <3>1
  <2>5. CASE Inserted /\ allSuccess' = allSuccess
    <3>1. rows'[msg.channel][msg.date] = Append(t, w)
      BY <1>1, <1>2, <2>5, InsertedRows
    <3>2. w \in RowType
      <4>1. Len(log) \in 1 .. Len(log)
        BY <1>1, <1>2, MsgTyped
      <4> QED  BY <1>2, <4>1 DEF Row, RowType
    <3> HIDE DEF t, w
    <3>3. /\ Append(t, w) \in Seq(RowType) /\ Len(Append(t, w)) = Len(t) + 1
          /\ \A i \in 1 .. Len(t) : Append(t, w)[i] = t[i]
          /\ Append(t, w)[Len(t) + 1] = w
      BY <1>3, <3>2, AppendProperties
    <3>4. DOMAIN Append(t, w) = 1 .. (Len(t) + 1)
      BY <3>3, LenProperties
    <3>5. \A i \in 1 .. (Len(t) + 1) : i \in 1 .. Len(t) \/ i = Len(t) + 1
      BY <1>3
    <3>6. 1 .. Len(t) \subseteq 1 .. (Len(t) + 1) /\ Len(t) + 1 \in 1 .. (Len(t) + 1)
      BY <1>3
    <3>7. \A x : (\E i \in DOMAIN Append(t, w) : Append(t, w)[i] = x)
                 <=> ((\E i \in DOMAIN t : t[i] = x) \/ x = w)
      BY <1>3, <3>3, <3>4, <3>5, <3>6
    <3>8. \A r : Has(r) <=> \E i \in DOMAIN t : t[i] = Row(Len(log), r)
      BY DEF Has, InTable, t
    <3>9. \A r : Has(r)' <=> \E i \in DOMAIN Append(t, w) : Append(t, w)[i] = Row(Len(log), r)
      BY <1>1, <1>2, <3>1 DEF Has, InTable, Row
    <3>10. \A r : Row(Len(log), r) = w <=> r = reg + 1
      BY DEF w, Row
    <3>11. \A r : Has(r)' <=> (Has(r) \/ r = reg + 1)
      BY <3>7, <3>8, <3>9, <3>10
    <3> QED  BY <2>1, <2>2, <2>3, <2>5, <3>11
  <2> QED  BY <1>1, <2>4, <2>5
<1> QED  BY <1>1, <1>2, <1>5 DEF Answers, BeforeInsert, Inserting, AnswerIsTrue

LEMMA DoneAnswers ==
  ASSUME TypeInv, Inserting, InsertDone
  PROVE  Answers'
<1>1. /\ writer = "insert" /\ writer' = "return" /\ reg = msg.regs
      /\ UNCHANGED <<rows, log, taken>> /\ allSuccess' = allSuccess
  BY DEF InsertDone, Return, database
<1>2. msg' = msg /\ msg.channel \in Channel /\ msg.date \in Dates
  BY <1>1 DEF TypeInv, TypeOK, msg
<1>3. StoredAll(Len(log))' <=> \A r \in 1 .. reg : Has(r)
  BY <1>1, <1>2 DEF StoredAll, Has, InTable, Row, msg
<1>4. msg.date \notin taken =>
        (allSuccess = TRUE /\ \A r \in 1 .. reg : Has(r))
        \/ (allSuccess = FALSE /\ \E r \in 1 .. reg : ~Has(r))
  BY <1>1 DEF Inserting
<1>5. AnswerIsTrue'
  <2> SUFFICES ASSUME msg.date \notin taken' PROVE (allSuccess <=> StoredAll(Len(log)))'
    BY <1>2 DEF AnswerIsTrue
  <2>1. allSuccess' = TRUE <=> \A r \in 1 .. reg : Has(r)
    BY <1>1, <1>4
  <2>2. allSuccess' \in BOOLEAN
    BY <1>1 DEF TypeInv, TypeOK
  <2>3. allSuccess' = TRUE <=> StoredAll(Len(log))'
    BY <1>3, <2>1
  <2> QED  BY <2>2, <2>3, Zenon
<1> QED  BY <1>1, <1>5 DEF Answers, BeforeInsert, Inserting

(* A call that fails before its first insertRow() answers FALSE. *)
LEMMA EarlyFailure ==
  ASSUME TypeInv, RowsBehind, BeforeInsert, writer \in {"check", "create"},
         Return(FALSE), rows' = rows, log' = log
  PROVE  Answers'
<1>1. writer' = "return" /\ allSuccess' = FALSE /\ reg = 0 /\ msg' = msg
  BY DEF Return, BeforeInsert, msg
<1>2. msg.regs > 0 => ~StoredAll(Len(log))
  BY <1>1, NothingStored DEF InProgress
<1>3. StoredAll(Len(log))' <=> StoredAll(Len(log))
  BY DEF StoredAll, InTable, Row
<1>4. AnswerIsTrue'
  BY <1>1, <1>2, <1>3 DEF AnswerIsTrue
<1> QED  BY <1>1, <1>4 DEF Answers, BeforeInsert, Inserting

LEMMA BeginAnswers ==
  ASSUME TypeInv, NEW m \in Messages, BeginWrite(m)
  PROVE  Answers'
<1>1. /\ log' = Append(log, m) /\ reg' = 0 /\ rows' = rows
      /\ (writer' = "check" /\ allSuccess' = TRUE) \/ Return(FALSE)
  BY DEF BeginWrite, database
<1>2. /\ Len(log') = Len(log) + 1 /\ Len(log) \in Nat
      /\ msg' = m /\ m.regs \in Nat
  BY <1>1, Logged, DbNumbers
<1>3. CASE writer' = "check" /\ allSuccess' = TRUE
  BY <1>1, <1>3 DEF Answers, BeforeInsert, Inserting, AnswerIsTrue
<1>4. CASE Return(FALSE)
  <2>1. writer' = "return" /\ allSuccess' = FALSE
    BY <1>4 DEF Return
  <2>2. ASSUME m.regs > 0, StoredAll(Len(log))' PROVE FALSE
    <3>1. log'[Len(log')] = m /\ 1 \in 1 .. m.regs
      BY <1>2, <2>2 DEF msg
    <3>2. /\ m.channel \in Channel /\ m.date \in Dates
          /\ Row(Len(log'), 1) \in {rows[m.channel][m.date][i] : i \in DOMAIN rows[m.channel][m.date]}
      BY <1>1, <2>2, <3>1 DEF StoredAll, InTable, Row
    <3>3. PICK i \in DOMAIN rows[m.channel][m.date] :
            rows[m.channel][m.date][i] = Row(Len(log'), 1)
      BY <3>2
    <3>4. rows[m.channel][m.date][i].write \in 1 .. Len(log)
      BY <3>2, RowAt
    <3>5. Row(Len(log'), 1).write = Len(log) + 1
      BY <1>2 DEF Row
    <3> QED  BY <1>2, <3>3, <3>4, <3>5
  <2>3. AnswerIsTrue'
    BY <1>2, <2>1, <2>2 DEF AnswerIsTrue
  <2> QED  BY <2>1, <2>3 DEF Answers, BeforeInsert, Inserting
<1> QED  BY <1>1, <1>3, <1>4

LEMMA WriterAnswers ==
  ASSUME AnswerInv, WriterStep
  PROVE  Answers'
<1>0. TypeInv /\ RowsBehind /\ Answers /\ BeforeInsert /\ Inserting
  BY DEF AnswerInv, PlaceInv, Answers
<1>1. ASSUME writer \in {"check", "create", "list", "drop"}, UNCHANGED <<log, reg, allSuccess>>,
             writer' \in {"create", "list", "drop", "insert"}
      PROVE  Answers'
  <2>1. reg' = 0 /\ allSuccess' = TRUE
    BY <1>0, <1>1 DEF BeforeInsert
  <2>2. \A r : r \notin 1 .. reg'
    BY <2>1
  <2> QED  BY <1>1, <2>1, <2>2 DEF Answers, BeforeInsert, Inserting, AnswerIsTrue
<1>2. CASE CheckTable
  <2>1. /\ writer = "check" /\ UNCHANGED <<rows, log, reg>>
        /\ \/ writer' \in {"create", "insert"} /\ allSuccess' = allSuccess
           \/ Return(FALSE)
    BY <1>2 DEF CheckTable, database
  <2> QED  BY <1>0, <1>1, <2>1, EarlyFailure
<1>3. CASE CreateTable
  <2>1. /\ writer = "create" /\ UNCHANGED <<rows, log, reg>>
        /\ \/ writer' = "list" /\ allSuccess' = allSuccess
           \/ Return(FALSE)
    BY <1>3 DEF CreateTable
  <2> QED  BY <1>0, <1>1, <2>1, EarlyFailure
<1>4. CASE ListTables
  BY <1>1, <1>4 DEF ListTables
<1>5. CASE DropOldest
  BY <1>1, <1>5 DEF DropOldest
<1>6. CASE InsertRow
  BY <1>0, <1>6, InsertAnswers DEF AnswerInv
<1>7. CASE InsertDone
  BY <1>0, <1>7, DoneAnswers
<1>8. CASE EndWrite
  BY <1>8 DEF EndWrite, Answers, BeforeInsert, Inserting, AnswerIsTrue
<1> QED  BY <1>2, <1>3, <1>4, <1>5, <1>6, <1>7, <1>8 DEF WriterStep

(* dropTable() of the table being written is remembered, any other one, or  *)
(* one of a table that is not there, leaves the rows of the message alone.  *)
LEMMA DropAnswers ==
  ASSUME AnswerInv, NEW c \in 0 .. MaxChannels, NEW d \in Dates, DropTable(c, d)
  PROVE  Answers'
<1>1. /\ UNCHANGED <<writer, log, reg, allSuccess>>
      /\ \/ /\ c \in Channel /\ RemoveTable(c, d)
            /\ taken' = IF writer # "idle" /\ msg.channel = c THEN taken \cup ({d} \cap dates[c])
                                                             ELSE taken
         \/ rows' = rows /\ taken' = taken
  BY DEF DropTable, GetHandle, writing, database
<1>2. /\ Answers
      /\ rows \in [Channel -> [Dates -> Seq(RowType)]]
      /\ writer = "insert" => msg.channel \in Channel /\ msg.date \in Dates
      /\ c \in Channel => (rows[c][d] # <<>> => d \in dates[c])
  BY PlaceMeans DEF AnswerInv, PlaceInv, TypeInv, TypeOK, RowsTyped, RowsInPlace
<1>3. CASE rows' = rows /\ taken' = taken
  BY <1>1, <1>2, <1>3, AnswerKept
<1>4. CASE /\ c \in Channel /\ RemoveTable(c, d)
           /\ taken' = IF writer # "idle" /\ msg.channel = c THEN taken \cup ({d} \cap dates[c])
                                                            ELSE taken
  <2>1. rows' = [rows EXCEPT ![c][d] = <<>>]
    BY <1>4 DEF RemoveTable
  <2>2. \A e \in Channel, f \in Dates : e # c \/ f # d => rows'[e][f] = rows[e][f]
    BY <1>2, <2>1
  <2>3. rows[c][d] = <<>> => rows'[c][d] = rows[c][d]
    BY <1>2, <1>4, <2>1
  <2>4. msg.date \notin taken' /\ writer # "idle" /\ msg.channel \in Channel /\ msg.date \in Dates =>
           rows'[msg.channel][msg.date] = rows[msg.channel][msg.date]
    BY <1>2, <1>4, <2>2, <2>3
  <2>5. taken \subseteq taken'
    BY <1>4
  <2> QED  BY <1>1, <1>2, <2>4, <2>5, AnswerKept
<1> QED  BY <1>1, <1>3, <1>4

LEMMA NextAnswers == AnswerInv /\ [Next]_vars => AnswerInv'
<1> SUFFICES ASSUME AnswerInv, [Next]_vars PROVE AnswerInv'
  OBVIOUS
<1>0. PlaceInv' /\ TypeInv
  BY NextPlace DEF AnswerInv, PlaceInv
<1> SUFFICES Answers'
  BY <1>0 DEF AnswerInv
<1>1. ASSUME UNCHANGED <<writing, database, taken>> PROVE Answers'
  <2>1. UNCHANGED <<writer, log, reg, allSuccess, rows, taken>>
    BY <1>1 DEF writing, database
  <2>2. Answers /\ (writer = "insert" => msg.channel \in Channel /\ msg.date \in Dates)
    BY <1>0 DEF AnswerInv, TypeInv, TypeOK
  <2> QED  BY <2>1, <2>2, AnswerKept
<1>2. CASE \E m \in Messages : BeginWrite(m)
  BY <1>0, <1>2, BeginAnswers
<1>3. CASE WriterStep
  BY <1>3, WriterAnswers
<1>4. CASE ClientStep
  <2>1. CASE \E c \in 0 .. MaxChannels, d \in Dates : DropTable(c, d)
    BY <2>1, DropAnswers
  <2>2. CASE UNCHANGED <<writing, database, taken>>
    BY <1>1, <2>2
  <2> QED  BY <1>4, <2>1, <2>2 DEF ClientStep, BeginSelect, ScanTable, EndSelect
<1>5. CASE Restart
  BY <1>5 DEF Restart, Answers, BeforeInsert, Inserting, AnswerIsTrue
<1>6. CASE UNCHANGED vars
  BY <1>1, <1>6 DEF vars
<1> QED  BY <1>2, <1>3, <1>4, <1>5, <1>6 DEF Next

(* writeMessage() answers true exactly when each register of the message    *)
(* has its row, through failures, restarts, and drops of other tables.      *)
THEOREM AnswersAreTrue == Spec => []AnswerIsTrue
<1>1. Init => AnswerInv
  BY InitPlace DEF Init, AnswerInv, Answers, BeforeInsert, Inserting, AnswerIsTrue
<1>2. AnswerInv => AnswerIsTrue
  BY DEF AnswerInv, Answers
<1> QED  BY <1>1, <1>2, NextAnswers, PTL DEF Spec
=============================================================================
