----------------------------- MODULE DbManager -----------------------------
(***************************************************************************)
(* DataBaseManager (dbManager.cpp): one SQLite database per channel, one   *)
(* table per date, one row per register_map entry.                         *)
(*                                                                         *)
(*   - The writer is the reader thread of main.cpp inside writeMessage().  *)
(*     Every SQLite statement commits by itself and is one action; nothing *)
(*     holds mutex_ across two of them.                                    *)
(*   - The client is another thread that calls selectByIdAndChannel();     *)
(*     dropTable() may come from any thread, at any moment.  Both are      *)
(*     public operations that main does not use.                           *)
(*   - A statement may fail, and the process may die between any two; each *)
(*     is a fault.  Handles are volatile, tables are not.                  *)
(*                                                                         *)
(* A date stands for the name of a table; dates compare as the names do.   *)
(* The scan of one table is one action: it ends by reading what the table  *)
(* holds at that moment.                                                   *)
(***************************************************************************)
EXTENDS Naturals, Sequences, FiniteSets

CONSTANTS MaxChannels, \* maxChannels_
          MaxTables,   \* maxTablesPerDb_
          Dates,       \* dates of messages: positive numbers
          ListedDates, \* the dates that match the GLOB of getAllTableNames()
          Inherited,   \* the tables that earlier processes left in each database
          Messages,    \* records: id, channel, date, regs (how many registers)
          MaxWrites,   \* bound: calls of writeMessage()
          MaxDrops,    \* bound: calls of dropTable()
          MaxSelects,  \* bound: calls of selectByIdAndChannel()
          MaxFaults    \* bound: failed statements and restarts

NoDate == 0            \* "": the timestamp has fewer than 8 characters

ASSUME DbAssumption ==
  /\ MaxChannels \in Nat /\ MaxTables \in Nat \ {0}
  /\ Dates \subseteq Nat \ {NoDate} /\ ListedDates \subseteq Dates /\ IsFiniteSet(Dates)
  /\ Inherited \subseteq ListedDates /\ Cardinality(Inherited) <= MaxTables
  /\ Messages \subseteq [id : Nat, channel : Nat, date : Dates \cup {NoDate}, regs : Nat]
  /\ MaxWrites \in Nat /\ MaxDrops \in Nat /\ MaxSelects \in Nat /\ MaxFaults \in Nat

Channel == 1 .. MaxChannels

VARIABLES
  handles,    \* dbHandles_: the channels whose database is open
  dates,      \* the tables of each database
  rows,       \* the rows of each table, in insertion order
  writer,     \* where writeMessage() is
  log,        \* the messages writeMessage() was called with; the last is current
  doomed,     \* the tables cleanOldTables() still has to drop
  reg,        \* how many registers insertRow() was called for
  allSuccess, \* what writeMessage() returns
  client,     \* where selectByIdAndChannel() is
  ask,        \* its arguments
  toScan,     \* the tables it still has to look at
  found,      \* the rows it has found
  \* What happened so far; no action reads these, except for the bounds.
  answered,   \* the writes that returned true
  owed,       \* writes the current select should find
  taken,      \* tables dropTable() took from its channel during the current write
  drops, selects, faults

database == <<dates, rows>>
writing == <<writer, log, doomed, reg, allSuccess, answered>>
asking == <<client, ask, toScan, found, selects>>
vars == <<handles, database, writing, asking, owed, taken, drops, faults>>

msg == log[Len(log)]
Listed(c) == dates[c] \cap ListedDates        \* getAllTableNames()
Newer(c, d) == {e \in Listed(c) : e > d}
IsOldest(d, S) == d \in S /\ \A e \in S : d <= e
Row(w, r) == [write |-> w, reg |-> r]
InTable(c, d) == {rows[c][d][i] : i \in DOMAIN rows[c][d]}
StoredAll(w) ==
  /\ log[w].channel \in Channel /\ log[w].date \in Dates
  /\ \A r \in 1 .. log[w].regs : Row(w, r) \in InTable(log[w].channel, log[w].date)

Init ==
  /\ handles = {}
  /\ dates = [c \in Channel |-> Inherited]
  /\ rows = [c \in Channel |-> [d \in Dates |-> <<>>]]
  /\ writer = "idle" /\ log = <<>> /\ doomed = {} /\ reg = 0 /\ allSuccess = FALSE
  /\ client = "idle" /\ ask = [channel |-> 0, id |-> 0] /\ toScan = {} /\ found = {}
  /\ answered = {} /\ owed = {}
  /\ taken = {} /\ drops = 0 /\ selects = 0 /\ faults = 0

Works == UNCHANGED faults
Fails == faults < MaxFaults /\ faults' = faults + 1

GetHandleFromZero(c) == c \in 0 .. MaxChannels /\ handles' = handles \cup {c} /\ Works

(* getDbHandle(): an open handle is reused, a missing one is opened. *)
GetHandle(c) == c \in Channel /\ handles' = handles \cup {c} /\ Works
NoHandle(c) ==
  /\ UNCHANGED handles
  /\ \/ c \notin Channel /\ Works
     \/ c \in Channel \ handles /\ Fails
-----------------------------------------------------------------------------
(* The writer. *)
Return(result) == writer' = "return" /\ allSuccess' = result

(* writeMessage() up to ensureTableExists(). *)
BeginWrite(m) ==
  /\ writer = "idle" /\ Len(log) < MaxWrites
  /\ log' = Append(log, m)
  /\ reg' = 0 /\ doomed' = {} /\ taken' = {}
  /\ \/ NoHandle(m.channel) /\ Return(FALSE)
     \/ GetHandle(m.channel) /\ m.date = NoDate /\ Return(FALSE)
     \/ GetHandle(m.channel) /\ m.date # NoDate /\ writer' = "check" /\ allSuccess' = TRUE
  /\ UNCHANGED <<database, asking, answered, owed, drops>>

(* Does the table exist?  A failed step reads as no. *)
CheckTable ==
  /\ writer = "check"
  /\ \/ /\ Works
        /\ writer' = IF msg.date \in dates[msg.channel] THEN "insert" ELSE "create"
        /\ UNCHANGED allSuccess
     \/ Fails /\ Return(FALSE)
     \/ Fails /\ writer' = "create" /\ UNCHANGED allSuccess
  /\ UNCHANGED <<handles, database, asking, log, doomed, reg, answered, owed, taken, drops>>

CreateTable ==
  /\ writer = "create"
  /\ \/ /\ Works
        /\ dates' = [dates EXCEPT ![msg.channel] = @ \cup {msg.date}]
        /\ writer' = "list" /\ UNCHANGED allSuccess
     \/ Fails /\ Return(FALSE) /\ UNCHANGED dates
  /\ UNCHANGED <<handles, rows, asking, log, doomed, reg, answered, owed, taken, drops>>

(* What getAllTableNames() returns; a failure cuts the list short. *)
TableNames(c, names) ==
  \/ Works /\ names = Listed(c)
  \/ Fails /\ \E d \in Listed(c) : names = {e \in Listed(c) : e < d}

OldestBeyond(n, S) == {d \in S : Cardinality({e \in S : e > d}) >= n}

ListOneTooFew ==
  /\ writer = "list"
  /\ \E names \in SUBSET Listed(msg.channel) :
        TableNames(msg.channel, names) /\ doomed' = OldestBeyond(MaxTables + 1, names)
  /\ writer' = IF doomed' = {} THEN "insert" ELSE "drop"
  /\ UNCHANGED <<handles, database, asking, log, reg, allSuccess, answered, owed, taken, drops>>

(* cleanOldTables(): everything but the newest MaxTables is to be dropped. *)
ListTables ==
  /\ writer = "list"
  /\ \E names \in SUBSET Listed(msg.channel) :
        TableNames(msg.channel, names) /\ doomed' = OldestBeyond(MaxTables, names)
  /\ writer' = IF doomed' = {} THEN "insert" ELSE "drop"
  /\ UNCHANGED <<handles, database, asking, log, reg, allSuccess, answered, owed, taken, drops>>

RemoveTable(c, d) ==
  /\ dates' = [dates EXCEPT ![c] = @ \ {d}]
  /\ rows' = [rows EXCEPT ![c][d] = <<>>]
  /\ owed' = {w \in owed : <<log[w].channel, log[w].date>> # <<c, d>>}

DropNewest ==
  /\ writer = "drop"
  /\ \E d \in Listed(msg.channel) :
        /\ Newer(msg.channel, d) = {}
        /\ RemoveTable(msg.channel, d) /\ Works
  /\ \E d \in doomed : doomed' = doomed \ {d}
  /\ writer' = IF doomed' = {} THEN "insert" ELSE "drop"
  /\ UNCHANGED <<handles, asking, log, reg, allSuccess, answered, taken, drops>>

DropOldestLeft ==
  /\ writer = "drop"
  /\ \E d \in Listed(msg.channel) :
        /\ IsOldest(d, Listed(msg.channel))
        /\ RemoveTable(msg.channel, d) /\ Works
  /\ \E d \in doomed : doomed' = doomed \ {d}
  /\ writer' = IF doomed' = {} THEN "insert" ELSE "drop"
  /\ UNCHANGED <<handles, asking, log, reg, allSuccess, answered, taken, drops>>

(* One DROP TABLE IF EXISTS of cleanOldTables(), oldest first. *)
DropOldest ==
  /\ writer = "drop"
  /\ \E d \in doomed :
        /\ IsOldest(d, doomed)
        /\ \/ RemoveTable(msg.channel, d) /\ Works
           \/ Fails /\ UNCHANGED <<database, owed>>
        /\ doomed' = doomed \ {d}
  /\ writer' = IF doomed' = {} THEN "insert" ELSE "drop"
  /\ UNCHANGED <<handles, asking, log, reg, allSuccess, answered, taken, drops>>

InsertForgetsFailure ==
  /\ writer = "insert" /\ reg < msg.regs
  /\ reg' = reg + 1
  /\ \/ /\ Works /\ msg.date \in dates[msg.channel]
        /\ rows' = [rows EXCEPT ![msg.channel][msg.date] = Append(@, Row(Len(log), reg + 1))]
        /\ allSuccess' = TRUE
     \/ /\ Fails \/ (Works /\ msg.date \notin dates[msg.channel])
        /\ allSuccess' = FALSE /\ UNCHANGED rows
  /\ UNCHANGED <<handles, dates, asking, writer, log, doomed, answered, owed, taken, drops>>

InsertRetries ==
  /\ writer = "insert" /\ reg < msg.regs
  /\ \/ /\ msg.date \in dates[msg.channel]
        /\ rows' = [rows EXCEPT ![msg.channel][msg.date] = Append(@, Row(Len(log), reg + 1))]
        /\ \/ Works /\ reg' = reg + 1
           \/ Fails /\ reg' = reg
        /\ UNCHANGED allSuccess
     \/ /\ Works /\ msg.date \notin dates[msg.channel]
        /\ reg' = reg + 1 /\ allSuccess' = FALSE /\ UNCHANGED rows
  /\ UNCHANGED <<handles, dates, asking, writer, log, doomed, answered, owed, taken, drops>>

(* insertRow(): without its table the statement cannot be prepared. *)
InsertRow ==
  /\ writer = "insert" /\ reg < msg.regs
  /\ reg' = reg + 1
  /\ \/ /\ Works /\ msg.date \in dates[msg.channel]
        /\ rows' = [rows EXCEPT ![msg.channel][msg.date] = Append(@, Row(Len(log), reg + 1))]
        /\ UNCHANGED allSuccess
     \/ /\ Fails \/ (Works /\ msg.date \notin dates[msg.channel])
        /\ allSuccess' = FALSE /\ UNCHANGED rows
  /\ UNCHANGED <<handles, dates, asking, writer, log, doomed, answered, owed, taken, drops>>

InsertDone ==
  /\ writer = "insert" /\ reg = msg.regs
  /\ Return(allSuccess)
  /\ UNCHANGED <<handles, database, asking, log, doomed, reg, answered, owed, taken, drops, faults>>

EndWrite ==
  /\ writer = "return"
  /\ writer' = "idle"
  /\ answered' = IF allSuccess THEN answered \cup {Len(log)} ELSE answered
  /\ UNCHANGED <<handles, database, asking, log, doomed, reg, allSuccess, owed, taken, drops, faults>>
-----------------------------------------------------------------------------
(* The other threads. *)

(* dropTable(): open the database if need be, and one statement. *)
DropTable(c, d) ==
  /\ drops < MaxDrops /\ drops' = drops + 1
  /\ \/ /\ GetHandle(c) /\ RemoveTable(c, d)
        /\ taken' = IF writer # "idle" /\ msg.channel = c THEN taken \cup ({d} \cap dates[c])
                                                         ELSE taken
     \/ NoHandle(c) /\ UNCHANGED <<database, owed, taken>>
     \/ /\ c \in Channel /\ handles' = handles \cup {c} /\ Fails
        /\ UNCHANGED <<database, owed, taken>>
  /\ UNCHANGED <<writing, asking>>

(* selectByIdAndChannel() up to its list of tables. *)
BeginSelect(c, id) ==
  /\ client = "idle" /\ selects < MaxSelects
  /\ selects' = selects + 1
  /\ ask' = [channel |-> c, id |-> id]
  /\ found' = {}
  /\ \/ /\ NoHandle(c)
        /\ toScan' = {} /\ owed' = {}
     \/ /\ c \in Channel /\ handles' = handles \cup {c}
        /\ \E names \in SUBSET Listed(c) : TableNames(c, names) /\ toScan' = names
        /\ owed' = IF faults' # faults THEN {}
                   ELSE {w \in answered : /\ log[w].channel = c /\ log[w].id = id
                                          /\ log[w].date \in dates[c] /\ StoredAll(w)}
  /\ client' = IF toScan' = {} THEN "done" ELSE "scan"
  /\ UNCHANGED <<database, writing, taken, drops>>

ScanStopsEarly ==
  /\ client = "scan"
  /\ \E d \in toScan :
        /\ IsOldest(d, toScan)
        /\ found' = {row \in InTable(ask.channel, d) : log[row.write].id = ask.id}
        /\ toScan' = {}
  /\ client' = "done"
  /\ UNCHANGED <<handles, database, writing, ask, selects, owed, taken, drops, faults>>

ScanFirstRow ==
  /\ client = "scan"
  /\ \E d \in toScan :
        LET t == rows[ask.channel][d]
            hits == {i \in DOMAIN t : log[t[i].write].id = ask.id}
        IN  /\ IsOldest(d, toScan)
            /\ found' = {t[i] : i \in {j \in hits : \A k \in hits : j <= k}}
            /\ toScan' = IF found' = {} THEN toScan \ {d} ELSE {}
  /\ client' = IF toScan' = {} THEN "done" ELSE "scan"
  /\ UNCHANGED <<handles, database, writing, ask, selects, owed, taken, drops, faults>>

(* One table: a table dropped since has no rows left, a failed statement    *)
(* yields the first few; the first table with a match ends the search.      *)
ScanTable ==
  /\ client = "scan"
  /\ \E d \in toScan :
        LET c == ask.channel
            Matches(n) == {rows[c][d][i] : i \in {j \in 1 .. n : log[rows[c][d][j].write].id = ask.id}}
        IN  /\ IsOldest(d, toScan)
            /\ \/ Works /\ found' = Matches(Len(rows[c][d])) /\ UNCHANGED owed
               \/ Fails /\ owed' = {} /\ \E n \in 0 .. Len(rows[c][d]) : found' = Matches(n)
            /\ toScan' = IF found' = {} THEN toScan \ {d} ELSE {}
  /\ client' = IF toScan' = {} THEN "done" ELSE "scan"
  /\ UNCHANGED <<handles, database, writing, ask, selects, taken, drops>>

EndSelect ==
  /\ client = "done"
  /\ client' = "idle" /\ owed' = {}
  /\ UNCHANGED <<handles, database, writing, ask, toScan, found, selects, taken, drops, faults>>
-----------------------------------------------------------------------------
(* The process dies and starts again. *)
Restart ==
  /\ Fails
  /\ handles' = {}
  /\ writer' = "idle" /\ doomed' = {} /\ reg' = 0 /\ allSuccess' = FALSE
  /\ client' = "idle" /\ toScan' = {} /\ found' = {} /\ owed' = {}
  /\ UNCHANGED <<database, log, ask, answered, selects, taken, drops>>

WriterStep ==
  \/ CheckTable \/ CreateTable \/ ListTables \/ DropOldest
  \/ InsertRow \/ InsertDone \/ EndWrite
ClientStep ==
  \/ \E c \in 0 .. MaxChannels, d \in Dates : DropTable(c, d)
  \/ \E c \in 0 .. MaxChannels, m \in Messages : BeginSelect(c, m.id)
  \/ ScanTable
  \/ EndSelect

Next ==
  \/ \E m \in Messages : BeginWrite(m)
  \/ WriterStep
  \/ ClientStep
  \/ Restart

Spec == Init /\ [][Next]_vars
-----------------------------------------------------------------------------
(* Types; the writer works on a channel and date that exist past its early  *)
(* returns.                                                                 *)
TypeOK ==
  /\ handles \subseteq Channel
  /\ dates \in [Channel -> SUBSET Dates]
  /\ \A c \in Channel, d \in Dates :
        rows[c][d] \in Seq([write : 1 .. Len(log), reg : Nat])
  /\ writer \in {"idle", "check", "create", "list", "drop", "insert", "return"}
  /\ writer \notin {"idle", "return"} => msg.channel \in handles /\ msg.date \in Dates
  /\ log \in Seq(Messages)
  /\ doomed \subseteq ListedDates
  /\ reg \in Nat /\ allSuccess \in BOOLEAN
  /\ client \in {"idle", "scan", "done"}
  /\ client = "scan" => ask.channel \in handles
  /\ toScan \subseteq ListedDates
  /\ answered \subseteq 1 .. Len(log) /\ owed \subseteq answered
  /\ taken \subseteq Dates /\ drops \in Nat /\ faults \in 0 .. MaxFaults

(* A database outgrows its limit of listed tables by at most one table for  *)
(* every fault there ever was, and by the table being added: an excess a    *)
(* crash or a failed drop leaves behind does not build up further.          *)
TableLimitUpToFaults ==
  \A c \in Channel :
     Cardinality(Listed(c)) <=
        MaxTables + faults
          + (IF writer \in {"list", "drop"} /\ msg.channel = c THEN 1 ELSE 0)

(* cleanOldTables() works on a list that dropTable() may have outdated, yet *)
(* what it drops has MaxTables newer tables, counting only those that are   *)
(* left and those that dropTable() took from under this very write.         *)
CleanupKeepsNewest ==
  [][drops' = drops =>
       \A c \in Channel : \A d \in dates[c] \ dates'[c] :
          Cardinality(Newer(c, d) \cup {e \in taken \cap ListedDates : e > d}) >= MaxTables]_vars

(* writeMessage() answers true exactly when every register of the message   *)
(* has its row, whatever failed on the way (dropTable() of the very table   *)
(* and an empty register_map aside).                                        *)
AnswerIsTrue ==
  writer = "return" /\ msg.date \notin taken /\ msg.regs > 0
    => (allSuccess <=> StoredAll(Len(log)))

(* What a true answer is worth: as long as nobody calls dropTable(), the    *)
(* message stays whole in its table, however long the writes, clean-ups,    *)
(* failures and restarts go on, until MaxTables newer tables replace it.    *)
Superseded(w) ==
  /\ log[w].date \in ListedDates
  /\ Cardinality(Newer(log[w].channel, log[w].date)) >= MaxTables
AnsweredIsKept == drops = 0 => \A w \in answered : StoredAll(w) \/ Superseded(w)

(* Every row is in the database of its message's channel, in the table of   *)
(* its date, behind the rows of earlier messages and registers, and once.   *)
RowsInPlace ==
  \A c \in Channel, d \in Dates :
     LET t == rows[c][d] IN
     /\ t # <<>> => d \in dates[c]
     /\ \A i \in DOMAIN t : log[t[i].write].channel = c /\ log[t[i].write].date = d
     /\ \A i, j \in DOMAIN t : i < j =>
           \/ t[i].write < t[j].write
           \/ t[i].write = t[j].write /\ t[i].reg < t[j].reg

(* selectByIdAndChannel() finds a message that was written before it began  *)
(* and not dropped since, however its list of tables ages meanwhile.        *)
SelectFindsStored ==
  client = "done" /\ (\E w \in owed : log[w].date \in ListedDates /\ log[w].regs > 0)
     => found # {}

(* dbManager.h:43: the rows found are aggregated into the message.  One     *)
(* that was stored before the select began is found whole or not at all,    *)
(* the writes, clean-ups and drops that overlap it notwithstanding.         *)
SelectIsWhole ==
  client = "done" =>
     \A row \in found : row.write \in owed =>
        \A r \in 1 .. log[row.write].regs : Row(row.write, r) \in found

(* What dbManager.h:58 says of ensureTableExists(): afterwards the table of *)
(* the date exists.                                                         *)
EnsuredTableExists ==
  writer = "insert" /\ msg.date \notin taken => msg.date \in dates[msg.channel]
=============================================================================
