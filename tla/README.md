# A verification project for sqlite3cppdemo (the `database` service)

The program runs on an ARM Linux device. It receives Modbus reports over MQTT,
buffers them in a ring, writes them to one SQLite database per channel, answers
keep-alive requests and, before the device reboots, drains the buffer on request.
This directory holds TLA+ models of it, TLC configurations and TLAPS proofs.
Paths such as `main.cpp:201` are relative to `src/src/` or `src/include/`.

## 1. Inventory

| component | source | state | operations | hard parts |
|---|---|---|---|---|
| MessageQueue | `" modbus_message_queue.cpp"` | `buffer_`, `head_`, `tail_`, `count_`, under `mutex_` | `write` (overwrites the oldest when full), `read`, `size`, `freeSize`, `clear` | wrap-around after overflow |
| Application | `main.cpp` | `g_need_flush`, `g_flush_completed` under `g_mutex`; `g_cv`; the ring; one local message | message callback (report, keep-alive, reboot request), reader thread | two threads, one condition variable, timeout, process killed |
| DataBaseManager | `dbManager.cpp` | handles per channel; tables and rows in SQLite | `writeMessage`, `dropTable`, `selectByIdAndChannel` | a write is many transactions, retention, failures, restart |
| MqttClient | `mqttclient.cpp` | `connected_`, `running_`, `subscriptions_`, libmosquitto's loop thread | `connect`, `disconnect`, `subscribe`, `unsubscribe`, `run` with `reconnect` and `resubscribe`, `stop` | three threads, the library reconnects too |
| LogManager | `log_manager.hpp` | current file, size, creation time, level; archives on disk | `init`, `log`, rotation, compression, clean-up | failing steps, restart, equal time stamps, the clock |
| Parser | `main.cpp:21-126` | none | `parseModbusMsg`, token checks | sentinels, integer width |
| Init script | `S90database.sh` | pid file | start, stop, restart | kills the process |

json.hpp, sqlite3.h and the mosquitto headers are vendored: some 46 000 of the
47 600 lines, none of them this program's logic.

**How they interact.** libmosquitto's loop thread calls the message callback, one
message at a time. A report goes through the parser into the ring. A reboot request
sets `g_need_flush`, clears `g_flush_completed`, notifies `g_cv` and waits on it for
the reader, without a time limit, still on the loop thread. The reader wakes for a
request or after 60 s, reads the ring until it is empty, hands each message to
`writeMessage`, sets the flags the other way round and notifies. `run()` watches
`connected_` on a third thread. All of them log.

**What makes each correct.**

- Ring: FIFO of the newest messages; the cursors agree; only written slots are read.
- Application: no message is lost but to a full ring, a failed write or the end of
  the process; messages reach the database in order; "ready" means drained; every
  request is answered; every report leaves the ring.
- DataBaseManager: rows land in their channel's database and date's table, once and
  in order; the number of tables is bounded; the newest tables stay; the answer of
  `writeMessage` is right; a select finds what was stored.
- MqttClient: as long as the broker can be reached, the client ends up connected and
  subscribed to all topics, and to none it was not told of.
- LogManager: log file and archives are bounded; no line is lost to a rotation; a
  broken stream recovers.
- Parser and requests: nothing incomplete is queued, what is well formed is queued as
  it was sent, a reply carries its request's token.

The hazards, each at its line, are listed in PROJECT.json.

## 2. Plan

Done, in this order: `BoundedFifo`, `MessageQueue`, `DatabaseApp`, `DbManager`,
`MqttClient`, `LogManager`, `Requests`, `DatabaseService` (which composes
`MessageQueue` and `DbManager` under the threads of `main.cpp` and implements
`DatabaseApp`), and the proofs of section 5.

Every invariant, action property and refinement that a run checks is now a theorem.
Left:

1. The liveness properties (`ReportsProcessed`, `RebootAnswered`, `ConnectsAgain`,
   `SubscribesAgain`, `StopEndsRun`) stay with TLC: fairness is beyond the prover. What
   can be proved of them is their safety half, as `NoLostWakeup` is for
   `RebootAnswered`; the same could be stated for `StopEndsRun` and `ConnectsAgain`.
2. The refinement of `DatabaseApp` by `DatabaseService` is proved for `Spec`, not for
   the fair specification.

## 3. Modules

A module holds, before the definition it is a variant of, the slip a programmer could
make there (`WriteKeepsHead`, `RequestKeepsCompleted`, `AlwaysRm`, ...). `Next` uses
none of them; with one put in place of the right definition, TLC refutes the property
that PROJECT.json pairs it with.

**BoundedFifo** is the promise of the header: a FIFO of at most `Size` messages whose
`Write` gives up the oldest one when it is full.

**MessageQueue** is the ring. Each operation holds `mutex_` throughout and is one
action. `N` is `buffer_.size()` (a capacity of 0 becomes 1). `Contents` reads the
valid slots from `head_`; with it the ring implements BoundedFifo (`ImplementsFifo`).

**DatabaseApp** models the two threads of `main.cpp`. The ring is BoundedFifo by
INSTANCE. `needFlush` and `flushCompleted` are the two flags, `waiting` is the set of
threads blocked on `g_cv`, `reader` and `callback` say where each thread is:

| `reader` | next step in the code | | `callback` | next step in the code |
|---|---|---|---|---|
| wait | test of `g_need_flush`, `wait_for` (265-271) | | idle | waits for a message |
| drain | `mq.read` (277) | | notify | `notify_one` (198) |
| store | `writeMessage` (279) | | await | `g_cv.wait` (201-204) |
| finish | the flags (301-305) | | reply | `publish` (206-217) |
| notify | `notify_all` (306) | | | |

Every section under a mutex is one action, so all interleavings at lock boundaries
are explored. A notification removes threads from `waiting`; a woken thread
evaluates its predicate again, and may be woken for no reason. `writeMessage` either
stores the message or fails (`WritesMayFail`). `Restart` is the end of the process,
whether by the init script or by power loss, and its next start. The history
variables (`failed`, `overwritten`, `lost`, `late`, `promised`) exist for the
properties. A message is the number under which it was accepted.

**DbManager** models `dbManager.cpp` one SQLite statement at a time. `dates[c]` are
the tables of channel `c`, `rows[c][d]` the rows of one, each row naming its write and
register. `answered` are the writes that `writeMessage` answered true for. `writer`
walks through `writeMessage`: check, create, list, drop, insert, return. A second
thread, `client`, calls `selectByIdAndChannel`, and any thread `dropTable`; the
program itself calls neither, but they are the class's public interface, and `mutex_`
is said to serve several threads. Any statement may fail (`Fails`), a failed listing
is cut short and a failed existence check reads as "no", as the code has it.
`ListedDates` are the names the GLOB of `getAllTableNames` matches. The scan of one
table is one action: the scan ends by reading what the table holds at that moment, and
a DROP that overlaps it fails, which is one of the faults. `dropTable` may come
between any two statements of a write and of a select; `taken` are the tables it took
from the channel of the current write. `Inherited` are the tables that earlier
processes have left in each database, within the limit; their rows are nobody's here.

**DatabaseService** is the way of a report through all of it: the threads of
`main.cpp` as in DatabaseApp, but the queue is the ring of MessageQueue, cursors
included, and the reader in state *store* takes the statements of DbManager one by
one (`WriteStep`), any of which may fail and between any two of which the process
may die. The mapping to DatabaseApp takes `Queued` for the queue; its database is
`stored`, a history variable with the messages `writeMessage` answered true for
(`ImplementsApp`). This is where it is checked that the abstraction of DatabaseApp,
a write in one step, is right.

**Requests** is what the callback makes of one payload: the checks of
`parseModbusMsg` in their order, `get<int>()` as arithmetic modulo 2^32, and the two
token replies. A JSON value is its type and a number. The six leading fields are
checked alike; one integer and one string stand for them. An entry of `register_map`
is `value`, `description` and its other keys in the order the parser visits them.

**MqttClient** models `mqttclient.cpp` on three threads and, as external parts,
libmosquitto's loop thread and a broker:

| `main` | code | | `runner` | code (`run()`) | | `loop` | code (library) |
|---|---|---|---|---|---|---|---|
| connect | `connect` (54-60) | | off, start | before 132 | | none | not started |
| start | `mosquitto_loop_start` (61) | | poll | tests (133-134) | | running | serves the socket |
| await | wait (68-72) | | disconnect | 159 | | busy | in `on_message` |
| subscribe | `subscribe`, `unsubscribe` | | connect | 160 | | closed | before `on_disconnect` |
| done | `stop`, `disconnect` | | await | 164-168 | | retry | its own reconnect |
| loop_stop | in `disconnect` | | resubscribe | one topic per step | | ended | gone |

`link` is the connection as the client sees it, `session` the topics the broker holds
for it; the session is clean, so it ends with its connection. `overtaken` records that
the library has reconnected while nobody waited for it. `main` of the program calls
neither `disconnect`, `unsubscribe` nor `stop`; they are the class's interface, and
`disconnect` is taken at any state of the loop thread. `Subscribe` records a topic
whether it is on record or not, as the code does; `Next` takes it as `SubscribeOnce`,
an assumption on the caller that `main` meets (254-256). The waits of 5 s
(`WaitExpires`) outlast the answer to a CONNECT and the library's own retry after 1 s,
unless `SlowAnswers`: they end without an answer when the broker is away, the loop
thread is gone or a disconnect was asked for.

**LogManager** models `log_manager.hpp`. Its calls are under one mutex, so one `pc`
walks through `log()` (*idle*, *rename*, *compress*, *wait*, *cleanup*, *open*,
*write*) and `init()` (*down*, *cleanup*). Each system call may fail; the clock ticks,
and may be set back, between any two steps; the process may be killed at any of them.
The `tar && rm` of `compressLogFile` runs in a shell of its own: `shell[n]` is the one
of the process after `n` restarts, it creates the archive, fills it and removes the
file, and `pclose` (*wait*) returns when it is done. `S90database.sh` signals the
daemon alone, so `Crash` leaves the shell running, and it may finish before, during or
after the clean-up of the next `init()` (`Outlived`); a power loss is a `Crash` whose
shell fails as well. `reused` are the names that a rotation took although a file or a
running shell had them. A line has size 1. A file has the second of its rotation as
its name and an mtime. The test of the age is unsigned, modulo `Word`, as in the code.

The modules `MCDbManager`, `MCDatabaseService` and `MCRequests` give the sets of
messages, bodies and payloads of the runs; the other runs take values from their cfg.

## 4. Runs

| run, cfg | properties | bounds and why they suffice |
|---|---|---|
| `ring` MCMessageQueue | TypeOK, CursorsAgree, ValidSlotsWritten, ImplementsFifo | 3 slots, 3 messages: every head and count; overflow and wrap-around repeat without a bound on operations |
| `app` MCDatabaseApp | TypeOK, QueueHoldsNewest, StoredInOrder, EveryMessageAccounted, ReplyMeansDrained, NoLostWakeup, ReadySurvivesRestart, ReportsProcessed | ring of 2, 4 reports, 2 requests, 1 restart, failing writes: overflow, a request before and after another, a restart before and after a reply |
| `db` MCDbManager | TypeOK, TableLimitUpToFaults, AnswerIsTrue, AnsweredIsKept, RowsInPlace, SelectFindsStored, SelectIsWhole, CleanupKeepsNewest | 1 channel, limit 2, 5 dates of which 4 are listed, 1 table inherited, 3 writes, 1 `dropTable`, 1 select, 2 faults: an excess left by one fault meets a second; a select overlaps a write, its clean-up and the `dropTable`; a `dropTable` between the list and the drop of a clean-up leaves one newer table where two were listed (with a limit of 1 the table it took would excuse any drop) |
| `service` MCService | ReadyMeansInDatabase, ImplementsApp, RebootAnswered | ring of 2, 2 kinds of body, limit 1 table, 3 reports, 2 requests, 1 restart, 2 faults: overflow, a drop of the older table, a kill inside a write, and a request during each |
| `requests` MCRequests | NothingMissing, RegistersAsSent, TokenEchoed, WellFormedEnqueued | ints of 4 bits, with values at and beyond both ends; 0, 1 and 2 entries; 3 address keys, one of them a text |
| `mqtt` MCMqtt | TypeOK, SessionIsRecorded, RestsSubscribed, ConnectsAgain, SubscribesAgain, StopEndsRun | 2 topics, 3 calls, 2 faults, the first connection may fail, `disconnect` at any moment: a loss during the recovery from a loss |
| `log` MCLog | TypeOK, CurrentBounded, ArchivesBounded, SilenceBounded, LostOnlyByCleanup, OldestDeleted | threshold 2 lines, 2 s, 1 archive, 4 lines, 3 s, 2 faults, the clock set back once, 1 restart: two rotations, also in the same second, the second of them cleaning up, and a shell that outlives its process beside that of the next one |
| `app_late_request` MCReadyDrained | ReadyMeansDrained (violated) | 2 reports, 1 request, writes succeed |
| `db_old_date` MCDbEnsure | EnsuredTableExists (violated) | limit 1, 1 table inherited, 2 writes, no faults |
| `mqtt_first_fails` MCMqttFirst | EventuallyConnected (violated) | no fault but the broker's late start |
| `mqtt_unsubscribed` MCMqttUnsubscribed | EventuallySubscribed (violated) | one fault; the counterexample is a lost connection |
| `log_clock` MCLogClock | RotatesWhenDue (violated) | the clock set back once, no failing call |

Three things that these bounds cannot show are covered by theorems alone: rows of one
channel in another's database (`db` has one channel; `RowsStayInPlace`), answers
of the broker that take more than the 5 s waited for (`SlowAnswers` is FALSE in the
runs; `NoUnrecordedSession` is proved for both values), and a clean-up with several
archives to keep of which some deletions fail (`log` keeps one; `OldestGoFirst`).

`db`, `mqtt` and `log` do not check deadlock: once the calls, lines and faults of the
bounds are used up the component rests, and a stopped client stays stopped. In the
application the reader's timer always runs and the callback is always ready, so
deadlock is checked there.

**Findings**, each shown by its violation run.

1. A reboot request that arrives between the reader's last read and its flags is
   answered although a report accepted just before it is still in the ring
   (`ReadyMeansDrained`). Outside this window the handshake is right
   (`ReplyMeansDrained`).
2. A message older than all tables kept has its table created and dropped at once by
   `ensureTableExists`, which still returns true (`EnsuredTableExists`).
3. When the first `mosquitto_connect` fails, the loop thread is never started, and the
   retries of `run()` can never be reported as connected (`EventuallyConnected`).
4. When a connection is lost and the library reconnects between two polls of `run()`,
   nobody subscribes to the topics of the new session (`EventuallySubscribed`).
5. After the clock was set back the next line rotates the log once, although the file
   is neither full nor old, because a negative age is compared as an unsigned number;
   the file opened then takes the new time (`RotatesWhenDue`).

**Conditions of passing properties** that name what the code does not do either:

- a failed write is only logged, and "ready" is still said (`ReadyMeansInDatabase`
  excepts `failed`, and the messages whose table MaxTables newer ones have replaced);
- tables whose names the GLOB misses escape the limit and the search
  (`TableLimitUpToFaults`, `SelectFindsStored` are about listed tables);
- a select that overlaps a write may see part of it (`SelectIsWhole` is about the
  writes that were complete when it began), and a message without registers leaves
  nothing to find;
- a `dropTable` of the very table being written makes the answer wrong
  (`AnswerIsTrue` and `EnsuredTableExists` except the dates in `taken`), and one during
  a clean-up leaves fewer tables than the limit (`CleanupKeepsNewest` counts `taken`);
- the reply to a token beyond 32 bits carries another token (`TokenEchoed`), a value
  of -1 rejects its report (`WellFormedEnqueued`), and of two address keys the last in
  sorted order wins (`RegistersAsSent` is about one);
- `reconnect()`'s own `mosquitto_disconnect` can end the loop thread for good
  (`ConnectsAgain`, `SubscribesAgain` except `LoopGone`), and a `stop()` before `run()`
  has begun is forgotten (`StopEndsRun`);
- a topic that is subscribed to twice is recorded twice, and one `unsubscribe` then
  leaves it on record; the caller is assumed not to do that (`SubscribeOnce`);
- with the clock set back, clean-up goes by mtime and may delete the archive of a later
  rotation (`OldestDeleted`); two rotations within a second overwrite one another
  (`LostOnlyByCleanup` names it); a file whose compression failed is never counted or
  deleted (`ArchivesBounded` is about archives);
- a shell that outlived its process may add its archive behind the clean-up of the next
  `init()`, so that one more than `max_log_files` stays until the next rotation
  (`ArchivesBounded`), may give it a later mtime than the archives of later rotations
  have (`OldestDeleted`), and may remove the file after a clean-up has unlinked the
  archive it was writing (`LostOnlyByCleanup`).

**Fairness.** A thread's own steps are weakly fair: they are runnable threads that
hold no lock for long, and the calls they make return. Beyond that:

- DatabaseApp, `FairSpec`: strong fairness of the timeout. `wait_for` keeps its
  deadline across wake-ups, so a reader that waits again and again times out.
- DatabaseService, `PromptSpec`: nothing more; in particular the timer is not assumed,
  so `RebootAnswered` is about the notifications alone.
- MqttClient, `FairSpec`: a broker that is away returns, and the faults are bounded,
  so that in the end the broker can be reached for good. Strong fairness of
  `~connected /\ ReconnectDisconnects`: `on_connect` does not for ever fall into the
  few instructions between `run()`'s test of `connected_` and its
  `mosquitto_disconnect`.

Reports, requests, spurious wake-ups, messages, calls, faults and restarts are never
assumed to happen.

## 5. Proofs

| module | theorem | says |
|---|---|---|
| MessageQueueProofs | RingInvariant | `[](TypeOK /\ CursorsAgree /\ ValidSlotsWritten)` for every capacity |
| | RingImplementsFifo | `Spec => ImplementsFifo` for every capacity and set of messages |
| DatabaseAppProofs | TypeCorrect | `[]TypeOK` |
| | NewestAreQueued, WrittenInOrder | `[]QueueHoldsNewest`, `[]StoredInOrder` |
| | RepliesAreDrained, ReadyIsDurable | `[]ReplyMeansDrained`, `ReadySurvivesRestart` |
| | MessagesAccountedFor | `[]EveryMessageAccounted` |
| | WakeupsArrive | `[]NoLostWakeup` |
| DbManagerProofs | DbTypeCorrect, RowsStayInPlace, AnswersAreTrue | `[]TypeOK`, `[]RowsInPlace`, `[]AnswerIsTrue` |
| DbRetentionProofs | TablesAreLimited, CleanupSparesNewest | `[]TableLimitUpToFaults`, `CleanupKeepsNewest` |
| | AnswersAreKept | `[]AnsweredIsKept` |
| | SelectsFind, SelectsAreWhole | `[]SelectFindsStored`, `[]SelectIsWhole` |
| DatabaseServiceProofs | ServiceImplementsApp | `Spec => ImplementsApp`: the refinement, for all sizes |
| | ReadyIsInDatabase | `[]ReadyMeansInDatabase` |
| | ServiceKeepsPromises | ReadySurvivesRestart and NoLostWakeup of DatabaseApp, for the service |
| RequestsProofs | TokensAreEchoed, NoneIncomplete, RegistersAreAsSent, WellFormedAreQueued | the four properties of Requests, for every width and set of payloads |
| MqttClientProofs | ClientTypeCorrect, NoUnrecordedSession | `[]TypeOK`, `[]SessionIsRecorded` |
| | RunRestsSubscribed | `~SlowAnswers /\ Spec => []RestsSubscribed` |
| LogManagerProofs | LogTypeCorrect, LogFileIsBounded, SilenceIsBounded, ArchivesAreBounded, NoLineLost | `[]TypeOK`, `[]CurrentBounded`, `[]SilenceBounded`, `[]ArchivesBounded`, `LostOnlyByCleanup` |
| | OldestGoFirst | `OldestDeleted` |

They assume only the named assumptions of the modules (capacities are positive
numbers, bounds are numbers, sets of dates and topics are finite, the tables inherited
are within the limit, ...), and RunRestsSubscribed, in its statement, that no answer
outlasts the 5 s waited for it: TLC refutes `RestsSubscribed` without that.

*The ring.* The invariant adds to the types that `tail_` is `count_` positions after
`head_` and that the valid slots hold messages. The refinement rests on `IndexShift`:
position `k` from the slot after `head_` is position `k + 1` from `head_`, and a full
turn comes back to `head_`. In the full branch of `write` this makes the overwritten
slot the last of the new contents.

*The application.* `TypeOK` alone is not inductive: the reader writes what it read, so
`HandFull` says that it holds an accepted message when it is about to write.
`QueueHoldsNewest` with `HandInOrder` (the message in hand is older than the ring's)
gives the order. `HandshakeInv` follows a request: if it came before the reader's last
read, then the flags are set only after an empty read that is later than the request,
and nothing can be queued until the reply, since the callback itself is what queues.
`PromiseInv` (everything pending is newer than the last promise) carries that to a
later restart, and `StoreInv` orders the database before all of it. `AccountInv` lays
out the fates as five disjoint sets; the queue being an interval of the newest
numbers, a step moves one message, or all of memory, from one to another. `SleepInv`
adds to `NoLostWakeup` that an open request has one of the two flags set, and that
only threads at their wait are blocked.

*The database.* `PlaceInv` is the types, each row in its place, and `RowsBehind`: no
table holds a row of the write in progress beyond the registers `insertRow()` was
called for, so the next one is new and comes last. `AnswerInv` follows `allSuccess`
through a write: nothing has failed before the inserts (`BeforeInsert`), and during
them it is true exactly when every register so far has its row (`Inserting`).

*What the database keeps.* `LimitInv` counts tables. `TableLimitUpToFaults` is not
inductive: during the drops it must be known that what the snapshot spares is within
the limit (`Listed(c) \ doomed`), and a listing cut short or a failed drop is paid for
by its fault. `NewestFew` is the fact behind it: all but the elements with `n` greater
ones are at most `n`. `CleanupInv` says that whatever is still doomed has `MaxTables`
newer tables, each of them still there or `taken` from under this write. From both, a
step either only adds rows and tables or removes one table with enough newer ones
(`StepGrows`), so `KeptInv` carries each answered write to that day. `SelectInv` says
of everything a search owes that it is still whole, in a table yet to be scanned, or is
found already; `WholeTable` then gives all its registers.

*The service.* Nothing about the ring, the statements or the threads is proved twice:
DatabaseServiceProofs instantiates the three proof modules the way DatabaseService
instantiates the three modules, and shows that each of its steps is a step or a
stutter of each. `SvcInv` holds the ring's and the database's invariants, that the
writer works on the reader's message and only in *store* (`Synced`), and that what
counts as stored was answered true (`StoredAnswered`). The refinement then maps a
write's statements to stutters and its end to `ReaderStore`. `ReadyIsInDatabase`
combines `ReplyMeansDrained` and `EveryMessageAccounted` of the abstract application
(nothing pending, so a message without another fate is stored) with `KeptInv` of the
database (what was stored is there).

*The requests.* `OutcomeInv` says that an outcome is `Outcome(topic, payload)`, a
refusal to reply, or none yet; the rest is arithmetic: a number that fits comes
unchanged out of `Wrapped`, and an address key is visited if it is the only one.

*The client.* `MainFirst` adds to the types that `main` changes the list only before
`run()` is started, needed where `unsubscribe()` shortens the list that
`resubscribe()` walks. `SessionInv` adds two facts to `SessionIsRecorded`. Without a
link there is no session (`NoLinkNoSession`), needed where `subscribe()` takes a topic
back; and before `run()` is started a client that is not `connected_` has no session
(`BeforeRun`), needed where `unsubscribe()` then tells the broker nothing. `RestInv`
is about a client that the library has not overtaken. `Control` tells what
`connected_` can still say of an older connection: it is false wherever the loop
thread is about to reconnect or `run()` is, and a CONNECT is out only while its sender
waits for the answer (`AnswersAwaited`), so that `on_connect` never comes behind
`run()`'s back. `Subscribed` follows `resubscribe()` through the list on a connection
that lasts (`SubscribedSoFar`) to the next poll (`SubscribedAtRest`).

*The logger.* `LineCounted` adds to the types that there is a line when one is being
written. `BoundInv` says that an open file has at least the size it holds and was
silent for (`OpenCounted`), that a line is only written where there is room for it up
to the faults so far (`RoomToWrite`, `RoomToOpen`), and that the log file is empty
once it was moved away (`MovedAway`). `KeptInv` follows each shell under a name that is
not `reused`: no other shell works on that name (`OneShell`), and `rm` is only reached
when the archive holds the lines of the file, if no clean-up has unlinked it
(`InStep`). `ArchiveInv` bounds a `Balance`: the archives there are and those that
shells have yet to make, less the shells that outlived their process; a rotation adds
one, which its clean-up takes away again but for the faults, and which the end of the
process, if it leaves the shell behind, sets against that shell. `OrderInv`: while the
clock runs forward no archive is of the future, the one being made gets the latest
name (`TargetIsNewest`), and names and mtimes are in the same order but for the
archives of outlived shells (`InOrder`); the archives outside the surplus are then
`max_log_files` later ones.

*Model-checked only.* The five liveness properties of section 2, since fairness is
beyond the prover, and the violations, which are counterexamples.

## 6. Not modelled

- json.hpp, sqlite3.h, sqlite3ext.h and the mosquitto headers are third-party
  interfaces and make up 97% of the repository's lines. What the program relies on is
  in the modules that call them: SQLite's statements in DbManager, the loop thread, its
  reconnect and its callbacks in MqttClient. Of json.hpp, whose source is here, the
  type tests and `get<int>()` are operators of Requests, mapped to their lines.
- The exit path of `main` (314-322) is dead code: nothing sets `g_running` to false.
- The setters and destructors, how directories are created (that it may fail is in
  `Start`), the formatting of times and levels, the wording of log lines and payloads,
  and the contents of columns other than the register: no property is about them. The
  `id` of a row is that of the message of its write.
- The pid file of `S90database.sh`: the script's stop and restart are `Restart` and
  `Crash`.
- The 60 s, 5 s, 1 s and 100 ms of the code are not measured. Timers may fire at any
  time; a wait that would end in time is one whose answer can still come.
- Data races on `connected_` and `running_`, plain volatile bools: each access is
  atomic here, as it is on the ARM target.
