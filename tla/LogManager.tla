----------------------------- MODULE LogManager -----------------------------
(***************************************************************************)
(* log_manager.hpp: the log file, its rotation and its archives.           *)
(*                                                                         *)
(* log() and init() run under log_mutex, so the threads of the program     *)
(* take turns and one walk through the code (pc) is enough; what can come  *)
(* between two of its steps is the clock, a failing system call, the end   *)
(* of the process, and the shell that popen() starts for "tar && rm".  The *)
(* init script ends the process alone, so that shell goes on beside the    *)
(* next one.  A line is the number of its log() call, every line has size  *)
(* 1, and lines below current_level are not considered.  A rotated file is *)
(* named by the second of its rotation.                                    *)
(***************************************************************************)
EXTENDS Integers, FiniteSets

CONSTANTS SizeThreshold, \* size_threshold, in lines
          TimeInterval,  \* time_interval, in seconds
          MaxLogFiles,   \* max_log_files
          Word,          \* 2^64: differences of times are compared unsigned
          MaxLines,      \* bound: log() calls
          MaxSeconds,    \* bound: the clock
          MaxFaults,     \* bound: failing or killed system calls and commands
          MaxSetbacks,   \* bound: times the clock is set back
          MaxRestarts    \* bound: ends of the process

ASSUME LogAssumption ==
  /\ {SizeThreshold, TimeInterval, MaxLogFiles, Word} \subseteq Nat \ {0}
  /\ {MaxLines, MaxSeconds, MaxFaults, MaxSetbacks, MaxRestarts} \subseteq Nat
  /\ MaxSeconds < Word /\ TimeInterval < Word

VARIABLES
  pc,       \* "down", "idle" or the next step of log() or init()
  target,   \* rotate_filename
  open,     \* log_file.is_open()
  good,     \* is the stream without error?
  size,     \* current_file_size
  created,  \* file_create_time
  current,  \* the lines of the log file
  files,    \* the rotated files, compressed (zip) or not
  shell,    \* shell[n]: the shell of compressLogFile() in the process of n restarts
  reused,   \* history: names rotated to while a file or a shell had them
  now,      \* the system clock
  logged,   \* how many lines log() was given; the last one may be in progress
  missed,   \* lines given to an open log file since it was last good
  faults, setbacks, restarts

stream == <<open, good, size, created>>
disk == <<current, files>>
commands == <<shell, reused>>
bounds == <<now, logged, missed, faults, setbacks, restarts>>
vars == <<pc, target, stream, disk, commands, bounds>>

Lives == 0 .. MaxRestarts
NoShell == [name |-> 0, lines |-> {}, step |-> "none"]

File(name, zip, lines, mtime) ==
  [name |-> name, zip |-> zip, lines |-> lines, mtime |-> mtime]

Archives == {f \in files : f.zip}
Source(name) == {f \in files : f.name = name /\ ~f.zip}
Archive(name) == {f \in Archives : f.name = name}
Running(i) == shell[i].step \in {"tar", "fill", "rm"}
Outlived == {i \in Lives : i < restarts /\ shell[i].step # "none"}
OnDisk == current \cup UNION {f.lines : f \in files}

Init ==
  /\ pc = "down" /\ target = 0
  /\ open = FALSE /\ good = FALSE /\ size = 0 /\ created = 0
  /\ current = {} /\ files = {}
  /\ shell = [i \in Lives |-> NoShell] /\ reused = {}
  /\ now = 0 /\ logged = 0 /\ missed = 0
  /\ faults = 0 /\ setbacks = 0 /\ restarts = 0

Works == faults' = faults
Fails == faults < MaxFaults /\ faults' = faults + 1

(* A file takes the place of one of the same name and kind. *)
Put(f) == files' = {g \in files : g.name # f.name \/ g.zip # f.zip} \cup {f}
-----------------------------------------------------------------------------
SizeForgotten == 0
SizeFound == Cardinality(current)

(* openNewLogFile(): the file is appended to if it is there. *)
OpenWorks ==
  /\ Works
  /\ open' = TRUE /\ good' = TRUE
  /\ size' = SizeFound
  /\ created' = now
  /\ missed' = 0

(* init(), up to the clean-up; when it fails, in createDirectory() or in    *)
(* openNewLogFile(), main() returns.                                        *)
Start ==
  /\ pc = "down"
  /\ \/ OpenWorks /\ pc' = "cleanup"
     \/ Fails /\ UNCHANGED <<stream, pc, missed>>
  /\ UNCHANGED <<target, disk, commands, now, logged, setbacks, restarts>>

MustRotate ==
  open /\ (size >= SizeThreshold \/ (now - created) % Word >= TimeInterval)

(* log(): is a rotation due? *)
Log ==
  /\ pc = "idle"
  /\ logged < MaxLines /\ logged' = logged + 1
  /\ pc' = IF MustRotate THEN "rename" ELSE "write"
  /\ UNCHANGED <<target, stream, disk, commands, now, missed, faults, setbacks,
                 restarts>>

(* Does a file or a running shell have the name already? *)
NameTaken(name) ==
  \/ \E f \in files : f.name = name
  \/ \E i \in Lives : Running(i) /\ shell[i].name = name

KeepOpen == open' = open
Close == open' = FALSE

(* rotateLog(): the log file is closed and gets the name of this second.    *)
Rename ==
  /\ pc = "rename"
  /\ Close
  /\ target' = now
  /\ \/ /\ Works
        /\ Put(File(now, FALSE, current, now))
        /\ current' = {}
        /\ reused' = IF NameTaken(now) THEN reused \cup {now} ELSE reused
        /\ pc' = "compress"
     \/ Fails /\ pc' = "open" /\ UNCHANGED <<disk, reused>>
  /\ UNCHANGED <<good, size, created, shell, now, logged, missed, setbacks, restarts>>

(* compressLogFile(): without a source, or when popen() fails, there is no  *)
(* shell.                                                                   *)
Compress ==
  /\ pc = "compress"
  /\ \/ /\ Works /\ Source(target) # {}
        /\ shell' = [shell EXCEPT ![restarts] = [NoShell EXCEPT !.name = target,
                                                                !.step = "tar"]]
        /\ pc' = "wait"
     \/ /\ (Works /\ Source(target) = {}) \/ Fails
        /\ pc' = "cleanup" /\ UNCHANGED shell
  /\ UNCHANGED <<target, stream, disk, reused, now, logged, missed, setbacks, restarts>>

(* pclose() returns with the end of the shell.                              *)
Wait ==
  /\ pc = "wait" /\ shell[restarts].step = "done"
  /\ shell' = [shell EXCEPT ![restarts] = NoShell]
  /\ pc' = "cleanup"
  /\ UNCHANGED <<target, stream, disk, reused, bounds>>

ExcessLessOne == Cardinality(Archives) - MaxLogFiles - 1
Excess == Cardinality(Archives) - MaxLogFiles

NewestFirst(f, g) == f.mtime >= g.mtime
OldestFirst(f, g) == f.mtime <= g.mtime

(* cleanupOldLogs(): the surplus archives with the smallest mtime, in any   *)
(* order when it is equal; the scan, or some unlinks, may fail.             *)
Cleanup ==
  /\ pc = "cleanup"
  /\ \E surplus \in SUBSET Archives :
       /\ Cardinality(surplus) = IF Excess > 0 THEN Excess ELSE 0
       /\ \A f \in surplus, g \in Archives \ surplus : OldestFirst(f, g)
       /\ \/ Works /\ files' = files \ surplus
          \/ Fails /\ \E gone \in SUBSET surplus : files' = files \ gone
  /\ pc' = IF open THEN "idle" ELSE "open"
  /\ UNCHANGED <<target, stream, current, commands, now, logged, missed, setbacks,
                 restarts>>

(* The end of rotateLog(). *)
Reopen ==
  /\ pc = "open"
  /\ \/ OpenWorks
     \/ Fails /\ UNCHANGED <<stream, missed>>
  /\ pc' = "write"
  /\ UNCHANGED <<target, disk, commands, now, logged, setbacks, restarts>>

SizeOfWritten(ok) == IF ok THEN size + 1 ELSE size
SizeAfter(ok) == size + 1

(* The rest of log().  A failed write leaves the stream in error until it   *)
(* is opened again; current_file_size grows all the same.                   *)
Write ==
  /\ pc = "write"
  /\ \/ open /\ good /\ Works
        /\ current' = current \cup {logged} /\ size' = SizeAfter(TRUE)
        /\ UNCHANGED <<good, missed>>
     \/ open /\ good /\ Fails
        /\ good' = FALSE /\ size' = SizeAfter(FALSE) /\ missed' = missed + 1
        /\ UNCHANGED current
     \/ open /\ ~good /\ Works
        /\ size' = SizeAfter(FALSE) /\ missed' = missed + 1
        /\ UNCHANGED <<good, current>>
     \/ ~open /\ Works /\ UNCHANGED <<good, size, missed, current>>
  /\ pc' = "idle"
  /\ UNCHANGED <<target, open, created, files, commands, now, logged, setbacks,
                 restarts>>
-----------------------------------------------------------------------------
(* The shell: tar -zcf <name>.tar.gz <name> && rm -f <name>, on its own.    *)
Goes(i, step) == shell' = [shell EXCEPT ![i].step = step]
ShellKeeps ==
  UNCHANGED <<pc, target, stream, current, reused, now, logged, missed, setbacks,
              restarts>>

AfterTar(ok) == IF ok THEN "rm" ELSE "done"
AlwaysRm(ok) == "rm"
RmAfter(ok) == AfterTar(ok)

(* tar creates the archive, empty, and then reads the file.                 *)
ShellOpens(i) ==
  /\ shell[i].step = "tar"
  /\ \/ /\ Works /\ Put(File(shell[i].name, TRUE, {}, now))
        /\ \E f \in Source(shell[i].name) :
             shell' = [shell EXCEPT ![i].lines = f.lines, ![i].step = "fill"]
     \/ /\ Works /\ Put(File(shell[i].name, TRUE, {}, now))
        /\ Source(shell[i].name) = {} /\ Goes(i, RmAfter(FALSE))
     \/ Fails /\ UNCHANGED files /\ Goes(i, RmAfter(FALSE))
  /\ ShellKeeps

(* tar writes it, unseen when a clean-up has unlinked it in the meantime.   *)
(* When it fails or is killed the archive is left useless.                  *)
ShellFills(i) ==
  /\ shell[i].step = "fill"
  /\ \/ /\ Works /\ Goes(i, RmAfter(TRUE))
        /\ IF Archive(shell[i].name) = {}
             THEN UNCHANGED files
             ELSE Put(File(shell[i].name, TRUE, shell[i].lines, now))
     \/ Fails /\ UNCHANGED files /\ Goes(i, RmAfter(FALSE))
  /\ ShellKeeps

ShellRm(i) ==
  /\ shell[i].step = "rm"
  /\ \/ Works /\ files' = files \ Source(shell[i].name)
     \/ Fails /\ UNCHANGED files
  /\ Goes(i, "done")
  /\ ShellKeeps
-----------------------------------------------------------------------------
(* The world. *)
Tick ==
  /\ now < MaxSeconds /\ now' = now + 1
  /\ UNCHANGED <<pc, target, stream, disk, commands, logged, missed, faults, setbacks,
                 restarts>>

StepBack ==
  /\ setbacks < MaxSetbacks /\ setbacks' = setbacks + 1
  /\ \E t \in 0 .. now - 1 : now' = t
  /\ UNCHANGED <<pc, target, stream, disk, commands, logged, missed, faults, restarts>>

(* The process is killed (S90database.sh signals nothing else): its shell,  *)
(* if one is running, goes on.                                              *)
Crash ==
  /\ pc # "down"
  /\ restarts < MaxRestarts /\ restarts' = restarts + 1
  /\ pc' = "down" /\ open' = FALSE
  /\ shell' = IF Running(restarts) THEN shell ELSE [shell EXCEPT ![restarts] = NoShell]
  /\ UNCHANGED <<target, good, size, created, disk, reused, now, logged, missed, faults,
                 setbacks>>

Next ==
  \/ Start
  \/ Log \/ Rename \/ Compress \/ Wait \/ Cleanup \/ Reopen \/ Write
  \/ \E i \in Lives : ShellOpens(i) \/ ShellFills(i) \/ ShellRm(i)
  \/ Tick \/ StepBack \/ Crash

Spec == Init /\ [][Next]_vars
-----------------------------------------------------------------------------
FileType ==
  [name : 0 .. MaxSeconds, zip : BOOLEAN, lines : SUBSET (1 .. MaxLines),
   mtime : 0 .. MaxSeconds]

ShellType ==
  [name : 0 .. MaxSeconds, lines : SUBSET (1 .. MaxLines),
   step : {"none", "tar", "fill", "rm", "done"}]

(* The process has a shell exactly while it waits for one; lives to come    *)
(* have none.                                                               *)
OwnShell ==
  /\ \A i \in Lives : i > restarts => shell[i].step = "none"
  /\ IF pc = "wait" THEN shell[restarts].step # "none" /\ shell[restarts].name = target
                    ELSE shell[restarts].step = "none"

(* Types; one file per name and kind; the log file is closed while its      *)
(* lines are moved away, and the process waits for its own shell.           *)
TypeOK ==
  /\ pc \in {"down", "idle", "rename", "compress", "wait", "cleanup", "open", "write"}
  /\ target \in 0 .. MaxSeconds
  /\ open \in BOOLEAN /\ good \in BOOLEAN
  /\ pc \in {"down", "compress", "wait", "open"} => ~open
  /\ size \in Nat /\ created \in 0 .. MaxSeconds
  /\ current \subseteq 1 .. logged
  /\ files \subseteq FileType
  /\ \A f, g \in files : f.name = g.name /\ f.zip = g.zip => f = g
  /\ shell \in [Lives -> ShellType] /\ reused \subseteq 0 .. MaxSeconds
  /\ OwnShell
  /\ now \in 0 .. MaxSeconds
  /\ logged \in 0 .. MaxLines /\ missed \in Nat
  /\ faults \in 0 .. MaxFaults /\ setbacks \in 0 .. MaxSetbacks
  /\ restarts \in 0 .. MaxRestarts

(* The log file holds at most one rotation's worth of lines, plus one for   *)
(* each rename that failed, across restarts, too.                           *)
CurrentBounded == Cardinality(current) <= SizeThreshold + faults

(* log_manager.hpp:361: no more than max_log_files archives outside a       *)
(* rotation; each failed deletion may leave one more, and so may each shell *)
(* that outlived its process, for the next clean-up.                        *)
ArchivesBounded ==
  pc \in {"idle", "rename", "compress", "open", "write"} =>
     Cardinality(Archives) <= MaxLogFiles + faults + Cardinality(Outlived)

(* A failed write silences the log until the file is opened again, which    *)
(* is at most one file's worth of lines later.                              *)
SilenceBounded == open => missed <= SizeThreshold

(* A line on disk goes only with a clean-up of its archive, which for a     *)
(* shell that outlived its process may come before rm has taken the file,   *)
(* or when a rotation reuses a name: not in a rename, a failed or killed    *)
(* tar, an rm, or a restart.                                                *)
LostOnlyByCleanup ==
  [][\A l \in OnDisk \ OnDisk' :
       \/ pc = "cleanup" /\ pc' # pc
       \/ \E f \in files : l \in f.lines /\ f.name \in reused'
       \/ \E i \in Outlived : /\ shell[i].step = "rm" /\ l \in shell[i].lines
                              /\ Archive(shell[i].name) = {}]_vars

(* log_manager.hpp:286: an archive that the clean-up deletes had at least   *)
(* max_log_files others of later rotations, also when it goes only partly   *)
(* through, unless the clock was set back; two archives of the same mtime   *)
(* may change places, and a shell that outlived its process dates its       *)
(* archive late.                                                            *)
OldestDeleted ==
  [][pc = "cleanup" /\ pc' # pc /\ setbacks = 0 =>
       \A f \in Archives \ Archives' :
          Cardinality({g \in Archives \ {f} :
                         \/ f.name < g.name \/ f.mtime = g.mtime
                         \/ \E i \in Outlived : shell[i].name = g.name})
            >= MaxLogFiles]_vars

(* log_manager.hpp:195: rotate when the size or the time is exceeded. *)
RotatesWhenDue ==
  [][pc' = "rename" /\ pc # "rename" =>
       size >= SizeThreshold \/ now - created >= TimeInterval]_vars
=============================================================================
